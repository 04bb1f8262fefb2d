\* Two rows, a budget of one row per sweep, and two replicas with or without the handler.
SPECIFICATION FleetSpec
CONSTANTS
    None = None
    Handler = {h1}
    Key = {k1, k2}
    Ref = {}
    JobId = {j1, j2}
    Kinds = {"once"}
    Waits = {}
    MaxWaits = {}
    leaseMs = 0
    horizonMs = 2
    Attempts = {2}
    MaxAttempt = 2
    Replica = {r1,r2}
    UNKNOWN_DUE_BUDGET = 1
    DEFER_INITIAL_MS = 1
    DEFER_MAX_MS = 2
    MaxRowVersion = 4
    MaxTime = 6
    LastChange = 0
SYMMETRY MissingSymmetry
INVARIANTS
    FleetTypeOK
    HorizonsDoNotQueue
PROPERTIES
    ExpiresOnlyUnclaimed
CHECK_DEADLOCK FALSE
