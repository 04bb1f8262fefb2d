\* Two calls at once on one row, a once job or a throttle.
SPECIFICATION Spec
CONSTANTS
    None = None
    Handler = {h1}
    Key = {k1}
    Ref = {}
    JobId = {j1}
    Kinds = {"once", "throttle"}
    Waits = {1}
    MaxWaits = {}
    leaseMs = 0
    horizonMs = 1
    Attempts = {2}
    Delays = {1}
    Client = {c1, c2}
    MaxVersion = 3
    MaxAttempt = 1
    MaxTime = 2
SYMMETRY ClientSymmetry
INVARIANTS
    TypeOK
    FailsOnlyByRace
    DueAsPromised
CHECK_DEADLOCK FALSE
