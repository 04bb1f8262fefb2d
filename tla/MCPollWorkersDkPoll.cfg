\* Request-scoped dk.poll() alone: no polling scheduler sweeps.
SPECIFICATION Spec
CONSTANTS
    None = None
    Handler = {h1}
    Key = {k1}
    Ref = {}
    Worker = {w1}
    Sweeper = {}
    DkPoll = TRUE
    HandlersOutliveLease = FALSE
    Kinds = {"once"}
    MaxAttempts = 2
    MaxRequests = 0
    MaxCrashes = 3
    MaxVersion = 2
    MaxAttempt = 4
INVARIANTS
    AttemptWithinBudget
CHECK_DEADLOCK FALSE
