\* Handlers may outlive their lease: two claims of one row can be in flight.
\* A crashed holder is one that never moves again, so no crash is added.
SPECIFICATION Spec
CONSTANTS
    None = None
    Handler = {h1}
    Key = {k1}
    Ref = {}
    Worker = {w1, w2}
    Sweeper = {s1}
    DkPoll = TRUE
    HandlersOutliveLease = TRUE
    Kinds = {"once", "throttle"}
    MaxAttempts = 2
    MaxRequests = 2
    MaxCrashes = 0
    MaxVersion = 4
    MaxAttempt = 3
SYMMETRY WorkerSymmetry
INVARIANTS
    TypeOK
    FailsOnlyExhausted
PROPERTIES
    NoRequestClosedUnserved
CHECK_DEADLOCK FALSE
