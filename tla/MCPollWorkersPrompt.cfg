\* No handler outlives its lease; crashes still end leases.  The version and
\* attempt bounds are above what MaxRequests and MaxCrashes allow, so they cut
\* no behaviour short.
SPECIFICATION FairSpec
CONSTANTS
    None = None
    Handler = {h1}
    Key = {k1}
    Ref = {}
    Worker = {w1, w2}
    Sweeper = {s1, s2}
    DkPoll = TRUE
    HandlersOutliveLease = FALSE
    Kinds = {"once", "throttle"}
    MaxAttempts = 2
    MaxRequests = 3
    MaxCrashes = 2
    MaxVersion = 8
    MaxAttempt = 5
INVARIANTS
    RunsNeverOverlap
    OnFailureOnce
PROPERTIES
    RequeueOnlyOnNewEvents
    EventuallySettles
CHECK_DEADLOCK FALSE
