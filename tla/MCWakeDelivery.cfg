\* All races and liveness: crashes, failed Posthook calls, events at any time.
SPECIFICATION FairSpec
CONSTANTS
    None = None
    Handler = {h1}
    Key = {k1}
    Ref = {r1, r2, r3}
    Kinds = {"once", "debounce"}
    MaxAttempts = 2
    MaxRequests = 2
    MaxFaults = 1
    MaxVersion = 7
    MaxAttempt = 3
INVARIANTS
    TypeOK
    StrandedOnlyByLeak
PROPERTIES
    NoRequestClosedUnserved
    SettlesUnlessLeaked
CHECK_DEADLOCK FALSE
