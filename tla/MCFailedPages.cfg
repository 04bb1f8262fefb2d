\* A walk over three rows in pages of one or two, two instants to a millisecond.
SPECIFICATION FairSpec
CONSTANTS
    None = None
    Handler = {h1}
    Key = {k1}
    Ref = {}
    JobId = {1, 2, 3}
    Kinds = {"once"}
    Waits = {}
    MaxWaits = {}
    leaseMs = 0
    horizonMs = 1
    Attempts = {1}
    MaxAttempt = 1
    Limits = {1, 2}
    ClockUnits = 2
    MaxVersion = 2
    MaxTime = 2
INVARIANTS
    TypeOK
    WalkComplete
    NothingTwice
PROPERTIES
    WalkEnds
CHECK_DEADLOCK FALSE
