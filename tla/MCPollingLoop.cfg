\* One scheduler with two slots that serves two DelayKits in turn.
SPECIFICATION FairLoopSpec
CONSTANTS
    Chain = {c1, c2}
    maxConcurrent = 2
    interval = 2
    BACKOFF_MAX_MS = 4
    MaxLives = 2
    MaxFailures = 1
INVARIANTS
    LoopTypeOK
    CapHolds
    QuietAfterDrain
    DelayInBounds
PROPERTIES
    LoopsGoOn
    StopReturns
CHECK_DEADLOCK FALSE
