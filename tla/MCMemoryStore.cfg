\* Two ids compete for one (handler, key), as once rows and as windows.
SPECIFICATION Spec
CONSTANTS
    None = None
    Handler = {h1}
    Key = {k1}
    Ref = {}
    JobId = {j1, j2}
    Kinds = {"once", "debounce"}
    Waits = {1}
    MaxWaits = {}
    leaseMs = 0
    horizonMs = 1
    EVICTION_AGE = 0
    Attempts = {1}
    MaxVersion = 2
    MaxAttempt = 1
    MaxTime = 1
SYMMETRY IdSymmetry
INVARIANTS
    TypeOK
    KeyIndexNamesActive
    AtMostOneActive
    RowsFitStatus
PROPERTIES
    ImplementsTable
    VersionsGuardReaders
    CompletedIsFinal
