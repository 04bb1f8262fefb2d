\* One row of a throttle and two sessions inside a method.
SPECIFICATION Spec
CONSTANTS
    None = None
    Handler = {h1}
    Key = {k1}
    Ref = {r1}
    JobId = {j1}
    Kinds = {"throttle"}
    Waits = {1}
    MaxWaits = {}
    leaseMs = 0
    horizonMs = 1
    Attempts = {1}
    Session = {s1, s2}
    MaxVersion = 3
    MaxAttempt = 1
    MaxTime = 2
SYMMETRY SessionSymmetry
INVARIANTS
    TypeOK
    RowsFitStatus
PROPERTIES
    MethodsStepAsInTable
