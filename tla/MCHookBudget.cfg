\* Deploys without the handler, with one attempt, with as many as the scheduler
\* supports, and with more.
SPECIFICATION FairBudgetSpec
CONSTANTS
    None = None
    Handler = {h1}
    Key = {k1}
    Ref = {r1, r2, r3}
    Kinds = {"once", "throttle"}
    Configs = {0, 1, 3, 4}
    SchedulerMax = 3
    RetryCap = 2
    ProjectRetries = 1
    horizonMs = 2
    MaxRequests = 4
    MaxFaults = 2
    MaxVersion = 30
INVARIANTS
    BudgetTypeOK
    AttemptsCovered
PROPERTIES
    SettlesUnlessExcused
CHECK_DEADLOCK FALSE
