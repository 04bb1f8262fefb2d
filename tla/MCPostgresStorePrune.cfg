\* One once job, one session that prunes, and a retry by hand.
SPECIFICATION Spec
CONSTANTS
    None = None
    Handler = {h1}
    Key = {k1}
    Ref = {}
    JobId = {j1}
    Kinds = {"once"}
    Waits = {}
    MaxWaits = {}
    leaseMs = 0
    horizonMs = 1
    Attempts = {1}
    Session = {s1}
    MaxVersion = 3
    MaxAttempt = 1
    MaxTime = 1
PROPERTIES
    PruneSparesActive
