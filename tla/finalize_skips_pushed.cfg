SPECIFICATION Spec
CONSTANTS
    MaxGen = 1
    MaxKeys = 1
    MaxIssuerKeys = 1
    SKs = {"sk1"}
    IssuerOf <- OnlyReady
    Hazards = {"delete"}
    MaxDisturbances = 0
INVARIANTS
    SkippedMeansNotPushed
CHECK_DEADLOCK FALSE
