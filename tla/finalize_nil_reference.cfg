SPECIFICATION Spec
CONSTANTS
    MaxGen = 1
    MaxKeys = 1
    MaxIssuerKeys = 1
    SKs = {"sk1"}
    IssuerOf <- OnlyReady
    Hazards = {"apiFault", "delete"}
    MaxDisturbances = 1
INVARIANTS
    FinalizesOnHappyPath
CHECK_DEADLOCK FALSE
