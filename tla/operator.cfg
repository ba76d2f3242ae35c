SPECIFICATION FairSpec
CONSTANTS
    MaxGen = 2
    MaxKeys = 2
    SKs = {"sk1"}
    Hazards = {"opEdit", "opDelete", "opSeed", "jwt", "sks", "account", "apiFault", "crash"}
    MaxDisturbances = 3
INVARIANTS
    TypeOK
    OperatorHasReferences
    QuietOperatorIsRight
PROPERTIES
    Converges
CHECK_DEADLOCK FALSE
