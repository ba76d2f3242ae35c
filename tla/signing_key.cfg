SPECIFICATION FairSpec
CONSTANTS
    Names = {"a"}
    Secrets = {"s1", "s2"}
    MaxGen = 4
    MaxKeys = 3
    MaxUID = 2
    SpecOf <- MovedByEdits
    FirstSelector = "nil"
    Hazards = {"apiFault", "crash", "owner", "narrow", "tag", "ownedSecret", "precreated", "delete"}
    MaxDisturbances = 2
INVARIANTS
    TypeOK
    ReadyHasReferences
    PublishedKeyIsStored
PROPERTIES
    StatusFollowsSpec
    Converges
CHECK_DEADLOCK FALSE
