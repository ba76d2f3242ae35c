SPECIFICATION FairSpec
CONSTANTS
    MaxGen = 1
    MaxKeys = 2
    SKs = {}
    Hazards = {"opSeed", "seed", "natsFault", "crash"}
    MaxDisturbances = 1
PROPERTIES
    ChainOfTrust
CHECK_DEADLOCK FALSE
