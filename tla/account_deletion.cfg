SPECIFICATION FairSpec
CONSTANTS
    MaxGen = 2
    MaxKeys = 2
    MaxIssuerKeys = 1
    SKs = {}
    IssuerOf <- BrokenByEdit
    Hazards = {"delete", "apiFault", "natsFault", "crash", "operator", "sys"}
    MaxDisturbances = 2
PROPERTIES
    DeletionCompletes
CHECK_DEADLOCK FALSE
