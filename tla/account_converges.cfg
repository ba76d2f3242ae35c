SPECIFICATION FairSpec
CONSTANTS
    MaxGen = 2
    MaxKeys = 1
    MaxIssuerKeys = 2
    SKs = {"sk1"}
    IssuerOf <- FixedByEdit
    Hazards = {"issuer", "rotate", "sks", "apiFault", "natsFault", "crash", "oldList"}
    MaxDisturbances = 2
PROPERTIES
    Converges
