SPECIFICATION FairSpec
CONSTANTS
    MaxGen = 3
    MaxKeys = 2
    MaxIssuerKeys = 2
    IssuerOf <- MovedByEdits
    Hazards = {"edit", "delete", "seed", "jwt", "jwtGone", "creds", "foreignJWT", "foreignCreds", "account", "admits", "sk", "operator", "issuerSeed", "rotate", "apiFault", "crash", "oldList"}
    MaxDisturbances = 2
INVARIANTS
    TypeOK
    CredentialsFitTogether
    SignedByPublishedKey
    ReadyHasReferences
    QuietReadyIsRight
PROPERTIES
    Converges
CHECK_DEADLOCK FALSE
