SPECIFICATION Spec
CONSTANTS
    MaxGen = 2
    MaxKeys = 2
    MaxIssuerKeys = 2
    SKs = {}
    IssuerOf <- AlwaysReady
    Hazards = {"seed", "badSeed", "jwt", "foreignJWT", "admits", "issuerSeed", "rotate", "apiFault", "natsFault", "crash", "delete"}
    MaxDisturbances = 2
INVARIANTS
    TypeOK
    FinalizerGuardsJWT
    SignedByPublishedKey
    ReadyHasReferences
    PushedIsOnNATS
    RecordedPushIsCleanedUp
    QuietReadyIsPublished
PROPERTIES
    NoPushAfterRemoval
    ImplementsPublication
CHECK_DEADLOCK FALSE
