SPECIFICATION Spec
CONSTANTS
    Dependents = {"SeedSecretReady", "OperatorResolved", "JWTSecretReady", "JWTPushed"}
    Informational = {"Informational"}
INVARIANTS
    TypeOK
    ReadySummarisesDependents
