SPECIFICATION Spec
CONSTANTS
    Names = {a, b, c}
    KeyPairs = {k1, k2}
    Nil = Nil
    Resources <- AllResources
SYMMETRY Symmetry
INVARIANTS
    TypeOK
    AccountJWTGrantsSpec
    UserJWTBelongsToAccount
PROPERTIES
    NoOpUpdateIsStable
    UpdateMergesInOrder
    IdleReconcileWritesNothing
