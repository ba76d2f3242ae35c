SPECIFICATION Spec
CONSTANTS
    Names = {a}
    KeyPairs = {k1}
    Nil = Nil
    Resources <- UserResources
INVARIANT UserJWTGrantsSpec
