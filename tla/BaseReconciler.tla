--------------------------- MODULE BaseReconciler ---------------------------
(***************************************************************************)
(* The steps that the Operator, Account and User reconcilers share         *)
(* (internal/controller/accounts/base_controller.go), each as the set of   *)
(* outcomes it can have on a given state of the cluster.                   *)
(*                                                                         *)
(* An outcome says what the step left in the API server, what it returned  *)
(* (value, result, err), and whether it took a fault of the API server: a  *)
(* call that was refused, or one that was carried out although its answer  *)
(* was lost.  The calls of one step are taken together, but for a JWT      *)
(* Secret that is deleted between the Get and the Update.                  *)
(***************************************************************************)
EXTENDS ReconcileErrors, Integers

(* reconcile.Result: Zero is "go on", Requeue is Result{Requeue: true}.    *)
Zero == "zero"
Requeue == "requeue"

Clean == "none"
Fault == "apiFault"
Gone == "jwtGone"

NoKey == 0

(* A seed Secret.  "bad": no seed entry, a seed that does not parse, or a  *)
(* Secret controlled by another object.  managed: labelled, owned and      *)
(* protected the way KeyPairSecretBuilder leaves it.                       *)
SeedAbsent == [kind |-> "absent", key |-> NoKey, managed |-> FALSE]
SeedBad == [kind |-> "bad", key |-> NoKey, managed |-> FALSE]
SeedManaged(key) == [kind |-> "valid", key |-> key, managed |-> TRUE]
SeedPrecreated(key) == [kind |-> "valid", key |-> key, managed |-> FALSE]

SeedSecrets(keys) ==
    {SeedAbsent, SeedBad}
    \cup [kind : {"valid"}, key : keys, managed : BOOLEAN]

SeedOutcome(secret, key, result, err, fault) ==
    [secret |-> secret, key |-> key, result |-> result, err |-> err,
     fault |-> fault]

(* Mutant: one pair is stored, another is returned for the status.         *)
CreateSeedSecretTwice(newKey) ==
    {SeedOutcome(SeedManaged(newKey + 1), newKey, Requeue, NoError, Clean)}

(* createSeedSecret for the key pair newKP generates.                      *)
CreateSeedSecret(newKey) ==
    {SeedOutcome(SeedManaged(newKey), newKey, Requeue, NoError, Clean),
     SeedOutcome(SeedAbsent, NoKey, Requeue, TemporaryError(ConditionFailed), Fault),
     SeedOutcome(SeedManaged(newKey), NoKey, Requeue,
                 TemporaryError(ConditionFailed), Fault)}

EnsureSeedSecretUpToDate(got) ==
    IF got.kind = "bad"
    THEN {SeedOutcome(got, NoKey, Zero, TerminalError(ConditionFailed), Clean)}
    ELSE IF got.managed
    THEN {SeedOutcome(got, got.key, Zero, NoError, Clean)}
    ELSE {SeedOutcome(SeedManaged(got.key), got.key, Requeue, NoError, Clean),
          SeedOutcome(got, NoKey, Zero, TemporaryError(ConditionFailed), Fault),
          SeedOutcome(SeedManaged(got.key), NoKey, Zero,
                      TemporaryError(ConditionFailed), Fault)}

ReconcileSeedSecret(got, newKey) ==
    {SeedOutcome(got, NoKey, Zero, TemporaryError(ConditionUnknown), Fault)}
    \cup (IF got.kind = "absent" THEN CreateSeedSecret(newKey)
          ELSE EnsureSeedSecretUpToDate(got))

-----------------------------------------------------------------------------
(* A JWT Secret.  "noData": no JWT entry.  "foreign": controlled by        *)
(* another object.  claims is what its JWT decodes to, NoClaims when it    *)
(* has none or does not decode.                                            *)
NoClaims == [key |-> NoKey, gen |-> 0, iss |-> NoKey, sks |-> {}]

JWTSecret(kind, owned, claims) ==
    [kind |-> kind, owned |-> owned, claims |-> claims]

JWTAbsent == JWTSecret("absent", FALSE, NoClaims)

JWTSecrets(claims) ==
    {JWTAbsent, JWTSecret("noData", TRUE, NoClaims),
     JWTSecret("noData", FALSE, NoClaims), JWTSecret("foreign", FALSE, NoClaims)}
    \cup [kind : {"present"}, owned : BOOLEAN, claims : claims \cup {NoClaims}]

JWTOutcome(secret, result, err, fault) ==
    [secret |-> secret, result |-> result, err |-> err, fault |-> fault]

(* A write of the Secret next over the Secret before: it succeeds, it is   *)
(* refused, or it is carried out and its answer is lost.                   *)
WriteJWTSecret(before, next) ==
    {JWTOutcome(next, Requeue, NoError, Clean),
     JWTOutcome(before, Requeue, TemporaryError(ConditionFailed), Fault),
     JWTOutcome(next, Requeue, TemporaryError(ConditionFailed), Fault)}

CreateJWTSecret(want) ==
    WriteJWTSecret(JWTAbsent, JWTSecret("present", TRUE, want))

(* Mutant: any JWT that decodes is taken for up to date.                   *)
KeepDecodableJWT(got, want) ==
    IF got.claims # NoClaims
    THEN {JWTOutcome(got, Zero, NoError, Clean)}
    ELSE WriteJWTSecret(got, JWTSecret("present", TRUE, want))

(* The Update finds that the Secret has been deleted since the Get: it is  *)
(* created instead, which may fail as any create may.                      *)
RecreateJWTSecret(want) ==
    {[o EXCEPT !.fault = Gone] : o \in CreateJWTSecret(want)}

EnsureJWTSecretUpToDate(got, want) ==
    IF got.kind = "noData" /\ got.owned
    THEN {JWTOutcome(got, Zero, TemporaryError(ConditionUnknown), Fault),
          JWTOutcome(JWTAbsent, Zero, TemporaryError(ConditionUnknown), Fault)}
         \cup CreateJWTSecret(want)
    ELSE IF got.kind \in {"noData", "foreign"}
    THEN {JWTOutcome(got, Zero, TerminalError(ConditionFailed), Clean)}
    ELSE IF got.claims = want
    THEN {JWTOutcome(got, Zero, NoError, Clean)}
    ELSE WriteJWTSecret(got, JWTSecret("present", TRUE, want))
         \cup RecreateJWTSecret(want)

(* reconcileJWTSecret, the same for Account and User: Get, then create or  *)
(* bring up to date.                                                       *)
ReconcileJWTSecret(got, want) ==
    {JWTOutcome(got, Zero, TemporaryError(ConditionUnknown), Fault)}
    \cup (IF got.kind = "absent" THEN CreateJWTSecret(want)
          ELSE EnsureJWTSecretUpToDate(got, want))

(* What a user may put in the place of the JWT Secret: none, one without   *)
(* an entry or with a JWT that does not decode, or one that belongs to     *)
(* another object or to none, a copy of it included.  Only an owned Secret *)
(* is changed into another owned one.                                      *)
TamperedJWTSecrets(got) ==
    {next \in JWTSecrets({got.claims}) \ {got} : next.owned => got.owned}

(* The kind of disturbance that it is.  "foreignJWT" is a terminal error   *)
(* for the reconciler; a copy without an owner ("unownedJWT") is kept as   *)
(* it is, and its later deletion raises no event.                          *)
TamperingWith(next) ==
    IF next.kind \in {"noData", "foreign"} /\ ~next.owned THEN "foreignJWT"
    ELSE IF next.claims # NoClaims THEN "unownedJWT"
    ELSE "jwt"

-----------------------------------------------------------------------------
(* What a reconciler can see of its issuer through the informer cache:     *)
(* "unsupported" is a kind that is not in the scheme or has no key pair,   *)
(* "orphaned" a ready SigningKey whose owner is gone, "misowned" a         *)
(* SigningKey of the wrong kind of owner.                                  *)
IssuerViews ==
    {"unsupported", "absent", "notReady", "orphaned", "misowned", "ready"}

(* A cache read that fails for another reason than NotFound returns its    *)
(* condition error unwrapped.                                              *)
ReadFault == PlainError(ConditionUnknown)

(* Mutant: an issuer that is not ready yet is not waited for.              *)
ResolveIssuerOnce(issuer) ==
    IF issuer \in {"unsupported", "absent", "notReady"}
    THEN TerminalError(ConditionFailed) ELSE NoError

ResolveIssuer(issuer) ==
    IF issuer = "unsupported" THEN TerminalError(ConditionFailed)
    ELSE IF issuer \in {"absent", "notReady"} THEN TemporaryError(ConditionFailed)
    ELSE NoError

ResolveSigningKeyOwner(issuer) ==
    IF issuer = "orphaned" THEN TemporaryError(ConditionFailed) ELSE NoError

(* Mutant: the seed is not compared with the key pair in the status.       *)
IssuerSeedErrorUnchecked(keyPair, secret) ==
    IF secret.kind = "valid" THEN NoError ELSE TemporaryError(ConditionFailed)

(* loadIssuerSeed, as the User reconciler calls it: keyPair is the public  *)
(* key in the status of the issuer that was resolved, secret what the live *)
(* Get of its seed Secret returns.                                         *)
IssuerSeedError(keyPair, secret) ==
    IF keyPair = NoKey THEN PlainError(ConditionFailed)
    ELSE IF secret.kind = "absent" THEN TemporaryError(ConditionFailed)
    ELSE IF secret.kind = "bad" \/ secret.key # keyPair
    THEN TerminalError(ConditionFailed)
    ELSE NoError
=============================================================================
