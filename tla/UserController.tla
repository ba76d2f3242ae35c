--------------------------- MODULE UserController ---------------------------
(***************************************************************************)
(* The User reconciler (internal/controller/accounts/user_controller.go)   *)
(* working on one User: its seed, JWT and credentials Secrets, the issuer  *)
(* that signs the JWT (an Account or a SigningKey of it), and users who    *)
(* change the cluster under it.                                            *)
(*                                                                         *)
(* A reconcile takes one step per call that leaves the process.  What an   *)
(* early step read and a later one uses is kept in a variable of its own:  *)
(* the seed, the issuer's public key and the JWT.  JWTs are compared by    *)
(* their claims; the CA certificate in the credentials is left out.        *)
(***************************************************************************)
EXTENDS ControllerRuntime

CONSTANTS
    MaxGen,         \* bound on .metadata.generation
    MaxKeys,        \* bound on the key pairs that are ever generated
    MaxIssuerKeys,  \* bound on the key pairs that the issuer ever has
    IssuerOf        \* generation -> what .spec.issuer refers to

Gens == 1 .. MaxGen
Keys == 1 .. MaxKeys
IssuerKeys == 1 .. MaxIssuerKeys

ASSUME UserBounds ==
    /\ MaxGen \in Nat \ {0}
    /\ MaxKeys \in Nat \ {0}
    /\ MaxIssuerKeys \in Nat \ {0}

(* "operator" and "misowned" (a SigningKey of an Operator) resolve, but    *)
(* not to an Account.                                                      *)
ASSUME IssuerOfAssumption ==
    IssuerOf \in [Gens -> {"account", "signingKey", "operator", "misowned",
                           "unsupported"}]

VARIABLES
    seed,           \* the seed Secret
    nextKey,        \* the key pair that nkeys.CreateUser returns next
    jwt,            \* the JWT Secret
    creds,          \* the credentials Secret
    seedKey,        \* seed in Reconcile, as its key pair
    issuerKey,      \* keyPairable, and then issuerKP, as its public key
    ujwt,           \* ujwt in Reconcile, as its claims
    env             \* what the User depends on

memory == <<seedKey, issuerKey, ujwt>>
secrets == <<seed, nextKey, jwt, creds>>
vars == <<runtime, secrets, memory, env>>

(* userConditionSet.                                                       *)
UserDependents ==
    {"SeedSecretReady", "AccountResolved", "IssuerResolved",
     "JWTSecretReady", "CredentialsSecretReady"}

UserTypes == UserDependents \cup {Happy}

Claims == [key : Keys, gen : Gens, iss : IssuerKeys, sks : {{}}]

(* .status; NoKey and FALSE stand for nil.                                 *)
UserStatuses ==
    [conds : ConditionLists(UserTypes), keyPair : Keys \cup {NoKey},
     accountRef : BOOLEAN]

NoStatus ==
    [conds |-> [t \in UserTypes |-> NoCondition], keyPair |-> NoKey,
     accountRef |-> FALSE]

(* label: the label that userAccountWatcher looks for names the Account.   *)
Users ==
    [exists : BOOLEAN, gen : Gens, label : BOOLEAN, status : UserStatuses]

NewUser == [exists |-> TRUE, gen |-> 1, label |-> FALSE, status |-> NoStatus]

(* A credentials Secret: the JWT and the seed in its nats.creds entry.     *)
(* "foreign": controlled by another object.                                *)
CredsSecret(kind, claims, key, owned) ==
    [kind |-> kind, claims |-> claims, seed |-> key, owned |-> owned]

CredsAbsent == CredsSecret("absent", NoClaims, NoKey, FALSE)
CredsForeign == CredsSecret("foreign", NoClaims, NoKey, FALSE)

CredsSecrets ==
    {CredsAbsent, CredsForeign} \cup
    [kind : {"present"}, claims : Claims \cup {NoClaims},
     seed : Keys \cup {NoKey}, owned : BOOLEAN]

(* account and sk: the Account and the SigningKey as the cache has them.   *)
(* key and seed: the public key in the cached status of the issuer, and    *)
(* its seed Secret, which is read live.  news: an event of the Account is  *)
(* on its way.  operator: the Account's Operator, from which the CA is     *)
(* taken, can be read.                                                     *)
Environments ==
    [account : {"absent", "notReady", "ready"}, sk : {"absent", "notReady", "ready"},
     key : IssuerKeys, seed : SeedSecrets(IssuerKeys), news : BOOLEAN,
     admits : {"yes", "no", "invalid"}, operator : BOOLEAN]

GoodEnvironment(key) ==
    [account |-> "ready", sk |-> "ready", key |-> key, seed |-> SeedManaged(key),
     news |-> FALSE, admits |-> "yes", operator |-> TRUE]

(* The claims CreateUserClaims signs for a copy of the User.               *)
ClaimsOf(u, iss) ==
    [key |-> u.status.keyPair, gen |-> u.gen, iss |-> iss, sks |-> {}]

Steps ==
    {"seed", "issuer", "account", "labels", "issuerSeed", "jwt", "ca", "creds"}

Init ==
    /\ RuntimeInit(NewUser)
    /\ \/ seed = SeedAbsent /\ nextKey = 1
       \/ seed = SeedPrecreated(1) /\ nextKey = 2
    /\ jwt = JWTAbsent
    /\ creds = CredsAbsent
    /\ seedKey = NoKey
    /\ issuerKey = NoKey
    /\ ujwt = NoClaims
    /\ env = GoodEnvironment(1)

-----------------------------------------------------------------------------
(* The lifecycle methods of UserStatus.                                    *)

MarkUserTrue(u, t) ==
    [u EXCEPT !.status.conds = MarkTrue(@, UserDependents, t)]

MarkUserError(u, t, err) ==
    [u EXCEPT !.status.conds = MarkCondition(@, UserDependents, t, err)]

MarkSeedSecretReady(u, key) ==
    MarkUserTrue([u EXCEPT !.status.keyPair = key], "SeedSecretReady")

MarkSeedSecretError(u, err) ==
    MarkUserError([u EXCEPT !.status.keyPair = NoKey], "SeedSecretReady", err)

MarkAccountResolved(u) ==
    MarkUserTrue([u EXCEPT !.status.accountRef = TRUE], "AccountResolved")

(* Mutant: the reference is cleared, its condition is not.                 *)
ForgetAccount(u, err) == [u EXCEPT !.status.accountRef = FALSE]

MarkAccountResolveError(u, err) ==
    MarkUserError([u EXCEPT !.status.accountRef = FALSE], "AccountResolved", err)

Failed == PlainError(ConditionFailed)

-----------------------------------------------------------------------------
(* The reconcile.                                                          *)

Start ==
    /\ StartReconcile("seed", UserDependents)
    /\ UNCHANGED <<secrets, memory, env>>

(* An owned Secret that is created, changed or deleted enqueues its owner. *)
SeedSecret ==
    /\ pc = "seed"
    /\ \E o \in ReconcileSeedSecret(seed, nextKey) :
        /\ Pays(o.fault)
        /\ seed' = o.secret
        /\ nextKey' = IF o.secret.key = nextKey THEN nextKey + 1 ELSE nextKey
        /\ queued' = (queued \/ o.secret # seed)
        /\ seedKey' = o.key
        /\ IF o.err # NoError
           THEN Return(MarkSeedSecretError(obj, o.err), AsResult(o.err))
           ELSE ContinueUnless(o.result = Requeue, "issuer",
                               MarkSeedSecretReady(obj, o.key))
    /\ UNCHANGED <<server, objFresh, orig, jwt, creds, issuerKey, ujwt, env>>

(* What resolveIssuer finds in the cache under .spec.issuer.               *)
Issuer(gen) ==
    CASE IssuerOf[gen] = "account" -> env.account
      [] IssuerOf[gen] \in {"signingKey", "misowned"} -> env.sk
      [] IssuerOf[gen] = "operator" -> "ready"
      [] IssuerOf[gen] = "unsupported" -> "unsupported"

(* The issuer's key pair is remembered with the issuer.                    *)
ResolveIssuerStep ==
    /\ pc = "issuer"
    /\ LET issuer == Issuer(obj.gen)
           fail(e) == /\ Return(MarkUserError(obj, "IssuerResolved", e), AsResult(e))
                      /\ UNCHANGED issuerKey
       IN  \/ /\ UNCHANGED budget
              /\ IF ResolveIssuer(issuer) # NoError
                 THEN fail(ResolveIssuer(issuer))
                 ELSE Continue("account", obj) /\ issuerKey' = env.key
           \/ /\ issuer # "unsupported"
              /\ Disturb(Fault)
              /\ fail(ReadFault)
    /\ UNCHANGED <<server, queued, objFresh, orig, secrets, seedKey, ujwt, env>>

(* A SigningKey's owner is read again, from the cache.                     *)
OwnerIsMissing(gen) == IssuerOf[gen] = "signingKey" /\ env.account = "absent"
OwnerIsNotReady(gen) == IssuerOf[gen] = "signingKey" /\ env.account = "notReady"

(* resolveAccount and validateAccountSelector, where they mark the         *)
(* condition and return an error, or return none.                          *)
AccountError(gen) ==
    IF IssuerOf[gen] \in {"operator", "misowned"} THEN TerminalError(ConditionFailed)
    ELSE IF OwnerIsMissing(gen) THEN TemporaryError(ConditionFailed)
    ELSE IF env.admits = "no" THEN TerminalError(ConditionFailed)
    ELSE IF env.admits = "invalid" THEN TerminalError(OtherCause)
    ELSE NoError

(* An owner that is not ready is waited for without a mark: the conditions *)
(* stay as they were.                                                      *)
ResolveAccountStep ==
    /\ pc = "account"
    /\ LET err == AccountError(obj.gen)
           fail(e) == Return(MarkAccountResolveError(obj, e), AsResult(e))
       IN  \/ /\ OwnerIsNotReady(obj.gen)
              /\ Return(obj, TRUE)
              /\ UNCHANGED budget
           \/ /\ ~OwnerIsNotReady(obj.gen)
              /\ UNCHANGED budget
              /\ IF err # NoError THEN fail(err)
                 ELSE Continue("labels", MarkAccountResolved(obj))
           \/ /\ IssuerOf[obj.gen] \in {"signingKey", "misowned"}
              /\ Disturb(Fault)
              /\ fail(ReadFault)
           \/ /\ ~OwnerIsNotReady(obj.gen)
              /\ IssuerOf[obj.gen] \notin {"operator", "misowned"}
              /\ Disturb(Fault)
              /\ fail(TemporaryError(OtherCause))
    /\ UNCHANGED <<server, queued, objFresh, orig, secrets, memory, env>>

ReconcileLabels ==
    /\ pc = "labels"
    /\ \/ /\ obj.label
          /\ Continue("issuerSeed", obj)
          /\ UNCHANGED <<server, objFresh, budget>>
       \/ ~obj.label /\ UpdateResource([res EXCEPT !.label = TRUE], NoStatus)
    /\ UNCHANGED <<queued, orig, secrets, memory, env>>

(* The first half of reconcileJWTSecret.  Its error marks IssuerResolved   *)
(* and, in Reconcile, JWTSecretReady too.                                  *)
LoadIssuerSeed ==
    /\ pc = "issuerSeed"
    /\ LET err == IssuerSeedError(issuerKey, env.seed)
           fail(e) == /\ Return(MarkUserError(MarkUserError(obj, "IssuerResolved", e),
                                              "JWTSecretReady", e), AsResult(e))
                      /\ UNCHANGED issuerKey
       IN  \/ /\ UNCHANGED budget
              /\ IF err # NoError THEN fail(err)
                 ELSE /\ Continue("jwt", MarkUserTrue(obj, "IssuerResolved"))
                      /\ issuerKey' = env.seed.key
           \/ Disturb(Fault) /\ fail(ReadFault)
    /\ UNCHANGED <<server, queued, objFresh, orig, secrets, seedKey, ujwt, env>>

(* The JWT that goes into the credentials is the one found to be in order. *)
JWTSecretStep ==
    /\ pc = "jwt"
    /\ \E o \in ReconcileJWTSecret(jwt, ClaimsOf(obj, issuerKey)) :
        /\ Pays(o.fault)
        /\ jwt' = o.secret
        /\ queued' = (queued \/ o.secret # jwt)
        /\ ujwt' = o.secret.claims
        /\ IF o.err # NoError
           THEN Return(MarkUserError(obj, "JWTSecretReady", o.err), AsResult(o.err))
           ELSE ContinueUnless(o.result = Requeue, "ca",
                               MarkUserTrue(obj, "JWTSecretReady"))
    /\ UNCHANGED <<server, objFresh, orig, seed, nextKey, creds, seedKey,
                   issuerKey, env>>

(* getCAIfExists: an Operator without a CA is in order, one that cannot be *)
(* read is an error that marks nothing.                                    *)
GetCAIfExists ==
    /\ pc = "ca"
    /\ \/ /\ env.operator
          /\ Continue("creds", obj)
          /\ UNCHANGED budget
       \/ /\ ~env.operator
          /\ Return(obj, TRUE)
          /\ UNCHANGED budget
       \/ Disturb(Fault) /\ Return(obj, TRUE)
    /\ UNCHANGED <<server, queued, objFresh, orig, secrets, memory, env>>

CredsOutcome(secret, mark, again, fault) ==
    [secret |-> secret, mark |-> mark, again |-> again, fault |-> fault]

(* Mutant: the error of the write is dropped.                              *)
WriteCredentialsUnchecked(before, next) ==
    {CredsOutcome(next, NoError, TRUE, Clean),
     CredsOutcome(before, NoError, FALSE, Fault)}

(* createCredentialsSecret, or the Update of                               *)
(* ensureCredentialsSecretUpToDate.                                        *)
WriteCredentials(before, next) ==
    {CredsOutcome(next, NoError, TRUE, Clean),
     CredsOutcome(before, Failed, TRUE, Fault),
     CredsOutcome(next, Failed, TRUE, Fault)}

ReconcileUserCredentialSecret(got, want) ==
    {CredsOutcome(got, PlainError(ConditionUnknown), TRUE, Fault)} \cup
    (IF got.kind = "foreign" THEN {CredsOutcome(got, Failed, TRUE, Clean)}
     ELSE IF got = want THEN {CredsOutcome(got, NoError, FALSE, Clean)}
     ELSE WriteCredentials(got, want))

CredentialsStep ==
    /\ pc = "creds"
    /\ \E o \in ReconcileUserCredentialSecret(creds,
                    CredsSecret("present", ujwt, seedKey, TRUE)) :
        /\ Pays(o.fault)
        /\ creds' = o.secret
        /\ queued' = (queued \/ o.secret # creds)
        /\ Return(IF o.mark = NoError
                  THEN MarkUserTrue(obj, "CredentialsSecretReady")
                  ELSE MarkUserError(obj, "CredentialsSecretReady", o.mark), o.again)
    /\ UNCHANGED <<server, objFresh, orig, seed, nextKey, jwt, memory, env>>

(* What the reconcile remembered goes with it.                             *)
ForgetMemory ==
    /\ seedKey' = NoKey
    /\ issuerKey' = NoKey
    /\ ujwt' = NoClaims

StoreStatus == UpdateStatus /\ ForgetMemory /\ UNCHANGED <<secrets, env>>

-----------------------------------------------------------------------------
(* The informers, and users and the other controllers.                     *)

SyncCache == CacheSync /\ UNCHANGED <<secrets, memory, env>>

ResyncUser == Resync /\ UNCHANGED <<secrets, memory, env>>

CrashAndRestart == Crash /\ ForgetMemory /\ UNCHANGED <<secrets, env>>

(* userAccountWatcher lists the cached Users by the label that             *)
(* reconcileLabels sets.                                                   *)
UserAccountWatcher ==
    EnqueueIf(cached.exists /\ cached.label) /\ UNCHANGED <<secrets, memory>>

(* Other kinds, a SigningKey that is the issuer included, are not watched. *)
Unnoticed == EnqueueIf(FALSE) /\ UNCHANGED <<secrets, memory>>

EditSpec ==
    /\ Disturb("edit")
    /\ res.gen < MaxGen
    /\ ForeignWrite([res EXCEPT !.gen = @ + 1])
    /\ UNCHANGED <<secrets, memory, env>>

(* The controller has no finalizer on a User.                              *)
DeleteUser ==
    /\ Disturb("delete")
    /\ ForeignWrite([res EXCEPT !.exists = FALSE])
    /\ UNCHANGED <<secrets, memory, env>>

DeleteSeed ==
    /\ Disturb("seed")
    /\ seed.kind # "absent"
    /\ nextKey <= MaxKeys
    /\ seed' = SeedAbsent
    /\ EnqueueIf(seed.managed)
    /\ UNCHANGED <<nextKey, jwt, creds, memory, env>>

(* The JWT Secret is deleted, emptied, garbled, replaced or disowned.      *)
TamperJWT ==
    /\ \E next \in TamperedJWTSecrets(jwt) :
        /\ Disturb(TamperingWith(next))
        /\ jwt' = next
        /\ EnqueueIf(jwt.owned)
    /\ UNCHANGED <<seed, nextKey, creds, memory, env>>

(* The credentials Secret is deleted, overwritten or replaced.             *)
TamperCredentials ==
    /\ \E next \in {CredsAbsent, CredsForeign,
                    CredsSecret("present", NoClaims, NoKey, creds.owned)} \ {creds} :
        /\ Disturb(IF next = CredsForeign THEN "foreignCreds" ELSE "creds")
        /\ creds' = next
        /\ EnqueueIf(creds.owned)
    /\ UNCHANGED <<seed, nextKey, jwt, memory, env>>

ChangeAccount ==
    /\ \/ /\ Disturb("account")
          /\ \E v \in {"absent", "notReady", "ready"} \ {env.account} :
                env' = [env EXCEPT !.account = v]
       \/ /\ Disturb("admits")
          /\ \E v \in {"yes", "no", "invalid"} \ {env.admits} :
                env' = [env EXCEPT !.admits = v]
    /\ UserAccountWatcher

ChangeSigningKey ==
    /\ Disturb("sk")
    /\ \E v \in {"absent", "notReady", "ready"} \ {env.sk} :
          env' = [env EXCEPT !.sk = v]
    /\ Unnoticed

ChangeOperator ==
    /\ Disturb("operator")
    /\ env' = [env EXCEPT !.operator = ~@]
    /\ Unnoticed

(* The issuer's seed Secret is lost or spoilt and put back, or replaced by *)
(* that of a new key pair, which then stays until it is published.         *)
ChangeIssuerSeed ==
    /\ \/ /\ Disturb("issuerSeed")
          /\ \/ /\ env.seed = SeedManaged(env.key)
                /\ \E s \in {SeedAbsent, SeedBad} : env' = [env EXCEPT !.seed = s]
             \/ /\ env.seed.kind # "valid"
                /\ env' = [env EXCEPT !.seed = SeedManaged(env.key)]
       \/ /\ Disturb("rotate")
          /\ env.key < MaxIssuerKeys
          /\ env' = [env EXCEPT !.seed = SeedManaged(env.key + 1)]
    /\ Unnoticed

(* The issuer's own reconcile has put the new public key in its status,    *)
(* and the cache has it.  A SigningKey's news reaches the User only by way *)
(* of its Account, whose list of signing keys changes.                     *)
PublishIssuerKey ==
    /\ env.seed.kind = "valid"
    /\ env.seed.key # env.key
    /\ env' = [env EXCEPT !.key = env.seed.key,
                          !.news = IssuerOf[res.gen] # "account"]
    /\ IF IssuerOf[res.gen] = "account" THEN UserAccountWatcher ELSE Unnoticed
    /\ UNCHANGED budget

AccountEvent ==
    /\ env.news
    /\ env' = [env EXCEPT !.news = FALSE]
    /\ UserAccountWatcher
    /\ UNCHANGED budget

-----------------------------------------------------------------------------
Reconcile ==
    \/ Start \/ SeedSecret \/ ResolveIssuerStep \/ ResolveAccountStep
    \/ ReconcileLabels \/ LoadIssuerSeed \/ JWTSecretStep \/ GetCAIfExists
    \/ CredentialsStep \/ StoreStatus

Disturbance ==
    \/ EditSpec \/ DeleteUser \/ DeleteSeed \/ TamperJWT \/ TamperCredentials
    \/ ChangeAccount \/ ChangeSigningKey \/ ChangeOperator \/ ChangeIssuerSeed
    \/ CrashAndRestart

Next ==
    \/ Reconcile \/ SyncCache \/ ResyncUser \/ PublishIssuerKey \/ AccountEvent
    \/ Disturbance

(* The worker keeps working, watch events keep arriving, and the issuer's  *)
(* own reconciler answers a new seed.                                      *)
Fairness ==
    /\ WF_vars(Reconcile)
    /\ WF_vars(SyncCache)
    /\ WF_vars(PublishIssuerKey)
    /\ WF_vars(AccountEvent)

Spec == Init /\ [][Next]_vars

FairSpec == Spec /\ Fairness

-----------------------------------------------------------------------------
(* Every variable holds a value of its type; in particular nextKey never   *)
(* runs past the keys the model provides.                                  *)
TypeOK ==
    /\ RuntimeTypeOK(Users, Steps)
    /\ seed \in SeedSecrets(Keys)
    /\ nextKey \in 1 .. MaxKeys + 1
    /\ jwt \in JWTSecrets(Claims)
    /\ creds \in CredsSecrets
    /\ seedKey \in Keys \cup {NoKey}
    /\ issuerKey \in IssuerKeys \cup {NoKey}
    /\ ujwt \in Claims \cup {NoClaims}
    /\ env \in Environments

(* The seed and the JWT in the credentials are of one key pair, although   *)
(* the one was read from its Secret at the start of a reconcile and the    *)
(* other at its end, and either Secret may be replaced in between: NATS    *)
(* would refuse any other pair.                                            *)
CredentialsFitTogether == creds.claims # NoClaims => creds.seed = creds.claims.key

(* No credentials are issued whose JWT is signed by a key that the issuer  *)
(* has not published: the seed Secret is read live, after the cached       *)
(* status that it has to agree with.                                       *)
SignedByPublishedKey == creds.claims # NoClaims => creds.claims.iss <= env.key

(* A stored True condition comes with the reference it is about, whatever  *)
(* mixture of statuses is written after the label Update.                  *)
ReadyHasReferences ==
    /\ IsTrue(res.status.conds["SeedSecretReady"]) => res.status.keyPair # NoKey
    /\ IsTrue(res.status.conds["AccountResolved"]) => res.status.accountRef

(* No reconcile is running or due, and the cache is up to date.            *)
Quiet == pc = "idle" /\ ~queued /\ cacheFresh

(* A User that is Ready and left alone is right: its Secrets are there,    *)
(* hold one key pair and one JWT, and are for the stored spec.  A failure  *)
(* of one of the three Secret steps, which leaves the conditions of the    *)
(* other two True, is never the last word.                                 *)
QuietReadyIsRight ==
    Quiet /\ res.exists /\ IsTrue(res.status.conds[Happy]) =>
        /\ res.status.keyPair = seed.key
        /\ jwt.claims = ClaimsOf(res, jwt.claims.iss)
        /\ creds = CredsSecret("present", jwt.claims, seed.key, TRUE)

EnvironmentIsGood ==
    /\ IssuerOf[res.gen] \in {"account", "signingKey"}
    /\ env.account = "ready" /\ env.sk = "ready" /\ env.operator
    /\ env.admits = "yes"
    /\ env.seed = SeedManaged(env.key)
    /\ seed.kind # "bad"
    /\ jwt.kind # "foreign"
    /\ jwt.kind = "noData" => jwt.owned
    /\ creds.kind # "foreign"

(* The User is Ready, and its Secrets are for its current spec and key     *)
(* pair, signed by the issuer's current key.                               *)
Converged ==
    /\ IsTrue(res.status.conds[Happy])
    /\ res.status.keyPair = seed.key
    /\ jwt.claims = ClaimsOf(res, env.key)
    /\ creds = CredsSecret("present", jwt.claims, seed.key, TRUE)

(* What the reconciler answers with a terminal error, and is not told when *)
(* it is put right: a selector, a spoilt issuer seed, a foreign Secret.    *)
NothingIsTerminal ==
    /\ env.admits = "yes"
    /\ env.seed.kind # "bad"
    /\ jwt.kind # "foreign"
    /\ jwt.kind = "noData" => jwt.owned

(* Once what the User depends on stays good, the User converges and stays  *)
(* converged, or is deleted: a new key of the issuer, also of a SigningKey *)
(* that is not watched, reaches the credentials, and no temporary failure  *)
(* on the way is final.                                                    *)
Converges ==
    []NothingIsTerminal /\ <>[]EnvironmentIsGood
        => <>[](Converged \/ ~res.exists)
=============================================================================
