------------------------- MODULE AccountController --------------------------
(***************************************************************************)
(* The Account reconciler (internal/controller/accounts/                   *)
(* account_controller.go) working on one Account, against the API server,  *)
(* the informer cache, the NATS account server and users who change the    *)
(* cluster under it.                                                       *)
(*                                                                         *)
(* A reconcile runs from a cached copy of the Account and takes one step   *)
(* per call that leaves the process; everything else may move in between.  *)
(* The controller has one worker (MaxConcurrentReconciles is 1) and the    *)
(* workqueue holds a key at most once, so queued is a flag.                *)
(*                                                                         *)
(* Resource versions are not stored.  A write of an Account copy succeeds  *)
(* exactly when the copy is of the server's latest version; objFresh and   *)
(* cacheFresh say so of the reconcile's copy and of the cached one.        *)
(***************************************************************************)
EXTENDS BaseReconciler

CONSTANTS
    MaxGen,         \* bound on .metadata.generation
    MaxKeys,        \* bound on the key pairs that are ever generated
    MaxIssuerKeys,  \* bound on the key pairs that the issuer ever has
    SKs,            \* SigningKeys that the Account may own
    IssuerOf,       \* generation -> what .spec.issuer refers to, when ready
    Hazards,        \* the kinds of disturbance that may happen
    MaxDisturbances \* bound on how many do

Gens == 1 .. MaxGen
Keys == 1 .. MaxKeys
IssuerKeys == 1 .. MaxIssuerKeys

ASSUME MaxGenAssumption == MaxGen \in Nat \ {0}

ASSUME MaxKeysAssumption == MaxKeys \in Nat \ {0}

ASSUME MaxIssuerKeysAssumption == MaxIssuerKeys \in Nat \ {0}

ASSUME IssuerOfAssumption ==
    IssuerOf \in [Gens -> {"ready", "unsupported", "misowned"}]

ASSUME MaxDisturbancesAssumption == MaxDisturbances \in Nat

VARIABLES
    acc,            \* the Account in the API server
    cached,         \* the Account in the informer cache
    cacheFresh,     \* cached is of acc's version
    old,            \* the version that was cached before, if it can be listed
    queued,         \* the Account's key is in the workqueue
    pc,             \* the next step of the running reconcile, "idle" if none
    obj,            \* acc in Reconcile: the copy it works on
    objFresh,       \* obj is of acc's version
    orig,           \* originalStatus (with the rest of the copy)
    requeue,        \* the reconcile will return a requeue or an error
    signer,         \* keyPairable, and then issuerKP, as its public key
    seed,           \* the seed Secret
    nextKey,        \* the key pair that nkeys.CreateAccount returns next
    jwt,            \* the JWT Secret
    nats,           \* the account JWTs that the NATS account server holds
    env,            \* what the Account depends on
    budget          \* disturbances left

server == <<acc, cached, cacheFresh, old>>
local == <<pc, obj, objFresh, orig, requeue, signer>>
cluster == <<seed, nextKey, jwt, nats>>
vars == <<server, queued, local, cluster, env, budget>>

(* accountConditionSet.                                                    *)
AccountDependents ==
    {"SeedSecretReady", "OperatorResolved", "IssuerResolved",
     "SigningKeysUpdated", "JWTSecretReady", "JWTPushed"}

AccountTypes == AccountDependents \cup {Happy}

AccountConditions == ConditionLists(AccountTypes)

Claims == [key : Keys, gen : Gens, iss : IssuerKeys, sks : SUBSET SKs]

(* finalizer and label: AccountFinalizer is in the list, and the label     *)
(* names the Operator.  keyPair and operatorRef are .status.keyPair and    *)
(* .status.operatorRef; NoKey and FALSE stand for nil.                     *)
Accounts ==
    [exists : BOOLEAN, deleting : BOOLEAN, finalizer : BOOLEAN,
     label : BOOLEAN, gen : Gens, conds : AccountConditions,
     keyPair : Keys \cup {NoKey}, operatorRef : BOOLEAN,
     signingKeys : SUBSET SKs]

NewAccount ==
    [exists |-> TRUE, deleting |-> FALSE, finalizer |-> FALSE,
     label |-> FALSE, gen |-> 1,
     conds |-> [t \in AccountTypes |-> NoCondition],
     keyPair |-> NoKey, operatorRef |-> FALSE, signingKeys |-> {}]

NoAccount == [NewAccount EXCEPT !.exists = FALSE]

Status(a) == <<a.conds, a.keyPair, a.operatorRef, a.signingKeys>>

(* What the Account depends on.  issuer, admits (the Operator's selectors  *)
(* match, do not, or do not parse) and sks are seen by the reconcile;      *)
(* issuerKey is the public key in the issuer's cached status and           *)
(* issuerSeed its seed Secret, which is read live; operator and sys are    *)
(* what finalizeAccount and SystemAccountLoader find.                      *)
Environments ==
    [issuer : {"absent", "notReady", "orphaned", "ready"},
     admits : {"yes", "no", "invalid"},
     issuerKey : IssuerKeys, issuerSeed : SeedSecrets(IssuerKeys),
     sks : SUBSET SKs, operator : {"ok", "broken", "absent"},
     sys : {"ok", "broken", "absent", "seedAbsent"}]

GoodEnvironment(key, sks) ==
    [issuer |-> "ready", admits |-> "yes", issuerKey |-> key,
     issuerSeed |-> SeedManaged(key), sks |-> sks, operator |-> "ok", sys |-> "ok"]

(* The claims CreateAccountClaims signs for a copy of the Account.         *)
ClaimsOf(a, iss) ==
    [key |-> a.keyPair, gen |-> a.gen, iss |-> iss, sks |-> a.signingKeys]

PcValues ==
    {"idle", "addFinalizer", "finalize", "removeFinalizer", "seed", "issuer",
     "labels", "signingKeys", "issuerSeed", "jwt", "push", "status"}

InitAccount ==
    /\ acc = NewAccount
    /\ cached = NoAccount
    /\ cacheFresh = FALSE
    /\ old = NoAccount
    /\ queued = FALSE
    /\ pc = "idle"
    /\ obj = NoAccount
    /\ objFresh = FALSE
    /\ orig = NoAccount
    /\ requeue = FALSE
    /\ signer = NoKey
    /\ \/ seed = SeedAbsent /\ nextKey = 1
       \/ seed = SeedPrecreated(1) /\ nextKey = 2
       \/ "badSeed" \in Hazards /\ seed = SeedBad /\ nextKey = 1
    /\ jwt = JWTAbsent
    /\ nats = [k \in Keys |-> NoClaims]
    /\ budget = MaxDisturbances

Init == InitAccount /\ \E sks \in SUBSET SKs : env = GoodEnvironment(1, sks)

-----------------------------------------------------------------------------
(* The lifecycle methods of AccountStatus.                                 *)

MarkAccountTrue(a, t) ==
    [a EXCEPT !.conds = MarkTrue(a.conds, AccountDependents, t)]

MarkAccountError(a, t, err) ==
    [a EXCEPT !.conds = MarkCondition(a.conds, AccountDependents, t, err)]

MarkSeedSecretReady(a, key) ==
    MarkAccountTrue([a EXCEPT !.keyPair = key], "SeedSecretReady")

(* Mutant: the key pair is forgotten, its condition is not.                *)
ForgetKeyPair(a, err) == [a EXCEPT !.keyPair = NoKey]

MarkSeedSecretError(a, err) ==
    MarkAccountError([a EXCEPT !.keyPair = NoKey], "SeedSecretReady", err)

MarkOperatorResolved(a) ==
    MarkAccountTrue([a EXCEPT !.operatorRef = TRUE], "OperatorResolved")

MarkOperatorResolveError(a, err) ==
    MarkAccountError([a EXCEPT !.operatorRef = FALSE], "OperatorResolved", err)

MarkSigningKeysUpdated(a, sks) ==
    MarkAccountTrue([a EXCEPT !.signingKeys = sks], "SigningKeysUpdated")

(* Mutant: the wrong lifecycle method.                                     *)
MarkJWTPushedAnyway(a) == MarkAccountTrue(a, "JWTPushed")

MarkJWTPushFailed(a) ==
    MarkAccountError(a, "JWTPushed", PlainError(ConditionFailed))

-----------------------------------------------------------------------------
(* Helpers of the actions.                                                 *)

(* A disturbance of the given kind may happen, and is paid for.            *)
Disturb(kind) ==
    /\ kind \in Hazards
    /\ budget > 0
    /\ budget' = budget - 1

Pays(fault) == IF fault = Clean THEN UNCHANGED budget ELSE Disturb(fault)

Goto(step, o) == pc' = step /\ obj' = o

(* Return from the body of Reconcile: the deferred status update is next.  *)
Return(o, again) ==
    /\ Goto("status", o)
    /\ requeue' = again

(* The server's answer to an Update is decoded into the copy: status       *)
(* fields the server holds replace the copy's, the ones it omits stay.     *)
DecodeInto(o, a) ==
    [a EXCEPT
        !.conds = IF a.conds[Happy] # NoCondition THEN @ ELSE o.conds,
        !.keyPair = IF @ # NoKey THEN @ ELSE o.keyPair,
        !.operatorRef = @ \/ o.operatorRef]

(* r.Update(ctx, acc) of the metadata change next, then return: the write  *)
(* succeeds, conflicts, or fails with or without having been carried out.  *)
UpdateAccount(next) ==
    \/ /\ objFresh
       /\ acc' = next
       /\ cacheFresh' = FALSE
       /\ objFresh' = next.exists
       /\ Return(DecodeInto(obj, next), TRUE)
       /\ UNCHANGED <<cached, old, budget>>
    \/ /\ ~objFresh
       /\ Return(obj, TRUE)
       /\ UNCHANGED <<server, objFresh, budget>>
    \/ /\ objFresh
       /\ Disturb("apiFault")
       /\ Return(obj, TRUE)
       /\ \/ UNCHANGED <<server, objFresh>>
          \/ /\ acc' = next
             /\ cacheFresh' = FALSE
             /\ objFresh' = FALSE
             /\ UNCHANGED <<cached, old>>

-----------------------------------------------------------------------------
(* The reconcile.                                                          *)

(* Mutant: the finalizer is not waited for.                                *)
FirstStepWithoutFinalizer(a) ==
    IF ~a.deleting THEN "seed" ELSE IF a.finalizer THEN "finalize" ELSE "status"

FirstStep(a) ==
    IF a.deleting THEN IF a.finalizer THEN "finalize" ELSE "status"
    ELSE IF a.finalizer THEN "seed" ELSE "addFinalizer"

StartReconcile ==
    /\ pc = "idle"
    /\ queued
    /\ queued' = FALSE
    /\ IF cached.exists
       THEN /\ Goto(FirstStep(cached),
                    [cached EXCEPT !.conds =
                        InitializeConditions(@, AccountDependents)])
            /\ orig' = cached
            /\ objFresh' = cacheFresh
            /\ UNCHANGED <<requeue, signer>>
       ELSE UNCHANGED local
    /\ UNCHANGED <<server, cluster, budget>>

AddFinalizer ==
    /\ pc = "addFinalizer"
    /\ UpdateAccount([acc EXCEPT !.finalizer = TRUE])
    /\ UNCHANGED <<queued, orig, signer, cluster>>

(* An owned Secret that is created, changed or deleted enqueues its owner. *)
SeedSecret ==
    /\ pc = "seed"
    /\ \E o \in ReconcileSeedSecret(seed, nextKey) :
        /\ Pays(o.fault)
        /\ seed' = o.secret
        /\ nextKey' = IF o.secret.key = nextKey THEN nextKey + 1 ELSE nextKey
        /\ queued' = (queued \/ o.secret # seed)
        /\ IF o.err # NoError
           THEN Return(MarkSeedSecretError(obj, o.err), AsResult(o.err))
           ELSE IF o.result = Requeue
           THEN Return(MarkSeedSecretReady(obj, o.key), TRUE)
           ELSE Goto("issuer", MarkSeedSecretReady(obj, o.key)) /\ UNCHANGED requeue
    /\ UNCHANGED <<server, objFresh, orig, signer, jwt, nats>>

(* The issuer as .spec.issuer and the cluster give it.                     *)
Issuer(gen) == IF IssuerOf[gen] = "ready" THEN env.issuer ELSE IssuerOf[gen]

(* validateOperatorSelector: the Namespace is read live.                   *)
OperatorSelectorError ==
    CASE env.admits = "yes" -> NoError
      [] env.admits = "no" -> TerminalError(ConditionFailed)
      [] env.admits = "invalid" -> TerminalError(OtherCause)

(* resolveOperator, then validateOperatorSelector.                         *)
OperatorError(issuer) ==
    IF issuer = "misowned" THEN TerminalError(ConditionFailed)
    ELSE IF ResolveSigningKeyOwner(issuer) # NoError
    THEN ResolveSigningKeyOwner(issuer)
    ELSE OperatorSelectorError

IssuerAndOperator ==
    /\ pc = "issuer"
    /\ LET issuer == Issuer(obj.gen)
           failIssuer(e) ==
               /\ Return(MarkAccountError(obj, "IssuerResolved", e), AsResult(e))
               /\ UNCHANGED signer
           failOperator(e) ==
               /\ Return(MarkOperatorResolveError(obj, e), AsResult(e))
               /\ UNCHANGED signer
       IN  \/ /\ UNCHANGED budget
              /\ IF ResolveIssuer(issuer) # NoError
                 THEN failIssuer(ResolveIssuer(issuer))
                 ELSE IF OperatorError(issuer) # NoError
                 THEN failOperator(OperatorError(issuer))
                 ELSE /\ Goto("labels", MarkOperatorResolved(obj))
                      /\ signer' = env.issuerKey
                      /\ UNCHANGED requeue
           \/ /\ Disturb("apiFault")
              /\ issuer # "unsupported"
              /\ failIssuer(ReadFault)
           \/ /\ Disturb("apiFault")
              /\ ResolveIssuer(issuer) = NoError
              /\ failOperator(TemporaryError(OtherCause))
    /\ UNCHANGED <<server, queued, objFresh, orig, cluster>>

ReconcileLabels ==
    /\ pc = "labels"
    /\ \/ /\ obj.label
          /\ Goto("signingKeys", obj)
          /\ UNCHANGED <<server, objFresh, requeue, budget>>
       \/ ~obj.label /\ UpdateAccount([acc EXCEPT !.label = TRUE])
    /\ UNCHANGED <<queued, orig, signer, cluster>>

EnsureSigningKeysUpdated ==
    /\ pc = "signingKeys"
    /\ \/ /\ Goto("issuerSeed", MarkSigningKeysUpdated(obj, env.sks))
          /\ UNCHANGED <<requeue, budget>>
       \/ Disturb("apiFault") /\ Return(obj, TRUE)
    /\ UNCHANGED <<server, queued, objFresh, orig, signer, cluster>>

(* Mutant: the public key is not compared.                                 *)
ParsesAsSeed(secret) == secret.kind = "valid"

(* The seed parses, and its public key is the one in the issuer's status.  *)
MatchesSigner(secret) == secret.kind = "valid" /\ secret.key = signer

(* AccountReconciler.loadIssuerSeed: every failure but that of the Get     *)
(* returns (nil, false, nil), and Reconcile returns without requeueing.    *)
LoadIssuerSeed ==
    /\ pc = "issuerSeed"
    /\ LET fail(status, again) ==
               /\ Return(MarkAccountError(obj, "IssuerResolved", PlainError(status)), again)
               /\ UNCHANGED signer
       IN  \/ /\ UNCHANGED budget
              /\ \/ /\ MatchesSigner(env.issuerSeed)
                    /\ Goto("jwt", MarkAccountTrue(obj, "IssuerResolved"))
                    /\ signer' = env.issuerSeed.key
                    /\ UNCHANGED requeue
                 \/ /\ env.issuerSeed.kind = "absent"
                    /\ fail(ConditionUnknown, FALSE)
                 \/ /\ ~MatchesSigner(env.issuerSeed)
                    /\ env.issuerSeed.kind # "absent"
                    /\ fail(ConditionFailed, FALSE)
           \/ Disturb("apiFault") /\ fail(ConditionUnknown, TRUE)
    /\ UNCHANGED <<server, queued, objFresh, orig, cluster>>

JWTSecretStep ==
    /\ pc = "jwt"
    /\ \E o \in ReconcileJWTSecret(jwt, ClaimsOf(obj, signer)) :
        /\ Pays(o.fault)
        /\ jwt' = o.secret
        /\ queued' = (queued \/ o.secret # jwt)
        /\ IF o.err # NoError
           THEN Return(MarkAccountError(obj, "JWTSecretReady", o.err), AsResult(o.err))
           ELSE IF o.result = Requeue
           THEN Return(MarkAccountTrue(obj, "JWTSecretReady"), TRUE)
           ELSE Goto("push", MarkAccountTrue(obj, "JWTSecretReady")) /\ UNCHANGED requeue
    /\ UNCHANGED <<server, objFresh, orig, signer, seed, nextKey, nats>>

(* nsc.Client.Push: the account server files a JWT under its subject.      *)
Push(claims) == nats' = [nats EXCEPT ![claims.key] = claims]

(* Mutant: a JWT that is recorded as pushed is not pushed again.           *)
EnsureJWTPushedOnce ==
    /\ pc = "push"
    /\ Return(MarkAccountTrue(obj, "JWTPushed"), FALSE)
    /\ IF IsTrue(obj.conds["JWTPushed"]) THEN UNCHANGED nats
       ELSE Push(ClaimsOf(obj, signer))
    /\ UNCHANGED <<server, queued, objFresh, orig, signer, seed, nextKey, jwt, budget>>

(* ensureJWTPushed.  A fault before the push leaves NATS alone; a lost or  *)
(* malformed reply does not.                                               *)
EnsureJWTPushed ==
    /\ pc = "push"
    /\ \/ /\ env.sys = "ok"
          /\ Push(ClaimsOf(obj, signer))
          /\ Return(MarkAccountTrue(obj, "JWTPushed"), FALSE)
          /\ UNCHANGED budget
       \/ /\ env.sys # "ok"
          /\ Return(MarkJWTPushFailed(obj), TRUE)
          /\ UNCHANGED <<nats, budget>>
       \/ /\ env.sys = "ok"
          /\ Disturb("natsFault")
          /\ Push(ClaimsOf(obj, signer)) \/ UNCHANGED nats
          /\ Return(MarkJWTPushFailed(obj), TRUE)
    /\ UNCHANGED <<server, queued, objFresh, orig, signer, seed, nextKey, jwt>>

(* The deferred function: Status().Update, when the status has changed.  A *)
(* conflict requeues even where the body would not have.                   *)
UpdateStatus ==
    /\ pc = "status"
    /\ pc' = "idle"
    /\ \/ /\ Status(obj) = Status(orig)
          /\ queued' = (queued \/ requeue)
          /\ UNCHANGED <<server, budget>>
       \/ /\ Status(obj) # Status(orig)
          /\ objFresh
          /\ acc' = [acc EXCEPT !.conds = obj.conds, !.keyPair = obj.keyPair,
                                !.operatorRef = obj.operatorRef,
                                !.signingKeys = obj.signingKeys]
          /\ cacheFresh' = FALSE
          /\ UNCHANGED <<cached, old>>
          /\ \/ queued' = (queued \/ requeue) /\ UNCHANGED budget
             \/ queued' = TRUE /\ Disturb("apiFault")
       \/ /\ Status(obj) # Status(orig)
          /\ ~objFresh \/ "apiFault" \in Hazards
          /\ IF objFresh THEN Disturb("apiFault") ELSE UNCHANGED budget
          /\ queued' = TRUE
          /\ UNCHANGED server
    /\ obj' = NoAccount
    /\ orig' = NoAccount
    /\ objFresh' = FALSE
    /\ requeue' = FALSE
    /\ signer' = NoKey
    /\ UNCHANGED cluster

-----------------------------------------------------------------------------
(* Deletion.                                                               *)

(* What finalizeAccount takes as "the JWT has been pushed".                *)
PushRecorded(a) ==
    /\ IsTrue(a.conds["JWTSecretReady"])
    /\ IsTrue(a.conds["JWTPushed"])

(* Mutant: only a missing Operator lets finalization go ahead.             *)
OnlyOperatorAbsent == env.operator = "absent"

(* The Operator or the system account (or its seed) is NotFound.           *)
NothingToCleanUp ==
    \/ env.operator = "absent"
    \/ env.operator = "ok" /\ env.sys \in {"absent", "seedAbsent"}

CanReachNATS == env.operator = "ok" /\ env.sys = "ok"

(* Mutant: the error in the account server's reply is not looked at.       *)
DeleteJWTUnchecked(key) == UNCHANGED nats

(* nsc.Client.Delete.                                                      *)
DeleteJWT(key) == nats' = [nats EXCEPT ![key] = NoClaims]

SkipFinalization ==
    /\ pc = "finalize"
    /\ \/ ~PushRecorded(obj)
       \/ obj.operatorRef /\ NothingToCleanUp
    /\ Goto("removeFinalizer", obj)
    /\ UNCHANGED <<server, queued, objFresh, orig, requeue, signer, cluster, budget>>

(* Every other failure is returned, for a retry; one of getNATSOptions     *)
(* also marks JWTPushed False.                                             *)
FinalizationFails ==
    /\ pc = "finalize"
    /\ PushRecorded(obj)
    /\ obj.operatorRef
    /\ \/ /\ ~NothingToCleanUp
          /\ ~CanReachNATS
          /\ Return(obj, TRUE)
          /\ UNCHANGED budget
       \/ Disturb("apiFault") /\ Return(obj, TRUE)
       \/ /\ CanReachNATS
          /\ Disturb("natsFault")
          /\ Return(obj, TRUE) \/ Return(MarkJWTPushFailed(obj), TRUE)
    /\ UNCHANGED <<server, queued, objFresh, orig, signer, cluster>>

DeletePushedJWT ==
    /\ pc = "finalize"
    /\ PushRecorded(obj)
    /\ obj.operatorRef
    /\ CanReachNATS
    /\ obj.keyPair # NoKey
    /\ DeleteJWT(obj.keyPair)
    /\ \/ /\ Goto("removeFinalizer", obj)
          /\ UNCHANGED <<requeue, budget>>
       \/ Disturb("natsFault") /\ Return(obj, TRUE)
    /\ UNCHANGED <<server, queued, objFresh, orig, signer, seed, nextKey, jwt>>

RemoveFinalizer ==
    /\ pc = "removeFinalizer"
    /\ UpdateAccount([acc EXCEPT !.finalizer = FALSE, !.exists = FALSE])
    /\ UNCHANGED <<queued, orig, signer, cluster>>

(* What the first List of a new informer may return, and whether it is of  *)
(* the server's version.  client-go asks for resourceVersion=0, which the  *)
(* API server answers from its own cache: with the latest version, with    *)
(* the one that the last process had, or ("oldList") with one before it.   *)
ListAccounts ==
    {<<acc, TRUE>>, <<cached, cacheFresh>>}
    \cup (IF "oldList" \in Hazards THEN {<<old, FALSE>>} ELSE {})

(* The process starts again: a new informer lists what there is and        *)
(* enqueues it.                                                            *)
Restart ==
    /\ pc' = "idle"
    /\ obj' = NoAccount
    /\ orig' = NoAccount
    /\ objFresh' = FALSE
    /\ requeue' = FALSE
    /\ signer' = NoKey
    /\ \E l \in ListAccounts :
        cached' = l[1] /\ cacheFresh' = l[2] /\ queued' = l[1].exists
    /\ UNCHANGED <<acc, old, cluster>>

(* finalizeAccount dereferences a nil OperatorRef or a nil KeyPair.  The   *)
(* runtime does not recover panics, so the process dies.                   *)
DereferencesNil ==
    /\ pc = "finalize"
    /\ PushRecorded(obj)
    /\ ~obj.operatorRef \/ (CanReachNATS /\ obj.keyPair = NoKey)

PanicInFinalize ==
    /\ DereferencesNil
    /\ Restart
    /\ UNCHANGED budget

Crash ==
    /\ Disturb("crash")
    /\ Restart

-----------------------------------------------------------------------------
(* The informers and their event handlers.                                 *)

(* For(&Account{}): every event of the Account enqueues it.                *)
CacheSync ==
    /\ ~cacheFresh
    /\ cached' = acc
    /\ old' = IF "oldList" \in Hazards THEN cached ELSE NoAccount
    /\ cacheFresh' = TRUE
    /\ queued' = TRUE
    /\ UNCHANGED <<acc, local, cluster, budget>>

(* The informer's periodic resync, hours apart.                            *)
Resync ==
    /\ cached.exists
    /\ ~queued
    /\ queued' = TRUE
    /\ UNCHANGED <<server, local, cluster, budget>>

(* accountOperatorWatcher lists the cached Accounts by the label that      *)
(* reconcileLabels sets.                                                   *)
AccountOperatorWatcher == queued' = (queued \/ (cached.exists /\ cached.label))

(* accountSigningKeyWatcher, for a SigningKey that the Account owns.       *)
AccountSigningKeyWatcher == queued' = TRUE

(* Owns(&Secret{}).                                                        *)
OwnedSecretWatcher(owned) == queued' = (queued \/ owned)

-----------------------------------------------------------------------------
(* Users and the other controllers.                                        *)

(* A write of the Account that is not this controller's.                   *)
ForeignWrite(next) ==
    /\ acc' = next
    /\ cacheFresh' = FALSE
    /\ objFresh' = FALSE
    /\ UNCHANGED <<cached, old, queued, pc, obj, orig, requeue, signer, cluster,
                   budget>>

EditSpec ==
    /\ acc.exists
    /\ ~acc.deleting
    /\ acc.gen < MaxGen
    /\ ForeignWrite([acc EXCEPT !.gen = @ + 1])

DeleteAccount ==
    /\ "delete" \in Hazards
    /\ acc.exists
    /\ ~acc.deleting
    /\ ForeignWrite([acc EXCEPT !.exists = acc.finalizer, !.deleting = TRUE])

(* The deletion-prevention finalizer is removed by hand, and the Secret    *)
(* with it.                                                                *)
DeleteSeed ==
    /\ Disturb("seed")
    /\ seed.kind # "absent"
    /\ nextKey <= MaxKeys
    /\ seed' = SeedAbsent
    /\ OwnedSecretWatcher(seed.managed)
    /\ UNCHANGED <<server, local, nextKey, jwt, nats>>

(* The JWT Secret is deleted, emptied, garbled, replaced or disowned.      *)
TamperJWT ==
    /\ \E next \in TamperedJWTSecrets(jwt) :
        /\ Disturb(TamperingWith(next))
        /\ jwt' = next
        /\ OwnedSecretWatcher(jwt.owned)
    /\ UNCHANGED <<server, local, seed, nextKey, nats>>

(* The issuer is the Operator, whose events are watched, or a SigningKey   *)
(* of the Operator, whose events are not.                                  *)
ChangeIssuer ==
    /\ Disturb("issuer")
    /\ \E v \in {"absent", "notReady", "orphaned", "ready"} \ {env.issuer} :
        env' = [env EXCEPT !.issuer = v]
    /\ AccountOperatorWatcher \/ UNCHANGED queued
    /\ UNCHANGED <<server, local, cluster>>

(* The issuer's seed Secret is lost or spoilt and put back, or replaced by *)
(* that of a new key pair, which then stays until it is published.         *)
ChangeIssuerSeed ==
    /\ \/ /\ Disturb("issuerSeed")
          /\ \/ /\ env.issuerSeed = SeedManaged(env.issuerKey)
                /\ \E s \in {SeedAbsent, SeedBad} : env' = [env EXCEPT !.issuerSeed = s]
             \/ /\ env.issuerSeed.kind # "valid"
                /\ env' = [env EXCEPT !.issuerSeed = SeedManaged(env.issuerKey)]
       \/ /\ Disturb("rotate")
          /\ env.issuerKey < MaxIssuerKeys
          /\ env' = [env EXCEPT !.issuerSeed = SeedManaged(env.issuerKey + 1)]
    /\ UNCHANGED <<server, queued, local, cluster>>

(* The Operator's own reconcile has put the new public key in its status,  *)
(* and the cache has it.                                                   *)
PublishIssuerKey ==
    /\ env.issuerSeed.kind = "valid"
    /\ env.issuerSeed.key # env.issuerKey
    /\ env' = [env EXCEPT !.issuerKey = env.issuerSeed.key]
    /\ AccountOperatorWatcher
    /\ UNCHANGED <<server, local, cluster, budget>>

ChangeSelectors ==
    /\ Disturb("admits")
    /\ \E v \in {"yes", "no", "invalid"} \ {env.admits} :
        env' = [env EXCEPT !.admits = v]
    /\ AccountOperatorWatcher
    /\ UNCHANGED <<server, local, cluster>>

ChangeSigningKeys ==
    /\ Disturb("sks")
    /\ \E s \in SUBSET SKs \ {env.sks} : env' = [env EXCEPT !.sks = s]
    /\ AccountSigningKeyWatcher
    /\ UNCHANGED <<server, local, cluster>>

ChangeOperator ==
    /\ Disturb("operator")
    /\ \E v \in {"ok", "broken", "absent"} \ {env.operator} :
        env' = [env EXCEPT !.operator = v]
    /\ AccountOperatorWatcher
    /\ UNCHANGED <<server, local, cluster>>

ChangeSystemAccount ==
    /\ Disturb("sys")
    /\ \E v \in {"ok", "broken", "absent", "seedAbsent"} \ {env.sys} :
        env' = [env EXCEPT !.sys = v]
    /\ UNCHANGED <<server, queued, local, cluster>>

-----------------------------------------------------------------------------
ReconcileLive ==
    \/ StartReconcile \/ AddFinalizer \/ SeedSecret \/ IssuerAndOperator
    \/ ReconcileLabels \/ EnsureSigningKeysUpdated \/ LoadIssuerSeed
    \/ JWTSecretStep \/ EnsureJWTPushed \/ UpdateStatus

Finalize ==
    \/ SkipFinalization \/ FinalizationFails \/ DeletePushedJWT
    \/ RemoveFinalizer \/ PanicInFinalize

Reconcile == ReconcileLive \/ Finalize

Disturbance ==
    \/ EditSpec \/ DeleteAccount \/ DeleteSeed \/ TamperJWT \/ Crash

EnvironmentChange ==
    \/ ChangeIssuer \/ ChangeIssuerSeed \/ PublishIssuerKey \/ ChangeSelectors
    \/ ChangeSigningKeys \/ ChangeOperator \/ ChangeSystemAccount

(* The actions on the Account leave env to the specification, so that a    *)
(* module which composes reconcilers can say what it is.                   *)
Next ==
    \/ Reconcile /\ UNCHANGED env
    \/ CacheSync /\ UNCHANGED env
    \/ Resync /\ UNCHANGED env
    \/ Disturbance /\ UNCHANGED env
    \/ EnvironmentChange

(* The worker keeps working, watch events keep arriving, and the issuer's  *)
(* own reconciler answers a new seed; users, faults and the hours-long     *)
(* resync are owed nothing.                                                *)
Fairness ==
    /\ WF_vars(Reconcile /\ UNCHANGED env)
    /\ WF_vars(CacheSync /\ UNCHANGED env)
    /\ WF_vars(PublishIssuerKey)

Spec == Init /\ [][Next]_vars

FairSpec == Spec /\ Fairness

-----------------------------------------------------------------------------
(* Every variable holds a value of its type; in particular nextKey never   *)
(* runs past the keys the model provides.                                  *)
TypeOK ==
    /\ acc \in Accounts
    /\ cached \in Accounts
    /\ old \in Accounts
    /\ obj \in Accounts
    /\ orig \in Accounts
    /\ cacheFresh \in BOOLEAN
    /\ objFresh \in BOOLEAN
    /\ queued \in BOOLEAN
    /\ requeue \in BOOLEAN
    /\ signer \in IssuerKeys \cup {NoKey}
    /\ pc \in PcValues
    /\ seed \in SeedSecrets(Keys)
    /\ nextKey \in 1 .. MaxKeys + 1
    /\ jwt \in JWTSecrets(Claims)
    /\ nats \in [Keys -> Claims \cup {NoClaims}]
    /\ env \in Environments
    /\ budget \in 0 .. MaxDisturbances

(* No JWT of the Account reaches NATS before the finalizer that will take  *)
(* it away again is stored in the API server, whatever stale copy, lost    *)
(* answer or restart the reconcile that stored it went through.            *)
FinalizerGuardsJWT ==
    acc.exists /\ ~acc.finalizer => \A k \in Keys : nats[k] = NoClaims

(* No restart lists an older version than the last process had seen.       *)
(* client-go does not promise it; where a property rests on it, its        *)
(* theorem says so.                                                        *)
ListsAdvance == "oldList" \notin Hazards

(* A push only happens while the Account exists: reconciles run on cached  *)
(* copies, but never publish an Account that is already gone, as long as   *)
(* no restart lists it as it was before its deletion.                      *)
NoPushAfterRemoval ==
    [][~acc.exists => \A k \in Keys : nats'[k] \in {nats[k], NoClaims}]_vars

(* No reconcile is running or due, and the cache is up to date.            *)
Quiet == pc = "idle" /\ ~queued /\ cacheFresh

(* An Account that is Ready and left alone is published: its seed, its JWT *)
(* Secret and NATS have the stored key pair and the claims of the stored   *)
(* spec and SigningKeys.  Pushes from old copies, also of a cache that     *)
(* went back, happen; the last one before the queue runs empty is right.   *)
QuietReadyIsPublished ==
    Quiet /\ acc.exists /\ ~acc.deleting /\ IsTrue(acc.conds[Happy]) =>
        /\ seed.key = acc.keyPair
        /\ jwt.claims = ClaimsOf(acc, jwt.claims.iss)
        /\ nats[acc.keyPair] = jwt.claims

(* No JWT reaches NATS that is signed by a key which the issuer has not    *)
(* published: the seed Secret is read live, several steps after the cached *)
(* status that it has to agree with.                                       *)
SignedByPublishedKey ==
    \A k \in Keys : nats[k].iss <= env.issuerKey

(* A stored True condition comes with the reference it is about: a Ready   *)
(* Account has a key pair and an Operator, which resolveIssuer's and       *)
(* resolveAccount's callers dereference after looking at Ready alone.      *)
ReadyHasReferences ==
    /\ IsTrue(acc.conds["SeedSecretReady"]) => acc.keyPair # NoKey
    /\ IsTrue(acc.conds["OperatorResolved"]) => acc.operatorRef
    /\ IsTrue(acc.conds[Happy]) => acc.keyPair # NoKey /\ acc.operatorRef

(* While the Account is not being deleted, a stored JWTPushed = True is    *)
(* true of NATS: some JWT of this Account is there.                        *)
PushedIsOnNATS ==
    acc.exists /\ ~acc.deleting /\ IsTrue(acc.conds["JWTPushed"])
        => \E k \in Keys : nats[k] # NoClaims

(* The Account as its publication on NATS sees it.                         *)
Life ==
    IF ~acc.exists THEN "gone" ELSE IF acc.deleting THEN "deleting" ELSE "active"

Publication ==
    INSTANCE AccountPublication WITH
        life <- Life, guarded <- acc.exists /\ acc.finalizer, gen <- acc.gen,
        published <- [k \in Keys |-> nats[k].gen]

(* Seen from NATS the reconciler implements AccountPublication: stale      *)
(* copies, lost answers, restarts and half-done finalizations never        *)
(* publish without the finalizer, go back to an older spec, or take away   *)
(* the JWT of an Account that stays, as long as ListsAdvance holds.        *)
ImplementsPublication == Publication!Spec

(* When the Operator and its system account stay reachable, an Account     *)
(* whose status recorded the push leaves no JWT behind for the key pair in *)
(* its status, through any retries, lost replies and restarts of the       *)
(* finalization that do not list the Account as it was before.             *)
RecordedPushIsCleanedUp ==
    Hazards \cap {"operator", "sys", "oldList"} = {} =>
        (~acc.exists /\ PushRecorded(acc) => nats[acc.keyPair] = NoClaims)

(* The log message at the early return of finalizeAccount, "JWT not        *)
(* pushed, skipping finalization": when it is written, NATS has no JWT of  *)
(* the Account.                                                            *)
SkippedMeansNotPushed ==
    pc = "removeFinalizer" /\ ~PushRecorded(obj)
        => \A k \in Keys : nats[k] = NoClaims

(* "anything from here on out should follow the happy path": finalization  *)
(* of an Account whose JWT is recorded as pushed never meets a nil         *)
(* reference.                                                              *)
FinalizesOnHappyPath == ~DereferencesNil

EnvironmentIsGood ==
    /\ IssuerOf[acc.gen] = "ready"
    /\ env = GoodEnvironment(env.issuerKey, env.sks)
    /\ seed.kind # "bad"
    /\ jwt.kind # "foreign"
    /\ jwt.kind = "noData" => jwt.owned

(* The Account is Ready and NATS has the claims of its current spec, key   *)
(* pair and SigningKeys.                                                   *)
Converged ==
    /\ IsTrue(acc.conds[Happy])
    /\ acc.signingKeys = env.sks
    /\ acc.keyPair # NoKey
    /\ seed.key = acc.keyPair
    /\ jwt.claims = ClaimsOf(acc, env.issuerKey)
    /\ nats[acc.keyPair] = ClaimsOf(acc, env.issuerKey)

(* Once what the Account depends on stays good, the Account converges and  *)
(* stays converged, or is deleted: no lost answer, conflict, new key of    *)
(* the issuer or restart from an old version leaves it behind with an      *)
(* empty queue.  The failures of loadIssuerSeed that Reconcile does not    *)
(* retry, and selectors, are not among the disturbances it survives.       *)
Converges ==
    <>[]EnvironmentIsGood => <>[](Converged \/ acc.deleting \/ ~acc.exists)

(* A deleted Account goes away once the Operator and the system account    *)
(* can be reached or are gone, and finalization no longer meets a nil      *)
(* reference: a panic, or several, are survived, but one whose cause is in *)
(* the stored status comes back with every restart (FinalizesOnHappyPath). *)
DeletionCompletes ==
    <>[](env.operator # "broken" /\ env.sys # "broken" /\ ~DereferencesNil)
        => (acc.deleting ~> ~acc.exists)
=============================================================================
