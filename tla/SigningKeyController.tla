------------------------ MODULE SigningKeyController ------------------------
(***************************************************************************)
(* The SigningKey reconciler (internal/controller/accounts/                *)
(* signingkey_controller.go) working on one SigningKey, against the API    *)
(* server, the informer cache, the Accounts and Operators that may own the *)
(* SigningKey, and users.                                                  *)
(*                                                                         *)
(* It is built like AccountController: one step per call that leaves the   *)
(* process, one worker, and writes that are refused unless the copy is of  *)
(* the server's latest version.  It does not use BaseReconciler: it keeps  *)
(* its own, simpler treatment of the seed Secret and of errors.            *)
(***************************************************************************)
EXTENDS ReconcileErrors, Integers, FiniteSets

CONSTANTS
    Names,          \* names of Accounts and Operators in the namespace
    Secrets,        \* names of Secrets in the namespace
    MaxGen,         \* bound on .metadata.generation
    MaxKeys,        \* bound on the key pairs that are ever stored
    MaxUID,         \* bound on how often an owner is created
    SpecOf,         \* generation -> .spec
    FirstSelector,  \* the owners' .spec.signingKeysSelector at first
    Hazards,        \* the kinds of disturbance that may happen
    MaxDisturbances \* bound on how many do

Gens == 1 .. MaxGen
Keys == 1 .. MaxKeys
Kinds == {"Account", "Operator"}

(* .spec: an owner's kind and name, whether its apiVersion is in the       *)
(* scheme, and the name of the seed Secret.                                *)
Specs ==
    [kind : Kinds \cup {"other"}, name : Names, known : BOOLEAN, secret : Secrets]

(* A nil selector admits every SigningKey, "tagged" the ones with a label, *)
(* and "none" stands for one that does not parse or asks for other labels. *)
Selectors == {"nil", "tagged", "none"}

(* Every Secret can be created at least once.                              *)
ASSUME SigningKeyBounds ==
    /\ MaxGen \in Nat \ {0}
    /\ MaxKeys \in Nat \ {0}
    /\ MaxUID \in Nat \ {0}
    /\ IsFiniteSet(Secrets) /\ Cardinality(Secrets) <= MaxKeys
    /\ MaxDisturbances \in Nat

(* "nil" stands for a name that is not set.                                *)
ASSUME SecretNamesAssumption == "nil" \notin Secrets

ASSUME SpecOfAssumption == SpecOf \in [Gens -> Specs]

ASSUME FirstSelectorAssumption == FirstSelector \in Selectors

VARIABLES
    sk,             \* the SigningKey in the API server
    cached,         \* the SigningKey in the informer cache
    cacheFresh,     \* cached is of sk's version
    old,            \* the version that was cached before, if it can be listed
    queued,         \* the SigningKey's key is in the workqueue
    pc,             \* the next step of the running reconcile, "idle" if none
    obj,            \* signingKey in Reconcile: the copy it works on
    objFresh,       \* obj is of sk's version
    orig,           \* originalStatus (with the rest of the copy)
    requeue,        \* the reconcile will return a requeue or an error
    secrets,        \* the Secrets of the namespace
    nextKey,        \* the key pair that is generated next
    owners,         \* the Accounts and Operators, as the cache has them
    budget          \* disturbances left

server == <<sk, cached, cacheFresh, old>>
local == <<pc, obj, objFresh, orig, requeue>>
vars == <<server, queued, local, secrets, nextKey, owners, budget>>

(* signingKeyConditionSet.                                                 *)
SigningKeyDependents == {"SeedSecretReady", "OwnerResolved"}

SigningKeyTypes == SigningKeyDependents \cup {Happy}

Empty == 0

(* .status.keyPair.  A public key that is Empty is the empty string.       *)
KeyPairs == [secret : Secrets, publicKey : Keys \cup {Empty}]
NoKeyPair == [secret |-> "nil", publicKey |-> Empty]

(* .status.ownerRef.                                                       *)
OwnerRefs == [kind : Kinds, name : Names, uid : 1 .. MaxUID]
NoOwner == [kind |-> "nil", name |-> "nil", uid |-> 0]

NoLabel == "nil"

(* tagged: it has the label that a "tagged" selector asks for.  labels:    *)
(* the names in the operator and account labels, which the owners' watches *)
(* look for.                                                               *)
SigningKeys ==
    [exists : BOOLEAN, gen : Gens, tagged : BOOLEAN,
     labels : [Kinds -> Names \cup {NoLabel}],
     conds : ConditionLists(SigningKeyTypes),
     keyPair : KeyPairs \cup {NoKeyPair}, ownerRef : OwnerRefs \cup {NoOwner}]

NewSigningKey ==
    [exists |-> TRUE, gen |-> 1, tagged |-> FALSE,
     labels |-> [k \in Kinds |-> NoLabel],
     conds |-> [t \in SigningKeyTypes |-> NoCondition],
     keyPair |-> NoKeyPair, ownerRef |-> NoOwner]

NoSigningKey == [NewSigningKey EXCEPT !.exists = FALSE]

Status(s) == <<s.conds, s.keyPair, s.ownerRef>>

(* A Secret: the key pair of its seed entry, its public key entry, and     *)
(* whether the SigningKey is its controller.  The prefix of the seed, for  *)
(* the kind of the owner, is not looked at when a Secret is found.         *)
SecretAbsent ==
    [exists |-> FALSE, seed |-> Empty, publicKey |-> Empty, owned |-> FALSE]

Secret(seed, publicKey, owned) ==
    [exists |-> TRUE, seed |-> seed, publicKey |-> publicKey, owned |-> owned]

SecretValues ==
    {SecretAbsent} \cup
    [exists : {TRUE}, seed : Keys \cup {Empty}, publicKey : Keys \cup {Empty},
     owned : BOOLEAN]

OwnerValues == [exists : BOOLEAN, uid : 1 .. MaxUID, selector : Selectors]

Init ==
    /\ sk = NewSigningKey
    /\ cached = NoSigningKey
    /\ cacheFresh = FALSE
    /\ old = NoSigningKey
    /\ queued = FALSE
    /\ pc = "idle"
    /\ obj = NoSigningKey
    /\ objFresh = FALSE
    /\ orig = NoSigningKey
    /\ requeue = FALSE
    /\ secrets = [s \in Secrets |-> SecretAbsent]
    /\ nextKey = 1
    /\ owners = [k \in Kinds |-> [n \in Names |->
                    [exists |-> TRUE, uid |-> 1, selector |-> FirstSelector]]]
    /\ budget = MaxDisturbances

-----------------------------------------------------------------------------
(* The lifecycle methods of SigningKeyStatus.                              *)

MarkSeedSecretReady(s, publicKey, secret) ==
    [s EXCEPT !.keyPair = [secret |-> secret, publicKey |-> publicKey],
              !.conds = MarkTrue(@, SigningKeyDependents, "SeedSecretReady")]

MarkOwnerResolved(s, ref) ==
    [s EXCEPT !.ownerRef = ref,
              !.conds = MarkTrue(@, SigningKeyDependents, "OwnerResolved")]

(* Mutant: the reference is cleared, its condition is not.                 *)
ForgetOwner(s) == [s EXCEPT !.ownerRef = NoOwner]

(* An Unknown that ensureOwnerResolved marks is marked False by Reconcile. *)
MarkOwnerResolveFailed(s) ==
    [s EXCEPT !.ownerRef = NoOwner,
              !.conds = MarkFalse(@, SigningKeyDependents, "OwnerResolved")]

-----------------------------------------------------------------------------
(* Helpers of the actions.                                                 *)

(* A disturbance of the given kind may happen, and is paid for.            *)
Disturb(kind) ==
    /\ kind \in Hazards
    /\ budget > 0
    /\ budget' = budget - 1

(* A call fails: by a fault, where it would otherwise have succeeded.      *)
FaultWhen(possible) == IF possible THEN Disturb("apiFault") ELSE UNCHANGED budget

Goto(step, o) == pc' = step /\ obj' = o

(* Return from the body of Reconcile: the deferred status update is next.  *)
Return(o, again) ==
    /\ Goto("status", o)
    /\ requeue' = again

(* Mutant: a patch, which carries no resourceVersion.                      *)
PatchApplies == sk.exists

(* The server takes an Update of a copy of the latest version only.        *)
UpdateApplies == objFresh

(* The server's answer to an Update is decoded into the copy: status       *)
(* fields the server holds replace the copy's, the ones it omits stay.     *)
DecodeInto(o, s) ==
    [s EXCEPT
        !.conds = IF s.conds[Happy] # NoCondition THEN @ ELSE o.conds,
        !.keyPair = IF @ # NoKeyPair THEN @ ELSE o.keyPair,
        !.ownerRef = IF @ # NoOwner THEN @ ELSE o.ownerRef]

-----------------------------------------------------------------------------
(* The reconcile.                                                          *)

StartReconcile ==
    /\ pc = "idle"
    /\ queued
    /\ queued' = FALSE
    /\ IF cached.exists
       THEN /\ Goto("owner", [cached EXCEPT !.conds =
                        InitializeConditions(@, SigningKeyDependents)])
            /\ orig' = cached
            /\ objFresh' = cacheFresh
            /\ UNCHANGED requeue
       ELSE UNCHANGED local
    /\ UNCHANGED <<server, secrets, nextKey, owners, budget>>

Supported(spec) == spec.known /\ spec.kind \in Kinds

(* Mutant: an owner that is not there yet is not waited for.               *)
OwnerErrorOnce(owner, s) ==
    IF /\ owner.exists
       /\ owner.selector = "nil" \/ (owner.selector = "tagged" /\ s.tagged)
    THEN NoError ELSE TerminalError(OtherCause)

(* What the Get of the owner and validateOwnerRequirements return.         *)
OwnerError(owner, s) ==
    IF ~owner.exists THEN PlainError(OtherCause)
    ELSE IF \/ owner.selector = "nil"
            \/ owner.selector = "tagged" /\ s.tagged
    THEN NoError
    ELSE TerminalError(OtherCause)

(* An unsupported kind is marked, but is not an error: the reconcile goes  *)
(* on to the seed Secret.                                                  *)
EnsureOwnerResolved ==
    /\ pc = "owner"
    /\ LET spec == SpecOf[obj.gen]
           owner == owners[spec.kind][spec.name]
           err == OwnerError(owner, obj)
       IN  \/ /\ ~Supported(spec)
              /\ Goto("labels", MarkOwnerResolveFailed(obj))
              /\ UNCHANGED <<requeue, budget>>
           \/ /\ Supported(spec)
              /\ err = NoError
              /\ Goto("labels", MarkOwnerResolved(obj,
                    [kind |-> spec.kind, name |-> spec.name, uid |-> owner.uid]))
              /\ UNCHANGED <<requeue, budget>>
           \/ /\ Supported(spec)
              /\ err # NoError
              /\ Return(MarkOwnerResolveFailed(obj), AsResult(err))
              /\ UNCHANGED budget
           \/ /\ Supported(spec)
              /\ Disturb("apiFault")
              /\ Return(MarkOwnerResolveFailed(obj), TRUE)
    /\ UNCHANGED <<server, queued, objFresh, orig, secrets, nextKey, owners>>

(* The label of the owner's kind.  One that an earlier owner of the other  *)
(* kind left stays.                                                        *)
OwnerLabels(s) == [s.labels EXCEPT ![s.ownerRef.kind] = s.ownerRef.name]

(* The Update succeeds, is refused, or is carried out and its answer lost. *)
ReconcileLabels ==
    /\ pc = "labels"
    /\ LET next == [sk EXCEPT !.labels = OwnerLabels(obj)]
           labelled == obj.ownerRef = NoOwner \/ obj.labels = OwnerLabels(obj)
           written == /\ sk' = next
                      /\ cacheFresh' = FALSE
                      /\ UNCHANGED <<cached, old>>
       IN  \/ /\ labelled
              /\ Goto("getSeed", obj)
              /\ UNCHANGED <<server, objFresh, requeue, budget>>
           \/ /\ ~labelled
              /\ UpdateApplies
              /\ written
              /\ Return(DecodeInto(obj, next), TRUE)
              /\ objFresh' = TRUE
              /\ UNCHANGED budget
           \/ /\ ~labelled
              /\ FaultWhen(UpdateApplies)
              /\ Return([obj EXCEPT !.labels = OwnerLabels(obj)], TRUE)
              /\ UNCHANGED <<server, objFresh>>
           \/ /\ ~labelled
              /\ UpdateApplies
              /\ Disturb("apiFault")
              /\ written
              /\ Return([obj EXCEPT !.labels = OwnerLabels(obj)], TRUE)
              /\ objFresh' = FALSE
    /\ UNCHANGED <<queued, orig, secrets, nextKey, owners>>

(* ensureKeyPair up to the creation of a key pair.  A Secret that is there *)
(* is taken as it is.                                                      *)
GetSeedSecret ==
    /\ pc = "getSeed"
    /\ LET spec == SpecOf[obj.gen]
           got == secrets[spec.secret]
       IN  \/ /\ got.exists
              /\ Return(MarkSeedSecretReady(obj, got.publicKey, spec.secret), FALSE)
              /\ UNCHANGED budget
           \/ /\ ~got.exists
              /\ spec.kind \in Kinds
              /\ Goto("createSeed", obj)
              /\ UNCHANGED <<requeue, budget>>
           \/ /\ ~got.exists
              /\ spec.kind \notin Kinds
              /\ Return(obj, TRUE)
              /\ UNCHANGED budget
           \/ Disturb("apiFault") /\ Return(obj, TRUE)
    /\ UNCHANGED <<server, queued, objFresh, orig, secrets, nextKey, owners>>

(* Mutant: one pair is stored, another is put in the status.               *)
GenerateTwice == Secret(nextKey + 1, nextKey + 1, TRUE)

(* The Secret that is built for a new key pair.                            *)
NewSeedSecret == Secret(nextKey, nextKey, TRUE)

(* Mutant: AlreadyExists is taken for success.                             *)
AfterRefusedCreateAnyway(spec) ==
    Return(MarkSeedSecretReady(obj, nextKey, spec.secret), TRUE)

(* A Create that fails leaves the status alone.                            *)
AfterRefusedCreate(spec) == Return(obj, TRUE)

(* The rest of ensureKeyPair.  Somebody may have created the Secret since  *)
(* the Get.  The new Secret is owned, and its event enqueues the           *)
(* SigningKey.                                                             *)
CreateSecret ==
    /\ pc = "createSeed"
    /\ LET spec == SpecOf[obj.gen]
           free == ~secrets[spec.secret].exists
           stored == /\ secrets' = [secrets EXCEPT ![spec.secret] = NewSeedSecret]
                     /\ nextKey' = nextKey + 1
                     /\ queued' = TRUE
       IN  \/ /\ free
              /\ stored
              /\ Return(MarkSeedSecretReady(obj, nextKey, spec.secret), TRUE)
              /\ UNCHANGED budget
           \/ /\ FaultWhen(free)
              /\ AfterRefusedCreate(spec)
              /\ UNCHANGED <<secrets, nextKey, queued>>
           \/ /\ free
              /\ Disturb("apiFault")
              /\ stored
              /\ Return(obj, TRUE)
    /\ UNCHANGED <<server, objFresh, orig, owners>>

(* The deferred function: Status().Update, when the status has changed.  A *)
(* conflict requeues even where the body would not have.                   *)
UpdateStatus ==
    /\ pc = "status"
    /\ pc' = "idle"
    /\ \/ /\ Status(obj) = Status(orig)
          /\ queued' = (queued \/ requeue)
          /\ UNCHANGED <<server, budget>>
       \/ /\ Status(obj) # Status(orig)
          /\ UpdateApplies
          /\ sk' = [sk EXCEPT !.conds = obj.conds, !.keyPair = obj.keyPair,
                              !.ownerRef = obj.ownerRef]
          /\ cacheFresh' = FALSE
          /\ UNCHANGED <<cached, old>>
          /\ \/ queued' = (queued \/ requeue) /\ UNCHANGED budget
             \/ queued' = TRUE /\ Disturb("apiFault")
       \/ /\ Status(obj) # Status(orig)
          /\ FaultWhen(UpdateApplies)
          /\ queued' = TRUE
          /\ UNCHANGED server
    /\ obj' = NoSigningKey
    /\ orig' = NoSigningKey
    /\ objFresh' = FALSE
    /\ requeue' = FALSE
    /\ UNCHANGED <<secrets, nextKey, owners>>

(* What the first List of a new informer may return, and whether it is of  *)
(* the server's version.  client-go asks for resourceVersion=0, which the  *)
(* API server answers from its own cache: with the latest version, with    *)
(* the one that the last process had, or ("oldList") with one before it.   *)
List ==
    {<<sk, TRUE>>, <<cached, cacheFresh>>}
    \cup (IF "oldList" \in Hazards THEN {<<old, FALSE>>} ELSE {})

(* The process stops and starts again: a new informer lists what there is  *)
(* and enqueues it.                                                        *)
Crash ==
    /\ Disturb("crash")
    /\ pc' = "idle"
    /\ obj' = NoSigningKey
    /\ orig' = NoSigningKey
    /\ objFresh' = FALSE
    /\ requeue' = FALSE
    /\ \E l \in List :
        cached' = l[1] /\ cacheFresh' = l[2] /\ queued' = l[1].exists
    /\ UNCHANGED <<sk, old, secrets, nextKey, owners>>

-----------------------------------------------------------------------------
(* The informers and their event handlers.                                 *)

(* For(&SigningKey{}): every event of the SigningKey enqueues it.          *)
CacheSync ==
    /\ ~cacheFresh
    /\ cached' = sk
    /\ old' = IF "oldList" \in Hazards THEN cached ELSE NoSigningKey
    /\ cacheFresh' = TRUE
    /\ queued' = TRUE
    /\ UNCHANGED <<sk, local, secrets, nextKey, owners, budget>>

(* The informer's periodic resync, hours apart.                            *)
Resync ==
    /\ cached.exists
    /\ ~queued
    /\ queued' = TRUE
    /\ UNCHANGED <<server, local, secrets, nextKey, owners, budget>>

(* signingKeyOperatorWatcher and signingKeyAccountWatcher list the cached  *)
(* SigningKeys by the label that reconcileLabels sets.                     *)
OwnerWatcher(kind, name) ==
    queued' = (queued \/ (cached.exists /\ cached.labels[kind] = name))

-----------------------------------------------------------------------------
(* Users and the other controllers.                                        *)

(* A write of the SigningKey that is not this controller's.                *)
ForeignWrite(next) ==
    /\ sk.exists
    /\ sk' = next
    /\ cacheFresh' = FALSE
    /\ objFresh' = FALSE
    /\ UNCHANGED <<cached, old, queued, pc, obj, orig, requeue, secrets, nextKey,
                   owners>>

EditSpec ==
    /\ sk.gen < MaxGen
    /\ ForeignWrite([sk EXCEPT !.gen = @ + 1])
    /\ UNCHANGED budget

Retag ==
    /\ Disturb("tag")
    /\ ForeignWrite([sk EXCEPT !.tagged = ~@])

(* The controller has no finalizer on a SigningKey.                        *)
DeleteSigningKey ==
    /\ Disturb("delete")
    /\ ForeignWrite([sk EXCEPT !.exists = FALSE])

(* There is a key pair left for every Secret that is missing, and one to   *)
(* spare.                                                                  *)
KeyToSpare ==
    nextKey + Cardinality({s \in Secrets : ~secrets[s].exists}) <= MaxKeys

(* A deleted Secret is noticed when the SigningKey owns it.                *)
LoseSecret(s) ==
    /\ KeyToSpare
    /\ secrets[s].exists
    /\ secrets' = [secrets EXCEPT ![s] = SecretAbsent]
    /\ queued' = (queued \/ secrets[s].owned)
    /\ UNCHANGED <<server, local, nextKey, owners>>

DeleteSecret ==
    \E s \in Secrets :
        /\ Disturb(IF secrets[s].owned THEN "ownedSecret" ELSE "foreignSecret")
        /\ LoseSecret(s)

(* Kubernetes' garbage collector.                                          *)
CollectGarbage ==
    /\ ~sk.exists
    /\ \E s \in Secrets : secrets[s].owned /\ LoseSecret(s)
    /\ UNCHANGED budget

(* A user creates the Secret first, with both entries or with the seed     *)
(* only.                                                                   *)
PrecreateSecret ==
    /\ Disturb("precreated")
    /\ nextKey <= MaxKeys
    /\ \E s \in Secrets, publicKey \in {nextKey, Empty} :
        /\ ~secrets[s].exists
        /\ secrets' = [secrets EXCEPT ![s] = Secret(nextKey, publicKey, FALSE)]
    /\ nextKey' = nextKey + 1
    /\ UNCHANGED <<server, queued, local, owners>>

ChangeOwner(kind, name, owner) ==
    /\ owners' = [owners EXCEPT ![kind][name] = owner]
    /\ OwnerWatcher(kind, name)
    /\ UNCHANGED <<server, local, secrets, nextKey>>

DeleteOwner ==
    /\ Disturb("owner")
    /\ \E k \in Kinds, n \in Names :
        /\ owners[k][n].exists
        /\ ChangeOwner(k, n, [owners[k][n] EXCEPT !.exists = FALSE])

(* A new object of the same name has another uid.                          *)
RecreateOwner ==
    /\ \E k \in Kinds, n \in Names :
        /\ ~owners[k][n].exists
        /\ owners[k][n].uid < MaxUID
        /\ ChangeOwner(k, n, [owners[k][n] EXCEPT !.exists = TRUE, !.uid = @ + 1])
    /\ UNCHANGED budget

(* A selector that admits less, or one that admits more.                   *)
ChangeSelector ==
    \E k \in Kinds, n \in Names, selector \in Selectors :
        /\ owners[k][n].exists
        /\ selector # owners[k][n].selector
        /\ Disturb(IF selector = "none" \/ owners[k][n].selector = "nil"
                   THEN "narrow" ELSE "widen")
        /\ ChangeOwner(k, n, [owners[k][n] EXCEPT !.selector = selector])

-----------------------------------------------------------------------------
Reconcile ==
    \/ StartReconcile \/ EnsureOwnerResolved \/ ReconcileLabels
    \/ GetSeedSecret \/ CreateSecret \/ UpdateStatus

Disturbance ==
    \/ EditSpec \/ Retag \/ DeleteSigningKey \/ DeleteSecret \/ CollectGarbage
    \/ PrecreateSecret \/ DeleteOwner \/ RecreateOwner
    \/ ChangeSelector \/ Crash

Next == Reconcile \/ CacheSync \/ Resync \/ Disturbance

(* The worker keeps working and watch events keep arriving; users, faults, *)
(* the garbage collector and the hours-long resync are owed nothing.       *)
Fairness == WF_vars(Reconcile) /\ WF_vars(CacheSync)

Spec == Init /\ [][Next]_vars

FairSpec == Spec /\ Fairness

-----------------------------------------------------------------------------
(* Every variable holds a value of its type; in particular no key pair is  *)
(* stored that nextKey has not passed.                                     *)
TypeOK ==
    /\ sk \in SigningKeys
    /\ cached \in SigningKeys
    /\ old \in SigningKeys
    /\ obj \in SigningKeys
    /\ orig \in SigningKeys
    /\ cacheFresh \in BOOLEAN
    /\ objFresh \in BOOLEAN
    /\ queued \in BOOLEAN
    /\ requeue \in BOOLEAN
    /\ pc \in {"idle", "owner", "labels", "getSeed", "createSeed", "status"}
    /\ nextKey \in 1 .. MaxKeys + 1
    /\ secrets \in [Secrets -> SecretValues]
    /\ \A s \in Secrets : secrets[s].seed < nextKey /\ secrets[s].publicKey < nextKey
    /\ owners \in [Kinds -> [Names -> OwnerValues]]
    /\ budget \in 0 .. MaxDisturbances

(* What NextSigningKeys, resolveSigningKeyOwner and loadIssuerSeed count   *)
(* on: a stored OwnerResolved = True comes with an ownerRef, and Ready     *)
(* with a key pair as well, whatever mixture of an old status and a new    *)
(* one the deferred update writes after reconcileLabels.                   *)
ReadyHasReferences ==
    /\ IsTrue(sk.conds["OwnerResolved"]) => sk.ownerRef # NoOwner
    /\ IsTrue(sk.conds["SeedSecretReady"]) => sk.keyPair # NoKeyPair
    /\ IsTrue(sk.conds[Happy]) => sk.ownerRef # NoOwner /\ sk.keyPair # NoKeyPair

(* No reconcile is running or due, and the cache is up to date.            *)
Quiet == pc = "idle" /\ ~queued /\ cacheFresh

(* A key pair whose Secret could not be stored, because of a fault or      *)
(* because a user's Secret came first, is never published; and a Ready     *)
(* SigningKey that is left alone publishes the public key of the Secret    *)
(* that its status names.                                                  *)
PublishedKeyIsStored ==
    /\ sk.keyPair.publicKey < nextKey
    /\ sk.exists /\ Quiet /\ IsTrue(sk.conds[Happy]) =>
        /\ secrets[sk.keyPair.secret].exists
        /\ secrets[sk.keyPair.secret].publicKey = sk.keyPair.publicKey

RefersTo(ref, spec) == ref.kind = spec.kind /\ ref.name = spec.name

(* A status that a reconcile stores is about the spec that is stored with  *)
(* it: an ownerRef found for an older spec does not come back after an     *)
(* edit that changes the owner.                                            *)
StatusFollowsSpec ==
    [][Status(sk') # Status(sk) /\ sk'.ownerRef # NoOwner
            => RefersTo(sk'.ownerRef, SpecOf[sk'.gen])]_vars

CurrentOwner(s) == owners[SpecOf[s.gen].kind][SpecOf[s.gen].name]

OwnerIsGood ==
    /\ Supported(SpecOf[sk.gen])
    /\ OwnerError(CurrentOwner(sk), sk) = NoError

(* The SigningKey is Ready for the owner that is there now, with the       *)
(* public key of the Secret that its spec names.                           *)
Converged ==
    LET spec == SpecOf[sk.gen]
    IN  /\ IsTrue(sk.conds[Happy])
        /\ RefersTo(sk.ownerRef, spec)
        /\ sk.ownerRef.uid = CurrentOwner(sk).uid
        /\ secrets[spec.secret].exists
        /\ sk.keyPair = [secret |-> spec.secret,
                         publicKey |-> secrets[spec.secret].publicKey]

(* Once the owner that the spec names stays there and admits it, the       *)
(* SigningKey converges and stays converged, or is deleted: no lost event, *)
(* conflict or recreated owner leaves a stale reference behind.            *)
Converges == <>[]OwnerIsGood => <>[](Converged \/ ~sk.exists)
=============================================================================
