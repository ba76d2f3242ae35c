------------------------- MODULE OperatorController -------------------------
(***************************************************************************)
(* The Operator reconciler (internal/controller/accounts/                  *)
(* operator_controller.go) working on one Operator.  The Operator signs    *)
(* its own JWT, which names its system Account; the module that composes   *)
(* the two gives the actions the Account, as the informer cache has it.    *)
(***************************************************************************)
EXTENDS ControllerRuntime

CONSTANTS
    MaxGen,         \* bound on .metadata.generation
    MaxKeys,        \* bound on the key pairs that are ever generated
    SKs             \* SigningKeys that the Operator may own

Gens == 1 .. MaxGen
Keys == 1 .. MaxKeys

ASSUME MaxGenAssumption == MaxGen \in Nat \ {0}

ASSUME MaxKeysAssumption == MaxKeys \in Nat \ {0}

VARIABLES
    seed,           \* the Operator's seed Secret
    nextKey,        \* the key pair that nkeys.CreateOperator returns next
    jwt,            \* the Operator's JWT Secret
    sks             \* the ready SigningKeys that name the Operator as owner

secrets == <<seed, nextKey, jwt>>

(* operatorConditionSet.                                                   *)
OperatorDependents ==
    {"SeedSecretReady", "SystemAccountResolved", "SigningKeysUpdated",
     "JWTSecretReady"}

OperatorTypes == OperatorDependents \cup {Happy}

(* sys is .status.resolvedSystemAccount, as its public key.                *)
OperatorStatuses ==
    [conds : ConditionLists(OperatorTypes), keyPair : Keys \cup {NoKey},
     sys : Keys \cup {NoKey}, signingKeys : SUBSET SKs]

NoStatus ==
    [conds |-> [t \in OperatorTypes |-> NoCondition], keyPair |-> NoKey,
     sys |-> NoKey, signingKeys |-> {}]

Operators == [exists : BOOLEAN, gen : Gens, status : OperatorStatuses]

NewOperator == [exists |-> TRUE, gen |-> 1, status |-> NoStatus]

Steps == {"seed", "systemAccount", "signingKeys", "jwt"}

OperatorJWTs == [key : Keys, gen : Gens, sys : Keys, sks : SUBSET SKs]

(* CreateOperatorClaims for a copy of the Operator, of which it needs the  *)
(* key pair and the resolved system account.                               *)
OperatorClaimsOf(o) ==
    [key |-> o.status.keyPair, gen |-> o.gen, sys |-> o.status.sys,
     sks |-> o.status.signingKeys]

InitOperator ==
    /\ RuntimeInit(NewOperator)
    /\ \/ seed = SeedAbsent /\ nextKey = 1
       \/ seed = SeedPrecreated(1) /\ nextKey = 2
    /\ jwt = JWTAbsent
    /\ sks = {}

-----------------------------------------------------------------------------
(* The lifecycle methods of OperatorStatus.                                *)

MarkOperatorTrue(o, t) ==
    [o EXCEPT !.status.conds = MarkTrue(@, OperatorDependents, t)]

MarkOperatorError(o, t, err) ==
    [o EXCEPT !.status.conds = MarkCondition(@, OperatorDependents, t, err)]

MarkSeedSecretReady(o, key) ==
    MarkOperatorTrue([o EXCEPT !.status.keyPair = key], "SeedSecretReady")

MarkSeedSecretError(o, err) ==
    MarkOperatorError([o EXCEPT !.status.keyPair = NoKey], "SeedSecretReady", err)

MarkSystemAccountResolved(o, key) ==
    MarkOperatorTrue([o EXCEPT !.status.sys = key], "SystemAccountResolved")

(* Mutant: the reference is dropped, its condition is not.                 *)
ForgetSystemAccount(o, err) == [o EXCEPT !.status.sys = NoKey]

MarkSystemAccountResolveError(o, err) ==
    MarkOperatorError([o EXCEPT !.status.sys = NoKey], "SystemAccountResolved", err)

MarkSigningKeysUpdated(o, keys) ==
    MarkOperatorTrue([o EXCEPT !.status.signingKeys = keys], "SigningKeysUpdated")

-----------------------------------------------------------------------------
(* The reconcile.                                                          *)

StartOperator ==
    StartReconcile("seed", OperatorDependents) /\ UNCHANGED <<secrets, sks>>

(* An owned Secret that is created, changed or deleted enqueues its owner. *)
SeedSecretStep ==
    /\ pc = "seed"
    /\ \E o \in ReconcileSeedSecret(seed, nextKey) :
        /\ Pays(o.fault)
        /\ seed' = o.secret
        /\ nextKey' = IF o.secret.key = nextKey THEN nextKey + 1 ELSE nextKey
        /\ queued' = (queued \/ o.secret # seed)
        /\ IF o.err # NoError
           THEN Return(MarkSeedSecretError(obj, o.err), AsResult(o.err))
           ELSE ContinueUnless(o.result = Requeue, "systemAccount",
                               MarkSeedSecretReady(obj, o.key))
    /\ UNCHANGED <<server, objFresh, orig, jwt, sks>>

(* Mutant: the Account has to be Ready, as every other reference has to.   *)
HasReadyAccount(account) == account.exists /\ IsTrue(account.conds[Happy])

(* The Account need not be Ready, which it cannot be before NATS runs with *)
(* the Operator's JWT: its seed condition is enough.                       *)
HasKeyPair(account) == account.exists /\ IsTrue(account.conds["SeedSecretReady"])

(* Mutant: the failure is not retried.                                     *)
SystemAccountErrorFinal == TerminalError(ConditionFailed)

(* The same for an Account that is missing, has no key pair yet, or cannot *)
(* be read; it is not wrapped, so the runtime retries.                     *)
SystemAccountError == PlainError(ConditionFailed)

EnsureSystemAccountResolved(account) ==
    /\ pc = "systemAccount"
    /\ LET fail == Return(MarkSystemAccountResolveError(obj, SystemAccountError),
                          AsResult(SystemAccountError))
       IN  \/ /\ HasKeyPair(account)
              /\ Continue("signingKeys",
                          MarkSystemAccountResolved(obj, account.keyPair))
              /\ UNCHANGED budget
           \/ ~HasKeyPair(account) /\ fail /\ UNCHANGED budget
           \/ Disturb(Fault) /\ fail
    /\ UNCHANGED <<server, queued, objFresh, orig, secrets, sks>>

(* The list is read live; an error marks nothing.                          *)
EnsureSigningKeysUpdated ==
    /\ pc = "signingKeys"
    /\ \/ /\ Continue("jwt", MarkSigningKeysUpdated(obj, sks))
          /\ UNCHANGED budget
       \/ Disturb(Fault) /\ Return(obj, TRUE)
    /\ UNCHANGED <<server, queued, objFresh, orig, secrets, sks>>

JWTSecretStep ==
    /\ pc = "jwt"
    /\ \E o \in ReconcileJWTSecret(jwt, OperatorClaimsOf(obj)) :
        /\ Pays(o.fault)
        /\ jwt' = o.secret
        /\ queued' = (queued \/ o.secret # jwt)
        /\ Return(IF o.err # NoError
                  THEN MarkOperatorError(obj, "JWTSecretReady", o.err)
                  ELSE MarkOperatorTrue(obj, "JWTSecretReady"),
                  IF o.err # NoError THEN AsResult(o.err) ELSE o.result = Requeue)
    /\ UNCHANGED <<server, objFresh, orig, seed, nextKey, sks>>

StoreStatus == UpdateStatus /\ UNCHANGED <<secrets, sks>>

ReconcileOperator(account) ==
    \/ StartOperator \/ SeedSecretStep \/ EnsureSystemAccountResolved(account)
    \/ EnsureSigningKeysUpdated \/ JWTSecretStep \/ StoreStatus

-----------------------------------------------------------------------------
(* The informers, and users and the other controllers.                     *)

SyncOperator == CacheSync /\ UNCHANGED <<secrets, sks>>

ResyncOperator == Resync /\ UNCHANGED <<secrets, sks>>

(* The watch of Accounts maps the old and the new Account of an event to   *)
(* the Operator in their .status.operatorRef.                              *)
AccountWatcher(before, after) ==
    (before.exists /\ before.operatorRef) \/ (after.exists /\ after.operatorRef)

EditOperator ==
    /\ Disturb("opEdit")
    /\ res.exists
    /\ res.gen < MaxGen
    /\ ForeignWrite([res EXCEPT !.gen = @ + 1])
    /\ UNCHANGED <<secrets, sks>>

(* The controller has no finalizer on an Operator.                         *)
DeleteOperator ==
    /\ Disturb("opDelete")
    /\ res.exists
    /\ ForeignWrite([res EXCEPT !.exists = FALSE])
    /\ UNCHANGED <<secrets, sks>>

DeleteOperatorSeed ==
    /\ Disturb("opSeed")
    /\ seed.kind # "absent"
    /\ nextKey <= MaxKeys
    /\ seed' = SeedAbsent
    /\ EnqueueIf(seed.managed)
    /\ UNCHANGED <<nextKey, jwt, sks>>

(* The Operator's JWT Secret is deleted, emptied, garbled, replaced or     *)
(* disowned.                                                               *)
TamperOperatorJWT ==
    /\ \E next \in TamperedJWTSecrets(jwt) :
        /\ Disturb(TamperingWith(next))
        /\ jwt' = next
        /\ EnqueueIf(jwt.owned)
    /\ UNCHANGED <<seed, nextKey, sks>>

(* A SigningKey that ensureSigningKeysUpdated takes for the Operator's own *)
(* becomes ready, or is deleted.  It looks at the owner's name alone, the  *)
(* watch at the owner's kind too: the SigningKeys of an Account of the     *)
(* same name ("namesake") are listed, but not watched.                     *)
ChangeSigningKeys ==
    /\ \E kind \in {"sks", "namesake"} :
        /\ Disturb(kind)
        /\ EnqueueIf(kind = "sks")
    /\ \E s \in SUBSET SKs \ {sks} : sks' = s
    /\ UNCHANGED secrets

DisturbOperator ==
    \/ EditOperator \/ DeleteOperator \/ DeleteOperatorSeed
    \/ TamperOperatorJWT \/ ChangeSigningKeys

-----------------------------------------------------------------------------
(* Every variable holds a value of its type.                               *)
OperatorTypeOK ==
    /\ RuntimeTypeOK(Operators, Steps)
    /\ seed \in SeedSecrets(Keys)
    /\ nextKey \in 1 .. MaxKeys + 1
    /\ jwt \in JWTSecrets(OperatorJWTs)
    /\ sks \in SUBSET SKs

(* A stored True condition comes with the reference it is about:           *)
(* loadIssuerSeed and SystemAccountLoader look up the key pair and the     *)
(* system account of an Operator of which only Ready was looked at.        *)
OperatorHasReferences ==
    /\ IsTrue(res.status.conds["SeedSecretReady"]) => res.status.keyPair # NoKey
    /\ IsTrue(res.status.conds["SystemAccountResolved"]) => res.status.sys # NoKey

(* No reconcile is running or due, and the cache is up to date.            *)
Quiet == pc = "idle" /\ ~queued /\ cacheFresh

(* An Operator that is Ready and left alone is right: its JWT Secret holds *)
(* the claims of the stored spec, key pair, system account and signing     *)
(* keys, although it is written before the status that it was made from.   *)
QuietOperatorIsRight ==
    Quiet /\ res.exists /\ IsTrue(res.status.conds[Happy]) =>
        /\ res.status.keyPair = seed.key
        /\ res.status.signingKeys = sks
        /\ jwt.claims = OperatorClaimsOf(res)
=============================================================================
