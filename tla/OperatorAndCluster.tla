------------------------- MODULE OperatorAndCluster -------------------------
(***************************************************************************)
(* The Operator reconciler with a system Account that may change in every  *)
(* way, in the cluster that users disturb.  TrustChain has the Account's   *)
(* own reconciler in the place of sysAcc.                                  *)
(***************************************************************************)
EXTENDS OperatorController

VARIABLE sysAcc     \* the system Account in the informer cache

vars == <<runtime, secrets, sks, sysAcc>>

(* What the Operator looks at of an Account.                               *)
SystemAccounts ==
    [exists : BOOLEAN, conds : [{"SeedSecretReady", Happy} -> Statuses],
     keyPair : Keys \cup {NoKey}, operatorRef : BOOLEAN]

AbsentAccount ==
    [exists |-> FALSE,
     conds |-> [t \in {"SeedSecretReady", Happy} |-> "Unknown"],
     keyPair |-> NoKey, operatorRef |-> FALSE]

(* An Account that is new, has a key pair, or knows its Operator too.      *)
PendingAccount == [AbsentAccount EXCEPT !.exists = TRUE]

KeyedAccount(key, knows) ==
    [PendingAccount EXCEPT !.keyPair = key, !.operatorRef = knows,
                           !.conds["SeedSecretReady"] = "True"]

Init == InitOperator /\ sysAcc = AbsentAccount

(* The events of the Account: it appears, gets a key pair (a new one each  *)
(* time), resolves its Operator, loses its seed, goes.                     *)
AccountProgress(next) ==
    /\ sysAcc' = next
    /\ EnqueueIf(AccountWatcher(sysAcc, next))
    /\ UNCHANGED <<secrets, sks>>

CreateAccount ==
    ~sysAcc.exists /\ AccountProgress(PendingAccount) /\ UNCHANGED budget

GiveKeyPair ==
    /\ sysAcc.exists
    /\ ~IsTrue(sysAcc.conds["SeedSecretReady"])
    /\ \E k \in Keys : AccountProgress(KeyedAccount(k, sysAcc.operatorRef))
    /\ UNCHANGED budget

(* Its own reconcile resolves the Operator once that is Ready.             *)
ResolveOperator ==
    /\ HasKeyPair(sysAcc)
    /\ cached.exists
    /\ IsTrue(cached.status.conds[Happy])
    /\ ~sysAcc.operatorRef
    /\ AccountProgress([sysAcc EXCEPT !.operatorRef = TRUE])
    /\ UNCHANGED budget

LoseKeyPair ==
    /\ Disturb("account")
    /\ HasKeyPair(sysAcc)
    /\ \/ AccountProgress([PendingAccount EXCEPT !.operatorRef = sysAcc.operatorRef])
       \/ AccountProgress([sysAcc EXCEPT !.operatorRef = FALSE])
       \/ AccountProgress(AbsentAccount)

CrashAndRestart == Crash /\ UNCHANGED <<secrets, sks, sysAcc>>

Step == ReconcileOperator(sysAcc) /\ UNCHANGED sysAcc

Sync == SyncOperator /\ UNCHANGED sysAcc

Next ==
    \/ Step \/ Sync
    \/ ResyncOperator /\ UNCHANGED sysAcc
    \/ CreateAccount \/ GiveKeyPair \/ ResolveOperator \/ LoseKeyPair
    \/ DisturbOperator /\ UNCHANGED sysAcc
    \/ CrashAndRestart

(* The worker keeps working, watch events keep arriving, and the system    *)
(* Account's own reconciler gives it what it needs.                        *)
Fairness ==
    /\ WF_vars(Step)
    /\ WF_vars(Sync)
    /\ WF_vars(CreateAccount)
    /\ WF_vars(GiveKeyPair)
    /\ WF_vars(ResolveOperator)

Spec == Init /\ [][Next]_vars

FairSpec == Spec /\ Fairness

-----------------------------------------------------------------------------
(* Every variable holds a value of its type.                               *)
TypeOK == OperatorTypeOK /\ sysAcc \in SystemAccounts

(* The Operator is Ready, and its JWT is for its spec, its key pair, its   *)
(* signing keys and the system Account's current key pair.                 *)
Converged ==
    /\ IsTrue(res.status.conds[Happy])
    /\ res.status.keyPair = seed.key
    /\ res.status.sys = sysAcc.keyPair
    /\ res.status.signingKeys = sks
    /\ jwt.claims = OperatorClaimsOf(res)

(* The Operator converges and stays converged, or is deleted: also when    *)
(* the system Account appears late, changes its key pair or is created     *)
(* again while it refers to no Operator, so that its events reach nobody,  *)
(* and although the Account refers to one only once the Operator is Ready. *)
Converges == <>[](Converged \/ ~res.exists)
=============================================================================
