----------------------------- MODULE TrustChain -----------------------------
(***************************************************************************)
(* An Operator and its system Account, which is issued by the Operator,    *)
(* with the NATS deployment that both are for.  Each waits for the others: *)
(* the Operator's JWT names the key pair of the Account, the Account's JWT *)
(* is signed by an Operator that is Ready, NATS runs with the Operator's   *)
(* JWT, and the Account is Ready once its JWT is pushed to NATS.           *)
(*                                                                         *)
(* The Operator reconciler's state has the names it has in                 *)
(* OperatorController.  The two reconcilers run in one process.            *)
(***************************************************************************)
EXTENDS OperatorController

VARIABLES
    acc, accCached, accFresh, accOld, accQueued, accPc, accObj, accObjFresh,
    accOrig, accRequeue, signer, accSeed, accNextKey, accJWT, nats,
                    \* the Account reconciler's state
    trusted         \* the claims of the Operator JWT that NATS runs with

account ==
    <<acc, accCached, accFresh, accOld, accQueued, accPc, accObj, accObjFresh,
      accOrig, accRequeue, signer, accSeed, accNextKey, accJWT, nats>>
operator == <<server, queued, local, secrets, sks>>
vars == <<operator, account, trusted, budget>>

(* What resolveIssuer finds in the cache.                                  *)
IssuerView ==
    IF ~cached.exists THEN "absent"
    ELSE IF IsTrue(cached.status.conds[Happy]) THEN "ready" ELSE "notReady"

(* SystemAccountLoader.Load and the connection: the seed of the system     *)
(* Account is read live, and NATS takes only the system account that the   *)
(* Operator JWT it runs with names.                                        *)
SystemAccountView ==
    IF acc.keyPair = NoKey THEN "broken"
    ELSE IF accSeed.kind = "absent" THEN "seedAbsent"
    ELSE IF trusted # NoClaims /\ trusted.sys = accSeed.key THEN "ok"
    ELSE "broken"

AccountEnvironment ==
    [issuer |-> IssuerView, admits |-> "yes",
     issuerKey |-> IF cached.exists THEN cached.status.keyPair ELSE NoKey,
     issuerSeed |-> seed, sks |-> {}, operator |-> "ok",
     sys |-> SystemAccountView]

Account ==
    INSTANCE AccountController WITH
        MaxGen <- 1, MaxIssuerKeys <- MaxKeys, SKs <- {},
        IssuerOf <- <<"ready">>, cached <- accCached, cacheFresh <- accFresh,
        old <- accOld, queued <- accQueued, pc <- accPc, obj <- accObj,
        objFresh <- accObjFresh, orig <- accOrig, requeue <- accRequeue,
        seed <- accSeed, nextKey <- accNextKey, jwt <- accJWT,
        env <- AccountEnvironment

Init == InitOperator /\ Account!InitAccount /\ trusted = NoClaims

-----------------------------------------------------------------------------
OperatorStep == UNCHANGED <<account, trusted>> /\ ReconcileOperator(accCached)

AccountStep == UNCHANGED <<operator, trusted>> /\ Account!ReconcileLive

(* An event of the Operator also goes to the Accounts with its label.      *)
OperatorEvent ==
    /\ SyncOperator
    /\ Account!AccountOperatorWatcher
    /\ UNCHANGED <<acc, accCached, accFresh, accOld, accPc, accObj, accObjFresh,
                   accOrig, accRequeue, signer, accSeed, accNextKey, accJWT, nats, trusted>>

(* An event of the Account also goes to the Operator it refers to.         *)
AccountEvent ==
    /\ Account!CacheSync
    /\ EnqueueIf(AccountWatcher(accCached, acc))
    /\ UNCHANGED <<secrets, sks, trusted>>

(* NATS is deployed, or deployed again, with the Operator's JWT.           *)
DeployNATS ==
    /\ jwt.claims \notin {NoClaims, trusted}
    /\ trusted' = jwt.claims
    /\ UNCHANGED <<operator, account, budget>>

CrashAndRestart ==
    /\ Crash
    /\ Account!Restart
    /\ UNCHANGED <<secrets, sks, trusted>>

Disturbance ==
    \/ DeleteOperatorSeed /\ UNCHANGED <<account, trusted>>
    \/ Account!DeleteSeed /\ UNCHANGED <<operator, trusted>>
    \/ CrashAndRestart

Next ==
    \/ OperatorStep \/ AccountStep \/ OperatorEvent \/ AccountEvent
    \/ DeployNATS \/ Disturbance

(* The two workers keep working, watch events keep arriving, and NATS is   *)
(* deployed with the JWT that is there.                                    *)
Fairness ==
    /\ WF_vars(OperatorStep)
    /\ WF_vars(AccountStep)
    /\ WF_vars(OperatorEvent)
    /\ WF_vars(AccountEvent)
    /\ WF_vars(DeployNATS)

FairSpec == Init /\ [][Next]_vars /\ Fairness

-----------------------------------------------------------------------------
(* Both are Ready; the Operator's JWT, which NATS runs with, is for the    *)
(* stored spec and names the Account's key; the JWT that NATS holds for    *)
(* that key is signed by the Operator's.                                   *)
Established ==
    /\ IsTrue(res.status.conds[Happy])
    /\ IsTrue(acc.conds[Happy])
    /\ res.status.keyPair = seed.key
    /\ res.status.sys = accSeed.key
    /\ acc.keyPair = accSeed.key
    /\ trusted = OperatorClaimsOf(res)
    /\ jwt.claims = trusted
    /\ nats[acc.keyPair] = Account!ClaimsOf(acc, res.status.keyPair)

(* From an empty cluster, and again after the key pair of either is lost   *)
(* or the process restarts, the chain of trust is established and stays:   *)
(* no order of the two reconciles and of their events leaves the Operator, *)
(* the Account and NATS waiting for each other.                            *)
ChainOfTrust == <>[]Established
=============================================================================
