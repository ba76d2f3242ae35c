----------------------- MODULE AccountControllerProofs ----------------------
(***************************************************************************)
(* Safety of the Account reconciler for every number of generations, keys  *)
(* and disturbances, every set of SigningKeys and every set of hazards,    *)
(* except where a theorem assumes that a hazard does not happen.           *)
(***************************************************************************)
EXTENDS AccountController, ReconcilerLemmas

(***************************************************************************)
(* Types of the operators.                                                 *)
(***************************************************************************)

(* The lifecycle methods return an Account.                                *)
LEMMA MarkAccountTrueType ==
    ASSUME NEW a \in Accounts, NEW t \in AccountTypes
    PROVE  MarkAccountTrue(a, t) \in Accounts
<1>1. MarkTrue(a.conds, AccountDependents, t) \in AccountConditions
  BY MarkTrueType DEF Accounts, AccountConditions, AccountTypes
<1> QED
  BY <1>1 DEF MarkAccountTrue, Accounts

(* As above, for the methods that mark a failure or an unknown state.      *)
LEMMA MarkAccountErrorType ==
    ASSUME NEW a \in Accounts, NEW t \in AccountTypes, NEW err
    PROVE  MarkAccountError(a, t, err) \in Accounts
<1>1. MarkCondition(a.conds, AccountDependents, t, err) \in AccountConditions
  BY MarkFalseType, MarkUnknownType
     DEF MarkCondition, Accounts, AccountConditions, AccountTypes
<1> QED
  BY <1>1 DEF MarkAccountError, Accounts

(* The lifecycle methods that also set or clear a reference.               *)
LEMMA LifecycleTypes ==
    ASSUME NEW a \in Accounts, NEW err
    PROVE  /\ \A k \in Keys : MarkSeedSecretReady(a, k) \in Accounts
           /\ MarkSeedSecretError(a, err) \in Accounts
           /\ MarkOperatorResolved(a) \in Accounts
           /\ MarkOperatorResolveError(a, err) \in Accounts
           /\ \A s \in SUBSET SKs : MarkSigningKeysUpdated(a, s) \in Accounts
           /\ MarkJWTPushFailed(a) \in Accounts
<1>1. /\ "SeedSecretReady" \in AccountTypes
      /\ "OperatorResolved" \in AccountTypes
      /\ "SigningKeysUpdated" \in AccountTypes
      /\ "JWTPushed" \in AccountTypes
  BY DEF AccountTypes, AccountDependents
<1>2. /\ \A k \in Keys \cup {NoKey} : [a EXCEPT !.keyPair = k] \in Accounts
      /\ \A b \in BOOLEAN : [a EXCEPT !.operatorRef = b] \in Accounts
      /\ \A s \in SUBSET SKs : [a EXCEPT !.signingKeys = s] \in Accounts
  BY DEF Accounts
<1> QED
  BY <1>1, <1>2, MarkAccountTrueType, MarkAccountErrorType
     DEF MarkSeedSecretReady, MarkSeedSecretError, MarkOperatorResolved,
         MarkOperatorResolveError, MarkSigningKeysUpdated, MarkJWTPushFailed

(* The marks leave alone everything of an Account but its conditions.      *)
LEMMA MarkFrame ==
    ASSUME NEW a \in Accounts, NEW t, NEW err
    PROVE  /\ MarkAccountTrue(a, t).keyPair = a.keyPair
           /\ MarkAccountError(a, t, err).keyPair = a.keyPair
BY DEF MarkAccountTrue, MarkAccountError, Accounts

(* InitializeConditions on a copy returns an Account.                      *)
LEMMA InitializeAccountType ==
    ASSUME NEW a \in Accounts
    PROVE  [a EXCEPT !.conds = InitializeConditions(@, AccountDependents)] \in Accounts
<1>1. InitializeConditions(a.conds, AccountDependents) \in AccountConditions
  BY InitializeConditionsType DEF Accounts, AccountConditions, AccountTypes
<1> QED
  BY <1>1 DEF Accounts

(* Decoding the server's answer into a copy returns an Account.            *)
LEMMA DecodeIntoType ==
    ASSUME NEW o \in Accounts, NEW a \in Accounts
    PROVE  DecodeInto(o, a) \in Accounts
BY DEF DecodeInto, Accounts

(***************************************************************************)
(* Type correctness.  TypeOK is not inductive: a key must be left whenever *)
(* the seed Secret is gone, the copy has a key pair, which the claims are  *)
(* made for, in every step that comes after the seed step, and there is a  *)
(* signer in every step that comes after the issuer's.                     *)
(***************************************************************************)

PastIssuer == {"labels", "signingKeys", "issuerSeed", "jwt", "push"}

PastSeed == {"issuer"} \cup PastIssuer

TypeInv ==
    /\ TypeOK
    /\ seed.kind = "absent" => nextKey \in Keys
    /\ pc \in PastSeed => obj.keyPair \in Keys
    /\ pc \in PastIssuer => signer \in IssuerKeys

(* A new Account, and NoAccount, which stands for no copy, are typed.      *)
LEMMA NewAccountType == NewAccount \in Accounts /\ NoAccount \in Accounts
<1>1. [t \in AccountTypes |-> NoCondition] \in AccountConditions
  BY DEF AccountConditions, ConditionLists
<1>2. 1 \in Gens
  BY MaxGenAssumption DEF Gens
<1>3. NewAccount \in Accounts
  BY <1>1, <1>2 DEF NewAccount, Accounts
<1>4. NoAccount \in Accounts
  <2> HIDE DEF NewAccount
  <2> QED
    BY <1>3 DEF NoAccount, Accounts
<1> QED
  BY <1>3, <1>4

(* The initial state is typed.                                             *)
LEMMA TypeInvInit == Init => TypeInv
<1> SUFFICES ASSUME Init PROVE TypeInv
  OBVIOUS
<1>1. NewAccount \in Accounts /\ NoAccount \in Accounts
  BY NewAccountType
<1>2. seed \in SeedSecrets(Keys) /\ nextKey \in 1 .. MaxKeys + 1
  <2>1. 1 \in Keys /\ 1 \in 1 .. MaxKeys + 1 /\ 2 \in 1 .. MaxKeys + 1
    BY MaxKeysAssumption DEF Keys
  <2>2. SeedPrecreated(1) \in SeedSecrets(Keys)
    BY <2>1 DEF SeedPrecreated, SeedSecrets
  <2>3. SeedAbsent \in SeedSecrets(Keys) /\ SeedBad \in SeedSecrets(Keys)
    BY DEF SeedSecrets
  <2> QED
    BY <2>1, <2>2, <2>3 DEF Init, InitAccount
<1>3. seed.kind = "absent" => nextKey \in Keys
  BY MaxKeysAssumption DEF Init, InitAccount, SeedAbsent, SeedPrecreated, SeedBad, Keys
<1>4. env \in Environments
  <2>1. 1 \in IssuerKeys
    BY MaxIssuerKeysAssumption DEF IssuerKeys
  <2> QED
    BY <2>1 DEF Init, InitAccount, Environments, GoodEnvironment, SeedSecrets, SeedManaged
<1>5. budget \in 0 .. MaxDisturbances
  BY MaxDisturbancesAssumption DEF Init, InitAccount
<1> QED
  BY <1>1, <1>2, <1>3, <1>4, <1>5
     DEF Init, InitAccount, TypeInv, TypeOK, JWTSecrets, PcValues, PastSeed, PastIssuer

(* Paying for a disturbance keeps the budget in range.                     *)
LEMMA DisturbType ==
    ASSUME budget \in 0 .. MaxDisturbances, NEW kind, Disturb(kind)
    PROVE  budget' \in 0 .. MaxDisturbances
BY MaxDisturbancesAssumption DEF Disturb

(* As above, for a step that takes a fault or not.                         *)
LEMMA PaysType ==
    ASSUME budget \in 0 .. MaxDisturbances, NEW fault, Pays(fault)
    PROVE  budget' \in 0 .. MaxDisturbances
BY DisturbType DEF Pays

(* r.Update of the Account, then return.                                   *)
LEMMA UpdateAccountType ==
    ASSUME TypeInv, NEW STATE next, next \in Accounts, UpdateAccount(next)
    PROVE  /\ acc' \in Accounts
           /\ cached' = cached /\ old' = old
           /\ cacheFresh' \in BOOLEAN
           /\ objFresh' \in BOOLEAN
           /\ obj' \in Accounts
           /\ requeue' \in BOOLEAN
           /\ pc' = "status"
           /\ budget' \in 0 .. MaxDisturbances
<1>1. /\ obj \in Accounts
      /\ acc \in Accounts
      /\ cacheFresh \in BOOLEAN
      /\ objFresh \in BOOLEAN
      /\ budget \in 0 .. MaxDisturbances
      /\ next.exists \in BOOLEAN
  BY DEF TypeInv, TypeOK, Accounts
<1>2. DecodeInto(obj, next) \in Accounts
  BY <1>1, DecodeIntoType
<1> QED
  BY <1>1, <1>2, DisturbType DEF UpdateAccount, Return, Goto, server

(* A step that leaves the API server alone and moves the reconcile to a    *)
(* step of which TypeInv asks nothing keeps it.                            *)
LEMMA LocalStep ==
    ASSUME TypeInv, UNCHANGED <<server, env, orig>>,
           objFresh' \in BOOLEAN, queued' \in BOOLEAN,
           obj' \in Accounts, requeue' \in BOOLEAN, pc' \in PcValues,
           pc' \in PastSeed => obj'.keyPair \in Keys,
           signer' \in IssuerKeys \cup {NoKey},
           pc' \in PastIssuer => signer' \in IssuerKeys,
           budget' \in 0 .. MaxDisturbances,
           seed' \in SeedSecrets(Keys), nextKey' \in 1 .. MaxKeys + 1,
           seed'.kind = "absent" => nextKey' \in Keys,
           jwt' \in JWTSecrets(Claims), nats' \in [Keys -> Claims \cup {NoClaims}]
    PROVE  TypeInv'
BY DEF TypeInv, TypeOK, server

(* The claims of a copy that has a key pair.                               *)
LEMMA ClaimsOfType ==
    ASSUME NEW a \in Accounts, a.keyPair \in Keys, NEW iss \in IssuerKeys
    PROVE  ClaimsOf(a, iss) \in Claims
BY DEF ClaimsOf, Claims, Accounts

(* Every step of the reconcile on a live Account keeps TypeInv.            *)
LEMMA TypeInvReconcile ==
    ASSUME TypeInv, UNCHANGED env,
           \/ StartReconcile \/ AddFinalizer \/ SeedSecret \/ IssuerAndOperator
           \/ ReconcileLabels \/ EnsureSigningKeysUpdated \/ LoadIssuerSeed
           \/ JWTSecretStep \/ EnsureJWTPushed \/ UpdateStatus
    PROVE  TypeInv'
<1> USE DEF PastSeed, PastIssuer
<1>0. /\ acc \in Accounts /\ cached \in Accounts /\ obj \in Accounts
      /\ orig \in Accounts /\ cacheFresh \in BOOLEAN /\ objFresh \in BOOLEAN
      /\ queued \in BOOLEAN /\ requeue \in BOOLEAN
      /\ budget \in 0 .. MaxDisturbances /\ env \in Environments
      /\ seed \in SeedSecrets(Keys) /\ nextKey \in 1 .. MaxKeys + 1
      /\ seed.kind = "absent" => nextKey \in Keys
      /\ jwt \in JWTSecrets(Claims) /\ nats \in [Keys -> Claims \cup {NoClaims}]
      /\ pc \in PastSeed => obj.keyPair \in Keys
      /\ signer \in IssuerKeys \cup {NoKey}
      /\ pc \in PastIssuer => signer \in IssuerKeys
  BY DEF TypeInv, TypeOK
<1>1. CASE StartReconcile
  <2> DEFINE copy == [cached EXCEPT !.conds = InitializeConditions(@, AccountDependents)]
  <2>1. copy \in Accounts
    BY <1>0, InitializeAccountType
  <2>2. FirstStep(cached) \in PcValues \ PastSeed
    BY DEF FirstStep, PcValues
  <2> QED
    BY <1>0, <1>1, <2>1, <2>2
       DEF StartReconcile, Goto, TypeInv, TypeOK, server, local, cluster
<1>2. CASE AddFinalizer
  <2>1. [acc EXCEPT !.finalizer = TRUE] \in Accounts
    BY <1>0 DEF Accounts
  <2> QED
    BY <1>0, <1>2, <2>1, UpdateAccountType
       DEF AddFinalizer, TypeInv, TypeOK, cluster, PcValues
<1>3. CASE SeedSecret
  <2> PICK o \in ReconcileSeedSecret(seed, nextKey) :
        /\ Pays(o.fault)
        /\ seed' = o.secret
        /\ nextKey' = IF o.secret.key = nextKey THEN nextKey + 1 ELSE nextKey
        /\ queued' = (queued \/ o.secret # seed)
        /\ IF o.err # NoError
           THEN Return(MarkSeedSecretError(obj, o.err), AsResult(o.err))
           ELSE IF o.result = Requeue
           THEN Return(MarkSeedSecretReady(obj, o.key), TRUE)
           ELSE Goto("issuer", MarkSeedSecretReady(obj, o.key)) /\ UNCHANGED requeue
    BY <1>3 DEF SeedSecret
  <2>1. /\ o.secret \in SeedSecrets(Keys)
        /\ o.err = NoError => o.key \in Keys
        /\ o.secret.kind = "absent" => o.secret = seed
    BY <1>0, SeedOutcomeType, MaxKeysAssumption
  <2>2. o.secret \in SeedSecrets(Keys) => o.secret.key \in Keys \cup {NoKey}
    BY DEF SeedSecrets, SeedAbsent, SeedBad
  <2>3. o.secret.kind = "absent" => o.secret.key = NoKey
    BY <2>1 DEF SeedSecrets, SeedAbsent, SeedBad
  <2>4. nextKey' \in 1 .. MaxKeys + 1
    BY <1>0, <2>1, <2>2, MaxKeysAssumption DEF Keys, NoKey
  <2>5. seed'.kind = "absent" => nextKey' \in Keys
    BY <1>0, <2>1, <2>3, MaxKeysAssumption DEF Keys, NoKey
  <2>6. /\ obj' \in Accounts
        /\ requeue' \in BOOLEAN
        /\ pc' \in {"issuer", "status"}
        /\ pc' = "issuer" => obj'.keyPair = o.key /\ o.err = NoError
    <3>1. MarkSeedSecretReady(obj, o.key).keyPair = o.key
      BY <1>0 DEF MarkSeedSecretReady, MarkAccountTrue, Accounts
    <3>2. /\ \A e : MarkSeedSecretError(obj, e) \in Accounts
          /\ o.err = NoError => MarkSeedSecretReady(obj, o.key) \in Accounts
      BY <1>0, <2>1, LifecycleTypes
    <3>3. requeue' \in BOOLEAN
      BY <1>0, AsResultType, Zenon DEF Return
    <3> QED
      BY <3>1, <3>2, <3>3 DEF Return, Goto
  <2>7. budget' \in 0 .. MaxDisturbances
    BY <1>0, PaysType
  <2> QED
    BY <1>0, <1>3, <2>1, <2>4, <2>5, <2>6, <2>7, LocalStep
       DEF SeedSecret, PcValues
<1>4. CASE IssuerAndOperator
  <2>1. "IssuerResolved" \in AccountTypes
    BY DEF AccountTypes, AccountDependents
  <2>2. \A e : /\ MarkAccountError(obj, "IssuerResolved", e) \in Accounts
               /\ MarkOperatorResolveError(obj, e) \in Accounts
    BY <1>0, <2>1, MarkAccountErrorType, LifecycleTypes
  <2>3. /\ MarkOperatorResolved(obj) \in Accounts
        /\ MarkOperatorResolved(obj).keyPair = obj.keyPair
    BY <1>0, LifecycleTypes DEF MarkOperatorResolved, MarkAccountTrue, Accounts
  <2>4. /\ obj' \in Accounts
        /\ requeue' \in BOOLEAN
        /\ pc' \in {"labels", "status"}
        /\ pc' = "labels" => obj'.keyPair = obj.keyPair /\ signer' \in IssuerKeys
        /\ signer' \in IssuerKeys \cup {NoKey}
        /\ budget' \in 0 .. MaxDisturbances
    <3>1. requeue' \in BOOLEAN
      BY <1>0, <1>4, AsResultType, Zenon DEF IssuerAndOperator, Return
    <3>2. budget' \in 0 .. MaxDisturbances
      BY <1>0, <1>4, DisturbType DEF IssuerAndOperator
    <3>3. \/ /\ Goto("labels", MarkOperatorResolved(obj))
             /\ signer' = env.issuerKey
          \/ /\ \E e : \/ Goto("status", MarkAccountError(obj, "IssuerResolved", e))
                       \/ Goto("status", MarkOperatorResolveError(obj, e))
             /\ UNCHANGED signer
      BY <1>4 DEF IssuerAndOperator, Return
    <3>4. env.issuerKey \in IssuerKeys
      BY <1>0 DEF Environments
    <3> QED
      BY <1>0, <2>2, <2>3, <3>1, <3>2, <3>3, <3>4 DEF Goto
  <2> QED
    BY <1>0, <1>4, <2>4, LocalStep DEF IssuerAndOperator, cluster, PcValues
<1>5. CASE ReconcileLabels
  <2>1. [acc EXCEPT !.label = TRUE] \in Accounts
    BY <1>0 DEF Accounts
  <2>2. CASE obj.label
    BY <1>0, <1>5, <2>2, LocalStep DEF ReconcileLabels, Goto, server, cluster, PcValues
  <2>3. CASE ~obj.label
    BY <1>0, <1>5, <2>1, <2>3, UpdateAccountType
       DEF ReconcileLabels, TypeInv, TypeOK, cluster, PcValues
  <2> QED
    BY <2>2, <2>3
<1>6. CASE EnsureSigningKeysUpdated
  <2>1. env.sks \in SUBSET SKs
    BY <1>0 DEF Environments
  <2>2. /\ MarkSigningKeysUpdated(obj, env.sks) \in Accounts
        /\ MarkSigningKeysUpdated(obj, env.sks).keyPair = obj.keyPair
    BY <1>0, <2>1, LifecycleTypes DEF MarkSigningKeysUpdated, MarkAccountTrue, Accounts
  <2> QED
    BY <1>0, <1>6, <2>2, DisturbType, LocalStep
       DEF EnsureSigningKeysUpdated, Return, Goto, cluster, PcValues
<1>7. CASE LoadIssuerSeed
  <2>1. "IssuerResolved" \in AccountTypes
    BY DEF AccountTypes, AccountDependents
  <2>2. /\ \A e : MarkAccountError(obj, "IssuerResolved", e) \in Accounts
        /\ MarkAccountTrue(obj, "IssuerResolved") \in Accounts
        /\ MarkAccountTrue(obj, "IssuerResolved").keyPair = obj.keyPair
    BY <1>0, <2>1, MarkAccountErrorType, MarkAccountTrueType, MarkFrame
  <2>3. env.issuerSeed.kind = "valid" => env.issuerSeed.key \in IssuerKeys
    BY <1>0 DEF Environments, SeedSecrets, SeedAbsent, SeedBad
  <2>4. /\ obj' \in Accounts
        /\ requeue' \in BOOLEAN
        /\ pc' \in {"jwt", "status"}
        /\ pc' = "jwt" => obj'.keyPair = obj.keyPair /\ signer' \in IssuerKeys
        /\ signer' \in IssuerKeys \cup {NoKey}
        /\ budget' \in 0 .. MaxDisturbances
    BY <1>0, <1>7, <2>2, <2>3, DisturbType DEF LoadIssuerSeed, MatchesSigner, Return, Goto
  <2> QED
    BY <1>0, <1>7, <2>4, LocalStep DEF LoadIssuerSeed, cluster, PcValues
<1>8. CASE JWTSecretStep
  <2> PICK o \in ReconcileJWTSecret(jwt, ClaimsOf(obj, signer)) :
        /\ Pays(o.fault)
        /\ jwt' = o.secret
        /\ queued' = (queued \/ o.secret # jwt)
        /\ IF o.err # NoError
           THEN Return(MarkAccountError(obj, "JWTSecretReady", o.err), AsResult(o.err))
           ELSE IF o.result = Requeue
           THEN Return(MarkAccountTrue(obj, "JWTSecretReady"), TRUE)
           ELSE Goto("push", MarkAccountTrue(obj, "JWTSecretReady")) /\ UNCHANGED requeue
    BY <1>8 DEF JWTSecretStep
  <2>1. o.secret \in JWTSecrets(Claims)
    BY <1>0, <1>8, ClaimsOfType, JWTOutcomeType DEF JWTSecretStep
  <2>2. "JWTSecretReady" \in AccountTypes
    BY DEF AccountTypes, AccountDependents
  <2>3. /\ \A e : MarkAccountError(obj, "JWTSecretReady", e) \in Accounts
        /\ MarkAccountTrue(obj, "JWTSecretReady") \in Accounts
        /\ MarkAccountTrue(obj, "JWTSecretReady").keyPair = obj.keyPair
    BY <1>0, <2>2, MarkAccountErrorType, MarkAccountTrueType, MarkFrame
  <2>4. /\ obj' \in Accounts
        /\ requeue' \in BOOLEAN
        /\ pc' \in {"push", "status"}
        /\ pc' = "push" => obj'.keyPair = obj.keyPair
    <3>1. requeue' \in BOOLEAN
      BY <1>0, AsResultType, Zenon DEF Return
    <3> QED
      BY <2>3, <3>1 DEF Return, Goto
  <2>5. budget' \in 0 .. MaxDisturbances
    BY <1>0, PaysType
  <2> QED
    BY <1>0, <1>8, <2>1, <2>4, <2>5, LocalStep DEF JWTSecretStep, PcValues
<1>9. CASE EnsureJWTPushed
  <2>1. "JWTPushed" \in AccountTypes
    BY DEF AccountTypes, AccountDependents
  <2>2. /\ MarkAccountTrue(obj, "JWTPushed") \in Accounts
        /\ MarkJWTPushFailed(obj) \in Accounts
    BY <1>0, <2>1, MarkAccountTrueType, LifecycleTypes
  <2>3. ClaimsOf(obj, signer) \in Claims
    BY <1>0, <1>9, ClaimsOfType DEF EnsureJWTPushed
  <2>4. nats' \in [Keys -> Claims \cup {NoClaims}]
    BY <1>0, <1>9, <2>3 DEF EnsureJWTPushed, Push
  <2>5. /\ obj' \in Accounts /\ requeue' \in BOOLEAN /\ pc' = "status"
        /\ budget' \in 0 .. MaxDisturbances
    BY <1>0, <1>9, <2>2, DisturbType DEF EnsureJWTPushed, Return, Goto
  <2> QED
    BY <1>0, <1>9, <2>4, <2>5, LocalStep DEF EnsureJWTPushed, PcValues
<1>10. CASE UpdateStatus
  <2>1. [acc EXCEPT !.conds = obj.conds, !.keyPair = obj.keyPair,
                    !.operatorRef = obj.operatorRef,
                    !.signingKeys = obj.signingKeys] \in Accounts
    BY <1>0 DEF Accounts
  <2>2. /\ acc' \in Accounts
        /\ cached' = cached /\ old' = old
        /\ cacheFresh' \in BOOLEAN
        /\ queued' \in BOOLEAN
        /\ budget' \in 0 .. MaxDisturbances
    BY <1>0, <1>10, <2>1, DisturbType DEF UpdateStatus, server
  <2> QED
    BY <1>0, <1>10, <2>2, NewAccountType
       DEF UpdateStatus, TypeInv, TypeOK, cluster, PcValues
<1> QED
  BY <1>1, <1>2, <1>3, <1>4, <1>5, <1>6, <1>7, <1>8, <1>9, <1>10

(* What a restart lists: the server's version, or a copy that was cached.  *)
LEMMA ListedAccount ==
    ASSUME Restart
    PROVE  /\ cached' \in {acc, cached} \/ (~ListsAdvance /\ cached' = old)
           /\ cacheFresh' \in {TRUE, FALSE, cacheFresh}
           /\ cacheFresh' => cached' = acc \/ (cacheFresh /\ cached' = cached)
           /\ queued' = cached'.exists
<1>1. PICK l \in ListAccounts :
        cached' = l[1] /\ cacheFresh' = l[2] /\ queued' = l[1].exists
  BY DEF Restart
<1>2. \/ l = <<acc, TRUE>> \/ l = <<cached, cacheFresh>>
      \/ l = <<old, FALSE>> /\ ~ListsAdvance
  BY <1>1 DEF ListAccounts, ListsAdvance
<1>3. CASE l = <<acc, TRUE>>
  BY <1>1, <1>3
<1>4. CASE l = <<cached, cacheFresh>>
  BY <1>1, <1>4
<1>5. CASE l = <<old, FALSE>> /\ ~ListsAdvance
  BY <1>1, <1>5
<1> QED
  BY <1>2, <1>3, <1>4, <1>5

(* The deletion steps and a restart keep TypeInv.                          *)
LEMMA TypeInvDeletion ==
    ASSUME TypeInv, UNCHANGED env,
           \/ SkipFinalization \/ FinalizationFails \/ DeletePushedJWT
           \/ RemoveFinalizer \/ PanicInFinalize \/ Crash
    PROVE  TypeInv'
<1> USE DEF PastSeed, PastIssuer
<1>0. /\ acc \in Accounts /\ cached \in Accounts /\ old \in Accounts
      /\ obj \in Accounts /\ cacheFresh \in BOOLEAN
      /\ objFresh \in BOOLEAN /\ queued \in BOOLEAN /\ requeue \in BOOLEAN
      /\ budget \in 0 .. MaxDisturbances
      /\ seed \in SeedSecrets(Keys) /\ nextKey \in 1 .. MaxKeys + 1
      /\ seed.kind = "absent" => nextKey \in Keys
      /\ jwt \in JWTSecrets(Claims) /\ nats \in [Keys -> Claims \cup {NoClaims}]
      /\ obj.keyPair \in Keys \cup {NoKey}
      /\ signer \in IssuerKeys \cup {NoKey}
  BY DEF TypeInv, TypeOK, Accounts
<1>1. CASE SkipFinalization
  BY <1>0, <1>1, LocalStep DEF SkipFinalization, Goto, cluster, PcValues
<1>2. CASE FinalizationFails
  <2>1. MarkJWTPushFailed(obj) \in Accounts
    BY <1>0, LifecycleTypes
  <2>2. /\ obj' \in Accounts /\ pc' = "status" /\ requeue' = TRUE
        /\ budget' \in 0 .. MaxDisturbances
    BY <1>0, <1>2, <2>1, DisturbType DEF FinalizationFails, Return, Goto
  <2> QED
    BY <1>0, <1>2, <2>2, LocalStep DEF FinalizationFails, cluster, PcValues
<1>3. CASE DeletePushedJWT
  <2>1. nats' \in [Keys -> Claims \cup {NoClaims}]
    BY <1>0, <1>3 DEF DeletePushedJWT, DeleteJWT
  <2>2. /\ obj' = obj /\ pc' \in {"status", "removeFinalizer"}
        /\ requeue' \in BOOLEAN
        /\ budget' \in 0 .. MaxDisturbances
    BY <1>0, <1>3, DisturbType DEF DeletePushedJWT, Return, Goto
  <2> QED
    BY <1>0, <1>3, <2>1, <2>2, LocalStep DEF DeletePushedJWT, PcValues
<1>4. CASE RemoveFinalizer
  <2>1. [acc EXCEPT !.finalizer = FALSE, !.exists = FALSE] \in Accounts
    BY <1>0 DEF Accounts
  <2> QED
    BY <1>0, <1>4, <2>1, UpdateAccountType
       DEF RemoveFinalizer, TypeInv, TypeOK, cluster, PcValues
<1>5. CASE PanicInFinalize \/ Crash
  <2>1. budget' \in 0 .. MaxDisturbances
    BY <1>0, <1>5, DisturbType DEF PanicInFinalize, Crash
  <2>2. Restart
    BY <1>5 DEF PanicInFinalize, Crash
  <2>3. cached' \in Accounts /\ cacheFresh' \in BOOLEAN /\ queued' \in BOOLEAN
    BY <1>0, <2>2, ListedAccount DEF Accounts
  <2> QED
    BY <1>0, <2>1, <2>2, <2>3, NewAccountType
       DEF Restart, TypeInv, TypeOK, cluster, PcValues
<1> QED
  BY <1>1, <1>2, <1>3, <1>4, <1>5

(* The queue flag stays a flag.                                            *)
LEMMA OwnedSecretWatcherType ==
    ASSUME NEW STATE owned, OwnedSecretWatcher(owned)
    PROVE  queued' \in BOOLEAN
BY DEF OwnedSecretWatcher

(* Events, users and the other controllers keep TypeInv.                   *)
LEMMA TypeInvEnvironment ==
    ASSUME TypeInv,
           \/ /\ \/ CacheSync \/ Resync \/ EditSpec \/ DeleteAccount
                 \/ DeleteSeed \/ TamperJWT
              /\ UNCHANGED env
           \/ EnvironmentChange
    PROVE  TypeInv'
<1>0. /\ acc \in Accounts /\ cached \in Accounts
      /\ queued \in BOOLEAN /\ env \in Environments
      /\ budget \in 0 .. MaxDisturbances
      /\ seed \in SeedSecrets(Keys) /\ nextKey \in 1 .. MaxKeys + 1
      /\ jwt \in JWTSecrets(Claims)
  BY DEF TypeInv, TypeOK
<1>1. CASE (CacheSync \/ Resync) /\ UNCHANGED env
  BY <1>0, <1>1, NewAccountType
     DEF CacheSync, Resync, TypeInv, TypeOK, server, local, cluster
<1>2. CASE EditSpec /\ UNCHANGED env
  <2>1. [acc EXCEPT !.gen = @ + 1] \in Accounts
    BY <1>0, <1>2, MaxGenAssumption DEF EditSpec, Accounts, Gens
  <2> QED
    BY <1>2, <2>1 DEF EditSpec, ForeignWrite, TypeInv, TypeOK, cluster
<1>3. CASE DeleteAccount /\ UNCHANGED env
  <2>1. [acc EXCEPT !.exists = acc.finalizer, !.deleting = TRUE] \in Accounts
    BY <1>0 DEF Accounts
  <2> QED
    BY <1>3, <2>1 DEF DeleteAccount, ForeignWrite, TypeInv, TypeOK, cluster
<1>4. CASE DeleteSeed /\ UNCHANGED env
  <2>1. SeedAbsent \in SeedSecrets(Keys) /\ nextKey \in Keys
    BY <1>0, <1>4, MaxKeysAssumption DEF DeleteSeed, SeedSecrets, Keys
  <2>3. queued' \in BOOLEAN
    BY <1>4, OwnedSecretWatcherType DEF DeleteSeed
  <2>4. budget' \in 0 .. MaxDisturbances
    BY <1>0, <1>4, DisturbType DEF DeleteSeed
  <2> QED
    BY <1>4, <2>1, <2>3, <2>4 DEF DeleteSeed, TypeInv, TypeOK, server, local
<1>5. CASE TamperJWT /\ UNCHANGED env
  <2>1. \A next \in TamperedJWTSecrets(jwt) : next \in JWTSecrets(Claims)
    BY <1>0, TamperedFacts
  <2>3. queued' \in BOOLEAN
    BY <1>5, OwnedSecretWatcherType DEF TamperJWT
  <2>4. budget' \in 0 .. MaxDisturbances
    BY <1>0, <1>5, DisturbType DEF TamperJWT
  <2>5. jwt' \in JWTSecrets(Claims)
    BY <1>5, <2>1 DEF TamperJWT
  <2> QED
    BY <1>5, <2>3, <2>4, <2>5 DEF TamperJWT, TypeInv, TypeOK, server, local
<1>6. CASE EnvironmentChange
  <2>1. env' \in Environments
    <3>1. CASE ChangeIssuerSeed
      <4>1. /\ env.issuerKey \in IssuerKeys
            /\ env.issuerKey < MaxIssuerKeys => env.issuerKey + 1 \in IssuerKeys
        BY <1>0, MaxIssuerKeysAssumption DEF Environments, IssuerKeys
      <4>2. \E s \in SeedSecrets(IssuerKeys) : env' = [env EXCEPT !.issuerSeed = s]
        BY <3>1, <4>1 DEF ChangeIssuerSeed, SeedSecrets, SeedManaged
      <4> QED
        BY <1>0, <4>2 DEF Environments
    <3>2. CASE PublishIssuerKey
      <4>1. env.issuerSeed.key \in IssuerKeys
        BY <1>0, <3>2 DEF PublishIssuerKey, Environments, SeedSecrets, SeedAbsent, SeedBad
      <4> QED
        BY <1>0, <3>2, <4>1 DEF PublishIssuerKey, Environments
    <3> QED
      BY <1>0, <1>6, <3>1, <3>2 DEF EnvironmentChange, ChangeIssuer, ChangeSelectors,
         ChangeSigningKeys, ChangeOperator, ChangeSystemAccount, Environments
  <2>2. cached.exists \in BOOLEAN /\ cached.label \in BOOLEAN
    BY <1>0 DEF Accounts
  <2>3. queued' \in BOOLEAN
    BY <1>0, <1>6, <2>2 DEF EnvironmentChange, ChangeIssuer, ChangeIssuerSeed, ChangeSelectors,
       ChangeSigningKeys, ChangeOperator, ChangeSystemAccount, PublishIssuerKey,
       AccountOperatorWatcher, AccountSigningKeyWatcher
  <2>4. budget' \in 0 .. MaxDisturbances
    BY <1>0, <1>6, DisturbType DEF EnvironmentChange, ChangeIssuer, ChangeIssuerSeed,
       ChangeSelectors, ChangeSigningKeys, ChangeOperator, ChangeSystemAccount,
       PublishIssuerKey
  <2>5. UNCHANGED <<server, local, cluster>>
    BY <1>6 DEF EnvironmentChange, ChangeIssuer, ChangeIssuerSeed, ChangeSelectors,
       ChangeSigningKeys, ChangeOperator, ChangeSystemAccount, PublishIssuerKey
  <2> QED
    BY <2>1, <2>3, <2>4, <2>5 DEF TypeInv, TypeOK, server, local, cluster
<1> QED
  BY <1>1, <1>2, <1>3, <1>4, <1>5, <1>6

(* Every step keeps TypeInv.                                               *)
LEMMA TypeInvNext == TypeInv /\ [Next]_vars => TypeInv'
<1> SUFFICES ASSUME TypeInv, [Next]_vars PROVE TypeInv'
  OBVIOUS
<1>1. CASE Next
  BY <1>1, TypeInvReconcile, TypeInvDeletion, TypeInvEnvironment
     DEF Next, Reconcile, ReconcileLive, Finalize, Disturbance, EnvironmentChange
<1>2. CASE UNCHANGED vars
  BY <1>2 DEF vars, server, local, cluster, TypeInv, TypeOK
<1> QED
  BY <1>1, <1>2

(* Every variable of the Account reconciler keeps its type, for every      *)
(* number of keys, generations and disturbances: in particular the claims  *)
(* it signs and pushes are always claims for a key pair it has.            *)
THEOREM TypeCorrect == Spec => []TypeOK
<1>1. Spec => []TypeInv
  BY TypeInvInit, TypeInvNext, PTL DEF Spec
<1>2. TypeInv => TypeOK
  BY DEF TypeInv
<1> QED
  BY <1>1, <1>2, PTL

(***************************************************************************)
(* The finalizer, removal, and the generations that NATS holds.  The       *)
(* properties speak of the server and NATS; what makes them inductive is   *)
(* what stale copies may still say.  The cache may lag behind, and go back *)
(* with a restart, but it never claims a finalizer or a deletion that the  *)
(* server has not seen, and an Account that is worked on is guarded for as *)
(* long as it exists.                                                      *)
(***************************************************************************)

Working == {"seed"} \cup PastSeed

Finalizing == {"finalize", "removeFinalizer"}

(* A cached finalizer is stored in the server.                             *)
FinalizerSeen == (cached.finalizer \/ old.finalizer) /\ acc.exists => acc.finalizer

(* A cached deletion is, too, and so is one that is worked on.             *)
DeletionSeen ==
    /\ cached.deleting \/ old.deleting => acc.deleting
    /\ pc \in Finalizing => acc.deleting

WorksOnGuarded == pc \in Working /\ acc.exists => acc.finalizer

LifecycleInv ==
    /\ FinalizerSeen
    /\ DeletionSeen
    /\ WorksOnGuarded
    /\ FinalizerGuardsJWT

(***************************************************************************)
(* The steps as LifecycleInv sees them.                                    *)
(***************************************************************************)

(* The parts of the metadata that LifecycleInv looks at.                   *)
Meta(a) == <<a.exists, a.deleting, a.finalizer, a.gen>>

(* Nothing of it changes, and a copy that is worked on keeps its gen.      *)
FrameStep ==
    /\ Meta(acc)' = Meta(acc) /\ UNCHANGED <<cached, old, nats>>
    /\ pc' \in Working => pc \in Working /\ obj'.gen = obj.gen
    /\ pc' \in Finalizing => pc \in Finalizing

StartStep ==
    /\ cached.exists /\ UNCHANGED <<acc, cached, old, nats>>
    /\ obj'.gen = cached.gen
    /\ pc' \in Working => cached.finalizer /\ ~cached.deleting
    /\ pc' \in Finalizing => cached.deleting

(* The finalizer may have been stored.                                     *)
GuardStep ==
    /\ UNCHANGED <<cached, old, nats>> /\ pc' = "status"
    /\ acc'.exists = acc.exists /\ acc'.deleting = acc.deleting
    /\ acc'.gen = acc.gen
    /\ acc.finalizer => acc'.finalizer

PushStep ==
    /\ UNCHANGED <<acc, cached, old>> /\ pc = "push" /\ pc' = "status"
    /\ \A k \in Keys : nats'[k].gen \in {nats[k].gen, obj.gen}

WithdrawStep ==
    /\ UNCHANGED <<acc, cached, old>> /\ pc = "finalize"
    /\ pc' \in {"removeFinalizer", "status"}
    /\ \A k \in Keys : nats'[k] \in {nats[k], NoClaims}

(* The Account goes away.                                                  *)
ReleaseStep ==
    /\ UNCHANGED <<cached, old, nats>> /\ pc = "removeFinalizer" /\ pc' = "status"
    /\ acc'.exists = FALSE /\ acc'.deleting = acc.deleting
    /\ acc'.gen = acc.gen

EditStep ==
    /\ UNCHANGED <<cached, old, nats, pc, obj>>
    /\ acc'.exists = acc.exists /\ acc'.deleting = acc.deleting
    /\ acc'.finalizer = acc.finalizer /\ acc'.gen = acc.gen + 1

DeleteStep ==
    /\ UNCHANGED <<cached, old, nats, pc, obj>>
    /\ acc.exists /\ acc'.exists = acc.finalizer /\ acc'.deleting = TRUE
    /\ acc'.finalizer = acc.finalizer /\ acc'.gen = acc.gen

SyncStep ==
    /\ UNCHANGED <<acc, nats, pc, obj>>
    /\ cached' = acc /\ old' \in {cached, NoAccount}

ListStep ==
    /\ UNCHANGED <<acc, old, nats>> /\ pc' = "idle"
    /\ cached' \in {acc, cached} \/ (~ListsAdvance /\ cached' = old)

LifecycleStep ==
    \/ FrameStep \/ StartStep \/ GuardStep \/ PushStep \/ WithdrawStep
    \/ ReleaseStep \/ EditStep \/ DeleteStep \/ SyncStep \/ ListStep

(* Marking a copy leaves its generation alone.                             *)
LEMMA MarkGen ==
    ASSUME NEW a \in Accounts, NEW t, NEW err, NEW key, NEW sks
    PROVE  /\ MarkAccountTrue(a, t).gen = a.gen
           /\ MarkSeedSecretReady(a, key).gen = a.gen
           /\ MarkOperatorResolved(a).gen = a.gen
           /\ MarkSigningKeysUpdated(a, sks).gen = a.gen
BY DEF MarkAccountTrue, MarkSeedSecretReady, MarkOperatorResolved,
       MarkSigningKeysUpdated, Accounts

(* An Update of the Account leaves the metadata, or makes it next's.       *)
LEMMA UpdateAccountMeta ==
    ASSUME NEW STATE next, UpdateAccount(next)
    PROVE  /\ acc' \in {acc, next}
           /\ cached' = cached /\ old' = old
           /\ pc' = "status"
BY DEF UpdateAccount, Return, Goto, server

(* The steps of the reconcile.                                             *)
LEMMA ReconcileSteps ==
    ASSUME TypeInv, Reconcile
    PROVE  LifecycleStep
<1> USE DEF Working, PastSeed, PastIssuer, Finalizing
<1>0. /\ acc \in Accounts /\ cached \in Accounts /\ obj \in Accounts
      /\ nats \in [Keys -> Claims \cup {NoClaims}]
      /\ pc \in PastSeed => obj.keyPair \in Keys
  BY DEF TypeInv, TypeOK
<1>1. CASE StartReconcile
  <2> DEFINE copy == [cached EXCEPT !.conds = InitializeConditions(@, AccountDependents)]
  <2>1. copy.gen = cached.gen
    BY <1>0 DEF Accounts
  <2>2. CASE ~cached.exists
    <3>1. FrameStep
      BY <1>1, <2>2 DEF StartReconcile, FrameStep, server, local, cluster, Meta
    <3> QED
      BY <3>1 DEF LifecycleStep
  <2>3. CASE cached.exists
    <3>1. /\ pc' = FirstStep(cached)
          /\ obj'.gen = cached.gen
          /\ UNCHANGED <<acc, cached, old, nats>>
      BY <1>1, <2>1, <2>3 DEF StartReconcile, Goto, server, cluster
    <3>2. /\ pc' \in Working => cached.finalizer /\ ~cached.deleting
          /\ pc' \in Finalizing => cached.deleting
      BY <3>1 DEF FirstStep
    <3>3. StartStep
      BY <2>3, <3>1, <3>2 DEF StartStep
    <3> QED
      BY <3>3 DEF LifecycleStep
  <2> QED
    BY <2>2, <2>3
<1>2. CASE AddFinalizer
  <2>1. /\ acc' \in {acc, [acc EXCEPT !.finalizer = TRUE]}
        /\ UNCHANGED <<cached, old, nats>>
        /\ pc' = "status"
    BY <1>2, UpdateAccountMeta DEF AddFinalizer, cluster
  <2>2. GuardStep
    BY <1>0, <2>1 DEF GuardStep, Accounts
  <2> QED
    BY <2>2 DEF LifecycleStep
<1>3. CASE SeedSecret \/ JWTSecretStep
  <2>1. /\ UNCHANGED <<server, nats>>
        /\ \/ pc' = "status"
           \/ pc = "seed" /\ \E key : Goto("issuer", MarkSeedSecretReady(obj, key))
           \/ pc = "jwt" /\ Goto("push", MarkAccountTrue(obj, "JWTSecretReady"))
    BY <1>3 DEF SeedSecret, JWTSecretStep, Return, Goto
  <2>2. pc' # "status" => obj'.gen = obj.gen
    BY <1>0, <2>1, MarkGen DEF Goto
  <2>3. FrameStep
    BY <2>1, <2>2 DEF FrameStep, Goto, server, Meta
  <2> QED
    BY <2>3 DEF LifecycleStep
<1>4. CASE IssuerAndOperator \/ EnsureSigningKeysUpdated \/ LoadIssuerSeed
  <2>1. /\ UNCHANGED <<server, nats>>
        /\ pc \in PastSeed
        /\ \/ pc' = "status"
           \/ Goto("labels", MarkOperatorResolved(obj))
           \/ Goto("issuerSeed", MarkSigningKeysUpdated(obj, env.sks))
           \/ Goto("jwt", MarkAccountTrue(obj, "IssuerResolved"))
    BY <1>4 DEF IssuerAndOperator, EnsureSigningKeysUpdated, LoadIssuerSeed,
       Return, Goto, cluster
  <2>2. pc' # "status" => obj'.gen = obj.gen
    BY <1>0, <2>1, MarkGen DEF Goto
  <2>3. FrameStep
    BY <2>1, <2>2 DEF FrameStep, Goto, server, Meta
  <2> QED
    BY <2>3 DEF LifecycleStep
<1>5. CASE ReconcileLabels
  <2>1. CASE obj.label
    <3>1. FrameStep
      BY <1>5, <2>1 DEF ReconcileLabels, Goto, FrameStep, server, cluster, Meta
    <3> QED
      BY <3>1 DEF LifecycleStep
  <2>2. CASE ~obj.label
    <3>1. /\ acc' \in {acc, [acc EXCEPT !.label = TRUE]}
          /\ UNCHANGED <<cached, old, nats>>
          /\ pc' = "status"
      BY <1>5, <2>2, UpdateAccountMeta DEF ReconcileLabels, cluster
    <3>2. Meta(acc)' = Meta(acc)
      BY <1>0, <3>1 DEF Accounts, Meta
    <3>3. FrameStep
      BY <3>1, <3>2 DEF FrameStep
    <3> QED
      BY <3>3 DEF LifecycleStep
  <2> QED
    BY <2>1, <2>2
<1>6. CASE EnsureJWTPushed
  <2>1. /\ pc = "push" /\ pc' = "status"
        /\ UNCHANGED server
        /\ nats' \in {nats, [nats EXCEPT ![obj.keyPair] = ClaimsOf(obj, signer)]}
    BY <1>6 DEF EnsureJWTPushed, Push, Return, Goto, ClaimsOf
  <2>2. \A k \in Keys : nats'[k].gen \in {nats[k].gen, obj.gen}
    BY <1>0, <2>1 DEF ClaimsOf
  <2>3. PushStep
    BY <2>1, <2>2 DEF PushStep, server
  <2> QED
    BY <2>3 DEF LifecycleStep
<1>7. CASE UpdateStatus
  <2>1. /\ acc' \in {acc, [acc EXCEPT !.conds = obj.conds, !.keyPair = obj.keyPair,
                                !.operatorRef = obj.operatorRef,
                                !.signingKeys = obj.signingKeys]}
        /\ UNCHANGED <<cached, old, nats>>
        /\ pc' = "idle"
    BY <1>7 DEF UpdateStatus, server, cluster
  <2>2. Meta(acc)' = Meta(acc)
    BY <1>0, <2>1 DEF Accounts, Meta
  <2>3. FrameStep
    BY <2>1, <2>2 DEF FrameStep
  <2> QED
    BY <2>3 DEF LifecycleStep
<1>8. CASE SkipFinalization \/ FinalizationFails
  <2>1. FrameStep
    BY <1>8 DEF SkipFinalization, FinalizationFails, Return, Goto, FrameStep,
       server, cluster, Meta
  <2> QED
    BY <2>1 DEF LifecycleStep
<1>9. CASE DeletePushedJWT
  <2>1. /\ pc = "finalize" /\ UNCHANGED server
        /\ pc' \in {"removeFinalizer", "status"}
        /\ nats' = [nats EXCEPT ![obj.keyPair] = NoClaims]
    BY <1>9 DEF DeletePushedJWT, DeleteJWT, Return, Goto
  <2>2. \A k \in Keys : nats'[k] \in {nats[k], NoClaims}
    BY <1>0, <2>1
  <2>3. WithdrawStep
    BY <2>1, <2>2 DEF WithdrawStep, server
  <2> QED
    BY <2>3 DEF LifecycleStep
<1>10. CASE RemoveFinalizer
  <2>1. /\ acc' \in {acc, [acc EXCEPT !.finalizer = FALSE, !.exists = FALSE]}
        /\ UNCHANGED <<cached, old, nats>>
        /\ pc = "removeFinalizer" /\ pc' = "status"
    BY <1>10, UpdateAccountMeta DEF RemoveFinalizer, cluster
  <2>2. FrameStep \/ ReleaseStep
    BY <1>0, <2>1 DEF FrameStep, ReleaseStep, Meta, Accounts
  <2> QED
    BY <2>2 DEF LifecycleStep
<1>11. CASE PanicInFinalize
  <2>1. ListStep
    BY <1>11, ListedAccount DEF PanicInFinalize, Restart, ListStep, cluster
  <2> QED
    BY <2>1 DEF LifecycleStep
<1> QED
  BY <1>1, <1>2, <1>3, <1>4, <1>5, <1>6, <1>7, <1>8, <1>9, <1>10, <1>11
     DEF Reconcile, ReconcileLive, Finalize

(* All steps.                                                              *)
LEMMA Steps ==
    ASSUME TypeInv, [Next]_vars
    PROVE  LifecycleStep
<1>0. acc \in Accounts /\ cached \in Accounts
  BY DEF TypeInv, TypeOK
<1>1. CASE Reconcile
  BY <1>1, ReconcileSteps
<1>2. CASE CacheSync
  BY <1>2 DEF CacheSync, LifecycleStep, SyncStep, local, cluster
<1>3. CASE EditSpec
  <2>1. EditStep
    BY <1>0, <1>3 DEF EditSpec, ForeignWrite, EditStep, cluster, Accounts
  <2> QED
    BY <2>1 DEF LifecycleStep
<1>4. CASE DeleteAccount
  <2>1. DeleteStep
    BY <1>0, <1>4 DEF DeleteAccount, ForeignWrite, DeleteStep, cluster, Accounts
  <2> QED
    BY <2>1 DEF LifecycleStep
<1>5. CASE \/ Resync \/ DeleteSeed \/ TamperJWT \/ EnvironmentChange \/ UNCHANGED vars
  <2>1. UNCHANGED <<server, local, nats>>
    BY <1>5 DEF Resync, DeleteSeed, TamperJWT, EnvironmentChange, ChangeIssuer,
       ChangeIssuerSeed, ChangeSelectors, ChangeSigningKeys, ChangeOperator,
       ChangeSystemAccount, PublishIssuerKey, vars, cluster
  <2>2. FrameStep
    BY <2>1 DEF FrameStep, server, local, Meta
  <2> QED
    BY <2>2 DEF LifecycleStep
<1>6. CASE Crash
  <2>1. ListStep
    BY <1>6, ListedAccount DEF Crash, Restart, ListStep, cluster
  <2> QED
    BY <2>1 DEF LifecycleStep
<1> QED
  BY <1>1, <1>2, <1>3, <1>4, <1>5, <1>6 DEF Next, Disturbance

(* Every step keeps LifecycleInv.                                          *)
LEMMA LifecycleNext == TypeInv /\ LifecycleInv /\ [Next]_vars => LifecycleInv'
<1> SUFFICES ASSUME TypeInv, LifecycleInv, [Next]_vars PROVE LifecycleInv'
  OBVIOUS
<1> USE DEF LifecycleInv, FinalizerSeen, DeletionSeen, WorksOnGuarded,
            FinalizerGuardsJWT, Working, PastSeed, PastIssuer, Finalizing
<1>0. NoAccount.finalizer = FALSE /\ NoAccount.deleting = FALSE
  BY DEF NoAccount, NewAccount
<1>1. CASE FrameStep
  BY <1>1 DEF FrameStep, Meta
<1>2. CASE StartStep
  BY <1>2 DEF StartStep
<1>3. CASE GuardStep
  BY <1>3 DEF GuardStep
<1>4. CASE PushStep
  BY <1>4 DEF PushStep
<1>5. CASE WithdrawStep
  BY <1>5 DEF WithdrawStep
<1>6. CASE ReleaseStep
  BY <1>6 DEF ReleaseStep
<1>7. CASE EditStep
  BY <1>7 DEF EditStep
<1>8. CASE DeleteStep
  BY <1>8 DEF DeleteStep
<1>9. CASE SyncStep
  BY <1>0, <1>9 DEF SyncStep
<1>10. CASE ListStep
  BY <1>10 DEF ListStep
<1> QED
  BY <1>1, <1>2, <1>3, <1>4, <1>5, <1>6, <1>7, <1>8, <1>9, <1>10, Steps
     DEF LifecycleStep

(* LifecycleInv holds initially.                                           *)
LEMMA LifecycleInit == Init => LifecycleInv
<1> SUFFICES ASSUME Init PROVE LifecycleInv
  OBVIOUS
<1>1. /\ cached.deleting = FALSE /\ cached.finalizer = FALSE
      /\ old.deleting = FALSE /\ old.finalizer = FALSE
  BY DEF Init, InitAccount, NewAccount, NoAccount
<1>2. (\A k \in Keys : nats[k] = NoClaims) /\ pc = "idle"
  BY DEF Init, InitAccount
<1> QED
  BY <1>1, <1>2
     DEF LifecycleInv, FinalizerSeen, DeletionSeen, WorksOnGuarded,
         FinalizerGuardsJWT, Working, PastSeed, PastIssuer, Finalizing

(* No JWT of an Account is on NATS while the finalizer that will take it   *)
(* away is not stored, whatever stale cache, conflict, lost answer, crash  *)
(* or restart the reconciles go through, and however old the version is    *)
(* that a restart lists.                                                   *)
THEOREM FinalizerAlwaysGuards == Spec => []FinalizerGuardsJWT
<1>1. LifecycleInv => FinalizerGuardsJWT
  BY DEF LifecycleInv
<1> QED
  BY <1>1, TypeInvInit, TypeInvNext, LifecycleInit, LifecycleNext, PTL DEF Spec

(***************************************************************************)
(* What holds besides as long as no restart lists an older version: an     *)
(* Account whose removal is not cached exists, and no copy is older than   *)
(* what NATS already holds.                                                *)
(***************************************************************************)

(* A guarded Account does not go away before its deletion is cached.       *)
RemovalSeen ==
    /\ ~acc.exists /\ cached.exists /\ cached.finalizer => cached.deleting
    /\ pc \in Finalizing => cached.deleting
    /\ pc \in Working => acc.exists

NatsNotAhead ==
    /\ cached.gen <= acc.gen
    /\ \A k \in Keys : nats[k].gen <= cached.gen
    /\ pc \in Working =>
        /\ obj.gen <= cached.gen
        /\ \A k \in Keys : nats[k].gen <= obj.gen

AdvanceInv == RemovalSeen /\ NatsNotAhead

(* Every step keeps AdvanceInv.                                            *)
LEMMA AdvanceNext ==
    ASSUME ListsAdvance
    PROVE  TypeInv /\ LifecycleInv /\ AdvanceInv /\ [Next]_vars => AdvanceInv'
<1> SUFFICES ASSUME TypeInv, LifecycleInv, AdvanceInv, [Next]_vars PROVE AdvanceInv'
  OBVIOUS
<1> USE DEF AdvanceInv, RemovalSeen, NatsNotAhead, Working, PastSeed, PastIssuer, Finalizing
<1>0. /\ acc.gen \in Int /\ cached.gen \in Int /\ obj.gen \in Int
      /\ 0 <= cached.gen
      /\ \A k \in Keys : nats[k].gen \in Int
  BY MaxGenAssumption DEF TypeInv, TypeOK, Accounts, Gens, Claims, NoClaims
<1>1. CASE FrameStep
  BY <1>1 DEF FrameStep, Meta
<1>2. CASE StartStep
  BY <1>0, <1>2 DEF StartStep
<1>3. CASE GuardStep
  BY <1>3 DEF GuardStep
<1>4. CASE PushStep
  BY <1>0, <1>4 DEF PushStep
<1>5. CASE WithdrawStep
  BY <1>0, <1>5 DEF WithdrawStep, NoClaims
<1>6. CASE ReleaseStep
  BY <1>6 DEF ReleaseStep
<1>7. CASE EditStep
  BY <1>0, <1>7 DEF EditStep
<1>8. CASE DeleteStep
  BY <1>8 DEF DeleteStep, LifecycleInv, FinalizerSeen, WorksOnGuarded
<1>9. CASE SyncStep
  BY <1>0, <1>9 DEF SyncStep, LifecycleInv, DeletionSeen
<1>10. CASE ListStep
  BY <1>0, <1>10 DEF ListStep
<1> QED
  BY <1>1, <1>2, <1>3, <1>4, <1>5, <1>6, <1>7, <1>8, <1>9, <1>10, Steps
     DEF LifecycleStep

(* AdvanceInv holds initially.                                             *)
LEMMA AdvanceInit == Init => AdvanceInv
<1> SUFFICES ASSUME Init PROVE AdvanceInv
  OBVIOUS
<1>1. acc.gen = 1 /\ cached.exists = FALSE /\ cached.gen = 1
  BY DEF Init, InitAccount, NewAccount, NoAccount
<1>2. /\ \A k \in Keys : nats[k].gen = 0
      /\ pc = "idle"
  BY DEF Init, InitAccount, NoClaims
<1> QED
  BY <1>1, <1>2
     DEF AdvanceInv, RemovalSeen, NatsNotAhead, Working, PastSeed, PastIssuer, Finalizing

(* The invariant that the next theorem and the refinement rest on.         *)
LEMMA AlwaysAdvanceInv ==
    ASSUME ListsAdvance
    PROVE  Spec => [](TypeInv /\ LifecycleInv /\ AdvanceInv)
BY TypeInvInit, TypeInvNext, LifecycleInit, LifecycleNext, AdvanceInit, AdvanceNext,
   PTL DEF Spec

(* Only the push and the withdrawal touch NATS.                            *)
LEMMA NatsChange ==
    ASSUME [Next]_vars
    PROVE  EnsureJWTPushed \/ DeletePushedJWT \/ nats' = nats
<1>1. CASE \/ StartReconcile \/ AddFinalizer \/ SeedSecret \/ IssuerAndOperator
           \/ ReconcileLabels \/ EnsureSigningKeysUpdated \/ LoadIssuerSeed
           \/ JWTSecretStep \/ UpdateStatus \/ SkipFinalization
           \/ FinalizationFails \/ RemoveFinalizer \/ PanicInFinalize
           \/ CacheSync \/ Resync \/ PublishIssuerKey \/ UNCHANGED vars
  BY <1>1 DEF StartReconcile, AddFinalizer, SeedSecret, IssuerAndOperator,
     ReconcileLabels, EnsureSigningKeysUpdated, LoadIssuerSeed, JWTSecretStep,
     UpdateStatus, SkipFinalization, FinalizationFails, RemoveFinalizer,
     PanicInFinalize, Restart, CacheSync, Resync, PublishIssuerKey, vars, cluster
<1>2. CASE Disturbance \/ EnvironmentChange
  BY <1>2 DEF Disturbance, EnvironmentChange, EditSpec, DeleteAccount, ForeignWrite,
     DeleteSeed, TamperJWT, PublishIssuerKey, ChangeIssuer, ChangeIssuerSeed, ChangeSelectors,
     ChangeSigningKeys, ChangeOperator, ChangeSystemAccount, Crash, Restart,
     cluster
<1> QED
  BY <1>1, <1>2 DEF Next, Reconcile, ReconcileLive, Finalize

(* Only ensureJWTPushed puts a JWT on NATS, and only for a guarded Account *)
(* that exists, at a generation no older than what is there.               *)
LEMMA NatsSteps ==
    ASSUME TypeInv, AdvanceInv, [Next]_vars, NEW k \in Keys
    PROVE  \/ nats'[k] = nats[k]
           \/ nats'[k] = NoClaims
           \/ acc.exists /\ nats'[k].gen >= nats[k].gen
<1>0. /\ nats \in [Keys -> Claims \cup {NoClaims}]
      /\ pc \in PastSeed => obj.keyPair \in Keys
      /\ nats[k].gen \in Int
      /\ obj.gen \in Int
  BY MaxGenAssumption DEF TypeInv, TypeOK, Claims, NoClaims, Gens, Accounts
<1>1. CASE EnsureJWTPushed
  <2>1. /\ pc = "push"
        /\ nats' \in {nats, [nats EXCEPT ![obj.keyPair] = ClaimsOf(obj, signer)]}
    BY <1>1 DEF EnsureJWTPushed, Push, ClaimsOf
  <2>2. acc.exists /\ nats[k].gen <= obj.gen
    BY <2>1 DEF AdvanceInv, RemovalSeen, NatsNotAhead, Working, PastSeed, PastIssuer
  <2> QED
    BY <1>0, <2>1, <2>2 DEF ClaimsOf
<1>2. CASE DeletePushedJWT
  BY <1>0, <1>2 DEF DeletePushedJWT, DeleteJWT
<1> QED
  BY <1>1, <1>2, NatsChange

(* An Account that is gone is not pushed again, however stale the copy     *)
(* that a reconcile works on, as long as no restart lists a version that   *)
(* the last process had already seen replaced.                             *)
THEOREM NeverPushedAfterRemoval ==
    ASSUME ListsAdvance
    PROVE  Spec => NoPushAfterRemoval
<1>1. TypeInv /\ AdvanceInv /\ [Next]_vars =>
        [~acc.exists => \A k \in Keys : nats'[k] \in {nats[k], NoClaims}]_vars
  BY NatsSteps
<1> QED
  BY <1>1, AlwaysAdvanceInv, PTL DEF Spec, NoPushAfterRemoval

(***************************************************************************)
(* The refinement.  AdvanceInv says when a push happens, LifecycleInv when *)
(* a withdrawal does.                                                      *)
(* That the finalizer is stored only in an active Account, and removed     *)
(* only once from a deleted one, rests on optimistic locking: a copy that  *)
(* the server would accept has the server's metadata.                      *)
(***************************************************************************)

FreshInv ==
    /\ cacheFresh => cached = acc
    /\ objFresh => obj.exists /\ Meta(obj) = Meta(acc)
    /\ pc = "addFinalizer" => ~obj.deleting

(* A step that leaves the versions and the copy's metadata alone keeps it. *)
LEMMA FreshFrame ==
    ASSUME FreshInv, UNCHANGED <<server, objFresh>>, Meta(obj)' = Meta(obj),
           pc' # "addFinalizer"
    PROVE  FreshInv'
BY DEF FreshInv, server, Meta

(* The lifecycle methods leave the metadata alone.                         *)
LEMMA MarkMeta ==
    ASSUME NEW a \in Accounts, NEW t, NEW err, NEW key, NEW sks
    PROVE  /\ Meta(MarkAccountTrue(a, t)) = Meta(a)
           /\ Meta(MarkAccountError(a, t, err)) = Meta(a)
           /\ Meta(MarkSeedSecretReady(a, key)) = Meta(a)
           /\ Meta(MarkSeedSecretError(a, err)) = Meta(a)
           /\ Meta(MarkOperatorResolved(a)) = Meta(a)
           /\ Meta(MarkOperatorResolveError(a, err)) = Meta(a)
           /\ Meta(MarkSigningKeysUpdated(a, sks)) = Meta(a)
           /\ Meta(MarkJWTPushFailed(a)) = Meta(a)
BY DEF Meta, MarkAccountTrue, MarkAccountError, MarkSeedSecretReady,
       MarkSeedSecretError, MarkOperatorResolved, MarkOperatorResolveError,
       MarkSigningKeysUpdated, MarkJWTPushFailed, Accounts

(* An Update leaves a copy that is fresh, or none.                         *)
LEMMA UpdateAccountFresh ==
    ASSUME TypeInv, FreshInv, NEW STATE next, next \in Accounts,
           UpdateAccount(next)
    PROVE  /\ FreshInv'
           /\ acc' = acc \/ (acc' = next /\ objFresh)
<1>1. Meta(DecodeInto(obj, next)) = Meta(next)
  BY DEF DecodeInto, Meta, Accounts
<1>2. CASE /\ objFresh /\ acc' = next /\ cacheFresh' = FALSE
           /\ objFresh' = next.exists /\ obj' = DecodeInto(obj, next)
           /\ pc' = "status"
  BY <1>1, <1>2 DEF FreshInv, Meta
<1>3. CASE /\ UNCHANGED <<server, objFresh>> /\ obj' = obj /\ pc' = "status"
  BY <1>3, FreshFrame DEF server, Meta
<1>4. CASE /\ objFresh /\ acc' = next /\ cacheFresh' = FALSE
           /\ objFresh' = FALSE /\ pc' = "status"
  BY <1>4 DEF FreshInv
<1> QED
  BY <1>2, <1>3, <1>4 DEF UpdateAccount, Return, Goto

(* Every step keeps FreshInv.                                              *)
LEMMA FreshNext == TypeInv /\ FreshInv /\ [Next]_vars => FreshInv'
<1> SUFFICES ASSUME TypeInv, FreshInv, [Next]_vars PROVE FreshInv'
  OBVIOUS
<1>0. acc \in Accounts /\ cached \in Accounts /\ obj \in Accounts
  BY DEF TypeInv, TypeOK
<1>1. CASE StartReconcile
  <2> DEFINE copy == [cached EXCEPT !.conds = InitializeConditions(@, AccountDependents)]
  <2>1. Meta(copy) = Meta(cached) /\ copy.exists = cached.exists
    BY <1>0 DEF Accounts, Meta
  <2>2. CASE ~cached.exists
    BY <1>1, <2>2 DEF StartReconcile, FreshInv, server, local, Meta
  <2>3. CASE cached.exists
    <3>1. /\ pc' = FirstStep(cached)
          /\ obj' = copy
          /\ objFresh' = cacheFresh
          /\ UNCHANGED server
      BY <1>1, <2>3 DEF StartReconcile, Goto
    <3>2. pc' = "addFinalizer" => ~copy.deleting
      BY <2>1, <3>1 DEF FirstStep, Meta
    <3> HIDE DEF copy
    <3> QED
      BY <2>1, <2>3, <3>1, <3>2 DEF FreshInv, server, Meta
  <2> QED
    BY <2>2, <2>3
<1>2. CASE AddFinalizer \/ RemoveFinalizer \/ (ReconcileLabels /\ ~obj.label)
  <2>1. /\ [acc EXCEPT !.finalizer = TRUE] \in Accounts
        /\ [acc EXCEPT !.finalizer = FALSE, !.exists = FALSE] \in Accounts
        /\ [acc EXCEPT !.label = TRUE] \in Accounts
    BY <1>0 DEF Accounts
  <2> QED
    BY <1>2, <2>1, UpdateAccountFresh DEF AddFinalizer, RemoveFinalizer, ReconcileLabels
<1>3. CASE ReconcileLabels /\ obj.label
  BY <1>3, FreshFrame DEF ReconcileLabels, Goto, Meta
<1>4. CASE SeedSecret
  <2>1. /\ \/ \E e : obj' = MarkSeedSecretError(obj, e)
           \/ \E k : obj' = MarkSeedSecretReady(obj, k)
        /\ pc' \in {"issuer", "status"}
    BY <1>4 DEF SeedSecret, Return, Goto
  <2>2. Meta(obj)' = Meta(obj)
    BY <1>0, <2>1, MarkMeta DEF Meta
  <2> QED
    BY <1>4, <2>1, <2>2, FreshFrame DEF SeedSecret
<1>5. CASE IssuerAndOperator
  <2>1. /\ \/ obj' = MarkOperatorResolved(obj)
           \/ \E e : \/ obj' = MarkAccountError(obj, "IssuerResolved", e)
                     \/ obj' = MarkOperatorResolveError(obj, e)
        /\ pc' \in {"labels", "status"}
    BY <1>5 DEF IssuerAndOperator, Return, Goto
  <2>2. Meta(obj)' = Meta(obj)
    BY <1>0, <2>1, MarkMeta DEF Meta
  <2> QED
    BY <1>5, <2>1, <2>2, FreshFrame DEF IssuerAndOperator
<1>6. CASE EnsureSigningKeysUpdated \/ LoadIssuerSeed \/ JWTSecretStep
  <2>1. /\ \/ obj' = obj
           \/ obj' = MarkSigningKeysUpdated(obj, env.sks)
           \/ \E t : obj' = MarkAccountTrue(obj, t)
           \/ \E t, e : obj' = MarkAccountError(obj, t, e)
        /\ pc' \in {"issuerSeed", "jwt", "push", "status"}
    BY <1>6 DEF EnsureSigningKeysUpdated, LoadIssuerSeed, JWTSecretStep, Return, Goto
  <2>2. Meta(obj)' = Meta(obj)
    BY <1>0, <2>1, MarkMeta DEF Meta
  <2> QED
    BY <1>6, <2>1, <2>2, FreshFrame
       DEF EnsureSigningKeysUpdated, LoadIssuerSeed, JWTSecretStep
<1>7. CASE \/ EnsureJWTPushed \/ SkipFinalization \/ FinalizationFails
           \/ DeletePushedJWT
  <2>1. /\ \/ obj' = obj
           \/ obj' = MarkJWTPushFailed(obj)
           \/ obj' = MarkAccountTrue(obj, "JWTPushed")
        /\ pc' \in {"removeFinalizer", "status"}
    BY <1>7 DEF EnsureJWTPushed, SkipFinalization, FinalizationFails,
       DeletePushedJWT, Return, Goto
  <2>2. Meta(obj)' = Meta(obj)
    BY <1>0, <2>1, MarkMeta DEF Meta
  <2> QED
    BY <1>7, <2>1, <2>2, FreshFrame
       DEF EnsureJWTPushed, SkipFinalization, FinalizationFails, DeletePushedJWT
<1>8. CASE UpdateStatus
  <2>1. /\ UNCHANGED server \/ cacheFresh' = FALSE
        /\ objFresh' = FALSE
        /\ pc' = "idle"
    BY <1>8 DEF UpdateStatus, server
  <2> QED
    BY <2>1 DEF FreshInv, server
<1>9. CASE PanicInFinalize \/ Crash \/ CacheSync
  <2>1. CASE PanicInFinalize \/ Crash
    <3>1. Restart
      BY <2>1 DEF PanicInFinalize, Crash
    <3>2. cacheFresh' => cached' = acc'
      BY <3>1, ListedAccount DEF Restart, FreshInv
    <3> QED
      BY <3>1, <3>2 DEF Restart, FreshInv
  <2>2. CASE CacheSync
    BY <2>2 DEF CacheSync, local, FreshInv, Meta
  <2> QED
    BY <1>9, <2>1, <2>2
<1>10. CASE EditSpec \/ DeleteAccount
  BY <1>10 DEF EditSpec, DeleteAccount, ForeignWrite, FreshInv
<1>11. CASE \/ Resync \/ PublishIssuerKey \/ DeleteSeed \/ TamperJWT
            \/ ChangeIssuer \/ ChangeIssuerSeed \/ ChangeSelectors
            \/ ChangeSigningKeys \/ ChangeOperator \/ ChangeSystemAccount
            \/ UNCHANGED vars
  <2>1. UNCHANGED <<server, local>>
    BY <1>11 DEF Resync, PublishIssuerKey, DeleteSeed, TamperJWT, ChangeIssuer,
       ChangeIssuerSeed, ChangeSelectors, ChangeSigningKeys, ChangeOperator,
       ChangeSystemAccount, vars
  <2> QED
    BY <2>1 DEF FreshInv, server, local, Meta
<1> QED
  BY <1>1, <1>2, <1>3, <1>4, <1>5, <1>6, <1>7, <1>8, <1>9, <1>10, <1>11
     DEF Next, Reconcile, ReconcileLive, Finalize, Disturbance, EnvironmentChange

(* What the abstract specification does not see is a stutter.              *)
LEMMA PublicationStutter ==
    ASSUME Meta(acc)' = Meta(acc), nats' = nats
    PROVE  UNCHANGED Publication!vars
BY DEF Publication!vars, Life, Meta

(* Every step is a step of AccountPublication, or a stutter.               *)
LEMMA PublicationStep ==
    ASSUME TypeInv, LifecycleInv, AdvanceInv, FreshInv, [Next]_vars
    PROVE  Publication!Next \/ UNCHANGED Publication!vars
<1>0. /\ acc \in Accounts /\ obj \in Accounts
      /\ nats \in [Keys -> Claims \cup {NoClaims}]
      /\ pc \in PastSeed => obj.keyPair \in Keys
      /\ obj.keyPair \in Keys \cup {NoKey}
      /\ acc.exists \in BOOLEAN /\ acc.finalizer \in BOOLEAN
      /\ acc.deleting \in BOOLEAN
      /\ acc.gen \in Int /\ cached.gen \in Int /\ obj.gen \in Int
      /\ \A k \in Keys : nats[k].gen \in Int
  BY MaxGenAssumption DEF TypeInv, TypeOK, Accounts, Claims, NoClaims, Gens
<1>1. CASE EditSpec
  <2>1. /\ acc.exists /\ ~acc.deleting
        /\ acc'.exists = acc.exists
        /\ acc'.deleting = acc.deleting
        /\ acc'.finalizer = acc.finalizer
        /\ acc'.gen = acc.gen + 1
        /\ nats' = nats
    BY <1>0, <1>1 DEF EditSpec, ForeignWrite, cluster, Accounts
  <2>2. Publication!Edit
    BY <2>1 DEF Publication!Edit, Life
  <2> QED
    BY <2>2 DEF Publication!Next
<1>2. CASE DeleteAccount
  <2>1. /\ acc.exists /\ ~acc.deleting
        /\ acc'.exists = acc.finalizer
        /\ acc'.deleting = TRUE
        /\ acc'.finalizer = acc.finalizer
        /\ acc'.gen = acc.gen
        /\ nats' = nats
    BY <1>0, <1>2 DEF DeleteAccount, ForeignWrite, cluster, Accounts
  <2>2. Publication!Delete
    BY <1>0, <2>1 DEF Publication!Delete, Life
  <2> QED
    BY <2>2 DEF Publication!Next
<1>3. CASE AddFinalizer
  <2>1. [acc EXCEPT !.finalizer = TRUE] \in Accounts
    BY <1>0 DEF Accounts
  <2>2. /\ \/ acc' = acc
           \/ acc' = [acc EXCEPT !.finalizer = TRUE] /\ objFresh
        /\ nats' = nats
        /\ pc = "addFinalizer"
    BY <1>3, <2>1, UpdateAccountFresh DEF AddFinalizer, cluster
  <2>3. CASE acc' = acc
    BY <2>2, <2>3, PublicationStutter DEF Meta
  <2>4. CASE acc' = [acc EXCEPT !.finalizer = TRUE] /\ objFresh
    <3>1. acc.exists /\ ~acc.deleting
      BY <2>2, <2>4 DEF FreshInv, Meta
    <3>2. /\ acc'.exists = acc.exists
          /\ acc'.deleting = acc.deleting
          /\ acc'.finalizer = TRUE
          /\ acc'.gen = acc.gen
      BY <1>0, <2>4 DEF Accounts
    <3>3. Publication!Guard
      BY <1>0, <2>2, <3>1, <3>2 DEF Publication!Guard, Life
    <3> QED
      BY <3>3 DEF Publication!Next
  <2> QED
    BY <2>2, <2>3, <2>4
<1>4. CASE RemoveFinalizer
  <2>1. [acc EXCEPT !.finalizer = FALSE, !.exists = FALSE] \in Accounts
    BY <1>0 DEF Accounts
  <2>2. /\ \/ acc' = acc
           \/ acc' = [acc EXCEPT !.finalizer = FALSE, !.exists = FALSE] /\ objFresh
        /\ nats' = nats
        /\ pc = "removeFinalizer"
    BY <1>4, <2>1, UpdateAccountFresh DEF RemoveFinalizer, cluster
  <2>3. CASE acc' = acc
    BY <2>2, <2>3, PublicationStutter DEF Meta
  <2>4. CASE acc' = [acc EXCEPT !.finalizer = FALSE, !.exists = FALSE] /\ objFresh
    <3>1. acc.exists /\ acc.deleting
      BY <2>2, <2>4 DEF FreshInv, Meta, LifecycleInv, DeletionSeen, Finalizing
    <3>2. /\ acc'.exists = FALSE
          /\ acc'.gen = acc.gen
      BY <1>0, <2>4 DEF Accounts
    <3>3. Publication!Release
      BY <1>0, <2>2, <3>1, <3>2 DEF Publication!Release, Life
    <3> QED
      BY <3>3 DEF Publication!Next
  <2> QED
    BY <2>2, <2>3, <2>4
<1>5. CASE EnsureJWTPushed
  <2>1. /\ pc = "push"
        /\ acc' = acc
        /\ nats' \in {nats, [nats EXCEPT ![obj.keyPair] = ClaimsOf(obj, signer)]}
    BY <1>5 DEF EnsureJWTPushed, Push, server, ClaimsOf
  <2>2. CASE nats' = nats
    BY <2>1, <2>2, PublicationStutter DEF Meta
  <2>3. CASE nats' = [nats EXCEPT ![obj.keyPair] = ClaimsOf(obj, signer)]
    <3>1. /\ acc.exists /\ acc.finalizer
          /\ obj.gen <= cached.gen /\ cached.gen <= acc.gen
          /\ \A k \in Keys : nats[k].gen <= obj.gen
          /\ obj.keyPair \in Keys
      BY <1>0, <2>1
         DEF LifecycleInv, WorksOnGuarded, AdvanceInv, RemovalSeen, NatsNotAhead,
             Working, PastSeed, PastIssuer
    <3>2. \A k \in Keys :
            nats'[k].gen = IF k = obj.keyPair THEN obj.gen ELSE nats[k].gen
      BY <1>0, <2>3 DEF ClaimsOf
    <3>3. [k \in Keys |-> nats'[k].gen]
            = [[k \in Keys |-> nats[k].gen] EXCEPT ![obj.keyPair] = obj.gen]
      BY <3>1, <3>2
    <3>4. obj.gen \in [k \in Keys |-> nats[k].gen][obj.keyPair] .. acc.gen
      BY <1>0, <3>1
    <3>5. Publication!Publish
      BY <2>1, <3>1, <3>3, <3>4 DEF Publication!Publish, Life
    <3> QED
      BY <3>5 DEF Publication!Next
  <2> QED
    BY <2>1, <2>2, <2>3
<1>6. CASE DeletePushedJWT
  <2>1. /\ pc = "finalize"
        /\ acc' = acc
        /\ obj.keyPair \in Keys
        /\ nats' = [nats EXCEPT ![obj.keyPair] = NoClaims]
    BY <1>0, <1>6 DEF DeletePushedJWT, DeleteJWT, server
  <2>2. acc.deleting
    BY <2>1 DEF LifecycleInv, DeletionSeen, Finalizing
  <2>3. \A k \in Keys : nats'[k].gen = IF k = obj.keyPair THEN 0 ELSE nats[k].gen
    BY <1>0, <2>1 DEF NoClaims
  <2>4. [k \in Keys |-> nats'[k].gen]
          = [[k \in Keys |-> nats[k].gen] EXCEPT ![obj.keyPair] = 0]
    BY <2>1, <2>3
  <2>5. Publication!Withdraw
    BY <2>1, <2>2, <2>4 DEF Publication!Withdraw, Life
  <2> QED
    BY <2>5 DEF Publication!Next
<1>7. CASE \/ StartReconcile \/ SeedSecret \/ IssuerAndOperator
           \/ EnsureSigningKeysUpdated \/ LoadIssuerSeed \/ JWTSecretStep
           \/ SkipFinalization \/ FinalizationFails \/ PanicInFinalize
           \/ CacheSync \/ Resync \/ PublishIssuerKey \/ DeleteSeed \/ TamperJWT
           \/ ChangeIssuer \/ ChangeIssuerSeed \/ ChangeSelectors
           \/ ChangeSigningKeys \/ ChangeOperator \/ ChangeSystemAccount
           \/ Crash \/ UNCHANGED vars
  <2>1. UNCHANGED <<acc, nats>>
    BY <1>7 DEF StartReconcile, SeedSecret, IssuerAndOperator,
       EnsureSigningKeysUpdated, LoadIssuerSeed, JWTSecretStep, SkipFinalization,
       FinalizationFails, PanicInFinalize, Restart, CacheSync, Resync,
       PublishIssuerKey, DeleteSeed, TamperJWT, ChangeIssuer, ChangeIssuerSeed,
       ChangeSelectors, ChangeSigningKeys, ChangeOperator, ChangeSystemAccount,
       Crash, vars, server, cluster
  <2> QED
    BY <2>1, PublicationStutter DEF Meta
<1>8. CASE ReconcileLabels
  <2>1. acc' \in {acc, [acc EXCEPT !.label = TRUE]} /\ nats' = nats
    BY <1>8, UpdateAccountMeta DEF ReconcileLabels, server, cluster
  <2>2. Meta(acc)' = Meta(acc)
    BY <1>0, <2>1 DEF Accounts, Meta
  <2> QED
    BY <2>1, <2>2, PublicationStutter
<1>9. CASE UpdateStatus
  <2>1. /\ acc' \in {acc, [acc EXCEPT !.conds = obj.conds, !.keyPair = obj.keyPair,
                                !.operatorRef = obj.operatorRef,
                                !.signingKeys = obj.signingKeys]}
        /\ nats' = nats
    BY <1>9 DEF UpdateStatus, server, cluster
  <2>2. Meta(acc)' = Meta(acc)
    BY <1>0, <2>1 DEF Accounts, Meta
  <2> QED
    BY <2>1, <2>2, PublicationStutter
<1> QED
  BY <1>1, <1>2, <1>3, <1>4, <1>5, <1>6, <1>7, <1>8, <1>9
     DEF Next, Reconcile, ReconcileLive, Finalize, Disturbance, EnvironmentChange

(* Seen from NATS, the Account reconciler with its caches, retries, lost   *)
(* answers and restarts implements AccountPublication: publish only under  *)
(* the finalizer and never backwards, withdraw only what is being deleted. *)
(* Only for a restart that lists an older version this is not so.          *)
THEOREM RefinesPublication ==
    ASSUME ListsAdvance
    PROVE  Spec => ImplementsPublication
<1>1. Init => Publication!Init
  BY DEF Init, InitAccount, Publication!Init, Life, NewAccount, NoClaims
<1>2. Init => FreshInv
  BY DEF Init, InitAccount, FreshInv
<1>3. TypeInv /\ LifecycleInv /\ AdvanceInv /\ FreshInv /\ [Next]_vars
        => [Publication!Next]_(Publication!vars)
  BY PublicationStep
<1> QED
  BY <1>1, <1>2, <1>3, AlwaysAdvanceInv, FreshNext, PTL
     DEF Spec, ImplementsPublication, Publication!Spec

(***************************************************************************)
(* The signer.  The key that signs is remembered over several steps, in    *)
(* which the issuer may get another; what makes the property inductive is  *)
(* that an issuer's keys only advance, and that a seed is never behind the *)
(* key that is published.                                                  *)
(***************************************************************************)

SignerInv ==
    /\ SignedByPublishedKey
    /\ pc \in PastIssuer => signer <= env.issuerKey
    /\ env.issuerSeed.kind = "valid" => env.issuerKey <= env.issuerSeed.key

(* A step that signs nothing and remembers no other signer keeps it.       *)
LEMMA SignerFrame ==
    ASSUME SignerInv, UNCHANGED <<nats, env>>,
           pc' \in PastIssuer => pc \in PastIssuer /\ signer' = signer
    PROVE  SignerInv'
BY DEF SignerInv, SignedByPublishedKey

(* Every step keeps SignerInv.                                             *)
LEMMA SignerNext == TypeInv /\ SignerInv /\ [Next]_vars => SignerInv'
<1> SUFFICES ASSUME TypeInv, SignerInv, [Next]_vars PROVE SignerInv'
  OBVIOUS
<1> USE DEF PastIssuer
<1>0. /\ nats \in [Keys -> Claims \cup {NoClaims}]
      /\ env \in Environments
      /\ env.issuerKey \in Nat
      /\ pc \in PastIssuer => signer \in IssuerKeys
  BY MaxIssuerKeysAssumption DEF TypeInv, TypeOK, Environments, IssuerKeys
<1>1. CASE IssuerAndOperator /\ UNCHANGED env
  <2>1. /\ UNCHANGED <<nats, env>>
        /\ pc' = "status" \/ signer' = env.issuerKey
    BY <1>1 DEF IssuerAndOperator, Return, Goto, cluster
  <2> QED
    BY <1>0, <2>1 DEF SignerInv, SignedByPublishedKey
<1>2. CASE LoadIssuerSeed /\ UNCHANGED env
  <2>1. /\ UNCHANGED <<nats, env>>
        /\ pc = "issuerSeed"
        /\ pc' = "status" \/ signer' = signer
    BY <1>2 DEF LoadIssuerSeed, MatchesSigner, Return, Goto, cluster
  <2> QED
    BY <2>1, SignerFrame
<1>3. CASE EnsureJWTPushed /\ UNCHANGED env
  <2>1. /\ pc = "push"
        /\ pc' = "status"
        /\ env' = env
        /\ nats' \in {nats, [nats EXCEPT ![obj.keyPair] = ClaimsOf(obj, signer)]}
    BY <1>3 DEF EnsureJWTPushed, Push, Return, Goto, ClaimsOf
  <2>2. \A k \in Keys : nats'[k].iss \in {nats[k].iss, signer}
    BY <1>0, <2>1 DEF ClaimsOf
  <2> QED
    BY <2>1, <2>2 DEF SignerInv, SignedByPublishedKey
<1>4. CASE DeletePushedJWT /\ UNCHANGED env
  <2>1. /\ pc' \in {"removeFinalizer", "status"}
        /\ env' = env
        /\ nats' = [nats EXCEPT ![obj.keyPair] = NoClaims]
    BY <1>4 DEF DeletePushedJWT, DeleteJWT, Return, Goto
  <2>2. \A k \in Keys : nats'[k].iss \in {nats[k].iss, 0}
    BY <1>0, <2>1 DEF NoClaims, NoKey
  <2> QED
    BY <1>0, <2>1, <2>2 DEF SignerInv, SignedByPublishedKey
<1>5. CASE ChangeIssuerSeed
  <2>1. /\ UNCHANGED <<nats, pc, signer>>
        /\ \E s : /\ s.kind = "valid" => env.issuerKey <= s.key
                 /\ env' = [env EXCEPT !.issuerSeed = s]
    BY <1>0, <1>5 DEF ChangeIssuerSeed, SeedAbsent, SeedBad, SeedManaged, local, cluster
  <2>2. /\ env'.issuerKey = env.issuerKey
        /\ env'.issuerSeed.kind = "valid" => env'.issuerKey <= env'.issuerSeed.key
    BY <1>0, <2>1 DEF Environments
  <2> QED
    BY <2>1, <2>2 DEF SignerInv, SignedByPublishedKey
<1>6. CASE PublishIssuerKey
  <2>1. /\ UNCHANGED <<nats, pc, signer>>
        /\ env.issuerSeed.kind = "valid"
        /\ env.issuerSeed.key \in IssuerKeys
        /\ env'.issuerSeed = env.issuerSeed
        /\ env'.issuerKey = env.issuerSeed.key
    BY <1>0, <1>6
       DEF PublishIssuerKey, Environments, SeedSecrets, SeedAbsent, SeedBad, local, cluster
  <2>2. \A k \in Keys : nats[k].iss \in Int
    BY <1>0 DEF Claims, NoClaims, NoKey, IssuerKeys
  <2> QED
    BY <1>0, <2>1, <2>2 DEF SignerInv, SignedByPublishedKey, IssuerKeys
<1>7. CASE \/ ChangeIssuer \/ ChangeSelectors \/ ChangeSigningKeys
           \/ ChangeOperator \/ ChangeSystemAccount
  <2>1. /\ UNCHANGED <<nats, pc, signer>>
        /\ env'.issuerSeed = env.issuerSeed
        /\ env'.issuerKey = env.issuerKey
    BY <1>0, <1>7 DEF ChangeIssuer, ChangeSelectors, ChangeSigningKeys,
       ChangeOperator, ChangeSystemAccount, Environments, local, cluster
  <2> QED
    BY <2>1 DEF SignerInv, SignedByPublishedKey
<1>8. CASE /\ \/ StartReconcile \/ AddFinalizer \/ SeedSecret \/ ReconcileLabels
              \/ EnsureSigningKeysUpdated \/ JWTSecretStep \/ UpdateStatus
           /\ UNCHANGED env
  <2>1. CASE StartReconcile
    BY <1>8, <2>1, SignerFrame DEF StartReconcile, FirstStep, Goto, local, cluster
  <2>2. CASE AddFinalizer \/ ReconcileLabels
    BY <1>8, <2>2, SignerFrame, UpdateAccountMeta DEF AddFinalizer, ReconcileLabels, Goto, cluster
  <2>3. CASE SeedSecret \/ JWTSecretStep
    BY <1>8, <2>3, SignerFrame DEF SeedSecret, JWTSecretStep, Return, Goto
  <2>4. CASE EnsureSigningKeysUpdated \/ UpdateStatus
    BY <1>8, <2>4, SignerFrame DEF EnsureSigningKeysUpdated, UpdateStatus, Return, Goto, cluster
  <2> QED
    BY <1>8, <2>1, <2>2, <2>3, <2>4
<1>9. CASE /\ \/ SkipFinalization \/ FinalizationFails \/ RemoveFinalizer
              \/ PanicInFinalize \/ Crash
           /\ UNCHANGED env
  BY <1>9, SignerFrame, UpdateAccountMeta
     DEF SkipFinalization, FinalizationFails, RemoveFinalizer, PanicInFinalize,
         Crash, Restart, Return, Goto, cluster
<1>10. CASE \/ /\ \/ CacheSync \/ Resync \/ EditSpec \/ DeleteAccount
                  \/ DeleteSeed \/ TamperJWT
               /\ UNCHANGED env
            \/ UNCHANGED vars
  BY <1>10, SignerFrame
     DEF CacheSync, Resync, EditSpec, DeleteAccount, ForeignWrite, DeleteSeed,
         TamperJWT, vars, local, cluster
<1> QED
  BY <1>1, <1>2, <1>3, <1>4, <1>5, <1>6, <1>7, <1>8, <1>9, <1>10
     DEF Next, Reconcile, ReconcileLive, Finalize, Disturbance, EnvironmentChange

(* NATS never holds a JWT of the Account that is signed by a key which the *)
(* issuer has not published, although the seed Secret is read live and the *)
(* issuer's status from a cache, at different times.                       *)
THEOREM AlwaysSignedByPublishedKey == Spec => []SignedByPublishedKey
<1>1. Init => SignerInv
  BY DEF Init, InitAccount, SignerInv, SignedByPublishedKey, PastIssuer, NoClaims, NoKey,
         GoodEnvironment, SeedManaged
<1>2. SignerInv => SignedByPublishedKey
  BY DEF SignerInv
<1> QED
  BY <1>1, <1>2, TypeInvInit, TypeInvNext, SignerNext, PTL DEF Spec

(***************************************************************************)
(* Ready and the references.  Every copy keeps them together, not only the *)
(* server's: a status is written from a copy, and the server's answers are *)
(* decoded into one.                                                       *)
(***************************************************************************)

(* What ReadyHasReferences says, of any copy and without Ready, and that a *)
(* True Ready means True dependents.                                       *)
References(a) ==
    /\ IsTrue(a.conds["SeedSecretReady"]) => a.keyPair # NoKey
    /\ IsTrue(a.conds["OperatorResolved"]) => a.operatorRef
    /\ IsTrue(a.conds[Happy]) => \A d \in AccountDependents : IsTrue(a.conds[d])

RefInv ==
    References(acc) /\ References(cached) /\ References(old) /\ References(obj)

(* Ready is not one of its own dependents.                                 *)
LEMMA DependentFacts ==
    /\ Happy \notin AccountDependents
    /\ Happy \in AccountTypes
    /\ AccountDependents \subseteq AccountTypes
    /\ "SeedSecretReady" \in AccountDependents
    /\ "OperatorResolved" \in AccountDependents
BY DEF AccountDependents, AccountTypes, Happy

(* The lifecycle methods keep conditions and references together.          *)
LEMMA MarkReferences ==
    ASSUME NEW a \in Accounts, References(a), NEW err
    PROVE  /\ \A t \in AccountDependents \ {"SeedSecretReady", "OperatorResolved"} :
                  References(MarkAccountTrue(a, t))
           /\ \A t \in AccountDependents : References(MarkAccountError(a, t, err))
           /\ \A k \in Keys : References(MarkSeedSecretReady(a, k))
           /\ References(MarkSeedSecretError(a, err))
           /\ References(MarkOperatorResolved(a))
           /\ References(MarkOperatorResolveError(a, err))
           /\ \A sks \in SUBSET SKs : References(MarkSigningKeysUpdated(a, sks))
<1>0. a.conds \in AccountConditions
  BY DEF Accounts
<1>1. ASSUME NEW t \in AccountDependents,
             NEW b \in Accounts, b.conds = a.conds,
             t = "SeedSecretReady" \/ b.keyPair = a.keyPair,
             t = "OperatorResolved" \/ b.operatorRef = a.operatorRef,
             t = "SeedSecretReady" => b.keyPair # NoKey,
             t = "OperatorResolved" => b.operatorRef
      PROVE  References(MarkAccountTrue(b, t))
  <2> DEFINE m == MarkTrue(a.conds, AccountDependents, t)
  <2>1. /\ MarkAccountTrue(b, t).conds = m
        /\ MarkAccountTrue(b, t).keyPair = b.keyPair
        /\ MarkAccountTrue(b, t).operatorRef = b.operatorRef
    BY <1>1 DEF MarkAccountTrue, Accounts
  <2>2. /\ \A d \in AccountDependents \ {t} : m[d] = a.conds[d]
        /\ IsTrue(m[Happy]) => \A d \in AccountDependents : IsTrue(m[d])
    BY <1>0, DependentFacts, MarkTrueEffect DEF AccountConditions
  <2> HIDE DEF m
  <2> QED
    BY <1>1, <2>1, <2>2, DependentFacts DEF References
<1>2. ASSUME NEW t \in AccountDependents,
             NEW b \in Accounts, b.conds = a.conds,
             t = "SeedSecretReady" \/ b.keyPair = a.keyPair,
             t = "OperatorResolved" \/ b.operatorRef = a.operatorRef
      PROVE  References(MarkAccountError(b, t, err))
  <2> DEFINE m == MarkCondition(a.conds, AccountDependents, t, err)
  <2>1. /\ MarkAccountError(b, t, err).conds = m
        /\ MarkAccountError(b, t, err).keyPair = b.keyPair
        /\ MarkAccountError(b, t, err).operatorRef = b.operatorRef
    BY <1>2 DEF MarkAccountError, Accounts
  <2>2. /\ \A d \in AccountDependents \ {t} : m[d] = a.conds[d]
        /\ ~IsTrue(m[t])
        /\ ~IsTrue(m[Happy])
    BY <1>0, DependentFacts, MarkConditionEffect DEF AccountConditions
  <2> HIDE DEF m
  <2> QED
    BY <1>2, <2>1, <2>2, DependentFacts DEF References
<1>3. \A k \in Keys \cup {NoKey} :
        /\ [a EXCEPT !.keyPair = k] \in Accounts
        /\ [a EXCEPT !.keyPair = k].conds = a.conds
        /\ [a EXCEPT !.keyPair = k].keyPair = k
        /\ [a EXCEPT !.keyPair = k].operatorRef = a.operatorRef
  BY DEF Accounts
<1>4. \A r \in BOOLEAN :
        /\ [a EXCEPT !.operatorRef = r] \in Accounts
        /\ [a EXCEPT !.operatorRef = r].conds = a.conds
        /\ [a EXCEPT !.operatorRef = r].keyPair = a.keyPair
        /\ [a EXCEPT !.operatorRef = r].operatorRef = r
  BY DEF Accounts
<1>5. \A sks \in SUBSET SKs :
        /\ [a EXCEPT !.signingKeys = sks] \in Accounts
        /\ [a EXCEPT !.signingKeys = sks].conds = a.conds
        /\ [a EXCEPT !.signingKeys = sks].keyPair = a.keyPair
        /\ [a EXCEPT !.signingKeys = sks].operatorRef = a.operatorRef
  BY DEF Accounts
<1>6. \A k \in Keys : k # NoKey
  BY MaxKeysAssumption DEF Keys, NoKey
<1>7. "SigningKeysUpdated" \in AccountDependents
  BY DEF AccountDependents
<1>8. \A k \in Keys : References(MarkSeedSecretReady(a, k))
  BY <1>1, <1>3, <1>6, DependentFacts DEF MarkSeedSecretReady
<1>9. References(MarkSeedSecretError(a, err))
  BY <1>2, <1>3, DependentFacts DEF MarkSeedSecretError
<1>10. References(MarkOperatorResolved(a))
  BY <1>1, <1>4, DependentFacts DEF MarkOperatorResolved
<1>11. References(MarkOperatorResolveError(a, err))
  BY <1>2, <1>4, DependentFacts DEF MarkOperatorResolveError
<1>12. \A sks \in SUBSET SKs : References(MarkSigningKeysUpdated(a, sks))
  BY <1>1, <1>5, <1>7, DependentFacts DEF MarkSigningKeysUpdated
<1> QED
  BY <1>1, <1>2, <1>8, <1>9, <1>10, <1>11, <1>12

(* InitializeConditions does: under a True Ready nothing is missing.       *)
LEMMA InitializeReferences ==
    ASSUME NEW a \in Accounts, References(a)
    PROVE  References([a EXCEPT !.conds = InitializeConditions(@, AccountDependents)])
<1> DEFINE i == InitializeConditions(a.conds, AccountDependents)
           b == [a EXCEPT !.conds = InitializeConditions(@, AccountDependents)]
<1> SUFFICES References(b)
  OBVIOUS
<1>1. b.conds = i /\ b.keyPair = a.keyPair /\ b.operatorRef = a.operatorRef
  BY DEF Accounts
<1>2. a.conds \in [AccountTypes -> Statuses \cup {NoCondition}]
  BY DEF Accounts, AccountConditions, ConditionLists
<1>3. CASE IsTrue(a.conds[Happy])
  <2>1. \A d \in AccountDependents : a.conds[d] = "True"
    BY <1>3 DEF References, IsTrue
  <2>2. \A d \in AccountDependents : i[d] = a.conds[d]
    BY <1>2, <2>1, DependentFacts DEF InitializeConditions, NoCondition
  <2> HIDE DEF i, b
  <2> QED
    BY <1>1, <1>3, <2>1, <2>2, DependentFacts DEF References, IsTrue
<1>4. CASE ~IsTrue(a.conds[Happy])
  <2>1. /\ \A d \in AccountDependents : IsTrue(i[d]) => IsTrue(a.conds[d])
        /\ ~IsTrue(i[Happy])
    BY <1>2, <1>4, DependentFacts DEF InitializeConditions, IsTrue, NoCondition
  <2> HIDE DEF i, b
  <2> QED
    BY <1>1, <2>1, DependentFacts DEF References
<1> QED
  BY <1>3, <1>4

(* Decoding an answer does: a field the answer omits is only filled in.    *)
LEMMA DecodeReferences ==
    ASSUME NEW o \in Accounts, NEW a \in Accounts, References(o), References(a)
    PROVE  References(DecodeInto(o, a))
<1> DEFINE b == DecodeInto(o, a)
<1> SUFFICES References(b)
  OBVIOUS
<1>1. /\ b.conds = IF a.conds[Happy] # NoCondition THEN a.conds ELSE o.conds
      /\ b.keyPair = IF a.keyPair # NoKey THEN a.keyPair ELSE o.keyPair
      /\ b.operatorRef = (a.operatorRef \/ o.operatorRef)
  BY DEF DecodeInto, Accounts
<1> HIDE DEF b
<1> QED
  BY <1>1 DEF References

(* A new Account, and NoAccount, have no condition to keep.                *)
LEMMA NewAccountReferences == References(NewAccount) /\ References(NoAccount)
BY DependentFacts
   DEF NewAccount, NoAccount, References, IsTrue, NoCondition

(* A metadata write keeps the status.                                      *)
LEMMA UpdateReferences ==
    ASSUME TypeInv, RefInv, NEW STATE next, next \in Accounts,
           References(next), UpdateAccount(next)
    PROVE  RefInv'
<1>1. obj \in Accounts
  BY DEF TypeInv, TypeOK
<1>2. References(DecodeInto(obj, next))
  BY <1>1, DecodeReferences DEF RefInv
<1>3. /\ acc' \in {acc, next}
      /\ UNCHANGED <<cached, old>>
      /\ obj' \in {obj, DecodeInto(obj, next)}
  BY DEF UpdateAccount, Return, Goto, server
<1>4. References(acc')
  BY <1>3 DEF RefInv
<1>5. References(obj')
  BY <1>2, <1>3 DEF RefInv
<1>6. References(cached') /\ References(old')
  BY <1>3 DEF RefInv
<1> QED
  BY <1>4, <1>5, <1>6 DEF RefInv, References

(* Every step keeps RefInv.                                                *)
LEMMA RefInvNext == TypeInv /\ RefInv /\ [Next]_vars => RefInv'
<1> SUFFICES ASSUME TypeInv, RefInv, [Next]_vars PROVE RefInv'
  OBVIOUS
<1>0. /\ acc \in Accounts /\ cached \in Accounts /\ obj \in Accounts
      /\ References(acc) /\ References(cached) /\ References(old) /\ References(obj)
  BY DEF TypeInv, TypeOK, RefInv
<1>m. ASSUME References(acc'), References(cached'), References(old'), References(obj')
      PROVE  RefInv'
  BY <1>m DEF RefInv, References
<1>t. /\ "IssuerResolved" \in AccountDependents \ {"SeedSecretReady", "OperatorResolved"}
      /\ "JWTSecretReady" \in AccountDependents \ {"SeedSecretReady", "OperatorResolved"}
      /\ "JWTPushed" \in AccountDependents \ {"SeedSecretReady", "OperatorResolved"}
  BY DEF AccountDependents
<1>1. CASE StartReconcile
  <2>1. References([cached EXCEPT !.conds = InitializeConditions(@, AccountDependents)])
    BY <1>0, InitializeReferences
  <2> QED
    BY <1>0, <1>1, <1>m, <2>1 DEF StartReconcile, Goto, server, local
<1>2. CASE AddFinalizer
  <2>1. /\ [acc EXCEPT !.finalizer = TRUE] \in Accounts
        /\ References([acc EXCEPT !.finalizer = TRUE])
    BY <1>0 DEF Accounts, References
  <2> QED
    BY <1>2, <2>1, UpdateReferences DEF AddFinalizer
<1>3. CASE SeedSecret
  <2>1. PICK o \in ReconcileSeedSecret(seed, nextKey) :
          IF o.err # NoError
          THEN Goto("status", MarkSeedSecretError(obj, o.err))
          ELSE \E step : Goto(step, MarkSeedSecretReady(obj, o.key))
    BY <1>3 DEF SeedSecret, Return
  <2>2. /\ seed \in SeedSecrets(Keys) /\ nextKey \in Nat
        /\ seed.kind = "absent" => nextKey \in Keys
    BY MaxKeysAssumption DEF TypeInv, TypeOK
  <2>3. o.err = NoError => o.key \in Keys
    BY <2>2, SeedOutcomeType
  <2>4. References(obj')
    BY <1>0, <2>1, <2>3, MarkReferences DEF Goto
  <2> QED
    BY <1>0, <1>3, <1>m, <2>4 DEF SeedSecret, server
<1>4. CASE IssuerAndOperator
  <2>1. \/ Goto("labels", MarkOperatorResolved(obj))
        \/ \E e : \/ Goto("status", MarkAccountError(obj, "IssuerResolved", e))
                  \/ Goto("status", MarkOperatorResolveError(obj, e))
    BY <1>4 DEF IssuerAndOperator, Return
  <2>2. References(obj')
    BY <1>0, <1>t, <2>1, MarkReferences DEF Goto
  <2> QED
    BY <1>0, <1>4, <1>m, <2>2 DEF IssuerAndOperator, server
<1>5. CASE ReconcileLabels
  <2>1. /\ [acc EXCEPT !.label = TRUE] \in Accounts
        /\ References([acc EXCEPT !.label = TRUE])
    BY <1>0 DEF Accounts, References
  <2>2. CASE obj.label
    BY <1>0, <1>5, <1>m, <2>2 DEF ReconcileLabels, Goto, server
  <2>3. CASE ~obj.label
    BY <1>5, <2>1, <2>3, UpdateReferences DEF ReconcileLabels
  <2> QED
    BY <2>2, <2>3
<1>6. CASE EnsureSigningKeysUpdated
  <2>1. References(MarkSigningKeysUpdated(obj, env.sks))
    BY <1>0, MarkReferences DEF TypeInv, TypeOK, Environments
  <2> QED
    BY <1>0, <1>6, <1>m, <2>1 DEF EnsureSigningKeysUpdated, Return, Goto, server
<1>7. CASE LoadIssuerSeed
  <2>1. \/ obj' = MarkAccountTrue(obj, "IssuerResolved")
        \/ \E e : obj' = MarkAccountError(obj, "IssuerResolved", e)
    BY <1>7 DEF LoadIssuerSeed, Return, Goto
  <2>2. References(obj')
    BY <1>0, <1>t, <2>1, MarkReferences
  <2> QED
    BY <1>0, <1>7, <1>m, <2>2 DEF LoadIssuerSeed, server
<1>8. CASE JWTSecretStep
  <2>1. \/ obj' = MarkAccountTrue(obj, "JWTSecretReady")
        \/ \E e : obj' = MarkAccountError(obj, "JWTSecretReady", e)
    BY <1>8 DEF JWTSecretStep, Return, Goto
  <2>2. References(obj')
    BY <1>0, <1>t, <2>1, MarkReferences
  <2> QED
    BY <1>0, <1>8, <1>m, <2>2 DEF JWTSecretStep, server
<1>9. CASE EnsureJWTPushed \/ FinalizationFails
  <2>1. \/ obj' = obj
        \/ obj' = MarkAccountTrue(obj, "JWTPushed")
        \/ \E e : obj' = MarkAccountError(obj, "JWTPushed", e)
    BY <1>9 DEF EnsureJWTPushed, FinalizationFails, MarkJWTPushFailed, Return, Goto
  <2>2. References(obj')
    BY <1>0, <1>t, <2>1, MarkReferences
  <2> QED
    BY <1>0, <1>9, <1>m, <2>2 DEF EnsureJWTPushed, FinalizationFails, server
<1>10. CASE UpdateStatus
  <2> DEFINE next == [acc EXCEPT !.conds = obj.conds, !.keyPair = obj.keyPair,
                                 !.operatorRef = obj.operatorRef,
                                 !.signingKeys = obj.signingKeys]
  <2>1. References(next)
    <3>1. /\ next.conds = obj.conds
          /\ next.keyPair = obj.keyPair
          /\ next.operatorRef = obj.operatorRef
      BY <1>0 DEF Accounts
    <3> HIDE DEF next
    <3> QED
      BY <1>0, <3>1 DEF References
  <2>2. acc' \in {acc, next} /\ UNCHANGED <<cached, old>> /\ obj' = NoAccount
    BY <1>10 DEF UpdateStatus, server
  <2> HIDE DEF next
  <2> QED
    BY <1>0, <1>m, <2>1, <2>2, NewAccountReferences
<1>11. CASE SkipFinalization \/ DeletePushedJWT
  BY <1>0, <1>11, <1>m DEF SkipFinalization, DeletePushedJWT, Return, Goto, server
<1>12. CASE RemoveFinalizer
  <2>1. /\ [acc EXCEPT !.finalizer = FALSE, !.exists = FALSE] \in Accounts
        /\ References([acc EXCEPT !.finalizer = FALSE, !.exists = FALSE])
    BY <1>0 DEF Accounts, References
  <2> QED
    BY <1>12, <2>1, UpdateReferences DEF RemoveFinalizer
<1>13. CASE PanicInFinalize \/ Crash
  <2>1. Restart
    BY <1>13 DEF PanicInFinalize, Crash
  <2>2. cached' \in {acc, cached, old} /\ UNCHANGED <<acc, old>> /\ obj' = NoAccount
    BY <2>1, ListedAccount DEF Restart
  <2> QED
    BY <1>0, <1>m, <2>2, NewAccountReferences
<1>14. CASE CacheSync
  <2>1. References(old')
    BY <1>0, <1>14, NewAccountReferences DEF CacheSync
  <2> QED
    BY <1>0, <1>14, <1>m, <2>1 DEF CacheSync, local
<1>15. CASE EditSpec \/ DeleteAccount
  <2>1. /\ References([acc EXCEPT !.gen = @ + 1])
        /\ References([acc EXCEPT !.exists = acc.finalizer, !.deleting = TRUE])
    BY <1>0 DEF Accounts, References
  <2> QED
    BY <1>0, <1>15, <1>m, <2>1 DEF EditSpec, DeleteAccount, ForeignWrite
<1>16. CASE \/ Resync \/ DeleteSeed \/ TamperJWT \/ ChangeIssuer
            \/ ChangeIssuerSeed \/ ChangeSelectors \/ ChangeSigningKeys
            \/ ChangeOperator \/ ChangeSystemAccount \/ PublishIssuerKey
            \/ UNCHANGED vars
  <2>1. UNCHANGED <<server, local>>
    BY <1>16 DEF Resync, DeleteSeed, TamperJWT, ChangeIssuer, ChangeIssuerSeed,
       ChangeSelectors, ChangeSigningKeys, ChangeOperator, ChangeSystemAccount,
       PublishIssuerKey, vars
  <2> QED
    BY <1>0, <1>m, <2>1 DEF server, local
<1> QED
  BY <1>1, <1>2, <1>3, <1>4, <1>5, <1>6, <1>7, <1>8, <1>9, <1>10, <1>11, <1>12,
     <1>13, <1>14, <1>15, <1>16 DEF Next, Reconcile, ReconcileLive, Finalize, Disturbance, EnvironmentChange

(* A stored True condition always comes with the reference it is about, in *)
(* particular a Ready Account has a key pair and an Operator.              *)
THEOREM ReadyAlwaysHasReferences == Spec => []ReadyHasReferences
<1>1. Init => RefInv
  <2>1. Init => /\ acc = NewAccount /\ cached = NoAccount
                /\ old = NoAccount /\ obj = NoAccount
    BY DEF Init, InitAccount
  <2> QED
    BY <2>1, NewAccountReferences DEF RefInv
<1>2. RefInv => ReadyHasReferences
  BY DependentFacts DEF RefInv, References, ReadyHasReferences
<1> QED
  BY <1>1, <1>2, TypeInvInit, TypeInvNext, RefInvNext, PTL DEF Spec

(***************************************************************************)
(* What a recorded push says of NATS.  A copy that says JWTPushed = True   *)
(* may be written back long after it was read, so all copies have to be    *)
(* true of NATS for as long as the Account is not being deleted; and only  *)
(* finalization, which runs on a cached deletion, takes a JWT away.        *)
(***************************************************************************)

Pushed(a) == IsTrue(a.conds["JWTPushed"])

OnNATS == \E k \in Keys : nats[k] # NoClaims

PushInv ==
    ~acc.deleting =>
        (Pushed(acc) \/ Pushed(cached) \/ Pushed(old) \/ Pushed(obj) => OnNATS)

(* Only the mark of JWTPushed makes it True.                               *)
LEMMA MarkPushed ==
    ASSUME NEW a \in Accounts, NEW err
    PROVE  /\ \A t \in AccountDependents \ {"JWTPushed"} :
                  Pushed(MarkAccountTrue(a, t)) => Pushed(a)
           /\ \A t \in AccountDependents : Pushed(MarkAccountError(a, t, err)) => Pushed(a)
           /\ \A k \in Keys : Pushed(MarkSeedSecretReady(a, k)) => Pushed(a)
           /\ Pushed(MarkSeedSecretError(a, err)) => Pushed(a)
           /\ Pushed(MarkOperatorResolved(a)) => Pushed(a)
           /\ Pushed(MarkOperatorResolveError(a, err)) => Pushed(a)
           /\ \A sks \in SUBSET SKs : Pushed(MarkSigningKeysUpdated(a, sks)) => Pushed(a)
<1>0. a.conds \in AccountConditions /\ "JWTPushed" \in AccountDependents
  BY DEF Accounts, AccountDependents
<1>1. ASSUME NEW t \in AccountDependents \ {"JWTPushed"},
             NEW b \in Accounts, b.conds = a.conds
      PROVE  Pushed(MarkAccountTrue(b, t)) => Pushed(a)
  <2> DEFINE m == MarkTrue(a.conds, AccountDependents, t)
  <2>1. MarkAccountTrue(b, t).conds = m
    BY <1>1 DEF MarkAccountTrue, Accounts
  <2>2. /\ \A d \in AccountDependents \ {t} : m[d] = a.conds[d]
        /\ IsTrue(m[Happy]) => \A d \in AccountDependents : IsTrue(m[d])
    BY <1>0, DependentFacts, MarkTrueEffect DEF AccountConditions
  <2> HIDE DEF m
  <2> QED
    BY <1>0, <2>1, <2>2 DEF Pushed
<1>2. ASSUME NEW t \in AccountDependents, NEW b \in Accounts, b.conds = a.conds
      PROVE  Pushed(MarkAccountError(b, t, err)) => Pushed(a)
  <2> DEFINE m == MarkCondition(a.conds, AccountDependents, t, err)
  <2>1. MarkAccountError(b, t, err).conds = m
    BY <1>2 DEF MarkAccountError, Accounts
  <2>2. /\ \A d \in AccountDependents \ {t} : m[d] = a.conds[d]
        /\ ~IsTrue(m[t])
        /\ ~IsTrue(m[Happy])
    BY <1>0, DependentFacts, MarkConditionEffect DEF AccountConditions
  <2> HIDE DEF m
  <2> QED
    BY <1>0, <2>1, <2>2 DEF Pushed
<1>3. \A k \in Keys \cup {NoKey} :
        [a EXCEPT !.keyPair = k] \in Accounts /\ [a EXCEPT !.keyPair = k].conds = a.conds
  BY DEF Accounts
<1>4. \A r \in BOOLEAN : /\ [a EXCEPT !.operatorRef = r] \in Accounts
                         /\ [a EXCEPT !.operatorRef = r].conds = a.conds
  BY DEF Accounts
<1>5. \A sks \in SUBSET SKs : /\ [a EXCEPT !.signingKeys = sks] \in Accounts
                              /\ [a EXCEPT !.signingKeys = sks].conds = a.conds
  BY DEF Accounts
<1>6. /\ "SigningKeysUpdated" \in AccountDependents \ {"JWTPushed"}
      /\ "SeedSecretReady" \in AccountDependents \ {"JWTPushed"}
      /\ "OperatorResolved" \in AccountDependents \ {"JWTPushed"}
  BY DEF AccountDependents
<1>7. \A k \in Keys : Pushed(MarkSeedSecretReady(a, k)) => Pushed(a)
  BY <1>1, <1>3, <1>6 DEF MarkSeedSecretReady
<1>8. Pushed(MarkSeedSecretError(a, err)) => Pushed(a)
  BY <1>2, <1>3, <1>6 DEF MarkSeedSecretError
<1>9. Pushed(MarkOperatorResolved(a)) => Pushed(a)
  BY <1>1, <1>4, <1>6 DEF MarkOperatorResolved
<1>10. Pushed(MarkOperatorResolveError(a, err)) => Pushed(a)
  BY <1>2, <1>4, <1>6 DEF MarkOperatorResolveError
<1>11. \A sks \in SUBSET SKs : Pushed(MarkSigningKeysUpdated(a, sks)) => Pushed(a)
  BY <1>1, <1>5, <1>6 DEF MarkSigningKeysUpdated
<1> QED
  BY <1>1, <1>2, <1>7, <1>8, <1>9, <1>10, <1>11

(* InitializeConditions keeps a recorded push, and makes none up: under a  *)
(* True Ready JWTPushed is not missing.                                    *)
LEMMA InitializePushed ==
    ASSUME NEW a \in Accounts, References(a)
    PROVE  LET b == [a EXCEPT !.conds = InitializeConditions(@, AccountDependents)]
           IN  /\ Pushed(b) => Pushed(a)
               /\ PushRecorded(a) => PushRecorded(b)
               /\ b.keyPair = a.keyPair
<1> DEFINE i == InitializeConditions(a.conds, AccountDependents)
           b == [a EXCEPT !.conds = InitializeConditions(@, AccountDependents)]
<1>1. b.conds = i /\ b.keyPair = a.keyPair
  BY DEF Accounts
<1>2. a.conds \in [AccountTypes -> Statuses \cup {NoCondition}]
  BY DEF Accounts, AccountConditions, ConditionLists
<1>3. /\ "JWTPushed" \in AccountDependents /\ "JWTSecretReady" \in AccountDependents
      /\ "JWTPushed" # Happy /\ "JWTSecretReady" # Happy
  BY DEF AccountDependents, Happy
<1>4. /\ IsTrue(i["JWTPushed"]) => IsTrue(a.conds["JWTPushed"]) \/ IsTrue(a.conds[Happy])
      /\ IsTrue(a.conds["JWTPushed"]) => IsTrue(i["JWTPushed"])
      /\ IsTrue(a.conds["JWTSecretReady"]) => IsTrue(i["JWTSecretReady"])
  <2>1. DOMAIN a.conds = AccountTypes /\ AccountDependents \subseteq AccountTypes
    BY <1>2, DependentFacts
  <2> QED
    BY <1>3, <2>1 DEF InitializeConditions, IsTrue, NoCondition
<1> HIDE DEF i
<1>5. Pushed(b) => Pushed(a)
  BY <1>1, <1>3, <1>4 DEF Pushed, References
<1>6. PushRecorded(a) => PushRecorded(b)
  BY <1>1, <1>4 DEF PushRecorded
<1> QED
  BY <1>1, <1>5, <1>6

(* A deletion is never taken back.                                         *)
LEMMA DeletionStays ==
    ASSUME TypeInv, [Next]_vars
    PROVE  acc.deleting => acc'.deleting
<1>0. acc \in Accounts
  BY DEF TypeInv, TypeOK
<1>1. CASE AddFinalizer \/ ReconcileLabels \/ RemoveFinalizer
  <2>1. \/ acc' = acc
        \/ acc' = [acc EXCEPT !.finalizer = TRUE]
        \/ acc' = [acc EXCEPT !.label = TRUE]
        \/ acc' = [acc EXCEPT !.finalizer = FALSE, !.exists = FALSE]
    BY <1>1, UpdateAccountMeta DEF AddFinalizer, ReconcileLabels, RemoveFinalizer, server
  <2> QED
    BY <1>0, <2>1 DEF Accounts
<1>2. CASE UpdateStatus
  <2>1. \/ acc' = acc
        \/ acc' = [acc EXCEPT !.conds = obj.conds, !.keyPair = obj.keyPair,
                              !.operatorRef = obj.operatorRef,
                              !.signingKeys = obj.signingKeys]
    BY <1>2 DEF UpdateStatus, server
  <2> QED
    BY <1>0, <2>1 DEF Accounts
<1>3. CASE EditSpec \/ DeleteAccount
  BY <1>0, <1>3 DEF EditSpec, DeleteAccount, ForeignWrite, Accounts
<1>4. CASE \/ StartReconcile \/ SeedSecret \/ IssuerAndOperator
           \/ EnsureSigningKeysUpdated \/ LoadIssuerSeed \/ JWTSecretStep
           \/ EnsureJWTPushed \/ SkipFinalization \/ FinalizationFails
           \/ DeletePushedJWT \/ PanicInFinalize \/ Crash \/ CacheSync \/ Resync
           \/ DeleteSeed \/ TamperJWT \/ EnvironmentChange \/ UNCHANGED vars
  BY <1>4 DEF StartReconcile, SeedSecret, IssuerAndOperator,
     EnsureSigningKeysUpdated, LoadIssuerSeed, JWTSecretStep, EnsureJWTPushed,
     SkipFinalization, FinalizationFails, DeletePushedJWT, PanicInFinalize,
     Crash, Restart, CacheSync, Resync, DeleteSeed, TamperJWT, EnvironmentChange,
     ChangeIssuer, ChangeIssuerSeed, PublishIssuerKey, ChangeSelectors,
     ChangeSigningKeys, ChangeOperator, ChangeSystemAccount, vars, server
<1> QED
  BY <1>1, <1>2, <1>3, <1>4
     DEF Next, Reconcile, ReconcileLive, Finalize, Disturbance

(* A push leaves something on NATS.                                        *)
LEMMA PushArrives ==
    ASSUME TypeInv, pc = "push", nats' = [nats EXCEPT ![obj.keyPair] = ClaimsOf(obj, signer)]
    PROVE  OnNATS'
<1>1. nats \in [Keys -> Claims \cup {NoClaims}] /\ obj.keyPair \in Keys /\ obj.gen \in Gens
  BY DEF TypeInv, TypeOK, PastSeed, PastIssuer, Accounts
<1>2. ClaimsOf(obj, signer) # NoClaims
  <2>1. ClaimsOf(obj, signer).gen = obj.gen /\ NoClaims.gen = 0 /\ obj.gen # 0
    BY <1>1, MaxGenAssumption DEF ClaimsOf, NoClaims, Gens
  <2> QED
    BY <2>1
<1> HIDE DEF ClaimsOf
<1>3. nats'[obj.keyPair] # NoClaims
  BY <1>1, <1>2
<1> QED
  BY <1>1, <1>3 DEF OnNATS

(* What is on NATS stays there while the Account is not being deleted.     *)
LEMMA OnNATSStays ==
    ASSUME TypeInv, LifecycleInv, [Next]_vars, ~acc.deleting, OnNATS
    PROVE  OnNATS'
<1>1. CASE EnsureJWTPushed
  <2>1. /\ pc = "push"
        /\ nats' \in {nats, [nats EXCEPT ![obj.keyPair] = ClaimsOf(obj, signer)]}
    BY <1>1 DEF EnsureJWTPushed, Push, ClaimsOf
  <2>2. CASE nats' = nats
    BY <2>2 DEF OnNATS
  <2> QED
    BY <2>1, <2>2, PushArrives
<1>2. CASE DeletePushedJWT
  BY <1>2 DEF DeletePushedJWT, LifecycleInv, DeletionSeen, Finalizing
<1>3. CASE nats' = nats
  BY <1>3 DEF OnNATS
<1> QED
  BY <1>1, <1>2, <1>3, NatsChange

(* An Update of the Account that leaves its conditions alone.              *)
LEMMA UpdatePushed ==
    ASSUME TypeInv, NEW STATE next, next \in Accounts, next.conds = acc.conds,
           UpdateAccount(next)
    PROVE  /\ Pushed(acc') => Pushed(acc)
           /\ Pushed(obj') => Pushed(acc) \/ Pushed(obj)
           /\ UNCHANGED <<cached, old>>
<1>1. /\ acc' \in {acc, next}
      /\ UNCHANGED <<cached, old>>
      /\ obj' \in {obj, DecodeInto(obj, next)}
  BY DEF UpdateAccount, Return, Goto, server
<1>2. DecodeInto(obj, next).conds \in {next.conds, obj.conds}
  BY DEF DecodeInto, Accounts
<1> QED
  BY <1>1, <1>2 DEF Pushed

(* A copy that says JWTPushed = True has it from another copy, or from a   *)
(* push.                                                                   *)
LEMMA PushedSteps ==
    ASSUME TypeInv, RefInv, [Next]_vars,
           Pushed(acc') \/ Pushed(cached') \/ Pushed(old') \/ Pushed(obj')
    PROVE  Pushed(acc) \/ Pushed(cached) \/ Pushed(old) \/ Pushed(obj) \/ OnNATS'
<1>0. /\ acc \in Accounts /\ cached \in Accounts /\ obj \in Accounts
      /\ References(cached)
  BY DEF TypeInv, TypeOK, RefInv
<1>t. /\ "IssuerResolved" \in AccountDependents \ {"JWTPushed"}
      /\ "JWTSecretReady" \in AccountDependents \ {"JWTPushed"}
      /\ "JWTPushed" \in AccountDependents
  BY DEF AccountDependents
<1>n. ~Pushed(NoAccount)
  <2>1. NoAccount.conds = [t \in AccountTypes |-> NoCondition]
    BY DEF NoAccount, NewAccount
  <2> QED
    BY <1>t, <2>1, DependentFacts DEF Pushed, IsTrue, NoCondition
<1>1. CASE StartReconcile
  <2> DEFINE copy == [cached EXCEPT !.conds = InitializeConditions(@, AccountDependents)]
  <2>1. Pushed(copy) => Pushed(cached)
    BY <1>0, InitializePushed
  <2>2. UNCHANGED server /\ obj' \in {obj, copy}
    BY <1>1 DEF StartReconcile, Goto, local
  <2> HIDE DEF copy
  <2> QED
    BY <2>1, <2>2 DEF server
<1>2. CASE AddFinalizer \/ ReconcileLabels \/ RemoveFinalizer
  <2>1. /\ [acc EXCEPT !.finalizer = TRUE] \in Accounts
        /\ [acc EXCEPT !.label = TRUE] \in Accounts
        /\ [acc EXCEPT !.finalizer = FALSE, !.exists = FALSE] \in Accounts
        /\ [acc EXCEPT !.finalizer = TRUE].conds = acc.conds
        /\ [acc EXCEPT !.label = TRUE].conds = acc.conds
        /\ [acc EXCEPT !.finalizer = FALSE, !.exists = FALSE].conds = acc.conds
    BY <1>0 DEF Accounts
  <2>2. CASE ReconcileLabels /\ obj.label
    BY <2>2 DEF ReconcileLabels, Goto, server
  <2> QED
    BY <1>2, <2>1, <2>2, UpdatePushed DEF AddFinalizer, ReconcileLabels, RemoveFinalizer
<1>3. CASE SeedSecret
  <2>1. PICK o \in ReconcileSeedSecret(seed, nextKey) :
          IF o.err # NoError
          THEN Goto("status", MarkSeedSecretError(obj, o.err))
          ELSE \E step : Goto(step, MarkSeedSecretReady(obj, o.key))
    BY <1>3 DEF SeedSecret, Return
  <2>2. o.err = NoError => o.key \in Keys
    BY SeedOutcomeType, MaxKeysAssumption DEF TypeInv, TypeOK
  <2>3. Pushed(obj') => Pushed(obj)
    BY <1>0, <2>1, <2>2, MarkPushed DEF Goto
  <2> QED
    BY <1>3, <2>3 DEF SeedSecret, server
<1>4. CASE IssuerAndOperator
  <2>1. \/ obj' = MarkOperatorResolved(obj)
        \/ \E e : \/ obj' = MarkAccountError(obj, "IssuerResolved", e)
                  \/ obj' = MarkOperatorResolveError(obj, e)
    BY <1>4 DEF IssuerAndOperator, Return, Goto
  <2>2. Pushed(obj') => Pushed(obj)
    BY <1>0, <1>t, <2>1, MarkPushed
  <2> QED
    BY <1>4, <2>2 DEF IssuerAndOperator, server
<1>5. CASE EnsureSigningKeysUpdated
  <2>1. Pushed(MarkSigningKeysUpdated(obj, env.sks)) => Pushed(obj)
    BY <1>0, MarkPushed DEF TypeInv, TypeOK, Environments
  <2> QED
    BY <1>5, <2>1 DEF EnsureSigningKeysUpdated, Return, Goto, server
<1>6. CASE LoadIssuerSeed \/ JWTSecretStep \/ FinalizationFails
  <2>1. \/ obj' = obj
        \/ \E t \in AccountDependents \ {"JWTPushed"} : obj' = MarkAccountTrue(obj, t)
        \/ \E t \in AccountDependents : \E e : obj' = MarkAccountError(obj, t, e)
    BY <1>6, <1>t DEF LoadIssuerSeed, JWTSecretStep, FinalizationFails,
       MarkJWTPushFailed, Return, Goto
  <2>2. Pushed(obj') => Pushed(obj)
    BY <1>0, <2>1, MarkPushed
  <2> QED
    BY <1>6, <2>2 DEF LoadIssuerSeed, JWTSecretStep, FinalizationFails, server
<1>7. CASE EnsureJWTPushed
  <2>1. /\ UNCHANGED server /\ pc = "push"
        /\ \/ nats' = [nats EXCEPT ![obj.keyPair] = ClaimsOf(obj, signer)]
           \/ \E e : obj' = MarkAccountError(obj, "JWTPushed", e)
    BY <1>7 DEF EnsureJWTPushed, Push, ClaimsOf, MarkJWTPushFailed, Return, Goto
  <2>2. CASE \E e : obj' = MarkAccountError(obj, "JWTPushed", e)
    <3>1. Pushed(obj') => Pushed(obj)
      BY <1>0, <1>t, <2>2, MarkPushed
    <3> QED
      BY <2>1, <3>1 DEF server
  <2> QED
    BY <2>1, <2>2, PushArrives
<1>8. CASE UpdateStatus
  <2>1. /\ acc'.conds \in {acc.conds, obj.conds} /\ obj' = NoAccount
        /\ UNCHANGED <<cached, old>>
    BY <1>0, <1>8 DEF UpdateStatus, server, Accounts
  <2> QED
    BY <1>n, <2>1 DEF Pushed
<1>9. CASE SkipFinalization \/ DeletePushedJWT
  BY <1>9 DEF SkipFinalization, DeletePushedJWT, Return, Goto, server
<1>10. CASE PanicInFinalize \/ Crash
  <2>1. Restart
    BY <1>10 DEF PanicInFinalize, Crash
  <2>2. cached' \in {acc, cached, old} /\ UNCHANGED <<acc, old>> /\ obj' = NoAccount
    BY <2>1, ListedAccount DEF Restart
  <2> QED
    BY <1>n, <2>2
<1>11. CASE CacheSync
  BY <1>11, <1>n DEF CacheSync, local
<1>12. CASE EditSpec \/ DeleteAccount
  <2>1. acc'.conds = acc.conds /\ UNCHANGED <<cached, old, obj>>
    BY <1>0, <1>12 DEF EditSpec, DeleteAccount, ForeignWrite, Accounts
  <2> QED
    BY <2>1 DEF Pushed
<1>13. CASE \/ Resync \/ DeleteSeed \/ TamperJWT \/ EnvironmentChange \/ UNCHANGED vars
  BY <1>13 DEF Resync, DeleteSeed, TamperJWT, EnvironmentChange, ChangeIssuer,
     ChangeIssuerSeed, PublishIssuerKey, ChangeSelectors, ChangeSigningKeys,
     ChangeOperator, ChangeSystemAccount, vars, server, local
<1> QED
  BY <1>1, <1>2, <1>3, <1>4, <1>5, <1>6, <1>7, <1>8, <1>9, <1>10, <1>11, <1>12, <1>13
     DEF Next, Reconcile, ReconcileLive, Finalize, Disturbance

(* Every step keeps PushInv.                                               *)
LEMMA PushInvNext ==
    TypeInv /\ LifecycleInv /\ RefInv /\ PushInv /\ [Next]_vars => PushInv'
<1> SUFFICES ASSUME TypeInv, LifecycleInv, RefInv, PushInv, [Next]_vars,
                    ~acc'.deleting,
                    Pushed(acc') \/ Pushed(cached') \/ Pushed(old') \/ Pushed(obj')
             PROVE  OnNATS'
  BY DEF PushInv, Pushed
<1>1. ~acc.deleting
  BY DeletionStays
<1>2. CASE Pushed(acc) \/ Pushed(cached) \/ Pushed(old) \/ Pushed(obj)
  BY <1>1, <1>2, OnNATSStays DEF PushInv
<1> QED
  BY <1>2, PushedSteps

(* The first state records no push.                                        *)
LEMMA PushInvInit == Init => RefInv /\ PushInv
<1> SUFFICES ASSUME Init PROVE RefInv /\ PushInv
  OBVIOUS
<1>1. acc = NewAccount /\ cached = NoAccount /\ old = NoAccount /\ obj = NoAccount
  BY DEF Init, InitAccount
<1>2. ~Pushed(NewAccount) /\ ~Pushed(NoAccount)
  BY DEF Pushed, IsTrue, NewAccount, NoAccount, NoCondition, AccountTypes, AccountDependents
<1> QED
  BY <1>1, <1>2, NewAccountReferences DEF RefInv, PushInv

(* While the Account is not being deleted, a stored JWTPushed = True is    *)
(* true of NATS, however old the copy that it was written from.            *)
THEOREM PushedIsAlwaysOnNATS == Spec => []PushedIsOnNATS
<1>1. PushInv => PushedIsOnNATS
  BY DEF PushInv, Pushed, OnNATS, PushedIsOnNATS
<1> QED
  BY <1>1, TypeInvInit, TypeInvNext, LifecycleInit, LifecycleNext, PushInvInit,
     RefInvNext, PushInvNext, PTL DEF Spec

(***************************************************************************)
(* Finalization leaves nothing behind that the status recorded.  It reads  *)
(* the record from a cached copy; the server accepts the removal of the    *)
(* finalizer only for a copy of its latest version, so the record that is  *)
(* removed with the Account is the one that was acted on.                  *)
(***************************************************************************)

(* NATS can always be reached, and no restart lists an older version.      *)
NATSStays == Hazards \cap {"operator", "sys", "oldList"} = {}

(* The claims of the stored key pair are off NATS.                         *)
Withdrawn == acc.keyPair \in Keys /\ nats[acc.keyPair] = NoClaims

Cleaned ==
    /\ CanReachNATS
    /\ pc = "finalize" /\ objFresh /\ PushRecorded(acc)
        => PushRecorded(obj) /\ obj.keyPair = acc.keyPair
    /\ pc = "removeFinalizer" /\ objFresh /\ PushRecorded(acc) => Withdrawn
    /\ ~acc.exists /\ PushRecorded(acc) => Withdrawn

CleanInv == NATSStays => AdvanceInv /\ Cleaned

(* The Operator and the system account stay as they are.                   *)
LEMMA ReachableStays ==
    ASSUME TypeInv, NATSStays, CanReachNATS, [Next]_vars
    PROVE  CanReachNATS'
<1>1. CASE UNCHANGED env
  BY <1>1 DEF CanReachNATS
<1>2. CASE ChangeOperator \/ ChangeSystemAccount
  BY <1>2 DEF ChangeOperator, ChangeSystemAccount, Disturb, NATSStays
<1>3. CASE \/ ChangeIssuer \/ ChangeIssuerSeed \/ PublishIssuerKey
           \/ ChangeSelectors \/ ChangeSigningKeys
  <2>1. env \in Environments
    BY DEF TypeInv, TypeOK
  <2>2. env'.operator = env.operator /\ env'.sys = env.sys
    BY <1>3, <2>1 DEF ChangeIssuer, ChangeIssuerSeed, PublishIssuerKey,
       ChangeSelectors, ChangeSigningKeys, Environments
  <2> QED
    BY <2>2 DEF CanReachNATS
<1> QED
  BY <1>1, <1>2, <1>3 DEF Next, EnvironmentChange, vars

(* A step that leaves the stored Account and NATS alone, and does not go   *)
(* on with finalization.                                                   *)
LEMMA CleanFrame ==
    ASSUME Cleaned, CanReachNATS', UNCHANGED <<acc, nats>>,
           pc' \notin Finalizing \/ UNCHANGED <<pc, obj, objFresh>>
    PROVE  Cleaned'
BY DEF Cleaned, Withdrawn, Finalizing, PushRecorded

(* A step after which the Account exists and is not being finalized.       *)
LEMMA CleanExists ==
    ASSUME CanReachNATS', acc'.exists, pc' \notin Finalizing \/ ~objFresh'
    PROVE  Cleaned'
BY DEF Cleaned, Finalizing

(* Every step keeps CleanInv.                                              *)
LEMMA CleanNext ==
    /\ TypeInv /\ LifecycleInv /\ FreshInv /\ RefInv /\ PushInv /\ CleanInv
    /\ [Next]_vars
    => CleanInv'
<1> SUFFICES ASSUME TypeInv, LifecycleInv, FreshInv, RefInv, PushInv, CleanInv,
                    [Next]_vars, NATSStays
             PROVE  Cleaned'
  BY AdvanceNext DEF CleanInv, NATSStays, ListsAdvance
<1>0. /\ acc \in Accounts /\ cached \in Accounts /\ obj \in Accounts
      /\ nats \in [Keys -> Claims \cup {NoClaims}]
      /\ References(cached)
  BY DEF TypeInv, TypeOK, RefInv
<1>c. AdvanceInv /\ Cleaned /\ CanReachNATS
  BY DEF CleanInv, Cleaned
<1>e. CanReachNATS'
  BY <1>c, ReachableStays
<1>f. /\ cacheFresh => cached = acc
      /\ objFresh => acc.exists
  BY DEF FreshInv, Meta
<1>1. CASE StartReconcile
  <2> DEFINE copy == [cached EXCEPT !.conds = InitializeConditions(@, AccountDependents)]
  <2>1. PushRecorded(cached) => PushRecorded(copy)
    BY <1>0, InitializePushed
  <2>2. copy.keyPair = cached.keyPair
    BY <1>0, InitializePushed
  <2>3. CASE UNCHANGED local
    BY <1>1, <1>c, <1>e, <2>3, CleanFrame DEF StartReconcile, server, local, cluster
  <2>4. CASE cached.exists
    <3>1. /\ UNCHANGED <<acc, nats>> /\ pc' = FirstStep(cached)
          /\ obj' = copy /\ objFresh' = cacheFresh
      BY <1>1, <2>4 DEF StartReconcile, Goto, server, cluster
    <3> HIDE DEF copy
    <3>2. pc' # "removeFinalizer"
      BY <3>1 DEF FirstStep
    <3>3. objFresh' /\ PushRecorded(acc) => PushRecorded(obj') /\ obj'.keyPair = acc.keyPair
      BY <1>f, <2>1, <2>2, <3>1
    <3> QED
      BY <1>c, <1>e, <3>1, <3>2, <3>3 DEF Cleaned, Withdrawn, PushRecorded
  <2> QED
    BY <1>1, <2>3, <2>4 DEF StartReconcile
<1>2. CASE AddFinalizer \/ (ReconcileLabels /\ ~obj.label)
  <2>1. pc' = "status" /\ nats' = nats
    BY <1>2 DEF AddFinalizer, ReconcileLabels, UpdateAccount, Return, Goto, cluster
  <2>2. \/ acc' = acc
        \/ objFresh /\ acc' \in {[acc EXCEPT !.finalizer = TRUE], [acc EXCEPT !.label = TRUE]}
    BY <1>2 DEF AddFinalizer, ReconcileLabels, UpdateAccount, server
  <2>3. CASE acc' = acc
    BY <1>c, <1>e, <2>1, <2>3, CleanFrame DEF Finalizing
  <2>4. CASE objFresh /\ acc' \in {[acc EXCEPT !.finalizer = TRUE], [acc EXCEPT !.label = TRUE]}
    <3>1. acc'.exists
      BY <1>0, <1>f, <2>4 DEF Accounts
    <3> QED
      BY <1>e, <2>1, <3>1, CleanExists DEF Finalizing
  <2> QED
    BY <2>2, <2>3, <2>4
<1>3. CASE \/ (ReconcileLabels /\ obj.label) \/ SeedSecret \/ IssuerAndOperator
           \/ EnsureSigningKeysUpdated \/ LoadIssuerSeed \/ JWTSecretStep
           \/ FinalizationFails \/ PanicInFinalize \/ Crash
  <2>1. UNCHANGED <<acc, nats>>
    BY <1>3 DEF ReconcileLabels, SeedSecret, IssuerAndOperator,
       EnsureSigningKeysUpdated, LoadIssuerSeed, JWTSecretStep, FinalizationFails,
       PanicInFinalize, Crash, Restart, server, cluster
  <2>2. pc' \notin Finalizing
    BY <1>3 DEF ReconcileLabels, SeedSecret, IssuerAndOperator,
       EnsureSigningKeysUpdated, LoadIssuerSeed, JWTSecretStep, FinalizationFails,
       PanicInFinalize, Crash, Restart, Return, Goto, Finalizing
  <2> QED
    BY <1>c, <1>e, <2>1, <2>2, CleanFrame
<1>4. CASE EnsureJWTPushed
  <2>1. acc' = acc /\ pc = "push" /\ pc' = "status"
    BY <1>4 DEF EnsureJWTPushed, Return, Goto, server
  <2>2. acc.exists
    BY <1>c, <2>1 DEF AdvanceInv, RemovalSeen, Working, PastSeed, PastIssuer
  <2> QED
    BY <1>e, <2>1, <2>2, CleanExists DEF Finalizing
<1>5. CASE UpdateStatus
  <2> DEFINE next == [acc EXCEPT !.conds = obj.conds, !.keyPair = obj.keyPair,
                                 !.operatorRef = obj.operatorRef,
                                 !.signingKeys = obj.signingKeys]
  <2>1. pc' = "idle" /\ nats' = nats /\ (acc' = acc \/ (objFresh /\ acc' = next))
    BY <1>5 DEF UpdateStatus, server, cluster
  <2>2. next.exists = acc.exists
    BY <1>0 DEF Accounts
  <2> HIDE DEF next
  <2>3. CASE acc' = acc
    BY <1>c, <1>e, <2>1, <2>3, CleanFrame DEF Finalizing
  <2>4. CASE objFresh /\ acc' = next
    BY <1>e, <1>f, <2>1, <2>2, <2>4, CleanExists DEF Finalizing
  <2> QED
    BY <2>1, <2>3, <2>4
<1>6. CASE SkipFinalization
  <2>1. /\ pc = "finalize" /\ pc' = "removeFinalizer"
        /\ ~PushRecorded(obj) \/ NothingToCleanUp
        /\ UNCHANGED <<acc, nats, obj, objFresh>>
    BY <1>6 DEF SkipFinalization, Goto, server, cluster
  <2>2. ~NothingToCleanUp
    BY <1>c DEF CanReachNATS, NothingToCleanUp
  <2>3. ~(objFresh /\ PushRecorded(acc))
    BY <1>c, <2>1, <2>2 DEF Cleaned
  <2> QED
    BY <1>c, <1>e, <2>1, <2>3 DEF Cleaned, Withdrawn, PushRecorded
<1>7. CASE DeletePushedJWT
  <2>1. /\ pc = "finalize" /\ pc' # "finalize"
        /\ obj.keyPair # NoKey
        /\ nats' = [nats EXCEPT ![obj.keyPair] = NoClaims]
        /\ UNCHANGED <<acc, objFresh>>
    BY <1>7 DEF DeletePushedJWT, DeleteJWT, Return, Goto, server
  <2>2. obj.keyPair \in Keys
    BY <1>0, <2>1 DEF Accounts
  <2>3. objFresh /\ PushRecorded(acc) => acc.keyPair = obj.keyPair
    BY <1>c, <2>1 DEF Cleaned
  <2>4. objFresh /\ PushRecorded(acc) => Withdrawn'
    BY <1>0, <2>1, <2>2, <2>3 DEF Withdrawn
  <2>5. Withdrawn => Withdrawn'
    BY <1>0, <2>1, <2>2 DEF Withdrawn
  <2> QED
    BY <1>c, <1>e, <2>1, <2>4, <2>5 DEF Cleaned, PushRecorded
<1>8. CASE RemoveFinalizer
  <2> DEFINE next == [acc EXCEPT !.finalizer = FALSE, !.exists = FALSE]
  <2>1. /\ pc = "removeFinalizer" /\ pc' = "status" /\ nats' = nats
        /\ acc' = acc \/ (objFresh /\ acc' = next)
    BY <1>8 DEF RemoveFinalizer, UpdateAccount, Return, Goto, server, cluster
  <2>2. next.conds = acc.conds /\ next.keyPair = acc.keyPair
    BY <1>0 DEF Accounts
  <2> HIDE DEF next
  <2>3. CASE acc' = acc
    BY <1>c, <1>e, <2>1, <2>3, CleanFrame DEF Finalizing
  <2>4. CASE objFresh /\ acc' = next
    <3>1. PushRecorded(acc) => Withdrawn
      BY <1>c, <2>1, <2>4 DEF Cleaned
    <3> QED
      BY <1>e, <2>1, <2>2, <2>4, <3>1 DEF Cleaned, Withdrawn, PushRecorded
  <2> QED
    BY <2>1, <2>3, <2>4
<1>9. CASE EditSpec
  <2>1. acc.exists /\ acc' = [acc EXCEPT !.gen = @ + 1] /\ objFresh' = FALSE
    BY <1>9 DEF EditSpec, ForeignWrite
  <2>2. acc'.exists
    BY <1>0, <2>1 DEF Accounts
  <2> QED
    BY <1>e, <2>1, <2>2, CleanExists
<1>10. CASE DeleteAccount
  <2>1. /\ acc.exists /\ ~acc.deleting /\ objFresh' = FALSE /\ nats' = nats
        /\ acc' = [acc EXCEPT !.exists = acc.finalizer, !.deleting = TRUE]
    BY <1>10 DEF DeleteAccount, ForeignWrite, cluster
  <2>2. acc'.exists = acc.finalizer /\ acc'.conds = acc.conds
    BY <1>0, <2>1 DEF Accounts
  <2>3. CASE acc.finalizer
    BY <1>e, <2>1, <2>2, <2>3, CleanExists
  <2>4. CASE ~acc.finalizer
    <3>1. ~OnNATS
      BY <2>1, <2>4 DEF LifecycleInv, FinalizerGuardsJWT, OnNATS
    <3>2. ~PushRecorded(acc)
      BY <2>1, <3>1 DEF PushInv, Pushed, PushRecorded
    <3> QED
      BY <1>e, <2>1, <2>2, <3>2 DEF Cleaned, PushRecorded
  <2> QED
    BY <2>3, <2>4
<1>11. CASE \/ CacheSync \/ Resync \/ DeleteSeed \/ TamperJWT \/ EnvironmentChange
            \/ UNCHANGED vars
  <2>1. UNCHANGED <<acc, nats, pc, obj, objFresh>>
    BY <1>11 DEF CacheSync, Resync, DeleteSeed, TamperJWT, EnvironmentChange,
       ChangeIssuer, ChangeIssuerSeed, PublishIssuerKey, ChangeSelectors,
       ChangeSigningKeys, ChangeOperator, ChangeSystemAccount, vars, server,
       local, cluster
  <2> QED
    BY <1>c, <1>e, <2>1, CleanFrame
<1> QED
  BY <1>1, <1>2, <1>3, <1>4, <1>5, <1>6, <1>7, <1>8, <1>9, <1>10, <1>11
     DEF Next, Reconcile, ReconcileLive, Finalize, Disturbance

(* When the Operator and its system account stay reachable, an Account     *)
(* whose status recorded the push is gone only after its JWT is.           *)
THEOREM RecordedPushIsAlwaysCleanedUp == Spec => []RecordedPushIsCleanedUp
<1>1. Init => FreshInv /\ CleanInv
  BY AdvanceInit DEF Init, InitAccount, FreshInv, CleanInv, Cleaned, CanReachNATS,
     GoodEnvironment, NewAccount
<1>2. CleanInv => RecordedPushIsCleanedUp
  BY DEF CleanInv, NATSStays, Cleaned, Withdrawn, RecordedPushIsCleanedUp
<1> QED
  BY <1>1, <1>2, TypeInvInit, TypeInvNext, LifecycleInit, LifecycleNext, FreshNext,
     PushInvInit, RefInvNext, PushInvNext, CleanNext, PTL DEF Spec

(***************************************************************************)
(* A quiet Account that is Ready.  Settled says that nothing has happened  *)
(* since the reconcile started, or since the last one ended, that the      *)
(* reconciler is not about to be told of.  What a settled reconcile has    *)
(* found in order is still so, and its copy is of the stored Account; so   *)
(* is all of it when a reconcile ends with a Ready Account and asks for no *)
(* other.  NATS needs no watch: only the reconcile writes to it.           *)
(***************************************************************************)

Settled == ~queued /\ cacheFresh

Ready(a) == IsTrue(a.conds[Happy])

Right(a) ==
    /\ seed = SeedManaged(a.keyPair)
    /\ jwt = JWTSecret("present", TRUE, ClaimsOf(a, jwt.claims.iss))
    /\ nats[a.keyPair] = jwt.claims

QuietInv ==
    /\ jwt.claims # NoClaims => jwt.owned
    /\ Settled /\ pc # "idle" => orig = acc /\ obj.gen = acc.gen
    /\ Settled /\ pc \in PastSeed => seed = SeedManaged(obj.keyPair)
    /\ Settled /\ pc = "push" => jwt = JWTSecret("present", TRUE, ClaimsOf(obj, signer))
    /\ Settled /\ pc = "status" /\ ~requeue /\ ~acc.deleting /\ Ready(obj) => Right(obj)
    /\ Settled /\ pc = "idle" /\ acc.exists /\ ~acc.deleting /\ Ready(acc) => Right(acc)

(* A step of the reconcile that goes on, or returns for another try or     *)
(* with an Account that is not Ready, and leaves the Secrets alone.        *)
LEMMA QuietPasses ==
    ASSUME QuietInv, UNCHANGED <<server, queued, orig, seed, jwt>>, pc # "idle",
           obj'.gen = obj.gen, pc' \notin {"idle", "push"},
           pc' = "status" => requeue' \/ ~Ready(obj'),
           pc' \in PastSeed => pc \in PastSeed /\ obj'.keyPair = obj.keyPair
    PROVE  QuietInv'
BY DEF QuietInv, Settled, Ready, server

(* An Update of the Account ends the reconcile and asks for another.       *)
LEMMA QuietUpdate ==
    ASSUME QuietInv, NEW STATE next, UpdateAccount(next), pc # "idle",
           UNCHANGED <<queued, orig, jwt>>
    PROVE  QuietInv'
<1>1. /\ pc' = "status" /\ requeue' = TRUE
      /\ cacheFresh' => UNCHANGED <<acc, cacheFresh, obj>>
  BY DEF UpdateAccount, Return, Goto, server
<1> QED
  BY <1>1 DEF QuietInv, Settled, PastSeed, PastIssuer

(* What the lifecycle methods do to the fields that the claims are of.     *)
LEMMA MarkClaims ==
    ASSUME NEW a \in Accounts, NEW t, NEW err, NEW sks
    PROVE  /\ MarkAccountTrue(a, t).gen = a.gen
           /\ MarkAccountTrue(a, t).keyPair = a.keyPair
           /\ MarkAccountTrue(a, t).signingKeys = a.signingKeys
           /\ MarkAccountError(a, t, err).gen = a.gen
           /\ MarkOperatorResolved(a).gen = a.gen
           /\ MarkOperatorResolved(a).keyPair = a.keyPair
           /\ MarkOperatorResolveError(a, err).gen = a.gen
           /\ MarkSigningKeysUpdated(a, sks).gen = a.gen
           /\ MarkSigningKeysUpdated(a, sks).keyPair = a.keyPair
           /\ MarkJWTPushFailed(a).gen = a.gen
           /\ MarkSeedSecretError(a, err).gen = a.gen
           /\ \A k : /\ MarkSeedSecretReady(a, k).gen = a.gen
                     /\ MarkSeedSecretReady(a, k).keyPair = k
BY DEF MarkAccountTrue, MarkAccountError, MarkOperatorResolved,
       MarkOperatorResolveError, MarkSigningKeysUpdated, MarkJWTPushFailed,
       MarkSeedSecretError, MarkSeedSecretReady, Accounts

(* No lifecycle method that marks an error leaves Ready True.              *)
LEMMA MarkErrorNotReady ==
    ASSUME NEW a \in Accounts, NEW t \in AccountDependents, NEW err
    PROVE  /\ ~Ready(MarkAccountError(a, t, err))
           /\ ~Ready(MarkSeedSecretError(a, err))
           /\ ~Ready(MarkOperatorResolveError(a, err))
<1>1. ASSUME NEW b \in Accounts, NEW u \in AccountDependents
      PROVE  ~Ready(MarkAccountError(b, u, err))
  <2> DEFINE m == MarkCondition(b.conds, AccountDependents, u, err)
  <2>1. MarkAccountError(b, u, err).conds = m
    BY DEF MarkAccountError, Accounts
  <2>2. ~IsTrue(m[Happy])
    BY DependentFacts, MarkConditionEffect DEF Accounts, AccountConditions
  <2> HIDE DEF m
  <2> QED
    BY <2>1, <2>2 DEF Ready
<1>2. [a EXCEPT !.keyPair = NoKey] \in Accounts /\ [a EXCEPT !.operatorRef = FALSE] \in Accounts
  BY DEF Accounts
<1> QED
  BY <1>1, <1>2, DependentFacts DEF MarkSeedSecretError, MarkOperatorResolveError

(* The claims of a copy are not none.                                      *)
LEMMA ClaimsOfFields ==
    ASSUME NEW a \in Accounts, NEW iss
    PROVE  ClaimsOf(a, iss).iss = iss /\ ClaimsOf(a, iss) # NoClaims
<1>1. ClaimsOf(a, iss).gen = a.gen /\ NoClaims.gen = 0 /\ a.gen # 0
  BY MaxGenAssumption DEF ClaimsOf, NoClaims, Accounts, Gens
<1>2. ClaimsOf(a, iss).iss = iss
  BY DEF ClaimsOf
<1> QED
  BY <1>1, <1>2

(* The seed step: a managed Secret goes on, anything else returns.         *)
LEMMA QuietSeed ==
    ASSUME TypeInv, QuietInv, SeedSecret
    PROVE  QuietInv'
<1>0. obj \in Accounts /\ seed \in SeedSecrets(Keys) /\ queued \in BOOLEAN
  BY DEF TypeInv, TypeOK
<1>1. PICK o \in ReconcileSeedSecret(seed, nextKey) :
        /\ seed' = o.secret
        /\ queued' = (queued \/ o.secret # seed)
        /\ IF o.err # NoError
           THEN Return(MarkSeedSecretError(obj, o.err), AsResult(o.err))
           ELSE IF o.result = Requeue
           THEN Return(MarkSeedSecretReady(obj, o.key), TRUE)
           ELSE Goto("issuer", MarkSeedSecretReady(obj, o.key)) /\ UNCHANGED requeue
  BY DEF SeedSecret
<1>2. UNCHANGED <<acc, cacheFresh, orig, jwt>> /\ pc = "seed"
  BY DEF SeedSecret, server
<1>3. "SeedSecretReady" \in AccountDependents
  BY DEF AccountDependents
<1>4. /\ obj'.gen = obj.gen
      /\ pc' \in {"issuer", "status"}
      /\ pc' = "status" => requeue' \/ ~Ready(obj')
  BY <1>0, <1>1, <1>3, MarkClaims, MarkErrorNotReady DEF Return, Goto
<1>5. pc' = "issuer" => seed' = SeedManaged(obj'.keyPair)
  <2>1. CASE o.err = NoError /\ o.result # Requeue
    <3>1. o.secret = seed /\ seed = SeedManaged(o.key)
      BY <1>0, <2>1, SeedInOrder
    <3>2. obj' = MarkSeedSecretReady(obj, o.key)
      BY <1>1, <2>1 DEF Goto
    <3> QED
      BY <1>0, <1>1, <3>1, <3>2, MarkClaims
  <2>2. CASE ~(o.err = NoError /\ o.result # Requeue)
    BY <1>1, <2>2 DEF Return, Goto
  <2> QED
    BY <2>1, <2>2
<1>6. Settled' => Settled
  BY <1>0, <1>1, <1>2 DEF Settled
<1> QED
  BY <1>2, <1>4, <1>5, <1>6 DEF QuietInv, PastSeed, PastIssuer, Settled, Ready

(* The JWT step: it goes on when the Secret has the wanted claims.         *)
LEMMA QuietJWT ==
    ASSUME TypeInv, QuietInv, JWTSecretStep
    PROVE  QuietInv'
<1>0. /\ obj \in Accounts /\ jwt \in JWTSecrets(Claims) /\ queued \in BOOLEAN
      /\ pc = "jwt" => obj.keyPair \in Keys /\ signer \in IssuerKeys
  BY DEF TypeInv, TypeOK, PastSeed, PastIssuer
<1> DEFINE want == ClaimsOf(obj, signer)
<1>1. PICK o \in ReconcileJWTSecret(jwt, want) :
        /\ jwt' = o.secret
        /\ queued' = (queued \/ o.secret # jwt)
        /\ IF o.err # NoError
           THEN Return(MarkAccountError(obj, "JWTSecretReady", o.err), AsResult(o.err))
           ELSE IF o.result = Requeue
           THEN Return(MarkAccountTrue(obj, "JWTSecretReady"), TRUE)
           ELSE Goto("push", MarkAccountTrue(obj, "JWTSecretReady")) /\ UNCHANGED requeue
  BY DEF JWTSecretStep
<1>2. UNCHANGED <<acc, cacheFresh, orig, signer, seed>> /\ pc = "jwt"
  BY DEF JWTSecretStep, server
<1>3. "JWTSecretReady" \in AccountDependents
  BY DEF AccountDependents
<1>4. /\ obj'.gen = obj.gen
      /\ pc' \in {"push", "status"}
      /\ pc' = "status" => requeue' \/ ~Ready(obj')
  BY <1>0, <1>1, <1>3, MarkClaims, MarkErrorNotReady DEF Return, Goto
<1>5. pc' = "push" => /\ obj' = MarkAccountTrue(obj, "JWTSecretReady")
                      /\ o.err = NoError /\ o.result # Requeue
  BY <1>1 DEF Return, Goto
<1>6. want # NoClaims
  BY <1>0, ClaimsOfFields
<1>7. pc' = "push" => jwt' = JWTSecret("present", TRUE, ClaimsOf(obj', signer))
  <2> SUFFICES ASSUME pc' = "push"
               PROVE  jwt' = JWTSecret("present", TRUE, ClaimsOf(obj', signer))
    OBVIOUS
  <2>1. jwt' = jwt /\ jwt.claims = want /\ jwt.kind = "present"
    BY <1>0, <1>1, <1>5, JWTInOrder
  <2>2. jwt.owned
    BY <1>6, <2>1 DEF QuietInv
  <2>3. jwt = JWTSecret("present", TRUE, want)
    <3>1. jwt \in [kind : {"present"}, owned : BOOLEAN, claims : Claims \cup {NoClaims}]
      <4>1. /\ JWTAbsent.claims = NoClaims
            /\ \A kind, owned : JWTSecret(kind, owned, NoClaims).claims = NoClaims
        BY DEF JWTSecret, JWTAbsent
      <4> QED
        BY <1>0, <1>6, <2>1, <4>1 DEF JWTSecrets
    <3> HIDE DEF want
    <3> QED
      BY <2>1, <2>2, <3>1 DEF JWTSecret
  <2>4. ClaimsOf(obj', signer) = want
    BY <1>0, <1>5, MarkClaims DEF ClaimsOf
  <2> QED
    BY <2>1, <2>3, <2>4
<1>8. jwt'.claims # NoClaims => jwt'.owned
  <2>1. jwt' \in {jwt, JWTAbsent, JWTSecret("present", TRUE, want)}
    BY <1>1, JWTOutcomes
  <2>2. JWTAbsent.claims = NoClaims /\ JWTSecret("present", TRUE, want).owned
    BY DEF JWTAbsent, JWTSecret
  <2> QED
    BY <2>1, <2>2 DEF QuietInv
<1>9. pc' \in PastSeed => obj'.keyPair = obj.keyPair
  BY <1>0, <1>4, <1>5, MarkClaims DEF PastSeed, PastIssuer
<1>10. Settled' => Settled
  BY <1>0, <1>1, <1>2 DEF Settled
<1> HIDE DEF want
<1> QED
  BY <1>2, <1>4, <1>7, <1>8, <1>9, <1>10 DEF QuietInv, PastSeed, PastIssuer, Settled, Ready

(* The push: NATS has the claims that are in the JWT Secret, or the step   *)
(* asks for another try.                                                   *)
LEMMA QuietPush ==
    ASSUME TypeInv, QuietInv, EnsureJWTPushed
    PROVE  QuietInv'
<1>0. /\ obj \in Accounts /\ nats \in [Keys -> Claims \cup {NoClaims}]
      /\ pc = "push" => obj.keyPair \in Keys
  BY DEF TypeInv, TypeOK, PastSeed, PastIssuer
<1>1. /\ pc = "push" /\ pc' = "status"
      /\ UNCHANGED <<acc, cacheFresh, queued, orig, signer, seed, jwt>>
      /\ \/ requeue' = TRUE /\ obj' = MarkJWTPushFailed(obj)
         \/ /\ obj' = MarkAccountTrue(obj, "JWTPushed")
            /\ nats' = [nats EXCEPT ![ClaimsOf(obj, signer).key] = ClaimsOf(obj, signer)]
  BY DEF EnsureJWTPushed, Push, Return, Goto, server
<1>2. obj'.gen = obj.gen
  <2>1. obj' \in {MarkJWTPushFailed(obj), MarkAccountTrue(obj, "JWTPushed")}
    BY <1>1
  <2> QED
    BY <1>0, <2>1, MarkClaims
<1>3. ASSUME Settled', ~requeue'
      PROVE  Right(obj)'
  <2>1. /\ seed = SeedManaged(obj.keyPair)
        /\ jwt = JWTSecret("present", TRUE, ClaimsOf(obj, signer))
    BY <1>1, <1>3 DEF QuietInv, Settled, PastSeed, PastIssuer
  <2>2. /\ obj'.keyPair = obj.keyPair
        /\ ClaimsOf(obj', signer) = ClaimsOf(obj, signer)
    BY <1>0, <1>1, <1>3, MarkClaims DEF ClaimsOf
  <2>3. ClaimsOf(obj, signer).key = obj.keyPair /\ ClaimsOf(obj, signer).iss = signer
    BY DEF ClaimsOf
  <2>4. jwt.claims = ClaimsOf(obj, signer)
    BY <2>1 DEF JWTSecret
  <2>5. nats'[obj.keyPair] = ClaimsOf(obj, signer)
    BY <1>0, <1>1, <1>3, <2>3
  <2> QED
    BY <1>1, <2>1, <2>2, <2>3, <2>4, <2>5 DEF Right
<1> QED
  BY <1>1, <1>2, <1>3 DEF QuietInv, Settled, PastSeed, PastIssuer

(* The status: a settled reconcile that leaves it as it was, and asks for  *)
(* no other, leaves the stored Account as right as its copy.               *)
LEMMA QuietStatus ==
    ASSUME TypeInv, QuietInv, UpdateStatus
    PROVE  QuietInv'
<1>0. requeue \in BOOLEAN /\ queued \in BOOLEAN
  BY DEF TypeInv, TypeOK
<1>1. /\ pc = "status" /\ pc' = "idle" /\ UNCHANGED <<seed, jwt, nats>>
      /\ cacheFresh' => UNCHANGED <<acc, cacheFresh>>
      /\ Settled' => ~queued /\ ~requeue /\ Status(obj) = Status(orig)
  BY <1>0 DEF UpdateStatus, Settled, server, cluster
<1>2. ASSUME Settled', acc'.exists, ~acc'.deleting, Ready(acc')
      PROVE  Right(acc)'
  <2>1. acc' = acc /\ Settled
    BY <1>1, <1>2 DEF Settled
  <2>2. /\ orig = acc /\ obj.gen = acc.gen
        /\ obj.conds = acc.conds /\ obj.keyPair = acc.keyPair
        /\ obj.signingKeys = acc.signingKeys
    BY <1>1, <1>2, <2>1 DEF QuietInv, Status
  <2>3. Right(obj)
    BY <1>1, <1>2, <2>1, <2>2 DEF QuietInv, Ready
  <2>4. Right(acc)
    BY <2>2, <2>3 DEF Right, ClaimsOf
  <2> QED
    BY <1>1, <2>1, <2>4 DEF Right
<1> QED
  BY <1>1, <1>2 DEF QuietInv, PastSeed, PastIssuer

(* The steps of the reconcile.                                             *)
LEMMA QuietReconcile ==
    ASSUME TypeInv, FreshInv, QuietInv, ReconcileLive
    PROVE  QuietInv'
<1>0. obj \in Accounts /\ cached \in Accounts
  BY DEF TypeInv, TypeOK
<1>1. CASE StartReconcile
  <2>1. UNCHANGED <<server, seed, jwt, nats>> /\ pc = "idle" /\ queued' = FALSE
    BY <1>1 DEF StartReconcile, cluster
  <2>2. CASE cached.exists
    <3>1. pc' = FirstStep(cached) /\ orig' = cached /\ obj'.gen = cached.gen
      BY <1>0, <1>1, <2>2 DEF StartReconcile, Goto, Accounts
    <3>2. /\ pc' \notin PastSeed \cup {"idle"}
          /\ pc' = "status" => cached.deleting
      BY <3>1 DEF FirstStep, PastSeed, PastIssuer
    <3> QED
      BY <2>1, <3>1, <3>2 DEF QuietInv, FreshInv, Settled, server, PastSeed, PastIssuer
  <2>3. CASE ~cached.exists
    <3>1. pc' = "idle"
      BY <1>1, <2>3 DEF StartReconcile, local
    <3>2. Settled' => ~acc'.exists
      BY <2>1, <2>3 DEF FreshInv, Settled, server
    <3> QED
      BY <2>1, <3>1, <3>2 DEF QuietInv, PastSeed, PastIssuer
  <2> QED
    BY <2>2, <2>3
<1>2. CASE AddFinalizer \/ (ReconcileLabels /\ ~obj.label)
  BY <1>2, QuietUpdate DEF AddFinalizer, ReconcileLabels, cluster
<1>3. CASE ReconcileLabels /\ obj.label
  BY <1>3, QuietPasses DEF ReconcileLabels, Goto, cluster, PastSeed, PastIssuer
<1>4. CASE SeedSecret
  BY <1>4, QuietSeed
<1>5. CASE IssuerAndOperator
  <2>1. /\ UNCHANGED <<server, queued, orig, seed, jwt>> /\ pc = "issuer"
        /\ \/ Goto("labels", MarkOperatorResolved(obj))
           \/ \E e : Goto("status", MarkAccountError(obj, "IssuerResolved", e))
           \/ \E e : Goto("status", MarkOperatorResolveError(obj, e))
    BY <1>5 DEF IssuerAndOperator, Return, cluster
  <2>2. "IssuerResolved" \in AccountDependents
    BY DEF AccountDependents
  <2>3. /\ obj'.gen = obj.gen
        /\ pc' \in {"labels", "status"}
        /\ pc' = "labels" => obj'.keyPair = obj.keyPair
        /\ pc' = "status" => ~Ready(obj')
    BY <1>0, <2>1, <2>2, MarkClaims, MarkErrorNotReady DEF Goto
  <2> QED
    BY <2>1, <2>3, QuietPasses DEF PastSeed, PastIssuer
<1>6. CASE EnsureSigningKeysUpdated
  <2>1. /\ UNCHANGED <<server, queued, orig, seed, jwt>> /\ pc = "signingKeys"
        /\ \/ Goto("issuerSeed", MarkSigningKeysUpdated(obj, env.sks))
           \/ Goto("status", obj) /\ requeue' = TRUE
    BY <1>6 DEF EnsureSigningKeysUpdated, Return, cluster
  <2>2. /\ obj'.gen = obj.gen
        /\ pc' \in {"issuerSeed", "status"}
        /\ pc' = "issuerSeed" => obj'.keyPair = obj.keyPair
        /\ pc' = "status" => requeue'
    BY <1>0, <2>1, MarkClaims DEF Goto
  <2> QED
    BY <2>1, <2>2, QuietPasses DEF PastSeed, PastIssuer
<1>7. CASE LoadIssuerSeed
  <2>1. /\ UNCHANGED <<server, queued, orig, seed, jwt>> /\ pc = "issuerSeed"
        /\ \/ Goto("jwt", MarkAccountTrue(obj, "IssuerResolved"))
           \/ \E e : Goto("status", MarkAccountError(obj, "IssuerResolved", e))
    BY <1>7 DEF LoadIssuerSeed, Return, cluster
  <2>2. "IssuerResolved" \in AccountDependents
    BY DEF AccountDependents
  <2>3. /\ obj'.gen = obj.gen
        /\ pc' \in {"jwt", "status"}
        /\ pc' = "jwt" => obj'.keyPair = obj.keyPair
        /\ pc' = "status" => ~Ready(obj')
    BY <1>0, <2>1, <2>2, MarkClaims, MarkErrorNotReady DEF Goto
  <2> QED
    BY <2>1, <2>3, QuietPasses DEF PastSeed, PastIssuer
<1>8. CASE JWTSecretStep
  BY <1>8, QuietJWT
<1>9. CASE EnsureJWTPushed
  BY <1>9, QuietPush
<1>10. CASE UpdateStatus
  BY <1>10, QuietStatus
<1> QED
  BY <1>1, <1>2, <1>3, <1>4, <1>5, <1>6, <1>7, <1>8, <1>9, <1>10 DEF ReconcileLive

(* What users do to the Secrets, and to whatever is not looked at here.    *)
LEMMA QuietTampering ==
    ASSUME "unownedJWT" \notin Hazards, TypeInv, QuietInv,
           Resync \/ DeleteSeed \/ TamperJWT \/ EnvironmentChange \/ UNCHANGED vars
    PROVE  QuietInv'
<1>0. jwt \in JWTSecrets(Claims) /\ queued \in BOOLEAN
  BY DEF TypeInv, TypeOK
<1>1. UNCHANGED <<acc, cacheFresh, pc, obj, orig, requeue, signer, nats>>
  BY DEF Resync, DeleteSeed, TamperJWT, EnvironmentChange, ChangeIssuer,
     ChangeIssuerSeed, PublishIssuerKey, ChangeSelectors, ChangeSigningKeys,
     ChangeOperator, ChangeSystemAccount, vars, server, local, cluster
<1>2. Settled' => Settled
  <2>1. queued => queued'
    BY <1>0 DEF Resync, DeleteSeed, TamperJWT, EnvironmentChange, ChangeIssuer,
       ChangeIssuerSeed, PublishIssuerKey, ChangeSelectors, ChangeSigningKeys,
       ChangeOperator, ChangeSystemAccount, OwnedSecretWatcher,
       AccountOperatorWatcher, AccountSigningKeyWatcher, vars
  <2> QED
    BY <1>1, <2>1 DEF Settled
<1>3. CASE DeleteSeed
  <2>1. jwt' = jwt /\ (Settled' => ~seed.managed)
    BY <1>0, <1>3 DEF DeleteSeed, OwnedSecretWatcher, Settled
  <2>2. \A k : SeedManaged(k).managed
    BY DEF SeedManaged
  <2> QED
    BY <1>1, <1>2, <2>1, <2>2 DEF QuietInv, Right
<1>4. CASE TamperJWT
  <2>1. PICK next \in TamperedJWTSecrets(jwt) :
          Disturb(TamperingWith(next)) /\ jwt' = next /\ OwnedSecretWatcher(jwt.owned)
    BY <1>4 DEF TamperJWT
  <2>2. jwt'.claims = NoClaims
    BY <1>0, <2>1, TamperedFacts DEF Disturb
  <2>3. seed' = seed /\ (Settled' => ~jwt.owned)
    BY <1>0, <1>4, <2>1 DEF TamperJWT, OwnedSecretWatcher, Settled
  <2>4. \A c : JWTSecret("present", TRUE, c).owned
    BY DEF JWTSecret
  <2> QED
    BY <1>1, <1>2, <2>2, <2>3, <2>4 DEF QuietInv, Right
<1>5. CASE Resync \/ EnvironmentChange \/ UNCHANGED vars
  <2>1. UNCHANGED <<seed, jwt>>
    BY <1>5 DEF Resync, EnvironmentChange, ChangeIssuer, ChangeIssuerSeed,
       PublishIssuerKey, ChangeSelectors, ChangeSigningKeys, ChangeOperator,
       ChangeSystemAccount, vars, cluster
  <2> QED
    BY <1>1, <1>2, <2>1 DEF QuietInv, Right
<1> QED
  BY <1>3, <1>4, <1>5

(* Every step keeps QuietInv.                                              *)
LEMMA QuietNext ==
    ASSUME "unownedJWT" \notin Hazards, TypeInv, FreshInv, QuietInv, [Next]_vars
    PROVE  QuietInv'
<1>1. CASE ReconcileLive
  BY <1>1, QuietReconcile
<1>2. CASE SkipFinalization \/ FinalizationFails \/ DeletePushedJWT
  <2>1. /\ UNCHANGED <<server, queued, orig, seed, jwt>> /\ pc = "finalize"
        /\ obj' \in {obj, MarkJWTPushFailed(obj)}
        /\ \/ pc' = "removeFinalizer"
           \/ pc' = "status" /\ requeue' = TRUE
    BY <1>2 DEF SkipFinalization, FinalizationFails, DeletePushedJWT, Return, Goto, cluster
  <2>2. obj'.gen = obj.gen
    BY <2>1, MarkClaims DEF TypeInv, TypeOK
  <2> QED
    BY <2>1, <2>2, QuietPasses DEF PastSeed, PastIssuer
<1>3. CASE RemoveFinalizer
  BY <1>3, QuietUpdate DEF RemoveFinalizer, cluster
<1>4. CASE PanicInFinalize \/ Crash
  <2>1. Restart
    BY <1>4 DEF PanicInFinalize, Crash
  <2>2. Settled' => ~acc'.exists
    BY <2>1, ListedAccount DEF Restart, Settled, FreshInv
  <2> QED
    BY <2>1, <2>2 DEF Restart, QuietInv, cluster, PastSeed, PastIssuer
<1>5. CASE CacheSync \/ EditSpec \/ DeleteAccount
  <2>1. ~Settled' /\ jwt' = jwt
    BY <1>5 DEF CacheSync, EditSpec, DeleteAccount, ForeignWrite, Settled, cluster
  <2> QED
    BY <2>1 DEF QuietInv
<1>6. CASE Resync \/ DeleteSeed \/ TamperJWT \/ EnvironmentChange \/ UNCHANGED vars
  BY <1>6, QuietTampering
<1> QED
  BY <1>1, <1>2, <1>3, <1>4, <1>5, <1>6 DEF Next, Reconcile, Finalize, Disturbance

(* An Account that is Ready and left alone is published as its stored spec *)
(* and SigningKeys say: no interleaving of faults, crashes, old lists,     *)
(* edits, new issuer keys and tampering leaves the wrong claims on NATS    *)
(* with an empty queue.  The assumption leaves out a copy of the JWT       *)
(* Secret that nobody owns.                                                *)
THEOREM QuietReadyIsAlwaysPublished ==
    ASSUME "unownedJWT" \notin Hazards
    PROVE  Spec => []QuietReadyIsPublished
<1>1. QuietInv => QuietReadyIsPublished
  <2> SUFFICES ASSUME QuietInv, Quiet, acc.exists, ~acc.deleting, IsTrue(acc.conds[Happy])
               PROVE  /\ seed.key = acc.keyPair
                      /\ jwt.claims = ClaimsOf(acc, jwt.claims.iss)
                      /\ nats[acc.keyPair] = jwt.claims
    BY DEF QuietReadyIsPublished
  <2>1. Right(acc)
    BY DEF QuietInv, Quiet, Settled, Ready
  <2>2. seed.key = acc.keyPair
    BY <2>1 DEF Right, SeedManaged
  <2>3. jwt.claims = ClaimsOf(acc, jwt.claims.iss)
    BY <2>1 DEF Right, JWTSecret
  <2> QED
    BY <2>1, <2>2, <2>3 DEF Right
<1>2. Init => FreshInv /\ QuietInv
  BY DEF Init, InitAccount, FreshInv, QuietInv, Settled, JWTAbsent, JWTSecret,
     PastSeed, PastIssuer
<1>3. TypeInv /\ FreshInv /\ QuietInv /\ [Next]_vars => QuietInv'
  BY QuietNext
<1> QED
  BY <1>1, <1>2, <1>3, TypeInvInit, TypeInvNext, FreshNext, PTL DEF Spec
=============================================================================
