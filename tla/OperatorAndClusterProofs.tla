---------------------- MODULE OperatorAndClusterProofs ----------------------
(***************************************************************************)
(* Safety of the Operator reconciler for every number of generations, keys *)
(* and disturbances, every set of SigningKeys and every set of hazards.    *)
(***************************************************************************)
EXTENDS OperatorAndCluster, ControllerRuntimeProofs

(***************************************************************************)
(* What the lifecycle methods do to a copy of the Operator.                *)
(***************************************************************************)

(* v is the Operator u with another status.                                *)
SameMeta(u, v) == v \in Operators /\ v.exists = u.exists /\ v.gen = u.gen

(* v has the key pair, the system account and the signing keys of u.       *)
SameFields(u, v) ==
    /\ v.status.keyPair = u.status.keyPair
    /\ v.status.sys = u.status.sys
    /\ v.status.signingKeys = u.status.signingKeys

Ready(u) == IsTrue(u.status.conds[Happy])

(* OperatorHasReferences of any copy of the Operator.  Ready asks for      *)
(* both: under it, InitializeConditions makes True what is missing.        *)
References(u) ==
    /\ IsTrue(u.status.conds["SeedSecretReady"]) => u.status.keyPair # NoKey
    /\ IsTrue(u.status.conds["SystemAccountResolved"]) => u.status.sys # NoKey
    /\ Ready(u) => u.status.keyPair # NoKey /\ u.status.sys # NoKey

(* v is u with another status, of which the references are as good.        *)
Keeps(u, v) == SameMeta(u, v) /\ (References(u) => References(v))

(* The condition types of an Operator.                                     *)
LEMMA DependentFacts ==
    /\ Happy \notin OperatorDependents
    /\ Happy \in OperatorTypes
    /\ OperatorDependents \in SUBSET OperatorTypes
    /\ \A t \in {"SeedSecretReady", "SystemAccountResolved", "SigningKeysUpdated",
                 "JWTSecretReady"} : t \in OperatorDependents
BY DEF OperatorDependents, OperatorTypes, Happy

(* The bounds, as numbers.                                                 *)
LEMMA OperatorBounds ==
    /\ MaxGen \in Nat \ {0}
    /\ MaxKeys \in Nat \ {0}
    /\ NoKey \notin Keys
BY MaxGenAssumption, MaxKeysAssumption DEF Keys, NoKey

(* A status is replaced, and nothing else.                                 *)
LEMMA ReplaceStatus ==
    ASSUME NEW u \in Operators, NEW s \in OperatorStatuses
    PROVE  /\ SameMeta(u, [u EXCEPT !.status = s])
           /\ [u EXCEPT !.status = s].status = s
BY DEF SameMeta, Operators

(* The conditions of a status are replaced.                                *)
LEMMA ReplaceConditions ==
    ASSUME NEW u \in Operators, NEW c \in ConditionLists(OperatorTypes)
    PROVE  LET v == [u EXCEPT !.status.conds = c]
           IN  /\ SameMeta(u, v)
               /\ SameFields(u, v)
               /\ v.status.conds = c
<1> DEFINE s == [u.status EXCEPT !.conds = c]
<1>1. u.status \in OperatorStatuses
  BY DEF Operators
<1>2. /\ s \in OperatorStatuses /\ s.conds = c
      /\ s.keyPair = u.status.keyPair /\ s.sys = u.status.sys
      /\ s.signingKeys = u.status.signingKeys
  BY <1>1 DEF OperatorStatuses
<1>3. [u EXCEPT !.status.conds = c] = [u EXCEPT !.status = s]
  OBVIOUS
<1> HIDE DEF s
<1> QED
  BY <1>2, <1>3, ReplaceStatus DEF SameFields

(* The key pair of a status is replaced.                                   *)
LEMMA ReplaceKeyPair ==
    ASSUME NEW u \in Operators, NEW k \in Keys \cup {NoKey}
    PROVE  LET v == [u EXCEPT !.status.keyPair = k]
           IN  /\ SameMeta(u, v)
               /\ v.status.conds = u.status.conds
               /\ v.status.keyPair = k
               /\ v.status.sys = u.status.sys
               /\ v.status.signingKeys = u.status.signingKeys
<1> DEFINE s == [u.status EXCEPT !.keyPair = k]
<1>1. u.status \in OperatorStatuses
  BY DEF Operators
<1>2. /\ s \in OperatorStatuses /\ s.conds = u.status.conds
      /\ s.keyPair = k /\ s.sys = u.status.sys
      /\ s.signingKeys = u.status.signingKeys
  BY <1>1 DEF OperatorStatuses
<1>3. [u EXCEPT !.status.keyPair = k] = [u EXCEPT !.status = s]
  OBVIOUS
<1> HIDE DEF s
<1> QED
  BY <1>2, <1>3, ReplaceStatus

(* The resolved system account of a status is replaced.                    *)
LEMMA ReplaceSystemAccount ==
    ASSUME NEW u \in Operators, NEW k \in Keys \cup {NoKey}
    PROVE  LET v == [u EXCEPT !.status.sys = k]
           IN  /\ SameMeta(u, v)
               /\ v.status.conds = u.status.conds
               /\ v.status.keyPair = u.status.keyPair
               /\ v.status.sys = k
               /\ v.status.signingKeys = u.status.signingKeys
<1> DEFINE s == [u.status EXCEPT !.sys = k]
<1>1. u.status \in OperatorStatuses
  BY DEF Operators
<1>2. /\ s \in OperatorStatuses /\ s.conds = u.status.conds
      /\ s.keyPair = u.status.keyPair /\ s.sys = k
      /\ s.signingKeys = u.status.signingKeys
  BY <1>1 DEF OperatorStatuses
<1>3. [u EXCEPT !.status.sys = k] = [u EXCEPT !.status = s]
  OBVIOUS
<1> HIDE DEF s
<1> QED
  BY <1>2, <1>3, ReplaceStatus

(* The signing keys of a status are replaced.                              *)
LEMMA ReplaceSigningKeys ==
    ASSUME NEW u \in Operators, NEW keys \in SUBSET SKs
    PROVE  LET v == [u EXCEPT !.status.signingKeys = keys]
           IN  /\ SameMeta(u, v)
               /\ v.status.conds = u.status.conds
               /\ v.status.keyPair = u.status.keyPair
               /\ v.status.sys = u.status.sys
               /\ v.status.signingKeys = keys
<1> DEFINE s == [u.status EXCEPT !.signingKeys = keys]
<1>1. u.status \in OperatorStatuses
  BY DEF Operators
<1>2. /\ s \in OperatorStatuses /\ s.conds = u.status.conds
      /\ s.keyPair = u.status.keyPair /\ s.sys = u.status.sys
      /\ s.signingKeys = keys
  BY <1>1 DEF OperatorStatuses
<1>3. [u EXCEPT !.status.signingKeys = keys] = [u EXCEPT !.status = s]
  OBVIOUS
<1> HIDE DEF s
<1> QED
  BY <1>2, <1>3, ReplaceStatus

(* Operators are a kind of resource in the sense of the runtime's lemmas.  *)
LEMMA OperatorsAreAKind == IsKind(Operators, OperatorStatuses, OperatorDependents)
<1>1. \A r \in Operators : r.exists \in BOOLEAN /\ r.status \in OperatorStatuses
  BY DEF Operators
<1>2. \A r \in Operators, s \in OperatorStatuses : [r EXCEPT !.status = s] \in Operators
  BY ReplaceStatus DEF SameMeta
<1>3. ASSUME NEW r \in Operators
      PROVE  [r EXCEPT !.status.conds = InitializeConditions(@, OperatorDependents)]
                 \in Operators
  <2>1. r.status.conds \in ConditionLists(OperatorTypes)
    BY DEF Operators, OperatorStatuses
  <2>2. InitializeConditions(r.status.conds, OperatorDependents)
            \in ConditionLists(OperatorTypes)
    BY <2>1, InitializeConditionsType, DependentFacts
  <2> QED
    BY <2>2, ReplaceConditions DEF SameMeta
<1> QED
  BY <1>1, <1>2, <1>3 DEF IsKind

(* A condition is marked True on a copy b of u, in which the reference     *)
(* that the condition is about may have been set.                          *)
LEMMA MarkOperatorTrueEffect ==
    ASSUME NEW u, NEW b \in Operators, NEW t \in OperatorDependents,
           SameMeta(u, b), b.status.conds = u.status.conds,
           \/ t = "SeedSecretReady" /\ b.status.keyPair # NoKey
           \/ t # "SeedSecretReady" /\ b.status.keyPair = u.status.keyPair,
           \/ t = "SystemAccountResolved" /\ b.status.sys # NoKey
           \/ t # "SystemAccountResolved" /\ b.status.sys = u.status.sys
    PROVE  LET v == MarkOperatorTrue(b, t)
           IN  Keeps(u, v) /\ SameFields(b, v)
<1> DEFINE c == MarkTrue(b.status.conds, OperatorDependents, t)
           v == MarkOperatorTrue(b, t)
<1>1. b.status.conds \in ConditionLists(OperatorTypes)
  BY DEF Operators, OperatorStatuses
<1>2. c \in ConditionLists(OperatorTypes)
  BY <1>1, MarkTrueType, DependentFacts
<1>3. /\ \A d \in OperatorDependents \ {t} : c[d] = b.status.conds[d]
      /\ IsTrue(c[Happy]) => \A d \in OperatorDependents : IsTrue(c[d])
  BY <1>1, MarkTrueEffect, DependentFacts
<1>4. v = [b EXCEPT !.status.conds = c]
  BY DEF MarkOperatorTrue
<1> HIDE DEF c
<1>5. SameMeta(b, v) /\ SameFields(b, v) /\ v.status.conds = c
  BY <1>2, <1>4, ReplaceConditions
<1> HIDE DEF v
<1>6. Keeps(u, v)
  BY <1>3, <1>5, DependentFacts DEF Keeps, References, Ready, SameMeta, SameFields
<1> QED
  BY <1>5, <1>6 DEF v

(* A condition is marked for an error on a copy b of u, in which the       *)
(* reference that the condition is about may have been dropped.            *)
LEMMA MarkOperatorErrorEffect ==
    ASSUME NEW u, NEW b \in Operators, NEW t \in OperatorDependents, NEW err,
           SameMeta(u, b), b.status.conds = u.status.conds,
           t = "SeedSecretReady" \/ b.status.keyPair = u.status.keyPair,
           t = "SystemAccountResolved" \/ b.status.sys = u.status.sys
    PROVE  LET v == MarkOperatorError(b, t, err)
           IN  Keeps(u, v) /\ SameFields(b, v) /\ ~Ready(v)
<1> DEFINE c == MarkCondition(b.status.conds, OperatorDependents, t, err)
           v == MarkOperatorError(b, t, err)
<1>1. b.status.conds \in ConditionLists(OperatorTypes)
  BY DEF Operators, OperatorStatuses
<1>2. c \in ConditionLists(OperatorTypes)
  BY <1>1, MarkConditionType, DependentFacts
<1>3. /\ \A d \in OperatorDependents \ {t} : c[d] = b.status.conds[d]
      /\ ~IsTrue(c[t]) /\ ~IsTrue(c[Happy])
  BY <1>1, MarkConditionEffect, DependentFacts
<1>4. v = [b EXCEPT !.status.conds = c]
  BY DEF MarkOperatorError
<1> HIDE DEF c
<1>5. SameMeta(b, v) /\ SameFields(b, v) /\ v.status.conds = c
  BY <1>2, <1>4, ReplaceConditions
<1> HIDE DEF v
<1>6. Keeps(u, v) /\ ~Ready(v)
  BY <1>3, <1>5, DependentFacts DEF Keeps, References, Ready, SameMeta, SameFields
<1> QED
  BY <1>5, <1>6 DEF v

(* MarkSeedSecretReady and MarkSeedSecretError.                            *)
LEMMA MarkSeedSecretEffects ==
    ASSUME NEW u \in Operators, NEW err
    PROVE  /\ \A k \in Keys : LET v == MarkSeedSecretReady(u, k)
                              IN  Keeps(u, v) /\ v.status.keyPair = k
           /\ LET v == MarkSeedSecretError(u, err)
              IN  Keeps(u, v) /\ ~Ready(v)
<1>1. ASSUME NEW k \in Keys
      PROVE  LET v == MarkSeedSecretReady(u, k)
             IN  Keeps(u, v) /\ v.status.keyPair = k
  <2> DEFINE b == [u EXCEPT !.status.keyPair = k]
  <2>1. /\ b \in Operators /\ SameMeta(u, b)
        /\ b.status.conds = u.status.conds
        /\ b.status.keyPair = k /\ k # NoKey
        /\ b.status.sys = u.status.sys
    BY <1>1, ReplaceKeyPair, OperatorBounds DEF SameMeta
  <2>2. MarkSeedSecretReady(u, k) = MarkOperatorTrue(b, "SeedSecretReady")
    BY DEF MarkSeedSecretReady
  <2> HIDE DEF b
  <2> QED
    BY <2>1, <2>2, MarkOperatorTrueEffect, DependentFacts DEF SameFields
<1>2. LET v == MarkSeedSecretError(u, err)
      IN  Keeps(u, v) /\ ~Ready(v)
  <2> DEFINE b == [u EXCEPT !.status.keyPair = NoKey]
  <2>1. /\ b \in Operators /\ SameMeta(u, b)
        /\ b.status.conds = u.status.conds
        /\ b.status.sys = u.status.sys
    BY ReplaceKeyPair DEF SameMeta
  <2>2. MarkSeedSecretError(u, err) = MarkOperatorError(b, "SeedSecretReady", err)
    BY DEF MarkSeedSecretError
  <2> HIDE DEF b
  <2> QED
    BY <2>1, <2>2, MarkOperatorErrorEffect, DependentFacts
<1> QED
  BY <1>1, <1>2

(* MarkSystemAccountResolved and MarkSystemAccountResolveError.            *)
LEMMA MarkSystemAccountEffects ==
    ASSUME NEW u \in Operators, NEW err
    PROVE  /\ \A k \in Keys :
                LET v == MarkSystemAccountResolved(u, k)
                IN  /\ Keeps(u, v) /\ v.status.sys = k
                    /\ v.status.keyPair = u.status.keyPair
           /\ LET v == MarkSystemAccountResolveError(u, err)
              IN  Keeps(u, v) /\ ~Ready(v)
<1>1. ASSUME NEW k \in Keys
      PROVE  LET v == MarkSystemAccountResolved(u, k)
             IN  /\ Keeps(u, v) /\ v.status.sys = k
                 /\ v.status.keyPair = u.status.keyPair
  <2> DEFINE b == [u EXCEPT !.status.sys = k]
  <2>1. /\ b \in Operators /\ SameMeta(u, b)
        /\ b.status.conds = u.status.conds
        /\ b.status.sys = k /\ k # NoKey
        /\ b.status.keyPair = u.status.keyPair
    BY <1>1, ReplaceSystemAccount, OperatorBounds DEF SameMeta
  <2>2. MarkSystemAccountResolved(u, k) = MarkOperatorTrue(b, "SystemAccountResolved")
    BY DEF MarkSystemAccountResolved
  <2> HIDE DEF b
  <2> QED
    BY <2>1, <2>2, MarkOperatorTrueEffect, DependentFacts DEF SameFields
<1>2. LET v == MarkSystemAccountResolveError(u, err)
      IN  Keeps(u, v) /\ ~Ready(v)
  <2> DEFINE b == [u EXCEPT !.status.sys = NoKey]
  <2>1. /\ b \in Operators /\ SameMeta(u, b)
        /\ b.status.conds = u.status.conds
        /\ b.status.keyPair = u.status.keyPair
    BY ReplaceSystemAccount DEF SameMeta
  <2>2. MarkSystemAccountResolveError(u, err)
            = MarkOperatorError(b, "SystemAccountResolved", err)
    BY DEF MarkSystemAccountResolveError
  <2> HIDE DEF b
  <2> QED
    BY <2>1, <2>2, MarkOperatorErrorEffect, DependentFacts
<1> QED
  BY <1>1, <1>2

(* MarkSigningKeysUpdated.                                                 *)
LEMMA MarkSigningKeysEffect ==
    ASSUME NEW u \in Operators, NEW keys \in SUBSET SKs
    PROVE  LET v == MarkSigningKeysUpdated(u, keys)
           IN  /\ Keeps(u, v)
               /\ v.status.keyPair = u.status.keyPair
               /\ v.status.sys = u.status.sys
               /\ v.status.signingKeys = keys
<1> DEFINE b == [u EXCEPT !.status.signingKeys = keys]
<1>1. /\ b \in Operators /\ SameMeta(u, b)
      /\ b.status.conds = u.status.conds
      /\ b.status.keyPair = u.status.keyPair
      /\ b.status.sys = u.status.sys
      /\ b.status.signingKeys = keys
  BY ReplaceSigningKeys DEF SameMeta
<1>2. MarkSigningKeysUpdated(u, keys) = MarkOperatorTrue(b, "SigningKeysUpdated")
  BY DEF MarkSigningKeysUpdated
<1> HIDE DEF b
<1> QED
  BY <1>1, <1>2, MarkOperatorTrueEffect, DependentFacts DEF SameFields

(***************************************************************************)
(* Type correctness.  TypeOK is not inductive: a key must be left whenever *)
(* the seed Secret is gone, an Account that says it has a key pair has     *)
(* one, and the copy has its key pair and its system account in the steps  *)
(* that come after theirs, where the claims are made of them.              *)
(***************************************************************************)

PastAccount == {"signingKeys", "jwt"}

PastSeed == {"systemAccount"} \cup PastAccount

TypeInv ==
    /\ RuntimeInv(Operators, Steps)
    /\ seed \in SeedSecrets(Keys)
    /\ nextKey \in 1 .. MaxKeys + 1
    /\ seed.kind = "absent" => nextKey \in Keys
    /\ jwt \in JWTSecrets(OperatorJWTs)
    /\ sks \in SUBSET SKs
    /\ sysAcc \in SystemAccounts
    /\ IsTrue(sysAcc.conds["SeedSecretReady"]) => sysAcc.keyPair \in Keys
    /\ pc \in PastSeed => obj.status.keyPair \in Keys
    /\ pc \in PastAccount => obj.status.sys \in Keys

(***************************************************************************)
(* The effect of each step of the reconcile.  Every step but the last goes *)
(* on or returns; what it returns with is retried or leaves the Operator   *)
(* other than Ready.                                                       *)
(***************************************************************************)

Moves(step) ==
    /\ UNCHANGED <<server, objFresh, orig>>
    /\ pc' \in {step, "status"}
    /\ Keeps(obj, obj')
    /\ requeue' \in BOOLEAN
    /\ queued' \in BOOLEAN
    /\ budget' \in 0 .. MaxDisturbances

Passes(step) == Moves(step) /\ (pc' = "status" => requeue' \/ ~Ready(obj'))

(* What a running reconcile has.                                           *)
LEMMA Running ==
    ASSUME TypeInv, pc # "idle"
    PROVE  /\ obj \in Operators /\ orig \in Operators
           /\ queued \in BOOLEAN /\ requeue \in BOOLEAN
           /\ budget \in 0 .. MaxDisturbances
           /\ Keeps(obj, obj)
BY DEF TypeInv, RuntimeInv, RuntimeTypeOK, Keeps, SameMeta

(* reconcileSeedSecret goes on only with the key of the seed Secret that   *)
(* it found in order.                                                      *)
LEMMA SeedSecretEffect ==
    ASSUME TypeInv, SeedSecretStep
    PROVE  /\ Passes("systemAccount")
           /\ seed' \in SeedSecrets(Keys)
           /\ nextKey' \in 1 .. MaxKeys + 1
           /\ seed'.kind = "absent" => nextKey' \in Keys
           /\ seed' # seed => queued'
           /\ queued => queued'
           /\ pc' = "systemAccount" => /\ seed' = SeedManaged(obj'.status.keyPair)
                                       /\ obj'.status.keyPair \in Keys
<1>0. /\ seed \in SeedSecrets(Keys) /\ nextKey \in 1 .. MaxKeys + 1 /\ nextKey \in Nat
      /\ seed.kind = "absent" => nextKey \in Keys
      /\ pc # "idle"
  BY OperatorBounds DEF TypeInv, SeedSecretStep
<1>r. /\ obj \in Operators /\ queued \in BOOLEAN /\ requeue \in BOOLEAN
      /\ budget \in 0 .. MaxDisturbances
  BY <1>0, Running
<1> PICK o \in ReconcileSeedSecret(seed, nextKey) :
        /\ Pays(o.fault)
        /\ seed' = o.secret
        /\ nextKey' = IF o.secret.key = nextKey THEN nextKey + 1 ELSE nextKey
        /\ queued' = (queued \/ o.secret # seed)
        /\ IF o.err # NoError
           THEN Return(MarkSeedSecretError(obj, o.err), AsResult(o.err))
           ELSE ContinueUnless(o.result = Requeue, "systemAccount",
                               MarkSeedSecretReady(obj, o.key))
  BY DEF SeedSecretStep
<1>1. /\ o.secret \in SeedSecrets(Keys)
      /\ o.err = NoError => o.key \in Keys
      /\ o.secret.kind = "absent" => o.secret = seed
  BY <1>0, SeedOutcomeType
<1>2. /\ o.secret.key \in Keys \cup {NoKey}
      /\ o.secret.kind = "absent" => o.secret.key = NoKey
  BY <1>1 DEF SeedSecrets, SeedAbsent, SeedBad
<1>3. /\ nextKey' \in 1 .. MaxKeys + 1
      /\ seed'.kind = "absent" => nextKey' \in Keys
  BY <1>0, <1>1, <1>2, OperatorBounds DEF Keys, NoKey
<1>4. CASE o.err # NoError
  <2>1. LET v == MarkSeedSecretError(obj, o.err)
        IN  Keeps(obj, v) /\ ~Ready(v)
    BY <1>r, MarkSeedSecretEffects
  <2>2. pc' = "status" /\ obj' = MarkSeedSecretError(obj, o.err)
    BY <1>4 DEF Return, Goto
  <2>3. requeue' \in BOOLEAN
    BY <1>4, AsResultType, Zenon DEF Return
  <2> QED
    BY <1>r, <1>1, <1>3, <2>1, <2>2, <2>3, PaysType DEF Moves, Passes, SeedSecretStep
<1>5. CASE o.err = NoError
  <2>1. LET v == MarkSeedSecretReady(obj, o.key)
        IN  Keeps(obj, v) /\ v.status.keyPair = o.key
    BY <1>r, <1>1, <1>5, MarkSeedSecretEffects
  <2>2. /\ obj' = MarkSeedSecretReady(obj, o.key)
        /\ \/ pc' = "status" /\ requeue' = TRUE
           \/ pc' = "systemAccount" /\ requeue' = requeue /\ o.result # Requeue
    BY <1>5 DEF ContinueUnless, Continue, Return, Goto
  <2>3. pc' = "systemAccount" => o.secret = SeedManaged(o.key)
    BY <1>0, <1>5, <2>2, SeedInOrder
  <2> QED
    BY <1>r, <1>1, <1>3, <1>5, <2>1, <2>2, <2>3, PaysType DEF Moves, Passes, SeedSecretStep
<1> QED
  BY <1>4, <1>5

(* ensureSystemAccountResolved goes on only with the key pair of the       *)
(* Account that it found.                                                  *)
LEMMA SystemAccountEffect ==
    ASSUME TypeInv, EnsureSystemAccountResolved(sysAcc)
    PROVE  /\ Passes("signingKeys")
           /\ queued' = queued
           /\ pc' = "signingKeys" => /\ obj'.status.keyPair = obj.status.keyPair
                                     /\ obj'.status.sys \in Keys
<1>0. pc # "idle" /\ (HasKeyPair(sysAcc) => sysAcc.keyPair \in Keys)
  BY DEF EnsureSystemAccountResolved, HasKeyPair, TypeInv
<1>r. /\ obj \in Operators /\ queued \in BOOLEAN /\ requeue \in BOOLEAN
      /\ budget \in 0 .. MaxDisturbances
  BY <1>0, Running
<1>1. /\ LET v == MarkSystemAccountResolveError(obj, SystemAccountError)
         IN  Keeps(obj, v) /\ ~Ready(v)
      /\ HasKeyPair(sysAcc) =>
            LET v == MarkSystemAccountResolved(obj, sysAcc.keyPair)
            IN  /\ Keeps(obj, v) /\ v.status.sys = sysAcc.keyPair
                /\ v.status.keyPair = obj.status.keyPair
  BY <1>0, <1>r, MarkSystemAccountEffects
<1>2. \/ /\ pc' = "signingKeys" /\ HasKeyPair(sysAcc)
         /\ obj' = MarkSystemAccountResolved(obj, sysAcc.keyPair)
      \/ /\ pc' = "status"
         /\ obj' = MarkSystemAccountResolveError(obj, SystemAccountError)
  BY DEF EnsureSystemAccountResolved, Return, Continue, Goto
<1>3. requeue' \in BOOLEAN
  BY <1>r, AsResultType, Zenon DEF EnsureSystemAccountResolved, Return, Continue
<1>4. budget' \in 0 .. MaxDisturbances
  BY <1>r, DisturbType DEF EnsureSystemAccountResolved
<1>5. UNCHANGED <<server, queued, objFresh, orig>>
  BY DEF EnsureSystemAccountResolved
<1> QED
  BY <1>0, <1>r, <1>1, <1>2, <1>3, <1>4, <1>5 DEF Moves, Passes

(* ensureSigningKeysUpdated goes on only with the listed SigningKeys.      *)
LEMMA SigningKeysEffect ==
    ASSUME TypeInv, EnsureSigningKeysUpdated
    PROVE  /\ Passes("jwt")
           /\ queued' = queued
           /\ obj'.status.keyPair = obj.status.keyPair
           /\ obj'.status.sys = obj.status.sys
           /\ pc' = "jwt" => obj'.status.signingKeys = sks
<1>0. pc # "idle" /\ sks \in SUBSET SKs
  BY DEF EnsureSigningKeysUpdated, TypeInv
<1>r. /\ obj \in Operators /\ queued \in BOOLEAN /\ requeue \in BOOLEAN
      /\ budget \in 0 .. MaxDisturbances /\ Keeps(obj, obj)
  BY <1>0, Running
<1>1. LET v == MarkSigningKeysUpdated(obj, sks)
      IN  /\ Keeps(obj, v)
          /\ v.status.keyPair = obj.status.keyPair
          /\ v.status.sys = obj.status.sys
          /\ v.status.signingKeys = sks
  BY <1>0, <1>r, MarkSigningKeysEffect
<1>2. \/ pc' = "jwt" /\ obj' = MarkSigningKeysUpdated(obj, sks) /\ requeue' = requeue
      \/ pc' = "status" /\ obj' = obj /\ requeue' = TRUE
  BY DEF EnsureSigningKeysUpdated, Return, Continue, Goto
<1>3. budget' \in 0 .. MaxDisturbances
  BY <1>r, DisturbType DEF EnsureSigningKeysUpdated
<1>4. UNCHANGED <<server, queued, objFresh, orig>>
  BY DEF EnsureSigningKeysUpdated
<1> QED
  BY <1>r, <1>1, <1>2, <1>3, <1>4 DEF Moves, Passes

(* The claims of a copy that has its references.                           *)
LEMMA ClaimsType ==
    ASSUME NEW u \in Operators, u.status.keyPair \in Keys, u.status.sys \in Keys
    PROVE  OperatorClaimsOf(u) \in OperatorJWTs /\ OperatorClaimsOf(u) # NoClaims
<1>1. u.gen \in Gens /\ u.status.signingKeys \in SUBSET SKs
  BY DEF Operators, OperatorStatuses
<1>2. OperatorClaimsOf(u) \in OperatorJWTs
  BY <1>1 DEF OperatorClaimsOf, OperatorJWTs
<1>3. OperatorClaimsOf(u).key = u.status.keyPair /\ NoClaims.key = NoKey
  BY DEF OperatorClaimsOf, NoClaims
<1> QED
  BY <1>2, <1>3, OperatorBounds

(* reconcileJWTSecret ends the reconcile, without a retry and with a Ready *)
(* Operator only over a JWT Secret with the claims of the copy.            *)
LEMMA JWTSecretEffect ==
    ASSUME TypeInv, JWTSecretStep
    PROVE  /\ Moves("status")
           /\ SameFields(obj, obj')
           /\ jwt' \in JWTSecrets(OperatorJWTs)
           /\ jwt' \in {jwt, JWTAbsent,
                        JWTSecret("present", TRUE, OperatorClaimsOf(obj))}
           /\ jwt' # jwt => queued'
           /\ queued => queued'
           /\ ~requeue' /\ Ready(obj') => jwt' = jwt /\ jwt.claims = OperatorClaimsOf(obj)
<1>0. /\ pc # "idle" /\ obj.status.keyPair \in Keys /\ obj.status.sys \in Keys
      /\ jwt \in JWTSecrets(OperatorJWTs)
  BY DEF JWTSecretStep, TypeInv, PastSeed, PastAccount
<1>r. /\ obj \in Operators /\ queued \in BOOLEAN /\ requeue \in BOOLEAN
      /\ budget \in 0 .. MaxDisturbances /\ SameMeta(obj, obj)
  BY <1>0, Running DEF Keeps
<1> PICK o \in ReconcileJWTSecret(jwt, OperatorClaimsOf(obj)) :
        /\ Pays(o.fault)
        /\ jwt' = o.secret
        /\ queued' = (queued \/ o.secret # jwt)
        /\ Return(IF o.err # NoError
                  THEN MarkOperatorError(obj, "JWTSecretReady", o.err)
                  ELSE MarkOperatorTrue(obj, "JWTSecretReady"),
                  IF o.err # NoError THEN AsResult(o.err) ELSE o.result = Requeue)
  BY DEF JWTSecretStep
<1>1. /\ o.secret \in JWTSecrets(OperatorJWTs)
      /\ o.secret \in {jwt, JWTAbsent,
                       JWTSecret("present", TRUE, OperatorClaimsOf(obj))}
  BY <1>0, <1>r, ClaimsType, JWTOutcomeType, JWTOutcomes
<1>2. /\ LET v == MarkOperatorTrue(obj, "JWTSecretReady")
         IN  Keeps(obj, v) /\ SameFields(obj, v)
      /\ LET v == MarkOperatorError(obj, "JWTSecretReady", o.err)
         IN  Keeps(obj, v) /\ SameFields(obj, v) /\ ~Ready(v)
  BY <1>r, MarkOperatorTrueEffect, MarkOperatorErrorEffect, DependentFacts
<1>3. /\ pc' = "status"
      /\ \/ o.err # NoError /\ obj' = MarkOperatorError(obj, "JWTSecretReady", o.err)
         \/ /\ o.err = NoError /\ obj' = MarkOperatorTrue(obj, "JWTSecretReady")
            /\ requeue' = (o.result = Requeue)
  BY DEF Return, Goto
<1>4. requeue' \in BOOLEAN
  BY <1>r, AsResultType, Zenon DEF Return
<1>5. o.err = NoError /\ o.result # Requeue =>
        o.secret = jwt /\ jwt.claims = OperatorClaimsOf(obj)
  BY <1>0, JWTInOrder
<1>6. UNCHANGED <<server, objFresh, orig>>
  BY DEF JWTSecretStep
<1>7. budget' \in 0 .. MaxDisturbances
  BY <1>r, PaysType
<1>8. Keeps(obj, obj') /\ SameFields(obj, obj') /\ queued' \in BOOLEAN
  BY <1>2, <1>3
<1>9. ~requeue' /\ Ready(obj') => jwt' = jwt /\ jwt.claims = OperatorClaimsOf(obj)
  BY <1>2, <1>3, <1>5
<1> QED
  BY <1>1, <1>3, <1>4, <1>6, <1>7, <1>8, <1>9 DEF Moves, Passes

(* A step of the reconcile that leaves the API server's Operator alone.    *)
LEMMA MovesType ==
    ASSUME TypeInv, pc # "idle", NEW step \in Steps \cup {"status"}, Moves(step)
    PROVE  RuntimeInv(Operators, Steps)'
<1>1. RuntimeInv(Operators, Steps) /\ obj' \in Operators
  BY DEF TypeInv, Moves, Keeps, SameMeta
<1> QED
  BY <1>1, LocalStepType DEF Moves

(* Every step of the reconcile keeps TypeInv.                              *)
LEMMA TypeInvReconcile ==
    ASSUME TypeInv, Step
    PROVE  TypeInv'
<1> USE DEF PastSeed, PastAccount
<1>0. sysAcc' = sysAcc
  BY DEF Step
<1>1. CASE StartOperator
  <2>1. RuntimeInv(Operators, Steps)'
    BY <1>1, OperatorsAreAKind, StartReconcileType DEF StartOperator, TypeInv, Steps
  <2>2. pc' \in {"seed", "idle"}
    BY <1>1 DEF StartOperator, StartReconcile, Continue, Goto, local
  <2> QED
    BY <1>0, <1>1, <2>1, <2>2 DEF StartOperator, TypeInv, secrets
<1>2. CASE SeedSecretStep
  <2>1. pc = "seed"
    BY <1>2 DEF SeedSecretStep
  <2>2. RuntimeInv(Operators, Steps)'
    BY <1>2, <2>1, SeedSecretEffect, MovesType DEF Passes, Steps
  <2> QED
    BY <1>0, <1>2, <2>2, SeedSecretEffect DEF SeedSecretStep, TypeInv, Moves, Passes
<1>3. CASE EnsureSystemAccountResolved(sysAcc)
  <2>1. pc = "systemAccount"
    BY <1>3 DEF EnsureSystemAccountResolved
  <2>2. RuntimeInv(Operators, Steps)'
    BY <1>3, <2>1, SystemAccountEffect, MovesType DEF Passes, Steps
  <2> QED
    BY <1>0, <1>3, <2>1, <2>2, SystemAccountEffect
       DEF EnsureSystemAccountResolved, TypeInv, Moves, Passes, secrets
<1>4. CASE EnsureSigningKeysUpdated
  <2>1. pc = "signingKeys"
    BY <1>4 DEF EnsureSigningKeysUpdated
  <2>2. RuntimeInv(Operators, Steps)'
    BY <1>4, <2>1, SigningKeysEffect, MovesType DEF Passes, Steps
  <2> QED
    BY <1>0, <1>4, <2>1, <2>2, SigningKeysEffect
       DEF EnsureSigningKeysUpdated, TypeInv, Moves, Passes, secrets
<1>5. CASE JWTSecretStep
  <2>1. pc = "jwt"
    BY <1>5 DEF JWTSecretStep
  <2>2. RuntimeInv(Operators, Steps)'
    BY <1>5, <2>1, JWTSecretEffect, MovesType
  <2> QED
    BY <1>0, <1>5, <2>1, <2>2, JWTSecretEffect DEF JWTSecretStep, TypeInv, Moves
<1>6. CASE StoreStatus
  <2>1. RuntimeInv(Operators, Steps)' /\ pc' = "idle"
    BY <1>6, OperatorsAreAKind, UpdateStatusType DEF StoreStatus, UpdateStatus, TypeInv
  <2> QED
    BY <1>0, <1>6, <2>1 DEF StoreStatus, TypeInv, secrets
<1> QED
  BY <1>1, <1>2, <1>3, <1>4, <1>5, <1>6 DEF Step, ReconcileOperator

(* What can become of the system Account keeps its key pair and its        *)
(* condition together, and reaches the queue at most.                      *)
LEMMA AccountEffect ==
    ASSUME TypeInv, CreateAccount \/ GiveKeyPair \/ ResolveOperator \/ LoseKeyPair
    PROVE  /\ RuntimeInv(Operators, Steps)'
           /\ sysAcc' \in SystemAccounts
           /\ IsTrue(sysAcc'.conds["SeedSecretReady"]) => sysAcc'.keyPair \in Keys
           /\ queued => queued'
           /\ UNCHANGED <<server, local, secrets, sks>>
<1>0. /\ RuntimeInv(Operators, Steps) /\ sysAcc \in SystemAccounts
      /\ budget \in 0 .. MaxDisturbances /\ queued \in BOOLEAN
      /\ IsTrue(sysAcc.conds["SeedSecretReady"]) => sysAcc.keyPair \in Keys
  BY DEF TypeInv, RuntimeInv, RuntimeTypeOK
<1>1. budget' \in 0 .. MaxDisturbances
  BY <1>0, DisturbType DEF CreateAccount, GiveKeyPair, ResolveOperator, LoseKeyPair
<1>2. PICK next :
        /\ AccountProgress(next)
        /\ \/ next \in {PendingAccount, AbsentAccount}
           \/ next = [PendingAccount EXCEPT !.operatorRef = sysAcc.operatorRef]
           \/ next = [sysAcc EXCEPT !.operatorRef = TRUE]
           \/ next = [sysAcc EXCEPT !.operatorRef = FALSE]
           \/ \E k \in Keys : next = KeyedAccount(k, sysAcc.operatorRef)
  <2>1. CASE CreateAccount
    BY <2>1 DEF CreateAccount
  <2>2. CASE GiveKeyPair
    BY <2>2 DEF GiveKeyPair
  <2>3. CASE ResolveOperator
    BY <2>3 DEF ResolveOperator
  <2>4. CASE LoseKeyPair
    BY <2>4 DEF LoseKeyPair
  <2> QED
    BY <2>1, <2>2, <2>3, <2>4
<1>3. RuntimeInv(Operators, Steps)'
  BY <1>0, <1>1, <1>2 DEF AccountProgress, EnqueueIf, RuntimeInv, RuntimeTypeOK,
                          server, local
<1>4. /\ next \in SystemAccounts
      /\ IsTrue(next.conds["SeedSecretReady"]) => next.keyPair \in Keys
  <2> DEFINE Seedless(a) == a \in SystemAccounts /\ ~IsTrue(a.conds["SeedSecretReady"])
  <2>1. Seedless(AbsentAccount)
    BY DEF AbsentAccount, SystemAccounts, Statuses, IsTrue
  <2>2. Seedless(PendingAccount)
    BY <2>1 DEF PendingAccount, SystemAccounts
  <2>3. sysAcc.operatorRef \in BOOLEAN
    BY <1>0 DEF SystemAccounts
  <2>4. Seedless([PendingAccount EXCEPT !.operatorRef = sysAcc.operatorRef])
    BY <2>2, <2>3 DEF SystemAccounts
  <2>5. CASE \/ next = [sysAcc EXCEPT !.operatorRef = TRUE]
             \/ next = [sysAcc EXCEPT !.operatorRef = FALSE]
    BY <1>0, <2>5 DEF SystemAccounts
  <2>6. CASE \E k \in Keys : next = KeyedAccount(k, sysAcc.operatorRef)
    <3>1. PICK k \in Keys : next = KeyedAccount(k, sysAcc.operatorRef)
      BY <2>6
    <3> DEFINE a == [PendingAccount EXCEPT !.keyPair = k]
               b == [a EXCEPT !.operatorRef = sysAcc.operatorRef]
               c == [b.conds EXCEPT !["SeedSecretReady"] = "True"]
    <3>2. a \in SystemAccounts /\ a.keyPair = k
      BY <2>2 DEF SystemAccounts
    <3> HIDE DEF a
    <3>3. b \in SystemAccounts /\ b.keyPair = k
      BY <2>3, <3>2 DEF SystemAccounts
    <3> HIDE DEF b
    <3>4. c \in [{"SeedSecretReady", Happy} -> Statuses]
      BY <3>3 DEF SystemAccounts, Statuses
    <3> HIDE DEF c
    <3>5. next = [b EXCEPT !.conds = c]
      BY <3>1 DEF KeyedAccount, a, b, c
    <3> QED
      BY <3>3, <3>4, <3>5 DEF SystemAccounts
  <2> HIDE DEF Seedless
  <2>7. CASE Seedless(next)
    BY <2>7 DEF Seedless
  <2> QED
    BY <1>2, <2>1, <2>2, <2>4, <2>5, <2>6, <2>7
<1> QED
  BY <1>0, <1>2, <1>3, <1>4 DEF AccountProgress, EnqueueIf

(* A Secret that is lost or tampered with reaches the queue when it is the *)
(* controller's own, a change of the SigningKeys when it is watched.       *)
LEMMA TamperEffect ==
    ASSUME TypeInv, DeleteOperatorSeed \/ TamperOperatorJWT \/ ChangeSigningKeys
    PROVE  /\ RuntimeInv(Operators, Steps)'
           /\ UNCHANGED <<server, local>>
           /\ queued => queued'
           /\ \/ /\ seed' = SeedAbsent /\ nextKey \in Keys
                 /\ seed.managed => queued'
                 /\ UNCHANGED <<nextKey, jwt, sks>>
              \/ /\ jwt' \in JWTSecrets(OperatorJWTs)
                 /\ "unownedJWT" \notin Hazards => jwt'.claims = NoClaims
                 /\ jwt.owned => queued'
                 /\ UNCHANGED <<seed, nextKey, sks>>
              \/ /\ sks' \in SUBSET SKs
                 /\ "namesake" \notin Hazards => queued'
                 /\ UNCHANGED <<seed, nextKey, jwt>>
<1>0. /\ RuntimeInv(Operators, Steps) /\ budget \in 0 .. MaxDisturbances
      /\ queued \in BOOLEAN /\ nextKey \in 1 .. MaxKeys + 1
  BY DEF TypeInv, RuntimeInv, RuntimeTypeOK
<1>1. budget' \in 0 .. MaxDisturbances
  BY <1>0, DisturbType DEF DeleteOperatorSeed, TamperOperatorJWT, ChangeSigningKeys
<1>2. \/ EnqueueIf(seed.managed)
      \/ EnqueueIf(jwt.owned)
      \/ \E kind : EnqueueIf(kind = "sks")
  BY DEF DeleteOperatorSeed, TamperOperatorJWT, ChangeSigningKeys
<1>3. RuntimeInv(Operators, Steps)'
  BY <1>0, <1>1, <1>2, EnqueueIfType
<1>4. UNCHANGED <<server, local>> /\ (queued => queued')
  BY <1>2 DEF EnqueueIf
<1>5. CASE DeleteOperatorSeed
  <2>1. nextKey \in Keys
    BY <1>0, <1>5, OperatorBounds DEF DeleteOperatorSeed, Keys
  <2> QED
    BY <1>3, <1>4, <1>5, <2>1 DEF DeleteOperatorSeed, EnqueueIf
<1>6. CASE TamperOperatorJWT
  <2>1. jwt \in JWTSecrets(OperatorJWTs)
    BY DEF TypeInv
  <2>2. PICK next \in TamperedJWTSecrets(jwt) :
            TamperingWith(next) \in Hazards /\ jwt' = next /\ EnqueueIf(jwt.owned)
    BY <1>6 DEF TamperOperatorJWT, Disturb
  <2>3. /\ next \in JWTSecrets(OperatorJWTs)
        /\ "unownedJWT" \notin Hazards => next.claims = NoClaims
    BY <2>1, <2>2, TamperedFacts
  <2> QED
    BY <1>3, <1>4, <1>6, <2>2, <2>3 DEF TamperOperatorJWT, EnqueueIf
<1>7. CASE ChangeSigningKeys
  BY <1>3, <1>4, <1>7 DEF ChangeSigningKeys, EnqueueIf, Disturb, secrets
<1> QED
  BY <1>5, <1>6, <1>7

(* Every step keeps TypeInv.                                               *)
LEMMA TypeInvNext == TypeInv /\ [Next]_vars => TypeInv'
<1> SUFFICES ASSUME TypeInv, [Next]_vars PROVE TypeInv'
  OBVIOUS
<1> USE DEF PastSeed, PastAccount
<1>0. /\ RuntimeInv(Operators, Steps) /\ res \in Operators
      /\ budget \in 0 .. MaxDisturbances
  BY DEF TypeInv, RuntimeInv, RuntimeTypeOK
<1>1. CASE Step
  BY <1>1, TypeInvReconcile
<1>2. CASE Sync \/ (ResyncOperator /\ UNCHANGED sysAcc)
  <2>1. RuntimeInv(Operators, Steps)'
    BY <1>0, <1>2, InformerType DEF Sync, SyncOperator, ResyncOperator
  <2>2. UNCHANGED <<pc, obj, secrets, sks, sysAcc>>
    BY <1>2 DEF Sync, SyncOperator, ResyncOperator, CacheSync, Resync, local
  <2> QED
    BY <2>1, <2>2 DEF TypeInv, secrets
<1>3. CASE CreateAccount \/ GiveKeyPair \/ ResolveOperator \/ LoseKeyPair
  BY <1>3, AccountEffect DEF TypeInv, local, secrets
<1>4. CASE (EditOperator \/ DeleteOperator) /\ UNCHANGED sysAcc
  <2>1. /\ \A g \in Gens : [res EXCEPT !.gen = g] \in Operators
        /\ [res EXCEPT !.exists = FALSE] \in Operators
    BY <1>0 DEF Operators
  <2>2. res.gen < MaxGen => res.gen + 1 \in Gens
    BY <1>0, OperatorBounds DEF Operators, Gens
  <2>3. \/ /\ ForeignWrite([res EXCEPT !.gen = res.gen + 1])
           /\ [res EXCEPT !.gen = res.gen + 1] \in Operators
        \/ /\ ForeignWrite([res EXCEPT !.exists = FALSE])
           /\ [res EXCEPT !.exists = FALSE] \in Operators
    BY <1>4, <2>1, <2>2 DEF EditOperator, DeleteOperator
  <2>4. budget' \in 0 .. MaxDisturbances
    BY <1>0, <1>4, DisturbType DEF EditOperator, DeleteOperator
  <2>5. RuntimeInv(Operators, Steps)'
    BY <1>0, <2>3, <2>4, ForeignWriteType
  <2>6. UNCHANGED <<pc, obj, secrets, sks, sysAcc>>
    BY <1>4 DEF EditOperator, DeleteOperator, ForeignWrite
  <2> QED
    BY <2>5, <2>6 DEF TypeInv, secrets
<1>5. CASE /\ DeleteOperatorSeed \/ TamperOperatorJWT \/ ChangeSigningKeys
           /\ UNCHANGED sysAcc
  <2>1. SeedAbsent \in SeedSecrets(Keys)
    BY DEF SeedSecrets
  <2> QED
    BY <1>5, <2>1, TamperEffect DEF TypeInv, local
<1>6. CASE CrashAndRestart
  <2>1. RuntimeInv(Operators, Steps)' /\ pc' = "idle"
    BY <1>0, <1>6, OperatorsAreAKind, CrashType DEF CrashAndRestart, Crash
  <2> QED
    BY <1>6, <2>1 DEF CrashAndRestart, TypeInv, secrets
<1>7. CASE UNCHANGED vars
  BY <1>7 DEF vars, runtime, server, local, secrets, TypeInv, RuntimeInv, RuntimeTypeOK
<1> QED
  BY <1>1, <1>2, <1>3, <1>4, <1>5, <1>6, <1>7 DEF Next, DisturbOperator

(* A new Operator is one.                                                  *)
LEMMA NewOperatorType == NewOperator \in Operators
<1>1. [t \in OperatorTypes |-> NoCondition] \in ConditionLists(OperatorTypes)
  BY DEF ConditionLists
<1>2. NoStatus \in OperatorStatuses
  BY <1>1 DEF NoStatus, OperatorStatuses
<1>3. 1 \in Gens
  BY OperatorBounds DEF Gens
<1> QED
  BY <1>2, <1>3 DEF NewOperator, Operators

(* The initial state is typed.                                             *)
LEMMA TypeInvInit == Init => TypeInv
<1> SUFFICES ASSUME Init PROVE TypeInv
  OBVIOUS
<1>1. RuntimeInv(Operators, Steps) /\ pc = "idle"
  BY NewOperatorType, RuntimeInitType DEF Init, InitOperator, RuntimeInit
<1>2. 1 \in Keys /\ 1 \in 1 .. MaxKeys + 1 /\ 2 \in 1 .. MaxKeys + 1
  BY OperatorBounds DEF Keys
<1>3. /\ SeedAbsent \in SeedSecrets(Keys)
      /\ SeedPrecreated(1) \in SeedSecrets(Keys)
      /\ SeedPrecreated(1).kind # "absent"
  BY <1>2 DEF SeedSecrets, SeedPrecreated
<1>4. /\ seed \in SeedSecrets(Keys)
      /\ nextKey \in 1 .. MaxKeys + 1
      /\ seed.kind = "absent" => nextKey \in Keys
  BY <1>2, <1>3 DEF Init, InitOperator
<1>5. sysAcc \in SystemAccounts /\ ~IsTrue(sysAcc.conds["SeedSecretReady"])
  BY DEF Init, AbsentAccount, SystemAccounts, Statuses, IsTrue
<1>6. jwt \in JWTSecrets(OperatorJWTs) /\ sks \in SUBSET SKs
  BY DEF Init, InitOperator, JWTSecrets
<1> QED
  BY <1>1, <1>4, <1>5, <1>6 DEF TypeInv, PastSeed, PastAccount

(* The variables always hold values of their types: the claims that are    *)
(* signed are always of a key pair and of a system account that were       *)
(* there, and nkeys.CreateOperator is called only when the seed Secret is  *)
(* gone.                                                                   *)
THEOREM TypeCorrect == Spec => []TypeOK
<1>1. TypeInv => TypeOK
  BY DEF TypeInv, TypeOK, OperatorTypeOK, RuntimeInv
<1> QED
  BY <1>1, TypeInvInit, TypeInvNext, PTL DEF Spec

(***************************************************************************)
(* References.  What is stored comes from a copy, and a copy starts from   *)
(* what was stored: every copy has its references.                         *)
(***************************************************************************)

RefInv ==
    /\ References(res)
    /\ cached \in Operators => References(cached)
    /\ old \in Operators => References(old)
    /\ pc # "idle" => References(obj)

(* InitializeConditions: under a True Ready nothing is missing.            *)
LEMMA InitializeReferences ==
    ASSUME NEW u \in Operators, References(u)
    PROVE  References([u EXCEPT !.status.conds =
                          InitializeConditions(@, OperatorDependents)])
<1> DEFINE c == InitializeConditions(u.status.conds, OperatorDependents)
           v == [u EXCEPT !.status.conds = c]
<1>1. u.status.conds \in ConditionLists(OperatorTypes)
  BY DEF Operators, OperatorStatuses
<1>2. c \in ConditionLists(OperatorTypes)
  BY <1>1, InitializeConditionsType, DependentFacts
<1>3. v.status.conds = c /\ SameFields(u, v)
  BY <1>2, ReplaceConditions
<1>4. /\ IsTrue(c[Happy]) => IsTrue(u.status.conds[Happy])
      /\ \A d \in OperatorDependents : IsTrue(c[d]) =>
            IsTrue(u.status.conds[d]) \/ IsTrue(u.status.conds[Happy])
  <2>1. DOMAIN u.status.conds = OperatorTypes
    BY <1>1 DEF ConditionLists
  <2> QED
    BY <2>1, DependentFacts DEF InitializeConditions, IsTrue, NoCondition
<1> HIDE DEF c, v
<1>5. References(v)
  BY <1>3, <1>4, DependentFacts DEF References, Ready, SameFields
<1> QED
  BY <1>5 DEF c, v

(* Every step keeps RefInv.                                                *)
LEMMA RefNext == TypeInv /\ RefInv /\ [Next]_vars => RefInv'
<1> SUFFICES ASSUME TypeInv, RefInv, [Next]_vars PROVE RefInv'
  OBVIOUS
<1>0. /\ res \in Operators /\ cached \in Operators \cup {NoCopy}
      /\ pc # "idle" => obj \in Operators
  BY DEF TypeInv, RuntimeInv, RuntimeTypeOK
<1>p. ASSUME NEW step, Moves(step), pc # "idle" PROVE RefInv'
  BY <1>p DEF Moves, Keeps, RefInv, server
<1>1. CASE StartOperator
  <2>1. UNCHANGED server
    BY <1>1 DEF StartOperator, StartReconcile
  <2>2. CASE cached.exists
    <3>1. cached \in Operators
      BY <1>0, <2>2 DEF NoCopy
    <3>2. obj' = [cached EXCEPT !.status.conds =
                      InitializeConditions(@, OperatorDependents)]
      BY <1>1, <2>2 DEF StartOperator, StartReconcile, Continue, Goto
    <3> QED
      BY <2>1, <3>1, <3>2, InitializeReferences DEF RefInv, server
  <2>3. CASE ~cached.exists
    BY <1>1, <2>1, <2>3 DEF StartOperator, StartReconcile, local, server, RefInv
  <2> QED
    BY <2>2, <2>3
<1>2. CASE SeedSecretStep
  BY <1>2, <1>p, SeedSecretEffect DEF SeedSecretStep, Passes
<1>3. CASE EnsureSystemAccountResolved(sysAcc)
  BY <1>3, <1>p, SystemAccountEffect DEF EnsureSystemAccountResolved, Passes
<1>4. CASE EnsureSigningKeysUpdated
  BY <1>4, <1>p, SigningKeysEffect DEF EnsureSigningKeysUpdated, Passes
<1>5. CASE JWTSecretStep
  BY <1>5, <1>p, JWTSecretEffect DEF JWTSecretStep
<1>6. CASE StoreStatus
  <2>1. pc = "status" /\ pc' = "idle" /\ cached' = cached /\ old' = old
        /\ res' \in {res, [res EXCEPT !.status = obj.status]}
    BY <1>6 DEF StoreStatus, UpdateStatus, server
  <2>2. [res EXCEPT !.status = obj.status].status = obj.status
    BY <1>0 DEF Operators
  <2> QED
    BY <2>1, <2>2 DEF RefInv, References, Ready
<1>7. CASE Sync \/ CrashAndRestart
  <2>1. CASE Sync
    <3>1. NoCopy \notin Operators
      BY DEF NoCopy, Operators
    <3> QED
      BY <2>1, <3>1 DEF Sync, SyncOperator, CacheSync, local, RefInv
  <2>2. CASE CrashAndRestart
    BY <2>2, ListedCopy DEF CrashAndRestart, Crash, RefInv
  <2> QED
    BY <1>7, <2>1, <2>2
<1>8. CASE EditOperator \/ DeleteOperator
  <2>1. res'.status = res.status /\ UNCHANGED <<cached, old, pc, obj>>
    BY <1>0, <1>8 DEF EditOperator, DeleteOperator, ForeignWrite, Operators
  <2> QED
    BY <2>1 DEF RefInv, References, Ready
<1>9. CASE CreateAccount \/ GiveKeyPair \/ ResolveOperator \/ LoseKeyPair
  BY <1>9, AccountEffect DEF server, local, RefInv
<1>10. CASE DeleteOperatorSeed \/ TamperOperatorJWT \/ ChangeSigningKeys
  BY <1>10, TamperEffect DEF server, local, RefInv
<1>11. CASE ResyncOperator \/ UNCHANGED vars
  BY <1>11 DEF ResyncOperator, Resync, vars, runtime, server, local, RefInv
<1> QED
  BY <1>1, <1>2, <1>3, <1>4, <1>5, <1>6, <1>7, <1>8, <1>9, <1>10, <1>11
     DEF Next, Step, ReconcileOperator, DisturbOperator

(* The first state.                                                        *)
LEMMA RefInit == Init => RefInv
<1> SUFFICES ASSUME Init PROVE RefInv
  OBVIOUS
<1>1. NoCopy \notin Operators
  BY DEF NoCopy, Operators
<1>2. res = NewOperator /\ cached = NoCopy /\ old = NoCopy /\ pc = "idle"
  BY DEF Init, InitOperator, RuntimeInit
<1>3. \A t \in OperatorTypes : ~IsTrue(NewOperator.status.conds[t])
  BY DEF NewOperator, NoStatus, IsTrue, NoCondition
<1> QED
  BY <1>1, <1>2, <1>3, DependentFacts DEF RefInv, References, Ready

(* A stored True condition always comes with the reference it is about.    *)
THEOREM OperatorAlwaysHasReferences == Spec => []OperatorHasReferences
<1>1. RefInv => OperatorHasReferences
  BY DEF RefInv, References, OperatorHasReferences
<1>2. Init => TypeInv /\ RefInv
  BY TypeInvInit, RefInit
<1>3. (TypeInv /\ RefInv) /\ [Next]_vars => (TypeInv /\ RefInv)'
  BY TypeInvNext, RefNext
<1> QED
  BY <1>1, <1>2, <1>3, PTL DEF Spec

(***************************************************************************)
(* A quiet Operator that is Ready.  Settled says that nothing has happened *)
(* since the reconcile started, or since the last one ended, that the      *)
(* reconciler is not about to be told of.  What a settled reconcile has    *)
(* read is still so, and its copy is of the stored Operator; so is all of  *)
(* it when a reconcile ends with a Ready Operator and asks for no other.   *)
(***************************************************************************)

Settled == ~queued /\ cacheFresh

Right(u) ==
    /\ seed = SeedManaged(u.status.keyPair)
    /\ u.status.signingKeys = sks
    /\ jwt.claims = OperatorClaimsOf(u)
    /\ jwt.owned

QuietInv ==
    /\ cacheFresh => cached = res
    /\ jwt.claims # NoClaims => jwt.owned
    /\ Settled /\ pc # "idle" => orig = res /\ obj.gen = res.gen
    /\ Settled /\ pc \in PastSeed => seed = SeedManaged(obj.status.keyPair)
    /\ Settled /\ pc = "jwt" => obj.status.signingKeys = sks
    /\ Settled /\ pc = "status" /\ ~requeue /\ Ready(obj) => Right(obj)
    /\ Settled /\ pc = "idle" /\ res.exists /\ Ready(res) => Right(res)

(* The steps of the reconcile.                                             *)
LEMMA QuietReconcile ==
    ASSUME TypeInv, QuietInv, Step
    PROVE  QuietInv'
<1> USE DEF PastSeed, PastAccount
<1>0. /\ res \in Operators /\ cached \in Operators \cup {NoCopy}
      /\ pc # "idle" => obj \in Operators
      /\ queued \in BOOLEAN /\ requeue \in BOOLEAN /\ cacheFresh \in BOOLEAN
  BY DEF TypeInv, RuntimeInv, RuntimeTypeOK
<1>1. CASE StartOperator
  <2>1. UNCHANGED <<res, cached, cacheFresh, jwt>> /\ pc = "idle"
    BY <1>1 DEF StartOperator, StartReconcile, server, secrets
  <2>2. CASE cached.exists
    <3>1. cached \in Operators
      BY <1>0, <2>2 DEF NoCopy
    <3>2. pc' = "seed" /\ orig' = cached /\ obj'.gen = cached.gen
      BY <1>1, <2>2, <3>1 DEF StartOperator, StartReconcile, Continue, Goto, Operators
    <3> QED
      BY <2>1, <3>2 DEF QuietInv, Settled
  <2>3. CASE ~cached.exists
    <3>1. pc' = "idle"
      BY <1>1, <2>3 DEF StartOperator, StartReconcile, local
    <3>2. Settled' => ~res'.exists
      BY <2>1, <2>3 DEF QuietInv, Settled
    <3> QED
      BY <2>1, <3>1, <3>2 DEF QuietInv
  <2> QED
    BY <2>2, <2>3
<1>2. CASE SeedSecretStep
  <2>1. /\ UNCHANGED <<res, cached, cacheFresh, orig, jwt>>
        /\ pc = "seed" /\ pc' \in {"systemAccount", "status"}
        /\ pc' = "status" => requeue' \/ ~Ready(obj')
        /\ pc' = "systemAccount" => seed' = SeedManaged(obj'.status.keyPair)
        /\ obj'.gen = obj.gen
        /\ Settled' => Settled
    BY <1>2, SeedSecretEffect
       DEF SeedSecretStep, Moves, Passes, Keeps, SameMeta, Settled, server
  <2> QED
    BY <2>1 DEF QuietInv
<1>3. CASE EnsureSystemAccountResolved(sysAcc)
  <2>1. /\ UNCHANGED <<res, cached, cacheFresh, orig, jwt, seed, queued>>
        /\ pc = "systemAccount" /\ pc' \in {"signingKeys", "status"}
        /\ pc' = "status" => requeue' \/ ~Ready(obj')
        /\ pc' = "signingKeys" => obj'.status.keyPair = obj.status.keyPair
        /\ obj'.gen = obj.gen
    BY <1>3, SystemAccountEffect
       DEF EnsureSystemAccountResolved, Moves, Passes, Keeps, SameMeta, server, secrets
  <2> QED
    BY <2>1 DEF QuietInv, Settled
<1>4. CASE EnsureSigningKeysUpdated
  <2>1. /\ UNCHANGED <<res, cached, cacheFresh, orig, jwt, seed, sks, queued>>
        /\ pc = "signingKeys" /\ pc' \in {"jwt", "status"}
        /\ pc' = "status" => requeue' \/ ~Ready(obj')
        /\ pc' = "jwt" => obj'.status.signingKeys = sks
        /\ obj'.status.keyPair = obj.status.keyPair
        /\ obj'.gen = obj.gen
    BY <1>4, SigningKeysEffect
       DEF EnsureSigningKeysUpdated, Moves, Passes, Keeps, SameMeta, server, secrets
  <2> QED
    BY <2>1 DEF QuietInv, Settled
<1>5. CASE JWTSecretStep
  <2>1. /\ UNCHANGED <<res, cached, cacheFresh, orig, seed, sks>>
        /\ pc = "jwt" /\ pc' = "status"
        /\ ~requeue' /\ Ready(obj') => jwt' = jwt /\ jwt.claims = OperatorClaimsOf(obj)
        /\ obj'.gen = obj.gen /\ SameFields(obj, obj')
        /\ Settled' => Settled
    BY <1>5, JWTSecretEffect
       DEF JWTSecretStep, Moves, Keeps, SameMeta, Settled, server
  <2>2. jwt'.claims # NoClaims => jwt'.owned
    <3>1. /\ JWTAbsent.claims = NoClaims
          /\ JWTSecret("present", TRUE, OperatorClaimsOf(obj)).owned
      BY DEF JWTAbsent, JWTSecret
    <3> QED
      BY <1>5, <3>1, JWTSecretEffect DEF QuietInv
  <2>3. ASSUME Settled', ~requeue', Ready(obj')
        PROVE  Right(obj)'
    <3>1. seed = SeedManaged(obj.status.keyPair) /\ obj.status.signingKeys = sks
      BY <2>1, <2>3 DEF QuietInv
    <3>2. OperatorClaimsOf(obj) # NoClaims
      BY <1>0, <2>1, ClaimsType DEF TypeInv
    <3>3. OperatorClaimsOf(obj') = OperatorClaimsOf(obj)
      BY <2>1 DEF OperatorClaimsOf, SameFields
    <3> QED
      BY <2>1, <2>2, <2>3, <3>1, <3>2, <3>3 DEF Right, SameFields
  <2> QED
    BY <2>1, <2>2, <2>3 DEF QuietInv
<1>6. CASE StoreStatus
  <2>1. /\ pc = "status" /\ pc' = "idle" /\ UNCHANGED <<seed, jwt, sks, cached>>
        /\ cacheFresh' => UNCHANGED <<res, cacheFresh>>
        /\ Settled' => ~queued /\ ~requeue /\ obj.status = orig.status
    BY <1>0, <1>6 DEF StoreStatus, UpdateStatus, Settled, server, secrets
  <2>2. ASSUME Settled', res'.exists, Ready(res')
        PROVE  Right(res)'
    <3>1. res' = res /\ Settled
      BY <2>1, <2>2 DEF Settled
    <3>2. obj.gen = res.gen /\ obj.status = res.status
      BY <2>1, <2>2, <3>1 DEF QuietInv
    <3>3. Right(obj)
      BY <2>1, <2>2, <3>1, <3>2 DEF QuietInv, Ready
    <3> QED
      BY <2>1, <3>1, <3>2, <3>3 DEF Right, OperatorClaimsOf
  <2> QED
    BY <2>1, <2>2 DEF QuietInv
<1> QED
  BY <1>1, <1>2, <1>3, <1>4, <1>5, <1>6 DEF Step, ReconcileOperator

(* Every step keeps QuietInv.                                              *)
LEMMA QuietNext ==
    ASSUME Hazards \cap {"unownedJWT", "namesake"} = {},
           TypeInv, QuietInv, [Next]_vars
    PROVE  QuietInv'
<1>0. /\ res \in Operators /\ res.exists \in BOOLEAN
      /\ queued \in BOOLEAN /\ cacheFresh \in BOOLEAN
  BY DEF TypeInv, RuntimeInv, RuntimeTypeOK, Operators
<1>1. CASE Step
  BY <1>1, QuietReconcile
<1>2. CASE Sync \/ CrashAndRestart
  <2>1. /\ res' = res /\ jwt' = jwt
        /\ cacheFresh' => cached' = res
        /\ Settled' => pc' = "idle" /\ ~res.exists
    <3>1. CASE Sync
      BY <1>0, <3>1 DEF Sync, SyncOperator, CacheSync, Settled, secrets
    <3>2. CASE CrashAndRestart
      BY <1>0, <3>2, ListedCopy
         DEF CrashAndRestart, Crash, QuietInv, Settled, secrets
    <3> QED
      BY <1>2, <3>1, <3>2
  <2> QED
    BY <2>1 DEF QuietInv, PastSeed, PastAccount
<1>3. CASE ResyncOperator
  BY <1>3 DEF ResyncOperator, Resync, QuietInv, Settled, server, secrets
<1>4. CASE EditOperator \/ DeleteOperator
  BY <1>4 DEF EditOperator, DeleteOperator, ForeignWrite, QuietInv, Settled, secrets
<1>5. CASE CreateAccount \/ GiveKeyPair \/ ResolveOperator \/ LoseKeyPair
  <2>1. /\ UNCHANGED <<res, cached, cacheFresh, pc, obj, orig, requeue, seed, jwt, sks>>
        /\ Settled' => Settled
    BY <1>0, <1>5, AccountEffect DEF Settled, server, local, secrets
  <2> QED
    BY <2>1 DEF QuietInv, Right
<1>6. CASE DeleteOperatorSeed \/ TamperOperatorJWT \/ ChangeSigningKeys
  <2>1. /\ UNCHANGED <<res, cached, cacheFresh, pc, obj, orig, requeue>>
        /\ Settled' => Settled
    BY <1>0, <1>6, TamperEffect DEF Settled, server, local
  <2>2. jwt'.claims # NoClaims => jwt'.owned
    BY <1>6, TamperEffect DEF QuietInv
  <2>3. /\ Settled' => sks' = sks
        /\ Settled' /\ seed.managed => seed' = seed
        /\ Settled' /\ jwt.owned => jwt' = jwt
    BY <1>6, TamperEffect DEF Settled
  <2>4. \A k : SeedManaged(k).managed
    BY DEF SeedManaged
  <2>5. /\ Settled' /\ Right(obj) => Right(obj)'
        /\ Settled' /\ Right(res) => Right(res)'
    BY <2>1, <2>3, <2>4 DEF Right
  <2> QED
    BY <2>1, <2>2, <2>3, <2>4, <2>5 DEF QuietInv
<1>7. CASE UNCHANGED vars
  <2>1. UNCHANGED <<res, cached, cacheFresh, queued, pc, obj, orig, requeue, seed, jwt,
                    sks>>
    BY <1>7 DEF vars, runtime, server, local, secrets
  <2> QED
    BY <2>1 DEF QuietInv, Settled, Right
<1> QED
  BY <1>1, <1>2, <1>3, <1>4, <1>5, <1>6, <1>7 DEF Next, DisturbOperator

(* An Operator that is Ready and left alone has a JWT Secret with the      *)
(* claims of its stored spec, key pair, system account and signing keys:   *)
(* no interleaving of faults, crashes, old lists, edits and tampering      *)
(* leaves a wrong one behind that no event will bring to the reconciler.   *)
(* The assumption leaves out what its watches do not see: a copy of the    *)
(* JWT Secret that nobody owns, and SigningKeys of an Account with the     *)
(* Operator's name.                                                        *)
THEOREM QuietOperatorIsAlwaysRight ==
    ASSUME Hazards \cap {"unownedJWT", "namesake"} = {}
    PROVE  Spec => []QuietOperatorIsRight
<1>1. QuietInv => QuietOperatorIsRight
  <2> SUFFICES ASSUME QuietInv, Quiet, res.exists, IsTrue(res.status.conds[Happy])
               PROVE  /\ res.status.keyPair = seed.key
                      /\ res.status.signingKeys = sks
                      /\ jwt.claims = OperatorClaimsOf(res)
    BY DEF QuietOperatorIsRight
  <2>1. Right(res)
    BY DEF QuietInv, Quiet, Settled, Ready
  <2> QED
    BY <2>1 DEF Right, SeedManaged
<1>2. Init => TypeInv /\ QuietInv
  <2>1. Init => QuietInv
    BY DEF Init, InitOperator, RuntimeInit, QuietInv, Settled, PastSeed, PastAccount,
           JWTAbsent, JWTSecret
  <2> QED
    BY <2>1, TypeInvInit
<1>3. (TypeInv /\ QuietInv) /\ [Next]_vars => (TypeInv /\ QuietInv)'
  BY TypeInvNext, QuietNext
<1> QED
  BY <1>1, <1>2, <1>3, PTL DEF Spec
=============================================================================
