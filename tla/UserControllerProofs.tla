------------------------ MODULE UserControllerProofs ------------------------
(***************************************************************************)
(* Safety of the User reconciler for every number of generations, keys and *)
(* disturbances, every issuer and every set of hazards.                    *)
(***************************************************************************)
EXTENDS UserController, ControllerRuntimeProofs

(***************************************************************************)
(* What the lifecycle methods do to a copy of the User.                    *)
(***************************************************************************)

(* v is the User u with another status.                                    *)
SameMeta(u, v) ==
    v \in Users /\ v.exists = u.exists /\ v.gen = u.gen /\ v.label = u.label

(* ReadyHasReferences of any copy of the User.  Ready asks for both: under *)
(* it, InitializeConditions makes True the dependents that are missing.    *)
References(u) ==
    /\ IsTrue(u.status.conds["SeedSecretReady"]) => u.status.keyPair # NoKey
    /\ IsTrue(u.status.conds["AccountResolved"]) => u.status.accountRef
    /\ IsTrue(u.status.conds[Happy]) =>
        u.status.keyPair # NoKey /\ u.status.accountRef

(* The condition types of a User.                                          *)
LEMMA DependentFacts ==
    /\ Happy \notin UserDependents
    /\ Happy \in UserTypes
    /\ UserDependents \in SUBSET UserTypes
    /\ \A t \in {"SeedSecretReady", "AccountResolved", "IssuerResolved",
                 "JWTSecretReady", "CredentialsSecretReady"} : t \in UserDependents
BY DEF UserDependents, UserTypes, Happy

(* A status is replaced, and nothing else.                                 *)
LEMMA ReplaceStatus ==
    ASSUME NEW u \in Users, NEW s \in UserStatuses
    PROVE  /\ SameMeta(u, [u EXCEPT !.status = s])
           /\ [u EXCEPT !.status = s].status = s
BY DEF SameMeta, Users

(* The fields of a status whose conditions are replaced.                   *)
LEMMA ReplaceConditions ==
    ASSUME NEW u \in Users, NEW c \in ConditionLists(UserTypes)
    PROVE  LET v == [u EXCEPT !.status.conds = c]
           IN  /\ SameMeta(u, v)
               /\ v.status.conds = c
               /\ v.status.keyPair = u.status.keyPair
               /\ v.status.accountRef = u.status.accountRef
<1> DEFINE s == [u.status EXCEPT !.conds = c]
<1>1. u.status \in UserStatuses
  BY DEF Users
<1>2. /\ s \in UserStatuses /\ s.conds = c
      /\ s.keyPair = u.status.keyPair /\ s.accountRef = u.status.accountRef
  BY <1>1 DEF UserStatuses
<1>3. [u EXCEPT !.status.conds = c] = [u EXCEPT !.status = s]
  OBVIOUS
<1> HIDE DEF s
<1> QED
  BY <1>2, <1>3, ReplaceStatus

(* Users are a kind of resource in the sense of the runtime's lemmas.      *)
LEMMA UsersAreAKind == IsKind(Users, UserStatuses, UserDependents)
<1>1. \A r \in Users : r.exists \in BOOLEAN /\ r.status \in UserStatuses
  BY DEF Users
<1>2. \A r \in Users, s \in UserStatuses : [r EXCEPT !.status = s] \in Users
  BY ReplaceStatus DEF SameMeta
<1>3. ASSUME NEW r \in Users
      PROVE  [r EXCEPT !.status.conds = InitializeConditions(@, UserDependents)] \in Users
  <2>1. r.status.conds \in ConditionLists(UserTypes)
    BY DEF Users, UserStatuses
  <2>2. InitializeConditions(r.status.conds, UserDependents) \in ConditionLists(UserTypes)
    BY <2>1, InitializeConditionsType, DependentFacts
  <2> QED
    BY <2>2, ReplaceConditions DEF SameMeta
<1> QED
  BY <1>1, <1>2, <1>3 DEF IsKind

(* A condition is marked True.                                             *)
LEMMA MarkUserTrueEffect ==
    ASSUME NEW u \in Users, NEW t \in UserDependents
    PROVE  LET v == MarkUserTrue(u, t)
           IN  /\ SameMeta(u, v)
               /\ v.status.keyPair = u.status.keyPair
               /\ v.status.accountRef = u.status.accountRef
               /\ \A d \in UserDependents \ {t} :
                      v.status.conds[d] = u.status.conds[d]
               /\ IsTrue(v.status.conds[Happy]) =>
                      \A d \in UserDependents : IsTrue(v.status.conds[d])
<1> DEFINE c == MarkTrue(u.status.conds, UserDependents, t)
<1>1. u.status.conds \in ConditionLists(UserTypes)
  BY DEF Users, UserStatuses
<1>2. c \in ConditionLists(UserTypes)
  BY <1>1, MarkTrueType, DependentFacts
<1>3. /\ \A d \in UserDependents \ {t} : c[d] = u.status.conds[d]
      /\ IsTrue(c[Happy]) => \A d \in UserDependents : IsTrue(c[d])
  BY <1>1, MarkTrueEffect, DependentFacts
<1>4. MarkUserTrue(u, t) = [u EXCEPT !.status.conds = c]
  BY DEF MarkUserTrue
<1> HIDE DEF c
<1> QED
  BY <1>2, <1>3, <1>4, ReplaceConditions

(* A condition is marked for an error.                                     *)
LEMMA MarkUserErrorEffect ==
    ASSUME NEW u \in Users, NEW t \in UserDependents, NEW err
    PROVE  LET v == MarkUserError(u, t, err)
           IN  /\ SameMeta(u, v)
               /\ v.status.keyPair = u.status.keyPair
               /\ v.status.accountRef = u.status.accountRef
               /\ \A d \in UserDependents \ {t} :
                      v.status.conds[d] = u.status.conds[d]
               /\ ~IsTrue(v.status.conds[t])
               /\ ~IsTrue(v.status.conds[Happy])
<1> DEFINE c == MarkCondition(u.status.conds, UserDependents, t, err)
<1>1. u.status.conds \in ConditionLists(UserTypes)
  BY DEF Users, UserStatuses
<1>2. c \in ConditionLists(UserTypes)
  BY <1>1, MarkConditionType, DependentFacts
<1>3. /\ \A d \in UserDependents \ {t} : c[d] = u.status.conds[d]
      /\ ~IsTrue(c[t]) /\ ~IsTrue(c[Happy])
  BY <1>1, MarkConditionEffect, DependentFacts
<1>4. MarkUserError(u, t, err) = [u EXCEPT !.status.conds = c]
  BY DEF MarkUserError
<1> HIDE DEF c
<1> QED
  BY <1>2, <1>3, <1>4, ReplaceConditions

(* A reference is set or cleared.                                          *)
LEMMA ReplaceReference ==
    ASSUME NEW u \in Users
    PROVE  /\ \A k \in Keys \cup {NoKey} :
                LET v == [u EXCEPT !.status.keyPair = k]
                IN  /\ SameMeta(u, v)
                    /\ v.status.conds = u.status.conds
                    /\ v.status.keyPair = k
                    /\ v.status.accountRef = u.status.accountRef
           /\ \A b \in BOOLEAN :
                LET v == [u EXCEPT !.status.accountRef = b]
                IN  /\ SameMeta(u, v)
                    /\ v.status.conds = u.status.conds
                    /\ v.status.keyPair = u.status.keyPair
                    /\ v.status.accountRef = b
<1> SUFFICES ASSUME NEW k \in Keys \cup {NoKey}, NEW b \in BOOLEAN
             PROVE  /\ LET v == [u EXCEPT !.status.keyPair = k]
                       IN  /\ SameMeta(u, v)
                           /\ v.status.conds = u.status.conds
                           /\ v.status.keyPair = k
                           /\ v.status.accountRef = u.status.accountRef
                    /\ LET v == [u EXCEPT !.status.accountRef = b]
                       IN  /\ SameMeta(u, v)
                           /\ v.status.conds = u.status.conds
                           /\ v.status.keyPair = u.status.keyPair
                           /\ v.status.accountRef = b
  OBVIOUS
<1> DEFINE s == [u.status EXCEPT !.keyPair = k]
           r == [u.status EXCEPT !.accountRef = b]
<1>1. u.status \in UserStatuses
  BY DEF Users
<1>2. /\ s \in UserStatuses /\ s.conds = u.status.conds
      /\ s.keyPair = k /\ s.accountRef = u.status.accountRef
      /\ r \in UserStatuses /\ r.conds = u.status.conds
      /\ r.keyPair = u.status.keyPair /\ r.accountRef = b
  BY <1>1 DEF UserStatuses
<1>3. /\ [u EXCEPT !.status.keyPair = k] = [u EXCEPT !.status = s]
      /\ [u EXCEPT !.status.accountRef = b] = [u EXCEPT !.status = r]
  OBVIOUS
<1> HIDE DEF s, r
<1> QED
  BY <1>2, <1>3, ReplaceStatus

(* v is u with another status, of which the references are as good.        *)
Keeps(u, v) == SameMeta(u, v) /\ (References(u) => References(v))

(* The lifecycle methods keep conditions and references together, change   *)
(* the key pair only where they say so, and after an error the User is not *)
(* Ready.                                                                  *)
LEMMA LifecycleEffects ==
    ASSUME NEW u \in Users, NEW err
    PROVE  /\ \A t \in UserDependents \ {"SeedSecretReady", "AccountResolved"} :
                LET v == MarkUserTrue(u, t)
                IN  Keeps(u, v) /\ v.status.keyPair = u.status.keyPair
           /\ \A t \in UserDependents :
                LET v == MarkUserError(u, t, err)
                IN  /\ Keeps(u, v) /\ v.status.keyPair = u.status.keyPair
                    /\ ~IsTrue(v.status.conds[Happy])
           /\ \A k \in Keys :
                LET v == MarkSeedSecretReady(u, k)
                IN  Keeps(u, v) /\ v.status.keyPair = k
           /\ LET v == MarkSeedSecretError(u, err)
              IN  Keeps(u, v) /\ ~IsTrue(v.status.conds[Happy])
           /\ LET v == MarkAccountResolved(u)
              IN  Keeps(u, v) /\ v.status.keyPair = u.status.keyPair
           /\ LET v == MarkAccountResolveError(u, err)
              IN  /\ Keeps(u, v) /\ v.status.keyPair = u.status.keyPair
                  /\ ~IsTrue(v.status.conds[Happy])
<1>0. NoKey \notin Keys
  BY UserBounds DEF Keys, NoKey
<1>1. ASSUME NEW t \in UserDependents, NEW b \in Users, SameMeta(u, b),
             b.status.conds = u.status.conds,
             t = "SeedSecretReady" \/ b.status.keyPair = u.status.keyPair,
             t = "AccountResolved" \/ b.status.accountRef = u.status.accountRef,
             t = "SeedSecretReady" => b.status.keyPair # NoKey,
             t = "AccountResolved" => b.status.accountRef
      PROVE  LET v == MarkUserTrue(b, t)
             IN  Keeps(u, v) /\ v.status.keyPair = b.status.keyPair
  <2> DEFINE v == MarkUserTrue(b, t)
  <2>1. /\ SameMeta(b, v)
        /\ v.status.keyPair = b.status.keyPair
        /\ v.status.accountRef = b.status.accountRef
        /\ \A d \in UserDependents \ {t} : v.status.conds[d] = b.status.conds[d]
        /\ IsTrue(v.status.conds[Happy]) =>
              \A d \in UserDependents : IsTrue(v.status.conds[d])
    BY <1>1, MarkUserTrueEffect
  <2> HIDE DEF v
  <2> SUFFICES Keeps(u, v) /\ v.status.keyPair = b.status.keyPair
    BY DEF v
  <2> QED
    BY <1>1, <2>1, DependentFacts DEF Keeps, References, SameMeta
<1>2. ASSUME NEW t \in UserDependents, NEW b \in Users, SameMeta(u, b),
             b.status.conds = u.status.conds,
             t = "SeedSecretReady" \/ b.status.keyPair = u.status.keyPair,
             t = "AccountResolved" \/ b.status.accountRef = u.status.accountRef
      PROVE  LET v == MarkUserError(b, t, err)
             IN  /\ Keeps(u, v) /\ v.status.keyPair = b.status.keyPair
                 /\ ~IsTrue(v.status.conds[Happy])
  <2> DEFINE v == MarkUserError(b, t, err)
  <2>1. /\ SameMeta(b, v)
        /\ v.status.keyPair = b.status.keyPair
        /\ v.status.accountRef = b.status.accountRef
        /\ \A d \in UserDependents \ {t} : v.status.conds[d] = b.status.conds[d]
        /\ ~IsTrue(v.status.conds[t])
        /\ ~IsTrue(v.status.conds[Happy])
    BY <1>2, MarkUserErrorEffect
  <2> HIDE DEF v
  <2> SUFFICES /\ Keeps(u, v) /\ v.status.keyPair = b.status.keyPair
               /\ ~IsTrue(v.status.conds[Happy])
    BY DEF v
  <2> QED
    BY <1>2, <2>1, DependentFacts DEF Keeps, References, SameMeta
<1>3. SameMeta(u, u)
  BY DEF SameMeta
<1>4. \A t \in UserDependents \ {"SeedSecretReady", "AccountResolved"} :
        LET v == MarkUserTrue(u, t)
        IN  Keeps(u, v) /\ v.status.keyPair = u.status.keyPair
  BY <1>1, <1>3
<1>5. \A t \in UserDependents :
        LET v == MarkUserError(u, t, err)
        IN  /\ Keeps(u, v) /\ v.status.keyPair = u.status.keyPair
            /\ ~IsTrue(v.status.conds[Happy])
  BY <1>2, <1>3
<1>6. ASSUME NEW k \in Keys
      PROVE  LET v == MarkSeedSecretReady(u, k)
             IN  Keeps(u, v) /\ v.status.keyPair = k
  <2> DEFINE b == [u EXCEPT !.status.keyPair = k]
  <2>1. /\ SameMeta(u, b) /\ b \in Users
        /\ b.status.conds = u.status.conds
        /\ b.status.keyPair = k
        /\ b.status.accountRef = u.status.accountRef
    BY <1>6, ReplaceReference DEF SameMeta
  <2>2. MarkSeedSecretReady(u, k) = MarkUserTrue(b, "SeedSecretReady")
    BY DEF MarkSeedSecretReady
  <2> HIDE DEF b
  <2> QED
    BY <1>0, <1>1, <1>6, <2>1, <2>2, DependentFacts
<1>7. LET v == MarkSeedSecretError(u, err)
      IN  Keeps(u, v) /\ ~IsTrue(v.status.conds[Happy])
  <2> DEFINE b == [u EXCEPT !.status.keyPair = NoKey]
  <2>1. /\ SameMeta(u, b) /\ b \in Users
        /\ b.status.conds = u.status.conds
        /\ b.status.accountRef = u.status.accountRef
    BY ReplaceReference DEF SameMeta
  <2>2. MarkSeedSecretError(u, err) = MarkUserError(b, "SeedSecretReady", err)
    BY DEF MarkSeedSecretError
  <2> HIDE DEF b
  <2> QED
    BY <1>2, <2>1, <2>2, DependentFacts
<1>8. LET v == MarkAccountResolved(u)
      IN  Keeps(u, v) /\ v.status.keyPair = u.status.keyPair
  <2> DEFINE b == [u EXCEPT !.status.accountRef = TRUE]
  <2>1. /\ SameMeta(u, b) /\ b \in Users
        /\ b.status.conds = u.status.conds
        /\ b.status.keyPair = u.status.keyPair
        /\ b.status.accountRef = TRUE
    BY ReplaceReference DEF SameMeta
  <2>2. MarkAccountResolved(u) = MarkUserTrue(b, "AccountResolved")
    BY DEF MarkAccountResolved
  <2> HIDE DEF b
  <2> QED
    BY <1>1, <2>1, <2>2, DependentFacts
<1>9. LET v == MarkAccountResolveError(u, err)
      IN  /\ Keeps(u, v) /\ v.status.keyPair = u.status.keyPair
          /\ ~IsTrue(v.status.conds[Happy])
  <2> DEFINE b == [u EXCEPT !.status.accountRef = FALSE]
  <2>1. /\ SameMeta(u, b) /\ b \in Users
        /\ b.status.conds = u.status.conds
        /\ b.status.keyPair = u.status.keyPair
    BY ReplaceReference DEF SameMeta
  <2>2. MarkAccountResolveError(u, err) = MarkUserError(b, "AccountResolved", err)
    BY DEF MarkAccountResolveError
  <2> HIDE DEF b
  <2> QED
    BY <1>2, <2>1, <2>2, DependentFacts
<1> QED
  BY <1>4, <1>5, <1>6, <1>7, <1>8, <1>9

(***************************************************************************)
(* Type correctness.  TypeOK is not inductive: a key must be left whenever *)
(* the seed Secret is gone, the copy has the key pair that was read in     *)
(* every step that comes after the seed step, and there is an issuer's key *)
(* in every step that comes after the issuer's.                            *)
(***************************************************************************)

PastIssuer == {"account", "labels", "issuerSeed", "jwt", "ca", "creds"}

PastSeed == {"issuer"} \cup PastIssuer

TypeInv ==
    /\ RuntimeInv(Users, Steps)
    /\ seed \in SeedSecrets(Keys)
    /\ nextKey \in 1 .. MaxKeys + 1
    /\ seed.kind = "absent" => nextKey \in Keys
    /\ jwt \in JWTSecrets(Claims)
    /\ creds \in CredsSecrets
    /\ seedKey \in Keys \cup {NoKey}
    /\ issuerKey \in IssuerKeys \cup {NoKey}
    /\ ujwt \in Claims \cup {NoClaims}
    /\ env \in Environments
    /\ pc \in PastSeed => obj.status.keyPair = seedKey /\ seedKey \in Keys
    /\ pc \in PastIssuer => issuerKey \in IssuerKeys

(***************************************************************************)
(* The effect of each step of the reconcile.  Every step but the last goes *)
(* on or returns; what it returns with is retried or leaves the User other *)
(* than Ready.                                                             *)
(***************************************************************************)

Passes(step) ==
    /\ UNCHANGED <<server, objFresh, orig>>
    /\ pc' \in {step, "status"}
    /\ Keeps(obj, obj')
    /\ pc' = "status" => requeue' \/ ~IsTrue(obj'.status.conds[Happy])
    /\ requeue' \in BOOLEAN
    /\ queued' \in BOOLEAN
    /\ budget' \in 0 .. MaxDisturbances

(* What a running reconcile has.                                           *)
LEMMA Running ==
    ASSUME TypeInv, pc # "idle"
    PROVE  /\ obj \in Users /\ orig \in Users
           /\ queued \in BOOLEAN /\ requeue \in BOOLEAN
           /\ budget \in 0 .. MaxDisturbances
           /\ Keeps(obj, obj)
BY DEF TypeInv, RuntimeInv, RuntimeTypeOK, Keeps, SameMeta

(* reconcileSeedSecret goes on only with the key of the seed Secret that   *)
(* it found in order.                                                      *)
LEMMA SeedSecretEffect ==
    ASSUME TypeInv, SeedSecret
    PROVE  /\ Passes("issuer")
           /\ seed' \in SeedSecrets(Keys)
           /\ nextKey' \in 1 .. MaxKeys + 1
           /\ seed'.kind = "absent" => nextKey' \in Keys
           /\ seedKey' \in Keys \cup {NoKey}
           /\ seed' # seed => queued'
           /\ queued => queued'
           /\ pc' = "issuer" => /\ seed' = SeedManaged(seedKey')
                                /\ seedKey' \in Keys
                                /\ obj'.status.keyPair = seedKey'
<1>0. /\ seed \in SeedSecrets(Keys) /\ nextKey \in 1 .. MaxKeys + 1 /\ nextKey \in Nat
      /\ seed.kind = "absent" => nextKey \in Keys
      /\ pc # "idle"
  BY UserBounds DEF TypeInv, SeedSecret
<1>r. /\ obj \in Users /\ queued \in BOOLEAN /\ requeue \in BOOLEAN
      /\ budget \in 0 .. MaxDisturbances
  BY <1>0, Running
<1> PICK o \in ReconcileSeedSecret(seed, nextKey) :
        /\ Pays(o.fault)
        /\ seed' = o.secret
        /\ nextKey' = IF o.secret.key = nextKey THEN nextKey + 1 ELSE nextKey
        /\ queued' = (queued \/ o.secret # seed)
        /\ seedKey' = o.key
        /\ IF o.err # NoError
           THEN Return(MarkSeedSecretError(obj, o.err), AsResult(o.err))
           ELSE ContinueUnless(o.result = Requeue, "issuer",
                               MarkSeedSecretReady(obj, o.key))
  BY DEF SeedSecret
<1>1. /\ o.secret \in SeedSecrets(Keys)
      /\ o.key \in Keys \cup {NoKey}
      /\ o.err = NoError => o.key \in Keys
      /\ o.secret.kind = "absent" => o.secret = seed
  BY <1>0, SeedOutcomeType
<1>2. /\ o.secret.key \in Keys \cup {NoKey}
      /\ o.secret.kind = "absent" => o.secret.key = NoKey
  BY <1>1 DEF SeedSecrets, SeedAbsent, SeedBad
<1>3. /\ nextKey' \in 1 .. MaxKeys + 1
      /\ seed'.kind = "absent" => nextKey' \in Keys
  BY <1>0, <1>1, <1>2, UserBounds DEF Keys, NoKey
<1>4. CASE o.err # NoError
  <2>1. LET v == MarkSeedSecretError(obj, o.err)
        IN  Keeps(obj, v) /\ ~IsTrue(v.status.conds[Happy])
    BY <1>r, LifecycleEffects
  <2>2. pc' = "status" /\ obj' = MarkSeedSecretError(obj, o.err)
    BY <1>4 DEF Return, Goto
  <2>3. requeue' \in BOOLEAN
    BY <1>4, AsResultType, Zenon DEF Return
  <2> QED
    BY <1>r, <1>1, <1>3, <2>1, <2>2, <2>3, PaysType DEF Passes, SeedSecret
<1>5. CASE o.err = NoError
  <2>1. LET v == MarkSeedSecretReady(obj, o.key)
        IN  Keeps(obj, v) /\ v.status.keyPair = o.key
    BY <1>r, <1>1, <1>5, LifecycleEffects
  <2>2. /\ obj' = MarkSeedSecretReady(obj, o.key)
        /\ \/ pc' = "status" /\ requeue' = TRUE
           \/ pc' = "issuer" /\ requeue' = requeue /\ o.result # Requeue
    BY <1>5 DEF ContinueUnless, Continue, Return, Goto
  <2>3. pc' = "issuer" => o.secret = SeedManaged(o.key)
    BY <1>0, <1>5, <2>2, SeedInOrder
  <2> QED
    BY <1>r, <1>1, <1>3, <1>5, <2>1, <2>2, <2>3, PaysType DEF Passes, SeedSecret
<1> QED
  BY <1>4, <1>5

(* resolveIssuer remembers the key that the cached issuer publishes.       *)
LEMMA ResolveIssuerEffect ==
    ASSUME TypeInv, ResolveIssuerStep
    PROVE  /\ Passes("account")
           /\ obj'.status.keyPair = obj.status.keyPair
           /\ issuerKey' \in {issuerKey, env.key}
           /\ pc' = "account" => issuerKey' = env.key
<1>0. pc # "idle"
  BY DEF ResolveIssuerStep
<1>r. /\ obj \in Users /\ queued \in BOOLEAN /\ requeue \in BOOLEAN
      /\ budget \in 0 .. MaxDisturbances /\ Keeps(obj, obj)
  BY <1>0, Running
<1>1. \A e : LET v == MarkUserError(obj, "IssuerResolved", e)
             IN  /\ Keeps(obj, v) /\ v.status.keyPair = obj.status.keyPair
                 /\ ~IsTrue(v.status.conds[Happy])
  BY <1>r, LifecycleEffects, DependentFacts
<1>2. \/ pc' = "account" /\ obj' = obj /\ issuerKey' = env.key
      \/ /\ pc' = "status" /\ issuerKey' = issuerKey
         /\ \E e : obj' = MarkUserError(obj, "IssuerResolved", e)
  BY DEF ResolveIssuerStep, Return, Continue, Goto
<1>3. requeue' \in BOOLEAN
  BY <1>r, AsResultType, Zenon DEF ResolveIssuerStep, Return, Continue
<1>4. budget' \in 0 .. MaxDisturbances
  BY <1>r, DisturbType DEF ResolveIssuerStep
<1>5. UNCHANGED <<server, queued, objFresh, orig>>
  BY DEF ResolveIssuerStep
<1> QED
  BY <1>r, <1>1, <1>2, <1>3, <1>4, <1>5 DEF Passes

(* resolveAccount, with the owner that is waited for without a mark.       *)
LEMMA ResolveAccountEffect ==
    ASSUME TypeInv, ResolveAccountStep
    PROVE  /\ Passes("labels")
           /\ obj'.status.keyPair = obj.status.keyPair
<1>0. pc # "idle"
  BY DEF ResolveAccountStep
<1>r. /\ obj \in Users /\ queued \in BOOLEAN /\ requeue \in BOOLEAN
      /\ budget \in 0 .. MaxDisturbances /\ Keeps(obj, obj)
  BY <1>0, Running
<1>1. /\ \A e : LET v == MarkAccountResolveError(obj, e)
                IN  /\ Keeps(obj, v) /\ v.status.keyPair = obj.status.keyPair
                    /\ ~IsTrue(v.status.conds[Happy])
      /\ LET v == MarkAccountResolved(obj)
         IN  Keeps(obj, v) /\ v.status.keyPair = obj.status.keyPair
  BY <1>r, LifecycleEffects
<1>2. \/ pc' = "labels" /\ obj' = MarkAccountResolved(obj)
      \/ pc' = "status" /\ \E e : obj' = MarkAccountResolveError(obj, e)
      \/ pc' = "status" /\ obj' = obj /\ requeue' = TRUE
  BY DEF ResolveAccountStep, Return, Continue, Goto
<1>3. requeue' \in BOOLEAN
  BY <1>r, AsResultType, Zenon DEF ResolveAccountStep, Return, Continue
<1>4. budget' \in 0 .. MaxDisturbances
  BY <1>r, DisturbType DEF ResolveAccountStep
<1>5. UNCHANGED <<server, queued, objFresh, orig>>
  BY DEF ResolveAccountStep
<1> QED
  BY <1>r, <1>1, <1>2, <1>3, <1>4, <1>5 DEF Passes

(* loadIssuerSeed goes on only with a seed of the key that was resolved.   *)
LEMMA LoadIssuerSeedEffect ==
    ASSUME TypeInv, LoadIssuerSeed
    PROVE  /\ Passes("jwt")
           /\ obj'.status.keyPair = obj.status.keyPair
           /\ issuerKey' = issuerKey
<1>0. pc # "idle"
  BY DEF LoadIssuerSeed
<1>r. /\ obj \in Users /\ queued \in BOOLEAN /\ requeue \in BOOLEAN
      /\ budget \in 0 .. MaxDisturbances /\ Keeps(obj, obj)
  BY <1>0, Running
<1>1. ASSUME NEW e
      PROVE  LET v == MarkUserError(MarkUserError(obj, "IssuerResolved", e),
                                    "JWTSecretReady", e)
             IN  /\ Keeps(obj, v) /\ v.status.keyPair = obj.status.keyPair
                 /\ ~IsTrue(v.status.conds[Happy])
  <2> DEFINE b == MarkUserError(obj, "IssuerResolved", e)
  <2>1. Keeps(obj, b) /\ b.status.keyPair = obj.status.keyPair
    BY <1>r, LifecycleEffects, DependentFacts
  <2>2. b \in Users
    BY <2>1 DEF Keeps, SameMeta
  <2>3. LET v == MarkUserError(b, "JWTSecretReady", e)
        IN  /\ Keeps(b, v) /\ v.status.keyPair = b.status.keyPair
            /\ ~IsTrue(v.status.conds[Happy])
    BY <2>2, LifecycleEffects, DependentFacts
  <2> HIDE DEF b
  <2>4. LET v == MarkUserError(b, "JWTSecretReady", e)
        IN  /\ Keeps(obj, v) /\ v.status.keyPair = obj.status.keyPair
            /\ ~IsTrue(v.status.conds[Happy])
    BY <2>1, <2>3 DEF Keeps, SameMeta
  <2> QED
    BY <2>4 DEF b
<1>2. LET v == MarkUserTrue(obj, "IssuerResolved")
      IN  Keeps(obj, v) /\ v.status.keyPair = obj.status.keyPair
  BY <1>r, LifecycleEffects, DependentFacts
<1>3. IssuerSeedError(issuerKey, env.seed) = NoError => env.seed.key = issuerKey
  BY ErrorsDiffer DEF IssuerSeedError
<1>4. /\ \/ pc' = "jwt" /\ obj' = MarkUserTrue(obj, "IssuerResolved")
         \/ /\ pc' = "status"
            /\ \E e : obj' = MarkUserError(MarkUserError(obj, "IssuerResolved", e),
                                           "JWTSecretReady", e)
      /\ issuerKey' = issuerKey
  BY <1>3 DEF LoadIssuerSeed, Return, Continue, Goto
<1>5. requeue' \in BOOLEAN
  BY <1>r, AsResultType, Zenon DEF LoadIssuerSeed, Return, Continue
<1>6. budget' \in 0 .. MaxDisturbances
  BY <1>r, DisturbType DEF LoadIssuerSeed
<1>7. UNCHANGED <<server, queued, objFresh, orig>>
  BY DEF LoadIssuerSeed
<1> QED
  BY <1>r, <1>1, <1>2, <1>4, <1>5, <1>6, <1>7 DEF Passes

(* The claims of a copy that has a key pair.                               *)
LEMMA ClaimsOfType ==
    ASSUME NEW u \in Users, u.status.keyPair \in Keys, NEW iss \in IssuerKeys
    PROVE  ClaimsOf(u, iss) \in Claims
BY DEF ClaimsOf, Claims, Users

(* reconcileJWTSecret goes on only with the claims of the copy, signed by  *)
(* the issuer's key.                                                       *)
LEMMA JWTSecretEffect ==
    ASSUME TypeInv, JWTSecretStep
    PROVE  /\ Passes("ca")
           /\ obj'.status.keyPair = obj.status.keyPair
           /\ jwt' \in JWTSecrets(Claims)
           /\ jwt' \in {jwt, JWTAbsent,
                        JWTSecret("present", TRUE, ClaimsOf(obj, issuerKey))}
           /\ ujwt' = jwt'.claims
           /\ jwt' # jwt => queued'
           /\ queued => queued'
           /\ pc' = "ca" => jwt' = jwt /\ ujwt' = ClaimsOf(obj, issuerKey)
<1>0. /\ pc # "idle" /\ obj.status.keyPair \in Keys /\ issuerKey \in IssuerKeys
      /\ jwt \in JWTSecrets(Claims)
  BY DEF JWTSecretStep, TypeInv, PastSeed, PastIssuer
<1>r. /\ obj \in Users /\ queued \in BOOLEAN /\ requeue \in BOOLEAN
      /\ budget \in 0 .. MaxDisturbances /\ Keeps(obj, obj)
  BY <1>0, Running
<1> PICK o \in ReconcileJWTSecret(jwt, ClaimsOf(obj, issuerKey)) :
        /\ Pays(o.fault)
        /\ jwt' = o.secret
        /\ queued' = (queued \/ o.secret # jwt)
        /\ ujwt' = o.secret.claims
        /\ IF o.err # NoError
           THEN Return(MarkUserError(obj, "JWTSecretReady", o.err), AsResult(o.err))
           ELSE ContinueUnless(o.result = Requeue, "ca",
                               MarkUserTrue(obj, "JWTSecretReady"))
  BY DEF JWTSecretStep
<1>1. /\ o.secret \in JWTSecrets(Claims)
      /\ o.secret \in {jwt, JWTAbsent,
                       JWTSecret("present", TRUE, ClaimsOf(obj, issuerKey))}
  BY <1>0, <1>r, ClaimsOfType, JWTOutcomeType, JWTOutcomes
<1>2. /\ LET v == MarkUserTrue(obj, "JWTSecretReady")
         IN  Keeps(obj, v) /\ v.status.keyPair = obj.status.keyPair
      /\ LET v == MarkUserError(obj, "JWTSecretReady", o.err)
         IN  /\ Keeps(obj, v) /\ v.status.keyPair = obj.status.keyPair
             /\ ~IsTrue(v.status.conds[Happy])
  BY <1>r, LifecycleEffects, DependentFacts
<1>3. \/ /\ pc' = "status"
         /\ obj' = MarkUserError(obj, "JWTSecretReady", o.err)
      \/ /\ obj' = MarkUserTrue(obj, "JWTSecretReady")
         /\ \/ pc' = "status" /\ requeue' = TRUE
            \/ pc' = "ca" /\ o.err = NoError /\ o.result # Requeue
  BY DEF ContinueUnless, Continue, Return, Goto
<1>4. requeue' \in BOOLEAN
  BY <1>r, AsResultType, Zenon DEF ContinueUnless, Continue, Return
<1>5. pc' = "ca" => o.secret = jwt /\ jwt.claims = ClaimsOf(obj, issuerKey)
  BY <1>0, <1>3, JWTInOrder
<1>6. UNCHANGED <<server, objFresh, orig>>
  BY DEF JWTSecretStep
<1>7. budget' \in 0 .. MaxDisturbances
  BY <1>r, PaysType
<1> QED
  BY <1>r, <1>1, <1>2, <1>3, <1>4, <1>5, <1>6, <1>7 DEF Passes

(* getCAIfExists changes nothing of the copy.                              *)
LEMMA GetCAEffect ==
    ASSUME TypeInv, GetCAIfExists
    PROVE  Passes("creds") /\ obj' = obj
<1>0. pc # "idle"
  BY DEF GetCAIfExists
<1>r. /\ obj \in Users /\ queued \in BOOLEAN /\ requeue \in BOOLEAN
      /\ budget \in 0 .. MaxDisturbances /\ Keeps(obj, obj)
  BY <1>0, Running
<1>1. /\ obj' = obj
      /\ \/ pc' = "creds" /\ requeue' = requeue
         \/ pc' = "status" /\ requeue' = TRUE
  BY DEF GetCAIfExists, Return, Continue, Goto
<1>2. budget' \in 0 .. MaxDisturbances
  BY <1>r, DisturbType DEF GetCAIfExists
<1>3. UNCHANGED <<server, queued, objFresh, orig>>
  BY DEF GetCAIfExists
<1> QED
  BY <1>r, <1>1, <1>2, <1>3 DEF Passes

(* The credentials that the reconcile wants.                               *)
Wanted == CredsSecret("present", ujwt, seedKey, TRUE)

(* reconcileUserCredentialSecret leaves the Secret as it was or writes the *)
(* wanted one, and only the one that was wanted ends the reconcile without *)
(* a retry or a mark.                                                      *)
LEMMA CredentialsEffect ==
    ASSUME TypeInv, CredentialsStep
    PROVE  /\ UNCHANGED <<server, objFresh, orig>>
           /\ pc' = "status"
           /\ Keeps(obj, obj')
           /\ obj'.status.keyPair = obj.status.keyPair
           /\ requeue' \in BOOLEAN
           /\ queued' \in BOOLEAN
           /\ budget' \in 0 .. MaxDisturbances
           /\ creds' \in {creds, Wanted}
           /\ creds' # creds => queued'
           /\ queued => queued'
           /\ ~requeue' /\ IsTrue(obj'.status.conds[Happy]) => creds' = Wanted
<1>0. pc # "idle"
  BY DEF CredentialsStep
<1>r. /\ obj \in Users /\ queued \in BOOLEAN /\ requeue \in BOOLEAN
      /\ budget \in 0 .. MaxDisturbances /\ Keeps(obj, obj)
  BY <1>0, Running
<1> PICK o \in ReconcileUserCredentialSecret(creds, Wanted) :
        /\ Pays(o.fault)
        /\ creds' = o.secret
        /\ queued' = (queued \/ o.secret # creds)
        /\ Return(IF o.mark = NoError
                  THEN MarkUserTrue(obj, "CredentialsSecretReady")
                  ELSE MarkUserError(obj, "CredentialsSecretReady", o.mark), o.again)
  BY DEF CredentialsStep, Wanted
<1>1. \/ o = CredsOutcome(creds, PlainError(ConditionUnknown), TRUE, Fault)
      \/ o = CredsOutcome(creds, Failed, TRUE, Clean)
      \/ o = CredsOutcome(creds, NoError, FALSE, Clean) /\ creds = Wanted
      \/ o = CredsOutcome(Wanted, NoError, TRUE, Clean)
      \/ o = CredsOutcome(creds, Failed, TRUE, Fault)
      \/ o = CredsOutcome(Wanted, Failed, TRUE, Fault)
  BY DEF ReconcileUserCredentialSecret, WriteCredentials
<1>3. /\ o.secret \in {creds, Wanted}
      /\ o.again = TRUE \/ (o.again = FALSE /\ o.secret = Wanted)
  <2>1. CASE o = CredsOutcome(creds, NoError, FALSE, Clean) /\ creds = Wanted
    <3>1. o.again = FALSE
      BY <2>1 DEF CredsOutcome
    <3>2. o.secret = creds
      BY <2>1 DEF CredsOutcome
    <3> QED
      BY <2>1, <3>1, <3>2
  <2>2. CASE \E mark, fault : \/ o = CredsOutcome(creds, mark, TRUE, fault)
                              \/ o = CredsOutcome(Wanted, mark, TRUE, fault)
    <3>1. PICK mark, fault : \/ o = CredsOutcome(creds, mark, TRUE, fault)
                             \/ o = CredsOutcome(Wanted, mark, TRUE, fault)
      BY <2>2
    <3>2. o.again = TRUE
      BY <3>1 DEF CredsOutcome
    <3>3. o.secret = creds \/ o.secret = Wanted
      BY <3>1 DEF CredsOutcome
    <3> QED
      BY <3>2, <3>3
  <2> QED
    BY <1>1, <2>1, <2>2
<1>4. /\ LET v == MarkUserTrue(obj, "CredentialsSecretReady")
         IN  Keeps(obj, v) /\ v.status.keyPair = obj.status.keyPair
      /\ LET v == MarkUserError(obj, "CredentialsSecretReady", o.mark)
         IN  Keeps(obj, v) /\ v.status.keyPair = obj.status.keyPair
  BY <1>r, LifecycleEffects, DependentFacts
<1>5. /\ pc' = "status" /\ requeue' = o.again
      /\ \/ obj' = MarkUserTrue(obj, "CredentialsSecretReady")
         \/ obj' = MarkUserError(obj, "CredentialsSecretReady", o.mark)
  BY DEF Return, Goto
<1>6. UNCHANGED <<server, objFresh, orig>>
  BY DEF CredentialsStep
<1>7. budget' \in 0 .. MaxDisturbances
  BY <1>r, PaysType
<1> QED
  BY <1>r, <1>3, <1>4, <1>5, <1>6, <1>7

(* Decoding the server's answer into a copy returns a User with the gen of *)
(* the answer and references as good as those of the two.                  *)
LEMMA DecodeUser ==
    ASSUME NEW o \in Users, NEW a \in Users
    PROVE  /\ SameMeta(a, DecodeInto(o, a, NoStatus))
           /\ References(o) /\ References(a) => References(DecodeInto(o, a, NoStatus))
<1> DEFINE s == [f \in DOMAIN NoStatus |->
                    IF a.status[f] = NoStatus[f] THEN o.status[f] ELSE a.status[f]]
<1>1. DOMAIN NoStatus = {"conds", "keyPair", "accountRef"}
  BY DEF NoStatus
<1>2. /\ NoStatus.conds = [t \in UserTypes |-> NoCondition]
      /\ NoStatus.keyPair = NoKey
      /\ NoStatus.accountRef = FALSE
  BY DEF NoStatus
<1>3. /\ s.conds = IF a.status.conds = NoStatus.conds THEN o.status.conds ELSE a.status.conds
      /\ s.keyPair = IF a.status.keyPair = NoKey THEN o.status.keyPair ELSE a.status.keyPair
      /\ s.accountRef = IF a.status.accountRef = FALSE THEN o.status.accountRef
                                                       ELSE a.status.accountRef
  BY <1>1, <1>2
<1>4. s \in UserStatuses
  <2>1. s = [conds |-> s.conds, keyPair |-> s.keyPair, accountRef |-> s.accountRef]
    BY <1>1
  <2>2. o.status \in UserStatuses /\ a.status \in UserStatuses
    BY DEF Users
  <2>3. /\ s.conds \in ConditionLists(UserTypes) /\ s.keyPair \in Keys \cup {NoKey}
        /\ s.accountRef \in BOOLEAN
    <3> HIDE DEF s
    <3> QED
      BY <1>3, <2>2 DEF UserStatuses
  <2> HIDE DEF s
  <2> QED
    BY <2>1, <2>3 DEF UserStatuses
<1>5. DecodeInto(o, a, NoStatus) = [a EXCEPT !.status = s]
  BY DEF DecodeInto
<1> HIDE DEF s
<1>6. SameMeta(a, DecodeInto(o, a, NoStatus)) /\ DecodeInto(o, a, NoStatus).status = s
  BY <1>4, <1>5, ReplaceStatus
<1>7. ASSUME References(o), References(a)
      PROVE  References(DecodeInto(o, a, NoStatus))
  BY <1>3, <1>6, <1>7 DEF References, Users, UserStatuses
<1> QED
  BY <1>6, <1>7

(* A User after reconcileLabels' Update.                                   *)
Labelled == [res EXCEPT !.label = TRUE]

(* The label is written to the latest version only, and every Update ends  *)
(* the reconcile with a requeue.                                           *)
LEMMA ReconcileLabelsEffect ==
    ASSUME TypeInv, ReconcileLabels
    PROVE  \/ /\ Passes("issuerSeed")
              /\ pc' = "issuerSeed"
              /\ obj' = obj
           \/ /\ RuntimeInv(Users, Steps)'
              /\ pc' = "status"
              /\ requeue' = TRUE
              /\ UNCHANGED <<cached, old, orig>>
              /\ res' \in {res, Labelled}
              /\ References(obj) /\ References(res) => References(obj') /\ References(res')
              /\ cacheFresh' => UNCHANGED <<res, cacheFresh, obj, objFresh>>
<1>0. pc # "idle" /\ RuntimeInv(Users, Steps) /\ res \in Users
  BY DEF ReconcileLabels, TypeInv, RuntimeInv, RuntimeTypeOK
<1>r. /\ obj \in Users /\ queued \in BOOLEAN /\ requeue \in BOOLEAN
      /\ budget \in 0 .. MaxDisturbances /\ Keeps(obj, obj)
  BY <1>0, Running
<1>1. CASE obj.label
  BY <1>r, <1>1 DEF ReconcileLabels, Continue, Goto, Passes
<1>2. CASE ~obj.label
  <2>1. UpdateResource(Labelled, NoStatus) /\ UNCHANGED <<queued, orig>>
    BY <1>2 DEF ReconcileLabels, Labelled
  <2>2. /\ Labelled \in Users
        /\ Labelled.status = res.status
    BY <1>0 DEF Labelled, Users
  <2>3. DecodeInto(obj, Labelled, NoStatus) \in Users
    BY <1>r, <2>2, DecodeUser DEF SameMeta
  <2>4. RuntimeInv(Users, Steps)' /\ pc' = "status"
    BY <1>0, <2>1, <2>2, <2>3, UpdateResourceType
  <2>5. /\ requeue' = TRUE
        /\ cached' = cached /\ old' = old
        /\ res' \in {res, Labelled}
        /\ obj' \in {obj, DecodeInto(obj, Labelled, NoStatus)}
        /\ cacheFresh' => UNCHANGED <<res, cacheFresh, obj, objFresh>>
    BY <2>1 DEF UpdateResource, Return, Goto, server
  <2>6. References(res) => References(Labelled)
    BY <2>2 DEF References
  <2>7. References(obj) /\ References(res) => References(obj') /\ References(res')
    BY <1>r, <2>2, <2>5, <2>6, DecodeUser
  <2> QED
    BY <2>1, <2>4, <2>5, <2>7
<1> QED
  BY <1>1, <1>2

(* A step that goes on or returns keeps the runtime's part of TypeInv.     *)
LEMMA PassesType ==
    ASSUME TypeInv, pc # "idle", NEW step \in Steps, Passes(step)
    PROVE  RuntimeInv(Users, Steps)'
<1>1. RuntimeInv(Users, Steps) /\ obj' \in Users
  BY DEF TypeInv, Passes, Keeps, SameMeta
<1> QED
  BY <1>1, LocalStepType DEF Passes

(* Every step of the reconcile keeps TypeInv.                              *)
LEMMA TypeInvReconcile ==
    ASSUME TypeInv, Reconcile
    PROVE  TypeInv'
<1> USE DEF PastSeed, PastIssuer
<1>1. CASE Start
  <2>1. RuntimeInv(Users, Steps)'
    BY <1>1, UsersAreAKind, StartReconcileType DEF Start, TypeInv, Steps
  <2>2. pc' \in {"seed", "idle"}
    BY <1>1 DEF Start, StartReconcile, Continue, Goto, local
  <2> QED
    BY <1>1, <2>1, <2>2 DEF Start, TypeInv, secrets, memory
<1>2. CASE SeedSecret
  <2>1. pc # "idle"
    BY <1>2 DEF SeedSecret
  <2>2. RuntimeInv(Users, Steps)'
    BY <1>2, <2>1, SeedSecretEffect, PassesType DEF Steps
  <2> QED
    BY <1>2, <2>2, SeedSecretEffect DEF SeedSecret, TypeInv, Passes
<1>3. CASE ResolveIssuerStep
  <2>1. pc = "issuer" /\ env.key \in IssuerKeys
    BY <1>3 DEF ResolveIssuerStep, TypeInv, Environments
  <2>2. RuntimeInv(Users, Steps)'
    BY <1>3, <2>1, ResolveIssuerEffect, PassesType DEF Steps
  <2> QED
    BY <1>3, <2>1, <2>2, ResolveIssuerEffect
       DEF ResolveIssuerStep, TypeInv, Passes, secrets
<1>4. CASE ResolveAccountStep
  <2>1. pc = "account"
    BY <1>4 DEF ResolveAccountStep
  <2>2. RuntimeInv(Users, Steps)'
    BY <1>4, <2>1, ResolveAccountEffect, PassesType DEF Steps
  <2> QED
    BY <1>4, <2>1, <2>2, ResolveAccountEffect
       DEF ResolveAccountStep, TypeInv, Passes, secrets, memory
<1>5. CASE ReconcileLabels
  <2>1. pc = "labels"
    BY <1>5 DEF ReconcileLabels
  <2>2. RuntimeInv(Users, Steps)'
    BY <1>5, <2>1, ReconcileLabelsEffect, PassesType DEF Steps
  <2> QED
    BY <1>5, <2>1, <2>2, ReconcileLabelsEffect
       DEF ReconcileLabels, TypeInv, secrets, memory
<1>6. CASE LoadIssuerSeed
  <2>1. pc = "issuerSeed"
    BY <1>6 DEF LoadIssuerSeed
  <2>2. RuntimeInv(Users, Steps)'
    BY <1>6, <2>1, LoadIssuerSeedEffect, PassesType DEF Steps
  <2> QED
    BY <1>6, <2>1, <2>2, LoadIssuerSeedEffect
       DEF LoadIssuerSeed, TypeInv, Passes, secrets
<1>7. CASE JWTSecretStep
  <2>1. pc = "jwt"
    BY <1>7 DEF JWTSecretStep
  <2>2. RuntimeInv(Users, Steps)'
    BY <1>7, <2>1, JWTSecretEffect, PassesType DEF Steps
  <2>3. \A j \in JWTSecrets(Claims) : j.claims \in Claims \cup {NoClaims}
    BY DEF JWTSecrets, JWTSecret, JWTAbsent
  <2> QED
    BY <1>7, <2>1, <2>2, <2>3, JWTSecretEffect DEF JWTSecretStep, TypeInv, Passes
<1>8. CASE GetCAIfExists
  <2>1. pc = "ca"
    BY <1>8 DEF GetCAIfExists
  <2>2. RuntimeInv(Users, Steps)'
    BY <1>8, <2>1, GetCAEffect, PassesType DEF Steps
  <2> QED
    BY <1>8, <2>1, <2>2, GetCAEffect DEF GetCAIfExists, TypeInv, Passes, secrets, memory
<1>9. CASE CredentialsStep
  <2>1. pc = "creds"
    BY <1>9 DEF CredentialsStep
  <2>2. RuntimeInv(Users, Steps) /\ pc # "idle" /\ obj' \in Users
    BY <1>9, <2>1, CredentialsEffect DEF TypeInv, Keeps, SameMeta
  <2>3. RuntimeInv(Users, Steps)'
    BY <1>9, <2>2, CredentialsEffect, LocalStepType
  <2>4. Wanted \in CredsSecrets
    BY DEF TypeInv, Wanted, CredsSecret, CredsSecrets
  <2> QED
    BY <1>9, <2>3, <2>4, CredentialsEffect DEF CredentialsStep, TypeInv, memory
<1>10. CASE StoreStatus
  <2>1. RuntimeInv(Users, Steps)' /\ pc' = "idle"
    BY <1>10, UsersAreAKind, UpdateStatusType DEF StoreStatus, UpdateStatus, TypeInv
  <2> QED
    BY <1>10, <2>1 DEF StoreStatus, ForgetMemory, TypeInv, secrets
<1> QED
  BY <1>1, <1>2, <1>3, <1>4, <1>5, <1>6, <1>7, <1>8, <1>9, <1>10 DEF Reconcile

(* A change of what the User depends on is paid for, or free, and reaches  *)
(* the queue at most.                                                      *)
LEMMA EnvironmentEffect ==
    ASSUME TypeInv,
           \/ ChangeAccount \/ ChangeSigningKey \/ ChangeOperator \/ ChangeIssuerSeed
           \/ PublishIssuerKey \/ AccountEvent
    PROVE  /\ RuntimeInv(Users, Steps)'
           /\ env' \in Environments
           /\ queued => queued'
           /\ UNCHANGED <<server, local, secrets, memory>>
<1>0. /\ RuntimeInv(Users, Steps) /\ env \in Environments
      /\ budget \in 0 .. MaxDisturbances /\ queued \in BOOLEAN
  BY DEF TypeInv, RuntimeInv, RuntimeTypeOK
<1>1. budget' \in 0 .. MaxDisturbances
  BY <1>0, DisturbType
     DEF ChangeAccount, ChangeSigningKey, ChangeOperator, ChangeIssuerSeed,
         PublishIssuerKey, AccountEvent
<1>2. /\ EnqueueIf(cached.exists /\ cached.label) \/ EnqueueIf(FALSE)
      /\ UNCHANGED <<secrets, memory>>
  BY DEF ChangeAccount, ChangeSigningKey, ChangeOperator, ChangeIssuerSeed,
         PublishIssuerKey, AccountEvent, UserAccountWatcher, Unnoticed
<1>3. RuntimeInv(Users, Steps)'
  BY <1>0, <1>1, <1>2, EnqueueIfType
<1>4. \A k \in IssuerKeys : SeedManaged(k) \in SeedSecrets(IssuerKeys)
  BY DEF SeedManaged, SeedSecrets
<1>5. env' \in Environments
  <2>1. CASE ChangeAccount \/ ChangeSigningKey \/ ChangeOperator \/ AccountEvent
    BY <1>0, <2>1
       DEF ChangeAccount, ChangeSigningKey, ChangeOperator, AccountEvent, Environments
  <2>2. CASE ChangeIssuerSeed
    <3>1. env.key \in IssuerKeys
      BY <1>0 DEF Environments
    <3>2. env.key < MaxIssuerKeys => env.key + 1 \in IssuerKeys
      BY <3>1, UserBounds DEF IssuerKeys
    <3>3. PICK s \in SeedSecrets(IssuerKeys) : env' = [env EXCEPT !.seed = s]
      <4>1. SeedAbsent \in SeedSecrets(IssuerKeys) /\ SeedBad \in SeedSecrets(IssuerKeys)
        BY DEF SeedSecrets
      <4> QED
        BY <1>4, <2>2, <3>1, <3>2, <4>1 DEF ChangeIssuerSeed
    <3> QED
      BY <1>0, <3>3 DEF Environments
  <2>3. CASE PublishIssuerKey
    <3>1. env.seed.key \in IssuerKeys
      BY <1>0, <2>3 DEF PublishIssuerKey, Environments, SeedSecrets, SeedAbsent, SeedBad
    <3>2. PICK news \in BOOLEAN :
            env' = [env EXCEPT !.key = env.seed.key, !.news = news]
      BY <2>3 DEF PublishIssuerKey
    <3> QED
      BY <1>0, <3>1, <3>2 DEF Environments
  <2> QED
    BY <2>1, <2>2, <2>3
<1> QED
  BY <1>0, <1>2, <1>3, <1>5 DEF EnqueueIf

(* A Secret that is lost or tampered with reaches the queue when it is the *)
(* controller's own.                                                       *)
LEMMA TamperEffect ==
    ASSUME TypeInv, DeleteSeed \/ TamperJWT \/ TamperCredentials
    PROVE  /\ RuntimeInv(Users, Steps)'
           /\ UNCHANGED <<server, local, memory, env>>
           /\ queued => queued'
           /\ \/ /\ seed' = SeedAbsent /\ nextKey \in Keys
                 /\ seed.managed => queued'
                 /\ UNCHANGED <<nextKey, jwt, creds>>
              \/ /\ jwt' \in JWTSecrets(Claims)
                 /\ "unownedJWT" \notin Hazards => jwt'.claims = NoClaims
                 /\ jwt.owned => queued'
                 /\ UNCHANGED <<seed, nextKey, creds>>
              \/ /\ creds' \in {CredsAbsent, CredsForeign,
                                CredsSecret("present", NoClaims, NoKey, creds.owned)}
                 /\ creds.owned => queued'
                 /\ UNCHANGED <<seed, nextKey, jwt>>
<1>0. /\ RuntimeInv(Users, Steps) /\ budget \in 0 .. MaxDisturbances
      /\ queued \in BOOLEAN /\ nextKey \in 1 .. MaxKeys + 1
  BY DEF TypeInv, RuntimeInv, RuntimeTypeOK
<1>1. budget' \in 0 .. MaxDisturbances
  BY <1>0, DisturbType DEF DeleteSeed, TamperJWT, TamperCredentials
<1>2. EnqueueIf(seed.managed) \/ EnqueueIf(jwt.owned) \/ EnqueueIf(creds.owned)
  BY DEF DeleteSeed, TamperJWT, TamperCredentials
<1>3. RuntimeInv(Users, Steps)'
  BY <1>0, <1>1, <1>2, EnqueueIfType
<1>4. UNCHANGED <<server, local, memory, env>> /\ (queued => queued')
  BY <1>2 DEF EnqueueIf, DeleteSeed, TamperJWT, TamperCredentials
<1>5. CASE DeleteSeed
  <2>1. nextKey \in Keys
    BY <1>0, <1>5, UserBounds DEF DeleteSeed, Keys
  <2> QED
    BY <1>3, <1>4, <1>5, <2>1 DEF DeleteSeed, EnqueueIf
<1>6. CASE TamperJWT
  <2>1. jwt \in JWTSecrets(Claims)
    BY DEF TypeInv
  <2>2. PICK next \in TamperedJWTSecrets(jwt) :
            TamperingWith(next) \in Hazards /\ jwt' = next /\ EnqueueIf(jwt.owned)
    BY <1>6 DEF TamperJWT, Disturb
  <2>3. /\ next \in JWTSecrets(Claims)
        /\ "unownedJWT" \notin Hazards => next.claims = NoClaims
    BY <2>1, <2>2, TamperedFacts
  <2> QED
    BY <1>3, <1>4, <1>6, <2>2, <2>3 DEF TamperJWT, EnqueueIf
<1>7. CASE TamperCredentials
  BY <1>3, <1>4, <1>7 DEF TamperCredentials, EnqueueIf
<1> QED
  BY <1>5, <1>6, <1>7

(* Every step keeps TypeInv.                                               *)
LEMMA TypeInvNext == TypeInv /\ [Next]_vars => TypeInv'
<1> SUFFICES ASSUME TypeInv, [Next]_vars PROVE TypeInv'
  OBVIOUS
<1> USE DEF PastSeed, PastIssuer
<1>0. /\ RuntimeInv(Users, Steps) /\ res \in Users
      /\ budget \in 0 .. MaxDisturbances
  BY DEF TypeInv, RuntimeInv, RuntimeTypeOK
<1>1. CASE Reconcile
  BY <1>1, TypeInvReconcile
<1>2. CASE SyncCache \/ ResyncUser
  <2>1. RuntimeInv(Users, Steps)'
    BY <1>0, <1>2, InformerType DEF SyncCache, ResyncUser
  <2>2. UNCHANGED <<pc, obj, secrets, memory, env>>
    BY <1>2 DEF SyncCache, ResyncUser, CacheSync, Resync, local
  <2> QED
    BY <2>1, <2>2 DEF TypeInv, secrets, memory
<1>3. CASE \/ ChangeAccount \/ ChangeSigningKey \/ ChangeOperator \/ ChangeIssuerSeed
           \/ PublishIssuerKey \/ AccountEvent
  BY <1>3, EnvironmentEffect DEF TypeInv, local, secrets, memory
<1>4. CASE EditSpec \/ DeleteUser
  <2>1. /\ \A g \in Gens : [res EXCEPT !.gen = g] \in Users
        /\ [res EXCEPT !.exists = FALSE] \in Users
    BY <1>0 DEF Users
  <2>2. res.gen < MaxGen => res.gen + 1 \in Gens
    BY <1>0, UserBounds DEF Users, Gens
  <2>3. \/ /\ ForeignWrite([res EXCEPT !.gen = res.gen + 1])
           /\ [res EXCEPT !.gen = res.gen + 1] \in Users
        \/ /\ ForeignWrite([res EXCEPT !.exists = FALSE])
           /\ [res EXCEPT !.exists = FALSE] \in Users
    BY <1>4, <2>1, <2>2 DEF EditSpec, DeleteUser
  <2>4. budget' \in 0 .. MaxDisturbances
    BY <1>0, <1>4, DisturbType DEF EditSpec, DeleteUser
  <2>5. RuntimeInv(Users, Steps)'
    BY <1>0, <2>3, <2>4, ForeignWriteType
  <2>6. UNCHANGED <<pc, obj, secrets, memory, env>>
    BY <1>4 DEF EditSpec, DeleteUser, ForeignWrite
  <2> QED
    BY <2>5, <2>6 DEF TypeInv, secrets, memory
<1>5. CASE DeleteSeed \/ TamperJWT \/ TamperCredentials
  <2>1. SeedAbsent \in SeedSecrets(Keys)
    BY DEF SeedSecrets
  <2>2. JWTSecrets({}) \subseteq JWTSecrets(Claims)
    BY DEF JWTSecrets
  <2>3. creds.owned \in BOOLEAN
    <3>1. CredsAbsent.owned = FALSE /\ CredsForeign.owned = FALSE
      BY DEF CredsAbsent, CredsForeign, CredsSecret
    <3> QED
      BY <3>1 DEF TypeInv, CredsSecrets
  <2>4. {CredsAbsent, CredsForeign, CredsSecret("present", NoClaims, NoKey, creds.owned)}
            \subseteq CredsSecrets
    BY <2>3 DEF CredsSecrets, CredsSecret
  <2> QED
    BY <1>5, <2>1, <2>2, <2>4, TamperEffect DEF TypeInv, local, memory
<1>6. CASE CrashAndRestart
  <2>1. RuntimeInv(Users, Steps)' /\ pc' = "idle"
    BY <1>0, <1>6, UsersAreAKind, CrashType DEF CrashAndRestart, Crash
  <2> QED
    BY <1>6, <2>1 DEF CrashAndRestart, ForgetMemory, TypeInv, secrets
<1>7. CASE UNCHANGED vars
  BY <1>7 DEF vars, runtime, server, local, secrets, memory, TypeInv, RuntimeInv,
              RuntimeTypeOK
<1> QED
  BY <1>1, <1>2, <1>3, <1>4, <1>5, <1>6, <1>7 DEF Next, Disturbance

(* A new User is one.                                                      *)
LEMMA NewUserType == NewUser \in Users /\ NoStatus \in UserStatuses
<1>1. [t \in UserTypes |-> NoCondition] \in ConditionLists(UserTypes)
  BY DEF ConditionLists
<1>2. NoStatus \in UserStatuses
  BY <1>1 DEF NoStatus, UserStatuses
<1>3. 1 \in Gens
  BY UserBounds DEF Gens
<1> QED
  BY <1>2, <1>3 DEF NewUser, Users

(* The initial state is typed.                                             *)
LEMMA TypeInvInit == Init => TypeInv
<1> SUFFICES ASSUME Init PROVE TypeInv
  OBVIOUS
<1>1. RuntimeInv(Users, Steps) /\ pc = "idle"
  BY NewUserType, RuntimeInitType DEF Init, RuntimeInit
<1>2. 1 \in Keys /\ 1 \in 1 .. MaxKeys + 1 /\ 2 \in 1 .. MaxKeys + 1 /\ 1 \in IssuerKeys
  BY UserBounds DEF Keys, IssuerKeys
<1>3. /\ SeedAbsent \in SeedSecrets(Keys)
      /\ SeedPrecreated(1) \in SeedSecrets(Keys)
      /\ SeedPrecreated(1).kind # "absent"
  BY <1>2 DEF SeedSecrets, SeedPrecreated
<1>4. /\ seed \in SeedSecrets(Keys)
      /\ nextKey \in 1 .. MaxKeys + 1
      /\ seed.kind = "absent" => nextKey \in Keys
  BY <1>2, <1>3 DEF Init
<1>5. env \in Environments
  BY <1>2 DEF Init, Environments, GoodEnvironment, SeedSecrets, SeedManaged
<1>6. jwt \in JWTSecrets(Claims) /\ creds \in CredsSecrets
  BY DEF Init, JWTSecrets, CredsSecrets
<1> QED
  BY <1>1, <1>4, <1>5, <1>6 DEF Init, TypeInv, PastSeed, PastIssuer

(* The variables always hold values of their types, and the keys that the  *)
(* model provides are never used up: nkeys.CreateUser is called only when  *)
(* the seed Secret is gone.                                                *)
THEOREM TypeCorrect == Spec => []TypeOK
<1>1. TypeInv => TypeOK
  BY DEF TypeInv, TypeOK, RuntimeInv
<1> QED
  BY <1>1, TypeInvInit, TypeInvNext, PTL DEF Spec

(***************************************************************************)
(* The credentials.  When they are written, the seed, the issuer's key and *)
(* the JWT that earlier steps read still belong together: the JWT is for   *)
(* the key pair of the seed and is signed by a key that the issuer has     *)
(* published by then.  The issuer's seed Secret never holds an older key   *)
(* than its status.                                                        *)
(***************************************************************************)

CredInv ==
    /\ pc \in {"ca", "creds"} => ujwt = ClaimsOf(obj, issuerKey)
    /\ issuerKey <= env.key
    /\ env.seed.kind = "valid" => env.key <= env.seed.key
    /\ CredentialsFitTogether
    /\ SignedByPublishedKey

(* Steps that leave the credentials and the issuer alone, and do not come  *)
(* to their writing.                                                       *)
LEMMA CredFrame ==
    ASSUME CredInv, UNCHANGED <<creds, env>>,
           issuerKey' \in {issuerKey, env.key, NoKey},
           pc' \notin {"ca", "creds"} \/ UNCHANGED <<pc, obj, issuerKey, ujwt>>,
           env \in Environments
    PROVE  CredInv'
<1>1. env.key \in Nat /\ NoKey <= env.key
  BY UserBounds DEF Environments, IssuerKeys, NoKey
<1> QED
  BY <1>1 DEF CredInv, CredentialsFitTogether, SignedByPublishedKey

(* The claims of ClaimsOf.                                                 *)
LEMMA ClaimsOfFields ==
    ASSUME NEW u, NEW iss
    PROVE  /\ ClaimsOf(u, iss).key = u.status.keyPair
           /\ ClaimsOf(u, iss).gen = u.gen
           /\ ClaimsOf(u, iss).iss = iss
BY DEF ClaimsOf

(* The steps of the reconcile.                                             *)
LEMMA CredReconcile ==
    ASSUME TypeInv, CredInv, Reconcile
    PROVE  CredInv'
<1>0. env \in Environments
  BY DEF TypeInv
<1>1. CASE Start
  <2>1. pc' = "seed" \/ UNCHANGED local
    BY <1>1 DEF Start, StartReconcile, Continue, Goto
  <2> QED
    BY <1>0, <1>1, <2>1, CredFrame DEF Start, secrets, memory, local
<1>2. CASE SeedSecret
  BY <1>0, <1>2, SeedSecretEffect, CredFrame DEF SeedSecret, Passes
<1>3. CASE ResolveIssuerStep
  BY <1>0, <1>3, ResolveIssuerEffect, CredFrame DEF ResolveIssuerStep, Passes, secrets
<1>4. CASE ResolveAccountStep
  BY <1>0, <1>4, ResolveAccountEffect, CredFrame
     DEF ResolveAccountStep, Passes, secrets, memory
<1>5. CASE ReconcileLabels
  BY <1>0, <1>5, ReconcileLabelsEffect, CredFrame DEF ReconcileLabels, secrets, memory
<1>6. CASE LoadIssuerSeed
  BY <1>0, <1>6, LoadIssuerSeedEffect, CredFrame DEF LoadIssuerSeed, Passes, secrets
<1>7. CASE JWTSecretStep
  <2>1. pc' = "ca" => ujwt' = ClaimsOf(obj', issuerKey')
    BY <1>7, JWTSecretEffect DEF JWTSecretStep, Passes, Keeps, SameMeta, ClaimsOf
  <2>2. pc' \in {"ca", "status"} /\ UNCHANGED <<creds, env, issuerKey>>
    BY <1>7, JWTSecretEffect DEF JWTSecretStep, Passes
  <2> QED
    BY <2>1, <2>2 DEF CredInv, CredentialsFitTogether, SignedByPublishedKey
<1>8. CASE GetCAIfExists
  <2>1. obj' = obj /\ pc = "ca" /\ UNCHANGED <<creds, env, issuerKey, ujwt>>
    BY <1>8, GetCAEffect DEF GetCAIfExists, secrets, memory
  <2> QED
    BY <2>1 DEF CredInv, CredentialsFitTogether, SignedByPublishedKey
<1>9. CASE CredentialsStep
  <2>1. /\ pc = "creds" /\ pc' = "status" /\ creds' \in {creds, Wanted}
        /\ UNCHANGED <<env, issuerKey>>
    BY <1>9, CredentialsEffect DEF CredentialsStep, memory
  <2>2. Wanted.claims = ujwt /\ Wanted.seed = seedKey
    BY DEF Wanted, CredsSecret
  <2>3. ujwt.key = seedKey /\ ujwt.iss <= env.key
    BY <2>1, ClaimsOfFields DEF CredInv, TypeInv, PastSeed, PastIssuer
  <2> QED
    BY <2>1, <2>2, <2>3 DEF CredInv, CredentialsFitTogether, SignedByPublishedKey
<1>10. CASE StoreStatus
  BY <1>0, <1>10, CredFrame DEF StoreStatus, UpdateStatus, ForgetMemory, secrets
<1> QED
  BY <1>1, <1>2, <1>3, <1>4, <1>5, <1>6, <1>7, <1>8, <1>9, <1>10 DEF Reconcile

(* Every step keeps the credentials together.                              *)
LEMMA CredNext == TypeInv /\ CredInv /\ [Next]_vars => CredInv'
<1> SUFFICES ASSUME TypeInv, CredInv, [Next]_vars PROVE CredInv'
  OBVIOUS
<1>0. env \in Environments
  BY DEF TypeInv
<1>1. CASE Reconcile
  BY <1>1, CredReconcile
<1>2. CASE SyncCache \/ ResyncUser \/ EditSpec \/ DeleteUser
  BY <1>0, <1>2, CredFrame
     DEF SyncCache, ResyncUser, EditSpec, DeleteUser, CacheSync, Resync, ForeignWrite,
         local, secrets, memory
<1>3. CASE \/ ChangeAccount \/ ChangeSigningKey \/ ChangeOperator \/ ChangeIssuerSeed
           \/ PublishIssuerKey \/ AccountEvent
  <2>1. UNCHANGED <<pc, obj, creds, issuerKey, ujwt>>
    BY <1>3, EnvironmentEffect DEF local, secrets, memory
  <2>2. /\ env.key \in Nat /\ issuerKey \in Nat
        /\ env.seed.kind = "valid" => env.seed.key \in Nat
    BY <1>0, UserBounds
       DEF TypeInv, Environments, IssuerKeys, NoKey, SeedSecrets, SeedAbsent, SeedBad
  <2>3. creds.claims # NoClaims => creds.claims.iss \in Nat
    BY UserBounds
       DEF TypeInv, CredsSecrets, Claims, IssuerKeys, CredsAbsent, CredsForeign, CredsSecret
  <2>4. /\ env.key <= env'.key
        /\ env'.seed.kind = "valid" => env'.key <= env'.seed.key
        /\ env'.key \in Nat
    <3>1. CASE ChangeAccount \/ ChangeSigningKey \/ ChangeOperator \/ AccountEvent
      <4>1. env'.key = env.key /\ env'.seed = env.seed
        BY <1>0, <3>1
           DEF ChangeAccount, ChangeSigningKey, ChangeOperator, AccountEvent, Environments
      <4> QED
        BY <2>2, <4>1 DEF CredInv
    <3>2. CASE ChangeIssuerSeed
      <4>1. PICK s \in {SeedAbsent, SeedBad, SeedManaged(env.key),
                        SeedManaged(env.key + 1)} : env' = [env EXCEPT !.seed = s]
        BY <3>2 DEF ChangeIssuerSeed
      <4>2. env'.key = env.key /\ env'.seed = s
        BY <1>0, <4>1 DEF Environments
      <4>3. s.kind = "valid" => s.key \in {env.key, env.key + 1}
        BY DEF SeedAbsent, SeedBad, SeedManaged
      <4> QED
        BY <2>2, <4>2, <4>3
    <3>3. CASE PublishIssuerKey
      <4>1. env'.key = env.seed.key /\ env'.seed = env.seed /\ env.seed.kind = "valid"
        BY <1>0, <3>3 DEF PublishIssuerKey, Environments
      <4> QED
        BY <2>2, <4>1 DEF CredInv
    <3> QED
      BY <1>3, <3>1, <3>2, <3>3
  <2> QED
    BY <2>1, <2>2, <2>3, <2>4 DEF CredInv, CredentialsFitTogether, SignedByPublishedKey
<1>4. CASE DeleteSeed \/ TamperJWT \/ TamperCredentials
  <2>1. UNCHANGED <<pc, obj, env, issuerKey, ujwt>>
    BY <1>4, TamperEffect DEF local, memory
  <2>2. creds' = creds \/ creds'.claims = NoClaims
    <3>1. /\ CredsAbsent.claims = NoClaims /\ CredsForeign.claims = NoClaims
          /\ CredsSecret("present", NoClaims, NoKey, creds.owned).claims = NoClaims
      BY DEF CredsAbsent, CredsForeign, CredsSecret
    <3> QED
      BY <1>4, <3>1, TamperEffect
  <2> QED
    BY <2>1, <2>2 DEF CredInv, CredentialsFitTogether, SignedByPublishedKey
<1>5. CASE CrashAndRestart
  BY <1>0, <1>5, CredFrame DEF CrashAndRestart, Crash, ForgetMemory, secrets
<1>6. CASE UNCHANGED vars
  BY <1>0, <1>6, CredFrame DEF vars, runtime, local, secrets, memory
<1> QED
  BY <1>1, <1>2, <1>3, <1>4, <1>5, <1>6 DEF Next, Disturbance

(* The first state.                                                        *)
LEMMA CredInit == Init => CredInv
<1> SUFFICES ASSUME Init PROVE CredInv
  OBVIOUS
<1>1. pc = "idle" /\ issuerKey = 0 /\ env.key = 1 /\ env.seed.key = 1
  BY DEF Init, RuntimeInit, NoKey, GoodEnvironment, SeedManaged
<1>2. creds.claims = NoClaims
  BY DEF Init, CredsAbsent, CredsSecret
<1> QED
  BY <1>1, <1>2 DEF CredInv, CredentialsFitTogether, SignedByPublishedKey

(* The invariants of the credentials together.                             *)
LEMMA AlwaysCredInv == Spec => [](TypeInv /\ CredInv)
<1>1. Init => TypeInv /\ CredInv
  BY TypeInvInit, CredInit
<1>2. (TypeInv /\ CredInv) /\ [Next]_vars => (TypeInv /\ CredInv)'
  BY TypeInvNext, CredNext
<1> QED
  BY <1>1, <1>2, PTL DEF Spec

(* The seed and the JWT in the credentials are always of one key pair,     *)
(* although the one is read at the start of a reconcile and the other at   *)
(* its end.                                                                *)
THEOREM CredentialsAlwaysFitTogether == Spec => []CredentialsFitTogether
<1>1. CredInv => CredentialsFitTogether
  BY DEF CredInv
<1> QED
  BY <1>1, AlwaysCredInv, PTL

(* Credentials are only issued under a key that the issuer has published,  *)
(* however its seed Secret, its status and the cache change meanwhile.     *)
THEOREM AlwaysSignedByPublishedKey == Spec => []SignedByPublishedKey
<1>1. CredInv => SignedByPublishedKey
  BY DEF CredInv
<1> QED
  BY <1>1, AlwaysCredInv, PTL

(***************************************************************************)
(* References.  What is stored is a mixture of a copy and of the server's  *)
(* answer, so every copy has to have its references.                       *)
(***************************************************************************)

RefInv ==
    /\ References(res)
    /\ cached \in Users => References(cached)
    /\ old \in Users => References(old)
    /\ pc # "idle" => References(obj)

(* InitializeConditions: under a True Ready nothing is missing.            *)
LEMMA InitializeReferences ==
    ASSUME NEW u \in Users, References(u)
    PROVE  References([u EXCEPT !.status.conds = InitializeConditions(@, UserDependents)])
<1> DEFINE c == InitializeConditions(u.status.conds, UserDependents)
           v == [u EXCEPT !.status.conds = c]
<1>1. u.status.conds \in ConditionLists(UserTypes)
  BY DEF Users, UserStatuses
<1>2. c \in ConditionLists(UserTypes)
  BY <1>1, InitializeConditionsType, DependentFacts
<1>3. /\ v.status.conds = c
      /\ v.status.keyPair = u.status.keyPair
      /\ v.status.accountRef = u.status.accountRef
  BY <1>2, ReplaceConditions
<1>4. /\ IsTrue(c[Happy]) => IsTrue(u.status.conds[Happy])
      /\ \A d \in UserDependents : IsTrue(c[d]) =>
            IsTrue(u.status.conds[d]) \/ IsTrue(u.status.conds[Happy])
  <2>1. DOMAIN u.status.conds = UserTypes
    BY <1>1 DEF ConditionLists
  <2> QED
    BY <2>1, DependentFacts DEF InitializeConditions, IsTrue, NoCondition
<1> HIDE DEF c, v
<1>5. References(v)
  BY <1>3, <1>4, DependentFacts DEF References
<1> QED
  BY <1>5 DEF c, v

(* Every step keeps RefInv.                                                *)
LEMMA RefNext == TypeInv /\ RefInv /\ [Next]_vars => RefInv'
<1> SUFFICES ASSUME TypeInv, RefInv, [Next]_vars PROVE RefInv'
  OBVIOUS
<1>0. /\ res \in Users /\ cached \in Users \cup {NoCopy}
      /\ pc # "idle" => obj \in Users
  BY DEF TypeInv, RuntimeInv, RuntimeTypeOK
<1>p. ASSUME NEW step, Passes(step), pc # "idle" PROVE RefInv'
  BY <1>p DEF Passes, Keeps, RefInv, server
<1>1. CASE Start
  <2>1. UNCHANGED server
    BY <1>1 DEF Start, StartReconcile
  <2>2. CASE cached.exists
    <3>1. cached \in Users
      BY <1>0, <2>2 DEF NoCopy
    <3>2. obj' = [cached EXCEPT !.status.conds = InitializeConditions(@, UserDependents)]
      BY <1>1, <2>2 DEF Start, StartReconcile, Continue, Goto
    <3> QED
      BY <2>1, <3>1, <3>2, InitializeReferences DEF RefInv, server
  <2>3. CASE ~cached.exists
    BY <1>1, <2>1, <2>3 DEF Start, StartReconcile, local, server, RefInv
  <2> QED
    BY <2>2, <2>3
<1>2. CASE SeedSecret
  BY <1>2, <1>p, SeedSecretEffect DEF SeedSecret
<1>3. CASE ResolveIssuerStep
  BY <1>3, <1>p, ResolveIssuerEffect DEF ResolveIssuerStep
<1>4. CASE ResolveAccountStep
  BY <1>4, <1>p, ResolveAccountEffect DEF ResolveAccountStep
<1>5. CASE ReconcileLabels
  <2>1. pc # "idle"
    BY <1>5 DEF ReconcileLabels
  <2> QED
    BY <1>5, <1>p, <2>1, ReconcileLabelsEffect DEF RefInv
<1>6. CASE LoadIssuerSeed
  BY <1>6, <1>p, LoadIssuerSeedEffect DEF LoadIssuerSeed
<1>7. CASE JWTSecretStep
  BY <1>7, <1>p, JWTSecretEffect DEF JWTSecretStep
<1>8. CASE GetCAIfExists
  BY <1>8, <1>p, GetCAEffect DEF GetCAIfExists
<1>9. CASE CredentialsStep
  <2>1. pc # "idle"
    BY <1>9 DEF CredentialsStep
  <2> QED
    BY <1>9, <2>1, CredentialsEffect DEF Keeps, RefInv, server
<1>10. CASE StoreStatus
  <2>1. pc = "status" /\ pc' = "idle" /\ cached' = cached
        /\ res' \in {res, [res EXCEPT !.status = obj.status]}
    BY <1>10 DEF StoreStatus, UpdateStatus, server
  <2>2. old' = old
    BY <1>10 DEF StoreStatus, UpdateStatus, server
  <2>3. [res EXCEPT !.status = obj.status].status = obj.status
    BY <1>0 DEF Users
  <2> QED
    BY <2>1, <2>2, <2>3 DEF RefInv, References
<1>11. CASE SyncCache \/ CrashAndRestart
  <2>1. CASE SyncCache
    <3>1. NoCopy \notin Users
      BY DEF NoCopy, Users
    <3> QED
      BY <2>1, <3>1 DEF SyncCache, CacheSync, local, RefInv
  <2>2. CASE CrashAndRestart
    BY <2>2, ListedCopy DEF CrashAndRestart, Crash, RefInv
  <2> QED
    BY <1>11, <2>1, <2>2
<1>12. CASE EditSpec \/ DeleteUser
  <2>1. res'.status = res.status /\ UNCHANGED <<cached, old, pc, obj>>
    BY <1>0, <1>12 DEF EditSpec, DeleteUser, ForeignWrite, Users
  <2> QED
    BY <2>1 DEF RefInv, References
<1>13. CASE \/ ChangeAccount \/ ChangeSigningKey \/ ChangeOperator \/ ChangeIssuerSeed
            \/ PublishIssuerKey \/ AccountEvent
  BY <1>13, EnvironmentEffect DEF server, local, RefInv
<1>14. CASE DeleteSeed \/ TamperJWT \/ TamperCredentials
  BY <1>14, TamperEffect DEF server, local, RefInv
<1>15. CASE ResyncUser \/ UNCHANGED vars
  BY <1>15 DEF ResyncUser, Resync, vars, runtime, server, local, RefInv
<1> QED
  BY <1>1, <1>2, <1>3, <1>4, <1>5, <1>6, <1>7, <1>8, <1>9, <1>10, <1>11, <1>12,
     <1>13, <1>14, <1>15 DEF Next, Reconcile, Disturbance

(* The first state.                                                        *)
LEMMA RefInit == Init => RefInv
<1> SUFFICES ASSUME Init PROVE RefInv
  OBVIOUS
<1>1. NoCopy \notin Users
  BY DEF NoCopy, Users
<1>2. res = NewUser /\ cached = NoCopy /\ old = NoCopy /\ pc = "idle"
  BY DEF Init, RuntimeInit
<1>3. \A t \in UserTypes : ~IsTrue(NewUser.status.conds[t])
  BY DEF NewUser, NoStatus, IsTrue, NoCondition
<1> QED
  BY <1>1, <1>2, <1>3, DependentFacts DEF RefInv, References

(* A stored True condition always comes with the reference it is about.    *)
THEOREM ReadyAlwaysHasReferences == Spec => []ReadyHasReferences
<1>1. RefInv => ReadyHasReferences
  BY DEF RefInv, References, ReadyHasReferences
<1>2. Init => TypeInv /\ RefInv
  BY TypeInvInit, RefInit
<1>3. (TypeInv /\ RefInv) /\ [Next]_vars => (TypeInv /\ RefInv)'
  BY TypeInvNext, RefNext
<1> QED
  BY <1>1, <1>2, <1>3, PTL DEF Spec

(***************************************************************************)
(* A quiet User that is Ready.  Settled says that nothing has happened     *)
(* since the reconcile started, or since the last one ended, that the      *)
(* reconciler is not about to be told of.  What a settled reconcile has    *)
(* found in order is still so, and its copy is of the stored User; so is   *)
(* all of it when a reconcile ends with a Ready User and asks for no       *)
(* other.                                                                  *)
(***************************************************************************)

Settled == ~queued /\ cacheFresh

Ready(u) == IsTrue(u.status.conds[Happy])

Right(u) ==
    /\ seed = SeedManaged(u.status.keyPair)
    /\ jwt = JWTSecret("present", TRUE, ClaimsOf(u, jwt.claims.iss))
    /\ creds = CredsSecret("present", jwt.claims, u.status.keyPair, TRUE)

QuietInv ==
    /\ cacheFresh => cached = res
    /\ jwt.claims # NoClaims => jwt.owned
    /\ Settled /\ pc # "idle" => orig = res /\ obj.gen = res.gen
    /\ Settled /\ pc \in PastSeed => seed = SeedManaged(seedKey)
    /\ Settled /\ pc \in {"ca", "creds"} => jwt = JWTSecret("present", TRUE, ujwt)
    /\ Settled /\ pc = "status" /\ ~requeue /\ Ready(obj) => Right(obj)
    /\ Settled /\ pc = "idle" /\ res.exists /\ Ready(res) => Right(res)

(* Only the conditions, the key pair and the gen of a User matter.         *)
LEMMA RightFrame ==
    ASSUME NEW u, NEW v, u.gen = v.gen, u.status.keyPair = v.status.keyPair
    PROVE  Right(u) <=> Right(v)
BY DEF Right, ClaimsOf

(* A step that goes on or returns, and leaves the Secrets alone.           *)
LEMMA QuietPasses ==
    ASSUME QuietInv, NEW step \in PastSeed, Passes(step), pc # "idle",
           UNCHANGED <<queued, seed, jwt, creds, seedKey>>,
           pc' \in PastSeed => pc \in PastSeed,
           pc' \in {"ca", "creds"} => pc \in {"ca", "creds"} /\ ujwt' = ujwt
    PROVE  QuietInv'
<1>1. /\ Settled' <=> Settled
      /\ UNCHANGED <<res, cached, cacheFresh, orig>>
      /\ pc' \in {step, "status"} /\ step \notin {"status", "idle"}
      /\ pc' = "status" => requeue' \/ ~Ready(obj')
      /\ obj'.gen = obj.gen
  BY DEF Settled, Passes, Keeps, SameMeta, Ready, server, PastSeed, PastIssuer
<1> QED
  BY <1>1 DEF QuietInv

(* The JWT Secret that reconcileJWTSecret found in order.                  *)
LEMMA JWTFound ==
    ASSUME TypeInv, QuietInv, JWTSecretStep, pc' = "ca"
    PROVE  jwt' = JWTSecret("present", TRUE, ujwt')
<1>1. /\ jwt' = jwt /\ ujwt' = jwt.claims
      /\ ujwt' = ClaimsOf(obj, issuerKey)
      /\ jwt \in JWTSecrets(Claims)
  BY JWTSecretEffect DEF TypeInv
<1>2. obj.status.keyPair \in Keys
  BY DEF TypeInv, JWTSecretStep, PastSeed, PastIssuer
<1>3. jwt.claims # NoClaims
  BY <1>1, <1>2, ClaimsOfFields, UserBounds DEF NoClaims, Keys, NoKey
<1>4. jwt.owned
  BY <1>3 DEF QuietInv
<1>5. jwt \in [kind : {"present"}, owned : BOOLEAN, claims : Claims \cup {NoClaims}]
  <2>1. /\ JWTAbsent.claims = NoClaims
        /\ \A kind, owned : JWTSecret(kind, owned, NoClaims).claims = NoClaims
    BY DEF JWTSecret, JWTAbsent
  <2> QED
    BY <1>1, <1>3, <2>1 DEF JWTSecrets
<1> QED
  BY <1>1, <1>4, <1>5 DEF JWTSecret

(* The steps of the reconcile.                                             *)
LEMMA QuietReconcile ==
    ASSUME TypeInv, CredInv, QuietInv, Reconcile
    PROVE  QuietInv'
<1>0. /\ res \in Users /\ cached \in Users \cup {NoCopy}
      /\ pc # "idle" => obj \in Users
      /\ queued \in BOOLEAN /\ requeue \in BOOLEAN /\ cacheFresh \in BOOLEAN
  BY DEF TypeInv, RuntimeInv, RuntimeTypeOK
<1>1. CASE Start
  <2>1. UNCHANGED <<res, cached, cacheFresh, jwt>> /\ pc = "idle"
    BY <1>1 DEF Start, StartReconcile, server, secrets
  <2>2. CASE cached.exists
    <3>1. cached \in Users
      BY <1>0, <2>2 DEF NoCopy
    <3>2. pc' = "seed" /\ orig' = cached /\ obj'.gen = cached.gen
      BY <1>1, <2>2, <3>1 DEF Start, StartReconcile, Continue, Goto, Users
    <3> QED
      BY <2>1, <3>2 DEF QuietInv, Settled, PastSeed, PastIssuer
  <2>3. CASE ~cached.exists
    <3>1. pc' = "idle"
      BY <1>1, <2>3 DEF Start, StartReconcile, local
    <3>2. Settled' => ~res'.exists
      BY <2>1, <2>3 DEF QuietInv, Settled
    <3> QED
      BY <2>1, <3>1, <3>2 DEF QuietInv, PastSeed, PastIssuer
  <2> QED
    BY <2>2, <2>3
<1>2. CASE SeedSecret
  <2>1. /\ UNCHANGED <<res, cached, cacheFresh, orig, jwt>>
        /\ pc = "seed" /\ pc' \in {"issuer", "status"}
        /\ pc' = "status" => requeue' \/ ~Ready(obj')
        /\ pc' = "issuer" => seed' = SeedManaged(seedKey')
        /\ obj'.gen = obj.gen
        /\ Settled' => Settled
    BY <1>2, SeedSecretEffect
       DEF SeedSecret, Passes, Keeps, SameMeta, Ready, Settled, server
  <2> QED
    BY <2>1 DEF QuietInv, PastSeed, PastIssuer
<1>3. CASE ResolveIssuerStep
  BY <1>3, ResolveIssuerEffect, QuietPasses
     DEF ResolveIssuerStep, secrets, PastSeed, PastIssuer, Passes
<1>4. CASE ResolveAccountStep
  BY <1>4, ResolveAccountEffect, QuietPasses
     DEF ResolveAccountStep, secrets, memory, PastSeed, PastIssuer, Passes
<1>5. CASE ReconcileLabels
  <2>1. pc = "labels" /\ UNCHANGED <<queued, orig, seed, jwt, creds, seedKey>>
    BY <1>5 DEF ReconcileLabels, secrets, memory
  <2>2. CASE pc' = "issuerSeed"
    BY <1>5, <2>1, <2>2, ReconcileLabelsEffect, QuietPasses DEF PastSeed, PastIssuer
  <2>3. CASE pc' # "issuerSeed"
    <3>1. /\ pc' = "status" /\ requeue' = TRUE /\ cached' = cached
          /\ cacheFresh' => UNCHANGED <<res, cacheFresh, obj>>
      BY <1>5, <2>3, ReconcileLabelsEffect
    <3> QED
      BY <2>1, <3>1 DEF QuietInv, Settled, PastSeed, PastIssuer
  <2> QED
    BY <2>2, <2>3
<1>6. CASE LoadIssuerSeed
  BY <1>6, LoadIssuerSeedEffect, QuietPasses
     DEF LoadIssuerSeed, secrets, PastSeed, PastIssuer, Passes
<1>7. CASE JWTSecretStep
  <2>1. /\ UNCHANGED <<res, cached, cacheFresh, orig, seed, seedKey>>
        /\ pc = "jwt" /\ pc' \in {"ca", "status"}
        /\ pc' = "status" => requeue' \/ ~Ready(obj')
        /\ obj'.gen = obj.gen
        /\ Settled' => Settled
    BY <1>7, JWTSecretEffect
       DEF JWTSecretStep, Passes, Keeps, SameMeta, Ready, Settled, server
  <2>2. jwt'.claims # NoClaims => jwt'.owned
    <3>1. /\ JWTAbsent.claims = NoClaims
          /\ JWTSecret("present", TRUE, ClaimsOf(obj, issuerKey)).owned
      BY DEF JWTAbsent, JWTSecret
    <3> QED
      BY <1>7, <3>1, JWTSecretEffect DEF QuietInv
  <2>3. pc' = "ca" => jwt' = JWTSecret("present", TRUE, ujwt')
    BY <1>7, JWTFound
  <2> QED
    BY <2>1, <2>2, <2>3 DEF QuietInv, PastSeed, PastIssuer
<1>8. CASE GetCAIfExists
  BY <1>8, GetCAEffect, QuietPasses
     DEF GetCAIfExists, secrets, memory, PastSeed, PastIssuer, Passes
<1>9. CASE CredentialsStep
  <2>1. /\ UNCHANGED <<res, cached, cacheFresh, orig, seed, jwt, seedKey>>
        /\ pc = "creds" /\ pc' = "status"
        /\ obj'.gen = obj.gen /\ obj'.status.keyPair = obj.status.keyPair
        /\ ~requeue' /\ Ready(obj') => creds' = Wanted
        /\ Settled' => Settled
    BY <1>9, CredentialsEffect
       DEF CredentialsStep, Keeps, SameMeta, Ready, Settled, server, memory
  <2>2. obj.status.keyPair = seedKey /\ ujwt = ClaimsOf(obj, issuerKey)
    BY <2>1 DEF TypeInv, CredInv, PastSeed, PastIssuer
  <2>3. ASSUME Settled', ~requeue', Ready(obj')
        PROVE  Right(obj)'
    <3>1. /\ seed = SeedManaged(seedKey)
          /\ jwt = JWTSecret("present", TRUE, ujwt)
          /\ creds' = CredsSecret("present", ujwt, seedKey, TRUE)
      BY <2>1, <2>3 DEF QuietInv, Wanted, PastSeed, PastIssuer
    <3>2. jwt.claims = ujwt /\ ujwt.iss = issuerKey
      BY <2>2, <3>1, ClaimsOfFields DEF JWTSecret
    <3>3. ClaimsOf(obj', issuerKey) = ujwt
      BY <2>1, <2>2 DEF ClaimsOf
    <3> QED
      BY <2>1, <2>2, <3>1, <3>2, <3>3 DEF Right
  <2> QED
    BY <2>1, <2>3 DEF QuietInv, PastSeed, PastIssuer
<1>10. CASE StoreStatus
  <2>1. /\ pc = "status" /\ pc' = "idle" /\ UNCHANGED <<seed, jwt, creds, cached>>
        /\ cacheFresh' => UNCHANGED <<res, cacheFresh>>
        /\ Settled' => ~queued /\ ~requeue /\ obj.status = orig.status
    BY <1>0, <1>10 DEF StoreStatus, UpdateStatus, Settled, server, secrets
  <2>2. ASSUME Settled', res'.exists, Ready(res')
        PROVE  Right(res)'
    <3>1. res' = res /\ Settled
      BY <2>1, <2>2 DEF Settled
    <3>2. orig = res /\ obj.gen = res.gen /\ obj.status = res.status
      BY <2>1, <2>2, <3>1 DEF QuietInv
    <3>3. Right(obj)
      BY <2>1, <2>2, <3>1, <3>2 DEF QuietInv, Ready
    <3>4. Right(res)
      BY <3>2, <3>3, RightFrame
    <3> QED
      BY <2>1, <3>1, <3>4 DEF Right
  <2> QED
    BY <2>1, <2>2 DEF QuietInv, PastSeed, PastIssuer
<1> QED
  BY <1>1, <1>2, <1>3, <1>4, <1>5, <1>6, <1>7, <1>8, <1>9, <1>10 DEF Reconcile

(* Every step keeps QuietInv.                                              *)
LEMMA QuietNext ==
    ASSUME "unownedJWT" \notin Hazards, TypeInv, CredInv, QuietInv, [Next]_vars
    PROVE  QuietInv'
<1>0. /\ res \in Users /\ res.exists \in BOOLEAN
      /\ queued \in BOOLEAN /\ cacheFresh \in BOOLEAN
  BY DEF TypeInv, RuntimeInv, RuntimeTypeOK, Users
<1>1. CASE Reconcile
  BY <1>1, QuietReconcile
<1>2. CASE SyncCache \/ CrashAndRestart
  <2>1. /\ res' = res /\ jwt' = jwt
        /\ cacheFresh' => cached' = res
        /\ Settled' => pc' = "idle" /\ ~res.exists
    <3>1. CASE SyncCache
      BY <1>0, <3>1 DEF SyncCache, CacheSync, Settled, secrets
    <3>2. CASE CrashAndRestart
      BY <1>0, <3>2, ListedCopy
         DEF CrashAndRestart, Crash, QuietInv, Settled, secrets
    <3> QED
      BY <1>2, <3>1, <3>2
  <2> QED
    BY <2>1 DEF QuietInv, PastSeed, PastIssuer
<1>3. CASE ResyncUser
  BY <1>3 DEF ResyncUser, Resync, QuietInv, Settled, server, secrets
<1>4. CASE EditSpec \/ DeleteUser
  BY <1>4 DEF EditSpec, DeleteUser, ForeignWrite, QuietInv, Settled, secrets
<1>5. CASE \/ ChangeAccount \/ ChangeSigningKey \/ ChangeOperator \/ ChangeIssuerSeed
           \/ PublishIssuerKey \/ AccountEvent
  <2>1. /\ UNCHANGED <<res, cached, cacheFresh, pc, obj, orig, requeue>>
        /\ UNCHANGED <<seed, jwt, creds, seedKey, ujwt>>
        /\ Settled' => Settled
    BY <1>0, <1>5, EnvironmentEffect DEF Settled, server, local, secrets, memory
  <2> QED
    BY <2>1 DEF QuietInv, Right
<1>6. CASE DeleteSeed \/ TamperJWT \/ TamperCredentials
  <2>1. /\ UNCHANGED <<res, cached, cacheFresh, pc, obj, orig, requeue, seedKey, ujwt>>
        /\ Settled' => Settled
    BY <1>0, <1>6, TamperEffect DEF Settled, server, local, memory
  <2>2. jwt'.claims # NoClaims => jwt'.owned
    BY <1>6, TamperEffect DEF QuietInv
  <2>3. /\ Settled' /\ seed.managed => seed' = seed
        /\ Settled' /\ jwt.owned => jwt' = jwt
        /\ Settled' /\ creds.owned => creds' = creds
    BY <1>6, TamperEffect DEF Settled
  <2>4. /\ \A k : SeedManaged(k).managed
        /\ \A c : JWTSecret("present", TRUE, c).owned
        /\ \A c, k : CredsSecret("present", c, k, TRUE).owned
    BY DEF SeedManaged, JWTSecret, CredsSecret
  <2>5. \A u : Settled' /\ Right(u) => UNCHANGED <<seed, jwt, creds>>
    BY <2>3, <2>4 DEF Right
  <2>6. \A u : Settled' /\ Right(u) =>
            /\ seed' = SeedManaged(u.status.keyPair)
            /\ jwt' = JWTSecret("present", TRUE, ClaimsOf(u, jwt'.claims.iss))
            /\ creds' = CredsSecret("present", jwt'.claims, u.status.keyPair, TRUE)
    BY <2>5 DEF Right
  <2>7. /\ Settled' /\ Right(obj) => Right(obj)'
        /\ Settled' /\ Right(res) => Right(res)'
    BY <2>1, <2>6 DEF Right
  <2> QED
    BY <2>1, <2>2, <2>3, <2>4, <2>7 DEF QuietInv
<1>7. CASE UNCHANGED vars
  <2>1. /\ UNCHANGED <<res, cached, cacheFresh, queued, pc, obj, orig, requeue>>
        /\ UNCHANGED <<seed, jwt, creds, seedKey, ujwt>>
    BY <1>7 DEF vars, runtime, server, local, secrets, memory
  <2> QED
    BY <2>1 DEF QuietInv, Settled, Right
<1> QED
  BY <1>1, <1>2, <1>3, <1>4, <1>5, <1>6, <1>7 DEF Next, Disturbance

(* A User that is Ready and left alone has its seed, JWT and credentials   *)
(* Secrets, and they are for the stored spec and key pair: no interleaving *)
(* of faults, crashes, old lists, edits and tampering leaves a wrong one   *)
(* behind that no event will bring to the reconciler.  The assumption      *)
(* leaves out a copy of the JWT Secret that nobody owns.                   *)
THEOREM QuietReadyIsAlwaysRight ==
    ASSUME "unownedJWT" \notin Hazards
    PROVE  Spec => []QuietReadyIsRight
<1>1. QuietInv => QuietReadyIsRight
  <2> SUFFICES ASSUME QuietInv, Quiet, res.exists, IsTrue(res.status.conds[Happy])
               PROVE  /\ res.status.keyPair = seed.key
                      /\ jwt.claims = ClaimsOf(res, jwt.claims.iss)
                      /\ creds = CredsSecret("present", jwt.claims, seed.key, TRUE)
    BY DEF QuietReadyIsRight
  <2>1. Right(res)
    BY DEF QuietInv, Quiet, Settled, Ready
  <2>2. seed.key = res.status.keyPair
    BY <2>1 DEF Right, SeedManaged
  <2>3. jwt.claims = ClaimsOf(res, jwt.claims.iss)
    BY <2>1 DEF Right, JWTSecret
  <2> QED
    BY <2>1, <2>2, <2>3 DEF Right
<1>2. Init => QuietInv
  BY DEF Init, RuntimeInit, QuietInv, Settled, JWTAbsent, JWTSecret
<1>3. TypeInv /\ CredInv /\ QuietInv /\ [Next]_vars => QuietInv'
  BY QuietNext
<1> QED
  BY <1>1, <1>2, <1>3, AlwaysCredInv, PTL DEF Spec
=============================================================================
