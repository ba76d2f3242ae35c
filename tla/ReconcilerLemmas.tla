-------------------------- MODULE ReconcilerLemmas --------------------------
(***************************************************************************)
(* What the operators that the reconcilers are built from preserve, for    *)
(* every set of condition types, keys and claims: condition lists stay     *)
(* condition lists, and a list whose Ready summarises its dependents keeps *)
(* doing so; and what the steps that the reconcilers share return and      *)
(* leave behind.                                                           *)
(***************************************************************************)
EXTENDS BaseReconciler, TLAPS

(* setCondition writes one entry of the list and leaves its types alone.   *)
LEMMA SetConditionType ==
    ASSUME NEW types, NEW c \in ConditionLists(types), NEW t \in types,
           NEW s \in Statuses \cup {NoCondition}
    PROVE  SetCondition(c, t, s) \in ConditionLists(types)
BY DEF SetCondition, ConditionLists

(* MarkTrue (markCondition True, then recomputeHappiness) returns a list   *)
(* over the same types.                                                    *)
LEMMA MarkTrueType ==
    ASSUME NEW types, NEW c \in ConditionLists(types), NEW deps,
           Happy \in types, NEW t \in types
    PROVE  MarkTrue(c, deps, t) \in ConditionLists(types)
<1>1. SetCondition(c, t, "True") \in ConditionLists(types)
  BY SetConditionType DEF Statuses
<1>2. FindUnhappyDependent(SetCondition(c, t, "True"), deps)
        \in Statuses \cup {NoCondition}
  BY DEF FindUnhappyDependent, Statuses
<1> QED
  BY <1>1, <1>2, SetConditionType DEF MarkTrue, RecomputeHappiness, Statuses

(* MarkFalse returns a list over the same types.                           *)
LEMMA MarkFalseType ==
    ASSUME NEW types, NEW c \in ConditionLists(types), NEW deps,
           Happy \in types, NEW t \in types
    PROVE  MarkFalse(c, deps, t) \in ConditionLists(types)
<1>1. SetCondition(c, t, "False") \in ConditionLists(types)
  BY SetConditionType DEF Statuses
<1> QED
  BY <1>1, SetConditionType DEF MarkFalse, Statuses

(* MarkUnknown returns a list over the same types.                         *)
LEMMA MarkUnknownType ==
    ASSUME NEW types, NEW c \in ConditionLists(types), NEW deps,
           Happy \in types, NEW t \in types
    PROVE  MarkUnknown(c, deps, t) \in ConditionLists(types)
<1>1. SetCondition(c, t, "Unknown") \in ConditionLists(types)
  BY SetConditionType DEF Statuses
<1>2. MarkFalse(SetCondition(c, t, "Unknown"), deps, Happy) \in ConditionLists(types)
  BY <1>1, MarkFalseType
<1>3. SetCondition(SetCondition(c, t, "Unknown"), Happy, "Unknown")
        \in ConditionLists(types)
  BY <1>1, SetConditionType DEF Statuses
<1> QED
  BY <1>1, <1>2, <1>3 DEF MarkUnknown

(* InitializeConditions returns a list over the same types.                *)
LEMMA InitializeConditionsType ==
    ASSUME NEW types, NEW c \in ConditionLists(types), NEW deps, Happy \in types
    PROVE  InitializeConditions(c, deps) \in ConditionLists(types)
BY DEF InitializeConditions, ConditionLists, Statuses, IsTrue

(* MarkTrue of a dependent (or of a type that does not count) keeps Ready  *)
(* the summary: recomputeHappiness looks at every dependent again.         *)
LEMMA MarkTrueSummarised ==
    ASSUME NEW types, NEW c \in ConditionLists(types), NEW deps \in SUBSET types,
           Happy \in types, Happy \notin deps, NEW t \in types \ {Happy},
           Summarised(c, deps)
    PROVE  Summarised(MarkTrue(c, deps, t), deps)
<1> DEFINE m == SetCondition(c, t, "True")
<1>1. /\ m \in ConditionLists(types)
      /\ \A d \in deps : m[d] \in Statuses
  BY DEF SetCondition, ConditionLists, Summarised, Statuses
<1> HIDE DEF m
<1>2. \A s \in Statuses : Summary(SetCondition(m, Happy, s), deps) = Summary(m, deps)
  BY <1>1 DEF Summary, SetCondition, ConditionLists
<1>3. MarkTrue(c, deps, t) = SetCondition(m, Happy, Summary(m, deps))
  BY <1>1 DEF MarkTrue, RecomputeHappiness, FindUnhappyDependent, Summary, m,
     Statuses, NoCondition
<1>4. Summary(m, deps) \in Statuses
  BY DEF Summary, Statuses
<1> QED
  BY <1>1, <1>2, <1>3, <1>4 DEF Summarised, SetCondition, ConditionLists,
     Statuses, NoCondition

(* MarkFalse of a dependent makes Ready False, which is the summary.       *)
LEMMA MarkFalseSummarised ==
    ASSUME NEW types, NEW c \in ConditionLists(types), NEW deps \in SUBSET types,
           Happy \in types, Happy \notin deps, NEW t \in types \ {Happy},
           Summarised(c, deps)
    PROVE  Summarised(MarkFalse(c, deps, t), deps)
BY DEF MarkFalse, Summarised, Summary, SetCondition, ConditionLists, Statuses,
   NoCondition

(* MarkUnknown of a dependent leaves Ready False when another dependent is *)
(* False, and makes it Unknown otherwise.                                  *)
LEMMA MarkUnknownSummarised ==
    ASSUME NEW types, NEW c \in ConditionLists(types), NEW deps \in SUBSET types,
           Happy \in types, Happy \notin deps, NEW t \in types \ {Happy},
           Summarised(c, deps)
    PROVE  Summarised(MarkUnknown(c, deps, t), deps)
<1> DEFINE m == SetCondition(c, t, "Unknown")
<1>1. /\ m \in ConditionLists(types)
      /\ \A d \in deps : m[d] \in Statuses
      /\ m[t] = "Unknown"
      /\ \A u \in types \ {t} : m[u] = c[u]
  BY DEF SetCondition, ConditionLists, Summarised, Statuses
<1> HIDE DEF m
<1>2. CASE \E d \in deps : m[d] = "False"
  <2>1. MarkUnknown(c, deps, t) = SetCondition(m, Happy, "False")
    BY <1>1, <1>2 DEF MarkUnknown, MarkFalse, m, SetCondition, ConditionLists
  <2> QED
    BY <1>1, <1>2, <2>1 DEF Summarised, Summary, SetCondition, ConditionLists,
       Statuses, NoCondition
<1>3. CASE (~\E d \in deps : m[d] = "False") /\ t \in deps
  <2>1. MarkUnknown(c, deps, t) = SetCondition(m, Happy, "Unknown")
    BY <1>3 DEF MarkUnknown, m
  <2> QED
    BY <1>1, <1>3, <2>1 DEF Summarised, Summary, SetCondition, ConditionLists,
       Statuses, NoCondition
<1>4. CASE (~\E d \in deps : m[d] = "False") /\ t \notin deps
  <2>1. MarkUnknown(c, deps, t) = m
    BY <1>4 DEF MarkUnknown, m
  <2> QED
    BY <1>1, <1>4, <2>1 DEF Summarised, Summary
<1> QED
  BY <1>2, <1>3, <1>4

(* A status is fit to be read when it is empty, or Ready summarises the    *)
(* dependents that are in it.  (Ready True stands for all of them.)        *)
Readable(c, deps) ==
    \/ \A d \in deps \cup {Happy} : c[d] = NoCondition
    \/ c[Happy] = Summary(c, {d \in deps : c[d] # NoCondition})

(* InitializeConditions turns a readable status, including one that an     *)
(* earlier release with fewer dependents wrote, into a summarised one.     *)
LEMMA InitializeConditionsSummarised ==
    ASSUME NEW types, NEW c \in ConditionLists(types), NEW deps \in SUBSET types,
           Happy \in types, Happy \notin deps,
           deps # {}, Readable(c, deps)
    PROVE  Summarised(InitializeConditions(c, deps), deps)
<1> DEFINE i == InitializeConditions(c, deps)
           old == {d \in deps : c[d] # NoCondition}
<1>1. CASE \A d \in deps \cup {Happy} : c[d] = NoCondition
  BY <1>1 DEF InitializeConditions, Summarised, Summary, ConditionLists, IsTrue,
     Statuses, NoCondition
<1>2. CASE c[Happy] = Summary(c, old)
  <2>1. c[Happy] \in Statuses
    BY <1>2 DEF Summary, Statuses
  <2>2. /\ i[Happy] = c[Happy]
        /\ \A d \in old : i[d] = c[d]
        /\ \A d \in deps \ old :
              i[d] = IF c[Happy] = "True" THEN "True" ELSE "Unknown"
    BY <2>1 DEF InitializeConditions, ConditionLists, Statuses, NoCondition, IsTrue
  <2>3. Summary(i, deps) = Summary(c, old)
    BY <1>2, <2>2 DEF Summary, ConditionLists
  <2> QED
    BY <1>2, <2>2, <2>3 DEF Summarised, NoCondition
<1> QED
  BY <1>1, <1>2 DEF Readable

(* A summarised status is already initialized: InitializeConditions        *)
(* leaves it alone.                                                        *)
LEMMA InitializeConditionsIdempotent ==
    ASSUME NEW types, NEW c \in ConditionLists(types), NEW deps \in SUBSET types,
           Happy \in types, Happy \notin deps, Summarised(c, deps)
    PROVE  InitializeConditions(c, deps) = c
<1>1. c[Happy] \in Statuses
  BY DEF Summarised, Summary, Statuses
<1> QED
  BY <1>1 DEF InitializeConditions, Summarised, ConditionLists, Statuses, NoCondition

(* MarkTrue sets one dependent; Ready is True only if all of them are.     *)
LEMMA MarkTrueEffect ==
    ASSUME NEW types, NEW deps \in SUBSET types, Happy \in types, Happy \notin deps,
           NEW c \in ConditionLists(types), NEW t \in deps
    PROVE  LET m == MarkTrue(c, deps, t)
           IN  /\ \A d \in deps \ {t} : m[d] = c[d]
               /\ IsTrue(m[Happy]) => \A d \in deps : IsTrue(m[d])
<1> DEFINE s == SetCondition(c, t, "True")
           unhappy == FindUnhappyDependent(s, deps)
           m == MarkTrue(c, deps, t)
<1> SUFFICES /\ \A d \in deps \ {t} : m[d] = c[d]
             /\ IsTrue(m[Happy]) => \A d \in deps : IsTrue(m[d])
  OBVIOUS
<1>1. /\ s \in [types -> Statuses \cup {NoCondition}]
      /\ \A d \in deps \ {t} : s[d] = c[d]
  BY DEF SetCondition, ConditionLists, Statuses
<1>2. CASE unhappy # NoCondition
  <2>1. m = SetCondition(s, Happy, unhappy)
    BY <1>2 DEF MarkTrue, RecomputeHappiness
  <2>2. unhappy # "True"
    BY DEF FindUnhappyDependent, NoCondition
  <2> HIDE DEF s, unhappy, m
  <2> QED
    BY <1>1, <1>2, <2>1, <2>2 DEF SetCondition, IsTrue
<1>3. CASE unhappy = NoCondition
  <2>1. m = SetCondition(s, Happy, "True")
    BY <1>3 DEF MarkTrue, RecomputeHappiness
  <2>2. \A d \in deps : s[d] = "True"
    <3>1. \A d \in deps : s[d] \notin {"False", "Unknown", NoCondition}
      BY <1>3 DEF FindUnhappyDependent, NoCondition
    <3> HIDE DEF s
    <3> QED
      BY <1>1, <3>1 DEF Statuses
  <2> HIDE DEF s, unhappy, m
  <2> QED
    BY <1>1, <2>1, <2>2 DEF SetCondition, IsTrue, NoCondition
<1> QED
  BY <1>2, <1>3

(* MarkTrue of a dependent leaves a Ready in the list.                     *)
LEMMA MarkTrueSetsReady ==
    ASSUME NEW types, NEW c \in ConditionLists(types), NEW deps,
           Happy \in types, Happy \notin deps, NEW t \in deps
    PROVE  MarkTrue(c, deps, t)[Happy] # NoCondition
<1> DEFINE s == SetCondition(c, t, "True")
           unhappy == FindUnhappyDependent(s, deps)
<1>1. Happy \in DOMAIN s /\ t # Happy
  BY DEF SetCondition, ConditionLists
<1> HIDE DEF s, unhappy
<1>2. \A status : SetCondition(s, Happy, status)[Happy] = status
  BY <1>1 DEF SetCondition
<1>3. \/ unhappy # NoCondition /\ MarkTrue(c, deps, t) = SetCondition(s, Happy, unhappy)
      \/ MarkTrue(c, deps, t) = SetCondition(s, Happy, "True")
  BY <1>1 DEF MarkTrue, RecomputeHappiness, s, unhappy
<1> QED
  BY <1>2, <1>3 DEF NoCondition

(***************************************************************************)
(* The shared steps of base_controller.go.                                 *)
(***************************************************************************)

(* The fields of an outcome of reconcileSeedSecret.                        *)
LEMMA SeedOutcomeFields ==
    ASSUME NEW secret, NEW key, NEW result, NEW err, NEW fault
    PROVE  /\ SeedOutcome(secret, key, result, err, fault).secret = secret
           /\ SeedOutcome(secret, key, result, err, fault).key = key
           /\ SeedOutcome(secret, key, result, err, fault).err = err
BY DEF SeedOutcome

(* The errors are told apart.                                              *)
LEMMA ErrorsDiffer ==
    ASSUME NEW cause
    PROVE  /\ TemporaryError(cause) # NoError
           /\ TerminalError(cause) # NoError
           /\ PlainError(cause) # NoError
BY DEF TemporaryError, TerminalError, PlainError, NoError

(* reconcileSeedSecret leaves the seed Secret as it was, adopts it, or     *)
(* creates one for the new key; without an error it returns the key that   *)
(* the Secret then holds.                                                  *)
LEMMA SeedOutcomes ==
    ASSUME NEW keys, NEW s \in SeedSecrets(keys), NEW k, NEW o \in ReconcileSeedSecret(s, k)
    PROVE  \/ o.secret = s /\ o.err # NoError /\ o.key = NoKey
           \/ s.kind = "valid" /\ o.key = s.key /\ o.secret \in {s, SeedManaged(s.key)}
           \/ /\ s.kind = "valid"
              /\ o.err # NoError
              /\ o.secret = SeedManaged(s.key)
              /\ o.key = NoKey
           \/ /\ s.kind = "absent"
              /\ o.secret = SeedManaged(k)
              /\ o.key \in {k, NoKey}
              /\ o.err = NoError => o.key = k
<1>2. CASE o = SeedOutcome(s, NoKey, Zero, TemporaryError(ConditionUnknown), Fault)
  BY <1>2, SeedOutcomeFields, ErrorsDiffer
<1>3. CASE s.kind = "absent" /\ o \in CreateSeedSecret(k)
  <2>1. s = SeedAbsent
    BY <1>3 DEF SeedSecrets, SeedBad, SeedAbsent
  <2> QED
    BY <1>3, <2>1, SeedOutcomeFields, ErrorsDiffer DEF CreateSeedSecret
<1>4. CASE s = SeedBad /\ o \in EnsureSeedSecretUpToDate(s)
  <2>1. o = SeedOutcome(s, NoKey, Zero, TerminalError(ConditionFailed), Clean)
    BY <1>4 DEF EnsureSeedSecretUpToDate, SeedBad
  <2> QED
    BY <2>1, SeedOutcomeFields, ErrorsDiffer
<1>5. CASE s.kind = "valid" /\ o \in EnsureSeedSecretUpToDate(s)
  <2>1. o \in {SeedOutcome(s, s.key, Zero, NoError, Clean),
               SeedOutcome(SeedManaged(s.key), s.key, Requeue, NoError, Clean),
               SeedOutcome(s, NoKey, Zero, TemporaryError(ConditionFailed), Fault),
               SeedOutcome(SeedManaged(s.key), NoKey, Zero,
                           TemporaryError(ConditionFailed), Fault)}
    BY <1>5 DEF EnsureSeedSecretUpToDate
  <2> QED
    BY <1>5, <2>1, SeedOutcomeFields, ErrorsDiffer
<1>6. s.kind # "absent" => s.kind = "valid" \/ s = SeedBad
  BY DEF SeedSecrets, SeedAbsent
<1> QED
  BY <1>2, <1>3, <1>4, <1>5, <1>6 DEF ReconcileSeedSecret

(* What reconcileSeedSecret leaves in the cluster is a seed Secret, and    *)
(* without an error it returns a key.                                      *)
LEMMA SeedOutcomeType ==
    ASSUME NEW keys, NEW s \in SeedSecrets(keys), NEW k \in Nat,
           s.kind = "absent" => k \in keys,
           NEW o \in ReconcileSeedSecret(s, k)
    PROVE  /\ o.secret \in SeedSecrets(keys)
           /\ o.key \in keys \cup {NoKey}
           /\ o.err = NoError => o.key \in keys
           /\ o.secret.kind = "absent" => o.secret = s
<1>1. \A key \in keys : /\ SeedManaged(key) \in SeedSecrets(keys)
                        /\ SeedManaged(key).kind = "valid"
  BY DEF SeedManaged, SeedSecrets
<1>2. s.kind = "valid" => s.key \in keys
  BY DEF SeedSecrets, SeedAbsent, SeedBad
<1> QED
  BY <1>1, <1>2, SeedOutcomes

(* The answers of a write of the JWT Secret.                               *)
LEMMA WriteOutcome ==
    ASSUME NEW before, NEW next, NEW o \in WriteJWTSecret(before, next)
    PROVE  o.secret \in {before, next}
BY DEF WriteJWTSecret, JWTOutcome

(* The answers of the create that takes the place of an Update.            *)
LEMMA RecreateOutcome ==
    ASSUME NEW c, NEW o \in RecreateJWTSecret(c)
    PROVE  /\ o.secret \in {JWTAbsent, JWTSecret("present", TRUE, c)}
           /\ o.result = Requeue
<1>1. PICK w \in CreateJWTSecret(c) : o = [w EXCEPT !.fault = Gone]
  BY DEF RecreateJWTSecret
<1> DEFINE new == JWTSecret("present", TRUE, c)
           e == TemporaryError(ConditionFailed)
<1>2. \/ w = JWTOutcome(new, Requeue, NoError, Clean)
      \/ w = JWTOutcome(JWTAbsent, Requeue, e, Fault)
      \/ w = JWTOutcome(new, Requeue, e, Fault)
  BY <1>1 DEF CreateJWTSecret, WriteJWTSecret
<1> HIDE DEF new, e
<1>3. \A s, err, f : LET r == [JWTOutcome(s, Requeue, err, f) EXCEPT !.fault = Gone]
                     IN  r.secret = s /\ r.result = Requeue
  BY DEF JWTOutcome
<1>4. o.secret \in {JWTAbsent, new} /\ o.result = Requeue
  BY <1>1, <1>2, <1>3
<1> QED
  BY <1>4 DEF new

(* reconcileJWTSecret leaves the JWT Secret as it was, deleted, or holding *)
(* the wanted claims.                                                      *)
LEMMA JWTOutcomes ==
    ASSUME NEW j, NEW c, NEW o \in ReconcileJWTSecret(j, c)
    PROVE  o.secret \in {j, JWTAbsent, JWTSecret("present", TRUE, c)}
<1>1. CASE o \in CreateJWTSecret(c)
  BY <1>1, WriteOutcome DEF CreateJWTSecret
<1>2. CASE o \in WriteJWTSecret(j, JWTSecret("present", TRUE, c))
  BY <1>2, WriteOutcome
<1>3. \A result, err, fault :
        /\ JWTOutcome(j, result, err, fault).secret = j
        /\ JWTOutcome(JWTAbsent, result, err, fault).secret = JWTAbsent
  BY DEF JWTOutcome
<1>4. CASE o \in EnsureJWTSecretUpToDate(j, c)
  <2>1. CASE \/ o \in CreateJWTSecret(c)
             \/ o \in WriteJWTSecret(j, JWTSecret("present", TRUE, c))
    BY <2>1, <1>1, <1>2
  <2>2. CASE \E result, err, fault : \/ o = JWTOutcome(j, result, err, fault)
                                     \/ o = JWTOutcome(JWTAbsent, result, err, fault)
    <3>1. PICK result, err, fault : \/ o = JWTOutcome(j, result, err, fault)
                                    \/ o = JWTOutcome(JWTAbsent, result, err, fault)
      BY <2>2
    <3>2. o.secret = j \/ o.secret = JWTAbsent
      BY <3>1, <1>3
    <3> QED
      BY <3>2
  <2>3. CASE j.kind = "noData" /\ j.owned
    <3>1. \/ o = JWTOutcome(j, Zero, TemporaryError(ConditionUnknown), Fault)
          \/ o = JWTOutcome(JWTAbsent, Zero, TemporaryError(ConditionUnknown), Fault)
          \/ o \in CreateJWTSecret(c)
      BY <1>4, <2>3 DEF EnsureJWTSecretUpToDate
    <3> QED
      BY <3>1, <2>1, <2>2
  <2>4. CASE ~(j.kind = "noData" /\ j.owned)
    <3>1. \/ o = JWTOutcome(j, Zero, TerminalError(ConditionFailed), Clean)
          \/ o = JWTOutcome(j, Zero, NoError, Clean)
          \/ o \in WriteJWTSecret(j, JWTSecret("present", TRUE, c))
          \/ o \in RecreateJWTSecret(c)
      BY <1>4, <2>4 DEF EnsureJWTSecretUpToDate
    <3> QED
      BY <3>1, <2>1, <2>2, RecreateOutcome
  <2> QED
    BY <2>3, <2>4
<1> QED
  BY <1>1, <1>3, <1>4 DEF ReconcileJWTSecret

(* What reconcileJWTSecret leaves in the cluster is a JWT Secret.          *)
LEMMA JWTOutcomeType ==
    ASSUME NEW claims, NEW j \in JWTSecrets(claims), NEW c \in claims,
           NEW o \in ReconcileJWTSecret(j, c)
    PROVE  o.secret \in JWTSecrets(claims)
<1>1. /\ JWTSecret("present", TRUE, c) \in JWTSecrets(claims)
      /\ JWTAbsent \in JWTSecrets(claims)
  BY DEF JWTSecrets, JWTSecret
<1> QED
  BY <1>1, JWTOutcomes

(* Without an error and a requeue, reconcileJWTSecret found the wanted     *)
(* claims in a Secret and left it alone.                                   *)
LEMMA JWTInOrder ==
    ASSUME NEW claims, NEW j \in JWTSecrets(claims), NEW c,
           NEW o \in ReconcileJWTSecret(j, c),
           o.err = NoError, o.result # Requeue
    PROVE  o.secret = j /\ j.claims = c /\ j.kind = "present"
<1>1. \A before, next : \A w \in WriteJWTSecret(before, next) : w.result = Requeue
  BY DEF WriteJWTSecret, JWTOutcome
<1>2. \A secret, result, err, fault :
        /\ JWTOutcome(secret, result, err, fault).secret = secret
        /\ JWTOutcome(secret, result, err, fault).err = err
  BY DEF JWTOutcome
<1>3. o # JWTOutcome(j, Zero, TemporaryError(ConditionUnknown), Fault)
  BY <1>2, ErrorsDiffer
<1>4. j.kind # "absent" /\ o \in EnsureJWTSecretUpToDate(j, c)
  BY <1>1, <1>3 DEF ReconcileJWTSecret, CreateJWTSecret
<1>5. /\ o # JWTOutcome(JWTAbsent, Zero, TemporaryError(ConditionUnknown), Fault)
      /\ o # JWTOutcome(j, Zero, TerminalError(ConditionFailed), Clean)
  BY <1>2, ErrorsDiffer
<1>6. o \notin CreateJWTSecret(c)
  BY <1>1 DEF CreateJWTSecret
<1>7. ~(j.kind = "noData" /\ j.owned)
  BY <1>3, <1>4, <1>5, <1>6 DEF EnsureJWTSecretUpToDate
<1>8. j.kind \notin {"noData", "foreign"}
  BY <1>4, <1>5, <1>7 DEF EnsureJWTSecretUpToDate
<1>9. j.claims = c /\ o = JWTOutcome(j, Zero, NoError, Clean)
  BY <1>1, <1>4, <1>7, <1>8, RecreateOutcome DEF EnsureJWTSecretUpToDate
<1>10. j.kind = "present"
  BY <1>4, <1>8 DEF JWTSecrets, JWTSecret, JWTAbsent
<1> QED
  BY <1>2, <1>9, <1>10

(* What a user puts in the place of a JWT Secret is one, different from    *)
(* it, owned only if that was, and without its claims unless it is a copy  *)
(* that nobody owns.                                                       *)
LEMMA TamperedFacts ==
    ASSUME NEW claims, NEW j \in JWTSecrets(claims), NEW next \in TamperedJWTSecrets(j)
    PROVE  /\ next \in JWTSecrets(claims)
           /\ next # j
           /\ next.owned => j.owned
           /\ TamperingWith(next) # "unownedJWT" => next.claims = NoClaims
<1>1. j.claims \in claims \cup {NoClaims}
  BY DEF JWTSecrets, JWTSecret, JWTAbsent
<1>2. /\ next \in JWTSecrets({j.claims})
      /\ next # j
      /\ next.owned => j.owned
  BY DEF TamperedJWTSecrets
<1>3. next \in JWTSecrets(claims)
  BY <1>1, <1>2 DEF JWTSecrets
<1>4. next.kind \in {"noData", "foreign"} => next.claims = NoClaims
  BY <1>2 DEF JWTSecrets, JWTSecret, JWTAbsent
<1> QED
  BY <1>2, <1>3, <1>4 DEF TamperingWith

(* Without an error and a requeue, reconcileSeedSecret found a seed Secret *)
(* that is managed, and returns its key.                                   *)
LEMMA SeedInOrder ==
    ASSUME NEW keys, NEW s \in SeedSecrets(keys), NEW k,
           NEW o \in ReconcileSeedSecret(s, k),
           o.err = NoError, o.result # Requeue
    PROVE  /\ o.secret = s
           /\ s = SeedManaged(o.key)
           /\ o.key \in keys
<1>1. \A secret, key, result, err, fault :
        SeedOutcome(secret, key, result, err, fault).result = result
  BY DEF SeedOutcome
<1>2. o # SeedOutcome(s, NoKey, Zero, TemporaryError(ConditionUnknown), Fault)
  BY SeedOutcomeFields, ErrorsDiffer
<1>3. o \notin CreateSeedSecret(k)
  BY <1>1 DEF CreateSeedSecret
<1>4. o \in EnsureSeedSecretUpToDate(s) /\ s.kind # "absent"
  BY <1>2, <1>3 DEF ReconcileSeedSecret
<1>5. s.kind # "bad"
  BY <1>4, SeedOutcomeFields, ErrorsDiffer DEF EnsureSeedSecretUpToDate
<1>6. s.managed /\ o = SeedOutcome(s, s.key, Zero, NoError, Clean)
  <2>1. /\ o # SeedOutcome(SeedManaged(s.key), s.key, Requeue, NoError, Clean)
        /\ o # SeedOutcome(s, NoKey, Zero, TemporaryError(ConditionFailed), Fault)
        /\ o # SeedOutcome(SeedManaged(s.key), NoKey, Zero,
                           TemporaryError(ConditionFailed), Fault)
    BY <1>1, SeedOutcomeFields, ErrorsDiffer
  <2> QED
    BY <1>4, <1>5, <2>1 DEF EnsureSeedSecretUpToDate
<1>7. s.key \in keys /\ s = SeedManaged(s.key)
  BY <1>4, <1>5, <1>6 DEF SeedSecrets, SeedAbsent, SeedBad, SeedManaged
<1> QED
  BY <1>6, <1>7, SeedOutcomeFields

(* AsResult answers yes or no.                                             *)
LEMMA AsResultType == \A err : AsResult(err) \in BOOLEAN
BY DEF AsResult

(* A mark for an error returns a list over the same types.                 *)
LEMMA MarkConditionType ==
    ASSUME NEW types, NEW c \in ConditionLists(types), NEW deps,
           Happy \in types, NEW t \in types, NEW err
    PROVE  MarkCondition(c, deps, t, err) \in ConditionLists(types)
BY MarkFalseType, MarkUnknownType DEF MarkCondition

(* A mark for an error makes the dependent and Ready other than True.      *)
LEMMA MarkConditionEffect ==
    ASSUME NEW types, NEW deps \in SUBSET types, Happy \in types, Happy \notin deps,
           NEW c \in ConditionLists(types), NEW t \in deps, NEW err
    PROVE  LET m == MarkCondition(c, deps, t, err)
           IN  /\ \A d \in deps \ {t} : m[d] = c[d]
               /\ ~IsTrue(m[t])
               /\ ~IsTrue(m[Happy])
<1>1. CASE err.cause = ConditionFailed
  BY <1>1
     DEF MarkCondition, MarkFalse, SetCondition, ConditionLists, IsTrue
<1>2. CASE err.cause # ConditionFailed
  BY <1>2
     DEF MarkCondition, MarkUnknown, MarkFalse, SetCondition,
         ConditionLists, IsTrue
<1> QED
  BY <1>1, <1>2
=============================================================================
