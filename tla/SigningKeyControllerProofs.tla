--------------------- MODULE SigningKeyControllerProofs ---------------------
(***************************************************************************)
(* Safety of the SigningKey reconciler for every set of owners, Secrets    *)
(* and specs, every number of keys and disturbances, and every set of      *)
(* hazards but one, which a theorem names where it is left out.            *)
(***************************************************************************)
EXTENDS SigningKeyController, ReconcilerLemmas, FiniteSetTheorems

(***************************************************************************)
(* What the lifecycle methods and an Update do to a copy.                  *)
(***************************************************************************)

Ready(u) == IsTrue(u.conds[Happy])

(* ReadyHasReferences of any copy of the SigningKey.                       *)
References(u) ==
    /\ IsTrue(u.conds["OwnerResolved"]) => u.ownerRef # NoOwner
    /\ IsTrue(u.conds["SeedSecretReady"]) => u.keyPair # NoKeyPair
    /\ Ready(u) => u.ownerRef # NoOwner /\ u.keyPair # NoKeyPair

(* v is u with another status.                                             *)
SameMeta(u, v) ==
    /\ v \in SigningKeys
    /\ v.exists = u.exists /\ v.gen = u.gen
    /\ v.tagged = u.tagged /\ v.labels = u.labels

(* v has the status of u.                                                  *)
SameStatus(u, v) ==
    v.conds = u.conds /\ v.keyPair = u.keyPair /\ v.ownerRef = u.ownerRef

(* The condition types of a SigningKey.                                    *)
LEMMA DependentFacts ==
    /\ Happy \notin SigningKeyDependents
    /\ Happy \in SigningKeyTypes
    /\ SigningKeyDependents \in SUBSET SigningKeyTypes
    /\ "OwnerResolved" \in SigningKeyDependents
    /\ "SeedSecretReady" \in SigningKeyDependents
    /\ "OwnerResolved" # "SeedSecretReady"
BY DEF SigningKeyDependents, SigningKeyTypes, Happy

(* A SigningKey's status is these three fields.                            *)
LEMMA StatusFields ==
    ASSUME NEW u, NEW v
    PROVE  Status(u) = Status(v) <=> SameStatus(v, u)
BY DEF Status, SameStatus

(* A record with the fields of a key pair or of an owner is one.           *)
LEMMA ReferenceTypes ==
    /\ \A secret \in Secrets, key \in Keys \cup {Empty} :
        LET k == [secret |-> secret, publicKey |-> key]
        IN  /\ k \in KeyPairs /\ k # NoKeyPair
            /\ k.secret = secret /\ k.publicKey = key
    /\ \A kind \in Kinds, name \in Names, uid \in 1 .. MaxUID :
        LET r == [kind |-> kind, name |-> name, uid |-> uid]
        IN  r \in OwnerRefs /\ r # NoOwner /\ r.kind = kind /\ r.name = name
<1>1. ASSUME NEW secret \in Secrets, NEW key \in Keys \cup {Empty}
      PROVE  LET k == [secret |-> secret, publicKey |-> key]
             IN  /\ k \in KeyPairs /\ k # NoKeyPair
                 /\ k.secret = secret /\ k.publicKey = key
  <2> DEFINE k == [secret |-> secret, publicKey |-> key]
  <2>1. k \in KeyPairs /\ k.secret = secret /\ k.publicKey = key
    BY DEF KeyPairs
  <2>2. NoKeyPair.secret = "nil" /\ secret # "nil"
    BY SecretNamesAssumption DEF NoKeyPair
  <2> QED
    BY <2>1, <2>2
<1>2. ASSUME NEW kind \in Kinds, NEW name \in Names, NEW uid \in 1 .. MaxUID
      PROVE  LET r == [kind |-> kind, name |-> name, uid |-> uid]
             IN  r \in OwnerRefs /\ r # NoOwner /\ r.kind = kind /\ r.name = name
  <2> DEFINE r == [kind |-> kind, name |-> name, uid |-> uid]
  <2>1. r \in OwnerRefs /\ r.kind = kind /\ r.name = name
    BY DEF OwnerRefs
  <2>2. NoOwner.kind = "nil" /\ kind # "nil"
    BY DEF NoOwner, Kinds
  <2> QED
    BY <2>1, <2>2
<1> QED
  BY <1>1, <1>2

(* MarkSeedSecretReady sets the key pair with its condition.               *)
LEMMA MarkSeedSecretEffect ==
    ASSUME NEW u \in SigningKeys, NEW key \in Keys \cup {Empty}, NEW secret \in Secrets
    PROVE  LET v == MarkSeedSecretReady(u, key, secret)
           IN  /\ SameMeta(u, v)
               /\ v.keyPair.secret = secret /\ v.keyPair.publicKey = key
               /\ v.ownerRef = u.ownerRef
               /\ v.conds[Happy] # NoCondition
               /\ References(u) => References(v)
<1> DEFINE k == [secret |-> secret, publicKey |-> key]
           c == MarkTrue(u.conds, SigningKeyDependents, "SeedSecretReady")
           v == [u EXCEPT !.keyPair = k, !.conds = c]
<1>1. /\ k \in KeyPairs /\ k # NoKeyPair
      /\ k.secret = secret /\ k.publicKey = key
  BY ReferenceTypes
<1>2. /\ u.conds \in ConditionLists(SigningKeyTypes)
      /\ u.ownerRef \in OwnerRefs \cup {NoOwner}
  BY DEF SigningKeys
<1>3. c \in ConditionLists(SigningKeyTypes)
  BY <1>2, MarkTrueType, DependentFacts
<1>4. /\ \A d \in SigningKeyDependents \ {"SeedSecretReady"} : c[d] = u.conds[d]
      /\ IsTrue(c[Happy]) => \A d \in SigningKeyDependents : IsTrue(c[d])
  BY <1>2, MarkTrueEffect, DependentFacts
<1>h. c[Happy] # NoCondition
  BY <1>2, MarkTrueSetsReady, DependentFacts
<1>5. MarkSeedSecretReady(u, key, secret) = v
  BY DEF MarkSeedSecretReady
<1> HIDE DEF k, c
<1>6. SameMeta(u, v) /\ v.conds = c /\ v.keyPair = k /\ v.ownerRef = u.ownerRef
  BY <1>1, <1>3 DEF SigningKeys, SameMeta
<1> HIDE DEF v
<1>7. References(u) => References(v)
  BY <1>1, <1>4, <1>6, DependentFacts DEF References, Ready
<1> QED
  BY <1>1, <1>h, <1>5, <1>6, <1>7

(* MarkOwnerResolved sets the owner with its condition.                    *)
LEMMA MarkOwnerResolvedEffect ==
    ASSUME NEW u \in SigningKeys, NEW r \in OwnerRefs, r # NoOwner
    PROVE  LET v == MarkOwnerResolved(u, r)
           IN  /\ SameMeta(u, v)
               /\ v.ownerRef = r /\ v.keyPair = u.keyPair
               /\ v.conds[Happy] # NoCondition
               /\ References(u) => References(v)
<1> DEFINE c == MarkTrue(u.conds, SigningKeyDependents, "OwnerResolved")
           v == [u EXCEPT !.ownerRef = r, !.conds = c]
<1>1. /\ u.conds \in ConditionLists(SigningKeyTypes)
      /\ u.keyPair \in KeyPairs \cup {NoKeyPair}
  BY DEF SigningKeys
<1>2. c \in ConditionLists(SigningKeyTypes)
  BY <1>1, MarkTrueType, DependentFacts
<1>3. /\ \A d \in SigningKeyDependents \ {"OwnerResolved"} : c[d] = u.conds[d]
      /\ IsTrue(c[Happy]) => \A d \in SigningKeyDependents : IsTrue(c[d])
  BY <1>1, MarkTrueEffect, DependentFacts
<1>h. c[Happy] # NoCondition
  BY <1>1, MarkTrueSetsReady, DependentFacts
<1>4. MarkOwnerResolved(u, r) = v
  BY DEF MarkOwnerResolved
<1> HIDE DEF c
<1>5. SameMeta(u, v) /\ v.conds = c /\ v.keyPair = u.keyPair /\ v.ownerRef = r
  BY <1>2 DEF SigningKeys, SameMeta
<1> HIDE DEF v
<1>6. References(u) => References(v)
  BY <1>3, <1>5, DependentFacts DEF References, Ready
<1> QED
  BY <1>h, <1>4, <1>5, <1>6

(* The marks of a failed resolution drop the owner, and Ready with it.     *)
LEMMA MarkOwnerFailedEffect ==
    ASSUME NEW u \in SigningKeys
    PROVE  LET v == MarkOwnerResolveFailed(u)
           IN  /\ SameMeta(u, v)
               /\ v.ownerRef = NoOwner /\ v.keyPair = u.keyPair
               /\ v.conds[Happy] = "False"
               /\ References(u) => References(v)
<1> DEFINE c == MarkFalse(u.conds, SigningKeyDependents, "OwnerResolved")
           v == [u EXCEPT !.ownerRef = NoOwner, !.conds = c]
<1>1. /\ u.conds \in ConditionLists(SigningKeyTypes)
      /\ u.keyPair \in KeyPairs \cup {NoKeyPair}
  BY DEF SigningKeys
<1>2. c \in ConditionLists(SigningKeyTypes)
  BY <1>1, MarkFalseType, DependentFacts
<1>3. /\ \A d \in SigningKeyDependents \ {"OwnerResolved"} : c[d] = u.conds[d]
      /\ c["OwnerResolved"] = "False" /\ c[Happy] = "False"
  BY <1>1, DependentFacts DEF MarkFalse, SetCondition, ConditionLists
<1>4. MarkOwnerResolveFailed(u) = v
  BY DEF MarkOwnerResolveFailed
<1> HIDE DEF c
<1>5. SameMeta(u, v) /\ v.conds = c /\ v.keyPair = u.keyPair /\ v.ownerRef = NoOwner
  BY <1>2 DEF SigningKeys, SameMeta
<1> HIDE DEF v
<1>6. References(u) => References(v)
  BY <1>3, <1>5, DependentFacts DEF References, Ready, IsTrue
<1> QED
  BY <1>3, <1>4, <1>5, <1>6

(* InitializeConditions: under a True Ready nothing is missing.            *)
LEMMA InitializeEffect ==
    ASSUME NEW u \in SigningKeys
    PROVE  LET v == [u EXCEPT !.conds = InitializeConditions(@, SigningKeyDependents)]
           IN  /\ SameMeta(u, v)
               /\ v.keyPair = u.keyPair /\ v.ownerRef = u.ownerRef
               /\ v.conds[Happy] # NoCondition
               /\ References(u) => References(v)
<1> DEFINE c == InitializeConditions(u.conds, SigningKeyDependents)
           v == [u EXCEPT !.conds = c]
<1>1. u.conds \in ConditionLists(SigningKeyTypes)
  BY DEF SigningKeys
<1>2. c \in ConditionLists(SigningKeyTypes)
  BY <1>1, InitializeConditionsType, DependentFacts
<1>3. /\ IsTrue(c[Happy]) => IsTrue(u.conds[Happy])
      /\ c[Happy] # NoCondition
      /\ \A d \in SigningKeyDependents :
            IsTrue(c[d]) => IsTrue(u.conds[d]) \/ IsTrue(u.conds[Happy])
  <2>1. DOMAIN u.conds = SigningKeyTypes
    BY <1>1 DEF ConditionLists
  <2> QED
    BY <2>1, DependentFacts DEF InitializeConditions, IsTrue, NoCondition
<1> HIDE DEF c
<1>4. /\ SameMeta(u, v) /\ v.conds = c
      /\ v.keyPair = u.keyPair /\ v.ownerRef = u.ownerRef
  BY <1>2 DEF SigningKeys, SameMeta
<1> HIDE DEF v
<1>5. References(u) => References(v)
  BY <1>3, <1>4, DependentFacts DEF References, Ready
<1>6. /\ SameMeta(u, v) /\ v.conds[Happy] # NoCondition
      /\ v.keyPair = u.keyPair /\ v.ownerRef = u.ownerRef
  BY <1>3, <1>4
<1> QED
  BY <1>5, <1>6 DEF v, c

(* The answer of the server over the copy o: each field is the server's or *)
(* the copy's, and never the copy's conditions with the server's lack of a *)
(* reference.                                                              *)
LEMMA DecodeEffect ==
    ASSUME NEW o \in SigningKeys, NEW s \in SigningKeys
    PROVE  LET v == DecodeInto(o, s)
           IN  /\ SameMeta(s, v)
               /\ v.keyPair = (IF s.keyPair # NoKeyPair THEN s.keyPair ELSE o.keyPair)
               /\ v.ownerRef = (IF s.ownerRef # NoOwner THEN s.ownerRef ELSE o.ownerRef)
               /\ v.conds = (IF s.conds[Happy] # NoCondition THEN s.conds ELSE o.conds)
               /\ References(o) /\ References(s) => References(v)
<1> DEFINE k == IF s.keyPair # NoKeyPair THEN s.keyPair ELSE o.keyPair
           r == IF s.ownerRef # NoOwner THEN s.ownerRef ELSE o.ownerRef
           c == IF s.conds[Happy] # NoCondition THEN s.conds ELSE o.conds
           v == [s EXCEPT !.conds = c, !.keyPair = k, !.ownerRef = r]
<1>1. /\ k \in KeyPairs \cup {NoKeyPair} /\ r \in OwnerRefs \cup {NoOwner}
      /\ c \in ConditionLists(SigningKeyTypes)
  BY DEF SigningKeys
<1>2. DecodeInto(o, s) = v
  BY DEF DecodeInto
<1> HIDE DEF k, r, c
<1>3. /\ SameMeta(s, v) /\ v.conds = c /\ v.keyPair = k /\ v.ownerRef = r
  BY <1>1 DEF SigningKeys, SameMeta
<1> HIDE DEF v
<1>4. References(o) /\ References(s) => References(v)
  BY <1>3 DEF References, Ready, k, r, c
<1> QED
  BY <1>2, <1>3, <1>4 DEF k, r, c

(***************************************************************************)
(* Type correctness.  TypeOK is not inductive: there must be a key pair    *)
(* left for every Secret that is missing, and no status may have a public  *)
(* key that nextKey has not passed.                                        *)
(***************************************************************************)

Missing == {s \in Secrets : ~secrets[s].exists}

KeysLeft == nextKey + Cardinality(Missing) <= MaxKeys + 1

Generated(u) == u.keyPair.publicKey < nextKey

TypeInv ==
    /\ TypeOK
    /\ KeysLeft
    /\ Generated(sk) /\ Generated(cached) /\ Generated(old)
    /\ Generated(obj) /\ Generated(orig)

(* The bounds, and the types of the spec of a copy.                        *)
LEMMA SpecFacts ==
    /\ MaxGen \in Nat \ {0} /\ MaxKeys \in Nat \ {0} /\ MaxUID \in Nat \ {0}
    /\ MaxDisturbances \in Nat
    /\ \A u \in SigningKeys : /\ SpecOf[u.gen] \in Specs
                              /\ SpecOf[u.gen].secret \in Secrets
                              /\ SpecOf[u.gen].name \in Names
BY SigningKeyBounds, SpecOfAssumption DEF SigningKeys, Specs

(* The number of missing Secrets is one.                                   *)
LEMMA MissingType == IsFiniteSet(Missing) /\ Cardinality(Missing) \in Nat
<1>1. Missing \subseteq Secrets /\ IsFiniteSet(Secrets)
  BY SigningKeyBounds DEF Missing
<1> QED
  BY <1>1, FS_Subset, FS_CardinalityType

(* A Secret that is created is no longer missing.                          *)
LEMMA FillMissing ==
    ASSUME secrets \in [Secrets -> SecretValues], NEW s \in Secrets, NEW v,
           ~secrets[s].exists, v.exists = TRUE,
           secrets' = [secrets EXCEPT ![s] = v]
    PROVE  /\ Cardinality(Missing') = Cardinality(Missing) - 1
           /\ Cardinality(Missing) >= 1
<1>1. Missing' = Missing \ {s} /\ s \in Missing
  BY DEF Missing
<1>2. IsFiniteSet(Missing) /\ Cardinality(Missing) \in Nat
  BY MissingType
<1>3. IsFiniteSet(Missing') /\ Cardinality(Missing') \in Nat
  BY <1>1, <1>2, FS_Subset, FS_CardinalityType
<1> QED
  BY <1>1, <1>2, <1>3, FS_RemoveElement

(* A Secret that is deleted is missing.                                    *)
LEMMA EmptyMissing ==
    ASSUME secrets \in [Secrets -> SecretValues], NEW s \in Secrets,
           secrets[s].exists, secrets' = [secrets EXCEPT ![s] = SecretAbsent]
    PROVE  Cardinality(Missing') = Cardinality(Missing) + 1
<1>1. SecretAbsent.exists = FALSE
  BY DEF SecretAbsent
<1>2. Missing' = Missing \cup {s} /\ s \notin Missing
  BY <1>1 DEF Missing
<1> QED
  BY <1>2, MissingType, FS_AddElement

(* A disturbance is paid for.                                              *)
LEMMA DisturbType ==
    ASSUME budget \in 0 .. MaxDisturbances, NEW kind, Disturb(kind)
    PROVE  budget' \in 0 .. MaxDisturbances
BY SpecFacts DEF Disturb

(* A fault is paid for, or there was none.                                 *)
LEMMA FaultWhenType ==
    ASSUME budget \in 0 .. MaxDisturbances, NEW possible, FaultWhen(possible)
    PROVE  budget' \in 0 .. MaxDisturbances
BY DisturbType DEF FaultWhen

(***************************************************************************)
(* The effect of each step of the reconcile.                               *)
(***************************************************************************)

(* What a step finds.                                                      *)
LEMMA Found ==
    ASSUME TypeInv
    PROVE  /\ sk \in SigningKeys /\ cached \in SigningKeys /\ old \in SigningKeys
           /\ obj \in SigningKeys /\ orig \in SigningKeys
           /\ cacheFresh \in BOOLEAN /\ objFresh \in BOOLEAN
           /\ queued \in BOOLEAN /\ requeue \in BOOLEAN
           /\ budget \in 0 .. MaxDisturbances
BY DEF TypeInv, TypeOK

(* A field of the reconcile's own memory is given a value of its type.     *)
LocalType ==
    /\ obj' \in SigningKeys
    /\ requeue' \in BOOLEAN
    /\ budget' \in 0 .. MaxDisturbances

(* StartReconcile copies the cached SigningKey.                            *)
LEMMA StartEffect ==
    ASSUME TypeInv, StartReconcile
    PROVE  /\ UNCHANGED <<server, secrets, nextKey, owners, budget, requeue>>
           /\ pc = "idle" /\ queued' = FALSE
           /\ \/ ~cached.exists /\ UNCHANGED local
              \/ /\ cached.exists
                 /\ pc' = "owner" /\ orig' = cached /\ objFresh' = cacheFresh
                 /\ SameMeta(cached, obj')
                 /\ obj'.keyPair = cached.keyPair /\ obj'.ownerRef = cached.ownerRef
                 /\ obj'.conds[Happy] # NoCondition
                 /\ References(cached) => References(obj')
<1>1. CASE cached.exists
  <2>1. obj' = [cached EXCEPT !.conds = InitializeConditions(@, SigningKeyDependents)]
    BY <1>1 DEF StartReconcile, Goto
  <2>2. LET v == [cached EXCEPT !.conds = InitializeConditions(@, SigningKeyDependents)]
        IN  /\ SameMeta(cached, v)
            /\ v.keyPair = cached.keyPair /\ v.ownerRef = cached.ownerRef
            /\ v.conds[Happy] # NoCondition
            /\ References(cached) => References(v)
    BY Found, InitializeEffect
  <2>3. /\ SameMeta(cached, obj')
        /\ obj'.keyPair = cached.keyPair /\ obj'.ownerRef = cached.ownerRef
        /\ obj'.conds[Happy] # NoCondition
        /\ References(cached) => References(obj')
    BY <2>1, <2>2
  <2> QED
    BY <1>1, <2>3 DEF StartReconcile, Goto
<1>2. CASE ~cached.exists
  BY <1>2 DEF StartReconcile, local
<1> QED
  BY <1>1, <1>2

(* ensureOwnerResolved goes on with the owner that the copy's spec names,  *)
(* or with none.                                                           *)
LEMMA OwnerEffect ==
    ASSUME TypeInv, EnsureOwnerResolved
    PROVE  /\ UNCHANGED <<server, queued, objFresh, orig, secrets, nextKey, owners>>
           /\ pc = "owner" /\ pc' \in {"labels", "status"}
           /\ LocalType
           /\ SameMeta(obj, obj')
           /\ obj'.keyPair = obj.keyPair
           /\ obj'.conds[Happy] # NoCondition
           /\ References(obj) => References(obj')
           /\ \/ obj'.ownerRef = NoOwner
              \/ RefersTo(obj'.ownerRef, SpecOf[obj.gen])
           /\ pc' = "status" => obj'.ownerRef = NoOwner /\ ~Ready(obj')
<1> DEFINE spec == SpecOf[obj.gen]
           owner == owners[spec.kind][spec.name]
           ref == [kind |-> spec.kind, name |-> spec.name, uid |-> owner.uid]
<1>1. /\ obj \in SigningKeys /\ requeue \in BOOLEAN /\ budget \in 0 .. MaxDisturbances
      /\ spec.name \in Names
  BY Found, SpecFacts
<1>2. \/ /\ Supported(spec)
         /\ pc' = "labels" /\ requeue' = requeue
         /\ obj' = MarkOwnerResolved(obj, ref)
      \/ /\ obj' = MarkOwnerResolveFailed(obj)
         /\ pc' \in {"labels", "status"}
  BY DEF EnsureOwnerResolved, Goto, Return
<1>3. /\ UNCHANGED <<server, queued, objFresh, orig, secrets, nextKey, owners>>
      /\ pc = "owner"
  BY DEF EnsureOwnerResolved
<1>4. requeue' \in BOOLEAN
  <2>1. \A err : AsResult(err) \in BOOLEAN
    BY DEF AsResult
  <2> QED
    BY <1>1, <2>1, Zenon DEF EnsureOwnerResolved, Return
<1>5. budget' \in 0 .. MaxDisturbances
  BY <1>1, DisturbType DEF EnsureOwnerResolved
<1>6. CASE obj' = MarkOwnerResolveFailed(obj)
  <2>1. LET v == MarkOwnerResolveFailed(obj)
        IN  /\ SameMeta(obj, v)
            /\ v.ownerRef = NoOwner /\ v.keyPair = obj.keyPair
            /\ v.conds[Happy] = "False"
            /\ References(obj) => References(v)
    BY <1>1, MarkOwnerFailedEffect
  <2>2. /\ SameMeta(obj, obj')
        /\ obj'.ownerRef = NoOwner /\ obj'.keyPair = obj.keyPair
        /\ obj'.conds[Happy] = "False"
        /\ References(obj) => References(obj')
    BY <1>6, <2>1
  <2> QED
    BY <1>2, <1>3, <1>4, <1>5, <2>2 DEF LocalType, SameMeta, Ready, IsTrue, NoCondition
<1>7. CASE Supported(spec) /\ pc' = "labels" /\ obj' = MarkOwnerResolved(obj, ref)
  <2>1. spec.kind \in Kinds /\ owner.uid \in 1 .. MaxUID
    BY <1>1, <1>7 DEF Supported, TypeInv, TypeOK, OwnerValues
  <2> HIDE DEF owner
  <2>2. /\ ref \in OwnerRefs /\ ref # NoOwner
        /\ ref.kind = spec.kind /\ ref.name = spec.name
    BY <1>1, <2>1, ReferenceTypes
  <2> HIDE DEF ref
  <2>3. LET v == MarkOwnerResolved(obj, ref)
        IN  /\ SameMeta(obj, v)
            /\ v.ownerRef = ref /\ v.keyPair = obj.keyPair
            /\ v.conds[Happy] # NoCondition
            /\ References(obj) => References(v)
    BY <1>1, <2>2, MarkOwnerResolvedEffect
  <2>4. /\ SameMeta(obj, obj')
        /\ obj'.ownerRef = ref /\ obj'.keyPair = obj.keyPair
        /\ obj'.conds[Happy] # NoCondition
        /\ References(obj) => References(obj')
    BY <1>7, <2>3
  <2>5. RefersTo(obj'.ownerRef, spec)
    BY <2>2, <2>4 DEF RefersTo
  <2> QED
    BY <1>3, <1>4, <1>5, <1>7, <2>4, <2>5 DEF LocalType, SameMeta
<1> QED
  BY <1>2, <1>6, <1>7

(* What an Update of the labels leaves of a SigningKey.                    *)
LEMMA LabelEffect ==
    ASSUME NEW u \in SigningKeys, NEW labels \in [Kinds -> Names \cup {NoLabel}]
    PROVE  LET v == [u EXCEPT !.labels = labels]
           IN  /\ v \in SigningKeys /\ v.exists = u.exists /\ v.gen = u.gen
               /\ SameStatus(u, v)
BY DEF SigningKeys, SameStatus

(* The labels that are asked for.                                          *)
LEMMA OwnerLabelsType ==
    ASSUME NEW u \in SigningKeys, u.ownerRef # NoOwner
    PROVE  OwnerLabels(u) \in [Kinds -> Names \cup {NoLabel}]
BY DEF OwnerLabels, SigningKeys, OwnerRefs

(* reconcileLabels goes on without a write, or returns for another         *)
(* reconcile: with the server's answer in the copy, or with a copy whose   *)
(* status is as it was.                                                    *)
LEMMA ReconcileLabelsEffect ==
    ASSUME TypeInv, ReconcileLabels
    PROVE  /\ UNCHANGED <<cached, old, queued, orig, secrets, nextKey, owners>>
           /\ pc = "labels"
           /\ LocalType
           /\ sk' \in SigningKeys /\ sk'.gen = sk.gen /\ SameStatus(sk, sk')
           /\ cacheFresh' \in BOOLEAN /\ objFresh' \in BOOLEAN
           /\ \/ pc' = "getSeed" /\ UNCHANGED <<sk, cacheFresh, obj, objFresh>>
              \/ /\ pc' = "status" /\ requeue' = TRUE
                 /\ cacheFresh' => UNCHANGED <<sk, cacheFresh>>
                 /\ objFresh' => objFresh
                 /\ \/ /\ obj'.gen = obj.gen /\ SameStatus(obj, obj')
                    \/ /\ objFresh /\ obj'.gen = sk.gen
                       /\ SameStatus(DecodeInto(obj, sk'), obj')
<1> DEFINE next == [sk EXCEPT !.labels = OwnerLabels(obj)]
           copy == [obj EXCEPT !.labels = OwnerLabels(obj)]
           labelled == obj.ownerRef = NoOwner \/ obj.labels = OwnerLabels(obj)
<1>1. /\ obj \in SigningKeys /\ sk \in SigningKeys /\ requeue \in BOOLEAN
      /\ cacheFresh \in BOOLEAN /\ objFresh \in BOOLEAN
      /\ budget \in 0 .. MaxDisturbances
  BY Found
<1>2. ASSUME ~labelled
      PROVE  /\ next \in SigningKeys /\ next.exists = sk.exists /\ next.gen = sk.gen
             /\ SameStatus(sk, next)
             /\ copy \in SigningKeys /\ copy.gen = obj.gen
             /\ SameStatus(obj, copy)
  BY <1>1, <1>2, OwnerLabelsType, LabelEffect
<1>3. UNCHANGED <<cached, old, queued, orig, secrets, nextKey, owners>> /\ pc = "labels"
  BY DEF ReconcileLabels, server
<1>4. budget' \in 0 .. MaxDisturbances
  BY <1>1, DisturbType, FaultWhenType DEF ReconcileLabels
<1> DEFINE decoded == DecodeInto(obj, next)
<1>5. ~labelled => decoded \in SigningKeys /\ decoded.gen = sk.gen
  BY <1>1, <1>2, DecodeEffect DEF SameMeta
<1>6. \/ pc' = "getSeed" /\ UNCHANGED <<sk, cacheFresh, obj, objFresh, requeue>>
      \/ /\ ~labelled /\ pc' = "status" /\ requeue' = TRUE
         /\ \/ /\ objFresh /\ objFresh' = TRUE /\ sk' = next /\ cacheFresh' = FALSE
               /\ obj' = decoded
            \/ /\ obj' = copy
               /\ UNCHANGED <<sk, cacheFresh, objFresh>>
            \/ /\ obj' = copy /\ objFresh' = FALSE /\ sk' = next /\ cacheFresh' = FALSE
  BY <1>1 DEF ReconcileLabels, Goto, Return, UpdateApplies, server
<1>7. SameStatus(sk, sk) /\ SameStatus(decoded, decoded)
  BY DEF SameStatus
<1> HIDE DEF next, copy, labelled
<1>8. CASE pc' = "getSeed" /\ UNCHANGED <<sk, cacheFresh, obj, objFresh, requeue>>
  BY <1>1, <1>3, <1>4, <1>7, <1>8 DEF LocalType
<1>9. CASE /\ ~labelled /\ pc' = "status" /\ requeue' = TRUE
           /\ objFresh /\ objFresh' = TRUE /\ sk' = next /\ cacheFresh' = FALSE
           /\ obj' = decoded
  BY <1>1, <1>2, <1>3, <1>4, <1>5, <1>7, <1>9 DEF LocalType
<1>10. CASE /\ ~labelled /\ pc' = "status" /\ requeue' = TRUE
            /\ obj' = copy
            /\ UNCHANGED <<sk, cacheFresh, objFresh>>
  BY <1>1, <1>2, <1>3, <1>4, <1>7, <1>10 DEF LocalType
<1>11. CASE /\ ~labelled /\ pc' = "status" /\ requeue' = TRUE
            /\ obj' = copy /\ objFresh' = FALSE /\ sk' = next /\ cacheFresh' = FALSE
  BY <1>1, <1>2, <1>3, <1>4, <1>11 DEF LocalType
<1> QED
  BY <1>6, <1>8, <1>9, <1>10, <1>11

(* The keys of a Secret.                                                   *)
LEMMA SecretKeys ==
    ASSUME NEW v \in SecretValues
    PROVE  v.seed \in Keys \cup {Empty} /\ v.publicKey \in Keys \cup {Empty}
<1>1. CASE v = SecretAbsent
  BY <1>1 DEF SecretAbsent
<1>2. CASE v \in [exists : {TRUE}, seed : Keys \cup {Empty},
                  publicKey : Keys \cup {Empty}, owned : BOOLEAN]
  BY <1>2
<1> QED
  BY <1>1, <1>2 DEF SecretValues

(* The Get of ensureKeyPair: without a retry it takes the public key of    *)
(* the Secret that the copy's spec names.                                  *)
LEMMA GetSeedEffect ==
    ASSUME TypeInv, GetSeedSecret
    PROVE  /\ UNCHANGED <<server, queued, objFresh, orig, secrets, nextKey, owners>>
           /\ pc = "getSeed" /\ pc' \in {"createSeed", "status"}
           /\ LocalType
           /\ SameMeta(obj, obj')
           /\ obj'.ownerRef = obj.ownerRef
           /\ obj.conds[Happy] # NoCondition => obj'.conds[Happy] # NoCondition
           /\ References(obj) => References(obj')
           /\ Generated(obj')
           /\ pc' = "status" /\ ~requeue' =>
                /\ secrets[obj'.keyPair.secret].exists
                /\ secrets[obj'.keyPair.secret].publicKey = obj'.keyPair.publicKey
<1> DEFINE spec == SpecOf[obj.gen]
           got == secrets[spec.secret]
           marked == MarkSeedSecretReady(obj, got.publicKey, spec.secret)
<1>1. /\ obj \in SigningKeys /\ requeue \in BOOLEAN /\ budget \in 0 .. MaxDisturbances
      /\ spec.secret \in Secrets /\ Generated(obj)
  BY Found, SpecFacts DEF TypeInv
<1>2. /\ UNCHANGED <<server, queued, objFresh, orig, secrets, nextKey, owners>>
      /\ pc = "getSeed"
  BY DEF GetSeedSecret
<1>3. budget' \in 0 .. MaxDisturbances
  BY <1>1, DisturbType DEF GetSeedSecret
<1>4. \/ got.exists /\ pc' = "status" /\ requeue' = FALSE /\ obj' = marked
      \/ pc' = "createSeed" /\ obj' = obj /\ requeue' = requeue
      \/ pc' = "status" /\ obj' = obj /\ requeue' = TRUE
  BY DEF GetSeedSecret, Goto, Return
<1>5. CASE got.exists /\ pc' = "status" /\ requeue' = FALSE /\ obj' = marked
  <2>1. got.publicKey \in Keys \cup {Empty} /\ got.publicKey < nextKey
    <3>1. \A v \in SecretValues : v.publicKey \in Keys \cup {Empty}
      BY SecretKeys
    <3>2. got \in SecretValues /\ got.publicKey < nextKey
      BY <1>1 DEF TypeInv, TypeOK
    <3> QED
      BY <3>1, <3>2
  <2> HIDE DEF got
  <2>2. /\ SameMeta(obj, marked)
        /\ marked.keyPair.secret = spec.secret
        /\ marked.keyPair.publicKey = got.publicKey
        /\ marked.ownerRef = obj.ownerRef
        /\ marked.conds[Happy] # NoCondition
        /\ References(obj) => References(marked)
    BY <1>1, <2>1, MarkSeedSecretEffect
  <2> HIDE DEF marked
  <2>3. /\ SameMeta(obj, obj')
        /\ obj'.keyPair.secret = spec.secret
        /\ obj'.keyPair.publicKey = got.publicKey
        /\ obj'.ownerRef = obj.ownerRef
        /\ obj'.conds[Happy] # NoCondition
        /\ References(obj) => References(obj')
    BY <1>5, <2>2
  <2>4. Generated(obj')
    BY <1>2, <2>1, <2>3 DEF Generated
  <2>5. /\ secrets[obj'.keyPair.secret].exists
        /\ secrets[obj'.keyPair.secret].publicKey = obj'.keyPair.publicKey
    BY <1>5, <2>3 DEF got
  <2> QED
    BY <1>2, <1>3, <1>5, <2>3, <2>4, <2>5 DEF LocalType, SameMeta
<1>6. CASE \/ pc' = "createSeed" /\ obj' = obj /\ requeue' = requeue
           \/ pc' = "status" /\ obj' = obj /\ requeue' = TRUE
  <2>1. SameMeta(obj, obj') /\ Generated(obj')
    BY <1>1, <1>2, <1>6 DEF SameMeta, Generated
  <2> QED
    BY <1>1, <1>2, <1>3, <1>6, <2>1 DEF LocalType
<1> QED
  BY <1>4, <1>5, <1>6

(* The Create of ensureKeyPair: a new Secret takes the place of none, is   *)
(* noticed, and is asked for again; its key pair is the next one.          *)
LEMMA CreateSeedEffect ==
    ASSUME TypeInv, CreateSecret
    PROVE  /\ UNCHANGED <<server, objFresh, orig, owners>>
           /\ pc = "createSeed" /\ pc' = "status" /\ requeue' = TRUE
           /\ LocalType
           /\ SameMeta(obj, obj')
           /\ obj'.ownerRef = obj.ownerRef
           /\ obj.conds[Happy] # NoCondition => obj'.conds[Happy] # NoCondition
           /\ References(obj) => References(obj')
           /\ obj'.keyPair.publicKey < nextKey'
           /\ queued' \in BOOLEAN
           /\ \/ UNCHANGED <<secrets, nextKey, queued>>
              \/ \E s \in Secrets :
                    /\ ~secrets[s].exists
                    /\ secrets' = [secrets EXCEPT ![s] = Secret(nextKey, nextKey, TRUE)]
                    /\ nextKey' = nextKey + 1
                    /\ queued' = TRUE
<1> DEFINE spec == SpecOf[obj.gen]
           marked == MarkSeedSecretReady(obj, nextKey, spec.secret)
<1>1. /\ obj \in SigningKeys /\ requeue \in BOOLEAN /\ budget \in 0 .. MaxDisturbances
      /\ spec.secret \in Secrets /\ queued \in BOOLEAN
      /\ nextKey \in 1 .. MaxKeys + 1 /\ Generated(obj)
  BY Found, SpecFacts DEF TypeInv, TypeOK
<1>2. /\ UNCHANGED <<server, objFresh, orig, owners>>
      /\ pc = "createSeed" /\ pc' = "status" /\ requeue' = TRUE
  BY DEF CreateSecret, Goto, Return, AfterRefusedCreate
<1>3. budget' \in 0 .. MaxDisturbances
  BY <1>1, DisturbType, FaultWhenType DEF CreateSecret
<1>4. \/ obj' = obj /\ UNCHANGED <<secrets, nextKey, queued>>
      \/ /\ obj' \in {obj, marked}
         /\ ~secrets[spec.secret].exists
         /\ secrets' = [secrets EXCEPT ![spec.secret] = Secret(nextKey, nextKey, TRUE)]
         /\ nextKey' = nextKey + 1
         /\ queued' = TRUE
  BY DEF CreateSecret, Goto, Return, AfterRefusedCreate, NewSeedSecret
<1>5. CASE obj' = obj
  <2>1. SameMeta(obj, obj')
    BY <1>1, <1>5 DEF SameMeta
  <2>2. obj'.keyPair.publicKey < nextKey'
    <3>1. \A u \in SigningKeys : u.keyPair.publicKey \in Nat
      BY SpecFacts DEF SigningKeys, KeyPairs, NoKeyPair, Keys, Empty
    <3>2. nextKey' \in {nextKey, nextKey + 1}
      BY <1>4
    <3> QED
      BY <1>1, <1>5, <3>1, <3>2, SpecFacts DEF Generated
  <2> QED
    BY <1>1, <1>2, <1>3, <1>4, <1>5, <2>1, <2>2 DEF LocalType
<1>6. CASE /\ obj' = marked
           /\ ~secrets[spec.secret].exists
           /\ secrets' = [secrets EXCEPT ![spec.secret] = Secret(nextKey, nextKey, TRUE)]
           /\ nextKey' = nextKey + 1
           /\ queued' = TRUE
  <2>1. nextKey \in Keys
    <3>1. Secret(nextKey, nextKey, TRUE).exists = TRUE
      BY DEF Secret
    <3>2. Cardinality(Missing) >= 1 /\ Cardinality(Missing) \in Nat
      BY <1>1, <1>6, <3>1, FillMissing, MissingType DEF TypeInv, TypeOK
    <3> QED
      BY <1>1, <3>2, SpecFacts DEF TypeInv, KeysLeft, Keys
  <2>2. /\ SameMeta(obj, marked)
        /\ marked.keyPair.publicKey = nextKey
        /\ marked.ownerRef = obj.ownerRef
        /\ marked.conds[Happy] # NoCondition
        /\ References(obj) => References(marked)
    BY <1>1, <2>1, MarkSeedSecretEffect
  <2> HIDE DEF marked
  <2>3. /\ SameMeta(obj, obj')
        /\ obj'.keyPair.publicKey = nextKey
        /\ obj'.ownerRef = obj.ownerRef
        /\ obj'.conds[Happy] # NoCondition
        /\ References(obj) => References(obj')
    BY <1>6, <2>2
  <2>4. obj'.keyPair.publicKey < nextKey'
    BY <1>1, <1>6, <2>3, SpecFacts
  <2> QED
    BY <1>1, <1>2, <1>3, <1>6, <2>3, <2>4 DEF LocalType, SameMeta
<1> QED
  BY <1>4, <1>5, <1>6

(* The deferred status update stores the status of a copy of the latest    *)
(* version, or asks for another reconcile.                                 *)
LEMMA UpdateStatusEffect ==
    ASSUME TypeInv, UpdateStatus
    PROVE  /\ UNCHANGED <<cached, old, secrets, nextKey, owners>>
           /\ pc = "status" /\ pc' = "idle"
           /\ obj' = NoSigningKey /\ orig' = NoSigningKey
           /\ objFresh' = FALSE /\ requeue' = FALSE
           /\ budget' \in 0 .. MaxDisturbances
           /\ queued' \in BOOLEAN /\ cacheFresh' \in BOOLEAN
           /\ queued => queued'
           /\ \/ /\ UNCHANGED <<sk, cacheFresh>>
                 /\ queued' \/ (~requeue /\ SameStatus(orig, obj))
              \/ /\ cacheFresh' = FALSE /\ objFresh /\ ~SameStatus(orig, obj)
                 /\ SameMeta(sk, sk') /\ SameStatus(obj, sk')
<1>1. /\ obj \in SigningKeys /\ sk \in SigningKeys /\ requeue \in BOOLEAN
      /\ queued \in BOOLEAN /\ cacheFresh \in BOOLEAN /\ objFresh \in BOOLEAN
      /\ budget \in 0 .. MaxDisturbances
  BY Found
<1>2. /\ UNCHANGED <<cached, old, secrets, nextKey, owners>>
      /\ pc = "status" /\ pc' = "idle"
      /\ obj' = NoSigningKey /\ orig' = NoSigningKey
      /\ objFresh' = FALSE /\ requeue' = FALSE
  BY DEF UpdateStatus, server
<1>3. budget' \in 0 .. MaxDisturbances
  BY <1>1, DisturbType, FaultWhenType DEF UpdateStatus
<1> DEFINE next == [sk EXCEPT !.conds = obj.conds, !.keyPair = obj.keyPair,
                              !.ownerRef = obj.ownerRef]
<1>4. \/ /\ SameStatus(orig, obj) /\ queued' = (queued \/ requeue)
         /\ UNCHANGED <<sk, cacheFresh>>
      \/ /\ ~SameStatus(orig, obj) /\ objFresh /\ sk' = next /\ cacheFresh' = FALSE
         /\ queued' \in BOOLEAN /\ (queued => queued')
      \/ queued' = TRUE /\ UNCHANGED <<sk, cacheFresh>>
  BY <1>1, StatusFields DEF UpdateStatus, UpdateApplies, server
<1>5. SameMeta(sk, next) /\ SameStatus(obj, next)
  BY <1>1 DEF SigningKeys, SameMeta, SameStatus
<1> HIDE DEF next
<1> QED
  BY <1>1, <1>2, <1>3, <1>4, <1>5

(***************************************************************************)
(* The effect of users and of the other controllers.                       *)
(***************************************************************************)

(* A write of the SigningKey that is not the controller's leaves the       *)
(* status, and makes the cache and the copy stale.                         *)
LEMMA ForeignEffect ==
    ASSUME TypeInv, EditSpec \/ Retag \/ DeleteSigningKey
    PROVE  /\ UNCHANGED <<cached, old, queued, pc, obj, orig, requeue,
                          secrets, nextKey, owners>>
           /\ sk' \in SigningKeys /\ SameStatus(sk, sk')
           /\ cacheFresh' = FALSE /\ objFresh' = FALSE
           /\ budget' \in 0 .. MaxDisturbances
<1>1. sk \in SigningKeys /\ budget \in 0 .. MaxDisturbances
  BY Found
<1>2. CASE EditSpec
  <2>1. sk.gen + 1 \in Gens
    BY <1>1, <1>2, SpecFacts DEF EditSpec, SigningKeys, Gens
  <2>2. sk' = [sk EXCEPT !.gen = sk.gen + 1]
    BY <1>2 DEF EditSpec, ForeignWrite
  <2>3. sk' \in SigningKeys /\ SameStatus(sk, sk')
    BY <1>1, <2>1, <2>2 DEF SigningKeys, SameStatus
  <2> QED
    BY <1>1, <1>2, <2>3 DEF EditSpec, ForeignWrite
<1>3. CASE Retag
  <2>1. sk' = [sk EXCEPT !.tagged = ~sk.tagged] /\ (~sk.tagged) \in BOOLEAN
    BY <1>3 DEF Retag, ForeignWrite
  <2>2. sk' \in SigningKeys /\ SameStatus(sk, sk')
    BY <1>1, <2>1 DEF SigningKeys, SameStatus
  <2>3. budget' \in 0 .. MaxDisturbances
    BY <1>1, <1>3, DisturbType DEF Retag
  <2> QED
    BY <1>3, <2>2, <2>3 DEF Retag, ForeignWrite
<1>4. CASE DeleteSigningKey
  <2>1. sk' = [sk EXCEPT !.exists = FALSE]
    BY <1>4 DEF DeleteSigningKey, ForeignWrite
  <2>2. sk' \in SigningKeys /\ SameStatus(sk, sk')
    BY <1>1, <2>1 DEF SigningKeys, SameStatus
  <2>3. budget' \in 0 .. MaxDisturbances
    BY <1>1, <1>4, DisturbType DEF DeleteSigningKey
  <2> QED
    BY <1>4, <2>2, <2>3 DEF DeleteSigningKey, ForeignWrite
<1> QED
  BY <1>2, <1>3, <1>4

(* What a restart lists: the server's version, or a copy that was cached.  *)
LEMMA ListedCopy ==
    ASSUME Crash
    PROVE  /\ cached' \in {sk, cached, old}
           /\ cacheFresh' \in {TRUE, FALSE, cacheFresh}
           /\ cacheFresh' => cached' = sk \/ (cacheFresh /\ cached' = cached)
           /\ queued' = cached'.exists
<1>1. PICK l \in List : cached' = l[1] /\ cacheFresh' = l[2] /\ queued' = l[1].exists
  BY DEF Crash
<1>2. l = <<sk, TRUE>> \/ l = <<cached, cacheFresh>> \/ l = <<old, FALSE>>
  BY <1>1 DEF List
<1>3. CASE l = <<sk, TRUE>>
  BY <1>1, <1>3
<1>4. CASE l = <<cached, cacheFresh>>
  BY <1>1, <1>4
<1>5. CASE l = <<old, FALSE>>
  BY <1>1, <1>5
<1> QED
  BY <1>2, <1>3, <1>4, <1>5

(* A Secret is deleted: it is owned and its deletion noticed, or not.      *)
LEMMA LossEffect ==
    ASSUME TypeInv, DeleteSecret \/ CollectGarbage
    PROVE  /\ UNCHANGED <<server, local, nextKey, owners>>
           /\ budget' \in 0 .. MaxDisturbances
           /\ queued' \in BOOLEAN /\ (queued => queued')
           /\ queued' \/ "foreignSecret" \in Hazards
           /\ KeyToSpare
           /\ \E s \in Secrets : /\ secrets[s].exists
                                 /\ secrets' = [secrets EXCEPT ![s] = SecretAbsent]
<1>1. queued \in BOOLEAN /\ budget \in 0 .. MaxDisturbances
  BY Found
<1>2. PICK s \in Secrets :
        /\ LoseSecret(s)
        /\ secrets[s].owned \/ "foreignSecret" \in Hazards
        /\ budget' \in 0 .. MaxDisturbances
  <2>1. CASE DeleteSecret
    <3>1. PICK s \in Secrets :
            /\ Disturb(IF secrets[s].owned THEN "ownedSecret" ELSE "foreignSecret")
            /\ LoseSecret(s)
      BY <2>1 DEF DeleteSecret
    <3>2. budget' \in 0 .. MaxDisturbances
      BY <1>1, <3>1, DisturbType
    <3> QED
      BY <3>1, <3>2 DEF Disturb
  <2>2. CASE CollectGarbage
    BY <1>1, <2>2 DEF CollectGarbage
  <2> QED
    BY <2>1, <2>2
<1> QED
  BY <1>1, <1>2 DEF LoseSecret

(* A user's Secret takes the place of none.                                *)
LEMMA PrecreateEffect ==
    ASSUME TypeInv, PrecreateSecret
    PROVE  /\ UNCHANGED <<server, queued, local, owners>>
           /\ budget' \in 0 .. MaxDisturbances
           /\ nextKey' = nextKey + 1
           /\ \E s \in Secrets, key \in {nextKey, Empty} :
                /\ ~secrets[s].exists
                /\ secrets' = [secrets EXCEPT ![s] = Secret(nextKey, key, FALSE)]
<1>1. budget \in 0 .. MaxDisturbances
  BY Found
<1>2. budget' \in 0 .. MaxDisturbances
  BY <1>1, DisturbType DEF PrecreateSecret
<1> QED
  BY <1>2 DEF PrecreateSecret

(* What may become of an owner.                                            *)
LEMMA OwnerEdits ==
    ASSUME NEW v \in OwnerValues
    PROVE  /\ [v EXCEPT !.exists = FALSE] \in OwnerValues
           /\ v.uid < MaxUID => [v EXCEPT !.exists = TRUE, !.uid = @ + 1] \in OwnerValues
           /\ \A selector \in Selectors : [v EXCEPT !.selector = selector] \in OwnerValues
<1>1. v.uid < MaxUID => v.uid + 1 \in 1 .. MaxUID
  BY SpecFacts DEF OwnerValues
<1> QED
  BY <1>1 DEF OwnerValues

(* An owner is deleted, created again, or given another selector.          *)
LEMMA OwnerChangeEffect ==
    ASSUME TypeInv, DeleteOwner \/ RecreateOwner \/ ChangeSelector
    PROVE  /\ UNCHANGED <<server, local, secrets, nextKey>>
           /\ budget' \in 0 .. MaxDisturbances
           /\ queued' \in BOOLEAN /\ (queued => queued')
           /\ owners' \in [Kinds -> [Names -> OwnerValues]]
<1>1. /\ queued \in BOOLEAN /\ budget \in 0 .. MaxDisturbances
      /\ owners \in [Kinds -> [Names -> OwnerValues]]
  BY Found DEF TypeInv, TypeOK
<1>2. \E k \in Kinds, n \in Names, v \in OwnerValues : ChangeOwner(k, n, v)
  <2>1. CASE DeleteOwner
    <3>1. PICK k \in Kinds, n \in Names :
            ChangeOwner(k, n, [owners[k][n] EXCEPT !.exists = FALSE])
      BY <2>1 DEF DeleteOwner
    <3>2. [owners[k][n] EXCEPT !.exists = FALSE] \in OwnerValues
      BY <1>1, OwnerEdits
    <3> QED
      BY <3>1, <3>2
  <2>2. CASE RecreateOwner
    <3>1. PICK k \in Kinds, n \in Names :
            /\ owners[k][n].uid < MaxUID
            /\ ChangeOwner(k, n, [owners[k][n] EXCEPT !.exists = TRUE, !.uid = @ + 1])
      BY <2>2 DEF RecreateOwner
    <3>2. [owners[k][n] EXCEPT !.exists = TRUE, !.uid = @ + 1] \in OwnerValues
      BY <1>1, <3>1, OwnerEdits
    <3> QED
      BY <3>1, <3>2
  <2>3. CASE ChangeSelector
    <3>1. PICK k \in Kinds, n \in Names, selector \in Selectors :
            ChangeOwner(k, n, [owners[k][n] EXCEPT !.selector = selector])
      BY <2>3 DEF ChangeSelector
    <3>2. [owners[k][n] EXCEPT !.selector = selector] \in OwnerValues
      BY <1>1, OwnerEdits
    <3> QED
      BY <3>1, <3>2
  <2> QED
    BY <2>1, <2>2, <2>3
<1>3. budget' \in 0 .. MaxDisturbances
  BY <1>1, DisturbType DEF DeleteOwner, RecreateOwner, ChangeSelector
<1> QED
  BY <1>1, <1>2, <1>3 DEF ChangeOwner, OwnerWatcher

(***************************************************************************)
(* The type invariant is kept.                                             *)
(***************************************************************************)

(* The copy that a worker without a reconcile has.                         *)
LEMMA NoSigningKeyFacts ==
    /\ NewSigningKey \in SigningKeys /\ NoSigningKey \in SigningKeys
    /\ NewSigningKey.keyPair.publicKey = 0 /\ NoSigningKey.keyPair.publicKey = 0
    /\ NoSigningKey.ownerRef = NoOwner /\ NewSigningKey.ownerRef = NoOwner
    /\ References(NoSigningKey) /\ References(NewSigningKey)
<1> DEFINE labels == [k \in Kinds |-> NoLabel]
           c == [t \in SigningKeyTypes |-> NoCondition]
<1>1. labels \in [Kinds -> Names \cup {NoLabel}]
  OBVIOUS
<1>2. /\ c \in ConditionLists(SigningKeyTypes)
      /\ \A t \in SigningKeyTypes : ~IsTrue(c[t])
  BY DEF ConditionLists, NoCondition, IsTrue
<1>3. 1 \in Gens
  BY SpecFacts DEF Gens
<1> HIDE DEF labels, c
<1>4. NewSigningKey = [exists |-> TRUE, gen |-> 1, tagged |-> FALSE,
        labels |-> labels, conds |-> c, keyPair |-> NoKeyPair, ownerRef |-> NoOwner]
  BY DEF NewSigningKey, labels, c
<1>5. /\ NewSigningKey \in SigningKeys /\ NewSigningKey.conds = c
      /\ NewSigningKey.keyPair = NoKeyPair /\ NewSigningKey.ownerRef = NoOwner
  BY <1>1, <1>2, <1>3, <1>4 DEF SigningKeys
<1>6. /\ NoSigningKey \in SigningKeys /\ NoSigningKey.conds = c
      /\ NoSigningKey.keyPair = NoKeyPair /\ NoSigningKey.ownerRef = NoOwner
  BY <1>5 DEF NoSigningKey, SigningKeys
<1>7. References(NoSigningKey) /\ References(NewSigningKey)
  BY <1>2, <1>5, <1>6, DependentFacts DEF References, Ready, SigningKeyTypes
<1> QED
  BY <1>5, <1>6, <1>7 DEF NoKeyPair, Empty

(* The Secrets and the keys that are left, of TypeInv.                     *)
SecretsType ==
    /\ nextKey \in 1 .. MaxKeys + 1
    /\ secrets \in [Secrets -> SecretValues]
    /\ \A s \in Secrets : secrets[s].seed < nextKey /\ secrets[s].publicKey < nextKey
    /\ KeysLeft

(* A new Secret, with the key pair that is next.                           *)
LEMMA StoreType ==
    ASSUME TypeInv,
           NEW s \in Secrets, NEW key \in {nextKey, Empty}, NEW owned \in BOOLEAN,
           ~secrets[s].exists,
           secrets' = [secrets EXCEPT ![s] = Secret(nextKey, key, owned)],
           nextKey' = nextKey + 1
    PROVE  SecretsType'
<1> DEFINE v == Secret(nextKey, key, owned)
<1>1. /\ nextKey \in 1 .. MaxKeys + 1 /\ secrets \in [Secrets -> SecretValues]
      /\ \A t \in Secrets : secrets[t].seed < nextKey /\ secrets[t].publicKey < nextKey
      /\ nextKey + Cardinality(Missing) <= MaxKeys + 1
  BY DEF TypeInv, TypeOK, KeysLeft
<1>2. v.exists = TRUE /\ v.seed = nextKey /\ v.publicKey = key
  BY DEF Secret
<1>3. /\ Cardinality(Missing') = Cardinality(Missing) - 1
      /\ Cardinality(Missing) >= 1
      /\ Cardinality(Missing) \in Nat
  BY <1>1, <1>2, FillMissing, MissingType
<1>4. nextKey \in Keys
  BY <1>1, <1>3, SpecFacts DEF Keys
<1>5. v \in SecretValues
  BY <1>4 DEF Secret, SecretValues
<1> HIDE DEF v
<1>6. secrets' \in [Secrets -> SecretValues]
  BY <1>1, <1>5 DEF v
<1>7. nextKey' \in 1 .. MaxKeys + 1 /\ KeysLeft'
  BY <1>1, <1>3, SpecFacts DEF KeysLeft
<1>8. ASSUME NEW t \in Secrets
      PROVE  secrets'[t].seed < nextKey' /\ secrets'[t].publicKey < nextKey'
  <2>1. \A w \in SecretValues : w.seed \in Nat /\ w.publicKey \in Nat
    <3>1. \A w \in SecretValues : /\ w.publicKey \in Keys \cup {Empty}
                                  /\ w.seed \in Keys \cup {Empty}
      BY SecretKeys
    <3> QED
      BY <3>1, SpecFacts DEF Keys, Empty
  <2>2. CASE t = s
    <3>1. secrets'[t] = v
      BY <1>1, <2>2 DEF v
    <3>2. key <= nextKey /\ key \in Nat
      BY <1>1, SpecFacts DEF Empty
    <3> QED
      BY <1>1, <1>2, <3>1, <3>2, SpecFacts
  <2>3. CASE t # s
    <3>1. secrets'[t] = secrets[t] /\ secrets[t] \in SecretValues
      BY <1>1, <2>3
    <3> QED
      BY <1>1, <2>1, <3>1, SpecFacts
  <2> QED
    BY <2>2, <2>3
<1> QED
  BY <1>6, <1>7, <1>8 DEF SecretsType

(* A Secret goes while there is a key pair to spare.                       *)
LEMMA LossType ==
    ASSUME TypeInv, KeyToSpare, NEW s \in Secrets, secrets[s].exists,
           secrets' = [secrets EXCEPT ![s] = SecretAbsent], nextKey' = nextKey
    PROVE  SecretsType'
<1>1. /\ nextKey \in 1 .. MaxKeys + 1 /\ secrets \in [Secrets -> SecretValues]
      /\ \A t \in Secrets : secrets[t].seed < nextKey /\ secrets[t].publicKey < nextKey
  BY DEF TypeInv, TypeOK
<1>2. /\ SecretAbsent \in SecretValues
      /\ SecretAbsent.seed = 0 /\ SecretAbsent.publicKey = 0
  BY DEF SecretValues, SecretAbsent, Empty
<1>3. Cardinality(Missing') = Cardinality(Missing) + 1 /\ Cardinality(Missing) \in Nat
  BY <1>1, EmptyMissing, MissingType
<1>4. nextKey + Cardinality(Missing) <= MaxKeys
  BY DEF KeyToSpare, Missing
<1>5. KeysLeft'
  BY <1>1, <1>3, <1>4, SpecFacts DEF KeysLeft
<1>6. secrets' \in [Secrets -> SecretValues]
  BY <1>1, <1>2
<1>7. ASSUME NEW t \in Secrets
      PROVE  secrets'[t].seed < nextKey' /\ secrets'[t].publicKey < nextKey'
  <2>1. secrets'[t] = SecretAbsent \/ secrets'[t] = secrets[t]
    BY <1>1
  <2> QED
    BY <1>1, <1>2, <2>1, SpecFacts
<1> QED
  BY <1>1, <1>5, <1>6, <1>7 DEF SecretsType

(* A public key that has been passed stays so.                             *)
LEMMA GeneratedStays ==
    ASSUME TypeInv, NEW u \in SigningKeys, Generated(u),
           nextKey' \in {nextKey, nextKey + 1}
    PROVE  u.keyPair.publicKey < nextKey'
<1>1. u.keyPair.publicKey \in Nat
  BY SpecFacts DEF SigningKeys, KeyPairs, NoKeyPair, Keys, Empty
<1>2. nextKey \in 1 .. MaxKeys + 1
  BY DEF TypeInv, TypeOK
<1> QED
  BY <1>1, <1>2, SpecFacts DEF Generated

(* The first state: there is a key pair for every Secret.                  *)
LEMMA TypeInvInit == Init => TypeInv
<1> SUFFICES ASSUME Init PROVE TypeInv
  OBVIOUS
<1>1. SecretAbsent \in SecretValues /\ SecretAbsent.seed = 0 /\ SecretAbsent.publicKey = 0
  BY DEF SecretValues, SecretAbsent, Empty
<1>2. /\ secrets \in [Secrets -> SecretValues] /\ nextKey = 1
      /\ \A s \in Secrets : secrets[s].seed < nextKey /\ secrets[s].publicKey < nextKey
  BY <1>1 DEF Init
<1>3. KeysLeft
  <2>1. Missing \subseteq Secrets /\ IsFiniteSet(Secrets)
    BY SigningKeyBounds DEF Missing
  <2>2. Cardinality(Missing) <= Cardinality(Secrets) /\ Cardinality(Secrets) \in Nat
    BY <2>1, FS_Subset, FS_CardinalityType
  <2> QED
    BY <1>2, <2>2, MissingType, SigningKeyBounds DEF KeysLeft
<1>4. owners \in [Kinds -> [Names -> OwnerValues]]
  <2> DEFINE v == [exists |-> TRUE, uid |-> 1, selector |-> FirstSelector]
  <2>1. v \in OwnerValues
    BY FirstSelectorAssumption, SpecFacts DEF OwnerValues
  <2> HIDE DEF v
  <2>2. owners = [k \in Kinds |-> [n \in Names |-> v]]
    BY DEF Init, v
  <2> QED
    BY <2>1, <2>2
<1>5. nextKey \in 1 .. MaxKeys + 1 /\ budget \in 0 .. MaxDisturbances
  BY <1>2, SpecFacts DEF Init
<1>6. /\ sk \in SigningKeys /\ cached \in SigningKeys /\ old \in SigningKeys
      /\ obj \in SigningKeys /\ orig \in SigningKeys
      /\ Generated(sk) /\ Generated(cached) /\ Generated(old)
      /\ Generated(obj) /\ Generated(orig)
  BY <1>2, NoSigningKeyFacts DEF Init, Generated
<1>7. /\ cacheFresh \in BOOLEAN /\ objFresh \in BOOLEAN
      /\ queued \in BOOLEAN /\ requeue \in BOOLEAN /\ pc = "idle"
  BY DEF Init
<1> QED
  BY <1>2, <1>3, <1>4, <1>5, <1>6, <1>7 DEF TypeInv, TypeOK

(* A step may leave the Secrets alone.                                     *)
LEMMA TypeFrame ==
    ASSUME TypeInv, UNCHANGED <<secrets, nextKey>>
    PROVE  SecretsType'
BY DEF TypeInv, TypeOK, SecretsType, KeysLeft, Missing

(* Every step keeps TypeInv.                                               *)
LEMMA TypeInvNext == TypeInv /\ [Next]_vars => TypeInv'
<1> SUFFICES ASSUME TypeInv, [Next]_vars PROVE TypeInv'
  OBVIOUS
<1> DEFINE Others ==
        /\ cached' \in SigningKeys /\ old' \in SigningKeys /\ orig' \in SigningKeys
        /\ cacheFresh' \in BOOLEAN /\ objFresh' \in BOOLEAN
        /\ queued' \in BOOLEAN /\ requeue' \in BOOLEAN
        /\ pc' \in {"idle", "owner", "labels", "getSeed", "createSeed", "status"}
        /\ owners' \in [Kinds -> [Names -> OwnerValues]]
        /\ budget' \in 0 .. MaxDisturbances
    Copies ==
        /\ sk'.keyPair.publicKey < nextKey' /\ cached'.keyPair.publicKey < nextKey'
        /\ old'.keyPair.publicKey < nextKey'
        /\ obj'.keyPair.publicKey < nextKey' /\ orig'.keyPair.publicKey < nextKey'
<1>a. ASSUME SecretsType', Others, Copies, sk' \in SigningKeys, obj' \in SigningKeys
      PROVE  TypeInv'
  BY <1>a DEF TypeInv, TypeOK, SecretsType, Generated
<1>b. /\ sk \in SigningKeys /\ cached \in SigningKeys /\ old \in SigningKeys
      /\ obj \in SigningKeys /\ orig \in SigningKeys
      /\ cacheFresh \in BOOLEAN /\ objFresh \in BOOLEAN
      /\ queued \in BOOLEAN /\ requeue \in BOOLEAN
      /\ budget \in 0 .. MaxDisturbances
      /\ pc \in {"idle", "owner", "labels", "getSeed", "createSeed", "status"}
      /\ owners \in [Kinds -> [Names -> OwnerValues]]
      /\ sk.keyPair.publicKey < nextKey /\ cached.keyPair.publicKey < nextKey
      /\ old.keyPair.publicKey < nextKey
      /\ obj.keyPair.publicKey < nextKey /\ orig.keyPair.publicKey < nextKey
      /\ nextKey \in 1 .. MaxKeys + 1
  BY DEF TypeInv, TypeOK, Generated
<1>c. UNCHANGED <<secrets, nextKey>> => SecretsType'
  BY TypeFrame
<1>n. NoSigningKey \in SigningKeys /\ NoSigningKey.keyPair.publicKey < nextKey
  BY <1>b, NoSigningKeyFacts, SpecFacts
<1>1. CASE StartReconcile
  <2>1. /\ UNCHANGED <<server, secrets, nextKey, owners, budget, requeue>>
        /\ pc = "idle" /\ queued' = FALSE
        /\ \/ ~cached.exists /\ UNCHANGED local
           \/ /\ pc' = "owner" /\ orig' = cached /\ objFresh' = cacheFresh
              /\ obj' \in SigningKeys /\ obj'.keyPair = cached.keyPair
    BY <1>1, StartEffect DEF SameMeta
  <2>2. Others /\ Copies /\ sk' \in SigningKeys /\ obj' \in SigningKeys
    BY <1>b, <2>1 DEF server, local
  <2> QED
    BY <1>a, <1>c, <2>1, <2>2
<1>2. CASE EnsureOwnerResolved
  <2>1. /\ UNCHANGED <<server, queued, objFresh, orig, secrets, nextKey, owners>>
        /\ pc' \in {"labels", "status"} /\ LocalType /\ obj'.keyPair = obj.keyPair
    BY <1>2, OwnerEffect
  <2>2. Others /\ Copies /\ sk' \in SigningKeys /\ obj' \in SigningKeys
    BY <1>b, <2>1 DEF server, LocalType
  <2> QED
    BY <1>a, <1>c, <2>1, <2>2
<1>3. CASE ReconcileLabels
  <2>1. /\ UNCHANGED <<cached, old, queued, orig, secrets, nextKey, owners>>
        /\ LocalType
        /\ sk' \in SigningKeys /\ SameStatus(sk, sk')
        /\ cacheFresh' \in BOOLEAN /\ objFresh' \in BOOLEAN
        /\ pc' \in {"getSeed", "status"}
        /\ \/ obj' = obj
           \/ SameStatus(obj, obj')
           \/ SameStatus(DecodeInto(obj, sk'), obj')
    BY <1>3, ReconcileLabelsEffect
  <2>2. DecodeInto(obj, sk').keyPair \in {sk'.keyPair, obj.keyPair}
    BY <1>b, <2>1, DecodeEffect
  <2>3. Others /\ Copies /\ sk' \in SigningKeys /\ obj' \in SigningKeys
    BY <1>b, <2>1, <2>2 DEF LocalType, SameStatus
  <2> QED
    BY <1>a, <1>c, <2>1, <2>3
<1>4. CASE GetSeedSecret
  <2>1. /\ UNCHANGED <<server, queued, objFresh, orig, secrets, nextKey, owners>>
        /\ pc' \in {"createSeed", "status"} /\ LocalType
        /\ obj'.keyPair.publicKey < nextKey
    BY <1>4, GetSeedEffect DEF Generated
  <2>2. Others /\ Copies /\ sk' \in SigningKeys /\ obj' \in SigningKeys
    BY <1>b, <2>1 DEF server, LocalType
  <2> QED
    BY <1>a, <1>c, <2>1, <2>2
<1>5. CASE CreateSecret
  <2>1. /\ UNCHANGED <<server, objFresh, orig, owners>>
        /\ pc' = "status" /\ LocalType /\ queued' \in BOOLEAN
        /\ obj'.keyPair.publicKey < nextKey'
        /\ \/ UNCHANGED <<secrets, nextKey, queued>>
           \/ \E s \in Secrets :
                 /\ ~secrets[s].exists
                 /\ secrets' = [secrets EXCEPT ![s] = Secret(nextKey, nextKey, TRUE)]
                 /\ nextKey' = nextKey + 1
    BY <1>5, CreateSeedEffect
  <2>2. SecretsType'
    BY <1>c, <2>1, StoreType
  <2>3. nextKey' \in {nextKey, nextKey + 1}
    BY <2>1
  <2>4. Copies
    BY <1>b, <2>1, <2>3, GeneratedStays DEF server, Generated
  <2>5. Others /\ sk' \in SigningKeys /\ obj' \in SigningKeys
    BY <1>b, <2>1 DEF server, LocalType
  <2> QED
    BY <1>a, <2>2, <2>4, <2>5
<1>6. CASE UpdateStatus
  <2>1. /\ UNCHANGED <<cached, old, secrets, nextKey, owners>>
        /\ pc' = "idle"
        /\ obj' = NoSigningKey /\ orig' = NoSigningKey
        /\ objFresh' = FALSE /\ requeue' = FALSE
        /\ budget' \in 0 .. MaxDisturbances
        /\ queued' \in BOOLEAN /\ cacheFresh' \in BOOLEAN
        /\ \/ UNCHANGED sk
           \/ sk' \in SigningKeys /\ sk'.keyPair = obj.keyPair
    BY <1>6, UpdateStatusEffect DEF SameMeta, SameStatus
  <2>2. Others /\ Copies /\ sk' \in SigningKeys /\ obj' \in SigningKeys
    BY <1>b, <1>n, <2>1
  <2> QED
    BY <1>a, <1>c, <2>1, <2>2
<1>7. CASE EditSpec \/ Retag \/ DeleteSigningKey
  <2>1. /\ UNCHANGED <<cached, old, queued, pc, obj, orig, requeue, secrets, nextKey, owners>>
        /\ sk' \in SigningKeys /\ SameStatus(sk, sk')
        /\ cacheFresh' = FALSE /\ objFresh' = FALSE
        /\ budget' \in 0 .. MaxDisturbances
    BY <1>7, ForeignEffect
  <2>2. Others /\ Copies /\ sk' \in SigningKeys /\ obj' \in SigningKeys
    BY <1>b, <2>1 DEF SameStatus
  <2> QED
    BY <1>a, <1>c, <2>1, <2>2
<1>8. CASE DeleteSecret \/ CollectGarbage
  <2>1. /\ UNCHANGED <<server, local, nextKey, owners>>
        /\ budget' \in 0 .. MaxDisturbances /\ queued' \in BOOLEAN
        /\ KeyToSpare
        /\ \E s \in Secrets : /\ secrets[s].exists
                              /\ secrets' = [secrets EXCEPT ![s] = SecretAbsent]
    BY <1>8, LossEffect
  <2>2. SecretsType'
    BY <2>1, LossType
  <2>3. Others /\ Copies /\ sk' \in SigningKeys /\ obj' \in SigningKeys
    BY <1>b, <2>1 DEF server, local
  <2> QED
    BY <1>a, <2>2, <2>3
<1>9. CASE PrecreateSecret
  <2>1. /\ UNCHANGED <<server, queued, local, owners>>
        /\ budget' \in 0 .. MaxDisturbances
        /\ nextKey' = nextKey + 1
        /\ \E s \in Secrets, key \in {nextKey, Empty} :
             /\ ~secrets[s].exists
             /\ secrets' = [secrets EXCEPT ![s] = Secret(nextKey, key, FALSE)]
    BY <1>9, PrecreateEffect
  <2>2. SecretsType'
    BY <2>1, StoreType
  <2>3. Copies
    BY <1>b, <2>1, GeneratedStays DEF server, local, Generated
  <2>4. Others /\ sk' \in SigningKeys /\ obj' \in SigningKeys
    BY <1>b, <2>1 DEF server, local
  <2> QED
    BY <1>a, <2>2, <2>3, <2>4
<1>10. CASE DeleteOwner \/ RecreateOwner \/ ChangeSelector
  <2>1. /\ UNCHANGED <<server, local, secrets, nextKey>>
        /\ budget' \in 0 .. MaxDisturbances /\ queued' \in BOOLEAN
        /\ owners' \in [Kinds -> [Names -> OwnerValues]]
    BY <1>10, OwnerChangeEffect
  <2>2. Others /\ Copies /\ sk' \in SigningKeys /\ obj' \in SigningKeys
    BY <1>b, <2>1 DEF server, local
  <2> QED
    BY <1>a, <1>c, <2>1, <2>2
<1>11. CASE Crash
  <2>1. budget' \in 0 .. MaxDisturbances
    BY <1>11, <1>b, DisturbType DEF Crash
  <2>2. cached' \in {sk, cached, old}
    BY <1>11, ListedCopy
  <2>3. cacheFresh' \in BOOLEAN /\ queued' \in BOOLEAN
    BY <1>11, <1>b, ListedCopy DEF SigningKeys
  <2>4. Others /\ Copies /\ sk' \in SigningKeys /\ obj' \in SigningKeys
    BY <1>11, <1>b, <1>n, <2>1, <2>2, <2>3 DEF Crash
  <2> QED
    BY <1>11, <1>a, <1>c, <2>4 DEF Crash
<1>12. CASE CacheSync \/ Resync
  <2>1. /\ UNCHANGED <<sk, local, secrets, nextKey, owners, budget>>
        /\ queued' = TRUE
        /\ \/ cached' = sk /\ cacheFresh' = TRUE /\ old' \in {cached, NoSigningKey}
           \/ UNCHANGED <<cached, cacheFresh, old>>
    BY <1>12 DEF CacheSync, Resync, server
  <2>2. Others /\ Copies /\ sk' \in SigningKeys /\ obj' \in SigningKeys
    BY <1>b, <1>n, <2>1 DEF local
  <2> QED
    BY <1>a, <1>c, <2>1, <2>2
<1>13. CASE UNCHANGED vars
  <2>1. Others /\ Copies /\ sk' \in SigningKeys /\ obj' \in SigningKeys
    BY <1>b, <1>13 DEF vars, server, local
  <2> QED
    BY <1>13, <1>a, <1>c, <2>1 DEF vars
<1> QED
  BY <1>1, <1>2, <1>3, <1>4, <1>5, <1>6, <1>7, <1>8, <1>9, <1>10, <1>11, <1>12, <1>13
     DEF Next, Reconcile, Disturbance

(* Every variable keeps its type, and no Secret holds a key pair that has  *)
(* not been generated.                                                     *)
THEOREM TypeCorrect == Spec => []TypeOK
<1>1. TypeInv => TypeOK
  BY DEF TypeInv
<1> QED
  BY <1>1, TypeInvInit, TypeInvNext, PTL DEF Spec

(***************************************************************************)
(* A condition that is True has its reference.  Every copy has to agree:   *)
(* the deferred update may store any mixture that reconcileLabels left of  *)
(* the server's status and of the copy's.                                  *)
(***************************************************************************)

RefInv ==
    References(sk) /\ References(cached) /\ References(old) /\ References(obj)

(* The references of a copy are a matter of its status.                    *)
LEMMA ReferencesOfStatus ==
    ASSUME NEW u, NEW v, SameStatus(u, v)
    PROVE  References(u) => References(v)
BY DEF SameStatus, References, Ready

(* Every step keeps RefInv.                                                *)
LEMMA RefInvNext == TypeInv /\ RefInv /\ [Next]_vars => RefInv'
<1> SUFFICES ASSUME TypeInv, RefInv, [Next]_vars PROVE RefInv'
  OBVIOUS
<1>a. References(sk) /\ References(cached) /\ References(old) /\ References(obj)
  BY DEF RefInv
<1>b. ASSUME References(sk'), References(cached'), References(old'), References(obj')
      PROVE  RefInv'
  BY <1>b DEF RefInv, References, Ready
<1>n. References(NoSigningKey)
  BY NoSigningKeyFacts
<1>1. CASE StartReconcile
  <2>1. /\ UNCHANGED server
        /\ UNCHANGED local \/ (References(cached) => References(obj'))
    BY <1>1, StartEffect
  <2> QED
    BY <1>a, <1>b, <2>1 DEF server, local
<1>2. CASE EnsureOwnerResolved
  <2>1. UNCHANGED server /\ (References(obj) => References(obj'))
    BY <1>2, OwnerEffect
  <2> QED
    BY <1>a, <1>b, <2>1 DEF server
<1>3. CASE ReconcileLabels
  <2>1. /\ UNCHANGED <<cached, old>>
        /\ sk' \in SigningKeys /\ SameStatus(sk, sk')
        /\ \/ obj' = obj
           \/ SameStatus(obj, obj')
           \/ SameStatus(DecodeInto(obj, sk'), obj')
    BY <1>3, ReconcileLabelsEffect
  <2>2. References(sk')
    BY <1>a, <2>1, ReferencesOfStatus
  <2>3. References(DecodeInto(obj, sk'))
    BY <1>a, <2>1, <2>2, Found, DecodeEffect
  <2>4. References(obj')
    BY <1>a, <2>1, <2>3, ReferencesOfStatus
  <2> QED
    BY <1>a, <1>b, <2>1, <2>2, <2>4
<1>4. CASE GetSeedSecret
  <2>1. UNCHANGED server /\ (References(obj) => References(obj'))
    BY <1>4, GetSeedEffect
  <2> QED
    BY <1>a, <1>b, <2>1 DEF server
<1>5. CASE CreateSecret
  <2>1. UNCHANGED server /\ (References(obj) => References(obj'))
    BY <1>5, CreateSeedEffect
  <2> QED
    BY <1>a, <1>b, <2>1 DEF server
<1>6. CASE UpdateStatus
  <2>1. /\ UNCHANGED <<cached, old>> /\ obj' = NoSigningKey
        /\ UNCHANGED sk \/ SameStatus(obj, sk')
    BY <1>6, UpdateStatusEffect
  <2> QED
    BY <1>a, <1>b, <1>n, <2>1, ReferencesOfStatus
<1>7. CASE EditSpec \/ Retag \/ DeleteSigningKey
  <2>1. UNCHANGED <<cached, old, obj>> /\ SameStatus(sk, sk')
    BY <1>7, ForeignEffect
  <2> QED
    BY <1>a, <1>b, <2>1, ReferencesOfStatus
<1>8. CASE \/ DeleteSecret \/ CollectGarbage \/ PrecreateSecret
           \/ DeleteOwner \/ RecreateOwner \/ ChangeSelector
  <2>1. UNCHANGED <<server, local>>
    BY <1>8, LossEffect, PrecreateEffect, OwnerChangeEffect
  <2> QED
    BY <1>a, <1>b, <2>1 DEF server, local
<1>9. CASE Crash
  BY <1>9, <1>a, <1>b, <1>n, ListedCopy DEF Crash
<1>10. CASE CacheSync \/ Resync
  BY <1>10, <1>a, <1>b, <1>n DEF CacheSync, Resync, server, local
<1>11. CASE UNCHANGED vars
  BY <1>11, <1>a, <1>b DEF vars, server, local
<1> QED
  BY <1>1, <1>2, <1>3, <1>4, <1>5, <1>6, <1>7, <1>8, <1>9, <1>10, <1>11
     DEF Next, Reconcile, Disturbance

(* Whatever mixture of an old status and a new one is written, a stored    *)
(* OwnerResolved = True comes with an ownerRef, SeedSecretReady = True     *)
(* with a key pair, and Ready = True with both.                            *)
THEOREM ReadyAlwaysHasReferences == Spec => []ReadyHasReferences
<1>1. Init => RefInv
  BY NoSigningKeyFacts DEF Init, RefInv
<1>2. RefInv => ReadyHasReferences
  BY DEF RefInv, References, Ready, ReadyHasReferences
<1> QED
  BY <1>1, <1>2, TypeInvInit, TypeInvNext, RefInvNext, PTL DEF Spec

(***************************************************************************)
(* A stored status is about the spec that is stored with it.  The copy of  *)
(* a reconcile that has passed ensureOwnerResolved refers to the owner of  *)
(* its own spec; a copy of the latest version has the server's spec; and   *)
(* the answer to reconcileLabels' Update, which may bring back the status  *)
(* that the server holds, brings back all of it.                           *)
(***************************************************************************)

Follows(u) == u.ownerRef # NoOwner => RefersTo(u.ownerRef, SpecOf[u.gen])

FollowInv ==
    /\ cacheFresh => cached = sk
    /\ objFresh => SameStatus(orig, sk) /\ obj.gen = sk.gen
    /\ sk.ownerRef # NoOwner => sk.conds[Happy] # NoCondition
    /\ pc # "idle" => obj.conds[Happy] # NoCondition
    /\ pc \in {"owner", "labels"} => obj.keyPair = orig.keyPair
    /\ pc \in {"labels", "getSeed", "createSeed"} => Follows(obj)
    /\ pc = "status" /\ objFresh => SameStatus(orig, obj) \/ Follows(obj)

(* The answer to reconcileLabels' Update of a copy of the latest version:  *)
(* the copy has the status it started with, or an owner of its own spec.   *)
LEMMA DecodedFollows ==
    ASSUME NEW o \in SigningKeys, NEW s \in SigningKeys, NEW v, NEW before,
           SameStatus(before, s), o.gen = s.gen, o.keyPair = before.keyPair, Follows(o),
           s.ownerRef # NoOwner => s.conds[Happy] # NoCondition,
           v.gen = s.gen, SameStatus(DecodeInto(o, s), v)
    PROVE  SameStatus(before, v) \/ Follows(v)
<1> DEFINE d == DecodeInto(o, s)
<1>1. /\ d.keyPair = (IF s.keyPair # NoKeyPair THEN s.keyPair ELSE o.keyPair)
      /\ d.ownerRef = (IF s.ownerRef # NoOwner THEN s.ownerRef ELSE o.ownerRef)
      /\ d.conds = (IF s.conds[Happy] # NoCondition THEN s.conds ELSE o.conds)
  BY DecodeEffect
<1>2. v.keyPair = d.keyPair /\ v.ownerRef = d.ownerRef /\ v.conds = d.conds
  BY DEF SameStatus
<1> HIDE DEF d
<1>3. CASE s.ownerRef # NoOwner
  <2>1. v.ownerRef = s.ownerRef /\ v.conds = s.conds /\ v.keyPair = s.keyPair
    BY <1>1, <1>2, <1>3 DEF SameStatus
  <2> QED
    BY <2>1 DEF SameStatus
<1>4. CASE s.ownerRef = NoOwner
  BY <1>1, <1>2, <1>4 DEF Follows
<1> QED
  BY <1>3, <1>4

(* Every step keeps FollowInv.                                             *)
LEMMA FollowInvNext == TypeInv /\ FollowInv /\ [Next]_vars => FollowInv'
<1> SUFFICES ASSUME TypeInv, FollowInv, [Next]_vars PROVE FollowInv'
  OBVIOUS
<1> DEFINE
    Fresh == cacheFresh' => cached' = sk'
    Based == objFresh' => SameStatus(orig', sk') /\ obj'.gen = sk'.gen
    Marked == /\ sk'.ownerRef # NoOwner => sk'.conds[Happy] # NoCondition
              /\ pc' # "idle" => obj'.conds[Happy] # NoCondition
    Pair == pc' \in {"owner", "labels"} => obj'.keyPair = orig'.keyPair
    Resolved == /\ pc' \in {"labels", "getSeed", "createSeed"} => Follows(obj')
                /\ pc' = "status" /\ objFresh' => SameStatus(orig', obj') \/ Follows(obj')
<1>a. ASSUME Fresh, Based, Marked, Pair, Resolved PROVE FollowInv'
  BY <1>a DEF FollowInv, Follows, SameStatus
<1>b. /\ cacheFresh => cached = sk
      /\ objFresh => SameStatus(orig, sk) /\ obj.gen = sk.gen
      /\ sk.ownerRef # NoOwner => sk.conds[Happy] # NoCondition
      /\ pc # "idle" => obj.conds[Happy] # NoCondition
      /\ pc \in {"owner", "labels"} => obj.keyPair = orig.keyPair
      /\ pc \in {"labels", "getSeed", "createSeed"} => Follows(obj)
      /\ pc = "status" /\ objFresh => SameStatus(orig, obj) \/ Follows(obj)
  BY DEF FollowInv
<1>c. /\ sk \in SigningKeys /\ cached \in SigningKeys
      /\ obj \in SigningKeys /\ orig \in SigningKeys
  BY Found
<1>1. CASE StartReconcile
  <2>1. /\ UNCHANGED server /\ pc = "idle"
        /\ \/ UNCHANGED local
           \/ /\ pc' = "owner" /\ orig' = cached /\ objFresh' = cacheFresh
              /\ obj'.gen = cached.gen /\ obj'.keyPair = cached.keyPair
              /\ obj'.conds[Happy] # NoCondition
    BY <1>1, StartEffect DEF SameMeta
  <2>2. CASE UNCHANGED local
    BY <1>a, <1>b, <2>1, <2>2 DEF server, local
  <2>3. CASE /\ pc' = "owner" /\ orig' = cached /\ objFresh' = cacheFresh
             /\ obj'.gen = cached.gen /\ obj'.keyPair = cached.keyPair
             /\ obj'.conds[Happy] # NoCondition
    <3>1. Based
      BY <1>b, <2>1, <2>3 DEF server, SameStatus
    <3> QED
      BY <1>a, <1>b, <2>1, <2>3, <3>1 DEF server
  <2> QED
    BY <2>1, <2>2, <2>3
<1>2. CASE EnsureOwnerResolved
  <2>1. /\ UNCHANGED <<server, objFresh, orig>>
        /\ pc = "owner" /\ pc' \in {"labels", "status"}
        /\ obj'.gen = obj.gen /\ obj'.keyPair = obj.keyPair
        /\ obj'.conds[Happy] # NoCondition
        /\ \/ obj'.ownerRef = NoOwner
           \/ RefersTo(obj'.ownerRef, SpecOf[obj.gen])
    BY <1>2, OwnerEffect DEF SameMeta
  <2>2. Follows(obj')
    BY <2>1 DEF Follows
  <2> QED
    BY <1>a, <1>b, <2>1, <2>2 DEF server
<1>3. CASE ReconcileLabels
  <2>1. /\ UNCHANGED <<cached, orig>> /\ pc = "labels"
        /\ sk' \in SigningKeys /\ sk'.gen = sk.gen /\ SameStatus(sk, sk')
        /\ \/ pc' = "getSeed" /\ UNCHANGED <<sk, cacheFresh, obj, objFresh>>
           \/ /\ pc' = "status"
              /\ cacheFresh' => UNCHANGED <<sk, cacheFresh>>
              /\ objFresh' => objFresh
              /\ \/ /\ obj'.gen = obj.gen /\ SameStatus(obj, obj')
                 \/ /\ objFresh /\ obj'.gen = sk.gen
                    /\ SameStatus(DecodeInto(obj, sk'), obj')
    BY <1>3, ReconcileLabelsEffect
  <2>2. CASE pc' = "getSeed" /\ UNCHANGED <<sk, cacheFresh, obj, objFresh>>
    BY <1>a, <1>b, <2>1, <2>2
  <2>3. CASE pc' = "status"
    <3>1. sk'.ownerRef # NoOwner => sk'.conds[Happy] # NoCondition
      BY <1>b, <2>1 DEF SameStatus
    <3>2. Fresh
      BY <1>b, <2>1, <2>3
    <3>3. CASE obj'.gen = obj.gen /\ SameStatus(obj, obj')
      <4>1. Based /\ Follows(obj') /\ obj'.conds[Happy] # NoCondition
        BY <1>b, <2>1, <2>3, <3>3 DEF SameStatus, Follows
      <4> QED
        BY <1>a, <2>3, <3>1, <3>2, <4>1
    <3>4. CASE /\ objFresh /\ obj'.gen = sk.gen
               /\ SameStatus(DecodeInto(obj, sk'), obj')
      <4>1. /\ SameStatus(orig, sk') /\ obj.gen = sk'.gen /\ obj'.gen = sk'.gen
            /\ obj.keyPair = orig.keyPair /\ Follows(obj)
        BY <1>b, <2>1, <3>4 DEF SameStatus
      <4>2. SameStatus(orig, obj') \/ Follows(obj')
        BY <1>c, <2>1, <3>1, <3>4, <4>1, DecodedFollows
      <4>3. obj'.conds[Happy] # NoCondition
        <5>1. LET d == DecodeInto(obj, sk')
              IN  d.conds = (IF sk'.conds[Happy] # NoCondition THEN sk'.conds ELSE obj.conds)
          BY <1>c, <2>1, DecodeEffect
        <5>2. obj.conds[Happy] # NoCondition
          BY <1>b, <2>1
        <5> QED
          BY <3>4, <5>1, <5>2 DEF SameStatus
      <4> QED
        BY <1>a, <2>1, <2>3, <3>1, <3>2, <4>1, <4>2, <4>3
    <3> QED
      BY <2>1, <2>3, <3>3, <3>4
  <2> QED
    BY <2>1, <2>2, <2>3
<1>4. CASE GetSeedSecret \/ CreateSecret
  <2>1. /\ UNCHANGED <<server, objFresh, orig>>
        /\ pc \in {"getSeed", "createSeed"} /\ pc' \in {"createSeed", "status"}
        /\ SameMeta(obj, obj')
        /\ obj'.ownerRef = obj.ownerRef
        /\ obj.conds[Happy] # NoCondition => obj'.conds[Happy] # NoCondition
    BY <1>4, GetSeedEffect, CreateSeedEffect
  <2>2. Follows(obj') /\ obj'.gen = obj.gen
    BY <1>b, <2>1 DEF Follows, SameMeta
  <2> QED
    BY <1>a, <1>b, <2>1, <2>2 DEF server
<1>5. CASE UpdateStatus
  <2>1. /\ UNCHANGED cached /\ pc = "status" /\ pc' = "idle" /\ objFresh' = FALSE
        /\ \/ UNCHANGED <<sk, cacheFresh>>
           \/ cacheFresh' = FALSE /\ SameStatus(obj, sk')
    BY <1>5, UpdateStatusEffect
  <2>2. sk'.ownerRef # NoOwner => sk'.conds[Happy] # NoCondition
    BY <1>b, <2>1 DEF SameStatus
  <2> QED
    BY <1>a, <1>b, <2>1, <2>2
<1>6. CASE EditSpec \/ Retag \/ DeleteSigningKey
  <2>1. /\ UNCHANGED <<cached, pc, obj, orig>> /\ SameStatus(sk, sk')
        /\ cacheFresh' = FALSE /\ objFresh' = FALSE
    BY <1>6, ForeignEffect
  <2>2. sk'.ownerRef # NoOwner => sk'.conds[Happy] # NoCondition
    BY <1>b, <2>1 DEF SameStatus
  <2> QED
    BY <1>a, <1>b, <2>1, <2>2
<1>7. CASE \/ DeleteSecret \/ CollectGarbage \/ PrecreateSecret
           \/ DeleteOwner \/ RecreateOwner \/ ChangeSelector
  <2>1. UNCHANGED <<server, local>>
    BY <1>7, LossEffect, PrecreateEffect, OwnerChangeEffect
  <2> QED
    BY <1>a, <1>b, <2>1 DEF server, local
<1>8. CASE Crash
  BY <1>8, <1>a, <1>b, ListedCopy DEF Crash
<1>9. CASE CacheSync \/ Resync
  BY <1>9, <1>a, <1>b DEF CacheSync, Resync, server, local
<1>10. CASE UNCHANGED vars
  BY <1>10, <1>a, <1>b DEF vars, server, local
<1> QED
  BY <1>1, <1>2, <1>3, <1>4, <1>5, <1>6, <1>7, <1>8, <1>9, <1>10
     DEF Next, Reconcile, Disturbance

(* Only the deferred update changes the stored status.                     *)
LEMMA OnlyUpdateStatus ==
    ASSUME TypeInv, [Next]_vars, ~UpdateStatus
    PROVE  SameStatus(sk, sk')
<1>1. CASE ReconcileLabels \/ EditSpec \/ Retag \/ DeleteSigningKey
  BY <1>1, ReconcileLabelsEffect, ForeignEffect
<1>2. CASE UNCHANGED sk
  BY <1>2 DEF SameStatus
<1>3. CASE \/ StartReconcile \/ EnsureOwnerResolved \/ GetSeedSecret \/ CreateSecret
           \/ DeleteSecret \/ CollectGarbage \/ PrecreateSecret
           \/ DeleteOwner \/ RecreateOwner \/ ChangeSelector
  <2>1. UNCHANGED server
    BY <1>3, StartEffect, OwnerEffect, GetSeedEffect, CreateSeedEffect,
       LossEffect, PrecreateEffect, OwnerChangeEffect
  <2> QED
    BY <1>2, <2>1 DEF server
<1>4. CASE Crash \/ CacheSync \/ Resync \/ UNCHANGED vars
  BY <1>2, <1>4 DEF Crash, CacheSync, Resync, vars, server
<1> QED
  BY <1>1, <1>3, <1>4 DEF Next, Reconcile, Disturbance

(* An ownerRef found for an older spec does not come back: a step that     *)
(* changes the stored status leaves none, or the one of the stored spec.   *)
THEOREM StatusAlwaysFollowsSpec == Spec => StatusFollowsSpec
<1> DEFINE Step == Status(sk') # Status(sk) /\ sk'.ownerRef # NoOwner
                        => RefersTo(sk'.ownerRef, SpecOf[sk'.gen])
<1>1. Init => FollowInv
  BY NoSigningKeyFacts DEF Init, FollowInv
<1>2. TypeInv /\ FollowInv /\ [Next]_vars => Step
  <2> SUFFICES ASSUME TypeInv, FollowInv, [Next]_vars,
                      Status(sk') # Status(sk), sk'.ownerRef # NoOwner
               PROVE  RefersTo(sk'.ownerRef, SpecOf[sk'.gen])
    OBVIOUS
  <2>1. ~SameStatus(sk, sk')
    BY StatusFields
  <2>2. UpdateStatus
    BY <2>1, OnlyUpdateStatus
  <2>3. /\ pc = "status" /\ objFresh /\ ~SameStatus(orig, obj)
        /\ SameMeta(sk, sk') /\ SameStatus(obj, sk')
    <3>1. SameStatus(sk, sk)
      BY DEF SameStatus
    <3> QED
      BY <2>1, <2>2, <3>1, UpdateStatusEffect
  <2>4. Follows(obj) /\ obj.gen = sk.gen
    BY <2>3 DEF FollowInv
  <2> QED
    BY <2>3, <2>4 DEF SameMeta, SameStatus, Follows
<1> HIDE DEF Step
<1>3. Spec => [][Step]_vars
  BY <1>1, <1>2, TypeInvInit, TypeInvNext, FollowInvNext, PTL DEF Spec
<1> QED
  BY <1>3 DEF StatusFollowsSpec, Step

(***************************************************************************)
(* A Ready SigningKey that is left alone publishes the public key of its   *)
(* Secret.  No reconcile is due when the queue is empty and the cache up   *)
(* to date: then a running reconcile started from the stored status, and   *)
(* returns without a retry only with a key pair that is stored.  It rests  *)
(* on every loss of a Secret being noticed, which is not so for a Secret   *)
(* that the SigningKey does not own.                                       *)
(***************************************************************************)

Settled == ~queued /\ cacheFresh

Stored(u) ==
    /\ secrets[u.keyPair.secret].exists
    /\ secrets[u.keyPair.secret].publicKey = u.keyPair.publicKey

QuietInv ==
    /\ cacheFresh => cached = sk
    /\ Settled /\ pc # "idle" => SameStatus(orig, sk)
    /\ Settled /\ pc = "status" /\ ~requeue /\ Ready(obj) => Stored(obj)
    /\ Settled /\ pc = "idle" /\ sk.exists /\ Ready(sk) => Stored(sk)

(* A Ready copy names a Secret.                                            *)
LEMMA ReadyNamesSecret ==
    ASSUME NEW u \in SigningKeys, References(u), Ready(u)
    PROVE  u.keyPair.secret \in Secrets
<1>1. u.keyPair \in KeyPairs
  BY DEF References, SigningKeys
<1> QED
  BY <1>1 DEF KeyPairs

(* A user's Secret is never put over another.                              *)
LEMMA PrecreateKeepsStored ==
    ASSUME TypeInv, PrecreateSecret, NEW u \in SigningKeys, References(u), Ready(u),
           Stored(u)
    PROVE  secrets'[u.keyPair.secret] = secrets[u.keyPair.secret]
<1>1. PICK s \in Secrets, key \in {nextKey, Empty} :
        /\ ~secrets[s].exists
        /\ secrets' = [secrets EXCEPT ![s] = Secret(nextKey, key, FALSE)]
  BY PrecreateEffect
<1>2. u.keyPair.secret \in Secrets /\ secrets[u.keyPair.secret].exists
  BY ReadyNamesSecret DEF Stored
<1>3. secrets \in [Secrets -> SecretValues] /\ u.keyPair.secret # s
  BY <1>1, <1>2 DEF TypeInv, TypeOK
<1> QED
  BY <1>1, <1>2, <1>3

(* Every step keeps QuietInv, unless a Secret that is not owned is lost.   *)
LEMMA QuietInvNext ==
    ASSUME "foreignSecret" \notin Hazards, TypeInv, RefInv, QuietInv, [Next]_vars
    PROVE  QuietInv'
<1> DEFINE
    Fresh == cacheFresh' => cached' = sk'
    Based == ~queued' /\ cacheFresh' /\ pc' # "idle" => SameStatus(orig', sk')
    Taken == ~queued' /\ cacheFresh' /\ pc' = "status" /\ ~requeue' /\ Ready(obj') =>
                /\ secrets'[obj'.keyPair.secret].exists
                /\ secrets'[obj'.keyPair.secret].publicKey = obj'.keyPair.publicKey
    Published == ~queued' /\ cacheFresh' /\ pc' = "idle" /\ sk'.exists /\ Ready(sk') =>
                /\ secrets'[sk'.keyPair.secret].exists
                /\ secrets'[sk'.keyPair.secret].publicKey = sk'.keyPair.publicKey
<1>a. ASSUME Fresh, Based, Taken, Published PROVE QuietInv'
  BY <1>a DEF QuietInv, Settled, Stored, SameStatus, Ready
<1>b. /\ cacheFresh => cached = sk
      /\ ~queued /\ cacheFresh /\ pc # "idle" => SameStatus(orig, sk)
      /\ ~queued /\ cacheFresh /\ pc = "status" /\ ~requeue /\ Ready(obj) => Stored(obj)
      /\ ~queued /\ cacheFresh /\ pc = "idle" /\ sk.exists /\ Ready(sk) => Stored(sk)
  BY DEF QuietInv, Settled
<1>c. /\ sk \in SigningKeys /\ obj \in SigningKeys
      /\ References(sk) /\ References(obj)
  BY Found DEF RefInv
<1>1. CASE StartReconcile
  <2>1. /\ UNCHANGED <<server, secrets>> /\ pc = "idle"
        /\ \/ ~cached.exists /\ UNCHANGED local
           \/ pc' = "owner" /\ orig' = cached
    BY <1>1, StartEffect
  <2>2. cacheFresh' /\ pc' = "idle" => ~sk'.exists
    BY <1>b, <2>1 DEF server, local
  <2>3. Based
    BY <1>b, <2>1 DEF server, local, SameStatus
  <2> QED
    BY <1>a, <1>b, <2>1, <2>2, <2>3 DEF server, local
<1>2. CASE EnsureOwnerResolved
  <2>1. /\ UNCHANGED <<server, queued, orig, secrets>>
        /\ pc = "owner" /\ pc' \in {"labels", "status"}
        /\ pc' = "status" => ~Ready(obj')
    BY <1>2, OwnerEffect
  <2> QED
    BY <1>a, <1>b, <2>1 DEF server
<1>3. CASE ReconcileLabels
  <2>1. /\ UNCHANGED <<cached, queued, orig, secrets>> /\ pc = "labels"
        /\ \/ pc' = "getSeed" /\ UNCHANGED <<sk, cacheFresh>>
           \/ /\ pc' = "status" /\ requeue' = TRUE
              /\ cacheFresh' => UNCHANGED <<sk, cacheFresh>>
    BY <1>3, ReconcileLabelsEffect
  <2> QED
    BY <1>a, <1>b, <2>1
<1>4. CASE GetSeedSecret
  <2>1. /\ UNCHANGED <<server, queued, orig, secrets>>
        /\ pc = "getSeed" /\ pc' \in {"createSeed", "status"}
        /\ pc' = "status" /\ ~requeue' =>
             /\ secrets[obj'.keyPair.secret].exists
             /\ secrets[obj'.keyPair.secret].publicKey = obj'.keyPair.publicKey
    BY <1>4, GetSeedEffect
  <2> QED
    BY <1>a, <1>b, <2>1 DEF server
<1>5. CASE CreateSecret
  <2>1. /\ UNCHANGED <<server, orig>>
        /\ pc = "createSeed" /\ pc' = "status" /\ requeue' = TRUE
        /\ UNCHANGED queued \/ queued' = TRUE
    BY <1>5, CreateSeedEffect
  <2> QED
    BY <1>a, <1>b, <2>1 DEF server
<1>6. CASE UpdateStatus
  <2>1. /\ UNCHANGED <<cached, secrets>>
        /\ pc = "status" /\ pc' = "idle"
        /\ queued => queued'
        /\ \/ /\ UNCHANGED <<sk, cacheFresh>>
              /\ queued' \/ (~requeue /\ SameStatus(orig, obj))
           \/ cacheFresh' = FALSE
    BY <1>6, UpdateStatusEffect
  <2>2. Fresh /\ Based /\ Taken
    BY <1>b, <2>1
  <2>3. ASSUME ~queued', cacheFresh', sk'.exists, Ready(sk')
        PROVE  Stored(sk)
    <3>1. /\ sk' = sk /\ cacheFresh /\ ~queued /\ ~requeue
          /\ SameStatus(orig, obj) /\ SameStatus(orig, sk)
      BY <1>b, <2>1, <2>3
    <3>2. Ready(obj) /\ obj.keyPair = sk.keyPair
      BY <2>3, <3>1 DEF SameStatus, Ready
    <3>3. Stored(obj)
      BY <1>b, <2>1, <3>1, <3>2
    <3> QED
      BY <3>2, <3>3 DEF Stored
  <2>4. Published
    <3>1. ~queued' /\ cacheFresh' => sk' = sk
      BY <2>1
    <3> QED
      BY <2>1, <2>3, <3>1 DEF Stored
  <2> QED
    BY <1>a, <2>2, <2>4
<1>7. CASE EditSpec \/ Retag \/ DeleteSigningKey
  <2>1. cacheFresh' = FALSE
    BY <1>7, ForeignEffect
  <2> QED
    BY <1>a, <2>1
<1>8. CASE DeleteSecret \/ CollectGarbage
  <2>1. UNCHANGED server /\ queued'
    BY <1>8, LossEffect
  <2> QED
    BY <1>a, <1>b, <2>1 DEF server
<1>9. CASE PrecreateSecret
  <2>1. UNCHANGED <<server, queued, local>>
    BY <1>9, PrecreateEffect
  <2>2. Fresh /\ Based
    BY <1>b, <2>1 DEF server, local
  <2>3. Taken
    <3> SUFFICES ASSUME ~queued', cacheFresh', pc' = "status", ~requeue', Ready(obj')
                 PROVE  /\ secrets'[obj'.keyPair.secret].exists
                        /\ secrets'[obj'.keyPair.secret].publicKey = obj'.keyPair.publicKey
      OBVIOUS
    <3>1. obj' = obj /\ Ready(obj) /\ Stored(obj)
      BY <1>b, <2>1 DEF server, local
    <3>2. secrets'[obj.keyPair.secret] = secrets[obj.keyPair.secret]
      BY <1>9, <1>c, <3>1, PrecreateKeepsStored
    <3> QED
      BY <3>1, <3>2 DEF Stored
  <2>4. Published
    <3> SUFFICES ASSUME ~queued', cacheFresh', pc' = "idle", sk'.exists, Ready(sk')
                 PROVE  /\ secrets'[sk'.keyPair.secret].exists
                        /\ secrets'[sk'.keyPair.secret].publicKey = sk'.keyPair.publicKey
      OBVIOUS
    <3>1. sk' = sk /\ Ready(sk) /\ Stored(sk)
      BY <1>b, <2>1 DEF server, local
    <3>2. secrets'[sk.keyPair.secret] = secrets[sk.keyPair.secret]
      BY <1>9, <1>c, <3>1, PrecreateKeepsStored
    <3> QED
      BY <3>1, <3>2 DEF Stored
  <2> QED
    BY <1>a, <2>2, <2>3, <2>4
<1>10. CASE DeleteOwner \/ RecreateOwner \/ ChangeSelector
  <2>1. UNCHANGED <<server, local, secrets>> /\ (queued => queued')
    BY <1>10, OwnerChangeEffect
  <2> QED
    BY <1>a, <1>b, <2>1 DEF server, local, Stored
<1>11. CASE Crash
  <2>1. /\ pc' = "idle" /\ UNCHANGED sk
        /\ cacheFresh' => cached' = sk
        /\ queued' = cached'.exists
    BY <1>11, <1>b, ListedCopy DEF Crash
  <2> QED
    BY <1>a, <2>1
<1>12. CASE CacheSync \/ Resync
  <2>1. /\ UNCHANGED sk /\ queued' = TRUE
        /\ cached' = sk \/ UNCHANGED <<cached, cacheFresh>>
    BY <1>12 DEF CacheSync, Resync, server
  <2> QED
    BY <1>a, <1>b, <2>1
<1>13. CASE UNCHANGED vars
  BY <1>13, <1>a, <1>b DEF vars, server, local, Stored
<1> QED
  BY <1>1, <1>2, <1>3, <1>4, <1>5, <1>6, <1>7, <1>8, <1>9, <1>10, <1>11, <1>12, <1>13
     DEF Next, Reconcile, Disturbance

(* A key pair whose Secret could not be stored is never published, and a   *)
(* Ready SigningKey that is left alone publishes the public key of the     *)
(* Secret that its status names, as long as nobody deletes a Secret that   *)
(* the SigningKey does not own: of that one it is not told.                *)
THEOREM PublishedKeyIsAlwaysStored ==
    ASSUME "foreignSecret" \notin Hazards
    PROVE  Spec => []PublishedKeyIsStored
<1>1. Init => RefInv /\ QuietInv
  BY NoSigningKeyFacts DEF Init, RefInv, QuietInv, Settled, Ready, NewSigningKey,
     IsTrue, NoCondition
<1>2. TypeInv /\ RefInv /\ QuietInv /\ [Next]_vars => QuietInv'
  BY QuietInvNext
<1>3. TypeInv /\ QuietInv => PublishedKeyIsStored
  BY DEF TypeInv, Generated, QuietInv, Settled, Stored, Ready, Quiet, PublishedKeyIsStored
<1> QED
  BY <1>1, <1>2, <1>3, TypeInvInit, TypeInvNext, RefInvNext, PTL DEF Spec
=============================================================================
