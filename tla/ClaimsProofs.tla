---------------------------- MODULE ClaimsProofs ----------------------------
(***************************************************************************)
(* The claims of an Account or a User for every spec, and the list of      *)
(* signing keys for every finite set of SigningKeys.                       *)
(***************************************************************************)
EXTENDS Claims, TLAPS, FiniteSetTheorems, SequenceTheorems, WellFoundedInduction

(***************************************************************************)
(* Induction up to a number.  Good is the set of the numbers that have the *)
(* property.  Finite sets are well-founded under inclusion, so among the   *)
(* intervals from 0 to a bad number there is a least.                      *)
(***************************************************************************)

LEMMA BoundedInduction ==
    ASSUME NEW n \in Nat, NEW Good \in SUBSET (0 .. n), 0 \in Good,
           \A i \in 1 .. n : i - 1 \in Good => i \in Good
    PROVE  \A i \in 0 .. n : i \in Good
<1> DEFINE Bad == (0 .. n) \ Good
           Intervals == {0 .. x : x \in Bad}
           R == StrictSubsetOrdering(0 .. n)
<1> SUFFICES ASSUME Bad # {}
             PROVE  FALSE
  OBVIOUS
<1>1. Intervals \subseteq FiniteSubsetsOf(0 .. n) /\ Intervals # {}
  <2>1. \A x \in Bad : IsFiniteSet(0 .. x) /\ 0 .. x \in SUBSET (0 .. n)
    BY FS_Interval
  <2> QED
    BY <2>1 DEF FiniteSubsetsOf
<1>2. IsWellFoundedOn(R, FiniteSubsetsOf(0 .. n))
  BY FS_StrictSubsetOrderingWellFounded
<1>3. PICK X \in Intervals : \A Y \in Intervals : ~(<<Y, X>> \in R)
  <2> HIDE DEF Intervals, R
  <2> QED
    BY <1>1, <1>2, WFMin
<1>4. PICK x \in Bad : X = 0 .. x
  OBVIOUS
<1>5. x # 0 /\ x - 1 \in 0 .. n
  OBVIOUS
<1>6. <<0 .. x - 1, 0 .. x>> \in R
  BY <1>5 DEF StrictSubsetOrdering
<1>7. x - 1 \notin Bad
  BY <1>3, <1>4, <1>6
<1> QED
  BY <1>5, <1>7

(***************************************************************************)
(* The loop over current.                                                  *)
(***************************************************************************)

(* What has been kept after i turns is what the turn before leaves, and    *)
(* one turn more.                                                          *)
LEMMA KeepExistingUnfold ==
    ASSUME NEW live, NEW list, Len(list) \in Nat
    PROVE  /\ KeepExisting(live, list)[0] = <<>>
           /\ \A i \in 1 .. Len(list) :
                KeepExisting(live, list)[i] =
                    AddExisting(live, KeepExisting(live, list)[i - 1], list[i])
<1> DEFINE N == Len(list)
           Turn(k, i) == AddExisting(live, k, list[i])
           Loop(k, n) == [i \in 0 .. n |-> IF i = 0 THEN <<>> ELSE Turn(k[i - 1], i)]
           Good == {n \in 0 .. N : \E k : k = Loop(k, n)}
<1>1. KeepExisting(live, list) = CHOOSE k : k = Loop(k, N)
  BY DEF KeepExisting
<1> HIDE DEF Turn
<1>2. 0 \in Good
  <2>1. [i \in 0 .. 0 |-> <<>>] = Loop([i \in 0 .. 0 |-> <<>>], 0)
    OBVIOUS
  <2>2. 0 \in 0 .. N
    OBVIOUS
  <2> HIDE DEF Loop
  <2> QED
    BY <2>1, <2>2
<1>3. ASSUME NEW n \in 1 .. N, n - 1 \in Good
      PROVE  n \in Good
  <2>1. PICK k : k = Loop(k, n - 1)
    BY <1>3
  <2> DEFINE g == Loop(k, n)
  <2>2. \A i \in 0 .. n - 1 : g[i] = k[i]
    BY <2>1
  <2>3. g = Loop(g, n)
    <3> HIDE DEF g
    <3>1. \A i \in 1 .. n : g[i - 1] = k[i - 1]
      BY <2>2
    <3>2. g = Loop(k, n)
      BY DEF g
    <3>3. Loop(k, n) = Loop(g, n)
      BY <3>1
    <3> QED
      BY <3>2, <3>3
  <2>4. n \in 0 .. N
    OBVIOUS
  <2> HIDE DEF Loop, g
  <2> QED
    BY <2>3, <2>4
<1>4. N \in Good
  <2>1. Good \in SUBSET (0 .. N) /\ N \in 0 .. N
    OBVIOUS
  <2> HIDE DEF Good, N
  <2> QED
    BY <1>2, <1>3, <2>1, BoundedInduction DEF N
<1>5. KeepExisting(live, list) = Loop(KeepExisting(live, list), N)
  BY <1>1, <1>4
<1> HIDE DEF Loop
<1>6. \A k : /\ Loop(k, N)[0] = <<>>
            /\ \A i \in 1 .. N : Loop(k, N)[i] = Turn(k[i - 1], i)
  BY DEF Loop
<1> QED
  BY <1>5, <1>6 DEF Turn

(* The SigningKeys of a namespace have different names.                    *)
Keyed(live) ==
    /\ live \subseteq Entries
    /\ \A e, f \in live : e.name = f.name => e = f

Distinct(list) ==
    \A i, j \in DOMAIN list : list[i].name = list[j].name => i = j

(* The live SigningKeys are entries of different names.                    *)
LEMMA LiveFacts ==
    ASSUME NEW next \in [Names -> SigningKeys]
    PROVE  Keyed(NextSKsByName(next)) /\ IsFiniteSet(NextSKsByName(next))
<1> DEFINE live == NextSKsByName(next)
           name == [e \in live |-> e.name]
<1>1. \A m \in Names : next[m].ready => next[m].keyPair \in KeyPairs
  BY DEF SigningKeys, Absent
<1>2. Keyed(live)
  BY <1>1 DEF Keyed, NextSKsByName, Entries
<1>3. name \in Injection(live, Names)
  <2> HIDE DEF live
  <2> QED
    BY <1>2 DEF Injection, IsInjective, Keyed, Entries
<1> QED
  BY <1>2, <1>3, NamesAssumption, FS_Injection

(* A turn keeps the list, or appends the entry that the map has for the    *)
(* name.                                                                   *)
LEMMA AddExistingFacts ==
    ASSUME NEW live, Keyed(live), NEW kept, NEW existing
    PROVE  \/ /\ AddExisting(live, kept, existing) = kept
              /\ \A e \in live : e.name = existing.name => e.name \in NamesOf(kept)
           \/ \E e \in live : /\ e.name = existing.name /\ e.name \notin NamesOf(kept)
                              /\ AddExisting(live, kept, existing) = Append(kept, e)
<1>1. CASE existing.name \in {e.name : e \in live} \ NamesOf(kept)
  <2> DEFINE e == CHOOSE f \in live : f.name = existing.name
  <2>1. e \in live /\ e.name = existing.name
    BY <1>1
  <2>2. AddExisting(live, kept, existing) = Append(kept, e)
    BY <1>1 DEF AddExisting
  <2> HIDE DEF e
  <2> QED
    BY <1>1, <2>1, <2>2
<1>2. CASE existing.name \notin {e.name : e \in live} \ NamesOf(kept)
  BY <1>2 DEF AddExisting
<1> QED
  BY <1>1, <1>2

(* Appending an entry of a new name.                                       *)
LEMMA AppendFacts ==
    ASSUME NEW live, NEW kept \in Seq(live), NEW e \in live
    PROVE  /\ Append(kept, e) \in Seq(live)
           /\ NamesOf(Append(kept, e)) = NamesOf(kept) \cup {e.name}
           /\ Distinct(kept) /\ e.name \notin NamesOf(kept) => Distinct(Append(kept, e))
           /\ \A m, n : Before(Append(kept, e), m, n) =>
                 Before(kept, m, n) \/ (m \in NamesOf(kept) /\ n = e.name)
<1> DEFINE new == Append(kept, e)
<1>1. /\ new \in Seq(live) /\ Len(new) = Len(kept) + 1
      /\ \A i \in 1 .. Len(kept) : new[i] = kept[i]
      /\ new[Len(kept) + 1] = e
  BY AppendProperties
<1>2. /\ Len(kept) \in Nat /\ DOMAIN kept = 1 .. Len(kept)
      /\ DOMAIN new = 1 .. Len(kept) + 1
  BY <1>1, LenProperties
<1> HIDE DEF new
<1>3. NamesOf(new) = NamesOf(kept) \cup {e.name}
  <2>1. \A i \in DOMAIN new : i \in DOMAIN kept \/ i = Len(kept) + 1
    BY <1>2
  <2>2. \A i \in DOMAIN kept : i \in DOMAIN new /\ new[i] = kept[i]
    BY <1>1, <1>2
  <2>3. Len(kept) + 1 \in DOMAIN new
    BY <1>2
  <2> QED
    BY <1>1, <2>1, <2>2, <2>3 DEF NamesOf
<1>4. Distinct(kept) /\ e.name \notin NamesOf(kept) => Distinct(new)
  BY <1>1, <1>2 DEF Distinct, NamesOf
<1>5. ASSUME NEW m, NEW n, Before(new, m, n)
      PROVE  Before(kept, m, n) \/ (m \in NamesOf(kept) /\ n = e.name)
  <2>1. PICK i, j \in DOMAIN new : i < j /\ new[i].name = m /\ new[j].name = n
    BY <1>5 DEF Before
  <2>2. i \in DOMAIN kept /\ kept[i].name = m
    BY <1>1, <1>2, <2>1
  <2>3. j = Len(kept) + 1 \/ (j \in DOMAIN kept /\ kept[j].name = n)
    BY <1>1, <1>2, <2>1
  <2> QED
    BY <1>1, <2>1, <2>2, <2>3 DEF Before, NamesOf
<1> QED
  BY <1>1, <1>3, <1>4, <1>5 DEF new

(***************************************************************************)
(* What has been kept after i turns: the live entries of the first i names *)
(* of the list, each once, and in the order of the list.                   *)
(***************************************************************************)

Kept(live, list, kept, i) ==
    /\ kept \in Seq(live)
    /\ Distinct(kept)
    /\ \A e \in live : e.name \in NamesOf(kept) <=> \E j \in 1 .. i : list[j].name = e.name
    /\ \A m, n : Before(kept, m, n) => Before(list, m, n)

(* One turn of the loop keeps this.                                        *)
LEMMA KeptStep ==
    ASSUME NEW live, Keyed(live), NEW list \in Seq(Entries), NEW i \in 1 .. Len(list),
           NEW kept, Kept(live, list, kept, i - 1)
    PROVE  Kept(live, list, AddExisting(live, kept, list[i]), i)
<1> DEFINE new == AddExisting(live, kept, list[i])
<1>1. \A j : j \in 1 .. i <=> j \in 1 .. i - 1 \/ j = i
  OBVIOUS
<1>2. ASSUME new = kept,
             \A e \in live : e.name = list[i].name => e.name \in NamesOf(kept)
      PROVE  Kept(live, list, new, i)
  <2> HIDE DEF new
  <2> QED
    BY <1>1, <1>2 DEF Kept
<1>3. ASSUME NEW e \in live, e.name = list[i].name, e.name \notin NamesOf(kept),
             new = Append(kept, e)
      PROVE  Kept(live, list, new, i)
  <2> HIDE DEF new
  <2>1. kept \in Seq(live) /\ Distinct(kept)
    BY DEF Kept
  <2>2. new \in Seq(live) /\ Distinct(new) /\ NamesOf(new) = NamesOf(kept) \cup {e.name}
    BY <1>3, <2>1, AppendFacts
  <2>3. \A f \in live : f.name \in NamesOf(new) <=> \E j \in 1 .. i : list[j].name = f.name
    BY <1>1, <1>3, <2>2 DEF Kept
  <2>4. ASSUME NEW m, NEW n, Before(new, m, n)
        PROVE  Before(list, m, n)
    <3>1. Before(kept, m, n) \/ (m \in NamesOf(kept) /\ n = e.name)
      BY <1>3, <2>1, <2>4, AppendFacts
    <3>2. CASE m \in NamesOf(kept) /\ n = e.name
      <4>1. PICK f \in live : f.name = m
        <5>1. \A j \in DOMAIN kept : kept[j] \in live
          BY <2>1, LenProperties
        <5> QED
          BY <3>2, <5>1 DEF NamesOf
      <4>2. PICK j \in 1 .. i - 1 : list[j].name = m
        BY <3>2, <4>1 DEF Kept
      <4>3. j \in DOMAIN list /\ i \in DOMAIN list /\ j < i
        BY LenProperties
      <4> QED
        BY <1>3, <3>2, <4>2, <4>3 DEF Before
    <3> QED
      BY <3>1, <3>2 DEF Kept
  <2> QED
    BY <2>2, <2>3, <2>4 DEF Kept
<1> HIDE DEF new
<1>4. \/ /\ new = kept
         /\ \A e \in live : e.name = list[i].name => e.name \in NamesOf(kept)
      \/ \E e \in live : /\ e.name = list[i].name /\ e.name \notin NamesOf(kept)
                         /\ new = Append(kept, e)
  BY AddExistingFacts DEF new
<1>5. Kept(live, list, new, i)
  BY <1>2, <1>3, <1>4
<1> QED
  BY <1>5 DEF new

(* So it holds at the end of the loop.                                     *)
LEMMA KeptFacts ==
    ASSUME NEW live, Keyed(live), NEW list \in Seq(Entries)
    PROVE  Kept(live, list, KeepExisting(live, list)[Len(list)], Len(list))
<1> DEFINE N == Len(list)
           k == KeepExisting(live, list)
           Good == {i \in 0 .. N : Kept(live, list, k[i], i)}
<1>0. N \in Nat
  BY LenProperties
<1>1. k[0] = <<>> /\ \A i \in 1 .. N : k[i] = AddExisting(live, k[i - 1], list[i])
  BY <1>0, KeepExistingUnfold
<1> HIDE DEF k
<1>2. Kept(live, list, <<>>, 0)
  <2>1. <<>> \in Seq(live) /\ DOMAIN <<>> = {}
    OBVIOUS
  <2> QED
    BY <2>1 DEF Kept, Distinct, NamesOf, Before
<1>3. ASSUME NEW i \in 1 .. N, i - 1 \in Good
      PROVE  i \in Good
  <2>1. Kept(live, list, k[i - 1], i - 1)
    BY <1>3
  <2>2. Kept(live, list, AddExisting(live, k[i - 1], list[i]), i)
    BY <2>1, KeptStep
  <2> QED
    BY <1>1, <2>2
<1>4. N \in Good
  <2>1. Good \in SUBSET (0 .. N) /\ N \in 0 .. N /\ 0 \in Good
    BY <1>0, <1>1, <1>2
  <2> HIDE DEF Good, N
  <2> QED
    BY <1>0, <1>3, <2>1, BoundedInduction
<1> QED
  BY <1>4 DEF k

(***************************************************************************)
(* An update of the list: what was kept, and then the others in any order. *)
(***************************************************************************)

LEMMA SetToSeqsFacts ==
    ASSUME NEW S, IsFiniteSet(S), NEW rest \in SetToSeqs(S)
    PROVE  /\ rest \in Seq(S)
           /\ ToSet(rest) = S
           /\ \A i, j \in DOMAIN rest : rest[i] = rest[j] => i = j
<1> DEFINE n == Cardinality(S)
<1>1. n \in Nat
  BY FS_CardinalityType
<1>2. rest \in [1 .. n -> S] /\ \A i, j \in 1 .. n : i # j => rest[i] # rest[j]
  BY DEF SetToSeqs
<1> HIDE DEF n
<1>3. rest \in Injection(1 .. n, S)
  BY <1>2 DEF Injection, IsInjective
<1>4. IsFiniteSet(1 .. n) /\ Cardinality(1 .. n) = n
  BY <1>1, FS_Interval
<1>5. rest \in Surjection(1 .. n, S)
  BY <1>3, <1>4, FS_Injection DEF n
<1>6. rest \in Seq(S)
  BY <1>1, <1>2
<1>7. ToSet(rest) = S
  BY <1>2, <1>5 DEF Surjection, ToSet
<1> QED
  BY <1>2, <1>6, <1>7

(* The entries are exactly the live ones, each once, and what comes before *)
(* an old name came before it in the old list.                             *)
LEMMA NextSigningKeysFacts ==
    ASSUME NEW next \in [Names -> SigningKeys], NEW list \in Seq(Entries),
           NEW new \in NextSigningKeys(list, next)
    PROVE  /\ new \in Seq(Entries)
           /\ ToSet(new) = NextSKsByName(next)
           /\ Distinct(new)
           /\ \A m : \A n \in NamesOf(list) : Before(new, m, n) => Before(list, m, n)
<1> DEFINE live == NextSKsByName(next)
           kept == KeepExisting(live, list)[Len(list)]
<1>1. Keyed(live) /\ IsFiniteSet(live)
  BY LiveFacts
<1>2. Kept(live, list, kept, Len(list))
  BY <1>1, KeptFacts
<1>3. PICK rest \in SetToSeqs(live \ ToSet(kept)) : new = kept \o rest
  BY DEF NextSigningKeys
<1> HIDE DEF live, kept
<1>4. /\ rest \in Seq(live \ ToSet(kept))
      /\ ToSet(rest) = live \ ToSet(kept)
      /\ \A i, j \in DOMAIN rest : rest[i] = rest[j] => i = j
  <2>1. IsFiniteSet(live \ ToSet(kept))
    BY <1>1, FS_Subset
  <2> QED
    BY <1>3, <2>1, SetToSeqsFacts
<1>5. kept \in Seq(live) /\ Distinct(kept)
  BY <1>2 DEF Kept
<1>6. rest \in Seq(live)
  BY <1>4, SeqMonotonic
<1>7. /\ new \in Seq(live) /\ Len(new) = Len(kept) + Len(rest)
      /\ \A i \in 1 .. Len(kept) + Len(rest) :
            new[i] = IF i <= Len(kept) THEN kept[i] ELSE rest[i - Len(kept)]
  BY <1>3, <1>5, <1>6, ConcatProperties
<1>8. /\ Len(kept) \in Nat /\ DOMAIN kept = 1 .. Len(kept)
      /\ Len(rest) \in Nat /\ DOMAIN rest = 1 .. Len(rest)
      /\ DOMAIN new = 1 .. Len(kept) + Len(rest)
  BY <1>5, <1>6, <1>7, LenProperties
<1>9. /\ \A i \in DOMAIN kept : i \in DOMAIN new /\ new[i] = kept[i]
      /\ \A i \in DOMAIN rest : Len(kept) + i \in DOMAIN new /\ new[Len(kept) + i] = rest[i]
      /\ \A i \in DOMAIN new : i \in DOMAIN kept \/ i - Len(kept) \in DOMAIN rest
  BY <1>7, <1>8
<1>10. ToSet(new) = live
  <2>1. \A i \in DOMAIN kept : kept[i] \in live
    BY <1>5, <1>8, ElementOfSeq
  <2>2. \A i \in DOMAIN new : new[i] \in live
    BY <1>7, <1>8, ElementOfSeq
  <2>3. ASSUME NEW e \in live
        PROVE  \E i \in DOMAIN new : new[i] = e
    <3>1. CASE e \in ToSet(kept)
      BY <1>9, <3>1 DEF ToSet
    <3>2. CASE e \in ToSet(rest)
      BY <1>9, <3>2 DEF ToSet
    <3> QED
      BY <1>4, <3>1, <3>2
  <2> QED
    BY <2>2, <2>3 DEF ToSet
<1>11. \A i \in DOMAIN kept, j \in DOMAIN rest : kept[i].name # rest[j].name
  <2> SUFFICES ASSUME NEW i \in DOMAIN kept, NEW j \in DOMAIN rest,
                      kept[i].name = rest[j].name
               PROVE  FALSE
    OBVIOUS
  <2>1. kept[i] \in live /\ rest[j] \in live \ ToSet(kept)
    BY <1>4, <1>5, <1>8, ElementOfSeq
  <2>2. kept[i] = rest[j]
    BY <1>1, <2>1 DEF Keyed
  <2> QED
    BY <2>1, <2>2 DEF ToSet
<1>12. \A i, j \in DOMAIN rest : rest[i].name = rest[j].name => i = j
  <2>1. \A i \in DOMAIN rest : rest[i] \in live
    BY <1>6, <1>8, ElementOfSeq
  <2> QED
    BY <1>1, <1>4, <2>1 DEF Keyed
<1>13. Distinct(new)
  <2> SUFFICES ASSUME NEW i \in DOMAIN new, NEW j \in DOMAIN new,
                      new[i].name = new[j].name
               PROVE  i = j
    BY DEF Distinct
  <2>1. /\ i \in DOMAIN kept => new[i] = kept[i]
        /\ j \in DOMAIN kept => new[j] = kept[j]
        /\ i \notin DOMAIN kept => i - Len(kept) \in DOMAIN rest /\ new[i] = rest[i - Len(kept)]
        /\ j \notin DOMAIN kept => j - Len(kept) \in DOMAIN rest /\ new[j] = rest[j - Len(kept)]
    BY <1>7, <1>8
  <2>2. CASE i \in DOMAIN kept
    BY <1>5, <1>11, <2>1, <2>2 DEF Distinct
  <2>3. CASE i \notin DOMAIN kept
    <3>1. j \notin DOMAIN kept
      BY <1>11, <2>1, <2>3
    <3>2. i - Len(kept) = j - Len(kept)
      BY <1>12, <2>1, <2>3, <3>1
    <3> QED
      BY <1>8, <3>2
  <2> QED
    BY <2>2, <2>3
<1>14. ASSUME NEW m, NEW n \in NamesOf(list), Before(new, m, n)
       PROVE  Before(list, m, n)
  <2>1. PICK i, j \in DOMAIN new : i < j /\ new[i].name = m /\ new[j].name = n
    BY <1>14 DEF Before
  <2>2. PICK e \in live : e.name = n /\ new[j] = e
    BY <1>10, <2>1 DEF ToSet
  <2>3. \E q \in 1 .. Len(list) : list[q].name = e.name
    BY <2>2, LenProperties DEF NamesOf
  <2>4. n \in NamesOf(kept)
    BY <1>2, <2>2, <2>3 DEF Kept
  <2>5. PICK p \in DOMAIN kept : kept[p].name = n
    BY <2>4 DEF NamesOf
  <2>6. j = p
    BY <1>9, <1>13, <2>1, <2>5 DEF Distinct
  <2>7. i \in DOMAIN kept /\ kept[i].name = m
    BY <1>7, <1>8, <2>1, <2>6
  <2>8. Before(kept, m, n)
    BY <2>1, <2>5, <2>6, <2>7 DEF Before
  <2> QED
    BY <1>2, <2>8 DEF Kept
<1>15. new \in Seq(Entries)
  BY <1>1, <1>7, SeqMonotonic DEF Keyed
<1> QED
  BY <1>10, <1>13, <1>14, <1>15 DEF live

(* A list that has the live entries already, each once, is kept as it is.  *)
LEMMA NoOpFacts ==
    ASSUME NEW next \in [Names -> SigningKeys], NEW list \in Seq(Entries),
           Distinct(list), ToSet(list) = NextSKsByName(next),
           NEW new \in NextSigningKeys(list, next)
    PROVE  new = list
<1> DEFINE live == NextSKsByName(next)
           N == Len(list)
           k == KeepExisting(live, list)
           Same(kept, i) == /\ kept \in Seq(live) /\ Len(kept) = i
                            /\ \A a \in 1 .. i : kept[a] = list[a]
           Good == {i \in 0 .. N : Same(k[i], i)}
<1>0. N \in Nat /\ DOMAIN list = 1 .. N
  BY LenProperties
<1>1. Keyed(live)
  BY LiveFacts
<1>2. k[0] = <<>> /\ \A i \in 1 .. N : k[i] = AddExisting(live, k[i - 1], list[i])
  BY <1>0, KeepExistingUnfold
<1>3. PICK rest \in SetToSeqs(live \ ToSet(k[N])) : new = k[N] \o rest
  BY DEF NextSigningKeys
<1>4. \A i \in 1 .. N : list[i] \in live
  BY <1>0 DEF ToSet
<1> HIDE DEF k, live
<1>5. ASSUME NEW i \in 1 .. N, Same(k[i - 1], i - 1)
      PROVE  Same(k[i], i)
  <2> DEFINE kept == k[i - 1]
  <2>1. kept \in Seq(live) /\ Len(kept) = i - 1 /\ \A a \in 1 .. i - 1 : kept[a] = list[a]
    BY <1>5
  <2> HIDE DEF kept
  <2>2. DOMAIN kept = 1 .. i - 1
    BY <2>1, LenProperties
  <2>3. list[i] \in live /\ list[i].name \notin NamesOf(kept)
    BY <1>0, <1>4, <2>1, <2>2 DEF NamesOf, Distinct
  <2>4. \A e \in live : e.name = list[i].name => e = list[i]
    BY <1>1, <2>3 DEF Keyed
  <2>5. AddExisting(live, kept, list[i]) = Append(kept, list[i])
    BY <1>1, <2>3, <2>4, AddExistingFacts
  <2>6. k[i] = Append(kept, list[i])
    BY <1>2, <2>5 DEF kept
  <2> QED
    BY <2>1, <2>3, <2>6, AppendProperties
<1>6. Same(k[N], N)
  <2>1. Same(<<>>, 0)
    OBVIOUS
  <2>2. Same(k[0], 0)
    BY <1>2, <2>1
  <2> HIDE DEF Same
  <2>3. /\ Good \in SUBSET (0 .. N) /\ N \in 0 .. N /\ 0 \in Good
        /\ \A i \in 1 .. N : i - 1 \in Good => i \in Good
    BY <1>0, <1>5, <2>2
  <2>4. N \in Good
    <3> HIDE DEF Good, N
    <3> QED
      BY <1>0, <2>3, BoundedInduction
  <2> QED
    BY <2>4
<1>7. k[N] = list
  <2>1. k[N] \in Seq(Entries)
    BY <1>1, <1>6, SeqMonotonic DEF Keyed
  <2> QED
    BY <1>6, <2>1, SeqEqual
<1>8. live \ ToSet(k[N]) = {}
  BY <1>7 DEF live
<1>9. rest = <<>>
  <2>1. rest \in Seq({})
    BY <1>3, <1>8, FS_EmptySet, SetToSeqsFacts
  <2> QED
    BY <2>1
<1> QED
  BY <1>3, <1>7, <1>9, ConcatEmptySeq

(***************************************************************************)
(* The list through any sequence of updates and changes.                   *)
(***************************************************************************)

ListsInv ==
    /\ sks \in [Names -> SigningKeys]
    /\ current \in Seq(Entries)
    /\ Distinct(current)

(* A list without duplicates is as long as it has names.                   *)
LEMMA DistinctCardinality ==
    ASSUME NEW list \in Seq(Entries), Distinct(list)
    PROVE  Cardinality(NamesOf(list)) = Len(list)
<1> DEFINE n == Len(list)
           name == [i \in 1 .. n |-> list[i].name]
<1>1. n \in Nat /\ DOMAIN list = 1 .. n
  BY LenProperties
<1> HIDE DEF n
<1>2. name \in Bijection(1 .. n, NamesOf(list))
  BY <1>1 DEF Bijection, Injection, Surjection, IsInjective, NamesOf, Distinct
<1>3. IsFiniteSet(1 .. n) /\ Cardinality(1 .. n) = n
  BY <1>1, FS_Interval
<1>4. ExistsBijection(1 .. n, NamesOf(list))
  BY <1>2 DEF ExistsBijection
<1> QED
  BY <1>3, <1>4, FS_Bijection DEF n

(* The list starts empty.                                                  *)
LEMMA ListsInit ==
    ASSUME Init
    PROVE  ListsInv
<1>1. <<>> \in Seq(Entries) /\ DOMAIN <<>> = {}
  OBVIOUS
<1> QED
  BY <1>1 DEF Init, InitLists, ListsInv, SigningKeys, Distinct

(* What a step does to the list and the SigningKeys.                       *)
LEMMA ListsStep ==
    ASSUME [Next]_vars
    PROVE  \/ UNCHANGED lists
           \/ ChangeSigningKey
           \/ EnsureSigningKeysUpdated
BY DEF Next, vars, lists, EditSpec, ChangeSigningKeys, Reconcile

(* Updates and changes keep the list without duplicates.                   *)
LEMMA ListsNext ==
    ASSUME ListsInv, [Next]_vars
    PROVE  ListsInv'
<1>1. CASE UNCHANGED lists
  BY <1>1 DEF ListsInv, lists
<1>2. CASE ChangeSigningKey
  BY <1>2 DEF ListsInv, ChangeSigningKey
<1>3. CASE EnsureSigningKeysUpdated
  BY <1>3, NextSigningKeysFacts DEF ListsInv, EnsureSigningKeysUpdated
<1> QED
  BY <1>1, <1>2, <1>3, ListsStep

(* An update of the list, although it goes through a Go map, changes       *)
(* nothing when the list has the right entries.                            *)
THEOREM NoOpUpdateIsAlwaysStable == Spec => NoOpUpdateIsStable
<1> DEFINE Step == ToSet(current) = NextSKsByName(sks) /\ UNCHANGED sks
                        => current' = current
<1>1. ListsInv /\ [Next]_vars => [Step]_lists
  <2> SUFFICES ASSUME ListsInv, [Next]_vars, ToSet(current) = NextSKsByName(sks),
                      UNCHANGED sks
               PROVE  current' = current
    OBVIOUS
  <2>1. CASE EnsureSigningKeysUpdated
    BY <2>1, NoOpFacts DEF ListsInv, EnsureSigningKeysUpdated
  <2> QED
    BY <2>1, ListsStep DEF lists, ChangeSigningKey
<1>2. Spec => [][Step]_lists
  BY <1>1, ListsInit, ListsNext, PTL DEF Spec
<1> QED
  BY <1>2 DEF NoOpUpdateIsStable, Step

(* An update lists exactly the live SigningKeys, and keeps the order of    *)
(* those that were listed before, ahead of the new ones.                   *)
THEOREM UpdateAlwaysMergesInOrder == Spec => UpdateMergesInOrder
<1> DEFINE Step == current' # current =>
                      /\ ToSet(current') = NextSKsByName(sks)
                      /\ \A m \in Names, n \in NamesOf(current) :
                            Before(current', m, n) => Before(current, m, n)
<1>1. ListsInv /\ [Next]_vars => [Step]_lists
  <2> SUFFICES ASSUME ListsInv, [Next]_vars, current' # current
               PROVE  Step
    OBVIOUS
  <2>1. EnsureSigningKeysUpdated
    BY ListsStep DEF lists, ChangeSigningKey
  <2> QED
    BY <2>1, NextSigningKeysFacts DEF ListsInv, EnsureSigningKeysUpdated
<1>2. Spec => [][Step]_lists
  BY <1>1, ListsInit, ListsNext, PTL DEF Spec
<1> QED
  BY <1>2 DEF UpdateMergesInOrder, Step

(***************************************************************************)
(* The claims.  After a reconcile the JWT has the claims that the spec and *)
(* the list give, whether it was written or found to have them.            *)
(***************************************************************************)

ClaimsInv ==
    /\ res \in Resources
    /\ fresh \in BOOLEAN
    /\ jwt.iat \in {0, 1}
    /\ jwt.nils \subseteq Parts
    /\ jwt.claims.kind \in {"none", res.kind}
    /\ fresh => jwt.claims = CreateClaims(res, current)
    /\ fresh /\ res.kind = "Account" => ToSet(current) = NextSKsByName(sks)

(* The claims are of the resource's kind.                                  *)
LEMMA KindOfClaims ==
    ASSUME NEW r \in Resources, NEW list
    PROVE  CreateClaims(r, list).kind = r.kind
<1>1. r.kind \in {"Account", "User"}
  BY ResourcesAssumption DEF AccountSpecs, UserSpecs
<1> QED
  BY <1>1 DEF CreateClaims, CreateAccountClaims, CreateUserClaims

(* ensureJWTSecretUpToDate leaves a JWT with the claims it wants.          *)
LEMMA ReconcileJWT ==
    ASSUME Reconcile, jwt.iat \in {0, 1}, jwt.nils \subseteq Parts
    PROVE  /\ jwt'.claims = CreateClaims(res, current')
           /\ jwt'.iat \in {0, 1}
           /\ jwt'.nils \subseteq Parts
<1> DEFINE want == WantClaims(res, current')
<1>1. jwt' = IF Equality(jwt, want) THEN jwt ELSE Encode(want)
  BY DEF Reconcile
<1>2. want.claims = CreateClaims(res, current') /\ want.iat \in {0, 1}
  BY DEF WantClaims
<1>3. Encode(want) = [want EXCEPT !.nils = EmptyParts(want.claims)]
  BY DEF Encode
<1>4. want = [iat |-> want.iat, nils |-> want.nils, claims |-> want.claims]
  BY DEF WantClaims
<1> HIDE DEF want
<1>5. /\ Encode(want).claims = want.claims
      /\ Encode(want).iat = want.iat
      /\ Encode(want).nils \subseteq Parts
  BY <1>3, <1>4 DEF EmptyParts
<1> QED
  BY <1>1, <1>2, <1>5 DEF Equality

(* Every step keeps the JWT of the last reconcile the wanted one.          *)
LEMMA ClaimsNext ==
    ASSUME ListsInv, ClaimsInv, [Next]_vars
    PROVE  ClaimsInv'
<1>1. CASE EditSpec
  BY <1>1 DEF EditSpec, ClaimsInv
<1>2. CASE ChangeSigningKeys
  BY <1>2 DEF ChangeSigningKeys, ClaimsInv
<1>3. CASE Reconcile
  <2>1. /\ jwt'.claims = CreateClaims(res, current')
        /\ jwt'.iat \in {0, 1} /\ jwt'.nils \subseteq Parts
    BY <1>3, ReconcileJWT DEF ClaimsInv
  <2>2. res' = res /\ fresh' = TRUE /\ res \in Resources
    BY <1>3 DEF Reconcile, ClaimsInv
  <2>3. ASSUME res.kind = "Account"
        PROVE  ToSet(current') = NextSKsByName(sks')
    BY <1>3, <2>3, NextSigningKeysFacts DEF Reconcile, EnsureSigningKeysUpdated, ListsInv
  <2>4. CreateClaims(res, current').kind = res.kind
    BY <2>2, KindOfClaims
  <2> QED
    BY <2>1, <2>2, <2>3, <2>4 DEF ClaimsInv
<1>4. CASE UNCHANGED vars
  BY <1>4 DEF vars, lists, ClaimsInv
<1> QED
  BY <1>1, <1>2, <1>3, <1>4 DEF Next

(* The invariants of the list and of the claims, together.                 *)
LEMMA AlwaysClaimsInv == Spec => [](ListsInv /\ ClaimsInv)
<1>1. Init => ClaimsInv
  <2>1. NoJWT.iat = 0 /\ NoJWT.nils = {} /\ NoJWT.claims.kind = "none"
    BY DEF NoJWT
  <2>2. Init => res \in Resources /\ jwt = NoJWT /\ fresh = FALSE
    BY DEF Init
  <2> QED
    BY <2>1, <2>2 DEF ClaimsInv
<1> QED
  BY <1>1, ListsInit, ListsNext, ClaimsNext, PTL DEF Spec

(* The variables keep their types, and no SigningKey is listed twice.      *)
THEOREM TypeCorrect == Spec => []TypeOK
<1>1. ListsInv /\ ClaimsInv => TypeOK
  BY DistinctCardinality DEF ListsInv, ClaimsInv, TypeOK, ListsTypeOK
<1> QED
  BY <1>1, AlwaysClaimsInv, PTL

(* A reconcile that follows another one with nothing changed in between    *)
(* finds the list of signing keys and the JWT as it would leave them, for  *)
(* every spec and every number of SigningKeys: the list is stable although *)
(* it goes through a map, so the claims are those of the JWT, and neither  *)
(* the time nor what its JSON omits makes a difference.                    *)
THEOREM IdleReconcileNeverWrites == Spec => IdleReconcileWritesNothing
<1> DEFINE Step == fresh /\ fresh' => UNCHANGED <<current, jwt>>
<1>1. ListsInv /\ ClaimsInv /\ [Next]_vars => [Step]_vars
  <2> SUFFICES ASSUME ListsInv, ClaimsInv, Reconcile, fresh
               PROVE  current' = current /\ jwt' = jwt
    BY DEF Next, vars, EditSpec, ChangeSigningKeys
  <2>1. current' = current
    <3>1. CASE res.kind = "Account"
      <4>1. current' \in NextSigningKeys(current, sks)
        BY <3>1 DEF Reconcile, EnsureSigningKeysUpdated
      <4>2. ToSet(current) = NextSKsByName(sks)
        BY <3>1 DEF ClaimsInv
      <4> QED
        BY <4>1, <4>2, NoOpFacts DEF ListsInv
    <3>2. CASE res.kind # "Account"
      BY <3>2 DEF Reconcile, lists
    <3> QED
      BY <3>1, <3>2
  <2>2. WantClaims(res, current').claims = jwt.claims
    BY <2>1 DEF WantClaims, ClaimsInv
  <2>3. jwt' = jwt
    BY <2>2 DEF Reconcile, Equality
  <2> QED
    BY <2>1, <2>3
<1>2. Spec => [][Step]_vars
  BY <1>1, AlwaysClaimsInv, PTL DEF Spec
<1> QED
  BY <1>2 DEF IdleReconcileWritesNothing, Step

(* The User's JWT belongs to its Account, whoever signed it, and has the   *)
(* permissions of the spec, for every spec.                                *)
THEOREM UserJWTAlwaysBelongsToAccount == Spec => []UserJWTBelongsToAccount
<1>1. ClaimsInv => UserJWTBelongsToAccount
  <2> SUFFICES ASSUME ClaimsInv, fresh, res.kind = "User"
               PROVE  UserJWTBelongsToAccount
    BY DEF UserJWTBelongsToAccount
  <2>1. jwt.claims = CreateUserClaims(res)
    BY DEF ClaimsInv, CreateClaims
  <2> QED
    BY <2>1 DEF UserJWTBelongsToAccount, CreateUserClaims, IssuerAccount,
       UserPermissionLimits
<1> QED
  BY <1>1, AlwaysClaimsInv, PTL

(* The conversions of limits: nil is no limit, zero stays zero.            *)
LEMMA LimitsFacts ==
    ASSUME NEW fields, NEW limits
    PROVE  SameLimits(limits, [f \in fields |-> GetDefaultFromPtr(limits[f], NoLimit)],
                      fields)
BY DEF SameLimits, SpecAllows, ClaimsAllow, GetDefaultFromPtr

(* The conversions of exports and imports: what becomes of each one has    *)
(* its subject, and its type when that is one that NATS knows.             *)
SameSubject(e, c) ==
    /\ c.subject = e.subject
    /\ \A t \in {"stream", "service"} : c.type = t <=> e.type = t

(* Sets of them that match one by one have the same subjects.              *)
LEMMA SubjectsMatch ==
    ASSUME NEW spec, NEW claims,
           \A e \in spec : \E c \in claims : SameSubject(e, c),
           \A c \in claims : \E e \in spec : SameSubject(e, c)
    PROVE  SameSubjects(spec, claims)
<1>1. {s.subject : s \in spec} = {c.subject : c \in claims}
  BY DEF SameSubject
<1>2. ASSUME NEW t \in {"stream", "service"}
      PROVE  {s.subject : s \in {e \in spec : e.type = t}} =
                {c.subject : c \in {e \in claims : e.type = t}}
  BY DEF SameSubject
<1> QED
  BY <1>1, <1>2 DEF SameSubjects

(* The converted exports and imports match those of the spec.              *)
LEMMA SubjectsFacts ==
    ASSUME NEW exports \in SUBSET Exports, NEW imports \in SUBSET Imports
    PROVE  /\ SameSubjects(exports, ConvertToNATSExports(exports))
           /\ SameSubjects(imports, ConvertToNATSImports(imports))
<1> DEFINE Export(e) == [e EXCEPT !.type = ConvertToNATSExportType(@),
                                  !.response = ConvertToNATSResponseType(@)]
           Import(i) == [i EXCEPT !.type = ConvertToNATSExportType(@)]
<1>1. \A e \in exports : SameSubject(e, Export(e))
  <2>1. \A e \in exports : /\ Export(e).subject = e.subject
                           /\ Export(e).type = ConvertToNATSExportType(e.type)
    BY DEF Exports
  <2> HIDE DEF Export
  <2> QED
    BY <2>1 DEF SameSubject, ConvertToNATSExportType
<1>2. \A i \in imports : SameSubject(i, Import(i))
  <2>1. \A i \in imports : /\ Import(i).subject = i.subject
                           /\ Import(i).type = ConvertToNATSExportType(i.type)
    BY DEF Imports
  <2> HIDE DEF Import
  <2> QED
    BY <2>1 DEF SameSubject, ConvertToNATSExportType
<1>3. /\ ConvertToNATSExports(exports) = {Export(e) : e \in exports}
      /\ ConvertToNATSImports(imports) = {Import(i) : i \in imports}
  BY DEF ConvertToNATSExports, ConvertToNATSImports
<1> HIDE DEF Export, Import
<1> QED
  BY <1>1, <1>2, <1>3, SubjectsMatch

(* After a reconcile the JWT of an Account grants what its spec and the    *)
(* SigningKeys say, for every spec.                                        *)
THEOREM AccountJWTAlwaysGrantsSpec == Spec => []AccountJWTGrantsSpec
<1>1. ClaimsInv => AccountJWTGrantsSpec
  <2> SUFFICES ASSUME ClaimsInv, fresh, res.kind = "Account"
               PROVE  AccountJWTGrantsSpec
    BY DEF AccountJWTGrantsSpec
  <2> DEFINE got == jwt.claims
  <2>1. got = CreateAccountClaims(res, current) /\ ToSet(current) = NextSKsByName(sks)
    BY DEF ClaimsInv, CreateClaims
  <2>2. res \in AccountSpecs
    BY ResourcesAssumption DEF ClaimsInv, UserSpecs
  <2>3. /\ got.limits = IF res.limits = Nil THEN DefaultAccountLimits
                        ELSE ConvertToAccountLimits(res.limits)
        /\ got.exports = ConvertToNATSExports(res.exports)
        /\ got.imports = ConvertToNATSImports(res.imports)
        /\ got.signingKeys = {current[i].keyPair : i \in DOMAIN current}
    BY <2>1 DEF CreateAccountClaims
  <2> HIDE DEF got
  <2>4. ASSUME res.limits # Nil
        PROVE  /\ SameLimits(res.limits.nats, got.limits.nats, NatsFields)
               /\ SameLimits(res.limits.account, got.limits.account, AccountFields)
               /\ got.limits.wildcards <=> res.limits.wildcards # FALSE
    <3>1. res.limits \in AccountLimits
      BY <2>2, <2>4 DEF AccountSpecs
    <3>2. /\ got.limits.nats = ConvertToNatsLimits(res.limits.nats)
          /\ got.limits.account =
                [f \in AccountFields |-> GetDefaultFromPtr(res.limits.account[f], NoLimit)]
          /\ got.limits.wildcards = GetDefaultFromPtr(res.limits.wildcards, TRUE)
      BY <2>3, <2>4 DEF ConvertToAccountLimits
    <3>3. got.limits.wildcards <=> res.limits.wildcards # FALSE
      <4>1. res.limits.wildcards \in BOOLEAN \cup {Nil}
        BY <3>1 DEF AccountLimits
      <4> QED
        BY <3>2, <4>1, NilAssumption DEF GetDefaultFromPtr
    <3>4. SameLimits(res.limits.nats, got.limits.nats, NatsFields)
      BY <3>2, LimitsFacts DEF ConvertToNatsLimits
    <3>5. SameLimits(res.limits.account, got.limits.account, AccountFields)
      BY <3>2, LimitsFacts
    <3> QED
      BY <3>3, <3>4, <3>5
  <2>5. SameSubjects(res.exports, got.exports) /\ SameSubjects(res.imports, got.imports)
    BY <2>2, <2>3, SubjectsFacts DEF AccountSpecs
  <2>6. got.signingKeys = {e.keyPair : e \in NextSKsByName(sks)}
    BY <2>1, <2>3 DEF ToSet
  <2> QED
    BY <2>3, <2>4, <2>5, <2>6 DEF AccountJWTGrantsSpec, got
<1> QED
  BY <1>1, AlwaysClaimsInv, PTL
=============================================================================
