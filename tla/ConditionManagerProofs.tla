----------------------- MODULE ConditionManagerProofs -----------------------
(***************************************************************************)
(* ConditionManager's invariants, for every set of dependents.             *)
(*                                                                         *)
(* ReadySummarisesDependents is not inductive by itself: before            *)
(* InitializeConditions has run it says nothing.  Inv adds that a status   *)
(* which is about to be initialized is a readable one.                     *)
(***************************************************************************)
EXTENDS ConditionManager, ReconcilerLemmas

Inv ==
    /\ TypeOK
    /\ ReadySummarisesDependents
    /\ ~initialized => Readable(conds, Dependents)

(* A summarised status is readable: what one reconcile stores, the next    *)
(* can start from.                                                         *)
LEMMA SummarisedIsReadable ==
    ASSUME NEW c, NEW deps, Summarised(c, deps)
    PROVE  Readable(c, deps)
<1>1. {d \in deps : c[d] # NoCondition} = deps
  BY DEF Summarised
<1> QED
  BY <1>1 DEF Summarised, Readable

(* The initial statuses are condition lists, and readable: empty, or       *)
(* written by a release that knew some of the dependents.                  *)
LEMMA InitInv == Init => Inv
<1> SUFFICES ASSUME Init PROVE Inv
  OBVIOUS
<1>1. TypeOK /\ ReadySummarisesDependents
  BY DEF Init, TypeOK, ReadySummarisesDependents
<1>2. CASE conds = [t \in Types |-> NoCondition]
  BY <1>1, <1>2 DEF Inv, Readable, Types
<1>3. CASE \E old \in SUBSET Dependents : old # {} /\ WrittenBy(old, conds)
  <2>1. PICK old \in SUBSET Dependents : WrittenBy(old, conds)
    BY <1>3
  <2>2. {d \in Dependents : conds[d] # NoCondition} = old
    BY <2>1 DEF WrittenBy
  <2> QED
    BY <1>1, <2>1, <2>2 DEF Inv, Readable, WrittenBy
<1> QED
  BY <1>2, <1>3 DEF Init

(* Marking a condition that is not Ready keeps the status typed and        *)
(* summarised, whichever of the three marks it is.                         *)
LEMMA MarkInv ==
    ASSUME Inv, NEW t \in Dependents \cup Informational, Mark(t)
    PROVE  Inv'
<1>1. /\ Dependents \in SUBSET Types
      /\ Happy \in Types
      /\ Happy \notin Dependents
      /\ t \in Types \ {Happy}
      /\ conds \in ConditionLists(Types)
      /\ Summarised(conds, Dependents)
  BY DependentsAssumption, InformationalAssumption
     DEF Types, Inv, TypeOK, Mark, ReadySummarisesDependents
<1>2. conds' \in ConditionLists(Types)
  BY <1>1, MarkTrueType, MarkFalseType, MarkUnknownType DEF Mark
<1>3. Summarised(conds', Dependents)
  BY <1>1, MarkTrueSummarised, MarkFalseSummarised, MarkUnknownSummarised DEF Mark
<1> QED
  BY <1>2, <1>3 DEF Inv, TypeOK, Mark, ReadySummarisesDependents, Types

(* Every step keeps Inv.                                                   *)
LEMMA NextInv == Inv /\ [Next]_vars => Inv'
<1> SUFFICES ASSUME Inv, [Next]_vars PROVE Inv'
  OBVIOUS
<1>1. /\ Dependents \in SUBSET Types
      /\ Happy \in Types
      /\ Dependents # {} /\ Happy \notin Dependents
      /\ conds \in ConditionLists(Types)
  BY DependentsAssumption DEF Types, Inv, TypeOK
<1>2. CASE Initialize
  <2>1. Readable(conds, Dependents)
    BY SummarisedIsReadable DEF Inv, ReadySummarisesDependents, TypeOK
  <2>2. Summarised(conds', Dependents)
    BY <1>1, <1>2, <2>1, InitializeConditionsSummarised DEF Initialize
  <2>3. conds' \in ConditionLists(Types)
    BY <1>1, <1>2, InitializeConditionsType DEF Initialize
  <2> QED
    BY <1>2, <2>2, <2>3 DEF Inv, TypeOK, Initialize, ReadySummarisesDependents, Types
<1>3. CASE Reread
  BY <1>3, SummarisedIsReadable
     DEF Inv, TypeOK, Reread, ReadySummarisesDependents, Types
<1>4. CASE \E t \in Dependents \cup Informational : Mark(t)
  BY <1>4, MarkInv
<1>5. CASE \E t \in Types : Clear(t)
  <2>1. PICK t \in Types : Clear(t)
    BY <1>5
  <2>2. conds' \in ConditionLists(Types)
    BY <1>1, <2>1, SetConditionType DEF Clear, ClearCondition
  <2>3. Summarised(conds', Dependents)
    BY <1>1, <2>1 DEF Inv, ReadySummarisesDependents, Clear, ClearCondition,
       Summarised, Summary, SetCondition, ConditionLists
  <2> QED
    BY <2>1, <2>2, <2>3 DEF Inv, TypeOK, Clear, ReadySummarisesDependents, Types
<1>6. CASE UNCHANGED vars
  BY <1>6 DEF vars, Inv, TypeOK, ReadySummarisesDependents, Types
<1> QED
  BY <1>2, <1>3, <1>4, <1>5, <1>6 DEF Next

(* A status is always a condition list over the resource's types.          *)
THEOREM TypeCorrect == Spec => []TypeOK
<1>1. Inv => TypeOK
  BY DEF Inv
<1> QED
  BY <1>1, InitInv, NextInv, PTL DEF Spec

(* For every set of dependents and every order of the lifecycle methods'   *)
(* marks, Ready is the summary of the dependents.                          *)
THEOREM ReadyIsSummary == Spec => []ReadySummarisesDependents
<1>1. Inv => ReadySummarisesDependents
  BY DEF Inv
<1> QED
  BY <1>1, InitInv, NextInv, PTL DEF Spec
=============================================================================
