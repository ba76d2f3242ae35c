-------------------------- MODULE ConditionManager --------------------------
(***************************************************************************)
(* One resource's conditions under any sequence of ConditionManager calls: *)
(* the conditions are read (from a new object, or one whose status an      *)
(* older release of the operator with fewer dependents wrote),             *)
(* InitializeConditions runs as the first thing every Reconcile does, and  *)
(* the lifecycle methods then mark conditions in any order.                *)
(***************************************************************************)
EXTENDS ConditionSet

CONSTANTS
    Dependents,     \* the terminal condition types of the resource
    Informational   \* condition types that do not count towards Ready

ASSUME DependentsAssumption == Dependents # {} /\ Happy \notin Dependents

ASSUME InformationalAssumption ==
    Informational \cap (Dependents \cup {Happy}) = {}

VARIABLES
    conds,          \* .status.conditions
    initialized     \* InitializeConditions has run since the object was read

vars == <<conds, initialized>>

Types == Dependents \cup Informational \cup {Happy}

(* A status as a release knowing only the dependents in old would leave it.*)
WrittenBy(old, c) ==
    /\ \A d \in old : c[d] # NoCondition
    /\ \A d \in Dependents \ old : c[d] = NoCondition
    /\ c[Happy] = Summary(c, old)

Init ==
    /\ conds \in ConditionLists(Types)
    /\ \/ conds = [t \in Types |-> NoCondition]
       \/ \E old \in SUBSET Dependents : old # {} /\ WrittenBy(old, conds)
    /\ initialized = FALSE

Initialize ==
    /\ conds' = InitializeConditions(conds, Dependents)
    /\ initialized' = TRUE

(* The lifecycle methods only ever mark dependents; the interface allows   *)
(* informational types too.                                                *)
Mark(t) ==
    /\ initialized
    /\ \/ conds' = MarkTrue(conds, Dependents, t)
       \/ conds' = MarkFalse(conds, Dependents, t)
       \/ conds' = MarkUnknown(conds, Dependents, t)
    /\ UNCHANGED initialized

Clear(t) ==
    /\ initialized
    /\ conds' = ClearCondition(conds, Dependents, t)
    /\ UNCHANGED initialized

(* The status is written and read back by the next reconcile.              *)
Reread ==
    /\ initialized
    /\ initialized' = FALSE
    /\ UNCHANGED conds

Next ==
    \/ Initialize
    \/ Reread
    \/ \E t \in Dependents \cup Informational : Mark(t)
    \/ \E t \in Types : Clear(t)

Spec == Init /\ [][Next]_vars

-----------------------------------------------------------------------------
(* conds is a condition list over the known types, and initialized is a    *)
(* flag.                                                                   *)
TypeOK ==
    /\ conds \in ConditionLists(Types)
    /\ initialized \in BOOLEAN

(* Once initialized, no dependent is missing and Ready is exactly the      *)
(* summary of the dependents: False iff one of them is False, True iff all *)
(* of them are True.  Every consumer of a resource (resolveIssuer,         *)
(* NextSigningKeys, resolveAccount) looks at Ready alone and relies on it. *)
ReadySummarisesDependents ==
    initialized => Summarised(conds, Dependents)
=============================================================================
