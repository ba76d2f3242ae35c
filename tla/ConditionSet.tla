---------------------------- MODULE ConditionSet ----------------------------
(***************************************************************************)
(* The condition arithmetic of pkg/apis/condition_set.go: how marking one  *)
(* condition of a resource updates its top-level ("happy") condition.      *)
(*                                                                         *)
(* A resource's .status.conditions is a total function from condition      *)
(* types to a status, in which NoCondition stands for a type that is not   *)
(* in the list.  Reasons, messages and transition times are left out: they *)
(* choose which dependent's text the happy condition repeats, never its    *)
(* status.  Severity is not stored either: SetCondition's callers always   *)
(* write severity(t), which is Error exactly for the happy condition and   *)
(* the dependents, so "has severity Error" is "is a dependent".            *)
(*                                                                         *)
(* deps is the ConditionSet's list of dependents.  newConditionSet drops   *)
(* the happy type and duplicates from it, so it is a set without Happy.    *)
(***************************************************************************)

Happy == "Ready"

NoCondition == "nil"

Statuses == {"True", "False", "Unknown"}

(* The condition lists over a set of types.                                *)
ConditionLists(types) == [types -> Statuses \cup {NoCondition}]

IsTrue(status) == status = "True"

(* newConditionSet: the happy type is never one of its own dependents.     *)
NewConditionSet(types) == types \ {Happy}

SetCondition(conds, t, status) == [conds EXCEPT ![t] = status]

(* The status the happy condition takes from the dependents, NoCondition   *)
(* when all of them are fine: False trumps Unknown, and a dependent that   *)
(* is not in the list yet counts as Unknown.                               *)
FindUnhappyDependent(conds, deps) ==
    IF \E d \in deps : conds[d] = "False" THEN "False"
    ELSE IF \E d \in deps : conds[d] \in {"Unknown", NoCondition} THEN "Unknown"
    ELSE NoCondition

RecomputeHappiness(conds, deps, t) ==
    LET unhappy == FindUnhappyDependent(conds, deps)
    IN  IF unhappy # NoCondition THEN SetCondition(conds, Happy, unhappy)
        ELSE IF t # Happy THEN SetCondition(conds, Happy, "True")
        ELSE conds

MarkTrue(conds, deps, t) ==
    RecomputeHappiness(SetCondition(conds, t, "True"), deps, t)

MarkFalse(conds, deps, t) ==
    LET marked == SetCondition(conds, t, "False")
    IN  IF t \in deps THEN SetCondition(marked, Happy, "False") ELSE marked

(* Mutant: the new Unknown hides a dependent that is already False.        *)
MarkUnknownOverFalse(conds, deps, t) ==
    LET marked == SetCondition(conds, t, "Unknown")
    IN  IF t \in deps THEN SetCondition(marked, Happy, "Unknown") ELSE marked

(* A dependent that is already False wins over the new Unknown.            *)
MarkUnknown(conds, deps, t) ==
    LET marked == SetCondition(conds, t, "Unknown")
    IN  IF \E d \in deps : marked[d] = "False"
        THEN IF marked[Happy] = "False" THEN marked
             ELSE MarkFalse(marked, deps, Happy)
        ELSE IF t \in deps THEN SetCondition(marked, Happy, "Unknown")
        ELSE marked

(* Mutant: conditions that are not dependents are dropped.                 *)
InitializeDependentsOnly(conds, deps) ==
    [t \in deps \cup {Happy} |->
        IF conds[t] = NoCondition THEN "Unknown" ELSE conds[t]]

(* Types that are unset become Unknown, except under a True happy          *)
(* condition, which is read as "every dependent is True".                  *)
InitializeConditions(conds, deps) ==
    LET happy == IF conds[Happy] = NoCondition THEN "Unknown" ELSE conds[Happy]
        unset == IF IsTrue(happy) THEN "True" ELSE "Unknown"
    IN  [t \in DOMAIN conds |->
            IF t = Happy THEN happy
            ELSE IF t \in deps /\ conds[t] = NoCondition THEN unset
            ELSE conds[t]]

(* ClearCondition refuses the happy condition and the dependents.          *)
ClearCondition(conds, deps, t) ==
    IF t \in deps \cup {Happy} THEN conds
    ELSE SetCondition(conds, t, NoCondition)

-----------------------------------------------------------------------------
(* What Ready ought to say of the dependents deps.                         *)
Summary(conds, deps) ==
    IF \E d \in deps : conds[d] = "False" THEN "False"
    ELSE IF \A d \in deps : conds[d] = "True" THEN "True"
    ELSE "Unknown"

(* No dependent is missing, and Ready is their summary.                    *)
Summarised(conds, deps) ==
    /\ \A d \in deps : conds[d] # NoCondition
    /\ conds[Happy] = Summary(conds, deps)
=============================================================================
