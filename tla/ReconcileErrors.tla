-------------------------- MODULE ReconcileErrors ---------------------------
(***************************************************************************)
(* How a reconcile step's error becomes a condition and a queue decision   *)
(* (internal/controller/accounts/errors.go).                               *)
(*                                                                         *)
(* An error is a wrapper (resultError: terminal or temporary, or none:     *)
(* plain) around a cause (conditionError: failed or unknown, or none).     *)
(* Reasons and messages are left out.                                      *)
(***************************************************************************)
EXTENDS ConditionSet

NoError == [class |-> "none", cause |-> "none"]

ConditionFailed == "failed"
ConditionUnknown == "unknown"
OtherCause == "other"

TerminalError(cause) == [class |-> "terminal", cause |-> cause]
TemporaryError(cause) == [class |-> "temporary", cause |-> cause]
PlainError(cause) == [class |-> "plain", cause |-> cause]

Errors ==
    {NoError} \cup [class : {"terminal", "temporary", "plain"},
                    cause : {"failed", "unknown", "other"}]

(* AsResult: whether the request goes back on the queue.  A temporary      *)
(* error returns Result{Requeue: true}; a plain one is returned to the     *)
(* runtime, which requeues it with back-off.                               *)
AsResult(err) == err.class \in {"temporary", "plain"}

MarkCondition(conds, deps, t, err) ==
    IF err.cause = ConditionFailed
    THEN MarkFalse(conds, deps, t)
    ELSE MarkUnknown(conds, deps, t)
=============================================================================
