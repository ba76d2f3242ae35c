------------------------- MODULE ControllerRuntime --------------------------
(***************************************************************************)
(* One reconciler and one resource of its kind, between the API server and *)
(* the informer cache, as controller-runtime runs them.  The Operator and  *)
(* User reconcilers extend this module with their own steps.               *)
(*                                                                         *)
(* The controller has one worker (MaxConcurrentReconciles is 1) and the    *)
(* workqueue holds a key at most once, so queued is a flag.  Resource      *)
(* versions are not stored: a write succeeds exactly when the copy is of   *)
(* the server's latest version, which objFresh and cacheFresh say of the   *)
(* reconcile's copy and of the cached one.                                 *)
(*                                                                         *)
(* A resource is a record with a Boolean exists and a status; a status is  *)
(* a record with the list of conditions, conds.                            *)
(***************************************************************************)
EXTENDS BaseReconciler

CONSTANTS
    Hazards,        \* the kinds of disturbance that may happen
    MaxDisturbances \* bound on how many do

ASSUME MaxDisturbancesAssumption == MaxDisturbances \in Nat

VARIABLES
    res,            \* the resource in the API server
    cached,         \* the resource in the informer cache
    cacheFresh,     \* cached is of res's version
    old,            \* the version that was cached before, if it can be listed
    queued,         \* the resource's key is in the workqueue
    pc,             \* the next step of the running reconcile, "idle" if none
    obj,            \* the copy that the reconcile works on
    objFresh,       \* obj is of res's version
    orig,           \* originalStatus (with the rest of the copy)
    requeue,        \* the reconcile will return a requeue or an error
    budget          \* disturbances left

server == <<res, cached, cacheFresh, old>>
local == <<pc, obj, objFresh, orig, requeue>>
runtime == <<server, queued, local, budget>>

(* There is no copy: of a resource that is not cached, or between two      *)
(* reconciles.                                                             *)
NoCopy == [exists |-> FALSE]

RuntimeInit(first) ==
    /\ res = first
    /\ cached = NoCopy
    /\ cacheFresh = FALSE
    /\ old = NoCopy
    /\ queued = FALSE
    /\ pc = "idle"
    /\ obj = NoCopy
    /\ objFresh = FALSE
    /\ orig = NoCopy
    /\ requeue = FALSE
    /\ budget = MaxDisturbances

RuntimeTypeOK(resources, steps) ==
    /\ res \in resources
    /\ cached \in resources \cup {NoCopy}
    /\ old \in resources \cup {NoCopy}
    /\ obj \in resources \cup {NoCopy}
    /\ orig \in resources \cup {NoCopy}
    /\ cacheFresh \in BOOLEAN
    /\ objFresh \in BOOLEAN
    /\ queued \in BOOLEAN
    /\ requeue \in BOOLEAN
    /\ pc \in steps \cup {"idle", "status"}
    /\ budget \in 0 .. MaxDisturbances

-----------------------------------------------------------------------------
(* A disturbance of the given kind may happen, and is paid for.            *)
Disturb(kind) ==
    /\ kind \in Hazards
    /\ budget > 0
    /\ budget' = budget - 1

Pays(fault) == IF fault = Clean THEN UNCHANGED budget ELSE Disturb(fault)

Goto(step, o) == pc' = step /\ obj' = o

(* The next step follows within the body of Reconcile.                     *)
Continue(step, o) == Goto(step, o) /\ UNCHANGED requeue

(* Return from the body of Reconcile: the deferred status update is next.  *)
Return(o, again) == Goto("status", o) /\ requeue' = again

(* The shared shape of a step: an error or a requeue returns.              *)
ContinueUnless(requeues, step, o) ==
    IF requeues THEN Return(o, TRUE) ELSE Continue(step, o)

(* client.Get of the cached resource, then InitializeConditions.           *)
StartReconcile(step, deps) ==
    /\ pc = "idle"
    /\ queued
    /\ queued' = FALSE
    /\ IF cached.exists
       THEN /\ Continue(step, [cached EXCEPT !.status.conds =
                                   InitializeConditions(@, deps)])
            /\ orig' = cached
            /\ objFresh' = cacheFresh
       ELSE UNCHANGED local
    /\ UNCHANGED <<server, budget>>

(* The server's answer to an Update is decoded into the copy: status       *)
(* fields the server holds replace the copy's, the ones it omits (as blank *)
(* has them) stay.                                                         *)
DecodeInto(o, answer, blank) ==
    [answer EXCEPT !.status =
        [f \in DOMAIN blank |->
            IF answer.status[f] = blank[f] THEN o.status[f] ELSE answer.status[f]]]

(* r.Update of the metadata change next, then return: the write succeeds,  *)
(* conflicts, or fails with or without having been carried out.            *)
UpdateResource(next, blank) ==
    \/ /\ objFresh
       /\ res' = next
       /\ cacheFresh' = FALSE
       /\ objFresh' = TRUE
       /\ Return(DecodeInto(obj, next, blank), TRUE)
       /\ UNCHANGED <<cached, old, budget>>
    \/ /\ ~objFresh
       /\ Return(obj, TRUE)
       /\ UNCHANGED <<server, objFresh, budget>>
    \/ /\ objFresh
       /\ Disturb(Fault)
       /\ Return(obj, TRUE)
       /\ \/ UNCHANGED <<server, objFresh>>
          \/ /\ res' = next
             /\ cacheFresh' = FALSE
             /\ objFresh' = FALSE
             /\ UNCHANGED <<cached, old>>

Forget ==
    /\ obj' = NoCopy
    /\ orig' = NoCopy
    /\ objFresh' = FALSE
    /\ requeue' = FALSE

(* The deferred function: Status().Update, when the status has changed.  A *)
(* conflict requeues even where the body would not have.                   *)
UpdateStatus ==
    /\ pc = "status"
    /\ pc' = "idle"
    /\ \/ /\ obj.status = orig.status
          /\ queued' = (queued \/ requeue)
          /\ UNCHANGED <<server, budget>>
       \/ /\ obj.status # orig.status
          /\ objFresh
          /\ res' = [res EXCEPT !.status = obj.status]
          /\ cacheFresh' = FALSE
          /\ UNCHANGED <<cached, old>>
          /\ \/ queued' = (queued \/ requeue) /\ UNCHANGED budget
             \/ queued' = TRUE /\ Disturb(Fault)
       \/ /\ obj.status # orig.status
          /\ IF objFresh THEN Disturb(Fault) ELSE UNCHANGED budget
          /\ queued' = TRUE
          /\ UNCHANGED server
    /\ Forget

(* What the first List of a new informer may return, and whether it is of  *)
(* the server's version.  client-go asks for resourceVersion=0, which the  *)
(* API server answers from its own cache: with the latest version, with    *)
(* the one that the last process had, or ("oldList") with one before it.   *)
List ==
    {<<res, TRUE>>, <<cached, cacheFresh>>}
    \cup (IF "oldList" \in Hazards THEN {<<old, FALSE>>} ELSE {})

(* The process stops and starts again: a new informer lists what there is  *)
(* and enqueues it.                                                        *)
Crash ==
    /\ Disturb("crash")
    /\ pc' = "idle"
    /\ Forget
    /\ \E l \in List :
        cached' = l[1] /\ cacheFresh' = l[2] /\ queued' = l[1].exists
    /\ UNCHANGED <<res, old>>

(* For(...): every event of the resource enqueues it.                      *)
CacheSync ==
    /\ ~cacheFresh
    /\ cached' = res
    /\ old' = IF "oldList" \in Hazards THEN cached ELSE NoCopy
    /\ cacheFresh' = TRUE
    /\ queued' = TRUE
    /\ UNCHANGED <<res, local, budget>>

(* The informer's periodic resync, hours apart.                            *)
Resync ==
    /\ cached.exists
    /\ ~queued
    /\ queued' = TRUE
    /\ UNCHANGED <<server, local, budget>>

(* A watch of another kind whose map function yields this resource.        *)
EnqueueIf(mapped) ==
    /\ queued' = (queued \/ mapped)
    /\ UNCHANGED <<server, local>>

(* A write of the resource that is not this controller's.                  *)
ForeignWrite(next) ==
    /\ res.exists
    /\ res' = next
    /\ cacheFresh' = FALSE
    /\ objFresh' = FALSE
    /\ UNCHANGED <<cached, old, queued, pc, obj, orig, requeue>>
=============================================================================
