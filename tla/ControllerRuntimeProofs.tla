----------------------- MODULE ControllerRuntimeProofs ----------------------
(***************************************************************************)
(* What the runtime's part of a reconcile keeps, for every kind of         *)
(* resource: the type of the server, the cache and the copy, and the copy  *)
(* that a running reconcile has.                                           *)
(***************************************************************************)
EXTENDS ControllerRuntime, ReconcilerLemmas

(* The resources of a kind, as the lemmas need them: what the controller   *)
(* and the API server do to a status leads from resources to resources.    *)
IsKind(resources, statuses, deps) ==
    /\ \A r \in resources : r.exists \in BOOLEAN /\ r.status \in statuses
    /\ \A r \in resources, s \in statuses : [r EXCEPT !.status = s] \in resources
    /\ \A r \in resources :
        [r EXCEPT !.status.conds = InitializeConditions(@, deps)] \in resources

(* RuntimeTypeOK, and a reconcile that is running has its copies.          *)
RuntimeInv(resources, steps) ==
    /\ RuntimeTypeOK(resources, steps)
    /\ pc # "idle" => obj \in resources /\ orig \in resources

(* Paying for a disturbance keeps the budget in range.                     *)
LEMMA DisturbType ==
    ASSUME budget \in 0 .. MaxDisturbances, NEW kind, Disturb(kind)
    PROVE  budget' \in 0 .. MaxDisturbances
BY MaxDisturbancesAssumption DEF Disturb

(* As above, for a step that takes a fault or not.                         *)
LEMMA PaysType ==
    ASSUME budget \in 0 .. MaxDisturbances, NEW fault, Pays(fault)
    PROVE  budget' \in 0 .. MaxDisturbances
BY DisturbType DEF Pays

(* The first state, with a resource and no copy of it.                     *)
LEMMA RuntimeInitType ==
    ASSUME NEW resources, NEW steps, NEW first \in resources, RuntimeInit(first)
    PROVE  RuntimeInv(resources, steps)
<1>1. MaxDisturbances \in 0 .. MaxDisturbances
  BY MaxDisturbancesAssumption
<1> QED
  BY <1>1 DEF RuntimeInit, RuntimeInv, RuntimeTypeOK

(* A step of the reconcile that leaves the API server alone.               *)
LEMMA LocalStepType ==
    ASSUME NEW resources, NEW steps, RuntimeInv(resources, steps),
           UNCHANGED <<server, objFresh, orig>>, pc # "idle",
           queued' \in BOOLEAN, requeue' \in BOOLEAN,
           pc' \in steps \cup {"status"}, obj' \in resources,
           budget' \in 0 .. MaxDisturbances
    PROVE  RuntimeInv(resources, steps)'
BY DEF RuntimeInv, RuntimeTypeOK, server

(* The start of a reconcile.                                               *)
LEMMA StartReconcileType ==
    ASSUME NEW resources, NEW statuses, NEW steps, NEW step \in steps, NEW deps,
           IsKind(resources, statuses, deps), RuntimeInv(resources, steps),
           StartReconcile(step, deps)
    PROVE  RuntimeInv(resources, steps)'
<1>1. CASE cached.exists
  <2>1. cached \in resources
    BY <1>1 DEF RuntimeInv, RuntimeTypeOK, NoCopy
  <2>2. obj' \in resources /\ orig' \in resources /\ pc' = step
    BY <1>1, <2>1 DEF StartReconcile, Continue, Goto, IsKind
  <2> QED
    BY <1>1, <2>1, <2>2 DEF StartReconcile, Continue, RuntimeInv, RuntimeTypeOK, server
<1>2. CASE ~cached.exists
  BY <1>2 DEF StartReconcile, RuntimeInv, RuntimeTypeOK, server, local
<1> QED
  BY <1>1, <1>2

(* r.Update, then return: the server, the copy and their versions.         *)
LEMMA UpdateResourceType ==
    ASSUME NEW resources, NEW steps, RuntimeInv(resources, steps), pc # "idle",
           NEW STATE next, next \in resources, NEW blank,
           DecodeInto(obj, next, blank) \in resources,
           UpdateResource(next, blank), UNCHANGED <<queued, orig>>
    PROVE  /\ RuntimeInv(resources, steps)'
           /\ pc' = "status"
<1>1. /\ obj \in resources /\ orig \in resources
      /\ res \in resources
      /\ cacheFresh \in BOOLEAN /\ objFresh \in BOOLEAN /\ queued \in BOOLEAN
      /\ cached \in resources \cup {NoCopy}
      /\ old \in resources \cup {NoCopy}
      /\ budget \in 0 .. MaxDisturbances
  BY DEF RuntimeInv, RuntimeTypeOK
<1>2. /\ pc' = "status" /\ requeue' = TRUE /\ obj' \in resources
      /\ res' \in {res, next} /\ cached' = cached /\ old' = old
      /\ cacheFresh' \in BOOLEAN /\ objFresh' \in BOOLEAN
  BY <1>1 DEF UpdateResource, Return, Goto, server
<1>3. budget' \in 0 .. MaxDisturbances
  BY <1>1, DisturbType DEF UpdateResource
<1> QED
  BY <1>1, <1>2, <1>3 DEF RuntimeInv, RuntimeTypeOK

(* The deferred status update.                                             *)
LEMMA UpdateStatusType ==
    ASSUME NEW resources, NEW statuses, NEW steps, NEW deps,
           IsKind(resources, statuses, deps), RuntimeInv(resources, steps),
           UpdateStatus
    PROVE  RuntimeInv(resources, steps)'
<1>1. /\ obj \in resources /\ res \in resources
      /\ cacheFresh \in BOOLEAN /\ queued \in BOOLEAN /\ requeue \in BOOLEAN
      /\ cached \in resources \cup {NoCopy}
      /\ old \in resources \cup {NoCopy}
      /\ budget \in 0 .. MaxDisturbances
  BY DEF UpdateStatus, RuntimeInv, RuntimeTypeOK
<1>2. [res EXCEPT !.status = obj.status] \in resources
  BY <1>1 DEF IsKind
<1>3. /\ res' \in {res, [res EXCEPT !.status = obj.status]}
      /\ cached' = cached /\ old' = old
      /\ cacheFresh' \in BOOLEAN /\ queued' \in BOOLEAN
  BY <1>1 DEF UpdateStatus, server
<1>4. budget' \in 0 .. MaxDisturbances
  BY <1>1, DisturbType DEF UpdateStatus
<1> QED
  BY <1>1, <1>2, <1>3, <1>4 DEF UpdateStatus, Forget, RuntimeInv, RuntimeTypeOK

(* What a restart lists: the server's version, or a copy that was cached.  *)
LEMMA ListedCopy ==
    ASSUME Crash
    PROVE  /\ cached' \in {res, cached, old}
           /\ cacheFresh' \in {TRUE, FALSE, cacheFresh}
           /\ cacheFresh' => cached' = res \/ (cacheFresh /\ cached' = cached)
           /\ queued' = cached'.exists
<1>1. PICK l \in List : cached' = l[1] /\ cacheFresh' = l[2] /\ queued' = l[1].exists
  BY DEF Crash
<1>2. l = <<res, TRUE>> \/ l = <<cached, cacheFresh>> \/ l = <<old, FALSE>>
  BY <1>1 DEF List
<1>3. CASE l = <<res, TRUE>>
  BY <1>1, <1>3
<1>4. CASE l = <<cached, cacheFresh>>
  BY <1>1, <1>4
<1>5. CASE l = <<old, FALSE>>
  BY <1>1, <1>5
<1> QED
  BY <1>2, <1>3, <1>4, <1>5

(* A restart.                                                              *)
LEMMA CrashType ==
    ASSUME NEW resources, NEW statuses, NEW steps, NEW deps,
           IsKind(resources, statuses, deps), RuntimeInv(resources, steps), Crash
    PROVE  RuntimeInv(resources, steps)'
<1>1. /\ res \in resources
      /\ cached \in resources \cup {NoCopy}
      /\ old \in resources \cup {NoCopy}
      /\ cacheFresh \in BOOLEAN
      /\ budget \in 0 .. MaxDisturbances
  BY DEF RuntimeInv, RuntimeTypeOK
<1>2. \A r \in resources \cup {NoCopy} : r.exists \in BOOLEAN
  <2>1. \A r \in resources : r.exists \in BOOLEAN
    BY DEF IsKind
  <2>2. NoCopy.exists = FALSE
    BY DEF NoCopy
  <2> QED
    BY <2>1, <2>2
<1>3. budget' \in 0 .. MaxDisturbances
  BY <1>1, DisturbType DEF Crash
<1>4. /\ cached' \in resources \cup {NoCopy}
      /\ cacheFresh' \in BOOLEAN
      /\ queued' \in BOOLEAN
  BY <1>1, <1>2, ListedCopy
<1> QED
  BY <1>1, <1>3, <1>4 DEF Crash, Forget, RuntimeInv, RuntimeTypeOK

(* An event of the resource, and the periodic resync.                      *)
LEMMA InformerType ==
    ASSUME NEW resources, NEW steps, RuntimeInv(resources, steps),
           CacheSync \/ Resync
    PROVE  RuntimeInv(resources, steps)'
BY DEF CacheSync, Resync, RuntimeInv, RuntimeTypeOK, server, local

(* An event of another resource.                                           *)
LEMMA EnqueueIfType ==
    ASSUME NEW resources, NEW steps, RuntimeInv(resources, steps),
           NEW STATE mapped, EnqueueIf(mapped), budget' \in 0 .. MaxDisturbances
    PROVE  RuntimeInv(resources, steps)'
BY DEF EnqueueIf, RuntimeInv, RuntimeTypeOK, server, local

(* A user's write.                                                         *)
LEMMA ForeignWriteType ==
    ASSUME NEW resources, NEW steps, RuntimeInv(resources, steps),
           NEW STATE next, next \in resources, ForeignWrite(next),
           budget' \in 0 .. MaxDisturbances
    PROVE  RuntimeInv(resources, steps)'
BY DEF ForeignWrite, RuntimeInv, RuntimeTypeOK
=============================================================================
