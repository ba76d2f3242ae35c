------------------------ MODULE AccountPublication --------------------------
(***************************************************************************)
(* What the Account reconciler promises about the NATS account server,     *)
(* without caches, copies, retries or restarts: an Account's JWT is        *)
(* published only under the protection of its finalizer, never for an      *)
(* older spec than the one that is there, and taken away only from an      *)
(* Account that is on its way out.  AccountController implements it.       *)
(***************************************************************************)
EXTENDS Integers

CONSTANT Keys       \* the key pairs that the Account may have over time

VARIABLES
    life,           \* "active", "deleting" or "gone"
    guarded,        \* the finalizer is in place
    gen,            \* the generation of the spec
    published       \* key pair -> generation of the JWT on NATS, 0 if none

vars == <<life, guarded, gen, published>>

Init ==
    /\ life = "active"
    /\ guarded = FALSE
    /\ gen = 1
    /\ published = [k \in Keys |-> 0]

Edit ==
    /\ life = "active"
    /\ gen' = gen + 1
    /\ UNCHANGED <<life, guarded, published>>

Guard ==
    /\ life = "active"
    /\ guarded' = TRUE
    /\ UNCHANGED <<life, gen, published>>

(* A reconcile that began before the deletion may still publish.           *)
Publish ==
    /\ guarded
    /\ \E k \in Keys : \E g \in published[k] .. gen :
            published' = [published EXCEPT ![k] = g]
    /\ UNCHANGED <<life, guarded, gen>>

(* Without the finalizer, a deletion takes effect at once.                 *)
Delete ==
    /\ life = "active"
    /\ life' = IF guarded THEN "deleting" ELSE "gone"
    /\ UNCHANGED <<guarded, gen, published>>

(* A finalization may be repeated after the Account is gone.               *)
Withdraw ==
    /\ life # "active"
    /\ \E k \in Keys : published' = [published EXCEPT ![k] = 0]
    /\ UNCHANGED <<life, guarded, gen>>

Release ==
    /\ life = "deleting"
    /\ life' = "gone"
    /\ guarded' = FALSE
    /\ UNCHANGED <<gen, published>>

Next == Edit \/ Guard \/ Publish \/ Delete \/ Withdraw \/ Release

Spec == Init /\ [][Next]_vars
=============================================================================
