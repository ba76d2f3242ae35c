------------------------ MODULE MCAccountController -------------------------
(***************************************************************************)
(* Values for AccountController's constants.                               *)
(***************************************************************************)
EXTENDS AccountController

(* The first spec names an unusable issuer, and an edit corrects it.       *)
FixedByEdit == <<"misowned", "ready">>

BrokenByEdit == <<"ready", "unsupported">>

AlwaysReady == <<"ready", "ready">>

OnlyReady == <<"ready">>
=============================================================================
