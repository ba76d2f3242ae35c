----------------------- MODULE MCSigningKeyController -----------------------
(***************************************************************************)
(* Values for SigningKeyController's constants.                            *)
(***************************************************************************)
EXTENDS SigningKeyController

(* A .spec with an owner of a known apiVersion.                            *)
OwnedBy(kind, secret) ==
    [kind |-> kind, name |-> "a", known |-> TRUE, secret |-> secret]

(* Edits take the SigningKey from an Account to an Operator of the same    *)
(* name and another seed Secret, by way of a kind that has no key pairs    *)
(* and an apiVersion that is not in the scheme.                            *)
MovedByEdits ==
    <<OwnedBy("Account", "s1"), OwnedBy("other", "s2"),
      [OwnedBy("Operator", "s2") EXCEPT !.known = FALSE], OwnedBy("Operator", "s2")>>
=============================================================================
