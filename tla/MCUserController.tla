-------------------------- MODULE MCUserController --------------------------
(***************************************************************************)
(* Values for UserController's constants.                                  *)
(***************************************************************************)
EXTENDS UserController

(* The first edit moves the User from a SigningKey of the Account to the   *)
(* Account, the second to a SigningKey that no Account owns.               *)
MovedByEdits == <<"signingKey", "account", "misowned">>
=============================================================================
