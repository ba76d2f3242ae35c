------------------------------ MODULE MCClaims ------------------------------
(***************************************************************************)
(* Values for Claims' constants: one Account spec for each way its parts   *)
(* are converted, and every User spec of a few values for each part.       *)
(***************************************************************************)
EXTENDS Claims

AllOf(fields, v) == [f \in fields |-> v]

Limited(v, wildcards) ==
    [nats |-> AllOf(NatsFields, v), account |-> AllOf(AccountFields, v),
     wildcards |-> wildcards, disallowBearer |-> TRUE, jetStream |-> 1]

Import(subject, type) == [subject |-> subject, type |-> type]

Export(subject, type) ==
    [subject |-> subject, type |-> type, response |-> "", latency |-> Nil]

Account(limits, exports, imports) ==
    [kind |-> "Account", limits |-> limits, exports |-> exports, imports |-> imports,
     noExports |-> exports = {}]

AccountResources ==
    {Account(Nil, {}, {}),
     [Account(Nil, {}, {}) EXCEPT !.noExports = FALSE],
     Account(Limited(Nil, Nil), {Export(1, "stream")}, {Import(1, "service")}),
     Account([Limited(0, FALSE) EXCEPT !.nats["data"] = Nil, !.account["conn"] = 1],
             {Export(1, "service"), Export(2, "stream")}, {Import(1, "stream")}),
     Account(Nil, {Export(1, "stream"), Export(2, "Stream")}, {Import(2, "Stream")})}

UserResources ==
    [kind : {"User"},
     limits : {AllOf(NatsFields, Nil), AllOf(NatsFields, 0),
               [AllOf(NatsFields, 1) EXCEPT !["subs"] = Nil]},
     scope : {"some", "all"}, bearer : {TRUE, FALSE, Nil},
     permissions : {Nil, [pub |-> "some", sub |-> "all", resp |-> Nil],
                    [pub |-> "all", sub |-> "some", resp |-> 1]},
     direct : BOOLEAN]

AllResources == AccountResources \cup UserResources

(* The order of SigningKeys and of key pairs plays no part.                *)
Symmetry == Permutations(Names) \cup Permutations(KeyPairs)
=============================================================================
