------------------------------- MODULE Claims -------------------------------
(***************************************************************************)
(* From the spec of an Account or a User to the claims of its JWT          *)
(* (pkg/nsc/createaccount.go, createuser.go, conversions.go), and the      *)
(* comparison that decides whether the JWT in the Secret is out of date    *)
(* (equality.go).  Operators are in OperatorController: their claims copy  *)
(* fields and convert nothing.                                             *)
(*                                                                         *)
(* Names and tokens are abstracted away.  Exports and imports are sets:    *)
(* Encode sorts them by their subjects.  A nil pointer of the spec is Nil; *)
(* the claims have no nil, they have NoLimit.                              *)
(***************************************************************************)
EXTENDS SigningKeyLists

CONSTANTS
    Nil,            \* a nil pointer
    Resources       \* the specs that Edit chooses from

VARIABLES
    res,            \* the spec
    jwt,            \* the JWT Secret
    fresh           \* nothing has changed since the last reconcile

vars == <<lists, res, jwt, fresh>>

NoLimit == -1

NatsFields == {"subs", "data", "payload"}
AccountFields == {"imports", "exports", "conn", "leaf"}
Limits == Int \cup {Nil}

(* OperatorLimits.  jetStream: its numbers are not pointers, 0 disables.   *)
AccountLimits ==
    [nats : [NatsFields -> Limits], account : [AccountFields -> Limits],
     wildcards : BOOLEAN \cup {Nil}, disallowBearer : BOOLEAN, jetStream : Int]

(* AccountExport and AccountImport.  "Stream" stands for a type that NATS  *)
(* does not know, which the API server accepts.                            *)
Types == {"stream", "service", "Stream"}

Exports ==
    [subject : Int, type : Types, latency : Int \cup {Nil},
     response : {"singleton", "stream", "chunked", "", "Chunked"}]

Imports == [subject : Int, type : Types]

(* noExports: .spec.exports is absent rather than an empty list.           *)
AccountSpecs ==
    [kind : {"Account"}, limits : AccountLimits \cup {Nil},
     exports : SUBSET Exports, imports : SUBSET Imports, noExports : BOOLEAN]

(* Permissions: pub and sub stand for the lists of subjects.  scope: src,  *)
(* times and locale.  direct: the issuer is the Account itself, not one of *)
(* its SigningKeys.                                                        *)
UserPermissions == [pub : {"some", "all"}, sub : {"some", "all"}, resp : Int \cup {Nil}]

UserSpecs ==
    [kind : {"User"}, limits : [NatsFields -> Limits], scope : {"some", "all"},
     bearer : BOOLEAN \cup {Nil}, permissions : UserPermissions \cup {Nil},
     direct : BOOLEAN]

ASSUME NilAssumption == Nil \notin Int \cup BOOLEAN

ASSUME ResourcesAssumption ==
    \A r \in Resources : r \in AccountSpecs \/ r \in UserSpecs

-----------------------------------------------------------------------------
GetDefaultFromPtr(v, def) == IF v = Nil THEN def ELSE v

(* Mutant: a limit of zero is taken for one that is not set.               *)
ConvertNonZeroLimits(in) ==
    [f \in NatsFields |-> IF in[f] \in {Nil, 0} THEN NoLimit ELSE in[f]]

ConvertToNatsLimits(in) ==
    [f \in NatsFields |-> GetDefaultFromPtr(in[f], NoLimit)]

(* ConvertToAccountLimits, with the other parts of jwt.OperatorLimits.     *)
ConvertToAccountLimits(in) ==
    [nats |-> ConvertToNatsLimits(in.nats),
     account |-> [f \in AccountFields |-> GetDefaultFromPtr(in.account[f], NoLimit)],
     wildcards |-> GetDefaultFromPtr(in.wildcards, TRUE),
     disallowBearer |-> in.disallowBearer, jetStream |-> in.jetStream]

(* What jwt.NewAccountClaims and jwt.NewUserClaims start from.             *)
DefaultNatsLimits == [f \in NatsFields |-> NoLimit]

DefaultAccountLimits ==
    [nats |-> DefaultNatsLimits, account |-> [f \in AccountFields |-> NoLimit],
     wildcards |-> TRUE, disallowBearer |-> FALSE, jetStream |-> 0]

ConvertToNATSExportType(t) == IF t \in {"stream", "service"} THEN t ELSE "unknown"

ConvertToNATSResponseType(t) ==
    IF t \in {"singleton", "stream", "chunked"} THEN t ELSE ""

ConvertToNATSExports(exports) ==
    {[e EXCEPT !.type = ConvertToNATSExportType(@),
               !.response = ConvertToNATSResponseType(@)] : e \in exports}

ConvertToNATSImports(imports) ==
    {[i EXCEPT !.type = ConvertToNATSExportType(@)] : i \in imports}

CreateAccountClaims(spec, list) ==
    [kind |-> "Account",
     limits |-> IF spec.limits = Nil THEN DefaultAccountLimits
                ELSE ConvertToAccountLimits(spec.limits),
     exports |-> ConvertToNATSExports(spec.exports),
     imports |-> ConvertToNATSImports(spec.imports),
     signingKeys |-> {list[i].keyPair : i \in DOMAIN list}]

(* The limits and the bearer token first, then, when there are             *)
(* permissions, a new jwt.UserPermissionLimits in their place.             *)
UserPermissionLimits(spec) ==
    IF spec.permissions = Nil
    THEN [limits |-> ConvertToNatsLimits(spec.limits), scope |-> spec.scope,
          bearer |-> GetDefaultFromPtr(spec.bearer, FALSE),
          pub |-> "all", sub |-> "all", resp |-> Nil]
    ELSE [limits |-> [f \in NatsFields |-> 0], scope |-> "all", bearer |-> FALSE,
          pub |-> spec.permissions.pub, sub |-> spec.permissions.sub,
          resp |-> spec.permissions.resp]

(* Mutant: the Account is left out of the claims.                          *)
OmitIssuerAccount(direct) == "none"

(* The issuer_account claim, set when the key that signs is not the        *)
(* Account's own.                                                          *)
IssuerAccount(direct) == IF direct THEN "none" ELSE "account"

CreateUserClaims(spec) ==
    [kind |-> "User", grant |-> UserPermissionLimits(spec),
     issuer |-> IF spec.direct THEN "account" ELSE "signingKey",
     issuerAccount |-> IssuerAccount(spec.direct)]

CreateClaims(spec, list) ==
    IF spec.kind = "Account" THEN CreateAccountClaims(spec, list)
    ELSE CreateUserClaims(spec)

-----------------------------------------------------------------------------
(* The slices and maps of an Account's claims, of which an empty one may   *)
(* be nil.                                                                 *)
Parts == {"exports", "imports", "signingKeys"}

EmptyParts(claims) == {p \in Parts : claims.kind = "Account" /\ claims[p] = {}}

NoJWT == [iat |-> 0, nils |-> {}, claims |-> [kind |-> "none"]]

(* The claims that a reconcile wants now: their time is not that of the    *)
(* last ones.  Of the empty parts, the imports are nil (a nil slice to     *)
(* which nothing is added), the exports when the spec has none, and the    *)
(* map of signing keys never.                                              *)
WantClaims(spec, list) ==
    LET claims == CreateClaims(spec, list)
        nils == {p \in EmptyParts(claims) :
                    \/ p = "imports"
                    \/ p = "exports" /\ spec.noExports}
    IN  [iat |-> 1 - jwt.iat, nils |-> nils, claims |-> claims]

(* The JWT as it is decoded again: its JSON omits every empty part.        *)
Encode(want) == [want EXCEPT !.nils = EmptyParts(want.claims)]

(* Mutant: reflect.DeepEqual tells nil from empty.                         *)
ReflectDeepEqual(got, want) == got.claims = want.claims /\ got.nils = want.nils

(* Equality: every claim but the time and the id of the JWT, and nil is    *)
(* equal to empty.                                                         *)
Equality(got, want) == got.claims = want.claims

Init ==
    /\ InitLists
    /\ res \in Resources
    /\ jwt = NoJWT
    /\ fresh = FALSE

(* Users edit the spec.                                                    *)
EditSpec ==
    /\ \E r \in Resources : r.kind = res.kind /\ r # res /\ res' = r
    /\ fresh' = FALSE
    /\ UNCHANGED <<lists, jwt>>

(* Only an Account's claims depend on the SigningKeys.                     *)
ChangeSigningKeys ==
    /\ res.kind = "Account"
    /\ ChangeSigningKey
    /\ fresh' = FALSE
    /\ UNCHANGED <<res, jwt>>

(* The part of a reconcile that this module is about: the list of signing  *)
(* keys, then ensureJWTSecretUpToDate with the claims that it wants.       *)
Reconcile ==
    /\ IF res.kind = "Account" THEN EnsureSigningKeysUpdated ELSE UNCHANGED lists
    /\ LET want == WantClaims(res, current')
       IN  jwt' = IF Equality(jwt, want) THEN jwt ELSE Encode(want)
    /\ fresh' = TRUE
    /\ UNCHANGED res

Next == EditSpec \/ ChangeSigningKeys \/ Reconcile

Spec == Init /\ [][Next]_vars

-----------------------------------------------------------------------------
(* The variables hold values of their types, no SigningKey is listed       *)
(* twice, and the claims in the Secret are of the resource's kind.         *)
TypeOK ==
    /\ ListsTypeOK
    /\ res \in Resources
    /\ fresh \in BOOLEAN
    /\ jwt.iat \in {0, 1}
    /\ jwt.nils \subseteq Parts
    /\ jwt.claims.kind \in {"none", res.kind}

(* "so that no-op updates do not trigger an update on the status", "taking *)
(* into account that some fields will always change between reconciles": a *)
(* reconcile that follows another one with nothing changed in between      *)
(* writes neither the list of signing keys nor the JWT Secret, although    *)
(* the list went through a Go map and the JWT through its JSON, which      *)
(* drops what is empty.  Otherwise every write would be the event of the   *)
(* next one, for ever.                                                     *)
IdleReconcileWritesNothing ==
    [][fresh /\ fresh' => UNCHANGED <<current, jwt>>]_vars

(* What a limit of the spec, and one of the claims, lets a client use.     *)
SpecAllows(limit, n) == limit \in {Nil, NoLimit} \/ n <= limit
ClaimsAllow(limit, n) == limit = NoLimit \/ n <= limit

SameLimits(spec, claims, fields) ==
    \A f \in fields, n \in 0 .. 2 : SpecAllows(spec[f], n) <=> ClaimsAllow(claims[f], n)

(* The claims have the spec's subjects, each of the declared type; one     *)
(* that is declared to be something else is neither stream nor service.    *)
SameSubjects(spec, claims) ==
    /\ {s.subject : s \in spec} = {c.subject : c \in claims}
    /\ \A t \in {"stream", "service"} :
            {s.subject : s \in {e \in spec : e.type = t}} =
                {c.subject : c \in {e \in claims : e.type = t}}

(* "Limits is a JWT claim for the Account", and so are its imports and     *)
(* exports, whose type "must be one of "stream" or "service"": after a     *)
(* reconcile the JWT of an Account grants what its spec and status say,    *)
(* whether it was written or found to be up to date.  An absent limit      *)
(* limits nothing, one of zero forbids everything, and nothing is open to  *)
(* other Accounts as a stream or a service that was not declared as one.   *)
AccountJWTGrantsSpec ==
    fresh /\ res.kind = "Account" =>
        LET got == jwt.claims
        IN  /\ IF res.limits = Nil THEN got.limits = DefaultAccountLimits
               ELSE /\ SameLimits(res.limits.nats, got.limits.nats, NatsFields)
                    /\ SameLimits(res.limits.account, got.limits.account, AccountFields)
                    /\ got.limits.wildcards <=> res.limits.wildcards # FALSE
            /\ SameSubjects(res.exports, got.exports)
            /\ SameSubjects(res.imports, got.imports)
            /\ got.signingKeys = {e.keyPair : e \in NextSKsByName(sks)}

(* "if the issuer is a signing key and not a direct account, we must set   *)
(* the issuer_account field": the Account that NATS finds for a User's JWT *)
(* is the User's, whoever signed it, and the JWT has the permissions of    *)
(* the spec.                                                               *)
UserJWTBelongsToAccount ==
    fresh /\ res.kind = "User" =>
        LET got == jwt.claims
        IN  /\ "account" = IF got.issuerAccount # "none" THEN got.issuerAccount
                           ELSE got.issuer
            /\ res.permissions # Nil =>
                /\ got.grant.pub = res.permissions.pub
                /\ got.grant.sub = res.permissions.sub
                /\ got.grant.resp = res.permissions.resp

(* "Limits is a JWT claim for the User", "BearerToken is a JWT claim for   *)
(* the User": the JWT that a reconcile leaves has the limits and the       *)
(* bearer token of the spec.                                               *)
UserJWTGrantsSpec ==
    fresh /\ res.kind = "User" =>
        LET grant == jwt.claims.grant
        IN  /\ SameLimits(res.limits, grant.limits, NatsFields)
            /\ grant.scope = res.scope
            /\ grant.bearer <=> res.bearer = TRUE
=============================================================================
