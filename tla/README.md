# A TLA+ development of nats-account-operator

nats-account-operator is a Kubernetes operator that keeps four custom resources
(`Operator`, `Account`, `SigningKey`, `User`) in step with NATS: it generates key
pairs into Secrets, signs JWTs, and pushes the account JWTs to a NATS account
server. This directory models it in TLA+, checks the models with TLC and proves
properties of them with TLAPS. `PROJECT.json` maps every definition to the source
lines it models, and lists the runs, mutants, hazards, findings and theorems.

## 1. Inventory

| Component | State it keeps | Operations | Interacts with |
|---|---|---|---|
| Condition set (`pkg/apis`) | the conditions of one resource; `Ready` summarises the dependents | InitializeConditions, MarkTrue/False/Unknown, ClearCondition | every lifecycle method; readers look at `Ready` alone |
| Reconcile errors (`errors.go`) | – | terminal, temporary and plain errors; failed or unknown causes; AsResult, MarkCondition | every reconciler |
| Base reconciler (`base_controller.go`) | seed and JWT Secrets | reconcileSeedSecret, ensureJWTSecretUpToDate, resolveIssuer, resolveSigningKeyOwner, loadIssuerSeed | API server; used by Operator, Account, User |
| Account reconciler | Account (finalizer, label, status), JWT on NATS | Reconcile in nine steps, finalizeAccount, deferred status update | issuer, Operator, SigningKeys, system account, NATS; watches of Accounts, Secrets, Operators, SigningKeys |
| Signing key list (`helpers/signingkeys.go`) | `.status.signingKeys` | NextSigningKeys | Account reconciler, claims |
| NATS client (`pkg/nsc/client.go`, `systemaccount.go`) | JWTs on the account server | Push, Delete, Load of the system account's seed | Account reconciler |
| Claims (`pkg/nsc/create*.go`, `conversions.go`, `equality.go`) | – | spec to JWT claims, and their equality | all reconcilers |
| Operator reconciler | Operator status, seed and JWT Secrets | Reconcile in four steps | system Account, SigningKeys |
| SigningKey reconciler | SigningKey status and label, seed Secret | Reconcile in three steps | owner Operator or Account |
| User reconciler | User status and label, seed, JWT and credentials Secrets | Reconcile in eight steps | issuer Account or SigningKey, Account, Operator |
| Manager, generated clients, CRDs | – | wiring | – |

What is hard here is not a function but a reconcile among others. A reconcile
starts from a cached, possibly stale copy, makes a dozen calls any of which can
fail, conflict, or succeed without its answer arriving, and ends with a status
update that may fail on its own after its side effects have happened. Users edit
and delete between any two calls; the process can die between any two calls; and
whether a stuck resource is ever looked at again depends on who is enqueued by
which event. Per component, correct means:

- conditions: `Ready` is exactly the summary of the dependents after any calls;
- Account: nothing reaches NATS that nobody will clean up, that an unpublished key
  has signed, or that belongs to an Account that is gone; a Ready Account that is left
  alone has its current claims on NATS; a True condition comes with the reference its
  readers dereference; the Account converges once its dependencies do; a deleted Account
  goes away;
- claims: a JWT grants what the spec says, and a reconcile with nothing to do writes none;
- signing keys: the list is the live keys, in a stable order;
- SigningKey: the key that is published is the one that is stored, for the owner that
  the spec names;
- User: the credentials hold a JWT and a seed that belong together, signed by a key
  that the issuer has published, for the current spec in the end, and in any case when
  the User is Ready and left alone;
- Operator: its JWT is the one of its status, and the waiting of Operator, system
  Account and NATS for each other ends.

## 2. Modules

**Conditions and errors.** `ConditionSet` (operators) and `ConditionManager` (a
resource's conditions under any sequence of calls) model `pkg/apis/condition_set.go`. A
condition is its status; reasons, messages, severities and times are left out.
`ConditionManager` also starts from the status an older release with fewer dependents
could have written, because `InitializeConditions` reads missing dependents of a Ready
resource as True. `ReconcileErrors` models `errors.go`: what a step returns is a class
(terminal, temporary, plain) and a cause (failed, unknown, other); `AsResult` says
whether the request is queued again, `MarkCondition` which mark is set.

**Shared steps.** `BaseReconciler` gives each shared step of `base_controller.go` as the
set of *outcomes* it can have on a state of the cluster: the Secret it leaves, what it
returns, and whether it met a fault of the API server. A write can succeed, be refused,
or be carried out with its answer lost. The calls of one such step are taken together,
except that a JWT Secret may be deleted between its Get and its Update
(`RecreateJWTSecret`, fault `"jwtGone"`). `TamperedJWTSecrets` is what users may put in
the place of a JWT Secret, a copy that nobody owns included (`"unownedJWT"`). The
Account reconciler has a `loadIssuerSeed` of its own, which swallows its errors; the
User reconciler uses the shared one (`IssuerSeedError`).

**The runtime.** `ControllerRuntime` is one reconciler and one resource between the API
server and the informer cache: the variables below, the start of a reconcile, the
deferred status update, metadata updates, crashes, events and the resync.
`OperatorController` and `UserController` extend it. `AccountController` and
`SigningKeyController` have the same parts under the names of their own sources.

| Variable | Stands for |
|---|---|
| `res` (`acc`, `sk`), `cached`, `cacheFresh` | the resource in the API server and in the informer cache |
| `old` | the version that was cached before, which a restart may list (`"oldList"`) |
| `queued` | the key is in the workqueue, or its delayed requeue is pending |
| `pc`, `obj`, `objFresh`, `orig`, `requeue` | the running reconcile: its next step, its copy, `originalStatus`, its result so far |
| `budget` | disturbances left |

Resource versions are not stored: a write succeeds exactly when the copy is of the
latest version, which `objFresh` records. `DecodeInto` models what an `Update` does to
the copy: the answer is decoded over it, and fields that the server omits keep the
copy's values. After a restart the informer lists anew (`List`, `ListAccounts`): it gets
the latest version, or the one that the last process had cached, because client-go lists
at `resourceVersion=0` and the API server answers from a cache of its own; with the
hazard `"oldList"` it may also get the version that was cached before that one, so that
the cache goes back; that it goes back by one version is a bound of the model.
`ListsAdvance` says that the hazard is not there. Of a spec only the generation matters,
except that `IssuerOf` or `SpecOf` says what each generation refers to. The API server,
cache and workqueue are external and modelled from their use.

`Hazards` is the set of kinds of disturbance that a run allows (`"edit"`, `"seed"`,
`"rotate"`, `"apiFault"`, `"crash"`, ...) and `MaxDisturbances` how many of them happen. An
action that needs a hazard says so with `Disturb(kind)`.

**`AccountController`** is one Account under its reconciler: the seed Secret `seed`, the
JWT Secret `jwt`, the account JWTs on the server, `nats`, by key, the issuer's key `signer`
that the running reconcile loaded, and `env`, what the Account depends on (issuer, its
published key and its seed, selectors, SigningKeys, Operator, system account). Claims
are (key, generation, issuer key, signing keys), so that two different specs are never
confused. There is one action per step of `Reconcile` and `finalizeAccount`. Issuer and
Operator are one step: both are reads, nothing is written in between, and what they
read is one state of the cache. `PanicInFinalize` is a nil dereference;
controller-runtime v0.17 does not recover panics by default, so the process restarts.
The environment's actions each come with the watch that the code sets up for it, or
without one where it has none.

**`AccountPublication`** is what the Account reconciler promises about NATS, in six
actions: an Account is edited, guarded by its finalizer, published at a generation that
does not go back, deleted, withdrawn, released. `AccountController` implements it
(`ImplementsPublication`; the mapping forgets Secrets, conditions, caches and copies).

**`UserController`** adds to the runtime the three Secrets, and a variable for each value
that an early step of a reconcile reads and a later one uses: the seed (`seedKey`), the
issuer's public key (`issuerKey`) and the JWT (`ujwt`). The issuer is an Account or a
SigningKey. SigningKeys are not watched; `news` is the event of the Account that
carries the change of its list of signing keys to the User.

**`OperatorController`** adds the seed and JWT Secrets and the SigningKeys of the
Operator. Its actions take the system Account as a parameter. `OperatorAndCluster` gives
them one that may change in every way; **`TrustChain`** gives them the Account of an
`AccountController` (an `INSTANCE` whose `env` is the Operator's state), with a NATS
deployment that runs with the Operator's JWT (`trusted`) and takes no push from anybody
but the system account it names. The two reconcilers share the process, so a crash
stops both.

**`SigningKeyController`** is one SigningKey under its reconciler. `secrets` are the
Secrets of the namespace: the keys of the seed and public key entries and whether the
SigningKey controls it. `owners` are the Accounts and Operators, with a uid that changes
when one is created again, and a selector. Get and Create of the seed Secret are two
steps, because users create that Secret, too. The garbage collector is external.

**`Claims`** converts specs of Accounts and Users to claims and compares them with the
JWT in the Secret, through edits and changes of the SigningKeys, whose list
(`SigningKeyLists`: `NextSigningKeys` as the set of lists it can return, one per
iteration order of its map) ends up in the claims. A JWT has a time of issue that
`Equality` has to ignore, and what is decoded from the Secret is not what was encoded:
JSON drops the empty lists and maps, which come back nil. `nils` records which parts are
nil, in the claims that are wanted (`WantClaims`: an empty list of imports always, of
exports when the spec has none, the signing keys never) and after the round trip
(`Encode`). `CreateOperatorClaims` only copies fields and is in `OperatorController`.

The `MC` modules give values to constants that a `.cfg` cannot write. The `...Proofs`
modules and `ReconcilerLemmas` hold the proofs (section 4). Each specification is
`Spec`, without fairness, for the theorems, and `FairSpec` or the like for the runs that
check liveness.

## 3. Runs

| Run | Shows |
|---|---|
| `condition_manager` | `Ready` is the summary of four dependents and one informational condition, whatever is called in whatever order |
| `claims` | the JWT grants what the spec says and belongs to the User's Account; a reconcile with nothing to do writes neither JWT nor list (`IdleReconcileWritesNothing`); no-op updates of the signing keys change nothing, survivors keep their order |
| `account_safety` | the Account's safety properties and the refinement, under edits, deletion, lost, spoilt and foreign Secrets, selectors, a changing issuer seed, API and NATS faults and crashes; a Ready Account that is left alone is published (`QuietReadyIsPublished`) |
| `account_converges` | the Account gets Ready, with its current claims on NATS signed by the issuer's current key, and stays so, through new issuers and issuer keys, SigningKeys, faults and restarts that list an old version |
| `account_deletion` | a deleted Account goes away, through faults, restarts and those panics whose cause goes away |
| `signing_key` | references, published key and owner stay right while the SigningKey moves between owners of the same name, and it gets Ready for the owner of the current uid |
| `user` | the credentials fit together, are signed by a published key, and end up current, also after restarts that list an old version; a User that is Ready and left alone is right |
| `operator` | an Operator that is Ready and left alone is right, and it converges although its system Account refers to it late or not at all |
| `trust_chain` | `ChainOfTrust`: Operator, system Account and NATS bootstrap from nothing, and again after a lost key pair |

Three runs end in a violation, each of something the code or its docs say:

- `finalize_nil_reference`: "anything from here on out should follow the happy path"
  (account_controller.go:494). One failed read of the seed Secret clears `KeyPair` and
  leaves `JWTPushed` True; deleting the Account then dereferences nil and takes the
  manager down, after every restart again until the Operator or system account is gone.
- `finalize_skips_pushed`: "JWT not pushed, skipping finalization" (line 489). Deleting
  the Account while its JWT is pushed makes the status update conflict; the push is
  never recorded, and the JWT stays on NATS. No fault is needed.
- `user_limits_lost`: "Limits is a JWT claim for the User", "BearerToken is a JWT claim for
  the User" (user_types.go:54, 58). `CreateUserClaims` overwrites both when the spec has
  permissions.

**Gaps met while modelling** that no run asserts, because the hazard is not in the run's
`Hazards`, where adding it back shows the gap, or because the premise of the property
leaves it out:

- `admits` in `account_converges`, and `widen` in `signing_key`: a resource that its
  owner's selectors rejected never gets the label by which the owner's watch would find
  it, so widening the selectors wakes nobody until the resync;
- `issuerSeed` in `account_converges`: an issuer seed that is deleted and put back as it
  was changes no status, and the Account is not told;
- `foreignSecret` in `signing_key`: a Secret that a user created is not adopted, so nobody
  sees its deletion, although docs/specification.md:275 says that "Missing Secrets will be
  created";
- behaviours outside `NothingIsTerminal` in `user`: terminal errors whose cause is put
  right without an event for the User (the TODO at base_controller.go:353);
- `unownedJWT` in `user`, `operator` or `account_safety`: a JWT Secret with the wanted claims
  that no controller owns is kept without being adopted (base_controller.go:187), so its
  later deletion raises no event, and the resource stays Ready without a JWT Secret;
- `namesake` in `operator`: the SigningKeys of an Account with the Operator's name are
  listed in the Operator's JWT (operator_controller.go:185), but the watch drops their
  events (line 324), so the JWT is not brought up to date;
- `oldList` in `account_safety`: after a restart that lists the Account as it was before its
  deletion, a reconcile pushes the JWT of an Account that is gone
  (`NoPushAfterRemoval`), or an older spec over a newer one (`ImplementsPublication`). The
  push looks at nothing but the copy. The reconcile that the newer version's event
  starts puts the second right, but not the first;
- a panic in finalization whose cause is in the stored status comes back with every
  restart, so that the Account does not go away while the Operator and the system
  account are there: `finalize_nil_reference` shows the state, and the premise of
  `DeletionCompletes` leaves out the behaviours that stay in it;
- `sys` or `operator` in `RecordedPushIsCleanedUp`, and a replaced seed: the JWT stays on
  NATS when the system account cannot be found, or its key pair is no longer the one in
  the status. The property is about neither.

**What a run leaves out.** Each has the hazards of its question. `account_converges` has
no tampering with Secrets:
`account_safety` (`QuietReadyIsPublished`), `user` (`Converges`) and `trust_chain` (a
lost seed) have it. It also has no selectors, no issuer seeds that are lost and no
deletion. Only `account_converges` and `user`, the runs whose properties ask what the
last reconcile leaves behind, have `"oldList"`. The theorems of section 4 that do not
assume `ListsAdvance` hold with it; `DeletionCompletes`, `ChainOfTrust` and the
convergence of Operator and SigningKey are checked without it only.

**Bounds.** `MaxGen` 2 in the Account and Operator runs: one edit, so that an old and a
new spec exist at once; staleness needs two generations and no property
tells a third from the second. `user` and `signing_key` have 3 and 4, because their
generations differ in what they refer to. `MaxKeys` 2: one replacement of the key pair, and
the same for the issuer's (`MaxIssuerKeys`). `MaxDisturbances` 2 or 3: each property is one
that two independent failures could break together, and each violation above takes at
most two. Cache lag, conflicts, and the Account's and SigningKey's edits are free and not
counted. `trust_chain` has one disturbance, after which both resources have to go through
the whole chain again; its two reconcilers interleave at every step. In `signing_key`
one name is shared by an Account and an Operator; `MaxUID` 2 is one recreation of each,
and `MaxKeys` leaves a key pair for every Secret that can be missing, so that the bound
never stops a reconcile (`KeyToSpare`). `claims` has three SigningKeys and two key pairs,
which are symmetric, a few Account specs that between them take every conversion, and
all User specs over nil, zero and one.

**Fairness.** The worker of each controller runs while its queue is not empty, and each
call returns; the watches deliver (`CacheSync`, `AccountEvent`, `OperatorEvent`). Both are
what controller-runtime provides. `PublishIssuerKey`, and the system Account's progress in
`OperatorAndCluster`, are fair because another reconciler of the same manager does them,
and `TrustChain` does without that assumption. `DeployNATS` is the administrator or
configuration reload that runs NATS with the Operator's JWT; without it nothing can be
pushed. Nothing is assumed of users, faults, crashes, or of `Resync`, which comes hours
later and would hide every lost wake-up. Back-off and `RequeueAfter` are "eventually". A
call to NATS that never returns would break the first assumption: the client sets no
deadline.

Deadlock is only excused where an object that is gone, or converged with the budget used
up, leaves nothing to do.

## 4. Proofs

Every theorem is for all values of the constants that satisfy the `ASSUME`s: the bounds
are positive, `MaxDisturbances` a natural number, `IssuerOf` and `SpecOf` typed. `SKs`,
`Hazards`, the names of owners and the specs are any sets, the names of the SigningKeys
in `Claims` any finite one, and `Nil` is anything but a number or a Boolean. The values
of section 3 do not appear in the theorems. `SigningKeyController` assumes two things
more: there are at most `MaxKeys` Secrets, so that nkeys is never asked for a key pair
that the model does not have, and `"nil"`, which stands for an absent reference, names
no Secret.

| Property | Theorem | Invariant it needs |
|---|---|---|
| Conditions: `ReadySummarisesDependents` | `ReadyIsSummary` | `Readable` |
| Account: `FinalizerGuardsJWT` | `FinalizerAlwaysGuards` | `LifecycleInv` |
| Account: `NoPushAfterRemoval` (assuming `ListsAdvance`) | `NeverPushedAfterRemoval` | `LifecycleInv`, `AdvanceInv` |
| Account: `ImplementsPublication` (assuming `ListsAdvance`) | `RefinesPublication` | `LifecycleInv`, `AdvanceInv`, `FreshInv` |
| Account: `SignedByPublishedKey` | `AlwaysSignedByPublishedKey` | keys at most the published one |
| Account, SigningKey, User, Operator: `ReadyHasReferences`, `OperatorHasReferences` | `ReadyAlwaysHasReferences`, `OperatorAlwaysHasReferences` | `RefInv` |
| Account: `PushedIsOnNATS` | `PushedIsAlwaysOnNATS` | `PushInv`, `LifecycleInv`, `RefInv` |
| Account: `RecordedPushIsCleanedUp` | `RecordedPushIsAlwaysCleanedUp` | `CleanInv`, `PushInv`, `FreshInv` |
| User: `CredentialsFitTogether`, `SignedByPublishedKey` | `CredentialsAlwaysFitTogether`, `AlwaysSignedByPublishedKey` | `CredInv` |
| Account, User, Operator: `QuietReadyIsPublished`, `QuietReadyIsRight`, `QuietOperatorIsRight` (assuming no `"unownedJWT"`, for the Operator also no `"namesake"`) | `QuietReadyIsAlwaysPublished`, `QuietReadyIsAlwaysRight`, `QuietOperatorIsAlwaysRight` | `QuietInv` |
| SigningKey: `StatusFollowsSpec` | `StatusAlwaysFollowsSpec` | `FollowInv` |
| SigningKey: `PublishedKeyIsStored` | `PublishedKeyIsAlwaysStored` | `QuietInv`, `RefInv` |
| `SigningKeyLists`: `NoOpUpdateIsStable`, `UpdateMergesInOrder` | `NoOpUpdateIsAlwaysStable`, `UpdateAlwaysMergesInOrder` | `ListsInv`, `Kept` |
| `Claims`: `AccountJWTGrantsSpec`, `UserJWTBelongsToAccount`, `IdleReconcileWritesNothing` | `AccountJWTAlwaysGrantsSpec`, `UserJWTAlwaysBelongsToAccount`, `IdleReconcileNeverWrites` | `ClaimsInv`, `ListsInv` |
| each of these modules: `TypeOK` | `TypeCorrect` | `TypeInv` |

`ReconcilerLemmas` is about the operators that the reconcilers are built from, the
condition list and the outcomes of the shared steps, and `ControllerRuntimeProofs`
about what the runtime does to any kind of resource. The proofs of the reconcilers
cite them, and have one step per action.

*Conditions.* `ReadyIsSummary` (`Spec => []ReadySummarisesDependents`) needs, before
initialization, that the list is one some release could have written (`Readable`);
lemmas on each operation do the rest.

*Types.* `TypeOK` is not inductive. `TypeInv` adds that a key is left whenever a seed
Secret is gone, and that the copy has a key pair, and the issuer's key or the system
account is loaded, in every step that makes claims of them. For SigningKeys it counts
the Secrets that are missing (`KeysLeft`), and says that no copy has a public key that
was not generated.

*The finalizer and removal.* `FinalizerGuardsJWT` and `NoPushAfterRemoval` speak of the
server and NATS, but depend on what stale copies can still say. `LifecycleInv` is what
they say whatever a restart lists: a cached finalizer or deletion, also in an old
version, is stored in the server (`FinalizerSeen`, `DeletionSeen`); hence a reconcile past
its first step works on an Account that is guarded, if it exists (`WorksOnGuarded`).
`AdvanceInv` is what they say besides, as long as `ListsAdvance` holds: a guarded
Account does not go away before its deletion is in the cache, since the reconcile that
removes the finalizer started from a copy that showed it, so that a reconcile past its
first step works on an Account that exists (`RemovalSeen`); and no generation on NATS is
ahead of the cache or of the copy worked on (`NatsNotAhead`). The action property follows
from lemmas on what a step can do to `nats` (`NatsChange`, `NatsSteps`).

*Refinement.* `RefinesPublication` rests on the same invariants and assumes
`ListsAdvance`: each action maps to one action of `AccountPublication` or to a stutter,
and `LifecycleInv` and `AdvanceInv` give the guards of `Publish`, `Withdraw` and
`Release`. `FreshInv`, that a copy the server would accept has the server's metadata,
gives those of the metadata.

*Signatures.* `AlwaysSignedByPublishedKey`: the keys in the JWT Secret, in the running
reconcile and on NATS (for a User: in the credentials) are all at most the published
one, which only advances. The issuer's seed Secret may be ahead of its status; the
step that compares them is what keeps such a key out.

*References.* `ReadyHasReferences` holds of the server because `References` holds of
every copy, the cached one and the reconcile's, and is kept by each lifecycle method,
by `InitializeConditions` and by decoding an answer.

*Pushed and cleaned up.* A copy with `JWTPushed` True may be written back long after it
was read, so `PushInv` speaks of all copies, for as long as the Account is not being
deleted; only finalization takes a JWT away, and it runs on a deletion that was seen.
`CleanInv` follows the record through finalization: the finalizer is removed only from a
copy of the latest version, so the record that disappears with the Account is the one
that was acted on. The property, and the theorem, are for an Operator and a system
account that stay reachable, since without them the code gives up on purpose, and
for restarts that do not list an older version (`NATSStays`).

*Credentials.* The seed, the issuer's key and the JWT are read by different steps.
`CredInv` says that they belong together when the credentials are written: the JWT is
for the key pair of the seed that was read, under the issuer's key that was read.

*Quiet resources.* `QuietReadyIsPublished`, `QuietReadyIsRight` and
`QuietOperatorIsRight` are about a resource of which no event is due. Their invariant is
about the reconcile that made it so: while nothing has happened that the reconciler is
not about to be told of (`Settled`), everything that its earlier steps found in order is
still in order, its copy is of the stored version, and it ends with a Ready status and
no retry only when all of it is right. Each action of users, faults and other
controllers therefore has to leave the queue or the cache unsettled; the proof fails for
one that has no watch. That is how the theorems come by their assumptions:
`"foreignSecret"` (`PublishedKeyIsAlwaysStored`) and `"unownedJWT"` are Secrets that are
not owned and so not watched, `"namesake"` a SigningKey whose events the watch drops,
and each breaks its property (section 3). For the Account `Right` reaches to NATS, which
nobody watches and nobody has to, since only the reconcile writes to it. None of these
theorems assumes `ListsAdvance`: a reconcile from an old version may write what is
wrong, but the newer version then has its event still to come.

*Status and spec.* `FollowInv`, for `StatusFollowsSpec`, has to follow a copy through
`reconcileLabels`, whose answer may bring back the status of the server in the middle of
a reconcile: it brings back all of it, and a copy past `ensureOwnerResolved` refers to
the owner of its own spec.

*Lists and claims.* `NextSigningKeys` is a loop over a list of any length. What it has
kept after i turns (`Kept`) is the live entries of the first i names, each once, in the
order of the list; a list that is right already is kept turn by turn as it is
(`NoOpFacts`). This is an induction over data, for which the library's theorems, with an
operator as a parameter, are of no use to the provers. `BoundedInduction` replaces them:
the numbers that have the property are a set, and finite sets are well-founded under
inclusion, a fact that the library states without such a parameter. The same lemma
shows that the recursive function of the model has a value (`KeepExistingUnfold`). The
rest is an invariant: after a reconcile the JWT has the claims of the spec and of the
list, whether it was written or found to have them (`ClaimsInv`). The two together
give `IdleReconcileNeverWrites`: the list is as it was, so the claims that are wanted are
those in the Secret, and `Equality` overlooks their time and what JSON drops.

**Not proved:**

- the liveness properties (`Converges` of each reconciler, `DeletionCompletes`,
  `ChainOfTrust`) are only model-checked, since fairness is out of the prover's reach.
  `TrustChain` has no safety property of its own;
- `NoPushAfterRemoval`, `ImplementsPublication`, `PublishedKeyIsStored` and the three
  properties of quiet resources without their assumptions, and the three properties of the runs
  that end in a violation, are false.

## 5. Not modelled

TLS, the NATS connection and the temporary user; events and logs; several resources of
one kind at once, which only share the worker; leader election; the generated clients,
CRDs and `cmd/main.go`; `updateOperatorJWTSigningKeys` and `IsSystemAccount`, which have
no caller; the CA certificate in the credentials. Events of other kinds, the Account's
for a User for instance, reach the queue at once where they have no variable of their
own. `claims.Encode` does not fail. What the seed in a user's Secret is made of is not
looked at by the SigningKey reconciler, and is not in its model. The Operator of a
`signing_key` or `user` run is not reconciled there, and `TrustChain` has no SigningKey
or User. There is no JWT Secret in the initial states; users put one there later. When a
seed is replaced, the JWT of the old key stays on NATS by design of the code; the
properties speak of the key pair in the status.

## 6. Plan

The parts of the system that carry its logic are modelled, and every invariant and
action property that a passing run checks is proved. What is left: the safety half of
`TrustChain`, whose Operator and Account are the proved ones but for the environment
they are in (that its Account is an `AccountController` whose `env` changes as that
module allows, step by step).
