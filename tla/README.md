# A verification project for the Lenso Access Control plugins

Access Control keeps, for each *scope* (an opaque `{kind, id}`), a set of roles, the
permissions each role grants, and the subjects each role is bound to. It answers whether a
subject has a permission, lists roles page by page, and lets authenticated administrators
change all of it. The promise that makes it useful is in one sentence of
`crates/lenso-access-control-core/src/storage.rs`: *"Implementations must authorize and
mutate atomically."* Two backends keep that promise by very different means, and this
project is mostly about whether they do.

Paths below are relative to `src/`; `core`, `postgres-plugin`, `d1-plugin` and
`agent-tools-plugin` abbreviate `crates/lenso-access-control-<name>`.

## 1. Inventory

| Component | State | Operations | Hard part | Correct when |
|---|---|---|---|---|
| Store contract (`core/src/storage.rs`, both `migrations/`) | the four tables of each scope | ten calls: `check_permission`, `get_role`, `list_roles`, `list_subject_roles`, `bootstrap_scope`, `create_role`, `set_role_permissions`, `delete_role`, `assign_role`, `revoke_role` | answers that are lost; long sequences of legal calls | every scope keeps an administrator, the revision names one policy, answers hold at the revision they name |
| PostgreSQL store (`postgres-plugin/src/storage.rs`) | the tables, row locks, one transaction per call | the ten calls, several statements each | interleaving of statements, lock waits, early returns that drop a transaction, COMMITs whose answer is lost | it behaves like atomic calls; every lock is released |
| D1 store (`d1-plugin/src/storage.rs`) | the tables, one shared workspace row, one batch at a time | the ten calls, one batch each | guards that read a row written earlier in the batch; batches whose caller has gone | it behaves like atomic calls; a receipt tells what its batch did; the workspace is left empty |
| Service (`core/src/lib.rs`) | its configuration; it keeps nothing else | admission of callers, actor assertions, validation, cursors, failure mapping | an assertion checked before a wait; fallback arms of the mappings | only entitled requests reach the store; no valid request is called invalid |
| Agent tools (`agent-tools-plugin/src/lib.rs`) | none | `catalog`, `execute` | error mapping | forwards the context unchanged |
| PostgreSQL plugin lifecycle (`postgres-plugin/src/lib.rs`, `operator.rs`) | `prepared`: the pool | `setup`, `activate`, `resolve_secret`, `deactivate` | a secret that is never answered, calls that wait or run when the pool is closed | calls run only on a verified schema and an open pool; activation, deactivation and every wait end |
| D1 plugin lifecycle (`d1-plugin/src/lib.rs`, `host_facilities.rs`, `workers.rs`, `workers/binding.mjs`) | `prepared` flag, binding of the event | `activate`, `deactivate`, `batch` | wrong bindings, an event that ends with a batch in flight | only the verified database is used; nothing enters a closed event and nothing follows its end |
| Conformance vectors (`core/src/conformance.rs`) | none | a sequence of calls both stores are tested with | what others do meanwhile | every assertion holds on both stores in every interleaving |
| Capability crates (`crates/lenso-capability-*`) | none | generated bindings and schemas | - | - |
| Workers qualification (`crates/lenso-access-control-workers-smoke`, `workers/`) | the step of each run | modes, concurrent runs, races | races of whole events on one database | the assertions hold in every order, not only in those a run happens to take |
| Release pipeline (`.github/scripts`, `.github/workflows`) | checkout, report; outside: `main`, candidate runs, registry, tags, releases | gate, archives, plan, publish, postcondition | everything outside moves between check and publication; partial publication and re-runs | what is published is approved and proved; green means released |

Interactions: a caller invokes a plugin through the kernel; the plugin makes a service with
a handle of its current pool or binding; the service admits and validates the request and
makes one call of the Store trait; the store talks to its database. The agent tools call the
service's capabilities through the kernel as any other caller does. Stores of several
processes share nothing but the database.

## 2. Modules

| Module | Models | Kind |
|---|---|---|
| `Policy` | the data: policies, calls, effects, answers, what refuses a call | operators |
| `AccessStore` | the promise of the Store trait: atomic calls, with lost and late answers | abstract specification |
| `PostgresStore` | the PostgreSQL store, one step per SQL statement | implements `AccessStore` |
| `D1Store` | the D1 store, one step per statement of a batch | implements `AccessStore` |
| `Service` | the service's handlers and the agent tools, in front of a store | composed with `AccessStore` |
| `DirectoryWalk` | a caller that walks a listing page by page while the store changes | extends `AccessStore` |
| `PostgresLifecycle` | one plugin instance, its pool and the calls that wait for it | extends `PostgresStore` |
| `D1Events` | the events of a Workers host with their plugin instances and bindings | extends `D1Store`, implements `AccessStore` |
| `Conformance` | the vectors: calls and what is asserted of the answers | operators |
| `PostgresConformance` | the vectors made on the PostgreSQL store beside another caller | extends `PostgresStore` |
| `D1Qualification` | the Workers qualification: scripts, vectors and races, each run an event | extends `D1Events` |
| `ReleasePipeline` | the release workflow and its scripts | on its own |
| `PolicyLemmas` | facts about the operators of `Policy` | proofs |
| `PostgresStoreProofs`, `ServiceProofs`, `PostgresLifecycleProofs`, `ReleasePipelineProofs` | the inductive invariant and the theorems of the module named | proofs |
| `AccessStoreProofs` | those of `AccessStore` and `DirectoryWalk` | proofs |
| `D1Proofs` | those of `D1Store` and `D1Events` | proofs |
| `ConformanceProofs` | that of `PostgresConformance` | proofs |
| `MCCalls` | bounded constants and the calls the runs make | model values |
| `MCAccessStore`, `MCPostgresStore`, `MCD1Store`, `MCService`, `MCDirectoryWalk`, `MCPostgresLifecycle`, `MCD1Events`, `MCD1Qualification`, `MCReleasePipeline` | instances (`PostgresConformance` is checked without one) | model checking |

### Policy

A policy is the content of the four tables for one scope: the owner
(`bootstrap_subject`), the revision, the roles, which are protected, the grants and the
bindings. Roles are natural numbers so that `<` is the bytewise order of role ids that pages
follow. Left out: role names, time stamps (nothing reads them) and the text of identifiers.
`MaxRevision` stands for the largest value of the revision column, 2^63 - 1; both backends
fail the statement that would pass it.

`Refused` says, as a relation, which domain failure a call meets on a policy; `Effect`,
`Advance` and `ReadAnswer` what an accepted call changes and answers. The two stores do
**not** use `Refused`: each has its own checks in its own order, translated from its own
code, and that they agree is part of what the refinement shows.

### AccessStore

Each call takes effect at one instant between its start and its answer (`Refuse`, `Answer`,
`Keep`, `Change`). `Lose` replaces the answer by a storage error before or after that
instant. `Doubt` and `LateChange` are the case the code's own error text names ("a submitted
write may have committed"): the caller has been told of a failure and the change still comes
through.

### PostgresStore

A slot is a call and its pooled connection. `pc` names the next statement; `lock` is the
row lock on the scope's row of `access_control_scopes`, taken by `SELECT ... FOR UPDATE`
(`LockScope`), by the `INSERT ... ON CONFLICT` of a new scope (`InsertScope`), by the
`SELECT ... FOR UPDATE` of an existing one (`ReadExistingBootstrap`) and by the revision
`UPDATE` (`BumpRevision`). What is behaviour of PostgreSQL and sqlx, not of this
repository, is modelled from how the code uses it:

- READ COMMITTED: a statement reads what is committed when it starts. Listings set REPEATABLE
  READ and read the snapshot of their first statement (`snap`).
- Writes become visible at COMMIT. No statement of this code reads a row its own transaction
  wrote earlier, so the model applies the writes at COMMIT (`Publish`); `DecisionsStand`
  checks that what was decided before still stands then.
- A dropped transaction is rolled back when the connection is next used or returned
  (`Release`), which may be after the caller was answered: the lock outlives the answer.
- `Fail` is a failing statement, a lost connection or a cancelled call at any statement. At
  COMMIT it leaves the call in `doubt`; `CommitLate` is the COMMIT that is carried out anyway.

### D1Store

`batch` names the next statement of a slot's batch, `writer` the batch that D1 is running,
`open` the tables as that batch sees them, with the workspace row and the receipt. `caller`
is apart from `batch`, because an event may end (`GiveUp`) while its batch goes on. `Clear`,
`Load`, `Decide`, `Apply`, `Bump`, `Report` and `Clean` are the statements in the order of
`D1Store::mutation`; `Decide` evaluates the `CASE` expression on the tables before any write,
and the writes ask the workspace row (`Applies`), not the tables. That D1 runs batches one at
a time and atomically is taken from `docs/workers.md` and the comment in the migration; the
mutant `ClearAnyTime` shows that the design depends on it.

### Service

A request names its caller, the assertion it carries, the store call it asks for, and
whether it comes directly or by an agent tool. Identifiers are left out: `form` says that
the request is sound, malformed, undecodable or has a bad cursor. `Entry` is who may ask,
`Flaw` what is wrong with the request, in the order of the handlers; both are decided in one
step (`Reject`, `Admit`), because a handler does not wait before it calls the store. The
store is an instance of `AccessStore`: what is shown for the service holds in front of either
store. `Rendered` maps the answer of the store to errors of the capability (`Mapped` are
the arms of the `map_..._failure` functions, the fallback arms are `InvalidRequest`), and
`ToolError` those to tool errors. A clock (`now`, up to `Horizon`) lets assertions be early
and expire. What `project_context` of the Auth SDK verifies is taken from how the code uses
it: issuer and signature (`genuine`), capability and operation, validity, and then the kind
of actor.

The assertion is verified when the request comes, once; `OnlyTheEntitledChange` therefore
speaks of the assertion at that time (`at`) and of the roles at the time of the change. An
assertion that expires while its call waits for the store does not stop the call.
`RequestAssumption` ties the two constants `Requests` and `Calls` together: a request is one
of a known operation, and a sound one of a known subject leads to a call in `Calls`.
`docs/plugin-card-agent-tools.md` says of authorization that it happens "in the same
transaction": that is true of the roles, which is what the store reads under its lock.

### DirectoryWalk

One slot belongs to a caller that lists the roles of a scope, or those of a subject, with a
fixed page size: `AskForPage` makes the call with the cursor of the page before, `ReadPage` is
the store's answer, `TurnPage` takes `NextCursor` as the service computes it. `LosePage` is
a lost page, which is asked for again with the same cursor. `Meanwhile` is any step of the
other slot. `seen` is what was listed; `always` and `ever` bound what a caller may expect of
a listing that is not one snapshot: all that was there throughout, and nothing that never
was. `OneRevisionIsASnapshot` is why a page carries its revision.

### PostgresLifecycle

`stage` follows `activate` and `deactivate`: "resolving" while the secret is asked for,
"preparing" while `OwnedPostgres::prepare` connects and verifies the schema, "active" while
`prepared` holds the pool, "stopping" while the pool is being closed. `provider` is what the
secrets plugin does, which may be nothing; `Deadline` stands for `DEPENDENCY_TIMEOUT` and for
the cancellation of the activation. A handler that is called gets a clone of the pool
(`Call`) and waits for a connection in `waiting`; it is given one of the slots in `Own`
(`Acquire`), turned away once the pool is closed (`TurnAway`) or gives up. A slot is then a
call as in `PostgresStore`. Other slots are connections of other processes, which contend
for the same row locks. That `Pool::close` refuses new acquisitions, wakes the waiters and
waits for the connections is behaviour of sqlx.

### D1Events

Every event has a `binding` of one of four kinds: the exact one, the right database under
another name, a database nobody has set up, and one that throws or answers nonsense.
`Activate` compares the name, `Verify` reads the migration history through the binding,
`Deactivate` resets `prepared`. `Close` aborts the resources of an event at any time, before,
during and after all of these. `Submit` begins a call of `D1Store` if `ReachesD1`;
otherwise `TurnAway` answers a transport error. `RunBatch` is what D1 does with a submitted
batch, which the end of the event does not stop. `Hear` is the continuation in the event:
`resources.run` rejects it once the event is closed (an assumption about the host, not a result), while an error found before that (a
failed batch) is the event's own. The two modes of a broken transport in
`workers/worker.mjs` differ only in the wording of the error. The data is that of `D1Store`,
so `Implements` states the refinement of `AccessStore` again, now through the lifecycle.

### Conformance and PostgresConformance

`Conformance` is the vectors in the order of `conformance.rs`: `Test(call, expected)`, where
`expected` has the fields the Rust assertion looks at and no others (a test of `.allowed` does
not fix the revision). Roles are numbered in the bytewise order of their ids, so that
`PageOrder` is the test that `"Z" < "a-" < "a_"`. The replacement by 256 permissions is one
by all permissions of a document, the limit 100 is 10. `PostgresConformance` makes the
vectors on one slot (`Tester`), statement by statement, while other slots make the calls
of `Elsewhere`, and fail, in other scopes, something the test suite does not do.

### D1Qualification

The runs that `workers/proof.mjs` makes, each an event with its mode, in rounds (`Rounds`):
the runs of a round go on at once. `Script` is what a run calls and asserts, in the form of
`Conformance`: a few calls for the ordinary modes (`exercise` of the smoke crate), all the
vectors for "conformance", one or two calls for the races (`race`). A run goes `Launch`,
`Start`, `Started`, then `Ask` and `Judge` for each call, and `Shutdown`; a failed assertion
leads to "failed". The runs of the races and the vectors use the store without the plugin
in front of it (`Begin` instead of `Submit`), as the smoke crate does. `QualificationPasses`
and `RacesSerialize` are the assertions of the two programs. The model goes beyond them in
two ways: the vectors are made beside another run, and races are taken through every
order of statements. The mode "wrong-audience" is as "expired" (the assertion is refused
before the store is called) and "malformed" is as "throws", so one of each is run. One race
round stands for six. The small application that is started after the shutdown has no
plugin of this repository.

### ReleasePipeline

A run is dispatched with a commit, a set of packages, the attempt of the candidate run and
a mode (`input`). Both jobs pass the gate step by step, each step an action that reads the
world as it is then: `Checkout` (the workflow checks out `main`, not the commit),
`VerifySource`, `ReadRegistry` package by package, `VerifyProof`, `VerifyArchives`. The first
job ends with `Plan`, the second publishes: `PublishCrate`, `TagCrate`, `MakeRelease` for what
release-plz finds pending, dependencies first; `EndRelease` with or without a usable
report; `Reconcile`. `Break` fails any step and `Rerun` starts the failed job again with the same inputs.
`Others` pushes to `main`, runs candidates, publishes versions and makes tags and releases by hand.

release-plz and the services are external, modelled from what the scripts rely on. A version
in the registry never goes away. The registry answers at once: were its index to lag, a
re-run could find a package pending that is published, and crates.io would refuse it. The
policy file is taken to be the same at all commits; a commit that changes it is another
instance. That somebody else could publish and tag exactly as approved, inside a run, is
possible; `GreenMeansReleased` says that such a run is not green.

## 3. Runs

The instances of the store runs, `service` and `d1_events` have two slots, one scope, two subjects (Alice and Bob), three roles, of which
the bootstrap role is in the middle of the page order, and three permissions.

| Run | Question | Properties |
|---|---|---|
| `access_store` | is the promise itself enough? | `TypeOK`, `PoliciesSound`, `AnswersHoldAtTheirRevision`, `RevisionCountsChanges` |
| `postgres_administrators` | do two transactions racing for a scope and its bootstrap role behave like atomic calls? | `TypeOK`, `DecisionsStand`, `PoliciesSound`, `Implements` |
| `postgres_directory` | do changes of ordinary roles beside reads and pages, also by an administrator who loses binding, role or permission meanwhile? | `DecisionsStand`, `Implements`, `OnlyAdministratorsChange` |
| `d1_administrators` | do two batches racing likewise? | `TypeOK`, `BatchesAreAlone`, `ReceiptsAreTrue`, `Implements` |
| `d1_directory` | ordinary roles, reads and pages on D1, and the loss of an authority before a batch has its turn | `Implements`, `OnlyAdministratorsChange` |
| `service` | do only entitled requests change a scope, and are errors and cursors true? | `TypeOK`, `ErrorsAreHonest`, `PagesContinue`, `OnlyTheEntitledChange` |
| `directory_walk` | is a walk complete, without repetition, and finite while roles come and go? | `NoRoleIsListedTwice`, `WalkIsComplete`, `OneRevisionIsASnapshot`, `WalkEnds` |
| `postgres_lifecycle` | do calls run only while the plugin serves, and do activation, deactivation, waits, calls and locks end? | `CallsRunOnlyWhileServing`, `ActivationEnds`, `DeactivationEnds`, `EveryWaitEnds`, `EveryCallEnds`, `EveryLockIsReleased` |
| `d1_events` | which databases are used, does a stopped or closed event fall silent, is an open one answered, and is the store still one of atomic calls? | `OnlyVerifiedDatabasesAreUsed`, `Implements`, `EndedEventsFallSilent`, `OpenEventsAreAnswered` |
| `postgres_conformance` | do the vectors hold on PostgreSQL beside other callers? | `ExpectationsMet` |
| `d1_qualification` | do the scripts, the vectors and the races come out as asserted, in every mode and with runs at once? | `QualificationPasses`, `RacesSerialize` |
| `release_pipeline` | is only what is approved and proved published, and does green mean released? | `GreenMeansReleased`, `PublishesAsApproved` |

Why the bounds suffice. *Two slots*: calls conflict through one row lock or one writer, so a
conflict is between one holder and one other; further waiters do what the second does.
*One scope*: no statement touches the rows of two scopes, and locks of two scopes are never
held at once. *Two subjects*: the last-administrator hazard needs two who may revoke each
other. In the directory runs Alice administers and Bob manages roles by an ordinary role, which Alice
can revoke from him, delete, or empty while a change of his is under way. *Three roles and page sizes 1 and 2*: a page can be exactly full, one short and one
over. *`MaxRevision` 4 or 5*: two subjects can both become administrators, be revoked and act
on it, and the revision still overflows at the end of the longest runs, which is one of the
cases. *`service`*: a request of each operation and flaw, every way of spoiling an assertion
of one operation (they all pass through the same code), page limits 0 (too small) to 3 (too
large), and `Horizon` 1, so that an assertion can become valid and expire while a call
waits. The runs with liveness properties use fewer calls and no symmetry.

*`directory_walk`*: three roles, one of which is always there, and pages of one or two; six
revisions let a role be created, listed, deleted and created again behind and ahead of the
cursor. Liveness does not rest on the revision bound: roles behind the cursor are not listed
again. *`postgres_lifecycle`*: one connection and two waiting calls make the pool the
bottleneck, and one other process can hold the lock the last call wants; `MaxRevision` 1 makes
the second change overflow, so that transactions fail as well as succeed and are refused.
*`d1_events`*: two events with a call each, so that one is closed, stopped or rejected while
the other is served; bootstraps and assignments give batches that change something, change
nothing, are refused, and overflow (`MaxRevision` 2). *`postgres_conformance`*: one other caller in one other scope; that
more of them change nothing for the tester is `PostgresConforms`. `MaxRevision` is above the last revision of the
vectors, there and in *`d1_qualification`*, which has one run of each mode, the four at once
that `proof.mjs` makes, and one race with its four equal assignments. *`release_pipeline`*: two
packages, one depending on the other, give every partial publication; two commits and two
attempts let `main` and the candidate move once past what was approved. The dispatches are
the full set at the first commit with either attempt, a dry run, an unconfirmed run, and the
rest of a broken release from the second commit.

`CHECK_DEADLOCK FALSE` is set where the system ends: the walk and the qualification are over some time.

### Fairness

`PostgresStore!Fairness` is strong fairness on `Work(t)`: the executor polls every call, the
database answers every statement, and a row lock that becomes free again and again is given
to every transaction that queues for it. Weak fairness would not do, since a waiting call is
disabled each time another takes the lock first. `Release` is weakly fair: a connection that
has been handed back is cleaned up. Nothing makes a caller call or a statement fail.

`D1Events!FairEventSpec` asks D1 to go on with what it was sent (`RunBatch`, strongly
fair for the queue of batches) and the host to poll a call whose answer is there (`Hear`);
events may be closed, stopped or left alone, and no call need give up.
`PostgresLifecycle!FairLifeSpec` adds to the fairness of `PostgresStore` a clock (`Deadline`),
a database that answers `Prepare` one way or the other, a pool that serves its waiters in turn (sqlx queues them,
`Acquire` is strongly fair) or turns them away, and `PoolCloses`; the secrets
plugin owes no answer, no call gives up, and nobody need deactivate.
`DirectoryWalk!FairWalkSpec` lets the caller go on and has a page come through if it is asked for again and
again; the writers owe nothing.

## 4. Proofs

The theorems hold for every value of the constants that meets the assumptions of the
modules: `PolicyAssumption` (finite sets of subjects and role ids, the two management
permissions are different, pages have at least one row), `CallsAssumption` and `SlotsAssumption` (calls are
calls of the trait), `ServiceAssumption` and `RequestAssumption`, `ReaderAssumption`,
`EventAssumption`, `OwnAssumption`, `ReleaseAssumption` and `DispatchAssumption`. The theorem about
the vectors also needs what the vectors use: `VectorAssumption` (the names, page sizes and
number of revisions they need, and that the permissions of a document do not manage policies)
and `TesterAssumption` (their calls are among those the store is asked, and the calls of `Elsewhere` are
in other scopes). TLC evaluates each of them in a run.

| Module | Theorems | Establish |
|---|---|---|
| `AccessStoreProofs` | `StoreTypes`, `StorePoliciesSound`, `StoreAnswersHold`, `StoreRevisionCounts` | the four properties of `AccessStore` |
| `PostgresStoreProofs` | `PostgresTypes`, `PostgresDecisionsStand`, `PostgresPoliciesSound`, `PostgresOnlyAdministratorsChange`, `PostgresImplements` | all properties of `PostgresStore` that the runs check but liveness, the refinement of `AccessStore` included |
| `PostgresStoreProofs` | `PostgresAnswersHold`, `PostgresRevisionCounts` | what `AccessStore` promises, of the answers and policies of the PostgreSQL store itself: a success is true of the policy at its revision, and a scope changes by one revision and one accepted change at a time |
| `D1Proofs` | `D1Types`, `D1BatchesAreAlone`, `D1ReceiptsAreTrue`, `D1PoliciesSound`, `D1OnlyAdministratorsChange`, `D1Implements` | those of `D1Store` |
| `D1Proofs` | `D1OnlyVerifiedDatabasesAreUsed`, `D1EventBatchesSound`, `D1EventsOnlyAdministratorsChange`, `D1EventsImplement` | those of `D1Events`, liveness aside; its batches stay alone and their receipts true although events are stopped at any time |
| `D1Proofs` | `D1AnswersHold`, `D1RevisionCounts`, `D1EventAnswersHold` | the same promises of D1, with and without events |
| `PostgresLifecycleProofs` | `PostgresCallsRunOnlyWhileServing`, `PostgresLifeIsAStore`, `PostgresLifeImplements`, `PostgresLifeKeepsPolicies`, `PostgresLifeOnlyAdministratorsChange` | the safety property of `PostgresLifecycle`; with its pool and lifecycle the plugin is still a `PostgresStore`, and an `AccessStore`, and keeps its policies sound |
| `ConformanceProofs` | `PostgresConforms` | the conformance suite passes on PostgreSQL, whatever others do and whatever fails in other scopes |
| `ServiceProofs` | `ServiceTypes`, `ServiceErrorsAreHonest`, `ServicePagesContinue`, `ServiceOnlyTheEntitledChange`, `ServiceCallsTheStore` | the properties of `Service`; the service uses its store as any caller may |
| `ServiceProofs` | `ServicePoliciesSound`, `ServiceSuccessesHold`, `ServiceRevisionCounts` | end to end: with the service in front, policies stay sound and change one accepted change at a time, and a success sent to a consumer is true of the policy at its revision |
| `AccessStoreProofs` | `WalkListsNoRoleTwice`, `WalkListsAll`, `WalkOfOneRevision` | the safety properties of `DirectoryWalk` |
| `ReleasePipelineProofs` | `ReleaseGreenMeansReleased`, `ReleasePublishesAsApproved` | both properties of `ReleasePipeline` |

Each rests on an inductive invariant; TLC has checked each on the instance of the run before
it was proved.

**Policies** (`PolicyLemmas`). An accepted change of a sound policy leaves a sound policy
(`AdvanceRowsBelong`, `AdvanceAdministrable`) that the same change leaves alone
(`AdvanceInForce`). `Eligible` and `EligibleBootstrap` say that the checks either store makes,
put together, make a call accepted. `LookingAhead` is why reading one row more than a page
holds tells whether there is more: the rows that are read without the last one are the page,
if there are more than the limit. `PagesAreFirst`, `LastRoleIsLast` and `ListAnswer` are what
a caller may rely on in an answer to `list`. The sets of roles are finite, so these lemmas
speak of cardinalities and least elements, not of sequences.

**AccessStore**. `IInv` strengthens the properties by `ActiveCalls` (a call that is not idle
is one of `Calls`) and `NoAnswerFromTheFuture` (an answer names a revision not above the
current one): without the second, an answer could become wrong by the policy *arriving* at
the revision it names. `TrueOf` (in `PolicyLemmas`) is that pair for one answer and one policy,
and `StaysTrue` that no accepted change makes it false.

**What the store promises, of each implementation**. A refinement says that the mapped
behaviour is one of `AccessStore`; `StoreAnswersHold` cannot be cited through the mapping,
since the prover takes no theorem of an instantiated module. The theorems `...AnswersHold` and
`...RevisionCounts` of PostgreSQL, D1, and the service therefore carry `TrueOf` along the steps that
the refinement proofs have already classified (`StepPromised`, `StepRefines`, `StoreSteps`): a step that
is `Decide` of the store makes an answer true, and every other step leaves it so.
`PolicyLemmas!AnswersAreTrue` says that this gives `AnswersHold`.

**PostgreSQL**. `IInv` is, for every transaction, `OperationFits` (its statement is one
of its operation), `DecisionStands`, and `FindingStands` (the facts found by the statements
so far, by which it may write later). `OthersStand` is the heart: whoever takes a step takes
no lock another holds, and changes no scope it has not locked, so the findings of the others
stand. `PublishKeepsIInv` shows that what is committed is `Advance` of a sound policy.
For the refinement a call is "called" until the statement that decides it, and that is not
the same statement for every call: a read is decided where its snapshot is taken, a refusal
or a call with nothing to change at the statement that finds out, a change at COMMIT. `AInv` adds to `IInv` what
the answers need: a listing reads its rows from the snapshot whose revision it has read; a
scope found to exist after the conflicting INSERT still exists (`OwnersStay`), though
nothing is locked between the two statements; and a call whose COMMIT is in doubt has been
answered. `OthersUntouched` says that a step belongs to one call, and the lemmas
`Promise...` are the actions of `AccessStore` seen through the mapping, so that each action
of the store is shown to be one of them or a stutter.

**D1**. `OpenStands` follows the running batch statement by statement: what its tables, the
workspace row and the receipt hold is computed from the committed policy and the request
(`Decided`, `Written`, `Bumped`, `Receipt`). That this is one equation for each statement is
possible only because nobody else writes meanwhile; `CallStands` says so (`writer = t`
exactly while a batch of `t` runs), and that only a caller who has given up, or whose batch has
ended, is answered. `FindingRefuses` and `FindingNone` compare the `CASE` expression of the
batch with what the trait promises. The steps of events and bindings are steps of the store or stutter (`SlotSteps`), so
`EInv` needs only what an event has found out by its stage. `AloneInIInv` and `ReceiptsInIInv`
are the two halves of `IInv` from which the theorems about batches follow with and without
events. `CommitsAreEntitled` compares the receipt with the policy before the batch: a
change that is committed was decided on the policy it replaces, and by an administrator of it;
`D1OnlyAdministratorsChange` and `D1EventsOnlyAdministratorsChange` follow without and with events.

**Lifecycle**. `LInv` adds that a pool exists only for a verified schema. That `LifeSpec`
implies the specification of `PostgresStore` (`PostgresLifeIsAStore`) gives every safety theorem
of the store to the plugin at once.

**Conformance**. `RolesAt`, `GrantsAt` and `BindingsAt` are a table of the policy of the scope at
each of the revisions 1 to 19, and `RevisionAfter` which of them is reached after how many
vectors. `Right(t, p, q)` says that whatever the contract of a store lets the call of
test `t` come to on the policy `p`, the answer is the expected one and the policy is then `q`;
`EachVector` that this is so of each of the sixty vectors and its two rows of the table. None of that is
about PostgreSQL. `VInv` is: the scope of the vectors holds the row of the vectors that
have been decided (nobody else has a call there, `Apart`), and an answer that is decided is as
expected. A step of the tester is one of the contract by the refinement (`WorkDecides`), one of another
caller writes only its own scope (`StepWrites`), and no answer is an error while revisions last
(`WorkAnswers`, `RevisionsSuffice`). The run `postgres_conformance` has one other caller and
four kinds of calls it may make; the theorem has any number of callers, and any set of calls of
the trait for `Elsewhere`.

**Service**. What a slot holds is at every time the story of one request (`SlotStands`):
unasked, turned away before the store with the error its own flaw gives, or served, with the
store call that the request asks for and an answer that call can have. The policies may
change as they like meanwhile; `ResultFits` does not mention them. `AdmittedRequests` is
that the guards of the handlers together leave only calls the store may be asked, and
`AnswersFit` that the store refuses an operation only with a failure that has an arm of its
own, so the fallback arms are dead. `ServiceCallsTheStore` puts `AccessStoreProofs` behind
the service, and `ServiceSuccessesHold` follows a success to the consumer: what a slot sends is
the answer of its own store call, and the paging of `Service` takes nothing from what makes it true.

**Walk**. A role that was not listed is above the cursor, and a page holds everything wanted
above the cursor up to its own last role (`PagesStand`, `AnswerStands`). These speak of the
roles at the time the page was *read*; `always` and `ever` bridge the time until it is
turned. For snapshots the revision never goes back and counts every change, so a page of the
same revision is of the same roles (`SnapshotStands`).

**Release**. `GateStands` says what each step of the gate has established, and only things
nobody can undo are in it: a version in the registry stays, a proof is not taken back by a
later attempt (`WorldGrows`). That `main` is still at the commit is not in it, since `main`
moves on. `ReportStands` says that what release-plz reports was published in this very job,
which is what `Reconcile` needs to go from a report to the registry.

Only model-checked:

- the liveness properties (`ActivationEnds`, `DeactivationEnds`, `EveryWaitEnds`,
  `EveryCallEnds`, `EveryLockIsReleased`, `EndedEventsFallSilent`, `OpenEventsAreAnswered`,
  `WalkEnds`): fairness is defined by ENABLED, which the provers cannot take apart;
- `QualificationPasses` and `RacesSerialize`: scripts of a run of the Workers qualification,
  with races whose outcomes are a choice, so that no table like that of `ConformanceProofs` describes
  the scope between two calls. Their vectors are those of `EachVector`, which does not
  depend on the store.

`StoreTypes`, `PostgresTypes`, `D1Types` and `ServiceTypes` are about types. The modules that
extend another one have no type invariant of their own; their proofs state the types they need
(`LifeStands`, `EventTypeOK`, `WalkTypes`, `ReleasePipelineProofs!Types`).

## 5. Not modelled

- The text of identifiers and names, JSON and SQL encodings, wording of errors, and with
  them the generated capability bindings: serialization code without state.
- The check of the configuration (`PolicyConfig::validate`, `AccessControlConfig::validate`):
  it decides once, before anything runs, on identifiers, keys and duplicates. What its result means to a
  request (which callers are admitted) is in `Service`.
- The steps of a schema migration. `Setup` in `PostgresLifecycle` and `D1Events` is its
  effect; both plugins only verify.
- The size limits of a D1 batch (128 statements, 100 parameters).
- That a transaction which ends without `COMMIT` leaves nothing: the models apply its writes at the
  `COMMIT`, on the word of PostgreSQL and D1. A bootstrap of which only some rows are written does
  therefore not occur, and nothing is shown about it.
- The fence of `resources.run`. It is not in this repository; `Hear` takes from it that nothing of D1
  enters a closed event, and slots belong to events for good, so that a completion cannot
  reach another event. Nor can an answer of the secrets plugin come after the
  activation has ended: the lookup is dropped with its future.
- Unit tests that assert the shape of statements or JSON, and examples.

## 6. Plan

1. Done: `Policy`, `AccessStore`, `PostgresStore`, `D1Store`, `Service`; theorems on the
   first three.
2. Done: `DirectoryWalk`, `PostgresLifecycle`, `D1Events`, the conformance vectors on both
   stores, the Workers qualification, `ReleasePipeline`.
3. Done: the theorems of section 4, that is every safety and action property of the runs,
   `Implements` of both stores with it, but for the two properties of the qualification.
4. Done: the promises of `AccessStore` proved of each implementation and of the service in front of it;
   the conformance vectors proved of PostgreSQL.
5. Left: one specification of the service in front of PostgreSQL or D1 themselves, where `Service` puts it
   in front of `AccessStore`; and shorter proofs where a lemma
   about `GoTo` and `SetResult` would serve several actions.
