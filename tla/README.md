# Lamdis Core: TLA+ models, model checking and proofs

Lamdis Core lets agents perform actions on other systems under a policy. An
agent first asks whether an action is allowed (*preflight*), gets a decision,
and then performs the action under it (*execute*); admins change policies,
facts and connectors meanwhile. This project models the services statement by
statement, checks them with TLC on small instances and proves their central
guarantees with TLAPS.

## 1. The system

| Component | Source | State it keeps | Operations that change it |
|---|---|---|---|
| Policy versions | `internal/adminapi/handlers_policies.go` | table `policy_versions`: code and status (draft, published, archived) per action and version | `createPolicyVersion`, `publishPolicyVersion` |
| Fact configuration, actions catalogue | `internal/adminapi/handlers_actions.go` | tables `fact_resolvers`, `fact_mappings`, `actions` | upsert and delete |
| Fact engine | `internal/facts/engine.go` | none | `ResolveFacts` reads both fact tables and applies transforms |
| Decisions | `internal/policy/service.go`, `http.go` | table `decisions` | preflight: facts, `Evaluate`, `PersistDecision`; execute: `ValidateAndBindDecision` |
| Orchestrator | `internal/orchestrator/service.go` | table `executions`, and whatever the connectors do | `Execute`: find an operation, call it, insert a row |
| Test-execute | `testExecutePolicy` | the same tables | evaluate, persist and execute in one request |
| Connector administration | `internal/adminapi/handlers_connectors.go`, `handlers_registry.go`, `registry.go`, `app.go` | definitions, operations, tenant settings, registry entry | create, update, enable, put action, upsert; the start of the admin API |
| Operation cache | `pkg/connectors/registry.go` | operations per tenant, 30 s | `LoadOperations` |
| Connector service | `internal/connector/handler.go` | usage events | canonical operations (placeholders) and proxied dynamic operations |
| Connector secrets | `internal/adminapi/crypto.go`, `handlers_marketplace_auth.go`, `decryptSecrets` | table `tenant_auth_configs` with sealed JSON | create, update, delete; seal, open |
| Manifest | `internal/manifest/service.go` | none | advertises an action key for every operation |
| Authentication | `pkg/middleware/auth.go`, `scope.go`, `internal/adminapi/auth.go` | JWKS per URL, 6 h; the admin API's keys | `jwksCache.get`, the token checks |
| Tenants | `pkg/tenants`, `pkg/middleware/tenant.go`, `handlers_tenant.go` | table `tenants`, seed data | `WithTenant`, `putTenantOIDC`, `SeedFromEnv` |
| Analytics | `internal/adminapi/handlers_analytics.go` | none | paged reads, reports |

How they interact. All services share one PostgreSQL database and nothing else:
there is no message between them. The admin API writes; the policy service reads
anew for every request, the manifest and the connector service each through a
cache of operations of their own (30 s, `connectors.NewRegistry`). The
orchestrator reads the tables themselves, so within the lifetime of the cache
after a connector's kind is renamed the manifest gives keys under which Execute
finds no operation. The orchestrator and the dynamic operations of the connector
service are the only parts that call out. Every handler runs its SQL statements
one by one, almost always without a transaction, and drops most of their errors.

What is hard. Two admins who save or publish at once; an admin who edits
between two statements of a request; a decision that expires, or facts that
change, between the check and the call; a statement that fails and whose error
is dropped; a reply lost after the commit; a service that stops between the
call and the row that records it, or in the middle of its seed; a client that
retries; requests that hold one connection of a pool and wait for another; two
requests that fill one cache; keys that rotate behind a cache; rows
that commit behind a reader's cursor. The list, with the lines, is `hazards` in
`PROJECT.json`.

What makes each part correct:

* policy versions: one live version per action, code that does not change while
  it is live, and no silent loss of the live policy (losing it means *allow*);
* facts: the same configuration gives the same facts, a required fact is never
  missing from facts that are not nil, and the coverage report agrees with that;
* decisions: execute reaches a connector only under a stored decision that
  allows it, for the same action, inputs and facts;
* orchestrator: each call gets one truthful row, each request an answer, and a
  key runs the operation it names, also one from a manifest made of cached rows;
* connectors: an update replaces, builtins stay intact, and callers soon see
  what admins wrote, with the right key and one usage row per operation;
* authentication: who is admitted had a token for that tenant, issuer and
  audience, by a key its issuer still publishes; nobody waits for ever;
* analytics: a reader of the list sees no decision twice and reaches its end.

## 2. Modules

| Module | Models |
|---|---|
| `Tenant` | constants the others share |
| `PolicyVersions` | the table, `createPolicyVersion`, `publishPolicyVersion`, the reads of the published row by `Evaluate` (`LoadPublished`) and `getActivePolicy` (`ActivePolicy`) |
| `FactTransforms` | `applyTransform` and its helpers as operators over tagged JSON values |
| `FactStore` | resolvers and mappings, their handlers, `ResolveFacts` (`FactsOf`) |
| `ActionsCatalogue` | `FactStore` with the table `actions` and the report that joins the three |
| `PolicyService` | composes `PolicyVersions` and `FactStore` with preflight, execute, test-execute, the orchestrator, the connection pools, the clock and faults |
| `GovernedExecution` | the abstract specification: grant decisions, perform what one of them allows. `PolicyService` implements it, with `granted <- decisions`, `performed <- effects` |
| `OperationKeys` | how manifest, admin API and orchestrator turn names and paths into action keys, and which operation a key runs |
| `ConnectorTables` | the connector tables, the handlers that write them, the start of the admin API, `SeedFromEnv` |
| `AuthConfigs` | auth configurations, sealing and opening, the key for a call |
| `ConnectorService` | composes `ConnectorTables` and `AuthConfigs` with the cache and the requests that are answered from it: those of the connector service, and lists of operations, the manifest among them |
| `Authn` | tenant lookup, JWKS cache, token checks, `adminAuth`, the writers of a tenant's row, issuers that rotate keys |
| `KeyGate` | the abstract specification of the token check, without cache, lock and fetches: a request is judged by the row it found and by keys its issuer has published. `Authn` implements it, with `asked` for what a request looks like from outside |
| `DecisionPaging` | `listDecisions` with inserts that commit late |
| `MC*` | instances of these for TLC |
| `FactStoreProofs` | lemmas about the transforms and about resolving facts, for the theorems of `ActionsCatalogueProofs` and `PolicyServiceProofs` |
| other `*Proofs` | the theorems about the module of that name. Where a module composes others, so do the proofs: `PolicyServiceProofs` extends `PolicyVersionsProofs`, `ConnectorServiceProofs` extends `ConnectorTablesProofs` |

A process (a creator, a publisher, an admin, a client, a caller) serves one
request at a time and its step is one SQL statement or the HTTP call, because
anything may happen between two of them. In the policy modules `pc` says which
statement is next; in `ConnectorTables` a request carries the list of statements
it still has to run, `todo`, computed from its body as the handler's branches
do. Exceptions, forced by PostgreSQL's READ COMMITTED, the level the pool uses:
the publish `UPDATE` takes two steps, since it fixes the rows it will touch
before it locks and writes them; `ResolveFacts`, although it opens a
transaction, takes one step per `SELECT`, since each sees its own snapshot; an
`INSERT` into `decisions` has a step that fixes `created_at` and one that makes
the row visible. `jwksCache.get` has a step per critical section.

A statement needs a connection of its service's pool, and waits for one without
a limit. `PolicyService` therefore counts those that requests keep between two
statements (`HoldsConnection`): during the transaction of `ResolveFacts`, and
while the rows of Execute's query are open. `rows.Close` is deferred, and the
loop over the rows is left by `break` when an operation has the very name asked
for, so these rows stay open through the call to the connector until the
insert, a second connection, is done; when the fallback is used they are read
to their end and closed. `open` says which. `MaxConns` is the size of the pool,
and the admin API, which runs test-execute, has a pool of its own. The
statements of the other admin handlers are not made to wait: their requests hold
no connection between two of them. The query of `ResolverNeeds`, which writes
nothing and only fills in an answer, is left out.

With `Faults` a statement may fail, in the policy modules before or after it
took effect; a read of rows may break off in the middle, a caller may hang up
and so cancel the statements that are left, and a service may stop at any step.
An action does with the failure what the code does: nothing, in most cases.

Of the data the model keeps what the code tells apart. Rego code is a model
value and evaluation the constant operator `Rego`; inputs carry a value and an
optional idempotency key; JSON values are tagged by kind. Names and path
segments are sequences of words with a mark for capitals, since hyphens and
capitals are all that tells the derivations of a key apart. A sealed secret is
its content with the key it was sealed by. The keys of an issuer are a range of
numbers. Times are counted in the unit of the bound: the lifetime of a cache is
a small number of ticks. Histories are marked as such where variables are
declared: `effects`, three fields of a decision, `put`, `answered`, `quiet` (the
time since the tables, or an issuer's keys, changed), `blind`, and the reader's
`seen`, `base` and `last`. The binding hash is the tuple it is computed from:
SHA-256 is taken to be injective, AES-GCM to be sound.

## 3. Runs

Runs that pass:

| Run | Shows | Instance and why it is enough |
|---|---|---|
| `policy_serial` | one live version, stable live code, the only causes that leave an action without a policy, and that a publish answered ok is what `Evaluate` loads and, unless its number is zero, what `getActivePolicy` reports | two creators, one publisher, the version numbers -1, 0, 1 and 2 (so that MAX+1 = 0 is met, and a zero named by the body), two codes, faults; symmetric in codes and creators. Three rows are the fewest with one live, one named and one unseen |
| `fact_edits` | required facts, determinism, the scope of edits, the coverage report; which transforms fail and on what, day counts at boundaries | every sequence of five edits of two actions: enough to create, break and repair a resolver and two mappings. About 68 000 calls of transforms over scalars, lists, pairs and argument lists around the special cases |
| `granted` | execute stays bound to its decision; the service implements `GovernedExecution` | two clients, two actions (one without a policy), two inputs, expiry, one fact edit, faults. Two requests are the fewest: a preflight and an execute |
| `admins` | the same beside policy and fact edits; each call gets its execution row when nothing fails, and only an action without a published policy is allowed by default; "Inputs or facts changed" is said only when it is so | one client with three requests, one creator, one publisher, one fact edit |
| `answered` | every request is answered unless the pool is wedged; rows do not misreport; a call stays without its row for three causes only | two clients, all endpoints, faults, with fairness, and pools of two connections, so that two executes can wedge one |
| `connector_admin` | types and foreign keys, builtins stay intact, an update replaces the operations | two admin requests of any kind, two starts of services, one fault, on an empty and a used database; bodies with a kind already taken, with capitals, and with every branch of `updateCustomConnector` |
| `connector_calls` | the cache serves what the tables hold once they are quiet, callers are routed by it and find the keys of a manifest again, the right key goes out, usage rows are true | two callers who overlap, one admin request, a rename of a kind among them, a lifetime and a lag of one tick: the fewest in which an older fill overwrites a newer one |
| `authn` | admitted requests had a token for their tenant, issuer and audiences; cached keys are the issuer's in time, never go back and are fetched once; every request is judged; the middleware implements `KeyGate` | two requests, two tenants (one without settings of its own) and three host names, two issuers, two keys, one edit of a tenant, one failed fetch |
| `paging` | no decision twice, what may be skipped, the walk ends | four decisions in two seconds of two instants, pages of one and two and limits out of range, one page that breaks off |

Runs in which TLC refutes what the repository says of itself (`findings`
quotes the lines):

| Run | Refutes |
|---|---|
| `default_allow` | the default allow is for actions without a policy. It also follows a failed read, and by `DefaultAllowWarranted` nothing else |
| `idempotency` | the idempotency key. Nothing looks it up before the call |
| `key_fallback` | an action key names an operation. When the operation is switched off, or its path has capitals, the first one of its namespace runs instead |

The passing properties say where their premises end. Each of the following is a
fact about the code, shown by a small change of a cfg or stated as an exception
in a property:

* `policy_serial` with two publishers breaks `AtMostOnePublished` and
  `PublishOkIsActive`: two publishes of one action that overlap with a create
  leave two live rows, and `Evaluate` reads the higher one whichever was
  published last. By the theorems of section 4 that overlap is the only way;
* publishing a version that does not exist answers ok and archives the live
  one, and a create with the number of the live version makes it a draft: these
  are the causes that `PolicyLossCauses` names. Two creates without a number may
  get the same one, and the second rewrites the first. A version is rewritten
  in place, so a decision that names it cannot always be replayed;
* a version with the number zero can be created and published: `Evaluate`
  decides by it and `getActivePolicy` reports that there is none, although its
  comment (`handlers_policies.go:82`) promises the published version.
  `PublishOkIsActive` states both;
* `answered` without `Wedged` breaks `RequestsAnswered`: as many executes whose
  operation has the very name asked for as the pool has connections hold one
  each and wait for another to insert their rows. There is no limit on the
  wait; it ends when a caller hangs up. With `rows.Close` before the call the
  exception would be empty;
* `ManifestKeysResolve` with a shorter time of quiet than `MaxLag + TTL` fails:
  the manifest still gives the old key of a renamed kind;
* `admins` with `Faults = TRUE` breaks `EffectsAudited`: the row is inserted
  after the call and its error is dropped. `AuditLossCauses` names what can then
  leave a call without its row;
* `admins` with a mapping that uses the transform `now` breaks
  `MismatchMeansChanged`: the fact differs at every reading, so such an action
  can be executed only within the second of its preflight. Two mappings to one
  fact key do the same, since rows come in any order;
* test-execute calls the orchestrator whatever its decision says; therefore
  `EffectsGranted` speaks of execute only;
* `BuiltinsIntact` excepts definitions in `blind`: when the read of
  `builtin_kind` fails, its error is dropped and the update goes on;
* `UpdateReplaces` needs the request to be alone on its connector and to meet
  no fault: the operations are deleted and inserted by separate statements;
* `SeedFromEnv` inserts both operations again at every start, under new ids and
  without a unique key, so duplicates grow; and it writes the issuer and the
  JWKS URL of the seed over what `putTenantOIDC` stored;
* `ServedCurrent` lets a cache filled by a query that broke off miss rows
  (`whole`), because `rows.Err` is not read;
* `KeySent` gives a plain `api_key` of the config precedence over the secret,
  so rotating the secret alone changes nothing for such a configuration;
* `SkipsOnlyWithinSecond` states what the cursor, which drops the fraction of a
  second, loses, and that is the rows an id tie-breaker would have kept: the
  comment at `handlers_analytics.go:153` speaks of one, the cursor has none; a
  page that breaks off before its first row looks like the end of the list and
  loses the rest (`blank`).

Bounds. `MaxRequests`, `MaxCalls`, `MaxTime`, `MaxEdits`, `MaxBoots`, `MaxKeys`,
`MaxRows`, `MaxWalks`, `MaxFaults` and `VersionNos` cap what grows. `MaxConns`
is no bound of the model but a size of the system: 2 in `answered`, where it
matters, and 4, the least that pgx gives a pool by default, in the other runs of
`PolicyService`, which have fewer clients than that. `MaxLag` bounds the time a
filled result takes from the query to the cache. The code has no such bound of
its own; without one, a goroutine that stalls between the two can put rows of
any age into the cache, and no statement about its age holds.

Deadlock. Clients, admins and services may stop for good once the bounds are
used up, which is why the runs of `PolicyService`, `FactStore`,
`ConnectorTables` and `DecisionPaging` do not check for it; `PolicyVersions`,
`ConnectorService` and `Authn` always have a step left and do.

Fairness. `answered` assumes weak fairness of each request's own steps (`Work`),
and of no fault. The Go scheduler runs every goroutine, and a statement that has
a connection ends. A statement that waits for one is not enabled, so nothing is
assumed of it while the pool is exhausted: that it gets its connection follows
from the others giving theirs back, or the pool is wedged. That weak fairness is
enough rests on the bound on requests; were they to come without end, one would
need that the pool serves those who wait in their order, which pgx's does. For
the outgoing call fairness is an assumption: `http.DefaultClient` has no
timeout, so it holds only while connectors answer or the call fails.
`authn` assumes weak fairness of the fetch (with a like reservation:
`jwk.Fetch` ends with its caller's context) and strong fairness of taking the
lock, since a `sync.RWMutex` hands itself on to those who wait. `paging` assumes
that the reader asks for the next page. No fairness is assumed of clients,
admins, crashes, issuers or the clock.

## 4. Proofs

For any sets of actions, codes, versions, clients, callers and admins, any
inputs, any policy (`Rego` is unconstrained), any initial configuration and any
faults:

* `PolicyTypeCorrect`, `LiveCodeStable`: type correctness of the policy table,
  and that no step changes the code of a version that stays published, with any
  overlap. The upsert is the only statement that writes code and it makes the
  row a draft.
* `SerialPublishesSafe`: as long as no two publishes of one action overlap
  (`PublishesApart`), at most one version is live, for any number of publishers,
  creators and actions. `AtMostOnePublished` is not inductive: the committing
  `UPDATE` archives only the rows it saw, so one must know that the rows it did
  not see are not published. That is `UnseenRowsNotPublished`; their conjunction
  is inductive. `SnapshotHoldsPublished` states it, and `PublishTakesEffect`
  follows from both: a publish answered ok leaves its version as the only live
  one, with its code for `Evaluate` and, but for number zero, its number for
  `getActivePolicy`. `PublishesApart` is a hypothesis about the run, not about
  the constants: it says exactly what the handler does not see to itself.
* `LossHasCause`: with any overlap and any faults, an action loses its live
  version only by a create with that number, or by a publish of a version that
  was not there.
* `ServedCodeStable`, `ServedPolicyLossHasCause`, `ServedPublishTakesEffect`:
  the same in the composed `PolicyService`. The lemmas speak of any run whose
  steps are steps of the handlers or leave the policy table alone
  (`HandlersRun`), and `PolicyService` is shown to have only such steps, so
  nothing is proved twice.
* `DefaultAllowWarranted`: without faults the default allow is given only where
  no version is published at that moment. `CodeInv` says that a row that exists
  has code, and `LoadedIsPublished` that the query for the highest published
  version then finds a module exactly where there is one; `DefaultInv` carries
  this from the evaluation to the stored row. With faults TLC refutes it, so the
  dropped error of that one read is the whole cause.
* `OnlyDatesAreErrors`, `DaysCountedInFull`: what `fact_edits` checks of the
  transforms, `coalesce` among them, on bounded values, for any sets of values
  and argument lists. The second rests on lemmas about truncating division.
* `AllIsStricter`: where `all` holds, `any` holds of the same value and
  arguments, because `all` of an empty list is false. A fact about two transforms
  alone, so it is proved and has no run.
* `RequiredArePresent`, `FactsAreDetermined`, `EditsScoped`, `ReportTellsTruth`:
  what resolving facts promises, for any resolvers and mappings. The engine runs
  through the rows of a table in an unspecified order; the lemmas of
  `FactStoreProofs` say what each order leaves in the map, and that the orders
  agree where the mappings feed different facts. The report counts rows of an
  outer join, for which `ConfigInv` says that the tables are finite and that no
  mapping has a null name.
* `ExecuteIsGoverned` (and `RequestsStayBound`): what reaches a connector
  through execute has a stored decision that allows it, for the same action,
  inputs and facts, unexpired when it was checked. `EffectsGranted` speaks of
  calls already made, so it needs an invariant about requests on their way:
  `RequestsBound` says that such a request's decision is still stored, passed
  the checks, and, once the hashes were compared, has the request's own inputs
  and facts. The proof has one lemma per group of steps and a common lemma
  (`RequestMoves`) for those that only move a request on. It uses that rows of
  `decisions` are only added and that equal hashes are equal tuples.
* `ServiceRefinesGovernedExecution`: `PolicyService` implements
  `GovernedExecution`. `PersistDecision` is a grant, `Send` a performance, every
  other step a stutter. Beyond the invariant above it needs that request numbers
  are not reused: a request that has not yet sent has performed nothing, and one
  that has not yet stored its decision has granted nothing.
* `ServiceTypeCorrect`, `RowsTellTruth`, `CallsAreAudited`, `AuditLossHasCause`:
  what the rows of `executions` say. None is inductive: a row is inserted after
  the call, by a request that has to be the one that made it. `RecordInv` says
  of each request under way which of decision, call and row there are by now.
  `CallsAreAudited` assumes that nothing fails, and is false otherwise (section
  3); `AuditLossHasCause` then says what can go wrong: of the steps that end a
  request about to insert a row, those that insert it have a stored decision to
  refer to, and the rest are the causes it names.
* `MismatchHasCause`: execute says that inputs or facts changed only if they
  did. `ReadInv` says that everything stored or on its way (a decision, the
  samples a request has read, its facts) is what the configuration of now gives,
  unless there was an edit since the reading began; the two readings then meet
  in one map by the determinism of facts. It is assumed that no mapping reads
  the clock and no two feed one fact, at the start or by an edit
  (`SteadyFacts`); that nothing fails, since preflight goes on with nil facts
  after a failed read; and that the tasks are preflight and execute, since
  test-execute stores an empty map where execute gets nil.
* `ConnectorTypeCorrect`, `BuiltinsReadOnly`: `BuiltinsIntact` says nothing of a
  request past its check or of a start half done. `ConnectorInv` adds why a
  request may write a definition (`Guarded`: it is not builtin, or the check is
  still to come, or its read failed, which puts the definition in `blind`) and
  which operations a start has inserted (`BootInv`).
* `UpdatesReplace`: an update leaves the operations of its body, for bodies of
  any length and any other requests on other connectors. `ReplaceInv` relates
  the statements an update has left (`Shape`: the deletion, then the inserts of
  the list) to the rows it has written (`Written`: the first k of the list, k in
  number), as long as it is alone and met no fault.
* `ServedBuiltinsReadOnly`, `ServedUpdatesReplace`: the same
  while the connector service runs. Its other steps leave the tables, the
  admins' requests and the starts alone (`Beside`), but share the count of
  requests with the admins, which the invariants are shown not to depend on.
* `CacheServesCurrent`, `CallersRoutedCurrent`: once the tables have been quiet
  for `MaxLag + TTL`, the operation cache serves what they hold and callers are
  routed by it. `ServedCurrent` is not inductive, because an old fill may reach
  the cache at any time; the invariant `CacheInv` says that
  a fill on its way is current if the tables have been quiet for longer than its
  lag, and the cache if they have been for longer than `MaxLag` and its age.
  Ticks raise both sides alike, a change of the tables sets the quiet time to
  zero, and a store starts a new age from a lag of at most `MaxLag`.
* `ServedManifestKeysResolve`: the same for manifests. By `CacheInv` a list
  answered after that time is made from current rows (`ListsCurrent`), and for
  these the lemma `KeysFound` says that Execute, which reads the tables, finds
  the operation: the short names of manifest and orchestrator agree on paths
  without capitals, and the namespace of the key is one under which it looks.
* `UsageTold`, `KeyIsSent`: `UsageInv` says that requests have numbers of their
  own, and that what is carried out but not recorded belongs to a request about
  to insert its row; `AuthInv`, that a sealed secret is the one last put, by
  the key of the admin API.
* `CachedKeysCurrent`, `CachedKeysAdvance`: the same for the keys of issuers,
  with the lock of `jwksCache` in place of overlapping fills. `KeysInv` says
  that only the holder of the lock fetches or stores (`LockInv`), that an answer
  on its way is no newer than what is published, no older than what is cached,
  and current if the issuer has been quiet for longer than its lag
  (`AnswerInv`), and the like for the cache and its age (`SetsInv`). That an
  answer is never older than the cache is where the lock is needed: without it a
  second fetch could store between the answer and its store.
* `WaitersDoNotRefetch`: a request looks into the cache again once it has the
  lock. Together with `CachedKeysAdvance` it says that those who waited for a
  fetch use what it found.
* `AdmissionRight`: whoever is admitted by a token had one for the tenant of the
  request. `RowsInv` says that rows, stored or read by a request, have a list of
  audiences and a URL that is known; the rest follows from the steps, because
  the request judges the row it read when it arrived.
* `AuthnRefinesKeyGate`: `Authn` implements `KeyGate`. A look into the cache,
  the lock and a fetch are stutters, since a request that waits looks the same
  (`WaitingStays`); a verdict is `Judge`, with keys that `KeysInv` and `RowsInv`
  show to be published ones, and the present ones after `MaxLag + TTL` of quiet
  (`KeysKnown`); a request without a token that the development mode lets
  through is `Pass`; and what the admin API writes is `Edit`.
* `WalkShowsOnce`, `WalkSkipsWithinSecond`: what a walk through the decisions
  shows, for any number of rows, any limits and any inserts that commit late.
  Neither property is inductive. `ReaderInv` says that what was shown is not
  older than the cursor, and that a row of the base which was not shown is older
  than the cursor or was skipped by an earlier cut. Rows are only added, so late
  commits disturb neither part. A page keeps it by three lemmas: the first n
  rows are not older than those left out (`FirstTakesNewest`), there is one if
  any row matches (`FirstTakesSome`), and the cut skips only rows of its own
  second (`CutToSecond`). The first two rest on counting the rows ahead of a
  row.

The assumptions are the named ones of the modules: `Tasks` holds the three
endpoints or some of them, the bounds are natural numbers, the lifetime is not
zero, the empty module is no code, `Null` is neither a thread nor a number,
audiences, operations and paths are lists, limits are integers or absent,
mappings have names, and what earlier runs left in the connector tables meets
the constraints of those tables (`FoundAssumption`) and has secrets
(`AuthsFound`). Version numbers are integers with a largest one, as the column
INT has; the JWKS URLs of configuration and seed are among `Urls`; and the lists
among `Values` and `ArgLists` are lists of JSON values (`ValuesAssumption`). A
theorem that needs more says so itself: publishes of one action that do not
overlap, no faults, steady facts, or, for the report, that `Null` is no
function. TLC evaluates the assumptions of the modules on every run.

Only model-checked: liveness (`RequestsAnswered`, `RequestsJudged`, `WalkEnds`),
which is out of the prover's reach, and the three refutations. The value of
`sum`, a fold, would need induction over data: what is proved of it is that it
does not fail.

## 5. Not modelled

* More than one tenant, but for `Authn`, which tells tenants apart: every
  statement is taken to see the rows of its tenant only, by its WHERE clause or
  by row level security.
* The mode without a database (`pool == nil`), the in-memory tenants, and SQL
  typing: statements are taken to be accepted by the server. Schema statements
  (`EnsureSchema`, `ensureConnectorSchema`) are DDL.
* JMESPath beyond a lookup of the inputs or one resolver's sample, and OPA.
* `time.Since` beyond the 292 years a `Duration` holds.
* How a request to a connector is filled in from its template, and what
  upstreams answer beyond a status.
* The text of the seed: `Seed` is what decoding yields. The documented keys with
  underscores (`oauth_issuer`, `jwks_url`) do not match the untagged fields of
  the struct that `SeedFromEnv` decodes into, so these fields may be empty; the
  instance has a tenant of either kind.
* `adminAuth` without keys, in which the tenant comes from a header, and health,
  metrics and well-known paths, which need no token. A trailing slash of an
  issuer is not written.
* Handlers that only read: lists, `getPolicyVersion`, `compilePolicy`,
  `dryRunPolicy`, usage summaries, the OpenAPI documents.
* Rows of the operation cache whose `Scan` failed (`registry.go:153` appends
  them partly filled): every column that could be NULL is read into a pointer,
  and method, path and summary are written by every insert.
* DPoP: `pkg/middleware/dpop.go` is mounted by no service.
* Clock differences between replicas.
* Configuration, logging, tracing, problems, service mains, the admin UI and
  deployment files: wiring, formatting and a browser client.

## 6. Plan

1. A refinement of the operation cache to a view of the tables that lags by at
   most `MaxLag + TTL`, as `KeyGate` is for the keys.
2. `MismatchHasCause` with test-execute, by a property that compares an execute
   with the decision of a preflight only.
