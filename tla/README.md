# Mohalla: verification project

TLA+ models of the Mohalla repository (the Shehersaaz community platform, stage 5
"foundation"), model-checked with TLC and partly proved with TLAPS. Paths are relative to
the repository root. `PROJECT.json` maps every definition to the lines it models, and lists
the runs, the mutants that each property catches, the hazards and the theorems.

## 1. The system

Mohalla is at its foundation stage: the architecture documents describe a product, the code
holds the processes, boundaries and operational tools on which it will stand.

| Part | State it keeps | Operations | Talks to |
|---|---|---|---|
| **Worker and job queue** `apps/worker/src` | rows of `foundation.health` and its dead-letter queue, the queue's retry policy, what each polling loop holds | `install-queue`, `enqueue-health`, worker start, handle, acknowledge, drain on SIGTERM | PostgreSQL through pg-boss |
| **Database access** `apps/api/src/database` | a pool of clients, their server sessions, callers waiting | `withTransaction`, `query`, `ping`, `onApplicationShutdown` | PostgreSQL through pg |
| **HTTP pipeline and health** `apps/api/src/{common,health,main.ts}` | per request: async context, request and response; the log | correlation middleware, logging interceptor, exception filter, `live`, `ready`, `summary`, shutdown hooks | database access |
| **Realtime gateway** `apps/api/src/realtime` | none | `foundation:ping` | Socket.IO |
| **Admin console** `apps/admin` | what the health panel shows, requests in flight, the error boundary | `load`, Re-check, reload, `request` with a timeout | the API over HTTP |
| **Android client** `apps/android` | chosen locale, remembered context, frame; in-memory secure storage | compose, toggle, `onCreate`; HTTP client (no caller yet) | (the API over HTTP) |
| **Database roles, migrations, scripts** `packages/db` | roles, grants, default privileges, schemas, ledger, `audit_log` | apply roles, migrate, status, reset, backup, restore, provision | PostgreSQL |
| **Repository checks** `scripts/posix`, `packages/eslint-plugin-mohalla` | the verdicts recorded so far | module guard, locale parity, RTL rule, secret scan, smoke test, `verify` | the source tree, a running system |
| **Shared packages** `packages/{contracts,validation,localization,...}` | none | correlation id check, `translate`, schemas | every app |
| **Module shells** `apps/api/src/modules` | none | none yet: entries of the module registry | the module guard |
| **Process configuration** `*/config/env.ts` | none | parsing of the environment | every process |
| **Build, CI, deployment** | none | none at run time | - |

How they interact. API and worker share only the PostgreSQL database. `install-queue`,
`enqueue-health` and every worker run the same two `createQueue` calls against it, concurrently
and after any restart. Inside the API, HTTP requests interleave at their `await`s over one pool
and one process-wide async context store, and SIGTERM arrives between any two of them. The
database scripts are separate programs that people and CI start by hand, in any order, with whatever
URLs their environment holds; what they leave in the catalogs of PostgreSQL is their only shared
state, and it decides what API and worker may do. The smoke test and `verify` look at all of
this from outside while it changes under them.

What is hard here:

* **crash recovery**: a job is fetched, run, logged and acknowledged in four separate steps, and a
  process may die between any two of them; pg-boss's expiry hands the job to somebody else;
* **stale actors**: a worker whose job expired still acknowledges it later;
* **stale configuration**: the queue keeps the retry limit of its creator while each process logs
  by its own `JOB_RETRY_LIMIT`;
* **bounded resources**: transactions that await a second client of the pool they occupy;
* **in-doubt outcomes**: a `COMMIT` or a `complete` that was executed, and whose answer was lost;
* **order of hooks**: middleware, interceptor, filter and shutdown hooks run in an order that
  decides what is logged, answered and refused;
* **order of scripts**: a default privilege reaches only tables that are created after it, by the
  role it was given to; a schema that is dropped takes it along; a restore brings some grants back and
  adds others;
* **overlapping requests of a client**: two loads of a panel, answered in either order or not at all;
* **verdicts by observation**: a test that takes any error for a refusal, or any silence for a
  failure, must still mean what it says.

What makes each part correct:

* *queue*: an accepted job is tried at most limit + 1 times, ends exactly once, is dead-lettered
  exactly once when it dies, is never abandoned by a graceful shutdown, and always ends;
* *database access*: no client leaks or is shared, none goes back in a transaction, a call
  commits its own work only, every call and the shutdown end;
* *HTTP*: an error carries the id of its response header, liveness needs no
  dependency, no request is cut off by a deploy, the log says what was answered;
* *admin console*: nothing that arrived before a click is shown after it, an id that is shown
  belongs to the failure that is shown, and the panel always stops loading;
* *Android client*: no frame is half in one language;
* *database roles*: whatever order the scripts run in, `audit_log` is append-only for the runtime
  roles, no role gains what `roles.sql` denies it, and in the documented order they can use
  the tables they need;
* *checks*: a passing verdict is never given to a system or a tree that is broken, and a system
  brought up as documented passes.

## 2. Modules

| Module | Models | Role |
|---|---|---|
| `ReliableWork` | what the queue promises | abstract specification |
| `HealthJobQueue` | `apps/worker/src` and one pg-boss queue | implements `ReliableWork` |
| `HealthJobQueueProofs` | | theorems about `HealthJobQueue` |
| `TransactionPool` | `apps/api/src/database/database.service.ts` | component |
| `ApiServer` | HTTP pipeline, health routes, shutdown | composed with `TransactionPool` (`Pool == INSTANCE`) |
| `DatabaseRoles` | `packages/db`: every script, migrations, `roles.sql` | component |
| `SmokeTest` | `foundation-smoke-test.mjs` | composed with `DatabaseRoles` (`EXTENDS`), an API and a worker |
| `RepositoryChecks` | `verify.mjs` and three of its lanes | component |
| `AdminConsole` | `health-panel.tsx`, `api-client.ts`, `error-boundary.tsx` | component |
| `AndroidClient` | `FoundationScreen.kt`, `LocaleManager.kt`, `MainActivity.kt` | component |
| `TransactionPoolProofs`, `ApiServerProofs` | | theorems about the pool, and about the server as a user of it |
| `DatabaseRolesProofs`, `SmokeTestProofs` | | theorems about the scripts, and about the smoke test among them |
| `RepositoryChecksProofs`, `AdminConsoleProofs`, `AndroidClientProofs` | | theorems about these components |
| `MCHealthJobQueue`, `MCTransactionPool`, `MCApiServer`, `MCDatabaseRoles`, `MCRepositoryChecks` | | instances for TLC |
| `MCClients` | | the two clients in one run, each behaviour about one of them |

Each component module lists its actions in the order of the code and its properties at the end. An
operator commented *Mutant* is a faulty version of the definition that follows it; it is used by
no specification, and shows that a property depends on that definition.

### HealthJobQueue

*State.* The columns of pg-boss's tables that the code depends on (`status`, `retries`,
`deadCopies`, the queues and the stored `policy`), the progress `pc` of `main()` in every
process, `limit` (its environment's `JOB_RETRY_LIMIT`), `cur` (what a worker's polling loop
holds), and the log lines `job_completed` and `job_dead` as sets of jobs. `faulted` is a history variable.

*Actions.* `Start`, `CreateDeadLetterQueue` and `CreateHealthQueue` are the three awaits that open
all three programs; `Send` and `EnqueuerDone` are `enqueue-health`; `Work`, `Fetch`, `Handle`,
`AckComplete` and `AckFail` are the worker's loop, where `Handle` is the whole synchronous callback
(run, log, rethrow) since nothing can interleave inside it; `Shutdown`, `PollEmpty`, `Exit` and
`DrainTimeout` are the graceful stop; `Crash` may hit any process at any await; `CompleteRejected`
and `FailRejected` are acknowledgements that do not reach the database; `Expire` is the
maintenance of pg-boss, which cannot know whether the worker still lives.

*Abstractions.* Retry delay, backoff and expiry times are nondeterminism: a retryable job may be
fetched at any later time, an active one may expire at any time. One worker polls with
concurrency one, as the code asks. Purging of old rows (pg-boss's retention) is left out.

`MetadataDelivered` is the question whether the job that pg-boss hands to the handler carries
`retryCount`. The code casts the job to a type that has it and calls `work()` without the option
that asks for it, so `FALSE` is the program as built; `TRUE` is what the handler was written for.

### ReliableWork

Outcome, number of tries, dead-letter copies and the declared limit. `HealthJobQueue` maps
its row states to outcomes and its retry count to tries (`outcome`, `tries`, `Promise`).

### TransactionPool

*State.* Where each call is, the client it holds, the waiters in order, what the pool does with
each slot, which connections are gone, and per client the server's session (`none`, `open`,
`aborted`) with its uncommitted writes.

*Actions.* One per statement of `withTransaction`: `Connect`, `Begin`, the body (`Write`,
`StatementFails`, `AwaitInner`, `BodyThrows`, `BodyReturns`), `Commit` and `CommitAck` (execution
and answer are apart, since the connection may break between them), `Rollback`, `TxRelease`;
`Exec` and `QueryRelease` for `query`; `End` for `onApplicationShutdown`. Pool bookkeeping, `Break`
and `BreakIdle` are external.

`Swallows` lets an `fn` catch a failed statement's error and go on, which nothing prevents.

### ApiServer

*State.* Per request: its stage, `context` (the AsyncLocalStorage entry), `reqId`
(`req.correlationId`), `header`, `statusCode`, the `answer`; and the log lines with their ids.

*Actions.* `Correlate`, `Dispatch`, then the handler (`Live`; `Ping` and `Pinged` or `NotReady`),
`AnswerNotReady`, `RejectRoute` and `RejectBody` through the exception filter `Filter`, whose
id comes from the fallback chain `ErrorId`. `LoseContext` is the "badly-behaved library" of
`correlation.middleware.ts:25-27`. `Sigterm`, `ServerClosed`, `EndPool` and `Exit` are NestJS's
shutdown order: server first, then `onApplicationShutdown`. A ping is a query of the pool
instance, so it competes for a client, breaks and times out there.

### DatabaseRoles

*State.* `db` is what each database holds, as one record: the roles of its server, who may create
schemas, the owner of each schema and who has USAGE on it, where `migration_owner` has default
privileges, the owner and the grants of each table, the ledger (`applied`), and what the triggers
of `audit_log` refuse (`guard`). Besides it the migrations on disk, the dump files, the `pg_restore` in
progress on each database, and the exit of the last script. `stage` is a history variable: how far
the documented order (roles, migrations as `migration_owner`) has come since a bare database.

*Actions.* A script is an operator on one database's record (`RolesUpTo`, `Baseline`,
`AuditLog`, `Migrated`, `QueueMade`, `Emptied`, `RestoreDropped`, `RestoreMade`, `RestoredRest`), and an action
with its guards and exits: `ApplyRoles` on the host or in the container, and `ApplyRolesFails`, which stops after
one of its statements; `Migrate`, `MigrateDown`, `InstallQueue`, `Checkout` (another commit in
the working tree), `Status`, `Provision`, `Reset`, `Backup`. A restore is one step for each statement of
`pg_restore --clean`: `RestoreStart` (with the triggers), `RestoreDrop` object by object, `RestoreMake` for each
object and then for the rows, and `RestoreRest` for triggers and grants. It may die between any two of them
(`RestoreDies`), and `migrate:status` and the smoke test may look at what is there meanwhile. Most scripts may be
started as any role, since the URL in the environment decides that; reset and backup are started as the
superuser or as `migration_owner`.

*Abstractions.* Each URL names a database on a server of its own, so roles belong to it. Which scripts are one transaction
follows from how they are run: the migrations (node-pg-migrate's default, its ledger before them), reset (`psql -c`
with one string) and pg-boss's installation are; `roles.sql` (`psql -f`) and `pg_restore` commit statement by statement.
Of `roles.sql` the statements that change what the model knows are counted, 1 to 8 in `RolesUpTo`: creating the four roles
is one, and so are the default privileges of one schema. The constant `Stops` says after which of
them psql may stop. A restore drops and makes the rows of all tables as one, and the triggers of `audit_log` as
one; a database under restore is changed by no other script. `torn` is the set of tables that a restore began to replace and did not finish, here or where
the dump was taken; `AuditProtected` and `StatusIsAGate` exempt them, and `UpToDateIsThere` says what is lost by
that. REVOKE and GRANT CONNECT, passwords, sequences, columns, indexes and rows are left out.

### SmokeTest

*State.* The services that run, the variables the test was started with, the next of the eight
records, the verdicts, and the marker job. *Actions.* `Start`, one action per record (the queue
has two: `Enqueue` and the look after three seconds), `Summary`; meanwhile scripts of `DatabaseRoles`
run, `Operate` starts and stops the API and the worker, and `WorkerCompletes` takes the job as
`runtime_worker`. `AuditRefuses` takes any error of the UPDATE for a refusal, as the code does, so what a
PASS means has to come from the other records. A row trigger refuses nothing in an empty
table; the model leaves open whether the table is empty.

### RepositoryChecks

*State.* The tree (module registry and directories, imports, catalogues, style objects), what `verify`
finds in its environment, the lane it is at and the verdicts. *Actions.* One per kind of edit,
`Start`, `RunLane`, `Summary`. `ModulesOK`, `ParityOK` and `Reported` are the three guards as the
scripts compute them; the other lanes pass or fail as they like, and are BLOCKED where the code
skips them.

### AdminConsole and AndroidClient

*AdminConsole.* `status` is the panel's state, `sentId`, `flight` and `answer` are the requests;
`atClick` is a history variable. `Mount` starts one load, or two under StrictMode;
`Recheck` and `Reload` start another one while others are in flight. An id is its load's own, or, where there is no
`crypto.randomUUID`, that of the load before it in the same millisecond (`MakesIds`). A request may be
answered by the API (`ApiAnswers`), be rejected by it as no route (`ApiRejects`), be
answered by somebody else with an error, other JSON or something unreadable (`OthersAnswer`), or time out. The header of an error may
carry the request's id, another one or none, and `IdOf` prefers it, as `api-client.ts:91` does. `Outcome` and `Shows` are `load()` and the
rendering after it, which throws into the error boundary when a 200 answer has another shape. What the API does
with a request that the page has given up is left out, and so is what the API logs: `ApiServer` is about that.

*AndroidClient.* `locale` of the `LocaleManager`, the `Context` that `remember(locale, baseConfiguration)`
keeps, and the frame on the screen; `Compose`, `Toggle`, and `onCreate` for every new
activity or process. Taps may come faster than compositions.

## 3. Runs

| Run | Instance | Shows |
|---|---|---|
| `queue_safety` | 2 workers, 1 job, limits {0, 1} that differ between processes, no metadata, 2 stops, 1 lost ack | types; dead-letter queue first; dead-letter copies exact; no silent abandon |
| `queue_settles` | 2 workers, 1 job, limit 1, metadata, 2 stops, 1 lost ack, fair | honest completion, `job_dead` is final, every job settles, `ReliableWork` is implemented |
| `queue_dead_unlogged` | as above, 1 stop | **violated**: a job dies without a `job_dead` line |
| `queue_attempt` | as built, no faults | **violated**: the second fetch is attempt 1 again |
| `pool_calls` | 2 transactions awaiting 2 queries on 2 clients, fair | every property of the pool |
| `pool_swallowed_error` | the same, with `Swallows` | **violated**: a call returns and nothing is committed |
| `api_requests` | 2 requests of any kind on 1 client, fair | every property of the server |
| `api_logged_status` | health requests | **violated**: the log says 200 where 503 was sent |
| `database_operations` | a local and a remote database, 4 script runs that change something, `roles.sql` stopping after statement 1 or 6, the smoke test at any point | the audit log stays protected, privileges stay least, the documented order works, status is a gate, the smoke test passes exactly what is wired |
| `status_torn_restore` | one database | **violated**: the ledger is full, a table is gone, `migrate:status` says OK |
| `verify_lanes` | one module name in three tiers, one key in two files of two locales, 3 edits | the guards mean what they are for; the exit code hides nothing |
| `clients` | 3 loads, fair; 6 taps or new activities | the panel is fresh, settles, and prints the id of the failure it shows; a frame is one language |

Bounds. *Queue*: a job's row interacts with workers, never with another job's row, so one job with two
workers already has a stale worker, a crashed one and a successor. `failUntilAttempt` ranges over
absent, the last permitted attempt and one more than that; limits 0 and 1 have both a first
attempt that is the last one and a retry. `MaxStops` = 2 lets both workers crash, or one crash on
the first and on the last attempt; `MaxLost` = 1 gives a completed handler a failing row.
*Pool*: as many transactions as clients, each wanting one more, is the smallest exhausted pool.
Every call is made at most once, and a slot may break as often as it is opened. *API*: two
requests on one client make one wait for the other.
*Databases* (`MaxOps` = 4; backups, checkouts and starts or stops of a service count): roles, migrations and queue are three runs, and
the fourth is any script after them, a reset or a checkout for example; backup and restore of a migrated
database, or a restore into a database with roles, also fit. Two databases let a URL name the wrong one, and the container
connects to the local one whatever its URL says. `Stops` = {1, 6}: the roles exist and nothing is granted, and everything but the default privileges is; the proofs
are for all of them. `status_torn_restore` needs roles, migrations, backup and restore of one database. A script that changes nothing is not counted. The smoke test
begins after a script that succeeded, and at most one event disturbs it (none that would be the last
permitted one); its environments are the documented one, the same without `DATABASE_URL` or without the two others, with the owner's URL as
`DATABASE_URL`, and with a runtime URL left at another database.
*Checks*: `MaxEdits` = 3 holds two imports and the edit of a third module, or a key that
moves to another file in one locale and is edited in the other; one of the edits may come while `verify` runs, and
says nothing then, since `VerdictIsTrue` is about a tree that nobody edited meanwhile.
*Clients*: with three loads an answer may come from before, between and after two clicks, two
loads may be in flight at a reload, and two neighbours may have one id. The console and the app share nothing, so a behaviour of `MCClients` is about one of them
(`app`), and the console's fairness keeps those about the app out of `PanelSettles`. `MaxTaps` counts taps and new activities; two are
a double tap, or a tap and a new activity, and more are longer sequences of these.

`CHECK_DEADLOCK FALSE` everywhere: these systems come to rest when their finite work is done (all
jobs settled and the bounds used up, all calls settled, the process exited). The liveness
properties say instead that everything gets that far.

The violation runs are disagreements between the code and its own comments or documents; they are
quoted under `findings` in `PROJECT.json`.

### Fairness, and why the code justifies it

* *Queue*: weak fairness of each worker's boot and loop steps and of `Expire`. The loop is
  driven by pg-boss's polling timer and expiry by its maintenance timer. That a worker that went
  down is started again is the deployment's doing (rolling restart, `docs/foundation/13-observability.md`);
  the two command-line programs get no fairness at all: nobody has to finish them. Faults are never forced.
* *Pool*: weak fairness of the steps of a call in progress: the event loop runs, a statement is answered or
  fails, `fn` ends, and the connection timeout of `database.service.ts:30` fires. None for the pool serving
  waiters, for new calls, breaks or the shutdown: `EveryCallSettles` rests on the timeout alone.
* *API*: weak fairness of the event loop (`HttpStep`, `ShutdownStep`), nothing for the
  database. `LiveAnswers` holds under that. `EverythingAnswered` additionally assumes
  `DatabaseFairness`, stated as its hypothesis.
* *Clients*: weak fairness of `Mount` and, per request, of `Settles` or `TimesOut`: React runs
  effects, the event loop runs, and `AbortSignal.timeout` (`api-client.ts:59`) fires, the reading of the body included. No
  fairness for the API, the network or the user.
* *Databases* and *checks*: none; people start these programs, and only safety is stated.

### What the models show without a run of its own

Behaviour that the model contains and that differs from a comment or a document, or that a reader
may not expect. No property fails on it: each is either the precondition of a property or allowed by it.

* A restore by `migration_owner` into a database that has default privileges leaves the runtime roles UPDATE
  and DELETE on `audit_log`, where only the triggers still refuse them
  (`BoundaryLostByRestoreOnly` says that nothing else does this); a restore that dies before
  the triggers leaves neither (`torn`). `docs/foundation/backup-restore-rehearsal.md:20-21` and
  `15-stage-5-validation.md:128` say that both protections survive a restore: the rehearsal is one as
  `mohalla_owner`, the superuser, into a fresh database (73-75), which has no default privileges, and there the model says the same. The restore guard compares its target with the text of
  `ADMIN_DATABASE_URL` and knows no other URL of the same database.
* Only `roles.sql` grants default privileges, and never on existing tables (95-96): a reset followed by migrations without the
  roles is not repaired by applying the roles later. `CleanOrderIsUsable` is about the documented order for this reason.
* Through the container, psql is given the user and the database but neither host nor port, so roles may
  land on another server than the migrations (`Opened`).
* `migrate` reads `DATABASE_URL` although `10-environment-variables.md:28` names
  `MIGRATION_DATABASE_URL`, while `migrate:status` prefers the latter: the two may speak of different databases.
* The smoke test says FAIL for an API that does not run at the socket record and BLOCKED at the
  others; a worker slower than three seconds is a FAIL; run as an owner it may install the queue itself.
* A load that was in flight at a click may answer after the later one and replace it: `ShownIsFresh` allows that, and nothing in
  the code promises that the newest wins.
* The module guard sees `from` imports only; a catalogue file of another name satisfies the parity guard and is
  not read by `translate`; the RTL rule sees literals only. The properties are stated for the forms that are seen.
* Nothing in `verify` or CI looks for cycles, although `docs/architecture/06-backend-modules.md:17` says that "a cycle check fails
  the build on any circular module dependency": `ModulesOK` compares ranks, as the guard does, so two modules of one
  tier may import each other.
* `/health/ready` never "returns the driver's error message on failure"
  (`13-observability.md:19`): the controller passes it on, and `Filter` drops the details of every 5xx (`all-exceptions.filter.ts:84`).
* An id that is answered need not be in the log. `all-exceptions.filter.ts:23-25` says that the failure is findable by it, but the
  logger asks the async context only (`structured.logger.ts:35`): where the context is lost, for which
  `correlation.middleware.ts:25-27` provides, the filter still returns an id and its line has none (`LoseContext`, `Filter`). And a
  path that is no route reaches no interceptor, and the filter logs 5xx only (72): the 404 of `RejectRoute` is
  answered with an id, which the console prints, and logged nowhere, although `apps/admin/lib/api-client.ts:14-15` says that a
  reported failure "can be found in the API logs".
* `verify` with `DATABASE_URL` set and the database down ends in FAIL, not BLOCKED.
* A timeout, a failed connection or an answer without JSON is shown without an id, although
  the request had one; an answer of another shape replaces the whole page until it is reloaded.
* The chosen language does not outlive the activity, since each one builds its container; two fast taps cancel out.

## 4. What is proved

Every safety property of the passing runs is a theorem, for every value of the constants: the runs
show it on one small instance, the proofs for any number of processes, calls, requests, databases,
scripts, edits, loads and taps. The assumptions are the `ASSUME`s of the modules, which say what kind of
thing a constant is, and the few hypotheses named below. Hardly any of these properties is inductive as it stands:
the text below says what each proof module adds to make it so, and why.

### The queue (`HealthJobQueueProofs`)

With retry limits up to 20, the range of `JOB_RETRY_LIMIT`:

* `TypeCorrect`, `DeadLetterQueueIsFirst`, `DeadLetterIsExact`, `CompletionIsHonest`, all from `Invariance`
  (`Spec => []IInv`): the invariants `TypeOK`, `DeadLetterQueueFirst`, `DeadLetterExact`, `CompletedHonestly`;
* `Refinement`: `Spec => ImplementsReliableWork`;
* `NoJobIsAbandoned`: `NoSilentAbandon`;
* `DeadLogStaysFinal`: `DeadLogIsFinal`, assuming that all processes have the same limit (`RetryLimits = {l}`).

The last hypothesis is necessary: with differing limits a `job_dead` line may be followed by a retry that
succeeds. None of the theorems needs the metadata, so all of them hold of the program as it is built.

The argument for the first group is one inductive invariant, `IInv`:

* the properties are not inductive: that a job is dead only after its last try depends on
  how `retry_count` relates to the state (`RowInv`: a job to be retried has retries left, a
  failed one has none), and nothing in a single step shows that;
* `DeadLetterExact` needs to know that a row exists before a worker may fail it (`HandlerInv`), and
  that a job is sent once, by an enqueuer that has not sent it before (`BootInv`);
* `CompletedHonestly` needs that the attempt a worker holds is at most the one its row is at
  (`HandlerInv`, with `AttemptMonotone`): a stale worker may complete a job on behalf of a later
  attempt, and what it knows remains true since attempts only grow;
* `DeadLetterQueueFirst` needs what a process has done when it has come so far (`BootInv`).

`NoJobIsAbandoned` needs `LoopInv`, that only a worker that works or drains holds a job, and `DeadLogStaysFinal`
needs `DeadInv`: a job that was logged as dead is at its last try, and its argument makes that try fail as well.
Each part has one lemma, with one step per action. `StepRefines` maps every step: `CreateHealthQueue`
to `Declare` or a stutter, `Send` to `Accept`, `Fetch` to `Try`, `AckComplete` to `Finish` or a
stutter, and `AckFail`, `DrainTimeout` and `Expire` to `Bury` or a stutter (`FailRefines`).

### The pool (`TransactionPoolProofs`)

`PoolTypeOK`, `NoClientLeaks`, `IdleClientsStayClean`, `ReturnMeansCommitted`, `OnlyOwnersCommit` and `ThrowsOnlyInDoubt`
prove `TypeOK`, `ClientsAccountedFor`, `IdleClientsAreClean`, `CommitsOnReturn`, `CommittedOnlyByOwner` and
`ThrowAfterCommitOnlyInDoubt`, for any calls, clients and inner queries. `CommitsOnReturn` assumes `~Swallows`: run
`pool_swallowed_error` shows that it fails otherwise.

The invariant is `PoolInv`. That no idle client has a transaction in progress is not inductive, since it is a call
that hands the client back: `SessionsMatch` says for each stage of a call what its client's session is, with the
stages that may hand it back (`CleanStages`) and nobody else's writes in it. `QueueOrder` says that the queue holds
calls that wait, each once: else two clients could be handed to one call. `BrokenAreBusy`
and `History` (a transaction writes after BEGIN and is committed by COMMIT) serve the two action
properties. `WriteIsKept` follows a write from its session through COMMIT into the database.

### The API (`ApiServerProofs`)

* `ServerImplementsPool`: `Spec => Pool!Spec`. Each step of the HTTP server is a step of `TransactionPool`, whose
  queries are the pings, or leaves the pool alone; the pool's theorems therefore hold in the server;
* `ApiTypeOK`, `ErrorIdAlwaysMatches`, `ReadinessIsItsPing`, `PoolAlwaysOutlivesRequests`:
  `TypeOK`, `ErrorIdMatchesHeader`, `ReadyMeansPinged`, `PoolOutlivesRequests`.

`RequestsInv` adds what a request knows at each stage: header, `correlationId` and context agree once it was
correlated, or the context is lost (`IdsAgree`), the status is the default until the answer (`StatusBeforeAnswer`), readiness answers only after its own ping
settled, and fails only after it threw (`ReadyAfterPing`), and the pool ends after
the server has closed, which it does with no request in progress (`EndInOrder`). That a ping which settled stays settled is the pool's own lemma (`StepsKeepSettled`).

### The databases and the smoke test (`DatabaseRolesProofs`, `SmokeTestProofs`)

For any databases, local or not, any container, and any number of scripts in any order:
`RolesTypeOK`, `AuditAlwaysProtected`, `PrivilegesStayLeast`, `CleanOrderStaysUsable`, `StatusStaysAGate` and the action
property `BoundaryLostOnlyByRestore`, for the scripts alone (`Spec`); and the same with the smoke test among them
(`SmokeSpec`): `SmokeTypesOK`, `ScriptsKeepTheirWord`, `SmokeKeepsTheBoundary`.

A script is an operator on what one database holds, so there is one lemma per script: it takes a `Sound`
database to a `Sound` one (`Keeps`), and `RanStep` lifts them. `Sound` is needed of the dumps too, since a restore
brings an old state back. It says that only the privileged own anything, what support may read, that the table of an applied
migration is there and `audit_log` has its triggers, unless they are torn, and that a runtime role's
privileges on a table are none, SELECT and INSERT, or all of DML. `RestoresFit` says that a restore in progress replaces
tables of its dump, all of them torn until it ends, and `StagesFit` what a database in the documented order grants (`Ready`).

* `PassIsWired`: `PassMeansWired`, where every `RUNTIME_APP_DATABASE_URL` that is set names `runtime_app`
  (`RuntimeDocumented`; line 31 of `docs/foundation/10-environment-variables.md` has it). For another role it is
  false: the UPDATE of `read_only_support` is refused, and that says nothing about `runtime_app`.
* `WiredDoesPass`: `WiredPasses`, where no `MIGRATION_DATABASE_URL` is support's (`LedgerDocumented`), who may not
  read the ledger.

Both rest on `Told`: as long as nothing else acts, every verdict recorded so far says what is the case
*now*, and a completed job means a worker that may update it. The records are made one after the other and a
late one, `queue`, may install the queue itself, so it has to be shown that this changes no earlier answer
(`EnqueueSame`). `Progress` says which records have been made.
That one refused UPDATE means that all mutation is refused is not a fact about the smoke test but about the scripts: privileges
on `audit_log` come and go together, and so do the triggers (`PrivilegesTogether`).

### The checks and the clients

* `RepositoryChecksProofs`, for any module names and keys and any edits: `ChecksTypeOK`, `ParityAlwaysTranslates`,
  `VerdictStaysTrue`. `LanesInv` says that a lane that ran left its finding in the summary while nobody edited.
* `AdminConsoleProofs`, for any number of overlapping loads: `PanelIsFresh` (`ShownIsFresh`) and `ShownIdIsOfTheFailure`
  (`IdIsOfTheFailure`). The former needs that the requests in flight are those of the last click (`InFlightAtClick`), the
  latter that the request of what is shown is over, so its answer does not change any more (`ShownIsOver`).
* `AndroidClientProofs`: `ScreenAlwaysOneLanguage`, with the fact that the remembered Context fits its keys.

### Only model-checked

The liveness properties, which the prover cannot do: `EveryJobSettles`, `EveryCallSettles`, `ShutdownCompletes`, `LiveAnswers`,
`EverythingAnswered`, `PanelSettles`. So are the fairness conditions of the specifications (`ENABLED`): `Refinement` and
`ServerImplementsPool` are refinements of the abstract specifications without fairness.

## 5. External components

pg-boss, pg, PostgreSQL, NestJS and Express are not in the repository. What is assumed:

* pg-boss: `createQueue` leaves an existing queue alone; only an active row completes; a row that
  fails is retried while `retry_count` is below the queue's limit, otherwise it is failed and
  copied to the dead-letter queue in one statement; a rejected handler, or a rejected completion, leads to `fail`;
  `stop` waits for the loop and fails what remains after its own timeout;
* pg: waiters are served in order, a broken or late client is removed on release, `end`
  refuses new callers and waits for the clients in use;
* PostgreSQL: a failed statement aborts the transaction, `COMMIT` of an aborted one is a rollback
  without an error, a lost connection rolls back;
* NestJS and Express: parsers, middleware, router, interceptor, handler, filter in this order; the
  router sets the default status before the interceptor; SIGTERM closes the HTTP server, which
  waits for requests in progress, and then calls `onApplicationShutdown`.
* PostgreSQL's privileges: an owner may do everything with what it owns, a grant on a table needs USAGE on its
  schema to be of use, triggers refuse everybody, default privileges concern tables created later by one
  role in one schema, and `DROP SCHEMA` takes all of this along;
* node-pg-migrate: its ledger is made first, then all pending migrations are one transaction;
* pg-boss's installation: schema and tables are made by whoever comes first, and then left alone;
* pg_dump and pg_restore with `--clean --no-owner`: tables are dropped and created again by the restoring role (with
  its default privileges), rows follow, then triggers and the dumped grants, which are only added; a grant to an unknown role is an error that is skipped;
* React, Next.js and Compose: an effect runs after the first render (twice under StrictMode), a render error goes
  to the next boundary, `remember` keeps a value while its keys are equal, and a state change leads to another composition;
* Socket.IO with NestJS: a plain return value acknowledges the event, `{event, data}` would be emitted instead.

## 6. Not modelled

* Helmet, CORS, Swagger, style sheets, design tokens, CI, Docker and the wrappers: configuration without
  state of its own;
* request validation: no route takes an argument yet, and the pipe is one stateless call of zod;
* environment schemas: their bounds are the constants' assumptions; and Socket.IO's connections;
* the patterns of the secret scan: a list of regular expressions, a lane that passes or fails;
* `runPsqlInline`, Android's HTTP client and its secure storage: nothing calls them. (Reading them showed that the HTTP
  client builds its URL from an uninterpolated literal, so every call would throw.)
* error codes and wording, pg-boss's retention, the `queue_depth` heartbeat (it only reads and logs);
* passwords, sequences, columns, indexes and rows of the databases.

A malformed body is refused before the correlation middleware runs, so its response has no
`x-correlation-id` although `packages/contracts/src/correlation.ts:4-6` says every response has one: the
model contains that step (`RejectBody`) and `ErrorIdMatchesHeader` excludes it by its guard.

## 7. Plan

Every module is written and every safety property proved. What may follow:

1. a specification of the pool without its queue and sessions (a call ends, its write durable or not), which
   `TransactionPool` implements as `HealthJobQueue` implements `ReliableWork`;
2. request validation and the socket gateway, as soon as a route takes an argument or an event changes state.
