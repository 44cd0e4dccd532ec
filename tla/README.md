# NodeNexus API: verification project

NodeNexus API is a FastAPI service that manages remote machines over SSH: nodes,
commands, scripts, schedules, Docker and Compose, templates, audit log, users. Several
replicas of the process share one PostgreSQL database; inside a replica everything runs as
coroutines of one event loop. What is hard to test is what happens *between* two awaits, two
transactions, or two replicas. This directory models those parts in TLA+, checks them with
TLC on small instances and proves the safety properties with TLAPS for every instance.

## Inventory

| Component | State | Operations | Interacts with |
|---|---|---|---|
| Scheduler ownership (`scheduler_ownership.py`, `apscheduler_runtime.py`) | advisory lock and its session; `_acquired`, `_connection`; the owner gauge | `try_acquire`, `probe`, `release`, monitor loop, `stop`, cron job, trigger-now | PostgreSQL sessions, script execution |
| Schedule projection (`schedule_management.py`, `schedule_reconciliation.py`, `schedule.py`) | `script_schedules` rows with `operational_state`; jobs of each engine; readiness | upsert, delete, reconcile at startup and periodically | the engine of each replica, script deletion |
| Script execution (`script_execution_service.py`, `execution_registry.py`, lifecycle service) | `script_executions` rows, in-memory tasks, SSE events | `execute_script`, cancel, timeout | SSH, SSE, scheduler |
| Audit outbox (`audit.py`, `audit_outbox_worker.py`, `audit_event_service.py`) | `audit_outbox` and `audit_logs` rows, request session | `log`, `log_required`, `run_once`, `stop`, retention | every service that changes something |
| SSE (`sse_broadcaster.py`, `events.py`) | queues of 256, history of 100 | publish, subscribe (replays 50), unsubscribe | executions, nodes, Docker |
| Authentication (`auth_service.py`, refresh tokens, users, `_ensure_initial_superuser`) | users, refresh-token hashes | login, refresh (rotation), logout, edits of users, startup | every handler |
| API handlers (`api/v2`, `deps.py`) and application services | the request's session, its items, its semaphore | about 200 handlers, each a guard, a way to spread items, and a service operation | everything below |
| Node management, connectivity, status history, bulk operations | `nodes`, `node_status_history` | create, update, delete, tags, checks, bulk operations | audit, SSE |
| Commands, Compose, Docker | command history; a file per compose command on the node; remote Docker state | execute on one or many nodes; up/down/...; bulk operations with `207` results | SSH, audit, SSE |
| Templates (`template_pack.py`, `template_registry.py`, `template_source.py`) | registries, packs, assets, links, rows of commands and scripts | sync, upload, install, update, uninstall, delete, archive | GitHub, scripts, commands |
| Configuration (`config.py`, `config_service.py`) | all definitions | export, preview, atomic import | persistence, request timeout |
| WebSocket exec (`websocket.py`, `streaming_command_service.py`, `ssh.py`) | connection, process, event queue of 128, command task | accept, command, output, exit, abort, close | SSH |
| Known hosts (`known_hosts.py`, `node_host_key_service.py`) | the `known_hosts` file, one lock | ensure, refresh, verify on connect | ssh-keyscan, ssh-keygen |
| Middleware | request session, timers, counters | commit on response, timeout, rate limit | everything |

Hard behaviours and what correctness means there:

* **Ownership.** A lock granted by the server is lost track of; a replica executes with a stale
  belief; failover. Correct: no second executor but for the two named exceptions, no leaked
  lock, a standby takes over.
* **Projection.** A listing is applied while requests edit both the table and the engine; a
  request dies between its three steps. Correct: ready means restored; jobs converge to the table.
* **Execution.** Results, timeout and cancels race on the same row; waiting tasks; lost writes.
  Correct: no invented success; completed and failed are published once stored and never both;
  an answered cancel settles the row.
* **Audit.** Two workers, crash between delivery and commit, retries, retention. Correct:
  exactly-once, bounded retries, nothing pending for ever.
* **Requests.** Items of one request share a session and a semaphore; commands get lost after
  they took effect. Correct: guards fit effects, a reported success or event is real, intents
  precede effects, every request ends.
* **Access.** Reads of a user in separate transactions, twice by an e-mail that may change
  hands, two refreshes of one token, replicas that start together. Correct: a token is consumed
  once, no answer without a moment that justifies it.
* **Nodes and SSE.** Read-modify-write of tags; an old status that is stale when the row of the
  history is written; bounded queues. Correct: tags are what the operations make of them in the
  order of their writes, the history explains the status where status requests did not overlap,
  a subscriber sees no gap.
* **Templates, configuration.** Transactions that load rows, decide, and write, under READ
  COMMITTED. Correct: nothing is left behind or torn; an import is whole.
* **Sessions and host keys.** TERM/KILL escalation against disconnects; a file rewritten by an
  external program outside the lock. Correct: no process is left that could be signalled and no
  task; a key that was added while nobody rewrote the file stays; a second key has a cause.

`PROJECT.json` lists every component, and every hazard at its line.

## Modules

| Module | Models |
|---|---|
| `SchedulerOwnership` | election of the replica that executes, on PostgreSQL |
| `Scheduler` | what the module above and the next one share: replicas, scripts, faults |
| `ScheduleProjection` (`MCScheduleProjection`) | desired schedules and the jobs of each engine |
| `ScriptExecution` | one batch of `execute_script` with its cancels |
| `AuditOutbox` | requests that record events, and the delivery workers |
| `AuditTrail` | what the outbox promises for one event; `AuditOutbox` implements it |
| `ServiceOperations` | every operation of the application services, as the steps it takes |
| `ApiRoutes` | every handler: guard, distribution of items, operation |
| `ServiceRequests` | what a step does, and requests whose items interleave; composes the two above |
| `AccessControl` (`MCAccessControl`) | logins, refresh tokens, access tokens, edits of users, the first superuser |
| `EventStreams` | the SSE broadcaster and its subscribers |
| `NodeLifecycle` (`MCNodeLifecycle`) | nodes, checks, status history and tags; composed with `EventStreams` |
| `StreamSession` | a WebSocket exec session with its process and queue |
| `TemplatePacks` (`MCTemplatePacks`) | registries, packs and installations as overlapping transactions |
| `ConfigTransfer` (`MCConfigTransfer`) | export, preview and import with paging, deadlock and timeout |
| `HostKeys` | the `known_hosts` file, its lock, and connections that trust it |
| `SchedulerProofs` | theorems about `ScheduleProjection` and `SchedulerOwnership` |
| `ExecutionProofs` | theorems about `StreamSession` and `ScriptExecution` |
| `RequestProofs` | theorems about `ServiceRequests`, with its programs, and `AccessControl` |
| `AuditOutboxProofs`, `NodeLifecycleProofs`, `HostKeysProofs`, `TemplatePacksProofs`, `ConfigTransferProofs` | theorems about the module they are named after; those on nodes include `EventStreams` |

**SchedulerOwnership.** `try_acquire` is three steps: the query is sent (`Start`,
`MonitorWake`), the server grants or refuses (`ServerTryLock`), the answer arrives
(`FinishTry`) or never does (`TryFails`). Stopping in two halves (`StopBegin`, `StopRelease`)
keeps the order of `stop()`: `shutdown(wait=False)` only asks jobs to cancel, so they are still
running when the lock is released (`leaving`), until they end one by one or the process exits
(`Exit`). The server is the environment: a session that lost its client is an
orphan that keeps the lock until `ServerReap`. `FireJob` is a cron job that passed
`owns_execution`; `TriggerNow` is the internal endpoint, which tests a bound method and so
has no ownership guard. A replica runs at most one manual execution per script, a bound.

**ScheduleProjection.** One action per stretch between two awaits of `create_or_update`,
`delete` and `reconcile`. A definition stands for cron, zone, nodes, parameters and grace.
`Unregistrable` says which replica cannot build which trigger (it runs on an older time-zone
database). `touched` is a history variable used by one property only.

**ScriptExecution.** Targets are numbered in list order. What a script does on a node is its
outcome. `AbortEnds` carries the consequence of a cancelled task for the batch: `gather`
passes the `CancelledError` on and no handler of `execute_script` catches it. At the timeout
`gather` is cancelled and raises at the first child that ended as cancelled (`TimeoutRaised`),
so the handler writes its rows while other children still close their connections. `CancelRead`
and `CancelWrite` are two steps because the row is read without a lock. A cancel with
`local = FALSE` misses the registry: it is served by another replica, or the entry has expired.

**AuditOutbox.** One event stands for its request and its row. `Required` and `Before` give
the four orders found in the code: intent then change (node deletion, tags, commands), change
then required event (node creation), change then optional event (script creation, update, clone),
optional event then change (script deletion). Changes are committed by writers with sessions of
their own; optional events live in the request's session, which is committed when the container
closes it, after the response (`Answer`, then `CloseSession`). The container hands an error to
the session provider as a value, so a failing request commits too. The wait of
`min(300, 2^(attempts-1))` seconds is "some time" (`waiting`, `BackoffEnds`). A savepoint that
fails leaves only its row failed; everything of a batch becomes visible in `Commit`.

**ServiceOperations, ApiRoutes, ServiceRequests.** An operation of a service is the sequence
of its steps: a read or a check that may refuse (`check`, `require`), a required audit event
(`intent`), a transaction (`change`), a remote command (`read`, `write`, `exec`, `keep`), the
judgement of its exit code (`strict`, `soft`, `judge`), an optional event (`log`, `logQuiet`),
a history row (`save`), an SSE event, slots of the semaphore (`acquire`, `release`), the key of
a node's address in known_hosts (`trust`, best effort), the file of a compose command
(`scratch`). The steps
come in the order of the code, so a definition of `ServiceOperations` is diffed against one
method. `ApiRoutes` adds each handler's guard (`principal`, `write`, `user`, `superuser`,
`service`) and how it spreads its items (one, gather with and without its own error handling,
batch with intents first). `ServiceRequests` gives every step its effect on the state and lets
items run in any order. Every compose command writes a file of its own on the node, which
nothing removes; without it the command cannot succeed. The read-guarded compose handlers
write it too, and `OnlyWritersChange` says that this file is all they leave. A command may be
lost with or without effect; the request's session is flushed by one item at a time. The
environment may refuse any check and fail any command.

**AccessControl.** One action per transaction of `login`, `refresh_access_token` and `logout`.
`login` looks the e-mail up twice, for the user's id and for the password's hash; an edit
between the two can give the address to another user, whose password is then the one that is
checked (`proved`, and "moved" in `seen`). `AnswersJustified` names this as its only exception.
`rotate` deletes the old token and inserts the new one in one transaction; what the DELETE
returns decides who wins. Users are edited and deleted in between. `seen` records what held of
the user since the request began. Startup of a replica looks for the superuser's e-mail and
inserts; the loser of the unique constraint fails to start and is restarted by its container.

**EventStreams, NodeLifecycle.** Events are numbered. A publication appends to every queue
that has room and forgets the others. A connectivity check is the sequence of gateway calls of
the code; `held`, `meant`, `lapped`, `raced` and `missed` are history variables that say what
a node's status and tags would be without overlapping requests. Tags are written by three
kinds of request: a bulk operation reads and writes under a row lock (`BeginBulk`, `BulkWrite`;
other writers wait), an update that carries tags replaces the list without reading it
(`BeginSet`), an operation on a single tag writes back a list it read before its intent was
recorded. `meant` is what each makes of the tags when its effect comes at its write; a node is
`lapped` from a single-tag operation that wrote back a stale list until an update sets the tags.
A bulk operation is modelled on one of its nodes at a time. An update with both a status and
tags is two requests here, and one whose tags are those the row has is as if it had come first.

**StreamSession.** The handler's loop (`main`), the command task (`task`), the process (`proc`),
the connection and the queue. A start that times out may leave its process running (`strays`,
counted by `timeouts`). A cancellation takes the task from where it waits (`CancelledAt`);
inside the gather of the pumps it skips the rest of the cleanup. Between `create_process` and
the group file the process cannot be signalled. `lag` counts chunks overtaken by the exit event
at a full queue; `blind` records a disconnect at a time when nothing could reach the process.

**TemplatePacks.** A transaction loads the pack it works on (`saw`) and writes only the columns
that differ from what it loaded (`Put`), as SQLAlchemy does; READ COMMITTED lets it overwrite
what was committed meanwhile. `lapped` marks packs whose transactions overtook each other.
Uploads and syncs over the limits of assets, bytes of an asset or bytes of a pack are refused
(`AcceptsAssets`). Asset text and size follow the storage convention (`StoredText`,
`DecodeStored`).

**ConfigTransfer.** Pages of `get_all` are arbitrary subsets of the right size, because the
query has no order. An import stages its rows in one transaction; a unique violation, a
deadlock with another import or a failing database rolls all of it back. The acknowledgement of
a commit may be lost: the rows are there and the answer is an error (`CommitUnheard`). The timeout
middleware answers 504 and the handler runs on.

**HostKeys.** `ensure` looks, takes the lock, looks again, scans and appends; `refresh`
removes the host with ssh-keygen, which copies the file and renames it, outside the lock and
beyond its five seconds if it is slow; then it appends without looking. A removal that fails
(no ssh-keygen, an error of the system, a return code that is only logged) goes on to append as
well (`RemoveFails`). `_is_present` may answer wrongly (`Answers`): no for a file it cannot read
or an entry it does not recognise, yes for a name that is part of another host's line
(`Contained`). `past` records what happened to a host's entries: the causes that the properties
name.

Several histories are exceptions of a property because the code really does what they record,
and the property says what holds otherwise: a job that outlives the release (`leaving`), an
overtaken status (`raced`), a stale list written back (`lapped`, of nodes and of packs), chunks
overtaken by the exit (`lag`), entries lost to a rewrite, removals that failed and looks that
were wrong (`kept`, `past`). Their hazards in `PROJECT.json` say so.

Definitions whose comment begins with `Mutant:` are plausible bugs of the definition that
follows. Each property is known to fail when its mutant takes that definition's place.

## Runs

| Run | Bounds | Shows |
|---|---|---|
| `Ownership` | 2 replicas, 1 script, 4 faults | `NoLeakedLock`, `SingleExecutor`, failover `StandbyTakesOver` |
| `Projection` | 2 replicas of which one cannot register one definition, 1 script, 2 concurrent requests, 2 edits, 1 fault | `ReadyMeansRestored`, `Converges`, `RegistrationSettles` |
| `Execution` | 3 targets, 2 at a time, cancels from two replicas, 1 fault | `EventsTruthful`, `UndisturbedBatchEnds` |
| `Outbox` | 3 events, 2 workers, batch of 2, 2 attempts, oldest event poisoned, 1 fault | `DeliveredExactlyOnce`, `ImplementsTrail`, `EventsSettle` |
| `Requests` | every handler, 2 items, 1 or 2 free slots, 5 principals, any fault at any step | `OnlyWritersChange`, `SuccessIsReal`, `IntentFirst`, `EventsReal`, `RequestsEnd` |
| `Access` | 2 clients, 2 replicas, 2 users, 2 e-mails, 3 tokens, 1 edit | `TokensEndOnce`, `AnswersJustified` |
| `Nodes` | 1 node, 2 tags, 2 requests at a time and 3 in all, a subscriber with a queue of 2, a history of 2 and a replay of 1 | `NoGap`, `HistoryExplainsStatus`, `TagsExplained` |
| `Stream` | queue of 2, 4 chunks, 2 commands | `OneProcess`, `ReachableProcessDies`, `ExitAfterOutput`, `SessionEnds` |
| `Packs` | 2 transactions at a time, 3 in all, releases with colliding names and assets at the limits | `RowsTracked`, `Footprint`, `StoredWhole`, `ArchiveFaithful` |
| `Transfer` | 2 requests, pages of 2, 3 names in 2 tables, another writer | `ImportWhole`, `HandlersEnd` |
| `HostKeys` | 2 hosts, one name part of the other's line, 2 tasks, 2 keys per host, 3 requests | `SingleEntry`, `KeysKept`, `TrustOnFirstUse`, `OperationsEnd` |

`TypeOK` is proved of every module, and also an invariant of the runs `Requests`, `Packs` and
`Transfer`. Proved only are `Agreement`, `NoFalseSuccess`, `CancelSettles`, `RetriesBounded`,
`ReportsHonest` and `EventsRecorded`, which no run repeats.

Why the bounds are enough: two replicas are an owner and its successor, and four faults let each
lose its session, crash and come back. Two requests and two edits let steps of an upsert be
overtaken by another upsert or a delete, on two replicas with different abilities. Three targets
with two places leave one waiting for the semaphore. Three events with batches of two make a
batch that is full, one that mixes success and failure, and one left for the other worker; two
attempts separate retry from failure. Two items are what two items can do to each other in one
session or semaphore, and one slot makes the second wait. Two clients race for one token, and
three tokens let one token be rotated twice, which `TokensEndOnce` forbids. Two requests at a
time overlap in every pair of steps, and a third one finds what they left; three events overflow
a queue of two and roll a history of two. Four chunks fill a queue of two and leave two held
back, one per pump. Two transactions overtake each other, and a third sees the result. Pages of
two over up to three rows of a table give full, short and empty pages, and pages that leave a
row out. Two tasks on two hosts interfere through the file and the lock. The safety properties
of every module are proved without these bounds.

Deadlock is checked in `Ownership`, `Projection`, `Execution` and `Outbox`, which have an
explicit step for states in which everything is over. The other runs bound the number of
requests and may end; that no request hangs is a liveness property of its own (`RequestsEnd`,
`SessionEnds`, `HandlersEnd`, `OperationsEnd`). `Nodes` uses the symmetry of workers and tags,
`Access` that of clients and replicas; both check invariants only.

## Where the code and its documents disagree

`Ownership_NonOwnerNeverExecutes` is expected to fail: runtime-lifecycle.md says that a
non-owner never executes jobs, and after a failed probe the replica says it lost ownership and
starts further cron jobs. These configurations fail in the same way, each with one property that
states what the repository says of itself:

| Configuration | Said | Happens |
|---|---|---|
| `Ownership_LockIsReacquired` | docstring of `start_ownership_monitor` | the adapter never resets `_acquired`, so the monitor probes a dead connection for ever and the lock stays free |
| `Projection_RegistrableConverge` | ADR-003: reconciliation rebuilds missing jobs | one schedule that cannot be registered ends every pass |
| `Execution_OnlyRunningCancelled` | scripts.md: only `running` executions can be cancelled | a finished execution becomes `cancelled` |
| `Execution_CancelAborts` | scripts.md: cancels abort still-running executions | a waiting target is answered as cancelled and then runs |
| `Execution_SuccessIsRecorded` | scripts.md: partial failures do not roll back successes | cancelling one execution leaves finished ones `running` for ever |
| `Outbox_ChangeKeepsEvent` | ADR-011: committed changes do not silently lose their event | the change and its event are two transactions |
| `Requests_CommittedBeforeAnswer` | docstring of `CommitOnResponseMiddleware` | flushed rows are committed after the response |
| `Requests_RetriesRun` | commands.md: retries re-execute with the same node and parameters | the execution is looked up, "retry_scheduled" is answered, and nothing is executed |
| `Access_CreatedOnlyWhenEmpty` | docstring of `_ensure_initial_superuser`: "if no users exist" | the test is the configured e-mail |
| `Stream_DisconnectClosesProcess` | websocket.md: disconnect cancels and closes the remote process | a process that has not written its group file cannot be signalled |
| `Nodes_EveryChangeRecorded` | `node_status_history.py`: "records every status change" | of two overlapping changes one may find nothing to record |
| `Packs_ConflictUninstalls` | templates.md: after a conflict the pack is left uninstalled | the update is one transaction and the pack stays installed |

Other divergences met while reading, without a configuration of their own:

* `trigger-now` has no effective ownership guard (`internal.py:80`, against scheduler.md:76).
* `AuditOutboxWorker.stop` rolls an active batch back (against its docstring).
* Rows of a batch whose process ended stay `running`.
* `_resolve_node_ids` of the Docker bulk service says "deduplicated" and keeps duplicates
  (`bulk_service.py:68-83`).
* `/commands/executions` answers a `batch_id` that no history row has (`exec.py:103`,
  `node_bulk_command_service.py:73`, against commands.md:209).
* A bulk request all of whose items fail is answered with 200 (`_bulk.py:26-29`, against
  reference/api.md:28-30: "`422` when all failed").
* events.md gives a queue size of 128; the code has 256.
* `SSH_KNOWN_HOSTS_AUTO_ADD` is documented as the switch for adding keys (configuration.md:25);
  `refresh_host` adds them regardless.
* `export_config` promises a "complete snapshot" (`config.py:56`); pages without an order over
  a changing table can miss and repeat rows.
* `not_installed` of the template statistics can be negative; the node status "error" is set
  by no check.

## Fairness

Weak fairness of what an event loop and a database do by themselves: a coroutine that can resume
does, a query is answered, a timer ends, PostgreSQL ends dead sessions and resolves deadlocks, a
running worker polls. Nothing is assumed of clients, deployments, cron triggers, administrators
or faults. A remote command, ssh-keyscan and a request's transaction are assumed to end because
each has a timeout. `Converges` and `RegistrationSettles` speak of behaviours in which edits and
faults have ended, as bounds on both guarantee; `EventsSettle` assumes that workers are not all
stopped for good; `SessionEnds` that a process that got KILL on an open connection exits;
`HandlersEnd` holds of paging because the tables' other writer is bounded.

## Proofs

Every safety invariant that a run checks is a theorem, for every value of the constants. A proof
module proves `Spec => []IInv` for an inductive invariant, from the named assumption of the
specification. The assumptions give the constants their types and say that the "nobody" values
are not members of the sets. `PacksAssumption` adds that the contents offered are finitely many
and that an empty file is text, as decoding it always succeeds; `TransferAssumption` adds that
payloads name tables that exist and that names are finitely many, which bounds what paging can
have read. Three proof modules extend two specifications each, which is why the definitions of
one of the two have a prefix (`OwnershipSpec`, `BatchSpec`, `AccessSpec`).

* `SchedulerProofs`, the projection: `TypeOK` and `ReadyMeansRestored` for any replicas,
  scripts, requests and abilities. `IInv` adds what each stage of a pass knows about its
  listing. Ownership: `TypeOK`, `Agreement`, `NoLeakedLock` and
  `SingleExecutor` for any set of replicas and any number of faults. `OwnIInv` =
  types, agreement and absence of a leak, which need each other: the server's reaping frees the
  lock and must not take it from a process with a live connection. Agreement also says whose
  cron jobs run: those of a replica that believes it owns the lock, or that is leaving.
* `ExecutionProofs`, a session: `TypeOK`, `OneProcess`, `ReachableProcessDies`,
  `ExitAfterOutput`. The invariant follows the process through the stages of the task, counts
  the processes left behind against the starts that timed out, and accounts for every chunk:
  sent, queued, held back or lost with the connection. A batch: `TypeOK`, `NoFalseSuccess`,
  `EventsTruthful`, `CancelSettles` for any number of targets. `BatchIInv` adds what each phase
  of the call has not yet written.
* `RequestProofs`, requests: `TypeOK`, `OnlyWritersChange`, `SuccessIsReal`, `IntentFirst` and
  `EventsReal` for any number of items and slots. The argument has a static and a dynamic part.
  The static one (`WellFormed`) says what the properties need of a program and its guard: a
  command that changes the node is the only one and its outcome is looked at (`Once`,
  `Confirmed`), an event comes after what it reports and nothing after it can raise
  (`Announced`), an audited program announces all its effects or none (`Audited`), steps that
  change something stand behind a guard for writers. It is proved for each of the routes of
  `ApiRoutes`, through the operations they share; a slot around an item (`SlottedSound`) and a
  concatenation (`Join`) are dealt with once. The dynamic part does not look at any particular
  program: host keys and compose files are told apart from effects, so that `IntentFirst` can
  say which of them may come before an intent; `ItemOK` relates an item's position in a
  well-formed program to its outcome, its traces and its result, and `GoesOn`, `Fails` and
  `Succeeds` show that a step of the item keeps that. Only the barrier of a batch relates two
  items (`Batches`). Access: `TypeOK`, `TokensEndOnce`, `AnswersJustified`; `AccIInv` adds that
  a token not yet issued has no successor, what each phase of a request has already seen of its
  user, and whose password a login has proved.
* `AuditOutboxProofs`: `TypeOK`, `DeliveredExactlyOnce`, `RetriesBounded`, and the refinement
  `Spec => ImplementsTrail`, for any events, workers, batch size and number of attempts. `IInv`
  adds `Locks` (a claimed row is pending and nobody else's, so what a worker decided is still
  right when it commits) and `Unborn` (a row is committed once).
* `NodeLifecycleProofs`: `TypeOK`, `NoGap`, `ReportsHonest`, `EventsRecorded`,
  `HistoryExplainsStatus`, `TagsExplained`, for any nodes, tags, requests and subscribers and
  any sizes. `IInv` says of the streams that the history and each subscriber's events are
  chains that meet (`Chained`); of a node that is not raced, that at most one request changes
  its status and what that request read is still true (`StatusOf`); of a bulk operation that it
  has its row for itself, so the list it read is still the node's (`Locks`), which is why bulk
  operations never make a node lapped. Steps that leave a node's status alone are dealt with
  once (`StatusKept`), and so are those that touch no tags (`TagsFrame`).
* `HostKeysProofs`: `TypeOK`, `SingleEntry`, `KeysKept`, `TrustOnFirstUse`. The invariant says
  what a task that holds the lock knows about the file (`Cleared`), what an ssh-keygen that has
  taken its copy may still bring back (`Copies`, `KeptInCopies`), and that accepted keys of a
  host with no cause in its past are still in the file (`AcceptedInFile`).
* `TemplatePacksProofs`: `TypeOK`, `RowsTracked`, `Footprint`, `StoredWhole`,
  `ArchiveFaithful`, for any contents, workers, requests and size limits. A transaction writes
  what it planned from a pack and links it loaded several steps before, so the invariant says
  that one that was not overtaken still finds what it loaded (`Fresh`), that no two packs share
  a home (`PacksOK`), and that ids of rows are never used again (`RowsOK`): a link cannot come
  to name the row of another pack.
* `ConfigTransferProofs`: `TypeOK` and `ImportWhole`, for any tables, names, payloads, page size
  and number of requests. The invariant says where the rows come from that a request counts as
  existing (`Covered`), what each phase has not done yet (`Phases`), and that a name is in the
  table or in one open transaction (`Tables`); a commit is the same step whether or not it is
  acknowledged (`CommitStep`). Which table is read next is a CHOOSE of a least
  number, so the module first shows that sets of numbers have one.

Only model-checked: every liveness property (`StandbyTakesOver`, `Converges`,
`RegistrationSettles`, `UndisturbedBatchEnds`, `EventsSettle`, `RequestsEnd`, `SessionEnds`,
`HandlersEnd`, `OperationsEnd`), since fairness and ENABLED are out of the prover's reach.

## Not modelled

Schemas, DTOs, ports and dependency injection declare and have no behaviour of their own.
Formatting, parsing of remote output, SSH transport, migrations and the scripts that generate
documentation are I/O. Of the modelled parts: other SQL dialects and the legacy path of the
scheduler runtime, the step loop inside `_run_remote`, what a retry would run (it runs nothing),
misfire handling of APScheduler, expiry of API keys and their last use, the rate limiter
and the other middlewares without awaits of their own, the contents of reads.

## Plan

1. A composition of `SchedulerOwnership`, `ScheduleProjection` and `ScriptExecution`: what a
   due schedule leads to across failover.
2. An abstract specification of a node's history and tags, and `NodeLifecycle` shown to
   implement it for nodes that are not raced.
3. The rate limiter with an explicit clock, and the expiry of keys and tokens.
