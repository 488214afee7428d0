# A verification model of OneAI

OneAI is a Rust workspace for AI agents: an engine (agent loop, tools, memory,
model providers), the surfaces that drive it (bus, app server, gateway,
scheduler, bindings), and a cloud control plane, the orchestrator, that runs one
engine container per user session.  This directory holds TLA+ modules of the
parts whose correctness depends on the order of concurrent steps, the TLC
configurations that check them on small instances, and proofs checked by TLAPS.

There are five models: the lifecycle of a cloud session
(`SessionLifecycle.tla`), a session of the engine (`Engine.tla`), the walk over
a workflow graph (`GraphWalk.tla`), the cron scheduler (`CronJobs.tla`) and the
client of an MCP server (`McpManager.tla`).

    tlc -config sweeps_leased.cfg MCSessionLifecycle   # any run of PROJECT.json
    tlapm SessionExclusionProofs.tla                   # any module *Proofs.tla

## 1. Inventory

### The orchestrator (`crates/oneai-orchestrator`)

A replica is a process serving HTTP; replicas share a session store.  Per
session there is a row in the store, a container and two volumes named after the
session, possibly archive files, and, on each replica, in-memory liveness data.

| Component | State | Operations | Uses |
|---|---|---|---|
| Session fsm (`fsm.rs`) | the seven lifecycle states | `validate_transition`, `is_resumable`, `is_pending`, `counts_toward_quota` | |
| Session store (`store.rs`, `pg_session_store.rs`) | one row per session: entry (state, handle, archive marker) and lease (owner, expiry) | `insert_if_under_quota`, `cas_transition`, `cas_set_archived`, `force_update`, `remove`, `try_claim_lease`, `renew_lease`, `release_lease`, `release_all_leases` | Postgres, or one JSON file and a mutex |
| Routing table (`registry.rs`) | cache of the rows, activity clock, connection count | the store operations with a cache, `reconcile_with_store` at startup | store, runner |
| Handlers (`server.rs`, `routes.rs`) | none of their own between requests | create, WS visit (liveness check, detached resume, wait, proxy), destroy, graceful shutdown | table, runner, archive |
| Lease guard (`store.rs`) | owner and session | renewal at a third of the TTL, release on drop | store |
| Idle sweep (`idle.rs`) | none between passes | hibernate idle sessions, deep-archive long-hibernating ones | table, runner, archive |
| Archive store (`archive.rs`) | archive files per session | `archive`, `restore`, `remove` | docker |
| Container runner (`docker.rs`) | containers and volumes | `spawn`, `start`, `stop`, `health`, `destroy` | docker |
| Proxy, rate and token quotas, configuration | connection count, token buckets | byte pump, `check_create_rate`, `check_token_budget` | not modelled |

All shared decisions go through the store: a transition names the state it
expects and misses if the row has moved.  Container commands are not in any
transaction with the store.  What makes the code hard:

* every await is a point where another request, a detached resume, a sweep or
  another replica runs, and handlers act on rows they read before it;
* a replica can die between any two steps, and what it began stays begun; the
  next process has a new replica id and finds the leases of the old one;
* a lease is advisory: it gates who starts, not who finishes;
* a container gets a new host port at every start, and the row has to keep up;
* the deep archive destroys the only local copy of the user's data;
* DELETE overrides whatever is going on, by design.

What makes it correct: one task operates a session's container at a time; a
Running row names the newest container; the quota holds under any interleaving;
the states a client sees follow the documented edges; no session stays Creating
or Resuming for ever; the local volume of a sleeping session goes only when the
archive has it.

### The engine and its surroundings

| Component | State and operations | Hard part | What makes it correct |
|---|---|---|---|
| Engine bus (`oneai-bus/src/bus.rs`, `oneai-app/src/directive_pump.rs`) | a bounded channel of directives, pending approvals, the interrupt token; submit, answer, interrupt, one turn at a time | approval against interrupt against a requester that is dropped; panics | every request a frontend has seen can be answered; every turn is heard of |
| Background tasks (`async_task_runner.rs`) | per task a status, a handle, a permit; submit, finish, cancel, notify | a cancellation at every step of the end of a task | the parent is told once, and the truth |
| Agent loop (`agent_loop.rs`, `oneai-app/src/session.rs`) | iterations, retries, a cancellation token, the conversation | each way a turn ends, for each place a cancellation arrives | bounded calls; an interrupted turn acts at most once more; no history lost |
| State graphs (`oneai-workflow/src/state_executor.rs`, `checkpoint.rs`) | frontier, iteration count, conversation, a checkpoint file | forks that finish in any order, crashes and resumes, interrupt points | same conversation whoever finishes first; the budget over resumes; no node skipped |
| Cron scheduler (`oneai-scheduler`) | jobs with next and last fire time, a file rewritten after each change; tick, trigger, forced fire, add, remove, reconcile | tick against trigger, rewrites that overlap, a crash between mark and delivery | a window fires at most once; a removed job stays removed |
| MCP client (`oneai-tool/src/mcp_real.rs`, `oneai-mcp/src/plugin.rs`, `lazy_connect.rs`) | subprocesses, pipes, bindings, registered tools; call, connect, disconnect, reconnect, reload | calls dropped by a timeout in the middle of a frame; requests of the server; disconnect during a call | a call gets its own answer; a disconnect spares calls; the bound connection is a live one |
| Circuit breaker (`oneai-core/src/circuit_breaker.rs`) | per provider: state, failures, successes | reads and writes under different locks | enough failures open the circuit |
| Supervisor (`oneai-supervisor`), A2A (`oneai-a2a`) | instances and tasks with a status | failures between start and registration; concurrent updates | statuses agree with what runs |
| Workflows of steps, group chat, planning | plans, speakers | driven by model output | |
| Persistence, gateway, app server, providers, tools, skills, memory, retrieval, vectors, domain packs | mostly data and I/O | | |
| Evaluation, evolution, tracing, studio, bindings, platforms, packaging | offline tooling, generated code, glue | | |

How they interact: a frontend submits directives to the bus; the pump takes them
one by one and runs a turn of the session's agent loop for each; the loop calls
a provider, asks for approvals over the bus, runs tools (MCP tools among them)
and delegates to background tasks; a background task that ends submits a message
to the bus and so begins a turn of its parent.  A cron job that fires delivers a
prompt to a session.  A strategy of the loop can be a state graph.

`PROJECT.json` lists every component with its status, and forty hazards at the
lines where they bite, with the properties that cover them or why none does.

## 2. Plan

Done, in this order: `SessionFsm`, `SessionStore` and `SessionLifecycle` with
the abstract `SessionContract` it implements; its proofs of types, exclusion,
contract, quota, handles and archive; `CronJobs`; `EngineBus`,
`BackgroundTasks` and `Engine`; `GraphWalk`; `McpConnection` and `McpManager`;
one or two proof modules for each.

Left, in this order:

1. The orchestrator's open hazards: the connection count and the activity clock
   of the idle sweep, two archiving replicas, containers leaked by DELETE, store
   outages and the cache that bridges them.
2. `CircuitBreaker`: lost updates between critical sections.
3. `Supervisor` and the A2A task store: status machines under concurrent updates.
4. Proofs: every safety property of a passing run has a theorem; what is left is
   a contract for the shared store, weaker than `SessionContract`, with its
   refinement.

Modules that are proved about have no RECURSIVE operators, name their
assumptions on constants, and have one action per step of the code.

## 3. Modules

Definitions marked "Faulty variant" are what the code could plausibly have been
(a CAS without its state guard, a quota that counts only Running rows, a shutdown
that does not wait for the mutex).  Each property of the passing runs fails
under one of them.

### Sessions in the cloud

`SessionFsm` has the states and edges of `fsm.rs`.

`SessionStore` gives each store primitive as a function from the old row to the
new one (`CasTransition`, `SetArchived`, `ClaimLease`, ...), with the condition
under which it hits (`CasHit`, `MarkHit`, `Claimable`).  Both backends have the
same effect on a row; Postgres gets atomicity from one statement or transaction,
the file backend from its operation lock.

`SessionLifecycle` has the processes.

| In the model | In the code |
|---|---|
| `entry`, `lease` | the row in the store |
| `box[s]` | the container `oneai-orch-<s>`: absent, stopped or up, and the port of its last start |
| `vol[s]`, `files[s]`, `latest[s]` | the number of the last engine write in the local volume and in the archive; the number of writes made |
| `proc`, `boot`, `sweep` | a replica's life, its reconciliation, its idle sweep |
| `req[c]`, `res[v]` | a handler in flight; the detached resume spawned by visit `v` |
| `pc`, `seen`, `port` of a task | the await it stands at, the row it read and still uses, the handle it got |
| `Post*`, `Visit*`, `Delete*` | `create_session_for_tenant` and `spawn_and_mark`; `ws_session` and `check_upstream_liveness`; `destroy_session` |
| `Resume*` | `resume_session` |
| `Sweep*`, `Deep*` | `sweep_once`, `deep_archive_pass` |
| `Boot*` | `reconcile_with_store` |
| `VisitRenew`, `DeepRenew`, `VisitRelease`, `DeepRelease` | `LeaseGuard`: heartbeat and drop |
| `Crash`, `Shutdown`, `Expire`, `HangUp`, `ContainerDies`, `EngineWrites` | the environment |

One step is one store operation, one container command or one probe.  The
constant `Leasing` selects the backend: TRUE is Postgres, with several replicas;
FALSE is the file, where one process runs at a time.

Abstractions, and what they cost:

* A replica process boots once; a restart is another element of `Procs`, because
  an unpinned `replica_id` is a fresh uuid (`server.rs:110`).  A pinned one is
  not modelled.
* Each request is made at most once.  A retry is another request.
* Idleness, time in hibernation and lease expiry are nondeterministic, so a
  sweep may pick any Running session and a lease may run out at any moment.  The
  connection count and the activity clock are therefore left out.
* `Prompt` is the one timing assumption: when the deep-archive pass reads a row
  (hours of hibernation), no resume of that session is still in flight.
* The two volumes of a session are one.  `Spawn`, `Destroy` and the archive
  operations are one step each, with every failure they can report.
* Store errors and outages are left out, and with them the cache's stale reads.
* `disturbed` records the sessions on which exclusion was overridden: by a
  DELETE while a create or resume was in flight, or by a reconciliation whose row
  had moved or was being operated.  `SoleOperator` and `RunningNamesNewest` speak
  of the other sessions.  `disturbed` never influences a step.

`SessionContract` is what a client may rely on: creation under the quota, the
edges, the two things a restart may do, removal.  `Contract` in
`SessionLifecycle` instantiates it with the states of the rows.

`MCSessionLifecycle` adds the symmetry of interchangeable requests for TLC.

### A session of the engine

`EngineBus` has the channel and the rendezvous of approvals, `BackgroundTasks`
extends it with sub-agents that outlive a turn, and `Engine` extends that with
the pump and the turn, which is the agent loop inside `run_turn_via_bus`.

| In the model | In the code |
|---|---|
| `queue`, `closed`; `Submit`, `Take`, `Close` | the mpsc of `InProcessBus` and its receiver, dropped by the pump |
| `asks`, `pending`, `announced`; `Ask`, `InsertPending`, `Announce`, `Approve`, `Forget` | `request_approval`: take an id, insert the oneshot, broadcast, wait; `submit(Approve)`; a requester that is dropped leaves its entry |
| `task`, `handle`, `aborted`; `SubmitTask`, `SetHandle`, `Acquire`, `Return` | `submit_delegate`: registration, the spawned future with its permit, the handle stored afterwards |
| `status`, `told`; `CheckStatus`, `WriteStatus`, `NotifySuccess`, `Notify` | what the future does when the sub-agent has returned |
| `Cancel`, `CancelNotify`, `Drop`, `Panics` | `cancel` with its abort and its notification; a future dropped or unwound at an await |
| `turn`, `slot`, `token` | the turn of the pump, `interrupt_slot`, the token registered with the bus |
| `Pump`, `Stop`, `EndRun`, `EndRunErr`, `Panicking`, `PumpDies`/`CatchPanic` | `spawn_directive_pump` and `run_agent_with_content`; a panic in the turn, after its report and before the merge too |
| `FillSlot`, `RegisterInterrupt`, `Interrupt`, `RequestInterrupt` | the order in which a turn becomes interruptible, and the two ways to interrupt it |
| `Iterate`, `Spend`, `Infer`, `Respond`, `Limited`, `Stalled`, `StalledAfresh`, `CallFails`, `CallCancelled` | an iteration of `run_loop` up to the decision |
| `Retry`, `RetryResponds`, `RetryFails` | the second call after an empty answer |
| `RunTools`, `Approved`, `Delegate`, `StoreHandle` | acting on a decision |

Of an answer of the provider only the kind of decision is kept.  Left out: the
other directives, the broadcast of yields, prompts, compression, hooks, tool
results, the budget pool (none by default).  An open circuit breaker is an
iteration that may be skipped.  The approvals of tools that run concurrently are
asked one after the other.

Known of the code, in the model and outside the properties: an interrupt before
the token is registered (`session.rs:1603`) is lost for that turn; waiting for an
approval, and a tool that runs, do not see the token, against the comments at
`agent_loop.rs:4466-4468` and `4478-4479`, and the part of a cancelled stream
that was received is acted on, so nothing is claimed of how soon an interrupted
turn ends (`ActsOnceAfterInterrupt`); a panic of the reflection or the decay of
memories between `on_complete` and the merge (`session.rs:1656-1740`) is caught
by the pump and loses a turn that was reported complete, which `CompletedIsKept`
exempts; an interrupt requested during inference ends the
turn as an error and not as paused; a background sub-agent that panics stays
Running and its parent hears nothing, against the comment at
`async_task_runner.rs:588-590` (hence the disjunct of `TasksAreTold`, which also
takes for granted that the caller of a cancellation is not dropped before it
notifies); a
task cancelled before its handle is stored is not aborted; the entry of a dropped
requester stays in `pending_approvals`.  Other `?`s than the one of finding 5
leave the loop in the same way (a cycle of blocking delegations at
`agent_loop.rs:5731`, recovery, a switch of paradigm).

### Walks over state graphs

`GraphWalk` is one run id of one graph, over any number of crashes and resumes.

| In the model | In the code |
|---|---|
| `pc`, `frontier`, `iterations`, `st`, `todo`, `targets`, `branch` | the locals of `run_walk` and of a fork |
| `ckpt` | the file of the run in `FileCheckpointStore`: absent, saved, or torn |
| `Start`, `Resume`, `ResumeFresh` | `execute_with_checkpoints`, `resume` with and without a checkpoint |
| `Begin`, `Exhaust`, `Terminal`, `Delete` | the head of the loop, the terminal step and the end of a run, whose deletion of the file may fail |
| `Ask`, `Grant`, `Refuse` | the interrupt gate of a node |
| `Execute`, `Branch`, `Merge` | a node alone; a branch of a fork on a copy of the state; the merge by node id |
| `EndIteration`, `Complete`, `Truncate`, `Fill`, `SaveFails` | `next_targets`, the save of the checkpoint (truncate, then write) and its errors, which end the walk |
| `Crash` | the process dies anywhere |

A message of the conversation is `<<iteration, node>>`, which is enough to tell
order, loss and repetition.  Node ids are numbers; `InOrder` sorts the branches by
their rank, the number of branches with an id no larger, and `Merge` joins what
each branch added in that order.  The interface with checkpoints is exercised by
tests; the agent loop calls `execute`, which is the same walk without a file.

Known, and outside the properties: a terminal node bypasses the interrupt gate;
branches of a fork route `ErrorOccurred` edges by the error before the fork; a
crash in the middle of a save tears the file, and every later resume fails; a
refusal in the last iteration makes the next resume report completion without
running the refused node, which `NothingSkipped` does not catch, as no checkpoint
moves on; nodes before a refused one run again on resume; a
walk that runs out of budget or of edges counts as `completed`
(`state_executor.rs:845`) and its checkpoint is deleted, where
`state_executor.rs:851-853` says that it persists for a later resume and
`state_graph.rs:496` that completed means a terminal node (`InterruptedIsKept`
does not speak of such walks); two
run ids may be sanitized to one file name.

### The cron scheduler

| In the model | In the code |
|---|---|
| `mem`, `Armed`, `Fired`, `Due` | the map of `FileJobStore`, `next_fire_at` and `last_fired_at` |
| `main`, `tmp`, `content` | what `jobs.json` and `jobs.json.tmp` name, and what is in those files |
| `Snapshot`, `OpenTmp`, `WriteTmp`, `RenameTmp`, `WriteFails`, `WriteFailsUnnoticed` | `persist`: serialize, truncate, fill, rename, and their errors |
| `Tick`, `TickJob`, `CasMarkFired` | the tick and `cas_mark_fired` |
| `Deliver`, `TurnEnds`, `TurnPanics` | a delivery: an agent turn, awaited in line; it may end, never end, or panic, which ends the ticker |
| `TriggerJob`, `ForceJob`, `AddJob`, `RemoveJob`/`RemoveJobLate`, `HangUp` | `/cron/fire`, `force_fire`, the schedule tool; a caller that is dropped |
| `Before`, `Reconcile`, `ReconcileJob` | the file of an earlier process, any of whose rows may lack a next fire; `reconcile` at the start |
| `Advance`, `Crash`, `Restart` | the clock; the process, and what the file gives back |

A schedule is the set of instants it names.  Nothing in the code disables a job,
and ids are UUIDs.  The history variables `overlapped` and `rewound` mark the two
exemptions the properties need because the code does not keep the promise
there: two rewrites that overlap share the temporary file and can publish an
old or an empty `jobs.json`; and `force_fire` with a clock reading older than the
last fire re-arms an instant that was handed out.

Known, and outside the properties: a removal that is acknowledged while
`reconcile` runs can be undone, since `reconcile` has listed the job without a
next fire and upserts the row it listed, armed (`orchestrator.rs:195-199`);
`removed` therefore collects only the removals acknowledged when nothing
reconciles.  A delivery has no timeout (`orchestrator.rs:170`), and nothing
catches its panic: a turn that hangs, or that panics, as that of a Silent job
does when it reads the task-local that only the gateway sets
(`cmd_cron.rs:386`, `cmd_gateway.rs:352-353`), stops the firing of all jobs for
good.  `DueIsTaken` has the end of turns as its antecedent.  Outside the model: the CLI
process that rewrites the same file from its own copy (`cmd_cron.rs`).

### The MCP client

`McpConnection` is a subprocess with its two pipes and the calls that take turns
on them; `McpManager` extends it with the binding of one server's name, the
connection its registered tools use, and the operations on both.

| In the model | In the code |
|---|---|
| `stdin`, `stdout`; a `Piece` | the pipes; half a frame, as a read may end inside one |
| `task[t].buf` | the parser, a local of the future of the call |
| `Send`, `Receive`, `EndOfFile`, `Answered`, `Skip` | `send_jsonrpc`, `read_jsonrpc_response_for` |
| `Asked`, `HandleServerRequest`, `Reply`, `Refuse`, `SendReply` | a request of the server: taken to the reviewer and replied to when the user has decided, or declined at once |
| `TakeMessage`, `Answer`, `Ask`, `Notify`, `Die` | the server (external) |
| `Check`, `Connect`, `SpawnFails`, `Bind` | `ensure_connected`, with the handshake before the binding; `connect_server` begins at `Connect`, whatever is bound |
| `Snapshot`, `Register` | `reload`, from a list taken before |
| `AfterDisconnect`, `Remove`, `ShutdownConnection`, `ShutdownFails` | `disconnect_server`, `reconnect`: the binding goes first, the shutdown waits for the mutex; after a kill that fails the pipes stay open and a reconnect does not connect |
| `Drop` | the timeout of the tool executor, which drops a call wherever it is |

Known, and exempted where a property says so: the bytes a dropped or finished
call has read behind its response are lost with its parser, and a later call
that starts inside a frame never ends (`Stuck`; the agent loop sets no timeout
there); a request of the server whose id is no `u64` is taken for a notification
and never replied to (`mcp_real.rs:1082`, against the comment at 1110), so that
the server may wait for ever with the call (frame kind `unread`); a request
behind the response of the last call waits for the next one; the reply to an
elicitation waits for the user without a timeout (1131-1134); stderr is piped
and never read (512), so a server that logs may stop for ever; a frame with
invalid JSON is never consumed, against line 74; two racing `ensure_connected`
both spawn, `connect_server` replaces a live binding without a race
(`plugin.rs:508-535`), and after a kill that fails (`mcp_real.rs:1195-1200`) the
binding is gone while the process may run: in all three registered tools may go
on calling a subprocess that is not the bound one; `shutdown_all` stops at the
first error.  Not modelled: the HTTP
transports and OAuth, more than one server, the catalog cache, requests larger
than the writer's buffer.  The two rounds of the handshake are one.

## 4. Runs

| Run | Instance | Properties | Shows |
|---|---|---|---|
| `sweeps_leased` | Postgres, 2 replicas, 1 session, a create (whose client may hang up), a visit; hibernation and deep archive on one replica; the other may die or shut down | `TypeOK`, `SoleOperator` | exclusion across replicas, with leases that expire at any time |
| `lifecycle_file` | file backend, 2 sessions, quota 1, 2 creates, 1 visit, 1 DELETE, crash and restart | `QuotaIsKept`, `KeepsContract`, `PendingSettles` | quota, refinement of the contract, and progress |
| `archive_file` | file backend, 1 session, 2 visits, deep archive, 1 container death, 1 engine write, crash and restart | `RunningNamesNewest`, `RedLineAsleep` | the handle and the archive |
| `archive_stale_restore` | file backend, no crash, 2 visits, deep archive, 1 engine write | `ArchiveIsTruth` | violated, see below |
| `delete_without_tombstone` | file backend, 1 create, 1 visit, 1 DELETE, sweep | `TombstoneFirst` | violated |
| `restart_before_expiry` | Postgres, 1 create, 1 visit, a crash and a boot | `PendingSettles` | violated |
| `lease_shared` | Postgres, 1 replica in use, 2 visits, sweep | `LeaseOutlivesGuards` | violated |
| `engine` | a channel of 1, 1 background task, 2 requests for approval, 2 iterations, 2 rate limits, 1 stall, 1 message of the user | `ToldOnceAndTrue`, `AnnouncedIsAnswerable`, `ActsOnceAfterInterrupt`, `CallsBounded`, `CompletedIsKept`, `TurnsSettle`, `TasksAreTold` | turns, interrupts, approvals and background tasks together |
| `engine_retry` | the same, 1 request, 2 messages | `AbortedIsKept` | violated |
| `graph_walk` | 6 nodes with a cycle, a fork, a join, an interrupt point, an error edge and a terminal; 7 iterations; 2 crashes, 2 errors of actions, saves or deletes, 2 refusals | `MergedInOrder`, `BudgetHolds`, `InterruptedIsKept`, `GatedActsAfterGrant`, `NothingSkipped`, `WalkStops` | the walk over crashes and resumes |
| `cron_jobs` | 2 jobs, the ticker and 1 caller, 3 files, instants 1 and 2, 1 call, 1 crash, 1 write error | `ArmedAheadOfTaken`, `DeliveredIsDurable`, `RemovedNeverFires`, `DueIsTaken` | at most once in memory and over a restart; a due job fires as long as turns end |
| `mcp` | 2 tasks, 2 subprocesses, 3 operations, 1 request or notification of the server, 1 death, 1 dropped call | `OwnAnswer`, `CallsAreSpared`, `BoundIsAlive`, `OperationsEnd` | calls, connects and disconnects on one server |

Distinct states of the runs that pass: `sweeps_leased` 495,017,
`lifecycle_file` 580,912, `archive_file` 1,403,537 (up to symmetry of requests),
`engine` 470,704, `graph_walk` 91,976, `cron_jobs` 661,318, `mcp` 633,959.

Why the bounds are enough.

* Sessions: a race is between the few tasks that can work on one session.  The runs
  have a create beside a visit with its resume, either beside the sweeps, two
  visits beside each other and the sweeps (file backend), and a DELETE beside
  creates and a visit.  No passing run has two resumes racing on two replicas:
  that pair rests on the theorem `Exclusion`.  `lifecycle_file` has no sweeps, so
  the edges through Hibernating are left to `ContractKept`.
  Sessions interact only through the quota, so two sessions and a quota of one
  are needed there and one session suffices elsewhere; one crash and one restart
  cover every point at which a process can die.  Ports grow with the number of
  starts, which the one-shot requests bound; `MaxWrites` and `MaxKills` bound
  the rest.
* Engine: one message and the report of one background task give two turns in a
  row on one channel of one place, so a submission waits for the pump; two
  requests let the turn and the task ask at the same time; two iterations and
  one retry of each kind reach every way a turn ends.  With two tasks the run
  exceeds ten million states; contention for permits is left to the proofs, which
  are for any number.
* Graph: seven iterations go round the cycle and exhaust the budget; two crashes
  cover a crash during the resume after a crash.
* Cron: two jobs make a list that a tick works through while a call changes it;
  three files are as many as can be open or named at once; two instants make a
  stale clock reading possible.  The job in the file may be armed or not.
* MCP: three operations are a connect, a call and a call after a dropped one, or
  a call beside a disconnect; the chat of the server can come before, between
  or behind the response, and hang it when its id cannot be read.

Deadlock is not checked.  Every one of these systems may stop: requests,
operations, calls and messages are bounded, the clock has a last instant, a
walk ends, a process stays down, a pump that is shut down stays closed.  That
nobody waits for ever is what the liveness properties say.

### Fairness

| Property | Assumed fair | Because |
|---|---|---|
| `PendingSettles` | steps of a request that has arrived, of a resume, a sweep and a boot; expiry of a lease that nobody renews | tokio polls ready tasks; docker commands return or fail and the health wait has a deadline; the sweep runs on an interval; the service manager restarts a dead orchestrator; expiry is the database clock |
| `TurnsSettle`, `TasksAreTold` | steps of the pump, of the turn, of each task, of a canceller that has to notify, and of a request being announced | each is a future the runtime polls; the call of a provider ends by its own timeouts |
| `WalkStops` | the steps of a walk that is running | actions of nodes return |
| `DueIsTaken` | the ticker with its disk operations; no turn has to end, and the property assumes instead that the ticker comes back from its turns | a spawned task; file operations return |
| `OperationsEnd` | the steps of each task, but not the answer to an elicitation, and no step of the server; the property assumes instead that no call is left for ever to the user, to a server that lives and says nothing, or to a parser out of step | tokio polls the futures of the client |

Nothing is assumed of the user: no request arrives, no approval or elicitation is
answered and no walk is resumed by fairness.  In `lifecycle_file` no client hangs up: a
hang-up drops the handler (`server.rs:242`), and such a row is settled only by
the next restart.

### What the violations show

* `ArchiveIsTruth`: `resume_session` uses the archive marker it read before its
  claim (`server.rs:384`, `414`, `479`).  A deep-archive pass that sets the
  marker in between leaves it on a Running session; the next resume unpacks the
  old archive over newer data.
* `TombstoneFirst`: `destroy_session` ignores a second miss (`server.rs:581`) and
  removes a row that was never Destroyed.
* `PendingSettles` with leases: a process restarted within the lease TTL skips
  the rows of its predecessor (`registry.rs:356`), and nothing looks at a
  Creating row again.
* `LeaseOutlivesGuards`: guards of one replica share one lease row; the first to
  be dropped releases it for all (`store.rs:338`).
* `AbortedIsKept`: an error of the retry of an empty answer leaves `run_loop` by
  `?` (`agent_loop.rs:2941`), and the messages of the whole turn are lost,
  whereas the same error of the first call keeps them.

`RunningNamesNewest` and `RedLineAsleep` are stated for the file backend.  With leases
they fail in the model when a reconciliation or a destroy is delayed past the
operations of another replica that took the lease over; these are the
`force_update` and late-destroy hazards in `PROJECT.json`.  (For the first, a
lease that ran out under a resume is enough: the reconciliation finds the old
container alive, the resume replaces it and dies with its replica, and the row is
forced to Running with the port of the old one.)

`RedLineAsleep` is weaker than the red line of the code's comments, because the
code does not hold that.  `DeepDestroy` looks at nothing (`idle.rs:232-233`): when
a visit resumes the session between the marker and the destroy, its live volume
is destroyed, and what the user wrote since is lost.  The model has that step,
and the formula without the condition on the row is violated by it; the property
speaks of the sessions whose row is still Hibernating when the volume goes.

It speaks of a session that no DELETE is at work on.  It also needs that the
client of a DELETE does not hang up half-way: a DELETE whose second miss was
ignored (see `TombstoneFirst`) goes on against a row that has become Hibernating,
removes the archive files between the export and the marker of a pass, and is
dropped (`server.rs:297`); the pass then destroys the volume, and neither copy is
left.  The theorem says so in its hypotheses; `archive_file` has no DELETE.

## 5. Proofs

Assumptions are the ones named in the modules: that bounds are natural numbers
(`BusAssumption`, `PolicyAssumption`, `EngineAssumption`, `ConnectionAssumption`,
`ManagerAssumption`), that edges join nodes (`GraphAssumption`), that jobs have
schedules (`CronAssumption`), that requests and names do not clash and that the
configuration speaks of existing replicas (`RequestsAreDistinct`,
`NamesAreFresh`, `ConfigurationIsValid`).  Nothing is assumed of the number of
replicas, sessions, requests or tasks.  The four theorems of
`SessionContractProofs` need the file backend and assume `~Leasing` in their
statement; `RedLineKept` assumes `Prompt` and `Impatient \cap Deletes = {}` besides.

| Module | Theorem | Property | Argument |
|---|---|---|---|
| `SessionLifecycleProofs` | `TypeCorrect` | `TypeOK` | inductive: the types, and that a task in flight has a session |
| `SessionExclusionProofs` | `Exclusion` | `SoleOperator` | see below |
| `SessionContractProofs` | `ContractKept`, `Quota` | `KeepsContract`, `QuotaIsKept` | see below; file backend |
| `SessionContractProofs` | `HandlesNewest`, `RedLineKept` | `RunningNamesNewest`, `RedLineAsleep` | see below; file backend |
| `EngineProofs` | `Answerable` | `AnnouncedIsAnswerable` | an id is in `pending` from the moment it is inserted until it is answered, and an id is asked under by one requester |
| `EngineProofs` | `ToldOnce` | `ToldOnceAndTrue` | `TaskInv` ties the place of a task to its status and to who has still to notify: nobody notifies of a status another has written |
| `EngineTurnProofs` | `CallsAreBounded` | `CallsBounded` | `CallsInv`: at each place of the loop, the calls made are paid for by the iterations counted and by the limits and stalls since the last response |
| `EngineTurnProofs` | `ActOnceAfterInterrupt` | `ActsOnceAfterInterrupt` | `LateInv`: a turn that acted after its cancellation stands where no call can begin before the token is checked |
| `EngineTurnProofs` | `CompletedAreKept` | `CompletedIsKept` | `complete` is yielded only on the way to the merge, from which only a panic strays |
| `GraphWalkProofs` | `Budget`, `CheckpointKept`, `GateRespected`, `FrontierDone` | `BudgetHolds`, `InterruptedIsKept`, `GatedActsAfterGrant`, `NothingSkipped` | `BudgetInv` bounds the iterations begun by those the walk, or its file, counts plus those cut short; `OwedInv` keeps the owed nodes inside the frontier that the walk, or its file, holds; `FileInv` says when the file may be absent |
| `GraphWalkProofs` | `MergeOrdered` | `MergedInOrder` | see below; `Types` gives it the types of the conversation and of the branches |
| `CronJobsProofs` | `ArmedAhead` | `ArmedAheadOfTaken` | the clock readings of the ticker and of the callers lie behind `now`; a job is armed past the reading it was taken with |
| `CronJobsProofs` | `DurableDelivery`, `RemovalHolds` | `DeliveredIsDurable`, `RemovedNeverFires` | see below |
| `McpProofs` | `AnswersAreOwn` | `OwnAnswer` | see below |
| `McpProofs` | `CallsSpared` | `CallsAreSpared` | inductive with the types: a shutdown waits for the mutex, and a server exits by itself only when nobody holds its connection |
| `McpProofs` | `BoundAlive` | `BoundIsAlive` | `AliveInv`: a fresh connection belongs to one task (`FreshAlone`), one that a disconnect awaits is bound no more (`AwaitedIsUnbound`), and one that is bound, or on its way there, is open and runs or died by itself (`UsedAreUsable`) |

Exclusion.  Relative to `TypeOK` the invariant is inductive: it ties the place of
a task to the state of the row it operates, so a task can begin to operate only
through a transition that no other operator's row allows, and a row that is being
operated changes state only by its operator or by a step that puts it in
`disturbed`.  `Frame` says that a step preserves the invariant when it changes no
row and starts no operation; `CreatorMoves` and `ResumerMoves` handle an
operator's own step; `OthersMove` handles a transition that misses every operated
row.  The leases play no part in the proof, which is the point: exclusion does
not depend on them.

Contract and quota.  The strengthening is `FileInv`: one replica at a time is
alive (`OneReplica`), only its tasks are in flight (`LiveTasks`), a Creating row
has no handle (`NoEarlyHandle`), and the rows a reconciliation has listed and
not settled are what the store holds (`BootInv`).  With it `RowMoves` shows that every
action changes rows in one of a few ways, `MovesSimulate` that each of these is a
step of `SessionContract` or a stutter, and `MovesKeepQuota` that each keeps the
sum.  With leases neither is claimed.

Handles.  `HandleInv` says of a session that nobody overrode: the handle of its
Running row is the port of its container, and so is the port that a create or a
resume holds between the start of the container and the commit; a reconciliation
that found a container alive found the one its row names; and a container that
is up has a port, so that a start that finds it running names it too.  Most steps
move no port, make no row Running and bring no task to that stretch
(`CalmNames`).  The operator of a container may (`OperatorNames`): by
`SoleOperator` its row is pending meanwhile, and no other task holds a port of it.
`FileInv` is what keeps a reconciliation from probing one handle and writing back
another.

Red line.  `ArchiveInv` says of a pass, from its validation to the destruction of
the volume, as long as the row is still Hibernating and no DELETE is past its
transition: no resume of the session is past its claim (`Claimed`), once the
export is done the archive holds what the volume holds, and at the destroy the
row is marked (`ArchiveSafe`).  The steps of others leave a row that stays
Hibernating with its marker (`StaysAsleep`), and volume and files with it
(`Apart`): a create, a claim of a resume and the engine work on a row in another
state, a DELETE is excluded by definition, and the cleanup of an earlier resume is
what `Prompt` excludes at the validation.  A resume that claims the row takes it
out of the invariant, which is where the property stops.  The sweeps of a dead
replica are gone (`SweepLive`), so there is one pass at a time.

Rewrites and restarts.  `RestartInv` holds as long as no two rewrites overlapped.
Its `FileInv` says that there is one writer at a time, whose snapshot is the
memory and whose temporary file is not yet `jobs.json`: a rename publishes the
memory.  `DurableInv` says that memory and file are armed past everything
delivered, and the file also past a window on its way to delivery; and that the
rows a reconciliation has listed are not older than what was delivered.
`RemovedInv` says that a job whose removal was acknowledged is unknown in memory
and file, that its id is not being added, and that no reconciliation has it on its
list; and of a removal on its way to the file that the memory has it already.  As
only known jobs are listed, marked or forced, none of these brings it back.

Order of the merge.  The ranks of branches at distinct nodes are a bijection onto
`1..n`, so `InOrder` lists each branch once, by increasing node (`InOrderSorts`).
`Flattening` relates a position of the joined sequence to a branch and a position
in what it added; `MergedOrder` takes the least position at which the joined
conversation would not increase and finds none, within a branch or between two.
`MsgInv` adds what the induction over steps needs: every message so far comes
before those of the nodes that have still to act, at most one branch of a fork is
at each node, and a branch has added at most its own message.

Own answers.  `PipesInv` says of everything in a pipe, in a server or in a parser
that it was sent under an id that had been given out already, and that, if a
call waits under that id, it is this call's.  `OwnGrows` says that later ids do
not disturb it, `PipesAreKept` handles the steps that only move pieces, and
`SendKeepsPipes` the one that adds an id.

Only model-checked: the violations, and all liveness (`PendingSettles`,
`TurnsSettle`, `TasksAreTold`, `WalkStops`, `DueIsTaken`, `OperationsEnd`), which
with fairness and ENABLED is out of the prover's reach.  Every safety property
of a passing run has a theorem.

## 6. Not modelled

Within the orchestrator: authentication, read-only routes, the byte pump, rate
and token quotas, image snapshots, the file format, store outages.  Within the
other modelled parts, what section 3 names.

Hazards known and neither modelled nor listed in `PROJECT.json`:

* `circuit_breaker.rs:345`: state read and written back under different locks;
* `serve.rs:74`: a subscriber of the bus that lags loses yields;
* `bus.rs:202`: an approval is awaited without a timeout;
* `async_task_runner.rs:516`: the token pool's counter can wrap around;
* `supervisor.rs:155`, `225`: an instance between its start and its registration;
* `task_store.rs:131` of the A2A crate: an update of a task that was read before;
* `idle.rs:125`: a stop delayed past a resume stops the new container;
* `idle.rs:203`: two replicas that deep-archive one session;
* `server.rs:486`: the removal of archive files delayed past the next pass.

The rest of the workspace is mostly data, wire formats and I/O; the reason for
each component is in `PROJECT.json`.
