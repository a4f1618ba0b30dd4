# Conductor Engine: a TLA+ verification project

Conductor Engine is a Python task runtime. Callers (an HTTP server, a CLI, a
trigger scheduler, a workflow orchestrator) hand *task submissions* to a
*supervisor*, which persists a *task record*, clears it against a policy,
executes a *capability*, retries or escalates failures, and announces every
move on an *event bus*. This project models that core in TLA+, checks it with
TLC on small instances and proves its main invariants with TLAPS.

Paths below are relative to the repository root.

## 1. Inventory

| Component | Source | State it keeps | Operations | Talks to |
|---|---|---|---|---|
| Task supervisor | `engine/supervisor/service.py` | none of its own besides the rate-limit table; each call holds a private copy of one record | `submit`, `run_submission`, `run_next`, `run_task`, `approve_task`, `cancel_task` | store, queue, policy, retry strategy, escalation policy, guild, event bus |
| Work queue | `engine/runtime/queue.py` | a deque of task ids, bounded or not | `enqueue`, `dequeue` | supervisor |
| Task stores | `engine/runtime/store.py` | one record per task id | `save`, `get`, `list` | supervisor, API |
| Retry, escalation | `engine/runtime/retry.py`, `escalation.py` | none (pure decisions) | `decide`, `should_escalate` | supervisor |
| Policy engines | `engine/runtime/policy.py` | an allow list that may change, or a remote OPA | `evaluate` | supervisor |
| Sandbox | `engine/runtime/sandbox.py` | a child process per attempt | `run` | capabilities |
| Capability registry | `engine/loader.py`, `engine/registry/capabilities.py` | capabilities and execution controls by name | load, `register`, `set_execution_controls` | supervisor, API |
| Rate limiting | `service.py` `_wait_for_execution_window` | last start per capability, one lock | wait | supervisor |
| Trigger scheduler | `engine/runtime/scheduler.py` | last cron slot, pending webhook payloads, idle counter | `poll`, `ingest`, `run_once`, `run` | supervisor |
| Workflow orchestrator | `engine/workflow/` | step results of one run | `run` | supervisor (threads) |
| Event buses | `engine/runtime/bus.py`, `engine/api/bus.py` | subscriber queues | `emit`, `subscribe`, `shutdown` | supervisor, SSE route |
| Cluster registry | `engine/api/cluster/` | engine nodes | `register`, `deregister`, `heartbeat`, `select` | API |
| Guild | `engine/guild/` | failure knowledge entries, meetings | `publish`, `publish_success`, `publish_failure`, `lookup` | supervisor |
| API keys | `engine/api/auth/` | a JSON file, and a copy of it in the server | `generate`, `revoke`, `lookup`, `flush` | API middleware, CLI |
| HTTP API, control plane | `engine/api/`, `engine/control_plane/` | a bounded queue, the server's lifetime | task, workflow, health, event, cluster routes | all of the above |
| Command line | `cli/cond.py` | none; a process with a supervisor of its own | `run`, `task approve/cancel/show`, `guild clear`, `api-key ...` | task file, guild file, key file |

Hard behaviour, and where it comes from:

* *Concurrency.* The HTTP routes are plain functions, so the server runs them
  in a thread pool; workflow batches fan out in threads. Nothing excludes two
  calls from one task, and every save writes a whole, possibly old, record.
* *Partial failure.* The guild, the queue and the store may raise between two
  steps of one call.
* *Restart.* The queue and the callers are lost, the store is not.
* *Several processes.* `cond` commands change the task, guild and key files
  under a running server, which keeps copies.
* *Remote parties.* A proxied task may run although its answer was lost or
  cannot be read, an engine may stop or come back under a new id, OPA may not
  answer.
* *Termination.* Retry loops, a scheduler loop that an exception can end, a
  queue that nothing in the repository drains.

What makes each component correct:

* supervisor: nothing is executed uncleared, attempts stay within the retry
  budget, a task that was started ends, the audit trail is a walk of the status
  machine and the event bus shows the same walk;
* stores: a save or read is one atomic operation on a map, failures change
  nothing, a crash loses at most what was not flushed;
* queue: first in, first out, each id once, bounded;
* scheduler: each due minute and each accepted webhook payload is submitted
  exactly once, the loop stops when told to;
* orchestrator: batches synchronise, results keep plan order, a failed batch
  ends the run, no thread outlives it;
* event bus: a connected client gets every event once, in order, and is
  released at shutdown;
* execution: a task starts only if the configuration permits it or an approval
  it waited for was given, the windows of one capability keep their interval, a
  timeout leaves no work behind except where the code says so;
* guild: outcomes are counted, never invented, and the store returns to its limit
  when a call runs alone;
* cluster: a request is worth at most one execution;
* API keys: a lookup agrees with the file, and a revocation is undone at most by
  commands that overlap it;
* HTTP API and CLI: the answer tells what was saved, queued and run, and what
  needs approval is not run without it;
* registry: what the configuration declares is what the supervisor enforces.

## 2. Plan

Built, most important behaviour first: the supervisor with its lifecycle, the
task stores, the queue; the scheduler, the cron matcher and the orchestrator;
the event bus and the timed part of an execution with policies, rate limit,
timeouts, retries and the sandbox; the task routes and commands with the
capability registry; the cluster registry, the API keys and the guild.

Then the proofs: the supervisor's invariants and its refinement, the local
store, queue, key file and cluster, the timed execution, the event stream, the
workflow and the scheduler; the guild, the routes and commands, the Redis index,
the pages of the stores and the cron matcher.

The plan is carried out: every invariant and action property the runs check is
a theorem. The liveness properties stay with TLC (section 5). No module
reaches a `RECURSIVE` operator.

## 3. Modules

| Module | Models | Role |
|---|---|---|
| `TaskLifecycle` | the status machine of `docs/conductor/task-model.md` as `service.py` implements it | abstract specification of one task's life |
| `TaskSupervisor` | `engine/supervisor/service.py`, `runtime/retry.py`, `runtime/escalation.py`, queue and store by their effect | detailed specification; implements `TaskLifecycle` |
| `TaskSupervisorProofs` | | proofs for any overlap of callers |
| `SupervisorLifecycleProofs` | | proofs for callers that do not overlap on a task; the refinement of `TaskLifecycle` |
| `MCTaskSupervisor` | | budgets and symmetries for TLC |
| `TaskStoreContract` | the `TaskStore` protocol: a map with atomic save and read | abstract specification |
| `LocalTaskStore` | `LocalTaskStore` in `engine/runtime/store.py`, one action per system call | implements `TaskStoreContract` |
| `TaskQueue` | `engine/runtime/queue.py` with test and update as separate steps | |
| `TaskStoreBackends` | the in-memory, SQLite, Postgres and Redis stores of `engine/runtime/store.py` | |
| `TaskStoreProofs` | | proofs about `LocalTaskStore`, its refinement included, and `TaskStoreBackends` |
| `TriggerScheduler` | adapters, ingress, polling service and loop runner of `engine/runtime/scheduler.py` | |
| `CronSchedule` | `CronSchedule` of the same file, against what `crontab(5)` says an expression means | |
| `WorkflowOrchestrator` | `engine/workflow/orchestrator.py`, trace status of `control_plane/contracts.py`, answers of the workflow routes | |
| `EventBus` | `engine/api/bus.py` and the SSE route | |
| `PolicyEngines` | the decisions of `engine/runtime/policy.py` | operators, used by `ExecutionControl` |
| `RetryStrategies` | the decisions and delays of `engine/runtime/retry.py` | operators, used by `ExecutionControl` |
| `ExecutionControl` | the timed part of `run_task`, `engine/runtime/sandbox.py` | composes policies, retries, window and timeouts |
| `CapabilityRegistry` | `engine/loader.py`, `engine/registry/capabilities.py` | operators, used by `ControlPlaneApi` |
| `ControlPlaneApi` | `engine/api/routes/tasks.py`, `health.py`, `server.py`, task commands of `cli/cond.py` | composes routes, commands, registry, queue and store |
| `ApiKeyStore` | `engine/api/auth/store.py`, the middleware of `engine/api/app.py`, `cond api-key` | |
| `EngineCluster` | `engine/api/cluster/registry.py`, `routes.py` | |
| `SharedStateProofs` | | proofs about `TaskQueue`, `ApiKeyStore`, `EngineCluster`, `GuildKnowledge` and `ControlPlaneApi` |
| `ExecutionControlProofs`, `EventBusProofs`, `WorkflowOrchestratorProofs`, `TriggerSchedulerProofs` | | proofs about the modules they are named after; the last also about `CronSchedule` |
| `GuildKnowledge` | `engine/guild/knowledge.py`, `store.py`, `cond guild clear` | |
| `MCTaskStores`, `MCOrchestration`, `MCSharedState`, `MCExecution` | | instances for TLC |

**TaskSupervisor.** `store`, `queue` are the shared state; `pc[t]`, `tid[t]`,
`task[t]`, `failures[t]` and `emitting[t]` are the locals of the call thread
`t` is in; `emitted` is what the bus was told, `executions` a history variable.
A call is split wherever it touches shared state. `RunTask` and the two
`Begin...` actions are the store reads, `LoadTask` the checks that follow it,
`RequireApprovalGate` and `Policy...` the gate, `PeerSuggestions` the guild
lookup, `Start` the save as RUNNING, `ExecuteSucceeds`/`ExecuteRaises` one
execution, `RecordFailure` the save of the failure, then `Retry`,
`EscalateInsteadOfRetry`, `EscalateExhausted` or `GiveUp`. Each transition
saves the caller's whole copy of the record and then emits (`EmitEvent`), two
steps. `Fail`, `SaveRaises` and `Crash` are the ways out that nobody tests.
`queue.enqueue` and `queue.dequeue` are one step here; the race inside them is
the subject of `TaskQueue`.

**LocalTaskStore.** A client takes the file lock, reads, and if it saves goes
through `mkstemp`, `json.dump`, `fsync`, `os.replace` and unlock. `file` is
what other processes see, `disk` what a power loss leaves. `Raise` is an
exception in a system call (with the code's cleanup), `Kill` the death of the
process, `PowerLoss` of the machine; `SyncDirectory` the kernel's own flush of
the renamed directory entry. The refinement maps `file` and `disk` to the
contract's map and durable map, and the instant of a save to `os.replace`.

**TriggerScheduler.** `pc` is the loop runner's position; the adapters keep the
last cron slot and the pending payloads; `clock` moves while the loop sleeps
and while a cycle takes time. Submissions are a history, so that each accepted
payload and each due minute can be counted.

**CronSchedule.** A field is a sequence of parsed tokens, `FieldMatches` the
loop over them with its early returns, `Matches` the conjunction that stops at
the first field that excludes the time; the constructor tries one time
(`ProbeTime`). `Admits` is the reference and shares nothing with the matcher:
it follows `crontab(5)`, where `*/N` counts from the first value of the field
and day and weekday, when both are restricted, are alternatives.

**WorkflowOrchestrator.** Each step of a plan is a thread that runs its worker
and `run_submission`; the main thread forms batches of adjacent steps of one
group, joins, and stops at the first failing batch. `status` is what a step's
own run returned, the copy that `run()` collects and `POST` answers from;
`stored` is the task in the store, which `LaterCall` (an approval, cancellation
or run by somebody else) moves on and from which `GET` derives its answer.

**EventBus.** `emit` runs in any thread and only schedules callbacks on the
event loop; `Deliver` runs one callback, `StreamNext` resumes one generator.
`asyncio` is modelled from how this code uses it.

**ExecutionControl.** Threads with one task each pass the capability's approval
gate (`RequireApproval`) and the policy (`EvaluatePolicy`, or `EvaluationFails`
when OPA is not reachable), wait in the execution window (the lock is held
through the sleep, as in the code), start an attempt and join it. A task that is
held is approved, after which no gate is asked again, or cancelled, or waits.
`setup` is the configuration: approval gate, policy engine, retry strategy,
`inline`, `soft` or `sandbox` execution, interval, timeout, retries; the allow
list and the reach of OPA change at any time (`listed` and `outage` remember). `clock` may advance between any two steps, so every sleep may last
longer than asked; `live` are the executions that really run, so that a soft
timeout's abandoned thread stays visible.
`TaskSupervisor` has the same loop without time but with the store;
both are translated from `run_task`.

**ControlPlaneApi.** A request is loaded, gated and ended in separate steps,
each of which answers with its status code; `Shells` are the clients that run
`cond`, whose queue and registry last for one command and which have no policy.
`LoadCapabilities` computes the registry of a configuration in the loader's
order, with the descriptor that is rebuilt at each access.

**ApiKeyStore.** A request passes at once (`open`) if the server has no active
key in memory; else its lookup is `stat`, a reload if the time is newer, and the
search. Any number of commands load the file, write their changed copy to the
one temporary file and rename whatever is there, in any interleaving; the server
starts, stops with its flush, or is killed.

**EngineCluster.** `select` copies the nodes under the lock and filters them
outside, so heartbeats, registrations and removals fall in between. A proxied
post is on the wire after its sender gave up; its answer may be late, an error,
or no JSON (`AnswerUnreadable`). `unclear` counts the requests that were told to
have failed after they were posted, whatever the code.

**GuildKnowledge.** `publish` gets, counts, saves and trims in separate store
calls. The memory store does each in one step, and while another call is under
way its `list` and `delete` may raise, as the dict changes under them
(`DictChanges`); the file store reads the whole file and replaces it, and any of
its calls may raise. `reported` counts the contexts when a call is made,
`credited` those a call came to, `lost` those a raising call did not save,
`forgotten` what eviction or `clear` removed; `overlapped` says whether calls
ever overlapped, `disturbed` whether they did, or one raised, since a call last
began alone.

**TaskStoreBackends.** One step for each command the store sends; Redis saves
with SET then SADD and lists with SMEMBERS then GETs. The database servers are
external. A filter's result is the subsequence at the positions it keeps;
`Ordered` is the one sequence of a set of ids in the order of the store.

**Instances.** `MCTaskStores`, `MCOrchestration`, `MCSharedState` and
`MCExecution` hold several components that share no state: `part`, fixed
initially, says which of them a behaviour follows, and the others stay at one
initial state. The components are brought in by `EXTENDS`, under names of their
own (`KeysSpec`, `ClusterSpec`, `GuildSpec`, `ApiSpec`, `BackendsSpec`,
`CronSpec`, `FlowSpec`, `ControlSpec`), so that the properties checked and their
assumptions are literally those proved about. One run thus asks one question
(how do stores, triggers, shared tables or executions behave) of all components
it concerns.

Definitions whose name ends in a defect (`...Unchecked`, `...Silent`,
`ShouldRetryOffByOne`, `CountOutcomeOnce`) are plausible bugs kept beside the definition they
distort; no specification uses them. They show that the properties notice.

## 4. Runs

| Run | Instance | Distinct states | Shows |
|---|---|---|---|
| `supervisor_faults` | 1 task, 2 threads, 2 calls, all faults, peer engine | 428,000 | no uncleared execution, attempts within budget |
| `supervisor_overlap` | 1 task, 2 threads, 4 calls, escalation policy | 470,000 | a RUNNING record always has a caller that owes it a final status; trails are walks |
| `supervisor_exclusive` | 2 tasks, 2 threads, 4 calls, crashes, budgets including a negative one | 247,000 | `TaskLifecycle` is implemented; failures are saved before they are acted on; total executions within budget |
| `supervisor_liveness` | 2 tasks, 2 threads, 3 calls, escalation policy | 52,000 | calls return, started tasks end, events mirror the trail |
| `task_stores` | local store: 2 clients, 2 ids, 2 records, all faults; others: 2 clients, 2 tasks, 2 saves, every filter | 149,000 | file intact, contract implemented, lock released; the two ways of paging agree, and a list shows what was saved before it began |
| `orchestration` | cron and webhook adapter, 3 payloads, 18 ticks; six cron field forms; plans of up to 3 steps in 2 groups, later calls on their tasks | 513,000 | each due minute once, payloads in order, loop ends; matcher agrees with cron where steps count alike; batches in order, results in plan order, an ended answer stands, termination |
| `shared_state` | queue: 3 threads, 4 ids, capacity 1; API: 1 HTTP client, 1 `cond`, 2 tasks, queue of 1, 3 requests; 2 keys, 2 overlapping commands, 4 writes, 2 requests; 2 machines, 2 registrations, 2 tries; guild: 2 publishers, 2 keys, limit 1, 3 calls, 1 fault | 3,170,000 | FIFO and bounded overshoot; answers tell effects, gated capabilities run approved; lookups agree with the file and revocations stay; one execution per request; outcomes counted, limit kept |
| `execution` | 2 threads, 8 setups with every policy engine, strategy and mode, gated and not; bus: 1 emitter, 2 events, 2 clients, shutdown | 249,000 | windows apart, no stray work but by soft timeouts, start only when permitted or approved, tasks end or wait for approval; streams in order, complete and released |
| `finding_escalated_runs` | 1 task, 2 threads | | *violation*, see section 6 |
| `finding_completed_not_final` | 1 task, 1 thread, guild faults | | *violation*, see section 6 |
| `finding_queue_never_drained` | as `shared_state`, HTTP clients only | | *violation*, see section 6 |
| `finding_yaml_approval_lost` | as `shared_state`, HTTP clients only | | *violation*, see section 6 |

*Bounds.* `MaxCalls` bounds the calls callers start (`run_next` excepted);
four calls are enough for a submission, an approval and two overlapping
`run_task` calls. Two threads show every pairwise race of one record; the
proofs cover any number. `RetryBudgets` contains 0, a budget with a retry and,
in `EdgeBudgets`, a negative one. `supervisor_faults` makes two calls only
because every step may fail. `MaxTime` gives the scheduler three cron slots and
`IdleCap` the backoff's whole range; one emitted event more than a client wants
shows filtering. In `shared_state` a queue of one is full after the first
submission, three requests are a submission, an approval and a run that
overlap; four key writes by two commands generate and revoke both keys in any
overlap, and two requests are one before and one after a change; two
registrations of two machines include one machine registered twice; a guild limit of one makes
each second key evict the first. In `execution` `MaxTime` bounds only the time
that passes while nobody waits: windows, timeouts and delays always elapse.
Runs without a deadlock check are those in which the system
may rest: all calls made, the loop ended, all plans run.

*Symmetry.* Threads, and tasks where they are interchangeable, are symmetric in
the supervisor runs that check safety. The other runs use none.

*Fairness.* Every fairness condition is weak and on the steps of a call, a loop
or a callback already begun: the interpreter schedules each thread, `fcntl`
locks are released by their holder, sleeps end, and collaborators return
(capabilities have `timeout_seconds`, the others are assumed to). In
`ExecutionControl` time passes and threads step, but only executions without
a timeout are assumed to end: those with one may hang. Callers owe nothing: nobody
is assumed to approve, to submit or to call `run_next`, of which the repository
has no caller (`engine/api/routes/tasks.py` lines 211-212 mention a background
drainer). So there is no property that queued tasks are ever run, and
`TasksEnd` lets a task wait for an approval for ever.

## 5. Proofs

Every theorem holds for all values of the constants its module declares: any
number of tasks, threads, clients, steps or adapters, any budgets and
intervals. All 27 invariants the passing runs check are theorems, and of the 13 action and
temporal properties the four that are not liveness.

`TaskSupervisorProofs`, for any overlap of callers.

* `TypeCorrect`, `ClearanceTheorem` (`ClearedBeforeExecution`) and
  `BudgetTheorem` (`AttemptBudget`) hold under all faults. None is inductive
  alone: a thread executes with a copy loaded long ago and other threads
  overwrite the store, so `SupervisorInv` says of *every* copy, stored or
  local, that it satisfies `RecordOK` (its trail shows a clearance once it was
  approved or attempted; its attempts are within budget), and of each thread
  that its copy fits the label it is at (`LabelOK`). A save then moves a good
  record from one place to another.
* `RunnerTheorem` (`RunningHasRunner`) assumes that no guild call, no save and
  no process fails. Every action is first shown to be one of a few kinds
  (`SaveStep`, `MoveStep`, `LoadStep`, `ReturnStep`, ...); only a thread that
  saves RUNNING makes a task RUNNING, and it stays its runner until its own
  next save.
* `WalkTheorem` (`AuditTrailIsWalk`) allows crashes but no failing guild call or
  save. `WalkInv` says that every copy's trail is a walk that ends in the
  copy's status, and what the status may be at each label.

`SupervisorLifecycleProofs`, for `ExclusiveCallers` (a call on a task begins
when no other is under way). `ExclusiveInv`: one caller per task; its copy and
the stored record agree at every label; the failures in the trail and the
executions are those the caller counted.

* `DurableFailures` (`FailuresAreDurable`) and `ExecutionBudget`
  (`ExecutionsWithinBudget`) hold under every fault, crashes included.
* `LifecycleRefinement` (`RefinesLifecycle`) allows crashes but no failing guild
  call or save, each of which breaks it: every save is a move of
  `TaskLifecycle`, every other step a stutter.
* `MirrorTheorem` (`EventsMirrorTrail`) allows neither failing saves nor crashes,
  between which and the emission an event is lost. `MirrorInv` relates what the
  bus was told, the stored trail and the entry still to be emitted.

The hypotheses on faults are the ones of the runs, and they are needed: section
6 tells what happens without them.

`TaskStoreProofs`.

* `LocalStoreTypeCorrect`, `IntactTheorem` (`FileIsIntact`) and
  `LocalStoreRefinement` (`Spec => RefinesContract`) hold under system call
  failures, kills and power losses. `IInv` adds to the types that exactly the
  lock's holder is at a locked label (`LockInv`), that the visible file and the
  one on disk are whole and flushed (`IntactInv`), and that what the holder read
  is still what the file holds (`HolderInv`). The last is what makes
  `os.replace` of a whole new file an atomic save of one record.
* `ListedTheorem` (`ListedAfterSave`): in `BackendsInv` stamps grow from the
  list's promise over the acknowledged save to the store's record
  (`StampsGrow`), an acknowledged id is in the Redis index, also after a
  connection was lost between the two commands (`Indexed`), and a list between
  its GETs has or will read every promised task, each once (`Reading`).
* `PagesTheorem` (`PagesAgree`) is about the two ways in which the stores cut
  pages, not about what a list finds (that is `ListedTheorem`). It holds of
  whatever the stores hold, so it needs no invariant but facts about the operators: every finite set of ids has
  an ordering, each id at the place its number of predecessors gives
  (`OrderingExists`); a filter keeps as many positions as ids
  (`SelectedOfOrdering`); slicing in Python and LIMIT with OFFSET cut the same
  page (`MemoryPage`, `SqlPageFacts`), and adjacent pages join (`PagesFollow`).

`SharedStateProofs`.

* `FifoTheorem` and `OvershootTheorem`: `QueueInv` conjoins types,
  `FirstInFirstOut` and `OvershootBounded`; the count of threads between test
  and append is what makes the bound inductive.
* `LookupTheorem` (`LookupReflectsFile`) and `RevocationTheorem`
  (`RevocationStays`, an action property), for any number of overlapping
  commands: a server is never dirty, so its flush writes nothing; every copy on
  its way to the file, the temporary file included, belongs to a command under
  way; equal modification times mean equal entries (`KeysInv`). The revocation
  is only as safe as that: commands that hold an older copy are excepted, and
  they do undo it (section 6). `TimeTellsEntries` also gives the second half of
  `LookupReflectsFile`, that a server which has loaded the file as it is lets
  nothing pass while a key is active.
* `RoutedOnceTheorem` (`RoutedOnce`): `Accounted` balances, for each request,
  posts on the wire, executions, lost or unreadable answers and what the client
  was told.
* `OutcomesCountedTheorem` (`OutcomesCounted`) and `LimitTheorem`
  (`LimitWhenQuiet`): `GuildInv` says that no copy, stored or held by a caller,
  counts more than the calls came to (`NothingInvented`); that calls which never
  overlapped are alone (`Alone`), hold what the store holds (`CopiesCurrent`)
  and balance counts, evictions and what raising calls left (`Ledger`); and that
  a call that began alone and was not disturbed will still trim with a list that
  includes what is there now, or the records it is not about to delete are
  within the limit (`TrimCovers`).
* `AnswersTheorem` (`AnswersTellEffects`): `ApiInv` says of each request what it
  has done by the step it is at (`InProgress`) and, once answered, what its code
  stands for (`Told`); steps of others only add tasks and never change a task's
  capability (`Extends`), and the registry stays as it was loaded.
* `GatedTheorem` (`GatedRunsApproved`): a request that has passed the gates for a
  gated capability holds a record that was read or saved as approved, and an
  approved record has its approval.

`ExecutionControlProofs`: `WindowsTheorem` (`WindowsApart`, an action property:
the lock held through the sleep makes the sleeper's wake-up time the end of the
interval; it speaks of windows granted, an attempt may begin later and a retry
asks for none), `ClearanceTheorem` (`StartedOnClearance`: a thread beyond the
gates is permitted by the configuration, the list as it was at some time, or an
outage with an engine that fails open, or was held and approved) and
`StrayWorkTheorem` (`OnlySoftTimeoutsLeaveWork`; `WorkAccounted` counts
executions nobody waits for against timeouts).

`EventBusProofs`: `StreamTheorem` (`StreamInOrder`). An event on its way to a
client is at one of four places, the emit's rest, the loop's callbacks, the
client's queue or the client; `BusInv` says that events pass them in order and
that none is missing from all four while the client is connected.

`WorkflowOrchestratorProofs`: `BarrierTheorem`, `ResultsTheorem` and
`TraceTheorem`. `FlowInv` follows the first step of the current batch: what is
before it came back without failure and has its records, what is after the
batch has not begun, and a thread was given the records that were there.
`TraceTheorem` (`EndedAnswerStands`) rests on the relation of `stored` to
`status`: later calls move only tasks that had not ended, so the answers that
show every task ended cannot change.

`TriggerSchedulerProofs`, over `LoopInv` (what the loop holds at each step
belongs to the adapter it polls).

* `CronTheorem` (`CronOncePerSlot`): `CronInv` says that `_last_emitted_slot` is
  the latest minute served, that no minute was dispatched twice, and, when a
  longest sleep with two cycles fits into a minute, that the ticks `Left` until
  the adapter's turn end before an unserved minute does.
* `DeliveryTheorem` (`DeliveryInOrder`): `DeliveryInv` looks at the line of an
  adapter, submitted items, dispatches in hand and pending payloads. A delivery
  appends to it, a submission and a pop leave it alone or insert items of other
  adapters, a raising mapper or sink cuts a part out. Each is a lemma about
  sequences (`PayloadJoins`, `ForeignBetween`, `PartDropped`).
* `MatchesTheorem` (`MatchesAsDocumented`), over any expression of parsed tokens
  and any times: `CronScheduleInv` keeps the verdict that of the time asked
  about; `TokenMeaning`, `FieldSound`, `FieldComplete` and `MatchesEveryField`
  lead from a token's test to cron's meaning of the expression. `TokenMeaning`
  needs that no step of more than 1 stands in day or month, `FieldComplete` the
  documented forms (a list after `*/N` is never looked at), and exactness that
  day or weekday is open; without the first and the last it is not so (section 6).

Assumptions are the `ASSUME`s of the modules, which TLC evaluates in the runs
(`ConstantTypes`, `NoTaskIsNone`, `QueueConstants`, `NoNodeIsNoId`, `ControlConstants`, `LevelConstants`,
`BusConstants`, `FlowConstants`, `SchedulerConstants`, `GuildConstants`,
`ApiConstants`, `BackendConstants`, `CronConstants` and the local store's): types of
the constants, distinctness of the values used for `None`, a finite set of
threads in the queue and of record keys in the guild (16 hexadecimal digits), a
bounded queue in the server, and list arguments that are not negative, as the API
and the CLI require. One conjunct of `SchedulerConstants`, that powers of
the backoff multiplier are positive, is plain arithmetic, stated because it
needs an induction the provers do not have.

Only model-checked: liveness, which needs fairness and `ENABLED`
(`CallsReturn`, `StartedTasksEnd`, `LockIsReleased`,
`AcceptedIsHandled`, `StopEndsLoop`, `WorkflowsEnd`, `TasksEnd`,
`EventsReachClients`, `ShutdownEndsStreams`).

## 6. Where the code and its documents disagree

* `finding_escalated_runs`: `run_task` does not look at the stored status again
  before it saves RUNNING (`service.py:407`), so an overlapping call overwrites
  ESCALATED, which `docs/conductor/design-integrity.md:25` rules out.
* `finding_completed_not_final`: `publish_success` is inside the `try` around
  the execution (`service.py:453`); if it raises, a COMPLETED task is retried
  and may be saved as FAILED, a move that `docs/conductor/task-model.md:58`
  does not have.
* `finding_queue_never_drained`: the server's bounded queue
  (`engine/api/server.py:123`) is filled by every submission and drained by
  nobody, so it stays full however many tasks complete, while
  `engine/runtime/queue.py:50` advises to "Wait for tasks to complete before
  submitting more."
* `finding_yaml_approval_lost`: `engine/loader.py:63` sets `require_approval` on
  an object that the built-in capabilities rebuild at each access, so a flag
  "declarable in YAML" (`docs/conductor/roadmap.md:146`) gates nothing there.

Four more statements of the documents are refuted by the models; TLC finds a
short counterexample as soon as one is put as an invariant, but they have no run
of their own, and the properties of the runs say what holds instead:

* "Once at least one key exists, authentication is enforced"
  (`engine/api/auth/store.py:103`; `app.py:81`): the middleware asks for active
  keys in memory before the lookup that would reload the file
  (`engine/api/app.py:139`), so a server started without keys never enforces one
  generated later. `LookupReflectsFile` speaks of servers that have loaded the
  file as it is.
* "HTTP endpoints return 429 when queue is full" (`CHANGELOG.md:27`,
  `docs/conductor/roadmap.md:181`): an approval with `run=false` and a full
  queue ends in an uncaught `QueueFull`, 500, after APPROVED was saved
  (`engine/api/routes/tasks.py:248`). `AnswersTellEffects` takes a 500 to tell
  nothing.
* 400 means "No healthy engines match the requested tags"
  (`cluster/routes.py:370`): an engine's answer that is no JSON raises a
  `ValueError` (`cluster/routes.py:413`), which is answered 400 after the task
  ran. `RoutedOnce` counts it like a 502.
* "Matches 5-field cron expressions"
  (`docs/conductor/opencode-agents/scheduler.md:23`): `value % step`
  (`scheduler.py:46`) counts from 0, cron from the first value of the field, so
  steps in day and month match at other times (`*/2` in the month field matches
  February, not January); day and weekday, both restricted, are both required.
  `MatchesAsDocumented` is about the other expressions.

Three smaller ones, of the same kind:

* the cron constructor is to "fail fast" (`scheduler.py:82`), but looks at later
  fields only if the earlier ones match 2026-01-01: `* * * */2 1,x` is accepted
  and raises in `poll`;
* `flush_usage` is to "Persist usage timestamps to disk" (`auth/store.py:177`),
  but `lookup` does not set `_dirty` (`auth/store.py:173`), so it never writes;
* `GET /v1/workflows/{id}` is "Useful for polling a running or completed
  workflow" (`engine/api/routes/workflows.py:95`), but between two batches the
  status derived from the stored tasks (`control_plane/contracts.py:34`) is
  "completed". `EndedAnswerStands` is about the time after `run()` returned.

Seen while modelling, and part of the models without a run of their own:

* an exception from the guild after the last attempt, before FAILED is saved,
  leaves the task RUNNING with no caller (hence `RunningHasRunner` and
  `StartedTasksEnd` are checked without guild faults);
* the attempt counter is raised before the escalation policy is asked, so an
  escalated task shows an attempt that was never made;
* `BoundedTaskQueue` can exceed `max_size`, the "maximum capacity", by up to one
  entry less than there are threads;
* a payload whose mapper raises is dropped together with those dispatched in
  the same poll, after the API accepted it; an exception in `submit` ends the
  scheduler loop;
* later steps of a workflow run after a step that ended escalated, denied or
  awaiting approval: only FAILED stops a plan; steps of one group that are not
  adjacent do not run together;
* a submission refused with 429 leaves a PENDING record; an approval whose
  capability is gone answers 400 after the save;
* `cond task approve --no-run` enqueues into a queue that ends with the
  process; `cond` has no policy where the server has the risk policy;
* retries do not wait for the execution window; a thread sleeping in the window
  holds the lock for every capability; work given up by a soft timeout goes on;
* two overlapping `cond api-key` commands undo each other's changes, a revocation
  included: each saves the whole file as it loaded it, through one temporary
  file. The key file's modification time is assumed to grow with every save;
* an engine that registers again leaves its old entry; nothing expires by
  `last_seen`; a retry after a 502 may run a task twice;
* overlapping `publish` calls lose counts; in the file store they may bring back
  records that were deleted, and in the in-memory store `list()` raises when the
  dict changes under it, so that either is over its limit until a later trim;
* the stores list in different orders (id, creation); a Redis save is two
  commands and can be cut between them;
* a workflow with an empty plan is answered "pending" by `POST` and 404 by `GET`;
  `POST /workflows` answers with the derived status, whatever the validator said.

## 7. Not modelled

* Capability bodies (HTTP, files, MCP tools, memory) and the memory providers:
  external I/O that succeeds, fails or hangs, which is how the models see it.
* Guild meetings and the scoring of peer suggestions: read-only analyses over
  records the models keep.
* The list, snapshot and capability routes, the listing commands of `cond` and
  the health checks of single components: one read, copied into a response.
* Request parsing, response models and most of `control_plane/contracts.py`,
  which copy fields; the null and logging event buses, which keep no state.
* The database servers behind the SQL and Redis stores, `asyncio`, `fcntl` and the OPA
  service: external, modelled by what the code relies on.
