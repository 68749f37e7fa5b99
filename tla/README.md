# A TLA+ model of SentinalAI's control logic

SentinalAI investigates production incidents. Alerts arrive at webhooks of a BFF (the
AGUI); a supervisor agent runs an investigation in five phases, calling tool servers
through one shared MCP gateway client; the BFF streams events to browsers and replays old
investigations; operators pause, approve, reject and apply fixes; a background runner
predicts the next incidents. The analysis itself (scoring, prompts, correlation) is
sequential and numeric. What is hard to get right and hard to test is around it:
background tasks and requests that share records, threads that share a budget, a pool, a
client, a token and a token bucket, processes that share a SQLite file and die, timeouts
whose calls go on, and a slot that a later investigation overwrites. That is what these
modules are about.

Paths below are relative to the root of the repository.

## Inventory

| component | state it keeps | operations | hard behaviour | correct if |
|---|---|---|---|---|
| Fix engine and endpoints (`supervisor/fix_engine.py`, `agui/api/investigations.py`, `supervisor/phases/persist.py`) | one proposal per investigation id, its status, approver and application | propose, approve, reject, apply, mark verifying / verified / failed | re-proposal between two steps of a request; background verification on a slot that changed; missing tool servers | nothing is carried out unapproved, twice, in another name or after a rejection; a verdict comes |
| Verification loop (`supervisor/verification_loop.py`) | number of polls and of consecutive stable readings | poll, close ticket, give up | readings that are missing | the verdict is that of the readings (what they say of the service's health is another matter, see `degraded_service`) |
| Event bus, store, WebSockets (`agui/event_bus.py`, `agui/state_store.py`, `agui/ws_manager.py`, `ui/src/api/ws.ts`) | queue, seen keys, stored events, subscribers, connections, the client's last number | publish, process, store, broadcast, connect, replay, drop, reconnect, restart | live events during a replay, lost links, full queue, equal keys | no event is lost before the store or missed by a first connection |
| Intake, deduplication, lifecycle, control (`agui/api/intake.py`, `supervisor/alert_dedup.py`, `agui/api/investigations.py`, `agui/api/control.py`) | dedup rows, investigation records in memory and table, background tasks | webhook, start, dispatch, end, control, tick, restart | cooldown against run time, control against completion, failed reads and writes, lost tasks | of the alerts that could be checked one passes per cooldown, and no other is kept back; each investigation ends; a status tells what happened |
| Playbook and guardrails (`supervisor/agent.py`, `supervisor/guardrails.py`, `workers/base_worker.py`) | call budget, circuits, call pool, group threads, evidence | group step, check, attempt, answer, timeout, failure, collect, checkpoint | races for the budget, late answers, abandoned calls, deadline | budget and circuits hold, no answer is mistaken, no result is lost |
| MCP gateway client, its start (`workers/mcp_client.py`) | published client, start flight, sessions | check, claim, join, build, start, publish, finish, call, drop, reap | single flight, failed, hanging and late starts, drop by another thread | one start at a time, only open sessions are used, nobody waits for ever |
| MCP gateway client, its calls (`workers/mcp_client.py`) | seen signatures, token bucket, OAuth2 token and its lock | suppress, acquire, refresh, invalidate, call, retry | sleeping outside the lock, refresh against invalidate, a start given up while it refreshes, the retry after a 401 | the rate holds, a call is executed once, the newest token is kept, each call returns |
| Workflow engine and middleware (`supervisor/workflow_engine.py`, `supervisor/workflow_middleware.py`) | rows of runs and checkpoints in SQLite | resume, supersede, start, checkpoint, complete, fail, purge | crash between two commits, a locked database at any statement, a run taken for crashed, two calls about one incident, reused ids, a purge that selects before it deletes | a cached answer was produced; a running row is that of a call in progress, or of one that died or could not record its end; listed phases can be restored |
| Operational persistence (`database/ops_persistence.py`) | write queue, writer thread, schema version, file | start, migrate, enqueue, batch, flush, stop | full queue, failing flush, the poison pill, a crash in a migration, a damaged file | only the newest writes can be lost, order is kept, the version is not ahead of the tables |
| Kubernetes executor (`supervisor/k8s_executor.py`) | pending approval tokens | request approval, dry run, gate, live run, audit | one token shown by several calls, a crash with tokens pending | each live run is cleared once and audited |
| Replay engine (`agui/replay_engine.py`, `agui/api/replay.py`) | sessions with pause and step events | start, evict, pause, resume, step, abort | commands that meet the task between two waits, stores that return events out of order or twice | the whole stream in order, controls hold, an abort is final |
| Background runner (`intelligence/background_runner.py`, `intelligence/prediction_store.py`) | predictions, cooldown index, calibrator | cycle, store, expire, record outcome, mark false positive, stop | three kinds of thread that resolve one prediction without a lock, updates of the calibrator that fail in silence, a cycle that waits for a thread when the runner is stopped | one publication per cooldown; the calibrator learns the final outcome unless that update raised; no cycle begins after the loop has ended; nothing stays pending |
| Agent harness, planner, loop controller, conflict detector, notifications, developer loop | see below | | | not modelled, with the reasons |
| Workers, phases, scoring, learning, memory stores, UI rendering, evaluation, tools | none with a protocol | | | not modelled |

Components interact as follows. The intake and the investigations API write a record to
the state store and create a task on the event loop; the task runs the supervisor in a
thread of the default executor. The supervisor's collect phase runs the playbook, whose
worker calls end in the gateway: each goes through duplicate suppression and the bucket of
its server (`GatewayCalls`), gets the shared client or starts one (`McpGateway`), whose
session takes its token from the OAuth2 provider (`GatewayCalls` again). The persist phase
proposes a fix, starts a verification loop in a thread and records the outcome for the
predictions. The fix endpoints, control endpoints, replay tasks and investigation tasks
share the event loop; they publish events to the bus, whose single task stores them and
calls the handlers of the WebSocket connections. The Kubernetes executor hands its requests
and audits to the operational store, which takes them from a queue in a thread of its own.
The workflow middleware wraps an investigation and keeps its result in a file.

## Modules

| module | what it is | proofs |
|---|---|---|
| `FixEngine` | life of the fixes proposed for one incident | `FixEngineProofs` |
| `ApprovalGate` | what the fix engine promises: per fix proposed, approved by somebody, carried out once, or refused; `FixEngine` is shown to implement it | |
| `VerificationLoop` | one verification loop against the true health of the service | in `FixEngineProofs` |
| `EventStream` | events of one investigation from publisher to browser | `StreamProofs` |
| `Lifecycle` | alerts, investigations, tasks, control actions, restart | `InvestigationProofs` |
| `McpGateway` | the shared client and its start flights | `McpGatewayProofs` |
| `GatewayCalls` | a call's way through suppression, bucket, token and retry | `GatewayCallsProofs` |
| `Playbook` | the parallel playbook with budget, circuits and pool | `PlaybookProofs` |
| `WorkflowEngine` | calls about one incident on the durable workflow tables | in `InvestigationProofs` |
| `OpsPersistence` | the operational store: file, start, queue and writer | in `K8sExecutorProofs` |
| `K8sExecutor` | composed with `OpsPersistence`: approval tokens, live runs and audits written through that store | `K8sExecutorProofs` |
| `ReplayEngine` | replay sessions and their controls on one event loop | in `StreamProofs` |
| `Predictions` | the runner and all who resolve its predictions | `PredictionsProofs` |
| `MC...` | instances of the above for TLC | |

`InvestigationProofs`, `FixEngineProofs` and `StreamProofs` extend two modules each, so
`WorkflowEngine`, `VerificationLoop` and `ReplayEngine` call their initial states and
specifications `WorkflowSpec`, `WatchSpec`, `ReplaySpec` and so on.

Definitions keep the names of the code where they have one (`_check_call_preconditions`,
`record_failure`, `is_open`, `try_record`). Definitions that say "Wrong variant" or stand
in a section of that name are plausible mistakes, used to see that each property can fail;
the specifications never use them. `PROJECT.json` maps every other definition to lines.

### FixEngine, ApprovalGate, VerificationLoop

`current` is `_fixes[inv-<incident>]`: every investigation of an incident writes the same
slot, so an agent may replace the proposal at any moment (`Propose`). An apply request is
four stretches of the event loop (`Approve`, `ConstructWorkers`, `BeginApply` ..
`FinishApply`); other handlers run only where the code really suspends, agent threads at
any point. `watch` holds the verification loops of both starters: the endpoint after an
apply, and the persist phase at the proposal. `Discovery` and `Submit` are the answers of
tool discovery and of the executor. `VerificationLoop` adds what one loop reads
(`readings`) of the true health of the service (`health`); `MetricsActions` are the actions
the metrics worker has a handler for, in the run those that `MetricsWorker` registers.

### EventStream

One task takes events from a bounded queue (publishers wait when it is full), drops keys
it has seen, stores, and calls the handlers of a snapshot of the subscribers; a send
suspends. A connection subscribes, acknowledges, reads the history above its `last_seq`
and replays it, while live events come in between. `SeqNum` is a constant, so the
numberings of the real producers are instances: a numbered stream, control events that all
carry 99990, a failure with 9999. A restart empties memory and queue; the table remains,
with the prefix query that the code uses.

### Lifecycle

Every handler is one action, since none of its awaits suspends. `check_and_register` is
one step with its three outcomes: new, duplicate, or an exception before or after the row is
written, which lets the alert through unchecked (`unchecked`). `DedupEnabled = FALSE` is the
pass-through. The last duplicate is remembered (`suppressed`), so that the reason for it can
be looked at. A record is in memory and, with `Dynamo`, in the table; a write to the table
may fail silently, and so may a read, which then finds nothing (`get_state` is the set of
what it may return). A task is created, queued for a thread, executing, finished, or lost in
a restart. A control request that a client repeats is a new action. The webhook task's import
fails, as it does in the code, so only investigations started by hand call the supervisor.

### McpGateway and GatewayCalls

A wave is one attempt to build and start a client, with its flight, client and session.
Actions end where another thread can interfere; what happens under the lock is one action.
A start may fail, hang beyond its timeout and open its session later; the reaper then stops
it, or tries to and fails, and the session is leaked: `_stop_abandoned_client` swallows what
`stop` and `close` raise. A call may succeed, fail, time out (the caller drops the published client) or get a
401 (drop and one retry).

`GatewayCalls` has what surrounds this, with the start condensed to a leader and joiners.
A thread marks its signature, then waits for the bucket, which it leaves while it sleeps;
time is counted in the refill of one tick. Headers are resolved by the daemon thread of a
start, so a session keeps the token it was started with and a start that its leader gave
up may still refresh; without a token of the provider it sends the static one (`Static`). A
token expires or is revoked at any time; a 401 invalidates it,
drops the client and sends the call once more. What the server takes up is counted per
call (`accepted`), under the assumption that a 401 means the call was not executed.

### Playbook

Each worker's steps are run by a thread of their own, in order; each attempt takes a unit
of the budget and submits a call to a pool of `PoolSize` threads. A timed-out call is not
cancelled. Time is abstract: an unanswered call may time out at any moment, recovery and
deadline pass at some moment. The main thread collects groups as they end, with the loop
checkpoint. A worker's evidence is the number of its results. `wasted` is a history
variable. The sequential fallback (`PARALLEL_PLAYBOOK=false`) is not modelled.

### WorkflowEngine

One action per commit: `resume`, the update that supersedes an orphan, the two halves of
`start` (its SELECT precedes the transaction of the INSERT), `complete`, `fail`,
`checkpoint`, and the two halves of `purge_old`: the ids are selected first and deleted in a
transaction of its own, whatever became of their runs. Each of them may raise (the database
is locked for longer than the connection waits): an exception of `complete` leads to `fail`,
and one of `fail` itself ends the call (`"refused"`) with its row still RUNNING. A phase that
is stored again replaces its snapshot. A call may die between any two commits. Calls share the file only, so
several processes and several threads are the same thing. The id of a retried run contains
the second, so two calls in one second meet in one row (`NextSecond` moves the clock).

### OpsPersistence and K8sExecutor

`OpsPersistence` has the file (rows, schema version, applied migrations, damage), the start
in its commits, the queue, the writer's batch, the flush with its failures, the poison pill
and `stop`. It leaves open who writes. `K8sExecutor` EXTENDS it and supplies the writers:
requests for approval and audit records, which enter the same queue as everything else and
are refused by a store that is full or not ready. A command that needs a file (`FromFile`)
may fail to build a second time, after its token was used: the call then raises with no live
run and no audit. A crash ends store and executor together;
tokens are in memory only.

### ReplayEngine

Everything runs on one event loop, so the replay task is an action from one real wait to
the next. The pause and step events of asyncio are modelled by what they do to a waiter:
once set they wake it for good, even if cleared before it runs. Snapshots come as the two
backends give them: sorted or not, doubled, with a gap, damaged or truncated.

### Predictions

The runner's cycle, agents that record an incident and engineers that mark noise are
threads that scan the dictionary, read an outcome, set it and feed the calibrator, each a
step. Only the cooldown index has a lock. An update of the calibrator may raise, which is
swallowed (`refused`). The loop hands a cycle to the executor (`LoopTop`), and a thread begins
it later (`BeginCycle`); `stop` sets the event at any time and gives up on the loop after ten
seconds, which also withdraws a cycle that no thread has taken. An agent's scan fails when a prediction is added
meanwhile, as iterating the live dictionary does. The outcome given to the calibrator is
read again after it was set.

## Runs

| run | instance | shows |
|---|---|---|
| `fix_engine` | 2 fixes (1 manual), 2 operators | `CalledOnceApproved`: nothing reaches the devops worker unapproved, in another name or twice; no fix stays APPLYING; the endpoint's loop closes only tickets of applied fixes; `FixEngine` implements `ApprovalGate`; a VERIFYING fix gets a verdict or is replaced |
| `events` | 3 events, 2 with one key, queue of 1, seen limit 1, 1 browser, 1 restart | `NothingMissed`; nothing is delivered before it is stored; a key is processed again only after more than `SeenMax - SeenTrim` others; events are handled, replays end |
| `investigations` | 2 investigations on 1 thread, 2 severities, 1 control action, 2 ticks, 1 restart, failing reads and writes, a failing dedup database | of the alerts of a fingerprint that could be checked one passes per cooldown, each has its row, one is suppressed only within the cooldown of the row it names, and before a restart the investigation it names can be read; completed means investigated, also in the table; an end is moved only by a control action or a restart; each investigation ends unless the process restarts |
| `gateway` | 3 threads, 2 waves, 1 call each with its retry | one start at a time, only open sessions published or called, waiters find an outcome and go on, late sessions are reaped |
| `gateway_calls` | 2 threads, 3 calls of 2 signatures, a bucket for one call, 2 tokens and a static one, 2 starts | the rate holds; a call is taken up once; the newest token is cached and none is asked for in vain; each call returns |
| `playbook` | 2 workers (3 steps and 1) and an unregistered one, budget 4, 1 retry, threshold 1, 1 call thread | circuits, waste of a hung worker, the common budget, evidence, late answers; groups end and the playbook returns though every call may hang |
| `workflow` | 3 calls, 1 phase, 2 seconds | an answer was produced by a finished investigation; a RUNNING row is that of a call in progress, of one that died, or of one whose `fail()` raised; listed phases have their snapshots |
| `k8s` | 3 calls with a disruptive, a harmless and a too wide action, queue of 1, batches of 2, 2 migrations, 2 processes, a manifest whose command cannot be built twice | the schema version is never ahead of the tables; only the newest writes can be lost and order is kept; each live run was cleared, a token clears one; live runs are audited or counted as dropped |
| `replay` | 2 sessions in FAST and STEP mode, 6 snapshots, 3 step requests, speed 0 | a replay is the whole stream in order; pause and step hold; replays end; an abort is final |
| `predictions` | 1 service, 2 predictions, 1 agent, 1 engineer, cooldown 1, window 0, 1 refused update of the calibrator | one publication per cooldown and nothing hidden without it; the calibrator learns the outcome that remains unless that update raised; recording and stop take effect, also for a cycle that waits for a thread; every prediction is resolved |
| `ticket_before_apply` (counterexample) | 1 fix | the persist phase's verification loop closes the ticket before anything is approved or applied, contrary to the docstring `PROJECT.json` quotes |
| `degraded_service` (counterexample) | 7 polls, threshold 3, every pattern of health, the actions `MetricsWorker` registers | every reading is empty and counts as stable, so the ticket of a degraded service is resolved after three polls, contrary to the module's docstring |

Several properties are conjunctions of named parts that belong together (for example
`StartsAreShared` of `OneStartPerWave`, `NoJoinAfterEnd` and `WaitersFindOutcome`).
`DuplicatesSuppressed` is four parts: registered rows are a cooldown apart, an alert that
passed its check has a row, a suppressed one is within the cooldown of the row it names, and
rows name readable investigations until a restart.
Each module has one type invariant (`TypeOK`, `WorkflowTypeOK`, `SessionsTypeOK`), which is
proved; TLC checks it within `NothingMissed` and `ReplaysWhole`. `DedupWindow` speaks of a bus with the table (`Dynamo`): without
one the fallback store appends each event to the memory twice, so its list does not show
how often an event was processed.

### Other disagreements

The following were met while modelling. Where the component is modelled the module contains
the behaviour, and a formula for what the documentation says would be refuted by TLC; no
run is kept for them. A property that came close to them was stated so that it says what
the code does keep (for example `FirstConnectionMissesNothing`, which is false for a second
connection).

- _run_verification_loop, mark_verified and mark_failed_verification act on whatever fix is in the slot, so a proposal that replaced the applied one goes PROPOSED -> VERIFYING -> VERIFIED. supervisor/fix_engine.py:17 gives the lifecycle as "PROPOSED → APPROVED → APPLYING → APPLIED → VERIFYING → VERIFIED | FAILED". (`agui/api/investigations.py:435`)
- FixEngine.reject has no status guard: a fix that was already applied becomes REJECTED and its apply_result is overwritten. agui/api/investigations.py:308 says "reject: Reject the fix (no action taken)". (`supervisor/fix_engine.py:202`)
- The apply request names the investigation and not the fix, and a later investigation of the same incident overwrites the proposal, so the operator approves and applies a fix that was never shown. supervisor/fix_engine.py:13 says "The AGUI presents the fix proposal to the operator. Only after explicit approval does the system call apply_fix()." (`agui/api/investigations.py:334`)
- PersistPhase makes the fix available before it records the dashboard entry; an apply in between patches nothing (update_outcome finds no entry) and the entry recorded later says fix_applied=False for good. supervisor/phases/persist.py:279 says "fix_applied=False,   # updated later by FixEngine". (`supervisor/phases/persist.py:265`)
- A config_change fix, or a code fix without a PR title, ends in the manual_required branch, whose result has no "error" key: it is reported as applied with success and verification is started although nothing was done. agui/api/investigations.py:307 says "apply:  Approve and immediately apply the fix (rollback or PR creation)". (`supervisor/fix_engine.py:319`)
- _run_verification_loop sets VERIFYING before it looks for the metrics and log workers and returns when one is missing; the fix stays VERIFYING for good. supervisor/fix_engine.py:17 gives "VERIFYING → VERIFIED | FAILED" as the only way on. (`agui/api/investigations.py:441`)
- connect subscribes before it replays, so a live event can overtake the replay; when the link is lost then, the client reconnects with the live event's number and the rest of the replay is never sent. agui/ws_manager.py:11 says "Reconnect: client sends last_seq_num on reconnect, server replays missed events". (`agui/ws_manager.py:117`)
- The failure event has number 9999 and control events 99990, so a client that saw a control event reconnects with last_seq=99990 and does not get the failure it missed. agui/ws_manager.py:11 says "Reconnect: client sends last_seq_num on reconnect, server replays missed events". (`agui/api/investigations.py:159`)
- After a restart the memory is empty and DynamoDBStateBackend.get_events asks for sort keys that begin with EVENT#<since_seq>, which only the events of that very number have; later events are not replayed. agui/ws_manager.py:11 says "Reconnect: client sends last_seq_num on reconnect, server replays missed events". (`agui/state_store.py:181`)
- The handler is subscribed before the history is replayed and both send as they come, so a later event can be delivered before an earlier one. agui/event_bus.py:8 says "Ordering: per-investigation FIFO via asyncio.Queue". (`agui/ws_manager.py:117`)
- An event that is stored and delivered between subscription and history is sent again by the replay. agui/ws_manager.py:11 and :97 promise to replay "missed events" only ("Replay missed events (last_seq forward)"). (`agui/ws_manager.py:128`)
- An entry suppresses alerts for a fixed cooldown from registration and nothing ties it to the end of the investigation, so an alert after the cooldown starts a second investigation while the first is still queued or running. supervisor/alert_dedup.py:1 says "prevent parallel investigations for the same incident". (`supervisor/alert_dedup.py:107`)
- The check of an alert may raise (a locked database); the intake then treats it as novel, so alerts of one fingerprint pass in addition to the one per cooldown, and without a row. After a restart without the table, or when the write to it failed, a duplicate is answered with the id of an investigation nobody can read. agui/api/intake.py:179 logs the first as non-fatal. (`supervisor/alert_dedup.py:222`)
- Pause sets a status that no running task reads; the task overwrites it when the agent ends. agui/api/control.py:68 says "pause    → Pause investigation execution (requires operator)". (`agui/api/control.py:126`)
- Resume sets running whatever the status was, so an investigation that has ended is shown as running with no task behind it. agui/api/control.py:69 says "resume   → Resume paused investigation (requires operator)". (`agui/api/control.py:130`)
- The audit log is read from state.control_actions, which nothing appends to: put_control writes the record elsewhere. agui/api/control.py:181 says "Immutable history of all human decisions." (`agui/api/control.py:190`)
- The server draws a new action_id for every request and put_item has no condition, so a retried request leaves two records and changes the status twice. agui/api/control.py:14 says "Control actions are deduplicated by action_id". (`agui/api/control.py:107`)
- _get_mcp_client tests self._mcp_client and then reads it again without the lock; a timeout of another thread in between makes it return None, and the call is answered with a stub (or "MCP client could not be built") although no start failed. tests/test_mcp_strands_session.py:429 says "The caller must use the client claim observed, not a second read." (`workers/mcp_client.py:1416`)
- _drop_mcp_client clears the published client without comparing it with the one that timed out, so of two late timeouts the second drops a healthy new client. workers/mcp_client.py:1207 says "Drop the client (and the session it owns) so the next invoke builds a new one instead of reusing a stuck connection." (`workers/mcp_client.py:1317`)
- Dropping only forgets the reference; nothing calls stop() on the client, so the session and its background thread stay, one for each timeout. workers/mcp_client.py:1207 says "Drop the client (and the session it owns)". (`workers/mcp_client.py:1313`)
- future.result(timeout=...) abandons the future without cancelling it, and the retry is submitted to the same pool, so two calls of one worker execute at once. supervisor/agent.py:1908 says "Steps targeting the same worker run sequentially to respect rate limits." (`supervisor/agent.py:1315`)
- BaseWorker.execute turns an exception into a dictionary with "error" (workers/base_worker.py:87), which _call_worker takes for a success: it is not retried, and record_success clears the circuit. supervisor/agent.py:1268 says "checks circuit breaker before dispatch, records success/failure after." (`supervisor/agent.py:1324`)
- The deadline is checked once before the attempts, so up to MAX_RETRIES_PER_CALL calls are submitted after it. supervisor/agent.py:1271 says "checks per-investigation wall-clock deadline before each call." (`supervisor/agent.py:1285`)
- Every control event of an investigation carries sequence_num=99990, and the idempotency key is a hash of investigation id and sequence number, so the bus drops the second control action of an investigation as a duplicate (harness, dev-loop and prediction events all carry the default 0 and meet the same fate). agui/api/control.py:73 says "All actions are immediately persisted and broadcast via WebSocket." (`agui/api/control.py:147`)
- The task imports a function investigate from supervisor.agent, which defines only the method SentinalAISupervisor.investigate(incident_id, replay); the ImportError is recorded as a failed investigation, so no webhook alert is ever investigated. docs/PRODUCT_CONVERGENCE.md:14 says "Incident → agui/api/intake (webhooks) → supervisor.investigate() [thread pool]". (`agui/api/intake.py:224`)
- as_completed raises TimeoutError in the for statement, outside the try of its body, and neither _execute_playbook nor the collect phase catches it, so the evidence of finished groups is lost and the deadline check of the analyze phase is never reached. supervisor/phases/analyze.py:8 says "deadline check + early return when investigation_deadline exceeded". (`supervisor/agent.py:2019`)
- Replayed events carry the keys of the originals and pass the same bus, which drops them as duplicates while it remembers the keys. agui/api/replay.py:44 says "Replay re-streams the original event sequence to all WebSocket subscribers". (`agui/api/replay.py:100`)
- In STEP mode a step or an abort that comes while the callback waits for the bus is forgotten, because the task clears the step event afterwards; an aborted session then keeps its task until another step. A control event numbered 99990 makes a gap, and without a table the memory returns each event twice (agui/state_store.py:311), so those investigations are refused. A speed of 0 raises and leaves the session RUNNING (`agui/replay_engine.py:341`).
- A run that was superseded stays FAILED under the base id when its successor completes, so every later call runs the incident again. supervisor/workflow_middleware.py:21 says of a completed run that it "returns the persisted result immediately … (idempotent)", and :24 that an orphan is "marked as RESUMED", while the code fails it. (`supervisor/workflow_middleware.py:91`)
- complete() stands in the try whose except clause calls fail(), so a database that is locked when a finished investigation is stored turns it into a failed run; when fail() meets the lock too, the row stays RUNNING, and the next call takes it for a crashed run. supervisor/workflow_engine.py:405 waits ten seconds for the lock. (`supervisor/workflow_middleware.py:96`)
- The calibrator's update is best effort: what raises in it is swallowed, and the final outcome of a prediction may never be learnt. intelligence/prediction_store.py:6 gives "outcome tracked → calibration updated". (`intelligence/prediction_store.py:260`)
- Approval tokens are kept in memory (supervisor/k8s_executor.py:66) and compared by action and resource, not by namespace or replicas (:322); nothing asks approve() (:192) for a human decision. The docstring says at :8 "require human approval token" and at :9 "Token is a UUID stored in ops persistence".
- An audit record is dropped when the queue is full or the store not ready, and writes queued behind the poison pill are never written. supervisor/k8s_executor.py:10 says that every action is recorded. Any exception of the integrity check quarantines the file, also a healthy one.
- With `MCP_DEDUP_ENABLED` a call is marked before it runs, so the repetition of a failed one is skipped, for the rest of the process. A 401 met while a session starts is not retried and does not invalidate the token. A token whose lifetime is below the refresh margin counts as expired on arrival. (`workers/mcp_client.py:1108`, `:1224`, `:564`)
- Prediction events are never emitted: the publisher asks for an event loop in an executor thread, which raises, and the exception is swallowed (`intelligence/background_runner.py:254`); :17 promises real-time updates. A prediction stored while record_outcome iterates the dictionary aborts it (`intelligence/prediction_store.py:162`); its predictions later expire as false positives. record_outcome looks at no time window although :9 says "within the breach_window". Rows of pattern_predictions are never read back, so a restart forgets index and predictions.
- The harness looks for the worker's method with `getattr(worker, action, None)`, which workers do not have (they register handlers), so no gap query runs and no correction round changes a result; supervisor/agent_harness.py:14 says that it executes the gap queries, "enriches evidence, and re-analyzes". (`supervisor/agent_harness.py:499`)
- The developer loop's router is not mounted by agui/main.py, so its endpoints do not exist in the running BFF.

### Bounds and why they are enough

Two fixes are what a replacement needs, two operators what a request in another name needs.
Three events through a queue of one make publishers wait and let one event be stored, one
sent and one replayed; the seen limit is scaled from 100,000/10,000 to 1/1 so that three
events are enough to trim a key and see it again. Two severities
of one key give two fingerprints, and two ticks one cooldown of a tier; two investigations
are one more than there are threads. Three threads are a leader, a waiter and one that
comes when the flight has ended; the second wave starts with a client dropped or a start
failed. A worker with three steps goes beyond the threshold of one failure, and a pool of
one thread is filled by one abandoned call; an interval and stall limit of one make the
checkpoint fire, and four calls for four steps with retries make the budget run out.

In `gateway_calls` the bucket holds one call, so the second thread waits and the third call
meets a signature seen before; two tokens and two starts are what a late refresh needs to
overtake another, and `Revocable`, the tokens the server may cease to accept, leaves the
static one to the sessions that have no other. In `workflow` three calls are an orphan, the one that supersedes it and
one that comes between, and two seconds give equal and different ids; one purge at a time
is enough to be overtaken by a run. In `k8s` three calls
with a queue of one and batches of two fill queue and batch at once, so writes are dropped,
lost and reordered if they can be; schema 3 needs two migrations, and two processes are a
crash and its successor. In `replay` three events are the least with a first, a middle and a
last one; two sessions are the least for eviction and its victim. In `predictions` a
cooldown of one tick over a window of none lets a prediction expire before its successor may
be published, one call each of an agent and an engineer race for one prediction with the
expiry, and one refused update leaves a learnt outcome beside one that is not.

Bounds on restarts, sends, waves, calls and time are named `Max...`. Symmetry is used for
the calls of `k8s` and `workflow`, which no constant tells apart, and never with liveness.
Deadlock is not checked because all of these systems may rest: no alert arrives, all calls
are made, the playbook has returned. `fix_engine` leaves out the verification loops of the
persist phase (`Submit` is `Never`), which change no fix's status and would multiply the
states; `ticket_before_apply` has them.

### Fairness

- `FixEngine`: weak fairness of the steps of an apply request, strong fairness of each
  verification loop the endpoint started: asyncio serves its ready queue in order, while
  other handlers may hold the loop again and again. Nothing is assumed of operators and
  agents.
- `EventStream`: weak fairness of the bus task and of each connection's handler, strong
  fairness of a publisher that waits for room, since `asyncio.Queue` serves putters in turn.
- `Lifecycle`: weak fairness of dispatch and of a task's end; `investigate` returns or
  raises, which its deadline and the timeouts of its calls make true.
- `McpGateway`: weak fairness per thread; a start that hangs is given up by its timeout,
  so the leader's step is always possible. The reaper's thread runs.
- `GatewayCalls`: weak fairness of time, of each thread's step and of each daemon's step;
  requests to the token server end by their timeout.
- `Playbook`: weak fairness of each group's thread and of the collection. A call that is
  not answered times out. Nothing is assumed of the call pool: calls may run for ever.
- `ReplayEngine`: weak fairness of each replay task; nothing of the client's requests.
- `Predictions`: weak fairness of the loop, of its cycle, of time and of the threads that
  have begun to resolve; none of agents, engineers or the stop.

`WorkflowEngine`, `OpsPersistence` and `K8sExecutor` have safety properties only: a process
may die at any point, and no fairness about that would be justified. `VerificationLoop` is
bounded by its polls; its one run and its theorems are about safety.

## Proofs

TLAPS proves the following for every value of the constants that satisfies the named
assumptions (sets disjoint from their null values, bounds natural numbers, positive where
the code's defaults are). The invariants follow from an inductive invariant (`IInv`, and
`WorkflowInv`, `StreamInv`, `SessionInv`, `VerdictInv` where a module has two) whose parts
were first checked with TLC, the action properties from its preservation.

| module | theorems | what the invariant adds |
|---|---|---|
| `FixEngineProofs` | `TypeCorrectness`, `OneApplyPerApproval`, `ApplyResolves`, `BffClosesOnlyApplied`, `RejectionIsFinal`, `RefinesGate` | what the slot holds (`SlotInv`), what a request in progress knows of its fix although the slot may be another one by now (`RequestInv`), that called fixes have left APPROVED for good (`CallInv`), what each verification loop was started for (`WatchInv`) |
| `FixEngineProofs` on `VerificationLoop` | `VerdictFollowsReadings`, `NoFailureWithoutHandler` | that the count of stable readings is the length of the run which ends with the last one, that the reading before this run was not stable, and that no run reached the threshold while the watch goes on (`VerdictInv`); without a handler, that every reading so far was stable (`AllLow`) |
| `InvestigationProofs` on `Lifecycle` | `TypeCorrectness`, `SuppressionIsSound`, `CompletedMeansInvestigated`, `EndsStay` | that an executing task has called the supervisor; that a registered row's investigation is in memory until a restart (`KnownInv`), and what a step leaves of rows and of the last suppression (`SuppressionStep`); that an end which memory shows was recorded by the task, which is then over, and that an id not drawn yet has no task (`EndInv`) |
| `InvestigationProofs` on `WorkflowEngine` | `WorkflowTypes`, `NoInventedAnswer`, `NoForgottenRun`, `PhasesCanBeRestored` | that a stored summary names a call that produced one (`SummariesProduced`), together with the properties themselves |
| `McpGatewayProofs` | `TypeCorrectness`, `StartsAreSound`, `OnlyOpenSessions` | the leader's flight is the one in the slot, its progress, that waves to come are untouched, and that an outcome "client" has an open session |
| `GatewayCallsProofs` | `TypeCorrectness`, `RateLimit`, `NoRepeatedCall`, `OneTokenForAll` | what the bucket holds and gave away against what it was refilled with (`LimitInv`); the start that refreshes holds the lock, and with it the newest token, and while it asks for one none is fresh (`AuthInv`); a call past the mark is in the set of signatures (`DedupInv`); a call that may still reach the server was not taken up (`AcceptedInv`) |
| `PlaybookProofs` | `TypeCorrectness`, `WorkersCannotExhaust`, `HungWorkersAreBounded`, `NoResultIsLost`, `AnswersGoToTheirCall` | every call was paid for (`CallsArePaid`), and the budget's counter is the number of calls made by all groups (`CallsAreCounted`); unanswered calls are at most 1 + MaxRetries per counted failure plus those of the step under way, and after a recovery only the latter (`WasteIsCounted`); what was collected has ended and is in the evidence |
| `K8sExecutorProofs` | `TypeCorrectness`, `SchemaIsComplete`, `NewestWritesOnly`, `OneRunPerClearance`, `RunsAreAudited` | for the store that types of file and memory hold, what the writer holds (`WriterInv`) and how far a migration has come (`MigrationInv`), and where each accepted write is: flushed, in the batch, before or behind the pill (`PlacedInv`); for the executor that each record is one its call has made, once (`MadeInv`), that a pending token is one that was issued (`TokenInv`), that a call past the gate was cleared (`ClearedInv`), and that of the runs and waiting calls of a token there is one (`OneRunPerToken`) |
| `PredictionsProofs` | `TypeCorrectness`, `CooldownIsSound`, `CalibratorLearns`, `RecordIsComplete`, `StopEndsCycles` | that the index is the newest publication of its service (`IndexInv`), that whoever has set an outcome still feeds it, has fed it or was refused (`FedInv`), that a cycle waits for a thread only while the loop waits for the cycle, and what an agent has left behind its place in the scan (`ScanInv`) |
| `StreamProofs` on `EventStream` | `StreamTypes`, `WholeStream`, `DuplicatesAreFar`, `StoredFirst` | that remembered keys, the event under way and each backlog belong to stored events (`BusInv`, `ConnInv`), that a connection is subscribed once and as long as it lives (`ConnInv`), that the remembered keys are those of the newest stored events and, once trimmed, more than a trim leaves out (`Window`), and that a first connection has each stored event received, before it in the replay or in the broadcast under way (`FirstInv`) |
| `StreamProofs` on `ReplayEngine` | `SessionTypes`, `WholeReplay`, `ControlledReplay`, `SilentAfterAbort` | that plan and what was sent are both gapless from 0 (`Follows`), what is sent and left at each place where a task waits (`Stage`), and what the pause and step events allow a woken task (`Control`) |

Theorems about the parts of a conjunction (`ApprovalIsRequired` and `NoDoubleApply` of
`OneApplyPerApproval`, `SingleStart` of `StartsAreSound` and so on) stand before it in the
same module.

`HungWorkersAreBounded` shows why the strengthening is needed: the bound on unanswered
calls says nothing of how they relate to the failures counted, and a step could exceed it.
`WasteIsCounted` ties them together, the circuit check bounds the failures while attempts
are made, and a budget that runs out in the middle of a step (which records no failure)
is harmless only because the group then ends. Likewise `OneRunPerClearance` needs more than
that tokens are removed when they are used: it rests on the removal and the test being one
step, and on no call waiting with a token that is gone.

`RefinesGate` shows that each step of `FixEngine` is a step of `ApprovalGate` or leaves
its variables alone, under the mapping in `FixEngine` (`AG`).

`WholeStream` rests on the order of `connect` and of `_process_event`: the bus stores an
event before it takes the snapshot of its subscribers, and a connection subscribes before
it reads the history. An event stored before the read is in the backlog, one stored after
it finds the subscription; `FirstInv` says so at every point in between. That nothing is
lost before the store needs that a remembered key is that of a stored event (`BusInv`):
only then is a dropped event a duplicate. `DuplicatesAreFar` holds because a key is
forgotten only by a trim, at which `SeenMax - SeenTrim` newer keys are kept: `Window` ties
the list of keys to the end of the stored events.

`NewestWritesOnly` has to say where the poison pill is, since writes that arrive while the
store stops are queued behind it and are lost with the newest; `PlacedInv` names its
position and counts the accepted writes from the file through the batch to both sides of
it. That rows are in the order of acceptance needs that no write is accepted twice, which
the store alone does not know: `MadeInv` takes it from the executor.

`VerdictFollowsReadings` says what the watch makes of its readings, whatever they are and
whatever worker gives them. What the readings say of the service is the weak point: with a
metrics worker that has no handler for the query, as the deployed one,
`NoFailureWithoutHandler` shows that no watch long enough to succeed ever fails, and the run
`degraded_service` shows the ticket that is closed.

`NoForgottenRun` names the two ways in which a row stays RUNNING without a call at work: its
call died, or its `fail()` raised. That no third one exists needs that every other exception
of the engine leads to `fail()` or leaves no row. `PhasesCanBeRestored` holds although a
purge deletes what it selected before a run was registered anew, because one transaction
takes the row and the snapshots of an id together.

`StopEndsCycles` is about two steps: the loop looks at the stop event when it hands a cycle
to the executor, and the cycle begins when a thread is free, after any number of steps of
others. What makes it true is that the end of the loop withdraws a cycle that still waits.

Proved and not checked by a run of their own: the type invariants, `NoCallAfterRejection`
and the two theorems about `VerificationLoop`; `SilentAfterAbort` is half of `AbortIsFinal`. Only model-checked
are the liveness properties, since the prover does not handle fairness: `StreamProgresses`,
`EveryInvestigationEnds`, `StartsResolve`, `EverythingEnds`, `CallsEnd`, `SessionEnds`,
`EveryPredictionResolves`, `VerifyingResolves` and the end of the task in `AbortIsFinal`. Every invariant and action property that a
run checks is proved.

## Not modelled

- Scoring, calibration, learning, prompts, formatting, rendering: numeric or textual, no
  control state. They are most of the lines of the repository.
- Worker handlers and external services: their answers are nondeterministic choices.
- `put_threadsafe` and the AGUI bridge: no runtime code calls the bridge.
- WebSocket heartbeats and subscriptions changed on an open connection.
- The gateway's policy gate (off by default) and its identity header (no caller passes an
  identity), stubs and the parsing of results.
- The agent harness: its correction rounds change nothing in the running program (see
  above); with that, it is one step of a task in `Lifecycle`.
- The planner and the loop controller: a sequential loop in one thread, off by default,
  whose calls take the way `Playbook` models.
- The conflict detector: a pure function of the list it is given.
- Notifications and ticket write-backs: calls of external systems whose answers nobody reads.
- The developer loop: not reachable in the running BFF.
- Reading endpoints, statistics and listings: they change no state.
- `expire_old_entries` of the deduplication: nothing in the runtime calls it. `purge_old` and
  `checkpoint` of the workflow engine are called from tests only, and are modelled all the
  same.
- Telemetry collection and detection in the background runner: a choice of detections.
