----------------------------- MODULE Lifecycle -----------------------------
(***************************************************************************)
(* The life of an investigation in the BFF: an alert that arrives at a     *)
(* webhook is deduplicated and accepted, or an operator starts an          *)
(* investigation by hand; a background task marks it running and hands it  *)
(* to the thread pool; the task records how the agent ended.  Operators    *)
(* pause and resume through the control endpoint, and the process can be   *)
(* restarted.                                                              *)
(*                                                                         *)
(* Source: agui/api/intake.py, agui/api/investigations.py,                 *)
(* agui/api/control.py, supervisor/alert_dedup.py, agui/state_store.py.    *)
(*                                                                         *)
(* One event loop runs all handlers, and no await of the handlers below    *)
(* suspends (the store's coroutines contain no real wait), so each action  *)
(* is one handler, or one stretch of a task between the submission to the  *)
(* thread pool and its answer.  The events the handlers publish are the    *)
(* subject of EventStream.                                                 *)
(***************************************************************************)
EXTENDS Integers, FiniteSets

CONSTANTS Inv,        \* investigation ids (uuid4: never drawn twice)
          Key,        \* what a service and a set of tags hash to
          Severity,   \* severities the alerts carry, a subset of 1..5
          NoState,    \* what get_state returns for an unknown id
          Cooldown,   \* _COOLDOWN: seconds of silence per severity tier
          Threads,    \* threads of the event loop's default executor
          Dynamo,     \* StateStore._use_dynamo
          DedupEnabled, \* DEDUP_ENABLED
          DbFails,    \* the dedup database may raise (locked, disk full)
          MaxTime,    \* bound: the clock stops here
          MaxControl, \* bound: control actions of operators
          MaxRestart  \* bound: restarts of the process

VARIABLES
  clock,        \* time.time(), in units of the model
  registry,     \* rows of dedup_registry (SQLite, survives a restart)
  memory,       \* StateStore._memory._states
  table,        \* the STATE items of the DynamoDB table
  via,          \* how an id came to be: "unused", "webhook" or "manual"
  fp,           \* the fingerprint of a webhook's alert
  task,         \* progress of the investigation's background task
  investigated, \* ids for which supervisor.investigate was called
  unchecked,    \* webhook ids that were let through because the check raised
  suppressed,   \* the last alert answered as a duplicate: of which row, and when
  applied,      \* how many control actions were recorded
  restarts

vars == <<clock, registry, memory, table, via, fp, task, investigated,
          unchecked, suppressed, applied, restarts>>

Tier == {"critical", "medium", "low"}
Status == {"pending", "running", "paused", "completed", "failed"}
Terminal == {"completed", "failed"}
ActionType == {"approve", "reject", "pause", "resume", "override", "escalate"}
TaskState == {"none", "created", "queued", "executing", "finished", "lost"}

ASSUME LifecycleAssumption ==
  /\ Cooldown \in [Tier -> Nat \ {0}]
  /\ Severity \subseteq 1..5
  /\ Threads \in Nat \ {0}
  /\ Dynamo \in BOOLEAN /\ DedupEnabled \in BOOLEAN /\ DbFails \in BOOLEAN
  /\ MaxTime \in Nat /\ MaxControl \in Nat /\ MaxRestart \in Nat

_severity_tier(severity) ==
  IF severity <= 2 THEN "critical" ELSE IF severity = 3 THEN "medium" ELSE "low"

\* The hash covers the service, the tier and the tags, not the incident's id.
fingerprint(key, severity) == [key |-> key, tier |-> _severity_tier(severity)]

Fingerprint == [key : Key, tier : Tier]
Row == [fp : Fingerprint, inv : Inv, at : 0..MaxTime]

\* IncidentState, reduced to its status.
IncidentState == [status : Status]
NewState == [status |-> "pending"]

ASSUME NoStateAssumption == NoState \notin IncidentState

Init ==
  /\ clock = 0 /\ restarts = 0 /\ registry = {}
  /\ memory = [i \in Inv |-> NoState]
  /\ table = [i \in Inv |-> NoState]
  /\ via = [i \in Inv |-> "unused"]
  /\ fp = [i \in Inv |-> NoState]
  /\ task = [i \in Inv |-> "none"]
  /\ investigated = {}
  /\ unchecked = {} /\ suppressed = NoState
  /\ applied = 0

(***************************************************************************)
(* The state store.  Memory is read first and always written; the write    *)
(* to the table is best effort: put_state logs a failed put_item (a lost   *)
(* connection, or a float, which boto3 does not serialise) and goes on.    *)
(***************************************************************************)
\* What get_state may return: a read of the table that fails is logged and returns
\* None.
get_state(i) ==
  IF memory[i] # NoState THEN {memory[i]}
  ELSE {NoState} \union IF Dynamo THEN {table[i]} ELSE {}

put_state(i, state) ==
  /\ memory' = [memory EXCEPT ![i] = state]
  /\ \/ Dynamo /\ table' = [table EXCEPT ![i] = state]
     \/ table' = table

\* The state was found: its status is set and it is written back.
SetFound(i, status) ==
  \E state \in get_state(i) \ {NoState} : put_state(i, [state EXCEPT !.status = status])

\* The read-modify-write of the tasks, which do nothing when the state is not found.
SetStatus(i, status) ==
  \/ SetFound(i, status)
  \/ NoState \in get_state(i) /\ UNCHANGED <<memory, table>>

(***************************************************************************)
(* Alert intake.                                                           *)
(***************************************************************************)
\* Wrong variant of _fetch_active: one cooldown for all tiers.
FetchActiveOneTier(f) ==
  {row \in registry : row.fp = f /\ row.at > clock - Cooldown["critical"]}

\* Rows of the registry that still suppress alerts with fingerprint f.
_fetch_active(f) ==
  {row \in registry : row.fp = f /\ row.at > clock - Cooldown[f.tier]}

_register(f, i) == registry' = registry \union {[fp |-> f, inv |-> i, at |-> clock]}

\* The row that _fetch_active returns: one of the latest.
Newest(rows) == {row \in rows : \A other \in rows : other.at <= row.at}

\* An alert is novel when no row suppresses it, or deduplication is off.
Novel(f) == DedupEnabled => _fetch_active(f) = {}

\* check_and_register under its lock; it may also raise (a locked database),
\* before or after the row is written, and never writes one for a duplicate.
check_and_register(f, i, answer) ==
  \/ answer = "novel" /\ Novel(f) /\ _register(f, i) /\ UNCHANGED suppressed
  \/ /\ answer = "duplicate" /\ ~Novel(f)
     /\ \E row \in Newest(_fetch_active(f)) :
          suppressed' = [fp |-> f, inv |-> row.inv, at |-> clock]
     /\ UNCHANGED registry
  \/ /\ answer = "raises" /\ DbFails
     /\ UNCHANGED registry \/ (Novel(f) /\ _register(f, i))
     /\ UNCHANGED suppressed

\* An investigation is on record and its background task exists.
Begin(i, how) ==
  /\ put_state(i, NewState)
  /\ via' = [via EXCEPT ![i] = how]
  /\ task' = [task EXCEPT ![i] = "created"]

\* A failed check is not fatal: the alert is treated as novel.
_accept_and_dispatch(i, key, severity) ==
  LET f == fingerprint(key, severity)
  IN  /\ via[i] = "unused"
      /\ \/ /\ \/ check_and_register(f, i, "novel") /\ UNCHANGED unchecked
               \/ check_and_register(f, i, "raises") /\ unchecked' = unchecked \union {i}
            /\ Begin(i, "webhook")
            /\ fp' = [fp EXCEPT ![i] = f]
         \/ /\ check_and_register(f, i, "duplicate")
            /\ UNCHANGED <<memory, table, via, task, fp, unchecked>>
      /\ UNCHANGED <<clock, investigated, applied, restarts>>

\* POST /investigations: no deduplication on this path.
start_investigation(i) ==
  /\ via[i] = "unused"
  /\ Begin(i, "manual")
  /\ UNCHANGED <<clock, registry, fp, investigated, unchecked, suppressed, applied, restarts>>

(***************************************************************************)
(* The background task: _run_investigation for alerts,                     *)
(* _dispatch_investigation for manual starts.                              *)
(***************************************************************************)
Dispatch(i) ==
  /\ task[i] = "created"
  /\ SetStatus(i, "running")
  /\ task' = [task EXCEPT ![i] = "queued"]
  /\ UNCHANGED <<clock, registry, via, fp, investigated, unchecked, suppressed, applied, restarts>>

Executing == {i \in Inv : task[i] = "executing"}

\* A thread takes the call.  The intake's call imports a module-level function
\* investigate from supervisor.agent, which that module does not define.
CallsSupervisor(i) == via[i] = "manual"

StartAgent(i) ==
  /\ task[i] = "queued"
  /\ Cardinality(Executing) < Threads
  /\ task' = [task EXCEPT ![i] = "executing"]
  /\ investigated' = IF CallsSupervisor(i) THEN investigated \union {i}
                     ELSE investigated
  /\ UNCHANGED <<clock, registry, memory, table, via, fp, unchecked, suppressed,
                 applied, restarts>>

\* Wrong variant of AgentReturns: the outcome can be recorded again.
AgentReturnsAgain(i) ==
  /\ task[i] = "executing" /\ CallsSupervisor(i)
  /\ SetStatus(i, "completed")
  /\ UNCHANGED <<clock, registry, via, fp, task, investigated, unchecked, suppressed, applied, restarts>>

AgentReturns(i) ==
  /\ task[i] = "executing" /\ CallsSupervisor(i)
  /\ SetStatus(i, "completed")
  /\ task' = [task EXCEPT ![i] = "finished"]
  /\ UNCHANGED <<clock, registry, via, fp, investigated, unchecked, suppressed, applied, restarts>>

\* Wrong variant of AgentRaises: the failure is recorded as a completion, or not at all.
AgentRaisesCompletes(i) ==
  /\ task[i] = "executing"
  /\ SetStatus(i, "completed")
  /\ task' = [task EXCEPT ![i] = "finished"]
  /\ UNCHANGED <<clock, registry, via, fp, investigated, unchecked, suppressed, applied, restarts>>

AgentRaisesSilently(i) ==
  /\ task[i] = "executing"
  /\ task' = [task EXCEPT ![i] = "finished"]
  /\ UNCHANGED <<clock, registry, memory, table, via, fp, investigated, unchecked, suppressed, applied, restarts>>

\* The agent, or its import, raises.
AgentRaises(i) ==
  /\ task[i] = "executing"
  /\ SetStatus(i, "failed")
  /\ task' = [task EXCEPT ![i] = "finished"]
  /\ UNCHANGED <<clock, registry, via, fp, investigated, unchecked, suppressed, applied, restarts>>

(***************************************************************************)
(* The control endpoint, for an actor with the role the action needs.  A   *)
(* request carries no id, so one that is sent again is a new action.       *)
(***************************************************************************)
send_control_action(i, action) ==
  /\ applied < MaxControl
  /\ get_state(i) # {NoState}
  /\ applied' = applied + 1
  /\ \/ action = "pause" /\ SetFound(i, "paused")
     \/ action = "resume" /\ SetFound(i, "running")
     \/ action \notin {"pause", "resume"} /\ UNCHANGED <<memory, table>>
  /\ UNCHANGED <<clock, registry, via, fp, task, investigated, unchecked, suppressed,
                 restarts>>

Tick ==
  /\ clock < MaxTime
  /\ clock' = clock + 1
  /\ UNCHANGED <<registry, memory, table, via, fp, task, investigated, unchecked,
                 suppressed, applied, restarts>>

\* The process dies and starts again: tasks and memory are gone, nothing of
\* startup_event looks for investigations that were under way.
Restart ==
  /\ restarts < MaxRestart
  /\ restarts' = restarts + 1
  /\ memory' = [i \in Inv |-> NoState]
  /\ task' = [i \in Inv |-> IF task[i] \in {"none", "finished"} THEN task[i] ELSE "lost"]
  /\ UNCHANGED <<clock, registry, table, via, fp, investigated, unchecked, suppressed, applied>>

Next ==
  \/ \E i \in Inv : \/ \E key \in Key, s \in Severity : _accept_and_dispatch(i, key, s)
                    \/ start_investigation(i)
                    \/ Dispatch(i)
                    \/ StartAgent(i)
                    \/ AgentReturns(i)
                    \/ AgentRaises(i)
                    \/ \E a \in ActionType : send_control_action(i, a)
  \/ Tick
  \/ Restart

\* The loop runs every task that is ready, the pool every call that is queued,
\* and the agent ends (its budget and the clients' timeouts bound it).
Fairness == \A i \in Inv : /\ WF_vars(Dispatch(i))
                           /\ WF_vars(StartAgent(i))
                           /\ WF_vars(AgentReturns(i) \/ AgentRaises(i))

Spec == Init /\ [][Next]_vars
LiveSpec == Spec /\ Fairness

(***************************************************************************)
(* Properties.                                                             *)
(***************************************************************************)
\* Type invariant of the store, the registry and the tasks.
TypeOK ==
  /\ clock \in 0..MaxTime /\ restarts \in 0..MaxRestart
  /\ registry \subseteq Row
  /\ memory \in [Inv -> IncidentState \union {NoState}]
  /\ table \in [Inv -> IncidentState \union {NoState}]
  /\ via \in [Inv -> {"unused", "webhook", "manual"}]
  /\ fp \in [Inv -> Fingerprint \union {NoState}]
  /\ task \in [Inv -> TaskState]
  /\ investigated \subseteq Inv
  /\ unchecked \subseteq Inv
  /\ suppressed \in Row \union {NoState}
  /\ applied \in 0..MaxControl

\* With deduplication, two different rows of one fingerprint are at least the
\* cooldown of its tier apart, also when the database raises and across a restart.
CooldownRespected ==
  DedupEnabled => \A a, b \in registry :
    a.fp = b.fp /\ a.inv # b.inv =>
      \/ a.at - b.at >= Cooldown[a.fp.tier]
      \/ b.at - a.at >= Cooldown[a.fp.tier]

\* An alert that its check let through has its row, so that it suppresses others; an
\* alert whose check raised passes unchecked, and may have none.
PassedAreRegistered ==
  \A i \in Inv : via[i] = "webhook" /\ i \notin unchecked =>
    \E row \in registry : row.fp = fp[i] /\ row.inv = i

\* An alert is suppressed only within the cooldown of the one it is said to be a
\* duplicate of.
SuppressionHasReason ==
  suppressed # NoState =>
    \E row \in registry :
      /\ row.fp = suppressed.fp /\ row.inv = suppressed.inv
      /\ suppressed.at - row.at < Cooldown[row.fp.tier]

\* As long as the process was not restarted, an alert that is answered as a duplicate
\* is sent to an investigation whose state can be read.
DuplicateNamesKnown ==
  restarts = 0 => \A row \in registry : memory[row.inv] # NoState

\* Of the alerts of a fingerprint that could be checked, one passes per cooldown;
\* the others are suppressed for no longer than that, in favour of an investigation
\* that, before a restart, can be looked at.
DuplicatesSuppressed ==
  CooldownRespected /\ PassedAreRegistered /\ SuppressionHasReason /\ DuplicateNamesKnown

\* A status of completed, in memory or in the table, means that the supervisor
\* was called for this investigation, whatever pauses, resumes, lost writes and
\* restarts happened.
CompletedWasInvestigated ==
  \A i \in Inv : \A s \in {memory[i], table[i]} :
    s # NoState => (s.status = "completed" => i \in investigated)

\* The end of an investigation is overwritten by nothing but a control action
\* or a restart: no late step of a task moves it back.
TerminalUntilControl ==
  [][\A i \in Inv : memory[i] # NoState =>
       (memory[i].status \in Terminal =>
          \/ memory'[i] = memory[i]
          \/ restarts' # restarts
          \/ applied' # applied)]_vars

\* Every investigation that was accepted ends as completed or failed, with more
\* investigations than threads and with operators pausing and resuming, as long
\* as the process is not restarted.
EveryInvestigationEnds ==
  \A i \in Inv :
    (task[i] = "created") ~>
      (restarts > 0 \/ (task[i] = "finished" /\ memory[i] # NoState /\ memory[i].status \in Terminal))
=============================================================================
