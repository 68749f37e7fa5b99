------------------------------ MODULE Playbook ------------------------------
(***************************************************************************)
(* The parallel playbook of one investigation: one group of steps per      *)
(* worker, each group in a thread of its own, all groups on one call       *)
(* budget and one pool of call threads; timeouts, retries and a circuit    *)
(* breaker per worker; and the main thread that collects the groups.       *)
(*                                                                         *)
(* Source: supervisor/agent.py (_execute_playbook, _call_worker,           *)
(* _check_call_preconditions), supervisor/guardrails.py (ExecutionBudget,  *)
(* CircuitState, LoopCheckpoint), workers/base_worker.py.                  *)
(*                                                                         *)
(* Time is abstract: a call may time out whenever it is not answered, the  *)
(* deadline passes at some moment, and a circuit's recovery time is a flag *)
(* that is cleared by each failure and set some time after it.             *)
(***************************************************************************)
EXTENDS Integers, Sequences, FiniteSets

CONSTANTS Worker,      \* workers the playbook has steps for
          Registered,  \* those of them the supervisor knows
          Steps,       \* how many steps each of them has
          MaxToolCalls,\* MAX_TOOL_CALLS_PER_CASE
          MaxRetries,  \* MAX_RETRIES_PER_CALL
          Threshold,   \* CircuitState.threshold
          PoolSize,    \* MAX_CONCURRENT_WORKERS
          Interval,    \* LOOP_CHECKPOINT_INTERVAL
          MaxStall     \* LOOP_MAX_STALL_CHECKPOINTS

VARIABLES
  pc, step, attempt, \* where a group's thread is: step, attempt of the step
  results,           \* steps of the group that have a result
  calls_made,        \* ExecutionBudget.calls_made
  submitted,         \* calls submitted for a worker
  queue, running,    \* the call pool: waiting and executing calls
  awaits, answer,    \* the call a group waits for (0: none), and its answer
  wasted,            \* history: calls since the last answer or recovery
  failure_count, recovered, \* CircuitState; recovery_seconds have passed
  late,              \* the investigation's deadline has passed
  main, collected,   \* the main thread; the groups it has collected
  evidence,          \* evidence labels: how many results per worker
  stall, seen,       \* LoopCheckpoint._stall_count, _last_evidence_keys
  escalated          \* evidence["_loop_escalation"] is set

groupVars == <<pc, step, attempt, results>>
poolVars == <<submitted, queue, running, awaits, answer, wasted>>
circuitVars == <<failure_count, recovered>>
mainVars == <<main, collected, evidence, stall, seen, escalated>>
vars == <<groupVars, calls_made, poolVars, circuitVars, late, mainVars>>

PC == {"queued", "precheck", "record", "await", "answered", "fail", "done", "raised", "cancelled"}
Answer == {"none", "value", "error"}
Over == {"done", "raised", "cancelled"}

\* A call is named by its worker and its number among the worker's calls.
Call == [worker : Worker, number : 1..MaxToolCalls]

ASSUME PlaybookAssumption ==
  /\ Registered \subseteq Worker
  /\ Steps \in [Worker -> Nat \ {0}]
  /\ MaxToolCalls \in Nat /\ MaxRetries \in Nat
  /\ Threshold \in Nat \ {0} /\ PoolSize \in Nat \ {0}
  /\ Interval \in Nat \ {0} /\ MaxStall \in Nat \ {0}

Init ==
  /\ pc = [w \in Worker |-> "queued"]
  /\ step = [w \in Worker |-> 1]
  /\ attempt = [w \in Worker |-> 0]
  /\ results = [w \in Worker |-> 0]
  /\ calls_made = 0
  /\ submitted = [w \in Worker |-> 0]
  /\ queue = <<>> /\ running = {}
  /\ awaits = [w \in Worker |-> 0]
  /\ answer = [w \in Worker |-> "none"]
  /\ wasted = [w \in Worker |-> 0]
  /\ failure_count = [w \in Worker |-> 0]
  /\ recovered = [w \in Worker |-> FALSE]
  /\ late = FALSE
  /\ main = "collecting" /\ collected = {}
  /\ evidence = [w \in Worker |-> 0]
  /\ stall = 0 /\ seen = {} /\ escalated = FALSE

(***************************************************************************)
(* CircuitState.                                                           *)
(***************************************************************************)
\* Wrong variant: the circuit opens one failure too late.
is_openLate(w) == failure_count[w] > Threshold /\ ~recovered[w]

is_open(w) == failure_count[w] >= Threshold /\ ~recovered[w]

record_failure(w) ==
  /\ failure_count' = [failure_count EXCEPT ![w] = @ + 1]
  /\ recovered' = [recovered EXCEPT ![w] = FALSE]

record_success(w) ==
  /\ failure_count' = [failure_count EXCEPT ![w] = 0]
  /\ UNCHANGED recovered

\* More than recovery_seconds since the last failure.
RecoveryPasses(w) ==
  /\ failure_count[w] > 0 /\ ~recovered[w]
  /\ recovered' = [recovered EXCEPT ![w] = TRUE]
  /\ wasted' = [wasted EXCEPT ![w] = 0]
  /\ UNCHANGED <<groupVars, calls_made, submitted, queue, running, awaits, answer,
                 failure_count, late, mainVars>>

DeadlinePasses ==
  /\ ~late /\ late' = TRUE
  /\ UNCHANGED <<groupVars, calls_made, poolVars, circuitVars, mainVars>>

(***************************************************************************)
(* A group: _run_worker_group and, for each step, _call_worker.            *)
(***************************************************************************)
StartGroup(w) ==
  /\ pc[w] = "queued"
  /\ pc' = [pc EXCEPT ![w] = "precheck"]
  /\ UNCHANGED <<step, attempt, results, calls_made, poolVars, circuitVars, late, mainVars>>

\* The step has a result, good or bad; the group goes on with the next one.
EndStep(w) ==
  /\ results' = [results EXCEPT ![w] = @ + 1]
  /\ step' = [step EXCEPT ![w] = @ + 1]
  /\ attempt' = [attempt EXCEPT ![w] = 0]
  /\ pc' = [pc EXCEPT ![w] = IF step[w] < Steps[w] THEN "precheck" ELSE "done"]

\* The deadline and the circuit are looked at once per step, not per attempt.
_check_call_preconditions(w) ==
  /\ pc[w] = "precheck"
  /\ w \in Registered
  /\ IF late \/ is_open(w)
     THEN EndStep(w)
     ELSE pc' = [pc EXCEPT ![w] = "record"] /\ UNCHANGED <<step, attempt, results>>
  /\ UNCHANGED <<calls_made, poolVars, circuitVars, late, mainVars>>

\* A step of a worker the supervisor does not know has an error for a result.
SkipUnregistered(w) ==
  /\ pc[w] = "precheck"
  /\ w \notin Registered
  /\ EndStep(w)
  /\ UNCHANGED <<calls_made, poolVars, circuitVars, late, mainVars>>

\* What the code before the call can raise (building the parameters) ends the
\* group and loses its results.
GroupRaises(w) ==
  /\ pc[w] = "precheck"
  /\ pc' = [pc EXCEPT ![w] = "raised"]
  /\ UNCHANGED <<step, attempt, results, calls_made, poolVars, circuitVars, late, mainVars>>

\* try_record: check and count in one step under the budget's lock.
try_record == calls_made < MaxToolCalls /\ calls_made' = calls_made + 1

Submit(w) ==
  /\ submitted' = [submitted EXCEPT ![w] = @ + 1]
  /\ queue' = Append(queue, [worker |-> w, number |-> submitted[w] + 1])
  /\ awaits' = [awaits EXCEPT ![w] = submitted[w] + 1]
  /\ wasted' = [wasted EXCEPT ![w] = @ + 1]
  /\ pc' = [pc EXCEPT ![w] = "await"]

\* Every attempt takes a unit of the budget and submits a call.
Attempt(w) ==
  /\ pc[w] = "record"
  /\ try_record
  /\ Submit(w)
  /\ UNCHANGED <<step, attempt, results, running, answer, circuitVars, late, mainVars>>

\* Without budget the group ends; nothing is recorded in the circuit.
BudgetExhausted(w) ==
  /\ pc[w] = "record"
  /\ calls_made >= MaxToolCalls
  /\ results' = [results EXCEPT ![w] = @ + 1]
  /\ pc' = [pc EXCEPT ![w] = "done"]
  /\ UNCHANGED <<step, attempt, calls_made, poolVars, circuitVars, late, mainVars>>

(***************************************************************************)
(* The call pool.  A call that timed out stays in the queue or goes on     *)
(* executing: the future is not cancelled.                                 *)
(***************************************************************************)
StartCall ==
  /\ queue # <<>> /\ Cardinality(running) < PoolSize
  /\ running' = running \union {Head(queue)}
  /\ queue' = Tail(queue)
  /\ UNCHANGED <<groupVars, calls_made, submitted, awaits, answer, wasted, circuitVars, late,
                 mainVars>>

\* Wrong variant: an answer goes to whatever attempt of the worker waits.
ExecuteForAnyAttempt(c) ==
  /\ c \in running
  /\ running' = running \ {c}
  /\ IF pc[c.worker] = "await"
     THEN /\ \E a \in {"value", "error"} : answer' = [answer EXCEPT ![c.worker] = a]
          /\ pc' = [pc EXCEPT ![c.worker] = "answered"]
     ELSE UNCHANGED <<answer, pc>>
  /\ UNCHANGED <<step, attempt, results, calls_made, submitted, queue, awaits, wasted,
                 circuitVars, late, mainVars>>

\* BaseWorker.execute catches what the handler raises and returns it as a
\* dictionary with an error, so a call is always answered by a dictionary.
Execute(c) ==
  /\ c \in running
  /\ running' = running \ {c}
  /\ IF awaits[c.worker] = c.number /\ pc[c.worker] = "await"
     THEN /\ \E a \in {"value", "error"} : answer' = [answer EXCEPT ![c.worker] = a]
          /\ pc' = [pc EXCEPT ![c.worker] = "answered"]
     ELSE UNCHANGED <<answer, pc>>
  /\ UNCHANGED <<step, attempt, results, calls_made, submitted, queue, awaits, wasted,
                 circuitVars, late, mainVars>>

\* future.result returned: whatever it says is a success for the circuit.
CallReturns(w) ==
  /\ pc[w] = "answered"
  /\ record_success(w)
  /\ awaits' = [awaits EXCEPT ![w] = 0]
  /\ answer' = [answer EXCEPT ![w] = "none"]
  /\ wasted' = [wasted EXCEPT ![w] = 0]
  /\ EndStep(w)
  /\ UNCHANGED <<calls_made, submitted, queue, running, late, mainVars>>

\* Wrong variant: a call that has begun to execute is waited for without a timeout.
TimeOutInQueueOnly(w) ==
  /\ pc[w] = "await"
  /\ [worker |-> w, number |-> awaits[w]] \notin running
  /\ awaits' = [awaits EXCEPT ![w] = 0]
  /\ attempt' = [attempt EXCEPT ![w] = @ + 1]
  /\ pc' = [pc EXCEPT ![w] = IF attempt[w] < MaxRetries THEN "record" ELSE "fail"]
  /\ UNCHANGED <<step, results, calls_made, submitted, queue, running, answer, wasted,
                 circuitVars, late, mainVars>>

\* future.result timed out (or something around it raised, which is handled the
\* same way): another attempt, or the call has failed.
CallTimesOut(w) ==
  /\ pc[w] = "await"
  /\ awaits' = [awaits EXCEPT ![w] = 0]
  /\ attempt' = [attempt EXCEPT ![w] = @ + 1]
  /\ pc' = [pc EXCEPT ![w] = IF attempt[w] < MaxRetries THEN "record" ELSE "fail"]
  /\ UNCHANGED <<step, results, calls_made, submitted, queue, running, answer, wasted,
                 circuitVars, late, mainVars>>

CallFails(w) ==
  /\ pc[w] = "fail"
  /\ record_failure(w)
  /\ EndStep(w)
  /\ UNCHANGED <<calls_made, poolVars, late, mainVars>>

(***************************************************************************)
(* The main thread: as_completed over the groups.                          *)
(***************************************************************************)
should_check == calls_made > 0 /\ calls_made % Interval = 0

\* LoopCheckpoint.check on the evidence keys of workers in K (the score is 0).
check(K) ==
  /\ seen' = K
  /\ stall' = IF K \ seen # {} THEN 0 ELSE stall + 1

\* Wrong variant: groups are taken before they have ended.
TakeUnfinished(w) ==
  /\ main = "collecting" /\ w \notin collected /\ pc[w] # "queued"
  /\ collected' = collected \union {w}
  /\ evidence' = [evidence EXCEPT ![w] = results[w]]

\* Group w is taken: its results become evidence, unless it raised.
Take(w) ==
  /\ main = "collecting" /\ w \notin collected /\ pc[w] \in {"done", "raised"}
  /\ collected' = collected \union {w}
  /\ evidence' = IF pc[w] = "done" THEN [evidence EXCEPT ![w] = results[w]] ELSE evidence

\* Then, if the number of calls happens to be a multiple of the interval, the
\* checkpoint; after too many stalls the groups that still wait are cancelled.
Collect(w) ==
  /\ Take(w)
  /\ IF should_check THEN check({v \in Worker : evidence'[v] > 0})
     ELSE UNCHANGED <<stall, seen>>
  /\ escalated' = (stall' >= MaxStall)
  /\ main' = IF escalated' \/ collected' = Worker THEN "returned" ELSE "collecting"
  /\ pc' = IF escalated' THEN [v \in Worker |-> IF pc[v] = "queued" THEN "cancelled" ELSE pc[v]]
           ELSE pc
  /\ UNCHANGED <<step, attempt, results, calls_made, poolVars, circuitVars, late>>

\* as_completed gives up when group_timeout is over: it raises, past every
\* handler of _execute_playbook, and the evidence so far is gone.
CollectTimesOut ==
  /\ main = "collecting"
  /\ main' = "raised"
  /\ evidence' = [w \in Worker |-> 0]
  /\ UNCHANGED <<groupVars, calls_made, poolVars, circuitVars, late, collected, stall, seen,
                 escalated>>

Group(w) ==
  \/ StartGroup(w) \/ _check_call_preconditions(w) \/ SkipUnregistered(w)
  \/ Attempt(w) \/ BudgetExhausted(w) \/ CallReturns(w) \/ CallTimesOut(w) \/ CallFails(w)

Next ==
  \/ \E w \in Worker : Group(w) \/ GroupRaises(w) \/ RecoveryPasses(w) \/ Collect(w)
  \/ StartCall
  \/ \E c \in running : Execute(c)
  \/ DeadlinePasses
  \/ CollectTimesOut

\* Threads run, and a call that is not answered times out.  Nothing is assumed
\* of the pool: a call may execute for ever.
Fairness == \A w \in Worker : WF_vars(Group(w)) /\ WF_vars(Collect(w))

Spec == Init /\ [][Next]_vars
LiveSpec == Spec /\ Fairness

(***************************************************************************)
(* Properties.                                                             *)
(***************************************************************************)
\* Type invariant of the groups, the pool, the circuits and the main thread.
TypeOK ==
  /\ pc \in [Worker -> PC]
  /\ step \in [Worker -> Nat] /\ attempt \in [Worker -> 0..MaxRetries + 1]
  /\ results \in [Worker -> Nat]
  /\ calls_made \in 0..MaxToolCalls
  /\ submitted \in [Worker -> 0..MaxToolCalls]
  /\ queue \in Seq(Call) /\ running \subseteq Call
  /\ awaits \in [Worker -> 0..MaxToolCalls]
  /\ answer \in [Worker -> Answer] /\ wasted \in [Worker -> 0..MaxToolCalls]
  /\ failure_count \in [Worker -> Nat]
  /\ recovered \in [Worker -> BOOLEAN]
  /\ late \in BOOLEAN /\ escalated \in BOOLEAN
  /\ main \in {"collecting", "returned", "raised"}
  /\ collected \subseteq Worker
  /\ evidence \in [Worker -> Nat]
  /\ stall \in Nat /\ seen \subseteq Worker

\* An attempt is never made on an open circuit, although only the first attempt
\* of a step looks at it.
OpenCircuitBlocks == \A w \in Worker : pc[w] \in {"record", "await"} => ~is_open(w)

\* A worker that stops answering costs at most Threshold steps of 1 + MaxRetries
\* calls before its circuit stays open, whatever the other groups do to budget and
\* pool: CircuitState and the retry loop of _call_worker together bound the waste.
HungWorkerBounded == \A w \in Worker : wasted[w] <= Threshold * (MaxRetries + 1)

\* The calls submitted so far, by whichever group.
Made == {c \in Call : c.number <= submitted[c.worker]}

\* The groups that race for the last units of the budget make no more calls together
\* than it allows, retries included.
BudgetHolds == Cardinality(Made) <= MaxToolCalls

\* A worker that fails or hangs cannot use up the investigation, nor can all of them
\* together.
WorkersAreContained == OpenCircuitBlocks /\ HungWorkerBounded /\ BudgetHolds

\* An answer is given to the attempt that waits for it: a late answer of an
\* abandoned call is never taken for that of its retry.
AnswersMatch ==
  [][\A w \in Worker : answer'[w] # "none" /\ answer'[w] # answer[w]
       => [worker |-> w, number |-> submitted[w]] \in running \ running']_vars

\* When the playbook returns without an escalation, every group was collected,
\* and the evidence holds every result of every group that did not raise.
EvidenceComplete ==
  main = "returned" /\ ~escalated =>
    \A w \in Worker : \/ pc[w] = "raised"
                      \/ pc[w] = "done" /\ evidence[w] = results[w] /\ results[w] > 0

\* Each group ends, even if every call hangs and the pool is full of calls that
\* nobody waits for.
GroupsEnd == \A w \in Worker : <>(pc[w] \in Over)

\* The playbook returns or raises, whatever becomes of its groups: the collection
\* waits for no group for ever.
PlaybookEnds == <>(main # "collecting")

\* Neither the groups nor the thread that collects them wait for ever.
EverythingEnds == GroupsEnd /\ PlaybookEnds
=============================================================================
