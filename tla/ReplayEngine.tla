---------------------------- MODULE ReplayEngine ----------------------------
(***************************************************************************)
(* Replay sessions of agui/replay_engine.py under the control endpoints of *)
(* agui/api/replay.py.                                                     *)
(*                                                                         *)
(* Everything runs on one event loop.  The task of a session gives the     *)
(* loop up where it really waits: paused, in the callback when the bus is  *)
(* full, between two events, and in STEP mode for the next step.  Between  *)
(* two such points it is one action here.  An asyncio.Event that is set    *)
(* wakes its waiter for good, even when it is cleared again before the     *)
(* waiter runs.                                                            *)
(***************************************************************************)
EXTENDS Naturals, Sequences, SequencesExt

CONSTANTS Session,    \* replay sessions, in the order of their start requests
          Snapshots,  \* snapshots that are stored or built from stored events
          Modes,      \* a subset of {"live", "fast", "step"}
          ZeroSpeed,  \* whether speed_multiplier may be 0: a subset of BOOLEAN
          MaxStep     \* bound: step requests per session

ASSUME SnapshotAssumption ==
  \A x \in Snapshots : /\ x.seqs \in Seq(Nat) /\ x.count \in Nat
                       /\ {x.intact, x.started} \subseteq BOOLEAN
                       /\ x.started => x.seqs # <<>>
ASSUME ReplayModeAssumption ==
  Modes \subseteq {"live", "fast", "step"} /\ ZeroSpeed \subseteq BOOLEAN
ASSUME StepAssumption == MaxStep \in Nat

VARIABLES
  sessions,  \* _sessions
  status,    \* ReplaySession.status, "none" before its request
  mode, zero,
  plan,      \* the sequence numbers of its events in replay order
  pc,        \* where its task is
  timed,     \* sessions with a completed_at
  sent,      \* the sequence numbers handed to the callback
  steps,     \* step requests answered with success
  late       \* events sent since the last pause, while PAUSED

replayVars == <<sessions, status, mode, zero, plan, pc, timed, sent, steps, late>>

Status == {"pending", "running", "paused", "completed", "aborted"}
TaskAt == {"none", "new", "pause", "unpaused", "callback", "step", "stepped",
           "sleep", "ended", "raised"}

ReplayInit ==
  /\ sessions = {}
  /\ status = [s \in Session |-> "none"]
  /\ mode = [s \in Session |-> "fast"]
  /\ zero = [s \in Session |-> FALSE]
  /\ plan = [s \in Session |-> <<>>]
  /\ pc = [s \in Session |-> "none"]
  /\ timed = {}
  /\ sent = [s \in Session |-> <<>>]
  /\ steps = [s \in Session |-> 0]
  /\ late = [s \in Session |-> 0]

Ascending(seqs) == SortSeq(seqs, LAMBDA m, n : m < n)

----------------------------------------------------------------------------
(* Wrong variants of the definitions below; the specification never uses them. *)

\* validate without the search for gaps.
ValidCountOnly(x) == x.count = Len(x.seqs) /\ x.intact /\ x.started

\* The wait for the pause event is left out of the loop.
NeverHeld(s) == FALSE

\* abort wakes a task that waits for a step, not one that is paused.
WakeForStep(s) == IF pc[s] = "step" THEN "stepped" ELSE pc[s]

\* resume without setting the pause event.
ResumeStatusOnly(s) ==
  /\ s \in sessions /\ pc[s] # "new" /\ status[s] = "paused"
  /\ status' = [status EXCEPT ![s] = "running"]
  /\ UNCHANGED <<sessions, mode, zero, plan, steps, pc, timed, sent, late>>

----------------------------------------------------------------------------
(* Starting *)

\* validate: the declared count, the sequence 0, 1, ... without a gap, the hash
\* chain and the started event.
Valid(x) ==
  /\ x.count = Len(x.seqs)
  /\ Ascending(x.seqs) = [i \in 1..Len(x.seqs) |-> i - 1]
  /\ x.intact
  /\ x.started

\* start_replay evicts finished sessions whose completed_at is an hour old, or
\* missing, as it is for those that were aborted before their end.
Finished(r) == r \in sessions /\ status[r] \in {"completed", "aborted"}

\* POST /replay: the snapshot is validated, finished sessions are evicted, and
\* the task of the session is created.
StartReplay(s, x, m, z) ==
  /\ status[s] = "none"
  /\ Valid(x)
  /\ \E old \in SUBSET timed :
       sessions' = {s} \cup
         (sessions \ {r \in Session : Finished(r) /\ r \in old \cup (Session \ timed)})
  /\ status' = [status EXCEPT ![s] = "pending"]
  /\ mode' = [mode EXCEPT ![s] = m]
  /\ zero' = [zero EXCEPT ![s] = z]
  /\ plan' = [plan EXCEPT ![s] = Ascending(x.seqs)]
  /\ pc' = [pc EXCEPT ![s] = "new"]
  /\ UNCHANGED <<timed, sent, steps, late>>

----------------------------------------------------------------------------
(* The task: _run_replay *)

\* _pause_event is cleared exactly while the status is PAUSED.
Held(s) == status[s] = "paused"
Stopped(s) == status[s] = "aborted"
AllSent(s) == Len(sent[s]) = Len(plan[s])

\* What the task waits for after an event; _step_event was cleared just before,
\* so a step that came during the callback is forgotten.
NextWait(s) == IF mode[s] = "step" THEN "step" ELSE "sleep"

\* The callback publishes the event and may have to wait for room on the bus.
SendEvent(s) ==
  /\ sent' = [sent EXCEPT ![s] = Append(@, plan[s][Len(@) + 1])]
  /\ late' = [late EXCEPT ![s] = IF status[s] = "paused" THEN @ + 1 ELSE @]
  /\ \E at \in {"callback", NextWait(s)} : pc' = [pc EXCEPT ![s] = at]
  /\ UNCHANGED <<status, timed>>

\* The loop is over.
Finish(s) ==
  /\ pc' = [pc EXCEPT ![s] = "ended"]
  /\ status' = [status EXCEPT ![s] = IF Stopped(s) THEN @ ELSE "completed"]
  /\ timed' = IF Stopped(s) THEN timed ELSE timed \cup {s}
  /\ UNCHANGED <<sent, late>>

fixed == <<sessions, mode, zero, plan, steps>>

\* The task begins; _compute_delays divides by speed_multiplier in FAST mode,
\* and the exception leaves the session RUNNING.
BeginTask(s) ==
  /\ pc[s] = "new"
  /\ status' = [status EXCEPT ![s] = "running"]
  /\ IF zero[s] /\ mode[s] = "fast" /\ Len(plan[s]) > 1
       THEN pc' = [pc EXCEPT ![s] = "raised"] /\ UNCHANGED sent
       ELSE /\ sent' = [sent EXCEPT ![s] = <<plan[s][1]>>]
            /\ \E at \in {"callback", NextWait(s)} : pc' = [pc EXCEPT ![s] = at]
  /\ UNCHANGED <<fixed, timed, late>>

\* The next turn of the loop.
NextTurn(s) ==
  /\ pc[s] \in {"sleep", "stepped"}
  /\ IF AllSent(s) THEN Finish(s)
     ELSE IF Held(s)
       THEN pc' = [pc EXCEPT ![s] = "pause"] /\ UNCHANGED <<status, timed, sent, late>>
       ELSE IF Stopped(s) THEN Finish(s) ELSE SendEvent(s)
  /\ UNCHANGED fixed

\* The wait for the pause event is over, whatever the event is by now.
Unpaused(s) ==
  /\ pc[s] = "unpaused"
  /\ IF Stopped(s) THEN Finish(s) ELSE SendEvent(s)
  /\ UNCHANGED fixed

\* The bus took the event.
CallbackReturns(s) ==
  /\ pc[s] = "callback"
  /\ pc' = [pc EXCEPT ![s] = NextWait(s)]
  /\ UNCHANGED <<fixed, status, timed, sent, late>>

----------------------------------------------------------------------------
(* POST /replay/{session}/control; a client knows a session only from the *)
(* answer to its request, when its task has begun                         *)

Known(s) == s \in sessions /\ pc[s] # "new"

Pause(s) ==
  /\ Known(s) /\ status[s] = "running"
  /\ status' = [status EXCEPT ![s] = "paused"]
  /\ late' = [late EXCEPT ![s] = 0]
  /\ UNCHANGED <<fixed, pc, timed, sent>>

Resume(s) ==
  /\ Known(s) /\ status[s] = "paused"
  /\ status' = [status EXCEPT ![s] = "running"]
  /\ pc' = [pc EXCEPT ![s] = IF @ = "pause" THEN "unpaused" ELSE @]
  /\ UNCHANGED <<fixed, timed, sent, late>>

Step(s) ==
  /\ Known(s) /\ mode[s] = "step" /\ steps[s] < MaxStep
  /\ steps' = [steps EXCEPT ![s] = @ + 1]
  /\ pc' = [pc EXCEPT ![s] = IF @ = "step" THEN "stepped" ELSE @]
  /\ UNCHANGED <<sessions, status, mode, zero, plan, timed, sent, late>>

\* abort sets both events.
Woken(s) == IF pc[s] = "pause" THEN "unpaused"
            ELSE IF pc[s] = "step" THEN "stepped" ELSE pc[s]

Abort(s) ==
  /\ Known(s)
  /\ status' = [status EXCEPT ![s] = "aborted"]
  /\ pc' = [pc EXCEPT ![s] = Woken(s)]
  /\ UNCHANGED <<fixed, timed, sent, late>>

----------------------------------------------------------------------------
TaskStep(s) == BeginTask(s) \/ NextTurn(s) \/ Unpaused(s) \/ CallbackReturns(s)

ReplayNext ==
  \E s \in Session :
    \/ \E x \in Snapshots, m \in Modes, z \in ZeroSpeed : StartReplay(s, x, m, z)
    \/ TaskStep(s)
    \/ Pause(s) \/ Resume(s) \/ Step(s) \/ Abort(s)

ReplaySpec == ReplayInit /\ [][ReplayNext]_replayVars

\* The event loop runs a task that can go on; sleeps end, and the bus takes the
\* event because its dispatcher keeps emptying the queue (EventStream).
\* Operators act when they like.
FairReplaySpec == ReplaySpec /\ \A s \in Session : WF_replayVars(TaskStep(s))

----------------------------------------------------------------------------
(* Safety *)

\* Every variable stays in its domain, and only a session that was started has a
\* status and a task.
SessionsTypeOK ==
  /\ sessions \subseteq Session /\ timed \subseteq Session
  /\ status \in [Session -> Status \cup {"none"}]
  /\ mode \in [Session -> {"live", "fast", "step"}]
  /\ zero \in [Session -> BOOLEAN]
  /\ plan \in [Session -> Seq(Nat)] /\ sent \in [Session -> Seq(Nat)]
  /\ pc \in [Session -> TaskAt]
  /\ steps \in [Session -> 0..MaxStep]
  /\ late \in [Session -> Nat]
  /\ \A s \in Session : (status[s] = "none") <=> (pc[s] = "none")

\* What a session has sent is the investigation from its first event on,
\* without a gap, a repetition or a swap, whatever order the store had the events
\* in and however the session was paused, stepped and resumed.
ReplaysInOrder ==
  \A s \in Session : sent[s] = [i \in 1..Len(sent[s]) |-> i - 1]

\* A session that says COMPLETED has sent every event.
CompletedMeansAllSent ==
  \A s \in Session : status[s] = "completed" => Len(sent[s]) = Len(plan[s])

\* What subscribers of a replay see is the stored investigation from its start,
\* and all of it once the session says so.
ReplaysWhole == SessionsTypeOK /\ ReplaysInOrder /\ CompletedMeansAllSent

\* A paused session sends at most the one event for which its task had been
\* woken before the pause.
PauseHolds == \A s \in Session : late[s] <= 1

\* In STEP mode every event after the first was asked for.
StepsAreAskedFor ==
  \A s \in Session : mode[s] = "step" => Len(sent[s]) <= steps[s] + 1

\* The controls hold, wherever they meet the task.
ControlsHold == PauseHolds /\ StepsAreAskedFor

\* After abort no event is sent, wherever the task was waiting.
AbortStops ==
  [][\A s \in Session : status[s] = "aborted" => sent'[s] = sent[s]]_replayVars

----------------------------------------------------------------------------
(* Liveness, under FairReplaySpec *)

\* A replay that runs gets to its end or is paused or aborted, when it is not
\* stepped by hand and its speed was no zero.
SessionEnds ==
  \A s \in Session :
    (status[s] \in {"pending", "running"} /\ mode[s] # "step" /\ ~zero[s])
      ~> (status[s] \in {"completed", "aborted", "paused"})

\* The task of a session that was aborted ends, also when it was paused or
\* waiting for the bus.  (In STEP mode an abort during the callback is forgotten
\* with the step event.)
AbortEndsTask ==
  \A s \in Session :
    (status[s] = "aborted" /\ mode[s] # "step" /\ pc[s] # "raised")
      ~> (pc[s] = "ended")

\* An abort is final: nothing is sent after it, and the task goes away.
AbortIsFinal == AbortStops /\ AbortEndsTask

=============================================================================
