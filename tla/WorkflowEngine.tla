--------------------------- MODULE WorkflowEngine ---------------------------
(***************************************************************************)
(* The durable workflow store (WorkflowEngine, two SQLite tables) under    *)
(* WorkflowAwareInvestigator.investigate, for the calls about one          *)
(* incident.                                                               *)
(*                                                                         *)
(* Calls run in threads of one or several processes that share the file.   *)
(* Every engine method opens its own connection and commits once, so a     *)
(* method is one step, except start() and purge_old(), whose SELECT runs   *)
(* before the transaction of the INSERT or the DELETEs.  Any method may    *)
(* raise ("database is locked" after ten seconds), and then it wrote       *)
(* nothing.  A process may die between any two steps.                      *)
(***************************************************************************)
EXTENDS Naturals

CONSTANTS Caller,    \* the calls of investigate(incident_id)
          NoCaller,
          Phase,     \* phase names given to checkpoint()
          MaxNow     \* bound: seconds the clock shows, 1..MaxNow

ASSUME CallerAssumption == NoCaller \notin Caller
ASSUME ClockAssumption == MaxNow \in Nat \ {0}

VARIABLES
  row,       \* workflow_runs.status, "none" without a row
  summary,   \* workflow_runs.result_summary: the call that wrote it
  phases,    \* workflow_runs.completed_phases
  snaps,     \* the phases with a row in workflow_checkpoints
  old,       \* updated_at is further back than purge_old's cutoff
  selected,  \* the ids that a purge_old under way has read
  writer,    \* the call that updated the row last, until it returns
  now,       \* int(time.time())
  pc, id,    \* each call: where it is, and its investigation_id
  answer,    \* the call whose result it returned; NoCaller when it raised
  produced   \* calls whose supervisor.investigate returned a result

tableVars == <<row, summary, phases, snaps, old, writer>>
callVars == <<pc, id, answer, produced>>
workflowVars == <<tableVars, selected, now, callVars>>

\* "inv-<incident>" is 0, "inv-<incident>-r<second>" that second.
Base == 0
Id == 0..MaxNow
RunStatus == {"running", "completed", "failed"}
InCall == {"supersede", "look", "insert", "run", "complete", "fail"}

\* A call has returned or raised, its fail() has raised, or its process died.
Ended == {"done", "refused", "dead"}

\* result_summary is NULL or {}: no cached result.
NoSummary == NoCaller

WorkflowInit ==
  /\ row = [i \in Id |-> "none"]
  /\ summary = [i \in Id |-> NoSummary]
  /\ phases = [i \in Id |-> {}]
  /\ snaps = [i \in Id |-> {}]
  /\ old = {} /\ selected = {}
  /\ writer = [i \in Id |-> NoCaller]
  /\ now = 1
  /\ pc = [c \in Caller |-> "idle"]
  /\ id = [c \in Caller |-> Base]
  /\ answer = [c \in Caller |-> NoCaller]
  /\ produced = {}

\* An UPDATE of the status of a row; without a row it does nothing.
UpdateStatus(i, s, by) ==
  IF row[i] = "none" THEN UNCHANGED <<row, old, writer>>
  ELSE /\ row' = [row EXCEPT ![i] = s]
       /\ old' = old \ {i}
       /\ writer' = [writer EXCEPT ![i] = by]

Goto(c, label) == pc' = [pc EXCEPT ![c] = label]

\* The call returns or raises; its locals are gone.
Return(c) == Goto(c, "done") /\ id' = [id EXCEPT ![c] = Base]

\* A method of the engine raises outside the try block of investigate.
Raises(c) == Return(c) /\ UNCHANGED <<tableVars, answer>>

----------------------------------------------------------------------------
(* Wrong variants of the definitions below; the specification never uses them. *)

\* The except clause reports the exception without fail().
FailSilently(c) ==
  /\ pc[c] = "fail"
  /\ Return(c)
  /\ UNCHANGED <<tableVars, selected, now, answer, produced>>

\* complete() in a finally clause, so also after an exception.
InvestigateThenComplete(c) ==
  /\ pc[c] = "run"
  /\ \/ produced' = produced \cup {c}
     \/ UNCHANGED produced
  /\ Goto(c, "complete")
  /\ UNCHANGED <<tableVars, selected, now, id, answer>>

\* purge_old commits the deleted checkpoints and leaves the runs to a second
\* transaction that fails.
PurgeCheckpointsOnly ==
  /\ selected # {} /\ selected' = {}
  /\ snaps' = [i \in Id |-> IF i \in selected THEN {} ELSE snaps[i]]
  /\ UNCHANGED <<row, summary, phases, old, writer, now, callVars>>

----------------------------------------------------------------------------
(* WorkflowAwareInvestigator.investigate *)

\* resume(): a completed run with a stored result answers the call, a RUNNING
\* one is taken for an orphan, all others are run (again) under their own id.
Resume(c) ==
  /\ pc[c] = "idle"
  /\ \/ /\ row[Base] = "completed" /\ summary[Base] # NoSummary
        /\ answer' = [answer EXCEPT ![c] = summary[Base]]
        /\ Goto(c, "done") /\ UNCHANGED <<tableVars, id>>
     \/ /\ row[Base] = "running"
        /\ Goto(c, "supersede")
        /\ UNCHANGED <<tableVars, id, answer>>
     \/ /\ \/ row[Base] \in {"none", "failed"}
           \/ row[Base] = "completed" /\ summary[Base] = NoSummary
        /\ Goto(c, "look")
        /\ UNCHANGED <<tableVars, id, answer>>
     \/ Raises(c)
  /\ UNCHANGED <<selected, now, produced>>

\* The orphan is failed and the call goes on under an id with the second.
SupersedeOrphan(c) ==
  /\ pc[c] = "supersede"
  /\ \/ /\ UpdateStatus(Base, "failed", c)
        /\ id' = [id EXCEPT ![c] = now]
        /\ Goto(c, "look")
        /\ UNCHANGED <<summary, phases, snaps, answer>>
     \/ Raises(c)
  /\ UNCHANGED <<selected, now, produced>>

\* start(): the SELECT; an existing row, whatever its status, is left alone.
StartLook(c) ==
  /\ pc[c] = "look"
  /\ \/ /\ Goto(c, IF row[id[c]] = "none" THEN "insert" ELSE "run")
        /\ UNCHANGED <<tableVars, id, answer>>
     \/ Raises(c)
  /\ UNCHANGED <<selected, now, produced>>

\* start(): the INSERT; a row that appeared meanwhile raises IntegrityError.
StartInsert(c) ==
  /\ pc[c] = "insert"
  /\ \/ /\ row[id[c]] = "none"
        /\ row' = [row EXCEPT ![id[c]] = "running"]
        /\ summary' = [summary EXCEPT ![id[c]] = NoSummary]
        /\ phases' = [phases EXCEPT ![id[c]] = {}]
        /\ old' = old \ {id[c]}
        /\ writer' = [writer EXCEPT ![id[c]] = c]
        /\ Goto(c, "run")
        /\ UNCHANGED <<snaps, id, answer>>
     \/ Raises(c)
  /\ UNCHANGED <<selected, now, produced>>

\* supervisor.investigate returns or raises.
Investigate(c) ==
  /\ pc[c] = "run"
  /\ \/ produced' = produced \cup {c} /\ Goto(c, "complete")
     \/ Goto(c, "fail") /\ UNCHANGED produced
  /\ UNCHANGED <<tableVars, selected, now, id, answer>>

\* complete(), with what _safe_result_summary keeps: {} of a result that is no
\* dictionary.  It is inside the try block: when it raises, the call fails.
Complete(c) ==
  /\ pc[c] = "complete"
  /\ \/ /\ UpdateStatus(id[c], "completed", NoCaller)
        /\ \E s \in {c, NoSummary} :
             summary' = IF row[id[c]] = "none" THEN summary
                        ELSE [summary EXCEPT ![id[c]] = s]
        /\ answer' = [answer EXCEPT ![c] = c]
        /\ Return(c)
        /\ UNCHANGED <<phases, snaps>>
     \/ Goto(c, "fail") /\ UNCHANGED <<tableVars, id, answer>>
  /\ UNCHANGED <<selected, now, produced>>

\* fail() keeps a summary that an earlier run under this id left.  When it raises
\* there is nobody left to write the status: the call is "refused", with its id.
Fail(c) ==
  /\ pc[c] = "fail"
  /\ \/ /\ UpdateStatus(id[c], "failed", NoCaller)
        /\ Return(c)
        /\ UNCHANGED <<summary, phases, snaps>>
     \/ Goto(c, "refused") /\ UNCHANGED <<tableVars, id>>
  /\ UNCHANGED <<selected, now, answer, produced>>

\* checkpoint(), while the investigation runs: the snapshot is inserted or
\* refreshed and, when there is a run, its list of phases is committed with it.
\* One that raises is the investigation's to handle.
Checkpoint(c, p) ==
  /\ pc[c] = "run"
  /\ snaps' = [snaps EXCEPT ![id[c]] = @ \cup {p}]
  /\ IF row[id[c]] = "none" THEN UNCHANGED <<phases, old, writer>>
     ELSE /\ phases' = [phases EXCEPT ![id[c]] = @ \cup {p}]
          /\ old' = old \ {id[c]}
          /\ writer' = [writer EXCEPT ![id[c]] = c]
  /\ UNCHANGED <<row, summary, selected, now, callVars>>

----------------------------------------------------------------------------
(* The environment *)

\* The process of a call dies; the tables stay as they are.
Crash(c) ==
  /\ pc[c] \in InCall
  /\ Goto(c, "dead")
  /\ UNCHANGED <<tableVars, selected, now, id, answer, produced>>

\* The clock goes to the next second.
NextSecond ==
  /\ now < MaxNow
  /\ now' = now + 1
  /\ UNCHANGED <<tableVars, selected, callVars>>

\* A week without an update of a run that purge_old may take; calls take
\* minutes, so whoever updated the row last is long gone.
Age(i) ==
  /\ row[i] \in {"completed", "failed"} /\ i \notin old
  /\ writer[i] \in Caller => pc[writer[i]] \notin InCall
  /\ old' = old \cup {i}
  /\ UNCHANGED <<row, summary, phases, snaps, selected, writer, now, callVars>>

\* purge_old: the SELECT of completed and failed runs.
PurgeSelect ==
  /\ selected = {}
  /\ selected' = {i \in old : row[i] \in {"completed", "failed"}}
  /\ UNCHANGED <<tableVars, now, callVars>>

\* purge_old: these ids are deleted from both tables in one transaction, whatever
\* became of their runs meanwhile; or it raises, or its process dies.
PurgeDelete ==
  /\ selected # {} /\ selected' = {}
  /\ \/ /\ row' = [i \in Id |-> IF i \in selected THEN "none" ELSE row[i]]
        /\ summary' = [i \in Id |-> IF i \in selected THEN NoSummary ELSE summary[i]]
        /\ phases' = [i \in Id |-> IF i \in selected THEN {} ELSE phases[i]]
        /\ snaps' = [i \in Id |-> IF i \in selected THEN {} ELSE snaps[i]]
        /\ old' = old \ selected
        /\ UNCHANGED writer
     \/ UNCHANGED tableVars
  /\ UNCHANGED <<now, callVars>>

----------------------------------------------------------------------------
CallStep(c) ==
  \/ SupersedeOrphan(c) \/ StartLook(c) \/ StartInsert(c)
  \/ Investigate(c) \/ Complete(c) \/ Fail(c)

WorkflowNext ==
  \/ \E c \in Caller : \/ Resume(c) \/ CallStep(c) \/ Crash(c)
                       \/ \E p \in Phase : Checkpoint(c, p)
  \/ \E i \in Id : Age(i)
  \/ NextSecond \/ PurgeSelect \/ PurgeDelete

WorkflowSpec == WorkflowInit /\ [][WorkflowNext]_workflowVars

----------------------------------------------------------------------------
(* Safety *)

\* Every variable stays in its domain.
WorkflowTypeOK ==
  /\ row \in [Id -> RunStatus \cup {"none"}]
  /\ summary \in [Id -> Caller \cup {NoCaller}]
  /\ phases \in [Id -> SUBSET Phase] /\ snaps \in [Id -> SUBSET Phase]
  /\ old \subseteq Id /\ selected \subseteq Id
  /\ writer \in [Id -> Caller \cup {NoCaller}]
  /\ now \in 1..MaxNow
  /\ pc \in [Caller -> InCall \cup Ended \cup {"idle"}]
  /\ id \in [Caller -> Id]
  /\ answer \in [Caller -> Caller \cup {NoCaller}]
  /\ produced \subseteq Caller

\* What a call returns, its own result or a cached one, is the result of an
\* investigation that really finished: no crash, exception, reused id or purge
\* makes a stored summary out of a run that did not.
AnswersWereProduced ==
  \A c \in Caller : answer[c] # NoCaller => answer[c] \in produced

\* A run stays RUNNING only while the call that wrote it last is under way, and after
\* that only when this call died or its fail() raised: every other call completes or
\* fails the run, also when the id is shared with another call and when complete()
\* raised.
RunningHasOwner ==
  \A i \in Id : row[i] = "running" =>
    /\ writer[i] \in Caller
    /\ id[writer[i]] = i
    /\ pc[writer[i]] \in {"run", "complete", "fail", "dead", "refused"}

\* A phase that the run lists as completed has its snapshot, so that a resume
\* never skips a phase it cannot restore, also across purges and reused ids.
PhasesHaveSnapshots == \A i \in Id : phases[i] \subseteq snaps[i]

=============================================================================
