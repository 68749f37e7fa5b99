------------------------ MODULE InvestigationProofs ------------------------
(***************************************************************************)
(* Proofs about investigations: their life in the BFF (Lifecycle), for any *)
(* number of investigations, fingerprints, control actions, threads and    *)
(* restarts, and their durable runs (WorkflowEngine), for any calls,       *)
(* phases and number of seconds.                                           *)
(***************************************************************************)
EXTENDS Lifecycle, WorkflowEngine, TLAPS

----------------------------------------------------------------------------
(* The life of an investigation in the BFF *)

\* A call that went to the supervisor is among those that were investigated: the
\* strengthening that makes CompletedWasInvestigated inductive.
ExecutingInvestigated ==
  \A i \in Inv : task[i] = "executing" /\ via[i] = "manual" => i \in investigated

IInv == /\ TypeOK
        /\ ExecutingInvestigated
        /\ CompletedWasInvestigated
        /\ CooldownRespected

\* A fingerprint has one of the three tiers, whose cooldowns are defined.
LEMMA FingerprintType ==
  ASSUME NEW k \in Key, NEW s \in Severity
  PROVE  fingerprint(k, s) \in Fingerprint
BY DEF fingerprint, _severity_tier, Fingerprint, Tier

\* What every handler that changes a status writes: a state of the right shape,
\* completed only if it is the handler that records a completion.
LEMMA StatusWrite ==
  ASSUME IInv, NEW i \in Inv, NEW st \in Status,
         SetStatus(i, st), st = "completed" => i \in investigated
  PROVE  /\ memory' \in [Inv -> IncidentState \union {NoState}]
         /\ table' \in [Inv -> IncidentState \union {NoState}]
         /\ \A j \in Inv : \A s \in {memory'[j], table'[j]} :
              s # NoState => (s.status = "completed" => j \in investigated)
<1>0. TypeOK /\ CompletedWasInvestigated
  BY DEF IInv
<1>1. CASE UNCHANGED <<memory, table>>
  BY <1>0, <1>1 DEF TypeOK, CompletedWasInvestigated
<1>2. CASE SetFound(i, st)
  <2>1. PICK state \in get_state(i) \ {NoState} : put_state(i, [state EXCEPT !.status = st])
    BY <1>2 DEF SetFound
  <2>2. state \in IncidentState
    BY <1>0, <2>1 DEF get_state, TypeOK
  <2> DEFINE new == [state EXCEPT !.status = st]
  <2>3. new \in IncidentState /\ new.status = st
    BY <2>2 DEF IncidentState
  <2>4. put_state(i, new)
    BY <2>1
  <2> HIDE DEF new
  <2>5. /\ memory' = [memory EXCEPT ![i] = new]
        /\ table' = [table EXCEPT ![i] = new] \/ table' = table
    BY <2>4 DEF put_state
  <2> QED
    BY <1>0, <2>3, <2>5 DEF TypeOK, CompletedWasInvestigated
<1> QED
  BY <1>1, <1>2 DEF SetStatus

\* With deduplication a row is only added when no active row has its fingerprint.
LEMMA RegisterStep ==
  ASSUME IInv, NEW i \in Inv, NEW f \in Fingerprint,
         \/ UNCHANGED registry
         \/ Novel(f) /\ _register(f, i)
  PROVE  registry' \subseteq Row /\ CooldownRespected'
<1>0. TypeOK /\ CooldownRespected
  BY DEF IInv
<1>1. CASE UNCHANGED registry
  BY <1>0, <1>1 DEF TypeOK, CooldownRespected
<1>2. CASE Novel(f) /\ _register(f, i)
  <2> DEFINE new == [fp |-> f, inv |-> i, at |-> clock]
  <2>1. new \in Row /\ new.fp = f /\ new.at = clock
    BY <1>0 DEF TypeOK, Row
  <2>2. registry' = registry \union {new}
    BY <1>2 DEF _register
  <2> HIDE DEF new
  <2>3. Cooldown[f.tier] \in Nat /\ clock \in Int
    BY <1>0, LifecycleAssumption DEF TypeOK, Fingerprint
  <2>4. DedupEnabled =>
        \A e \in registry : e.fp = f => e.at \in Int /\ clock - e.at >= Cooldown[f.tier]
    BY <1>0, <1>2, <2>3 DEF Novel, _fetch_active, TypeOK, Row
  <2>5. registry' \subseteq Row
    BY <1>0, <2>1, <2>2 DEF TypeOK
  <2>6. ASSUME DedupEnabled, NEW a \in registry', NEW b \in registry', a.fp = b.fp, a.inv # b.inv
        PROVE  \/ a.at - b.at >= Cooldown[a.fp.tier]
               \/ b.at - a.at >= Cooldown[a.fp.tier]
    <3>1. CASE a \in registry /\ b \in registry
      BY <1>0, <2>6, <3>1 DEF CooldownRespected
    <3>2. CASE a = new /\ b \in registry
      BY <2>1, <2>4, <2>6, <3>2
    <3>3. CASE b = new /\ a \in registry
      BY <2>1, <2>4, <2>6, <3>3
    <3> QED
      BY <2>2, <2>6, <3>1, <3>2, <3>3
  <2> QED
    BY <2>5, <2>6 DEF CooldownRespected
<1> QED
  BY <1>1, <1>2

\* The invariant holds when the process starts for the first time.
LEMMA InitInv ==
  ASSUME Init PROVE IInv
BY LifecycleAssumption
   DEF Init, IInv, TypeOK, ExecutingInvestigated, CompletedWasInvestigated,
       CooldownRespected, TaskState

\* Every step of every handler preserves the invariant.
LEMMA InductiveStep ==
  ASSUME IInv, [Next]_vars PROVE IInv'
<1> USE LifecycleAssumption
<1>0. TypeOK /\ ExecutingInvestigated /\ CompletedWasInvestigated /\ CooldownRespected
  BY DEF IInv
<1>1. ASSUME NEW i \in Inv, NEW key \in Key, NEW s \in Severity,
             _accept_and_dispatch(i, key, s)
      PROVE  IInv'
  <2> DEFINE f == fingerprint(key, s)
  <2>1. f \in Fingerprint
    BY FingerprintType
  <2> HIDE DEF f
  <2>2. /\ via[i] = "unused"
        /\ UNCHANGED <<clock, investigated, applied, restarts>>
        /\ \/ UNCHANGED registry
           \/ Novel(f) /\ _register(f, i)
        /\ \/ Begin(i, "webhook") /\ fp' = [fp EXCEPT ![i] = f]
           \/ UNCHANGED <<memory, table, via, task, fp>>
    BY <1>1 DEF _accept_and_dispatch, check_and_register, f
  <2>3a. unchecked' \subseteq Inv /\ suppressed' \in Row \union {NoState}
    BY <1>0, <1>1, <2>1
       DEF _accept_and_dispatch, check_and_register, f, Newest, _fetch_active, TypeOK, Row
  <2>3. registry' \subseteq Row /\ CooldownRespected'
    BY <2>1, <2>2, RegisterStep
  <2>4. CASE UNCHANGED <<memory, table, via, task, fp>>
    BY <1>0, <2>2, <2>3a, <2>3, <2>4
       DEF IInv, TypeOK, ExecutingInvestigated, CompletedWasInvestigated
  <2>5. CASE Begin(i, "webhook") /\ fp' = [fp EXCEPT ![i] = f]
    BY <1>0, <2>1, <2>2, <2>3a, <2>3, <2>5
       DEF Begin, put_state, NewState, IncidentState, Status, TaskState,
           IInv, TypeOK, ExecutingInvestigated, CompletedWasInvestigated
  <2> QED
    BY <2>2, <2>4, <2>5
<1>2. ASSUME NEW i \in Inv, start_investigation(i)
      PROVE  IInv'
  BY <1>0, <1>2
     DEF start_investigation, Begin, put_state, NewState, IncidentState, Status, TaskState,
         IInv, TypeOK, ExecutingInvestigated, CompletedWasInvestigated, CooldownRespected
<1>3. ASSUME NEW i \in Inv, Dispatch(i)
      PROVE  IInv'
  <2>1. /\ SetStatus(i, "running") /\ task' = [task EXCEPT ![i] = "queued"]
        /\ UNCHANGED <<clock, registry, via, fp, investigated, unchecked, suppressed, applied, restarts>>
    BY <1>3 DEF Dispatch
  <2>2. /\ memory' \in [Inv -> IncidentState \union {NoState}]
        /\ table' \in [Inv -> IncidentState \union {NoState}]
        /\ \A j \in Inv : \A s \in {memory'[j], table'[j]} :
              s # NoState => (s.status = "completed" => j \in investigated)
    BY <2>1, StatusWrite DEF Status
  <2> QED
    BY <1>0, <2>1, <2>2
       DEF TaskState, IInv, TypeOK, ExecutingInvestigated, CompletedWasInvestigated,
           CooldownRespected
<1>4. ASSUME NEW i \in Inv, StartAgent(i)
      PROVE  IInv'
  BY <1>0, <1>4
     DEF StartAgent, CallsSupervisor, TaskState, IInv, TypeOK, ExecutingInvestigated,
         CompletedWasInvestigated, CooldownRespected
<1>5. ASSUME NEW i \in Inv, AgentReturns(i) \/ AgentRaises(i)
      PROVE  IInv'
  <2>1. PICK st \in Terminal :
          /\ SetStatus(i, st)
          /\ st = "completed" => i \in investigated
          /\ task' = [task EXCEPT ![i] = "finished"]
          /\ UNCHANGED <<clock, registry, via, fp, investigated, unchecked, suppressed, applied, restarts>>
    BY <1>0, <1>5 DEF AgentReturns, AgentRaises, CallsSupervisor, ExecutingInvestigated, Terminal
  <2>2. /\ memory' \in [Inv -> IncidentState \union {NoState}]
        /\ table' \in [Inv -> IncidentState \union {NoState}]
        /\ \A j \in Inv : \A s \in {memory'[j], table'[j]} :
              s # NoState => (s.status = "completed" => j \in investigated)
    BY <2>1, StatusWrite DEF Status, Terminal
  <2> QED
    BY <1>0, <2>1, <2>2
       DEF TaskState, IInv, TypeOK, ExecutingInvestigated, CompletedWasInvestigated,
           CooldownRespected
<1>6. ASSUME NEW i \in Inv, NEW a \in ActionType, send_control_action(i, a)
      PROVE  IInv'
  <2>1. /\ UNCHANGED <<clock, registry, via, fp, task, investigated, unchecked, suppressed, restarts>>
        /\ applied < MaxControl /\ applied' = applied + 1
        /\ \/ SetStatus(i, "paused")
           \/ SetStatus(i, "running")
           \/ UNCHANGED <<memory, table>>
    BY <1>6 DEF send_control_action, SetStatus
  <2>2. /\ memory' \in [Inv -> IncidentState \union {NoState}]
        /\ table' \in [Inv -> IncidentState \union {NoState}]
        /\ \A j \in Inv : \A s \in {memory'[j], table'[j]} :
              s # NoState => (s.status = "completed" => j \in investigated)
    <3>1. CASE SetStatus(i, "paused")
      BY <3>1, StatusWrite DEF Status
    <3>2. CASE SetStatus(i, "running")
      BY <3>2, StatusWrite DEF Status
    <3>3. CASE UNCHANGED <<memory, table>>
      BY <1>0, <3>3 DEF TypeOK, CompletedWasInvestigated
    <3> QED
      BY <2>1, <3>1, <3>2, <3>3
  <2>3. applied' \in 0..MaxControl
    BY <1>0, <2>1 DEF TypeOK
  <2> QED
    BY <1>0, <2>1, <2>2, <2>3
       DEF IInv, TypeOK, ExecutingInvestigated, CompletedWasInvestigated, CooldownRespected
<1>7. ASSUME Tick PROVE IInv'
  BY <1>0, <1>7
     DEF Tick, IInv, TypeOK, ExecutingInvestigated, CompletedWasInvestigated, CooldownRespected
<1>8. ASSUME Restart PROVE IInv'
  BY <1>0, <1>8
     DEF Restart, IInv, TypeOK, ExecutingInvestigated, CompletedWasInvestigated,
         CooldownRespected, TaskState
<1>9. ASSUME UNCHANGED vars PROVE IInv'
  BY <1>0, <1>9
     DEF vars, IInv, TypeOK, ExecutingInvestigated, CompletedWasInvestigated, CooldownRespected
<1> QED
  BY <1>1, <1>2, <1>3, <1>4, <1>5, <1>6, <1>7, <1>8, <1>9 DEF Next

\* The inductive invariant holds in every reachable state.
THEOREM Invariance == Spec => []IInv
BY InitInv, InductiveStep, PTL DEF Spec

\* The store, the registry and the tasks always have their types.
THEOREM TypeCorrectness == Spec => []TypeOK
<1>1. IInv => TypeOK
  BY DEF IInv
<1> QED
  BY <1>1, Invariance, PTL

\* Within a cooldown check_and_register registers one alert of a fingerprint, for any
\* set of alerts and cooldowns, with a database that may raise and any number of
\* restarts.
THEOREM OneAlertPerCooldown == Spec => []CooldownRespected
<1>1. IInv => CooldownRespected
  BY DEF IInv
<1> QED
  BY <1>1, Invariance, PTL

\* A state that says completed, in memory or in the table, belongs to an
\* investigation for which the supervisor was called.
THEOREM CompletedMeansInvestigated == Spec => []CompletedWasInvestigated
<1>1. IInv => CompletedWasInvestigated
  BY DEF IInv
<1> QED
  BY <1>1, Invariance, PTL

\* While the process lives every row of the registry names an investigation that
\* is in memory.
KnownInv == restarts = 0 => \A e \in registry : memory[e.inv] # NoState

\* Setting a status forgets no investigation.
LEMMA StatusKeeps ==
  ASSUME TypeOK, NEW i \in Inv, NEW st \in Status, SetStatus(i, st)
  PROVE  \A j \in Inv : memory[j] # NoState => memory'[j] # NoState
<1>1. CASE UNCHANGED <<memory, table>>
  BY <1>1
<1>2. CASE SetFound(i, st)
  <2>1. PICK state \in get_state(i) \ {NoState} : put_state(i, [state EXCEPT !.status = st])
    BY <1>2 DEF SetFound
  <2>2. state \in IncidentState
    BY <2>1 DEF get_state, TypeOK
  <2> DEFINE new == [state EXCEPT !.status = st]
  <2>3. new \in IncidentState
    BY <2>2 DEF IncidentState
  <2>4. new # NoState /\ memory' = [memory EXCEPT ![i] = new]
    BY <2>1, <2>3, NoStateAssumption DEF put_state
  <2> HIDE DEF new
  <2> QED
    BY <2>4 DEF TypeOK
<1> QED
  BY <1>1, <1>2 DEF SetStatus

\* A registered alert has its investigation in memory from the step on that
\* registers it.
LEMMA KnownStep ==
  ASSUME IInv, KnownInv, [Next]_vars
  PROVE  KnownInv'
<1> USE DEF KnownInv
<1>0. TypeOK
  BY DEF IInv
<1>1. \A e \in registry : e.inv \in Inv
  BY <1>0 DEF TypeOK, Row
<1>2. ASSUME NEW i \in Inv, NEW key \in Key, NEW s \in Severity, _accept_and_dispatch(i, key, s)
      PROVE  KnownInv'
  <2>1. /\ UNCHANGED restarts
        /\ \/ UNCHANGED <<registry, memory>>
           \/ /\ memory' = [memory EXCEPT ![i] = NewState]
              /\ \/ UNCHANGED registry
                 \/ \E f : _register(f, i)
    BY <1>2 DEF _accept_and_dispatch, check_and_register, Begin, put_state
  <2>2. NewState # NoState
    BY NoStateAssumption DEF NewState, IncidentState, Status
  <2> QED
    BY <1>0, <1>1, <2>1, <2>2 DEF _register, TypeOK
<1>3. ASSUME NEW i \in Inv, start_investigation(i)
      PROVE  KnownInv'
  <2>1. NewState # NoState
    BY NoStateAssumption DEF NewState, IncidentState, Status
  <2> QED
    BY <1>0, <1>1, <1>3, <2>1 DEF start_investigation, Begin, put_state, TypeOK
<1>4. ASSUME NEW i \in Inv,
             \/ Dispatch(i) \/ AgentReturns(i) \/ AgentRaises(i)
             \/ \E a \in ActionType : send_control_action(i, a)
      PROVE  KnownInv'
  <2>1. UNCHANGED <<registry, restarts>>
    BY <1>4 DEF Dispatch, AgentReturns, AgentRaises, send_control_action
  <2>2. UNCHANGED memory \/ \E st \in Status : SetStatus(i, st)
    BY <1>4 DEF Dispatch, AgentReturns, AgentRaises, send_control_action, SetStatus, Status
  <2>3. \A j \in Inv : memory[j] # NoState => memory'[j] # NoState
    BY <1>0, <2>2, StatusKeeps
  <2> QED
    BY <1>1, <2>1, <2>3
<1>5. ASSUME NEW i \in Inv, StartAgent(i)
      PROVE  KnownInv'
  BY <1>5 DEF StartAgent
<1>6. CASE Tick \/ UNCHANGED vars
  BY <1>6 DEF Tick, vars
<1>7. CASE Restart
  BY <1>0, <1>7, LifecycleAssumption DEF Restart, TypeOK
<1> QED
  BY <1>2, <1>3, <1>4, <1>5, <1>6, <1>7 DEF Next

\* A duplicate is sent to an investigation that can be read, for any number of
\* alerts, before a restart.
THEOREM DuplicatesAreKnown == Spec => []DuplicateNamesKnown
<1>1. Init => KnownInv
  BY DEF Init, KnownInv
<1>2. IInv /\ KnownInv /\ [Next]_vars => KnownInv'
  BY KnownStep
<1>3. KnownInv => DuplicateNamesKnown
  BY DEF KnownInv, DuplicateNamesKnown
<1> QED
  BY <1>1, <1>2, <1>3, Invariance, PTL DEF Spec

\* An alert is registered when it passes its check, and a later one is suppressed only
\* for the cooldown of a row: no step of any handler undoes either.
LEMMA SuppressionStep ==
  ASSUME TypeOK, PassedAreRegistered, SuppressionHasReason, [Next]_vars
  PROVE  PassedAreRegistered' /\ SuppressionHasReason'
<1>1. ASSUME NEW i \in Inv, NEW key \in Key, NEW s \in Severity, _accept_and_dispatch(i, key, s)
      PROVE  PassedAreRegistered' /\ SuppressionHasReason'
  <2> DEFINE f == fingerprint(key, s)
  <2>1. f \in Fingerprint
    BY FingerprintType
  <2> HIDE DEF f
  <2>2. via[i] = "unused" /\ registry \subseteq registry'
    BY <1>1 DEF _accept_and_dispatch, check_and_register, _register
  <2>3. \/ UNCHANGED <<via, fp, unchecked>>
        \/ /\ via' = [via EXCEPT ![i] = "webhook"] /\ fp' = [fp EXCEPT ![i] = f]
           /\ \/ unchecked' = unchecked \union {i}
              \/ UNCHANGED unchecked /\ [fp |-> f, inv |-> i, at |-> clock] \in registry'
    BY <1>1 DEF _accept_and_dispatch, check_and_register, Begin, _register, f
  <2>4. PassedAreRegistered'
    <3> SUFFICES ASSUME NEW j \in Inv, via'[j] = "webhook", j \notin unchecked'
                 PROVE  \E e \in registry' : e.fp = fp'[j] /\ e.inv = j
      BY DEF PassedAreRegistered
    <3>1. CASE j = i
      BY <2>2, <2>3, <3>1 DEF TypeOK
    <3>2. CASE j # i
      BY <2>2, <2>3, <3>2 DEF TypeOK, PassedAreRegistered
    <3> QED
      BY <3>1, <3>2
  <2>5. SuppressionHasReason'
    <3>1. CASE UNCHANGED suppressed
      BY <2>2, <3>1 DEF SuppressionHasReason
    <3>2. CASE ~ UNCHANGED suppressed
      <4>1. PICK e \in _fetch_active(f) : suppressed' = [fp |-> f, inv |-> e.inv, at |-> clock]
        BY <1>1, <3>2 DEF _accept_and_dispatch, check_and_register, Newest, f
      <4>2. e \in registry /\ e.fp = f /\ e.at > clock - Cooldown[f.tier]
        BY <4>1 DEF _fetch_active
      <4>3. clock - e.at < Cooldown[f.tier]
        BY <2>1, <4>2, LifecycleAssumption DEF TypeOK, Row, Fingerprint
      <4> QED
        BY <2>2, <4>1, <4>2, <4>3 DEF SuppressionHasReason
    <3> QED
      BY <3>1, <3>2
  <2> QED
    BY <2>4, <2>5
<1>2. ASSUME NEW i \in Inv, start_investigation(i)
      PROVE  PassedAreRegistered' /\ SuppressionHasReason'
  BY <1>2 DEF start_investigation, Begin, PassedAreRegistered, SuppressionHasReason, TypeOK
<1>3. CASE UNCHANGED <<registry, via, fp, unchecked, suppressed>>
  BY <1>3 DEF PassedAreRegistered, SuppressionHasReason
<1>4. \/ UNCHANGED <<registry, via, fp, unchecked, suppressed>>
      \/ \E i \in Inv : \/ start_investigation(i)
                        \/ \E key \in Key, s \in Severity : _accept_and_dispatch(i, key, s)
  BY DEF Next, vars, Dispatch, StartAgent, AgentReturns, AgentRaises, send_control_action,
         Tick, Restart
<1> QED
  BY <1>1, <1>2, <1>3, <1>4

\* Of the alerts that could be checked one is registered per cooldown, and the others
\* are suppressed for no longer than its cooldown, in favour of an investigation that,
\* before a restart, can be read; an alert whose check raised passes in addition.
THEOREM SuppressionIsSound == Spec => []DuplicatesSuppressed
<1>1. Init => PassedAreRegistered /\ SuppressionHasReason
  BY DEF Init, PassedAreRegistered, SuppressionHasReason
<1>2. /\ TypeOK /\ PassedAreRegistered /\ SuppressionHasReason /\ [Next]_vars
      => PassedAreRegistered' /\ SuppressionHasReason'
  BY SuppressionStep
<1>3. /\ CooldownRespected /\ DuplicateNamesKnown /\ PassedAreRegistered /\ SuppressionHasReason
      => DuplicatesSuppressed
  BY DEF DuplicatesSuppressed
<1> QED
  BY <1>1, <1>2, <1>3, TypeCorrectness, OneAlertPerCooldown, DuplicatesAreKnown, PTL DEF Spec

\* An end that memory shows was recorded by the task, which is then over; and no
\* task belongs to an id that was not drawn yet.
EndInv ==
  \A i \in Inv : /\ via[i] = "unused" => task[i] = "none"
                 /\ memory[i] # NoState =>
                      (memory[i].status \in Terminal => task[i] = "finished")

\* Setting a status touches one investigation, and gives it that status.
LEMMA StatusSet ==
  ASSUME TypeOK, NEW i \in Inv, NEW st \in Status, SetStatus(i, st)
  PROVE  \A j \in Inv : \/ memory'[j] = memory[j]
                        \/ j = i /\ memory'[j] # NoState /\ memory'[j].status = st
<1>1. CASE UNCHANGED <<memory, table>>
  BY <1>1
<1>2. CASE SetFound(i, st)
  <2>1. PICK state \in get_state(i) \ {NoState} : put_state(i, [state EXCEPT !.status = st])
    BY <1>2 DEF SetFound
  <2>2. state \in IncidentState
    BY <2>1 DEF get_state, TypeOK
  <2> DEFINE new == [state EXCEPT !.status = st]
  <2>3. new \in IncidentState /\ new.status = st
    BY <2>2 DEF IncidentState
  <2>4. new # NoState /\ memory' = [memory EXCEPT ![i] = new]
    BY <2>1, <2>3, NoStateAssumption DEF put_state
  <2> HIDE DEF new
  <2> QED
    BY <2>3, <2>4 DEF TypeOK
<1> QED
  BY <1>1, <1>2 DEF SetStatus

\* What the steps of a task, of a handler and of a restart do to the end of an
\* investigation: it is invariantly the task's, and moved by no task.
LEMMA EndStep ==
  ASSUME TypeOK, EndInv, [Next]_vars
  PROVE  /\ EndInv'
         /\ \A i \in Inv : memory[i] # NoState =>
              (memory[i].status \in Terminal =>
                 \/ memory'[i] = memory[i]
                 \/ restarts' # restarts
                 \/ applied' # applied)
<1> DEFINE Kept == \A j \in Inv : memory[j] # NoState =>
                     (memory[j].status \in Terminal => memory'[j] = memory[j])
<1> SUFFICES EndInv' /\ (Kept \/ restarts' # restarts \/ applied' # applied)
  OBVIOUS
<1>1. ASSUME NEW i \in Inv,
             \/ start_investigation(i)
             \/ \E key \in Key, s \in Severity : _accept_and_dispatch(i, key, s)
      PROVE  EndInv' /\ Kept
  <2>1. \/ UNCHANGED <<memory, task, via>>
        \/ /\ via[i] = "unused"
           /\ memory' = [memory EXCEPT ![i] = NewState]
           /\ task' = [task EXCEPT ![i] = "created"]
           /\ \E how \in {"webhook", "manual"} : via' = [via EXCEPT ![i] = how]
    BY <1>1 DEF start_investigation, _accept_and_dispatch, Begin, put_state
  <2>2. NewState.status \notin Terminal
    BY DEF NewState, Terminal
  <2>3. via[i] = "unused" =>
          (memory[i] # NoState => memory[i].status \notin Terminal)
    BY DEF EndInv
  <2> QED
    BY <2>1, <2>2, <2>3 DEF EndInv, TypeOK
<1>2. ASSUME NEW i \in Inv, NEW st \in Status, SetStatus(i, st),
             Dispatch(i) \/ AgentReturns(i) \/ AgentRaises(i),
             st \in Terminal => task'[i] = "finished"
      PROVE  EndInv' /\ Kept
  <2>1. \A j \in Inv : \/ memory'[j] = memory[j]
                       \/ j = i /\ memory'[j] # NoState /\ memory'[j].status = st
    BY <1>2, StatusSet
  <2>2. /\ UNCHANGED via /\ task[i] \in {"created", "executing"}
        /\ \A j \in Inv \ {i} : task'[j] = task[j]
    BY <1>2 DEF Dispatch, AgentReturns, AgentRaises, TypeOK
  <2> QED
    BY <1>2, <2>1, <2>2 DEF EndInv, TypeOK
<1>3. ASSUME NEW i \in Inv, Dispatch(i) \/ AgentReturns(i) \/ AgentRaises(i)
      PROVE  EndInv' /\ Kept
  <2>1. CASE Dispatch(i)
    BY <1>2, <2>1 DEF Dispatch, Status, Terminal
  <2>2. CASE AgentReturns(i)
    BY <1>2, <2>2 DEF AgentReturns, Status, TypeOK
  <2>3. CASE AgentRaises(i)
    BY <1>2, <2>3 DEF AgentRaises, Status, TypeOK
  <2> QED
    BY <1>3, <2>1, <2>2, <2>3
<1>4. ASSUME NEW i \in Inv, StartAgent(i)
      PROVE  EndInv' /\ Kept
  BY <1>4 DEF StartAgent, EndInv, TypeOK
<1>5. ASSUME NEW i \in Inv, NEW a \in ActionType, send_control_action(i, a)
      PROVE  EndInv' /\ applied' # applied
  <2>1. UNCHANGED <<via, task>> /\ applied' # applied
    BY <1>5, LifecycleAssumption DEF send_control_action, TypeOK
  <2>2. UNCHANGED memory \/ \E st \in Status \ Terminal : SetStatus(i, st)
    BY <1>5 DEF send_control_action, SetStatus, Status, Terminal
  <2>3. \A j \in Inv : \/ memory'[j] = memory[j]
                       \/ memory'[j] # NoState /\ memory'[j].status \notin Terminal
    BY <2>2, StatusSet
  <2> QED
    BY <2>1, <2>3 DEF EndInv
<1>6. CASE Restart
  BY <1>6, LifecycleAssumption DEF Restart, EndInv, TypeOK
<1>7. CASE Tick \/ UNCHANGED vars
  BY <1>7 DEF Tick, vars, EndInv
<1> QED
  BY <1>1, <1>3, <1>4, <1>5, <1>6, <1>7 DEF Next

\* The end of an investigation is moved back by no late task, for any number of
\* investigations and threads: only a control action or a restart does.
THEOREM EndsStay == Spec => TerminalUntilControl
<1>1. Init => EndInv
  BY DEF Init, EndInv
<1>2. TypeOK /\ EndInv /\ [Next]_vars => EndInv'
  BY EndStep
<1>3. TypeOK /\ EndInv /\ [Next]_vars =>
        [\A i \in Inv : memory[i] # NoState =>
           (memory[i].status \in Terminal =>
              \/ memory'[i] = memory[i]
              \/ restarts' # restarts
              \/ applied' # applied)]_vars
  BY EndStep
<1> QED
  BY <1>1, <1>2, <1>3, TypeCorrectness, PTL DEF Spec, TerminalUntilControl

----------------------------------------------------------------------------
(* The durable run of an investigation *)

\* WorkflowTypeOK in parts: the tables and the calls.
TableTypes ==
  /\ row \in [Id -> RunStatus \cup {"none"}]
  /\ summary \in [Id -> Caller \cup {NoCaller}]
  /\ phases \in [Id -> SUBSET Phase] /\ snaps \in [Id -> SUBSET Phase]
  /\ old \subseteq Id /\ selected \subseteq Id
  /\ writer \in [Id -> Caller \cup {NoCaller}]
CallTypes ==
  /\ now \in 1..MaxNow
  /\ pc \in [Caller -> InCall \cup Ended \cup {"idle"}]
  /\ id \in [Caller -> Id]
  /\ answer \in [Caller -> Caller \cup {NoCaller}]
  /\ produced \subseteq Caller

\* A stored summary is that of a call that produced it, and only such a call
\* comes to complete().
SummariesProduced ==
  /\ \A i \in Id : summary[i] # NoCaller => summary[i] \in produced
  /\ \A c \in Caller : pc[c] = "complete" => c \in produced

WorkflowInv == /\ TableTypes /\ CallTypes /\ SummariesProduced
        /\ AnswersWereProduced /\ RunningHasOwner /\ PhasesHaveSnapshots

\* The ids of the seconds.
LEMMA Ids == Base \in Id /\ MaxNow \in Nat /\ MaxNow > 0 /\ 1..MaxNow \subseteq Id
BY ClockAssumption DEF Base, Id

\* The initial state satisfies the invariant.
LEMMA WorkflowInitially == WorkflowInit => WorkflowInv
<1> SUFFICES ASSUME WorkflowInit PROVE WorkflowInv
  OBVIOUS
<1>1. TableTypes
  BY DEF WorkflowInit, TableTypes, NoSummary
<1>2. CallTypes
  BY Ids DEF WorkflowInit, CallTypes
<1>3. SummariesProduced /\ AnswersWereProduced /\ RunningHasOwner /\ PhasesHaveSnapshots
  BY DEF WorkflowInit, SummariesProduced, AnswersWereProduced, RunningHasOwner,
     PhasesHaveSnapshots, NoSummary
<1> QED
  BY <1>1, <1>2, <1>3 DEF WorkflowInv

\* What an UPDATE of the status does to the table.
LEMMA StatusUpdate ==
  ASSUME TableTypes, NEW i \in Id, NEW s \in RunStatus, NEW by \in Caller \cup {NoCaller},
         UpdateStatus(i, s, by)
  PROVE  /\ row' \in [Id -> RunStatus \cup {"none"}] /\ old' \subseteq Id
         /\ writer' \in [Id -> Caller \cup {NoCaller}]
         /\ row'[i] \in {s, "none"}
         /\ \A j \in Id \ {i} : row'[j] = row[j] /\ writer'[j] = writer[j]
BY DEF TableTypes, UpdateStatus

\* The steps that leave the tables alone: to start a call, to look, to
\* investigate, to die, to raise, the clock and the selection of old runs.
LEMMA WorkflowCallSteps ==
  ASSUME WorkflowInv, UNCHANGED tableVars,
         \/ NextSecond \/ PurgeSelect
         \/ \E c \in Caller : \/ Resume(c) \/ CallStep(c) \/ Crash(c)
  PROVE  WorkflowInv'
<1>1. PhasesHaveSnapshots'
  BY DEF WorkflowInv, PhasesHaveSnapshots, tableVars
<1>2. CASE NextSecond \/ PurgeSelect
  <2>1. TableTypes' /\ CallTypes'
    BY <1>2, Ids DEF WorkflowInv, TableTypes, CallTypes, NextSecond, PurgeSelect, callVars,
       tableVars
  <2>2. SummariesProduced' /\ AnswersWereProduced' /\ RunningHasOwner'
    BY <1>2 DEF WorkflowInv, SummariesProduced, AnswersWereProduced, RunningHasOwner,
       NextSecond, PurgeSelect, callVars, tableVars
  <2> QED
    BY <1>1, <2>1, <2>2 DEF WorkflowInv
<1>3. ASSUME NEW c \in Caller, Resume(c) \/ CallStep(c) \/ Crash(c)
      PROVE  WorkflowInv'
  <2>1. /\ UNCHANGED <<now, selected>>
        /\ \E label \in InCall \cup Ended : pc' = [pc EXCEPT ![c] = label]
        /\ \E i \in Id : id' = [id EXCEPT ![c] = i]
        /\ produced' \in {produced, produced \cup {c}}
    BY <1>3, Ids DEF WorkflowInv, CallTypes, CallStep, Resume, SupersedeOrphan, StartLook,
       StartInsert, Investigate, Complete, Fail, Crash, Goto, Raises, Return, InCall, Ended
  <2>2. /\ pc'[c] = "complete" => c \in produced'
        /\ answer' = answer \/ \E a \in {c, summary[Base]} :
             answer' = [answer EXCEPT ![c] = a] /\ (a # NoCaller => a \in produced')
    BY <1>3, <2>1, Ids DEF WorkflowInv, CallTypes, SummariesProduced, CallStep, Resume,
       SupersedeOrphan, StartLook, StartInsert, Investigate, Complete, Fail, Crash, Goto,
       Raises, Return, NoSummary
  <2>3. TableTypes' /\ CallTypes'
    BY <2>1, <2>2, Ids DEF WorkflowInv, TableTypes, CallTypes, tableVars
  <2>4. SummariesProduced' /\ AnswersWereProduced'
    BY <2>1, <2>2 DEF WorkflowInv, CallTypes, SummariesProduced, AnswersWereProduced, tableVars
  <2>5. \A i \in Id : row[i] = "running" /\ writer[i] = c =>
          id'[c] = id[c] /\ pc'[c] \in {"run", "complete", "fail", "dead", "refused"}
    <3> SUFFICES ASSUME NEW i \in Id, row[i] = "running", writer[i] = c
                 PROVE  id'[c] = id[c] /\ pc'[c] \in {"run", "complete", "fail", "dead", "refused"}
      OBVIOUS
    <3>1. id[c] = i /\ pc[c] \in {"run", "complete", "fail", "dead", "refused"}
      BY DEF WorkflowInv, RunningHasOwner
    <3>2. row'[i] = "running"
      BY DEF tableVars
    <3> QED
      BY <1>3, <3>1, <3>2 DEF WorkflowInv, TableTypes, CallTypes, CallStep, Resume,
         SupersedeOrphan, StartLook, StartInsert, Investigate, Complete, Fail, Crash, Goto,
         InCall, UpdateStatus
  <2>6. RunningHasOwner'
    BY <2>1, <2>5 DEF WorkflowInv, CallTypes, RunningHasOwner, tableVars
  <2> QED
    BY <1>1, <2>3, <2>4, <2>6 DEF WorkflowInv
<1> QED
  BY <1>2, <1>3

\* The steps of a call that write: the orphan, the insert, the end and a phase.
LEMMA WorkflowWriteSteps ==
  ASSUME WorkflowInv, ~ UNCHANGED tableVars, NEW c \in Caller,
         \/ SupersedeOrphan(c) \/ StartInsert(c) \/ Complete(c) \/ Fail(c)
         \/ \E p \in Phase : Checkpoint(c, p)
  PROVE  WorkflowInv'
<1>0. ~ Raises(c)
  BY DEF Raises
<1>1. CASE SupersedeOrphan(c)
  <2>0. /\ pc[c] = "supersede" /\ UpdateStatus(Base, "failed", c)
        /\ id' = [id EXCEPT ![c] = now] /\ Goto(c, "look")
        /\ UNCHANGED <<summary, phases, snaps, selected, now, answer, produced>>
    BY <1>0, <1>1 DEF SupersedeOrphan
  <2>1. /\ row' \in [Id -> RunStatus \cup {"none"}] /\ old' \subseteq Id
        /\ writer' \in [Id -> Caller \cup {NoCaller}]
        /\ row'[Base] \in {"failed", "none"}
        /\ \A j \in Id \ {Base} : row'[j] = row[j] /\ writer'[j] = writer[j]
    BY <2>0, StatusUpdate, Ids DEF WorkflowInv, RunStatus
  <2>2. TableTypes' /\ CallTypes'
    BY <2>0, <2>1, Ids DEF WorkflowInv, TableTypes, CallTypes, Goto, InCall
  <2>3. SummariesProduced' /\ AnswersWereProduced' /\ PhasesHaveSnapshots'
    BY <2>0 DEF WorkflowInv, CallTypes, SummariesProduced, AnswersWereProduced,
       PhasesHaveSnapshots, Goto
  <2>4. RunningHasOwner'
    BY <2>0, <2>1 DEF WorkflowInv, CallTypes, RunningHasOwner, Goto
  <2> QED
    BY <2>2, <2>3, <2>4 DEF WorkflowInv
<1>2. CASE StartInsert(c)
  <2>0. /\ pc[c] = "insert" /\ row[id[c]] = "none"
        /\ row' = [row EXCEPT ![id[c]] = "running"]
        /\ summary' = [summary EXCEPT ![id[c]] = NoSummary]
        /\ phases' = [phases EXCEPT ![id[c]] = {}] /\ old' = old \ {id[c]}
        /\ writer' = [writer EXCEPT ![id[c]] = c] /\ Goto(c, "run")
        /\ UNCHANGED <<snaps, id, answer, selected, now, produced>>
    BY <1>0, <1>2 DEF StartInsert
  <2>1. TableTypes' /\ CallTypes'
    BY <2>0, Ids DEF WorkflowInv, TableTypes, CallTypes, Goto, InCall, NoSummary, RunStatus
  <2>2. SummariesProduced' /\ AnswersWereProduced' /\ PhasesHaveSnapshots'
    BY <2>0 DEF WorkflowInv, TableTypes, CallTypes, SummariesProduced, AnswersWereProduced,
         PhasesHaveSnapshots, Goto, NoSummary
  <2>3. RunningHasOwner'
    BY <2>0 DEF WorkflowInv, TableTypes, CallTypes, RunningHasOwner, Goto
  <2> QED
    BY <2>1, <2>2, <2>3 DEF WorkflowInv
<1>3. CASE Complete(c) \/ Fail(c)
  <2>0. /\ \/ UpdateStatus(id[c], "completed", NoCaller)
           \/ UpdateStatus(id[c], "failed", NoCaller)
        /\ \/ /\ pc[c] = "complete" /\ answer' = [answer EXCEPT ![c] = c]
              /\ \E s \in {c, NoSummary} : summary' \in {summary, [summary EXCEPT ![id[c]] = s]}
           \/ pc[c] = "fail" /\ UNCHANGED <<answer, summary>>
        /\ Return(c) /\ UNCHANGED <<phases, snaps, selected, now, produced>>
    <3>1. CASE Complete(c)
      BY <1>0, <3>1 DEF Complete, tableVars
    <3>2. CASE Fail(c)
      BY <1>0, <3>2 DEF Fail, tableVars
    <3> QED
      BY <1>3, <3>1, <3>2
  <2>1. /\ row' \in [Id -> RunStatus \cup {"none"}] /\ old' \subseteq Id
        /\ writer' \in [Id -> Caller \cup {NoCaller}]
        /\ row'[id[c]] # "running"
        /\ \A j \in Id \ {id[c]} : row'[j] = row[j] /\ writer'[j] = writer[j]
    BY <2>0, StatusUpdate DEF WorkflowInv, CallTypes, RunStatus
  <2>2. TableTypes' /\ CallTypes'
    BY <2>0, <2>1, Ids DEF WorkflowInv, TableTypes, CallTypes, Goto, Return, NoSummary, InCall,
       Ended
  <2>3. SummariesProduced' /\ AnswersWereProduced' /\ PhasesHaveSnapshots'
    BY <2>0 DEF WorkflowInv, TableTypes, CallTypes, SummariesProduced, AnswersWereProduced,
       PhasesHaveSnapshots, Goto, Return, NoSummary
  <2>4. RunningHasOwner'
    BY <2>0, <2>1 DEF WorkflowInv, CallTypes, RunningHasOwner, Goto, Return
  <2> QED
    BY <2>2, <2>3, <2>4 DEF WorkflowInv
<1>4. ASSUME NEW p \in Phase, Checkpoint(c, p) PROVE WorkflowInv'
  <2>1. TableTypes' /\ CallTypes'
    BY <1>4 DEF WorkflowInv, TableTypes, CallTypes, Checkpoint, callVars
  <2>2. SummariesProduced' /\ AnswersWereProduced' /\ PhasesHaveSnapshots'
    BY <1>4 DEF WorkflowInv, TableTypes, CallTypes, SummariesProduced, AnswersWereProduced,
         PhasesHaveSnapshots, Checkpoint, callVars
  <2>3. RunningHasOwner'
    BY <1>4 DEF WorkflowInv, TableTypes, CallTypes, RunningHasOwner, Checkpoint, callVars
  <2> QED
    BY <2>1, <2>2, <2>3 DEF WorkflowInv
<1> QED
  BY <1>1, <1>2, <1>3, <1>4

\* Retention takes a run with its checkpoints, whatever became of the run since it was
\* selected.
LEMMA RetentionSteps ==
  ASSUME WorkflowInv, PurgeDelete \/ \E i \in Id : Age(i)
  PROVE  WorkflowInv'
<1>1. TableTypes' /\ CallTypes'
  BY DEF WorkflowInv, TableTypes, CallTypes, PurgeDelete, Age, callVars, tableVars, NoSummary
<1>2. SummariesProduced' /\ AnswersWereProduced'
  BY DEF WorkflowInv, SummariesProduced, AnswersWereProduced, PurgeDelete, Age, callVars,
     tableVars, NoSummary
<1>3. RunningHasOwner' /\ PhasesHaveSnapshots'
  BY DEF WorkflowInv, RunningHasOwner, PhasesHaveSnapshots, PurgeDelete, Age, callVars, tableVars
<1> QED
  BY <1>1, <1>2, <1>3 DEF WorkflowInv

\* The invariant is inductive.
THEOREM WorkflowInvariance == WorkflowSpec => []WorkflowInv
<1>1. WorkflowInv /\ [WorkflowNext]_workflowVars => WorkflowInv'
  <2>1. ASSUME WorkflowInv, WorkflowNext PROVE WorkflowInv'
    <3>1. CASE \E c \in Caller : Resume(c) \/ CallStep(c) \/ Crash(c)
      <4>1. CASE UNCHANGED tableVars
        BY <2>1, <3>1, <4>1, WorkflowCallSteps
      <4>2. CASE ~ UNCHANGED tableVars
        <5>1. \E c \in Caller : SupersedeOrphan(c) \/ StartInsert(c) \/ Complete(c) \/ Fail(c)
          BY <3>1, <4>2 DEF Resume, CallStep, StartLook, Investigate, Crash, Raises
        <5> QED
          BY <2>1, <4>2, <5>1, WorkflowWriteSteps
      <4> QED
        BY <4>1, <4>2
    <3>2. CASE \E c \in Caller, p \in Phase : Checkpoint(c, p)
      <4>1. CASE UNCHANGED tableVars
        BY <2>1, <3>2, <4>1 DEF Checkpoint, WorkflowInv, tableVars, callVars, TableTypes,
           CallTypes, SummariesProduced, AnswersWereProduced, RunningHasOwner,
           PhasesHaveSnapshots
      <4>2. CASE ~ UNCHANGED tableVars
        BY <2>1, <3>2, <4>2, WorkflowWriteSteps
      <4> QED
        BY <4>1, <4>2
    <3>3. CASE NextSecond \/ PurgeSelect
      <4>1. UNCHANGED tableVars
        BY <3>3 DEF NextSecond, PurgeSelect
      <4> QED
        BY <2>1, <3>3, <4>1, WorkflowCallSteps
    <3>4. CASE PurgeDelete \/ \E i \in Id : Age(i)
      BY <2>1, <3>4, RetentionSteps
    <3> QED
      BY <2>1, <3>1, <3>2, <3>3, <3>4 DEF WorkflowNext
  <2>2. ASSUME WorkflowInv, UNCHANGED workflowVars PROVE WorkflowInv'
    BY <2>2 DEF WorkflowInv, workflowVars, tableVars, callVars, TableTypes, CallTypes,
       SummariesProduced, AnswersWereProduced, RunningHasOwner, PhasesHaveSnapshots
  <2> QED
    BY <2>1, <2>2
<1> QED
  BY <1>1, WorkflowInitially, PTL DEF WorkflowSpec

\* Every variable keeps its domain, for any number of calls.
THEOREM WorkflowTypes == WorkflowSpec => []WorkflowTypeOK
<1>1. WorkflowInv => WorkflowTypeOK
  BY DEF WorkflowInv, TableTypes, CallTypes, WorkflowTypeOK
<1> QED
  BY <1>1, WorkflowInvariance, PTL

\* Whatever a call returns was produced by an investigation that ended well.
THEOREM NoInventedAnswer == WorkflowSpec => []AnswersWereProduced
<1>1. WorkflowInv => AnswersWereProduced
  BY DEF WorkflowInv
<1> QED
  BY <1>1, WorkflowInvariance, PTL

\* A run stays RUNNING only while the call that wrote it last is under way, or when
\* that call died or its fail() raised.
THEOREM NoForgottenRun == WorkflowSpec => []RunningHasOwner
<1>1. WorkflowInv => RunningHasOwner
  BY DEF WorkflowInv
<1> QED
  BY <1>1, WorkflowInvariance, PTL

\* Every completed phase can be restored.
THEOREM PhasesCanBeRestored == WorkflowSpec => []PhasesHaveSnapshots
<1>1. WorkflowInv => PhasesHaveSnapshots
  BY DEF WorkflowInv
<1> QED
  BY <1>1, WorkflowInvariance, PTL
=============================================================================
