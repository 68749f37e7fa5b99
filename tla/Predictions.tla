----------------------------- MODULE Predictions -----------------------------
(***************************************************************************)
(* The predictions of the Pattern Intelligence Layer and what becomes of   *)
(* them: intelligence/background_runner.py and prediction_store.py.        *)
(*                                                                         *)
(* One runner cycles in an executor thread: it stores what the detectors   *)
(* found and closes predictions whose window has passed.  At the same time *)
(* agents that end an investigation record an incident, and engineers mark *)
(* predictions as noise.  Only the cooldown index has a lock.              *)
(***************************************************************************)
EXTENDS Integers, FiniteSets

CONSTANTS Service,    \* services; each has one pattern and one metric
          Agent,      \* threads that call record_outcome
          Engineer,   \* threads that call mark_false_positive
          Runner,     \* the thread of a cycle
          Cooldown,   \* PREDICTION_COOLDOWN_MINUTES, in ticks
          Window,     \* after which a pending prediction is expired
          MaxPred,    \* bound: predictions
          MaxCalls,   \* bound: calls of each agent and engineer
          MaxRefused, \* bound: updates of the calibrator that raise
          MaxNow      \* bound: time while no prediction is open

ASSUME PredictionsAssumption ==
  /\ Runner \notin Agent \cup Engineer /\ Agent \cap Engineer = {}
  /\ {Cooldown, Window, MaxPred, MaxCalls, MaxRefused, MaxNow} \subseteq Nat
  /\ Cooldown > 0 /\ Service # {} /\ IsFiniteSet(Service)

\* A prediction is named by its place in _predictions.
Pred == 1..MaxPred
Resolver == Agent \cup Engineer \cup {Runner}
Outcome == {"pending", "true_positive", "false_positive"}

VARIABLES
  now,
  task,      \* IntelligenceRunner._task
  stopping,  \* _stop_event
  cycle,     \* _run_one_cycle: waiting for a thread of the executor, or what it does
  found,     \* services with a detection still to be stored
  index,     \* _dedup_index: when a prediction of the service was published last
  count,     \* len(_predictions)
  info,      \* what a prediction was stored with
  outcome,   \* its outcome
  fed,       \* the outcomes of it that the calibrator has learnt
  refused,   \* predictions and outcomes it was given in vain: the update raised
  at,        \* where a resolver is
  pos,       \* the prediction it has come to, 0 when idle
  size,      \* len(_predictions) when it began, 0 when idle
  val,       \* the outcome it has read
  incident,  \* the service an agent records an incident of
  calls

runner == <<task, stopping, cycle, found>>
feeds == <<fed, refused>>
store == <<index, count, info>>
resolvers == <<at, pos, size, val, incident>>
vars == <<now, runner, store, outcome, feeds, resolvers, calls>>

\* decided is the time of the look at the index, which is that of created_at.
Info == [service : Service, ready : BOOLEAN, published : BOOLEAN, decided : Nat]
Blank == [service |-> CHOOSE s \in Service : TRUE, ready |-> FALSE,
          published |-> FALSE, decided |-> 0]

Init ==
  /\ now = 0
  /\ task = "off" /\ stopping = FALSE /\ cycle = "idle" /\ found = {}
  /\ index = [s \in Service |-> -Cooldown]
  /\ count = 0 /\ info = [p \in Pred |-> Blank]
  /\ outcome = [p \in Pred |-> "pending"]
  /\ fed = [p \in Pred |-> {}] /\ refused = {}
  /\ at = [r \in Resolver |-> "idle"]
  /\ pos = [r \in Resolver |-> 0] /\ size = [r \in Resolver |-> 0]
  /\ val = [r \in Resolver |-> "pending"]
  /\ incident = [r \in Resolver |-> Blank.service]
  /\ calls = [r \in Agent \cup Engineer |-> 0]

\* is_expired.
Expired(p) == now - info[p].decided > Window

----------------------------------------------------------------------------
(* Wrong variants of the definitions below; the specification never uses them. *)

\* The cooldown is over before it has begun.
DueAtOnce(s) == now - index[s] >= 0

\* record_outcome ends with the first prediction it has resolved.
GoesOnNot(r) == FALSE

\* Each prediction is fed to the calibrator once.
FedOnce(p, o) == IF fed[p] = {} THEN {o} ELSE fed[p]

\* stop leaves a cycle that waits for a thread where it is.
CancelTaskOnly ==
  /\ stopping /\ task # "done"
  /\ task' = "done"
  /\ UNCHANGED <<now, stopping, cycle, found, store, outcome, feeds, resolvers, calls>>

\* Only published predictions are looked at.
OpenPublished(r, p) ==
  /\ outcome[p] = "pending" /\ info[p].published
  /\ IF r = Runner THEN Expired(p) ELSE info[p].service = incident[r]

----------------------------------------------------------------------------
(* IntelligenceRunner *)

Start ==
  /\ task = "off"
  /\ task' = "top"
  /\ UNCHANGED <<now, stopping, cycle, found, store, outcome, feeds, resolvers, calls>>

\* stop, at the shutdown of the BFF.
Stop ==
  /\ task # "off" /\ ~stopping
  /\ stopping' = TRUE
  /\ UNCHANGED <<now, task, cycle, found, store, outcome, feeds, resolvers, calls>>

\* It has waited ten seconds for the task.  The cancellation reaches a cycle that
\* still waits for a thread; one that has begun goes on.
CancelTask ==
  /\ stopping /\ task # "done"
  /\ task' = "done"
  /\ cycle' = IF cycle = "queued" THEN "idle" ELSE cycle
  /\ UNCHANGED <<now, stopping, found, store, outcome, feeds, resolvers, calls>>

\* while not self._stop_event.is_set()
Running == ~stopping

\* The top of _loop: the end, or a cycle for the executor.
LoopTop ==
  /\ task = "top"
  /\ \/ ~Running /\ task' = "done" /\ UNCHANGED cycle
     \/ Running /\ task' = "await" /\ cycle' = "queued"
  /\ UNCHANGED <<now, stopping, found, store, outcome, feeds, resolvers, calls>>

\* A thread of the executor, which others use too, takes the cycle; the runner may
\* have been told to stop by then.  Its collection, SLO computation and detection
\* may each fail and then leave nothing to store.
BeginCycle ==
  /\ cycle = "queued"
  /\ cycle' = "store"
  /\ found' \in {f \in SUBSET Service : count + Cardinality(f) <= MaxPred}
  /\ UNCHANGED <<now, task, stopping, store, outcome, feeds, resolvers, calls>>

\* A prediction of the service is published: it was not in the last Cooldown.
Due(s) == now - index[s] >= Cooldown

\* Whether the service's cooldown starts.
StartsCooldown(s, ready) == Due(s) /\ ready

\* PredictionStore.store for a detection.  What is not published is stored too.
Store(s) ==
  /\ cycle = "store" /\ s \in found
  /\ found' = found \ {s}
  /\ count' = count + 1
  /\ \E ready \in BOOLEAN :
       /\ info' = [info EXCEPT ![count + 1] =
                     [service |-> s, ready |-> ready, published |-> Due(s) /\ ready,
                      decided |-> now]]
       /\ index' = [index EXCEPT ![s] = IF StartsCooldown(s, ready) THEN now ELSE @]
  /\ UNCHANGED <<now, task, stopping, cycle, outcome, feeds, resolvers, calls>>

\* expire_old_predictions takes a copy of the predictions.
BeginExpire ==
  /\ cycle = "store" /\ found = {}
  /\ cycle' = "expire"
  /\ at' = [at EXCEPT ![Runner] = "scan"]
  /\ pos' = [pos EXCEPT ![Runner] = 0]
  /\ size' = [size EXCEPT ![Runner] = count]
  /\ UNCHANGED <<now, task, stopping, found, store, outcome, feeds, val, incident, calls>>

\* The cycle is over; a task that was cancelled does not hear of it.
EndCycle ==
  /\ cycle = "expire" /\ at[Runner] = "idle"
  /\ cycle' = "idle"
  /\ task' = IF task = "await" THEN "sleep" ELSE task
  /\ UNCHANGED <<now, stopping, found, store, outcome, feeds, resolvers, calls>>

\* The interval is over, or the stop event ends the sleep.
Wake ==
  /\ task = "sleep"
  /\ task' = "top" \/ (stopping /\ task' = "done")
  /\ UNCHANGED <<now, stopping, cycle, found, store, outcome, feeds, resolvers, calls>>

----------------------------------------------------------------------------
(* Outcomes *)

\* record_outcome when an incident of a service was investigated.
Record(a, s) ==
  /\ at[a] = "idle" /\ calls[a] < MaxCalls
  /\ calls' = [calls EXCEPT ![a] = @ + 1]
  /\ at' = [at EXCEPT ![a] = "scan"]
  /\ pos' = [pos EXCEPT ![a] = 0]
  /\ size' = [size EXCEPT ![a] = count]
  /\ incident' = [incident EXCEPT ![a] = s]
  /\ UNCHANGED <<now, runner, store, outcome, feeds, val>>

Known(p) == p <= count

\* mark_false_positive, whatever the outcome is.
Mark(e, p) ==
  /\ at[e] = "idle" /\ calls[e] < MaxCalls
  /\ Known(p)
  /\ calls' = [calls EXCEPT ![e] = @ + 1]
  /\ at' = [at EXCEPT ![e] = "set"]
  /\ pos' = [pos EXCEPT ![e] = p]
  /\ UNCHANGED <<now, runner, store, outcome, feeds, size, val, incident>>

\* A prediction that record_outcome or expire_old_predictions resolves.
Open(r, p) ==
  /\ outcome[p] = "pending"
  /\ IF r = Runner THEN Expired(p) ELSE info[p].service = incident[r]

\* The next prediction of the loop.  An agent loops over the dictionary itself:
\* one more prediction in it ends the loop with an exception.
Scan(r) ==
  /\ at[r] = "scan"
  /\ \/ /\ size[r] # count \/ pos[r] = size[r]
        /\ at' = [at EXCEPT ![r] = "idle"]
        /\ pos' = [pos EXCEPT ![r] = 0]
        /\ size' = [size EXCEPT ![r] = 0]
     \/ /\ size[r] = count /\ pos[r] < size[r]
        /\ pos' = [pos EXCEPT ![r] = @ + 1]
        /\ at' = [at EXCEPT ![r] = IF Open(r, pos[r] + 1) THEN "set" ELSE "scan"]
        /\ UNCHANGED size
  /\ UNCHANGED <<now, runner, store, outcome, feeds, val, incident, calls>>

\* The test of the outcome and this assignment are not one step.
SetOutcome(r) ==
  /\ at[r] = "set"
  /\ outcome' = [outcome EXCEPT ![pos[r]] =
                   IF r \in Agent THEN "true_positive" ELSE "false_positive"]
  /\ at' = [at EXCEPT ![r] = "feed"]
  /\ UNCHANGED <<now, runner, store, feeds, pos, size, val, incident, calls>>

\* _feed_calibration reads the outcome before it waits for the calibrator's lock.
ReadOutcome(r) ==
  /\ at[r] = "feed"
  /\ val' = [val EXCEPT ![r] = outcome[pos[r]]]
  /\ at' = [at EXCEPT ![r] = "learn"]
  /\ UNCHANGED <<now, runner, store, outcome, feeds, pos, size, incident, calls>>

GoesOn(r) == r \notin Engineer

Learnt(p, o) == fed[p] \cup {o}

\* A calibrator that cannot be loaded or updated is passed over in silence.
FeedCalibration(r) ==
  /\ at[r] = "learn"
  /\ \/ /\ fed' = [fed EXCEPT ![pos[r]] = Learnt(pos[r], val[r])]
        /\ UNCHANGED refused
     \/ /\ Cardinality(refused) < MaxRefused
        /\ refused' = refused \cup {<<pos[r], val[r]>>}
        /\ UNCHANGED fed
  /\ val' = [val EXCEPT ![r] = "pending"]
  /\ at' = [at EXCEPT ![r] = IF GoesOn(r) THEN "scan" ELSE "idle"]
  /\ pos' = [pos EXCEPT ![r] = IF GoesOn(r) THEN @ ELSE 0]
  /\ UNCHANGED <<now, runner, store, outcome, size, incident, calls>>

----------------------------------------------------------------------------
Tick ==
  /\ now < MaxNow \/ \E p \in 1..count : outcome[p] = "pending" /\ ~Expired(p)
  /\ now' = now + 1
  /\ UNCHANGED <<runner, store, outcome, feeds, resolvers, calls>>

Resolve(r) == Scan(r) \/ SetOutcome(r) \/ ReadOutcome(r) \/ FeedCalibration(r)

Loop == Start \/ LoopTop \/ Wake \/ CancelTask

Cycle == BeginCycle \/ (\E s \in Service : Store(s)) \/ BeginExpire \/ EndCycle

Next ==
  \/ Loop \/ Stop \/ Cycle
  \/ \E a \in Agent, s \in Service : Record(a, s)
  \/ \E e \in Engineer, p \in Pred : Mark(e, p)
  \/ \E r \in Resolver : Resolve(r)
  \/ Tick

Spec == Init /\ [][Next]_vars

\* The event loop and the thread of a cycle run, and time passes; agents and
\* engineers may stop anywhere.
FairSpec ==
  /\ Spec /\ WF_vars(Loop) /\ WF_vars(Cycle) /\ WF_vars(Tick)
  /\ WF_vars(Resolve(Runner))

----------------------------------------------------------------------------
(* Safety *)

\* Every variable stays in its domain; nothing is known of a prediction that is
\* not stored.
TypeOK ==
  /\ now \in Nat
  /\ task \in {"off", "top", "await", "sleep", "done"} /\ stopping \in BOOLEAN
  /\ cycle \in {"idle", "queued", "store", "expire"} /\ found \subseteq Service
  /\ index \in [Service -> Int]
  /\ count \in 0..MaxPred /\ info \in [Pred -> Info]
  /\ outcome \in [Pred -> Outcome] /\ fed \in [Pred -> SUBSET Outcome]
  /\ refused \subseteq Pred \X Outcome
  /\ at \in [Resolver -> {"idle", "scan", "set", "feed", "learn"}]
  /\ pos \in [Resolver -> 0..MaxPred] /\ size \in [Resolver -> 0..MaxPred]
  /\ val \in [Resolver -> Outcome] /\ incident \in [Resolver -> Service]
  /\ calls \in [Agent \cup Engineer -> 0..MaxCalls]
  /\ \A p \in Pred : p > count => outcome[p] = "pending" /\ fed[p] = {}

\* "same (service, pattern_type, metric) suppressed for cooldown_minutes": two
\* published predictions of a service are a cooldown apart.
PublishedOncePerCooldown ==
  \A p, q \in 1..count :
    /\ p < q /\ info[p].service = info[q].service
    /\ info[p].published /\ info[q].published
    => info[q].decided - info[p].decided >= Cooldown

\* A prediction with a baseline is kept back only for another one that was
\* published less than a cooldown before: one kept back itself hides nothing.
SuppressedHasReason ==
  \A q \in 1..count : info[q].ready /\ ~info[q].published =>
    \E p \in 1..(q - 1) :
      /\ info[p].service = info[q].service /\ info[p].published
      /\ info[q].decided - info[p].decided < Cooldown

\* The cooldown lets one prediction through, and hides one only behind that.
CooldownKept == PublishedOncePerCooldown /\ SuppressedHasReason

Resolving(r, p) == pos[r] = p /\ at[r] \in {"feed", "learn"}

\* "outcome tracked -> calibration updated": whoever resolves a prediction at the
\* same time as others, the outcome it ends with is one the calibrator was given
\* and has learnt, unless that very update raised.
LearnsFinalOutcome ==
  \A p \in 1..count :
    outcome[p] # "pending" /\ ~(\E r \in Resolver : Resolving(r, p))
      => outcome[p] \in fed[p] \/ <<p, outcome[p]>> \in refused

\* "Mark open predictions for a service as true positives": when record_outcome
\* returns normally, no prediction of the service is open.
RecordsAllOpen ==
  [][\A a \in Agent : at[a] # "idle" /\ at'[a] = "idle" /\ size[a] = count =>
       \A p \in 1..count : info[p].service = incident[a] => outcome[p] # "pending"]_vars

Begins == cycle \in {"idle", "queued"} /\ cycle' \notin {"idle", "queued"}

\* A stop is the end.  The loop looks at the stop event when it hands a cycle to the
\* executor, the cycle begins later, and stop may give up on the loop in between: a
\* cycle begins only while the loop waits for it.
StopIsFinal == [][Begins => task = "await"]_vars

----------------------------------------------------------------------------
(* Liveness, under FairSpec *)

\* "Every prediction ... is stored here with its outcome tracked": a prediction
\* does not stay pending while the runner runs, published or not.
EveryPredictionResolves ==
  \A p \in Pred : (p <= count) ~> (outcome[p] # "pending" \/ stopping)
=============================================================================
