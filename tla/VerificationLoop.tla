-------------------------- MODULE VerificationLoop --------------------------
(***************************************************************************)
(* One VerificationLoop.watch of supervisor/verification_loop.py: poll the *)
(* service, count consecutive stable readings, resolve the ServiceNow      *)
(* ticket on success.  FixEngine uses its outcome; this module is about    *)
(* how the outcome relates to what the polls read, and what they read to   *)
(* the health of the service.                                              *)
(***************************************************************************)
EXTENDS Naturals, Sequences

CONSTANTS MaxPolls,        \* MAX_POLLS
          StableThreshold, \* STABLE_THRESHOLD
          MetricsActions,  \* actions the metrics worker has a handler for
          Answers          \* may a registered handler answer / fail (BOOLEANs)

VARIABLES phase,    \* "polling", "closing", "succeeded" or "failed"
          stable,   \* stable_count
          health,   \* the true health of the service at each poll made
          readings, \* what _collect_metrics made of it at each poll
          ticket    \* the ticket was resolved

watchVars == <<phase, stable, health, readings, ticket>>

Health == {"healthy", "degraded"}

Reading == {"low", "high"}

\* total_polls
polls == Len(readings)

WatchInit ==
  /\ phase = "polling" /\ stable = 0 /\ ticket = FALSE
  /\ health = <<>> /\ readings = <<>>

----------------------------------------------------------------------------
\* _collect_metrics: BaseWorker.execute answers {} to an action without a
\* handler, and a missing or failing answer leaves error rate and latency 0.
CollectMetrics(h, answered) ==
  IF "get_service_metrics" \in MetricsActions /\ answered /\ h = "degraded"
    THEN "high" ELSE "low"

\* _check_stability: neither caller passes an error signature, so only the
\* error rate and the latency count.
CheckStability(metrics) == metrics = "low"

NextCount(ok) == IF ok THEN stable + 1 ELSE 0

ThresholdReached(ok) == ok /\ NextCount(ok) >= StableThreshold

\* One turn of the polling loop; the service has some health h at that time.
Poll ==
  /\ phase = "polling"
  /\ polls < MaxPolls
  /\ \E h \in Health, answered \in Answers :
       LET metrics == CollectMetrics(h, answered)
           ok == CheckStability(metrics)
       IN  /\ health' = Append(health, h)
           /\ readings' = Append(readings, metrics)
           /\ stable' = NextCount(ok)
           /\ phase' = IF ThresholdReached(ok) THEN "closing" ELSE "polling"
  /\ UNCHANGED ticket

\* _close_snow_ticket: the update may fail, and is skipped without an itsm
\* worker; the watch is a success all the same.
CloseSnowTicket ==
  /\ phase = "closing"
  /\ phase' = "succeeded"
  /\ ticket' \in BOOLEAN
  /\ UNCHANGED <<stable, health, readings>>

\* range(1, max_polls + 1) is exhausted.
Exhausted ==
  /\ phase = "polling"
  /\ polls = MaxPolls
  /\ phase' = "failed"
  /\ UNCHANGED <<stable, health, readings, ticket>>

WatchNext == Poll \/ CloseSnowTicket \/ Exhausted

WatchSpec == WatchInit /\ [][WatchNext]_watchVars

----------------------------------------------------------------------------
\* The n polls that end with poll i all found v.
RunOf(seq, v, i, n) == i >= n /\ \A j \in (i - n + 1)..i : seq[j] = v

StableRun(i) == RunOf(readings, "low", i, StableThreshold)

\* "Require STABLE_THRESHOLD consecutive stable readings" and "After MAX_POLLS
\* polls, declare failure if not stable": the watch succeeds at the first such run
\* of readings, and fails, without the ticket, only when the polls are used up and
\* there was none.
ReadingsDecide ==
  /\ phase = "succeeded" => StableRun(polls) /\ \A i \in 1..(polls - 1) : ~StableRun(i)
  /\ phase = "failed" =>
       ~ticket /\ polls = MaxPolls /\ \A i \in 1..polls : ~StableRun(i)
  /\ phase = "polling" => ~ticket

\* "Verify the service actually recovered": the ticket is resolved only of a service
\* that was healthy at each of the last STABLE_THRESHOLD polls.
ClosedOnlyWhenHealthy ==
  ticket => RunOf(health, "healthy", polls, StableThreshold)
=============================================================================
