---------------------------- MODULE McpGateway ----------------------------
(***************************************************************************)
(* The one MCP client that all worker threads share: who builds and starts *)
(* it, who waits for it, and who throws it away.                           *)
(*                                                                         *)
(* Source: workers/mcp_client.py: McpGateway._invoke_via_gateway,          *)
(* _get_mcp_client, the start flight, _drop_mcp_client, _call_with_timeout *)
(* and _reap_late_start.                                                   *)
(*                                                                         *)
(* A "wave" is one attempt to create and start a client.  Wave n has the   *)
(* _McpStartFlight n, builds the MCPClient n and opens the session n.  An  *)
(* action is the code between two points where another thread can change   *)
(* what this one reads; what happens under _mcp_client_lock is one action. *)
(***************************************************************************)
EXTENDS Integers

CONSTANTS Thread,    \* worker threads that call the gateway
          OAuth,     \* an OAuth2 provider is configured
          MaxWaves,  \* bound: waves
          MaxCalls   \* bound: invocations per thread

Wave == 1..MaxWaves
None == 0

VARIABLES
  client,   \* McpGateway._mcp_client: the published client, or None
  slot,     \* McpGateway._mcp_start_flight: the flight under way, or None
  waves,    \* waves that have begun
  done,     \* flight.done is set
  outcome,  \* flight.client and flight.error: "none", "client" or "error"
  session,  \* what became of the client and session of a wave
  pc, got,  \* where a thread is; the client it was given
  flight,   \* the flight it leads or has joined
  error,    \* it remembers a failed start (_client_error_slot)
  retry,    \* it is in the retry after a 401 (_is_retry)
  calls     \* invocations begun

shared == <<client, slot, waves, done, outcome, session>>
vars == <<client, slot, waves, done, outcome, session, pc, got, flight, error, retry, calls>>

SessionState == {"unused", "built", "open", "failed", "late", "late_open", "stopped",
                 "leaked"}

\* The leader of a wave goes from build to finish; then it wakes its waiters.
Leading == {"build", "start", "publish", "announce", "finish"}
PC == {"idle", "check", "reread", "claim", "join", "wake", "unavailable", "call", "drop"}
        \union Leading

ASSUME GatewayAssumption ==
  OAuth \in BOOLEAN /\ MaxWaves \in Nat /\ MaxCalls \in Nat

Init ==
  /\ client = None /\ slot = None /\ waves = 0
  /\ done = [w \in Wave |-> FALSE]
  /\ outcome = [w \in Wave |-> "none"]
  /\ session = [w \in Wave |-> "unused"]
  /\ pc = [t \in Thread |-> "idle"]
  /\ got = [t \in Thread |-> None]
  /\ flight = [t \in Thread |-> None]
  /\ error = [t \in Thread |-> FALSE]
  /\ retry = [t \in Thread |-> FALSE]
  /\ calls = [t \in Thread |-> 0]

GoTo(t, label) == pc' = [pc EXCEPT ![t] = label]

\* _get_mcp_client returns c to thread t, which calls the tool with it or, if
\* there is none, returns a stub or a failure.
Receive(t, c) ==
  /\ got' = [got EXCEPT ![t] = c]
  /\ GoTo(t, IF c = None THEN "unavailable" ELSE "call")

(***************************************************************************)
(* _invoke_via_gateway up to the client.                                   *)
(***************************************************************************)
Invoke(t) ==
  /\ pc[t] = "idle" /\ calls[t] < MaxCalls
  /\ calls' = [calls EXCEPT ![t] = @ + 1]
  /\ retry' = [retry EXCEPT ![t] = FALSE]
  /\ GoTo(t, "check")
  /\ UNCHANGED <<shared, got, flight, error>>

\* A stale failure is forgotten; the first, unlocked, read of the client.
Check(t) ==
  /\ pc[t] = "check"
  /\ error' = [error EXCEPT ![t] = FALSE]
  /\ GoTo(t, IF client # None THEN "reread" ELSE "claim")
  /\ UNCHANGED <<shared, got, flight, retry, calls>>

\* return self._mcp_client: the second read.
Reread(t) ==
  /\ pc[t] = "reread"
  /\ Receive(t, client)
  /\ UNCHANGED <<shared, flight, error, retry, calls>>

\* Wrong variant of Claim: a thread that finds no client always leads a flight.
ClaimIgnoresFlight(t) ==
  /\ pc[t] = "claim"
  /\ \/ /\ client # None
        /\ Receive(t, client)
        /\ UNCHANGED <<slot, waves, flight>>
     \/ /\ client = None /\ waves < MaxWaves
        /\ waves' = waves + 1
        /\ slot' = waves + 1
        /\ flight' = [flight EXCEPT ![t] = waves + 1]
        /\ GoTo(t, "build")
        /\ UNCHANGED got
  /\ UNCHANGED <<client, done, outcome, session, error, retry, calls>>

\* _claim_start_flight, under the lock: take the published client, join the
\* flight under way, or lead a new one.
Claim(t) ==
  /\ pc[t] = "claim"
  /\ \/ /\ client # None
        /\ Receive(t, client)
        /\ UNCHANGED <<slot, waves, flight>>
     \/ /\ client = None /\ slot # None
        /\ flight' = [flight EXCEPT ![t] = slot]
        /\ GoTo(t, "join")
        /\ UNCHANGED <<slot, waves, got>>
     \/ /\ client = None /\ slot = None /\ waves < MaxWaves
        /\ waves' = waves + 1
        /\ slot' = waves + 1
        /\ flight' = [flight EXCEPT ![t] = waves + 1]
        /\ GoTo(t, "build")
        /\ UNCHANGED got
  /\ UNCHANGED <<client, done, outcome, session, error, retry, calls>>

\* flight.done.wait() has no timeout.
Join(t) ==
  /\ pc[t] = "join" /\ done[flight[t]]
  /\ Receive(t, IF outcome[flight[t]] = "client" THEN flight[t] ELSE None)
  /\ error' = [error EXCEPT ![t] = outcome[flight[t]] = "error"]
  /\ UNCHANGED <<shared, flight, retry, calls>>

(***************************************************************************)
(* _lead_start_flight and _finish_start_flight.                            *)
(***************************************************************************)
\* The attempt of t's wave fails: the flight and the leader remember it.
FailStart(t, left) ==
  /\ session' = [session EXCEPT ![flight[t]] = left]
  /\ outcome' = [outcome EXCEPT ![flight[t]] = "error"]
  /\ error' = [error EXCEPT ![t] = TRUE]
  /\ GoTo(t, "finish")

\* Wrong variant of BuildClient: publishes the client before start() has returned.
BuildClientPublishes(t) ==
  /\ pc[t] = "build"
  /\ session' = [session EXCEPT ![flight[t]] = "built"]
  /\ client' = flight[t]
  /\ GoTo(t, "start")
  /\ UNCHANGED <<slot, waves, done, outcome, got, flight, error, retry, calls>>

BuildClient(t) ==
  /\ pc[t] = "build"
  /\ \/ /\ session' = [session EXCEPT ![flight[t]] = "built"]
        /\ GoTo(t, "start")
        /\ UNCHANGED <<outcome, error>>
     \/ FailStart(t, "failed")
  /\ UNCHANGED <<client, slot, waves, done, got, flight, retry, calls>>

\* Wrong variant of StartClient: a failed start returns without ending the flight.
StartClientNoFinally(t) ==
  /\ pc[t] = "start"
  /\ \/ /\ session' = [session EXCEPT ![flight[t]] = "open"]
        /\ GoTo(t, "publish")
     \/ /\ session' = [session EXCEPT ![flight[t]] = "failed"]
        /\ GoTo(t, "unavailable")
  /\ UNCHANGED <<client, slot, waves, done, outcome, got, flight, error, retry, calls>>

\* client.start() in a daemon thread, with a timeout: it returns in time,
\* raises, or is abandoned to the reaper.
StartClient(t) ==
  /\ pc[t] = "start"
  /\ \/ /\ session' = [session EXCEPT ![flight[t]] = "open"]
        /\ GoTo(t, "publish")
        /\ UNCHANGED <<outcome, error>>
     \/ \E left \in {"failed", "late"} : FailStart(t, left)
  /\ UNCHANGED <<client, slot, waves, done, got, flight, retry, calls>>

\* self._mcp_client = client, under the lock.
Publish(t) ==
  /\ pc[t] = "publish"
  /\ client' = flight[t]
  /\ GoTo(t, "announce")
  /\ UNCHANGED <<slot, waves, done, outcome, session, got, flight, error, retry, calls>>

\* flight.client = client
Announce(t) ==
  /\ pc[t] = "announce"
  /\ outcome' = [outcome EXCEPT ![flight[t]] = "client"]
  /\ GoTo(t, "finish")
  /\ UNCHANGED <<client, slot, waves, done, session, got, flight, error, retry, calls>>

\* The slot is cleared under the lock, then the waiters are woken.
Finish(t) ==
  /\ pc[t] = "finish"
  /\ slot' = IF slot = flight[t] THEN None ELSE slot
  /\ GoTo(t, "wake")
  /\ UNCHANGED <<client, waves, done, outcome, session, got, flight, error, retry, calls>>

Wake(t) ==
  /\ pc[t] = "wake"
  /\ done' = [done EXCEPT ![flight[t]] = TRUE]
  /\ Receive(t, IF outcome[flight[t]] = "client" THEN flight[t] ELSE None)
  /\ UNCHANGED <<client, slot, waves, outcome, session, flight, error, retry, calls>>

(***************************************************************************)
(* _reap_late_start: a start that was given up may still end; if it        *)
(* succeeds the reaper stops the session.  When stop() or close() raises,  *)
(* or the client has neither, the session is leaked with a warning at most.*)
(***************************************************************************)
LateStartEnds(w) ==
  /\ session[w] = "late"
  /\ \E end \in {"late_open", "failed"} : session' = [session EXCEPT ![w] = end]
  /\ UNCHANGED <<client, slot, waves, done, outcome, pc, got, flight, error, retry, calls>>

Reap(w) ==
  /\ session[w] = "late_open"
  /\ \E end \in {"stopped", "leaked"} : session' = [session EXCEPT ![w] = end]
  /\ UNCHANGED <<client, slot, waves, done, outcome, pc, got, flight, error, retry, calls>>

(***************************************************************************)
(* _invoke_via_gateway from the client on.                                 *)
(***************************************************************************)
\* No client: a stub, or in plain mode the remembered failure.
ReturnUnavailable(t) ==
  /\ pc[t] = "unavailable"
  /\ error' = [error EXCEPT ![t] = FALSE]
  /\ GoTo(t, "idle")
  /\ UNCHANGED <<shared, got, flight, retry, calls>>

\* The call ends: with a result or an error; with a timeout; or with a 401,
\* which is retried once with a new client.
CallTool(t) ==
  /\ pc[t] = "call"
  /\ \/ GoTo(t, "idle") /\ UNCHANGED retry
     \/ GoTo(t, "drop") /\ retry' = [retry EXCEPT ![t] = FALSE]
     \/ /\ OAuth /\ ~retry[t]
        /\ GoTo(t, "drop") /\ retry' = [retry EXCEPT ![t] = TRUE]
  /\ UNCHANGED <<shared, got, flight, error, calls>>

\* _drop_mcp_client forgets whatever client is published now.
Drop(t) ==
  /\ pc[t] = "drop"
  /\ client' = None
  /\ GoTo(t, IF retry[t] THEN "check" ELSE "idle")
  /\ UNCHANGED <<slot, waves, done, outcome, session, got, flight, error, retry, calls>>

Step(t) ==
  \/ Check(t) \/ Reread(t) \/ Claim(t) \/ Join(t)
  \/ BuildClient(t) \/ StartClient(t) \/ Publish(t) \/ Announce(t) \/ Finish(t) \/ Wake(t)
  \/ ReturnUnavailable(t) \/ CallTool(t) \/ Drop(t)

Next ==
  \/ \E t \in Thread : Invoke(t) \/ Step(t)
  \/ \E w \in Wave : LateStartEnds(w) \/ Reap(w)

\* Threads run; calls and starts end by their timeouts.  Nothing bounds how long
\* a start that was given up goes on, so LateStartEnds has no fairness.
Fairness == /\ \A t \in Thread : WF_vars(Step(t))
            /\ \A w \in Wave : WF_vars(Reap(w))

Spec == Init /\ [][Next]_vars
LiveSpec == Spec /\ Fairness

(***************************************************************************)
(* Properties.                                                             *)
(***************************************************************************)
\* Type invariant of the gateway and its threads.
TypeOK ==
  /\ client \in Wave \union {None} /\ slot \in Wave \union {None}
  /\ waves \in 0..MaxWaves
  /\ done \in [Wave -> BOOLEAN]
  /\ outcome \in [Wave -> {"none", "client", "error"}]
  /\ session \in [Wave -> SessionState]
  /\ pc \in [Thread -> PC]
  /\ got \in [Thread -> Wave \union {None}]
  /\ flight \in [Thread -> Wave \union {None}]
  /\ error \in [Thread -> BOOLEAN]
  /\ retry \in [Thread -> BOOLEAN]
  /\ calls \in [Thread -> 0..MaxCalls]

\* "One wave of concurrent first calls shares a single create+start": two
\* threads never build or start clients at the same time.
OneStartPerWave ==
  \A t, u \in Thread : pc[t] \in Leading /\ pc[u] \in Leading => t = u

\* A client that is published, or that a thread is calling, has a session that
\* was opened within its timeout: never one half started, or left to the reaper.
UsableClients ==
  /\ client # None => session[client] = "open"
  /\ \A t \in Thread : pc[t] = "call" => session[got[t]] = "open"

\* Whoever waits on a flight finds its outcome when it wakes.
WaitersFindOutcome == \A w \in Wave : done[w] => outcome[w] # "none"

\* "The slot is cleared before waiters wake": a caller never joins a flight
\* that is already over.
NoJoinAfterEnd == slot # None => ~done[slot]

\* A start is shared: one thread leads it, the others join it while it lasts and
\* find what came of it.
StartsAreShared == OneStartPerWave /\ NoJoinAfterEnd /\ WaitersFindOutcome

\* Every waiter of a flight goes on, whether its leader's start returns, raises
\* or times out.
WaitersWake == \A t \in Thread : (pc[t] = "join") ~> (pc[t] # "join")

\* A session that opens after its start was given up is reaped: it is stopped, or
\* was asked to stop in vain.
LateSessionsReaped ==
  \A w \in Wave : (session[w] = "late_open") ~> (session[w] \in {"stopped", "leaked"})

\* A start is resolved for everybody, in time or late: its waiters wake, and a
\* session nobody waits for any more is reaped.
StartsResolve == WaitersWake /\ LateSessionsReaped
=============================================================================
