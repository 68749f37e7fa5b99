-------------------------- MODULE McpGatewayProofs --------------------------
(***************************************************************************)
(* Proofs about the shared MCP client, for any number of threads, waves    *)
(* and calls.                                                              *)
(***************************************************************************)
EXTENDS McpGateway, TLAPS

\* The flight of a leader is the one in the slot.
LeaderHoldsSlot ==
  \A t \in Thread : pc[t] \in Leading => slot = flight[t] /\ slot # None

\* What a leader has done to its wave, by where it is.
LeaderProgress ==
  \A t \in Thread :
    /\ pc[t] = "build" => session[flight[t]] = "unused"
    /\ pc[t] = "start" => session[flight[t]] = "built"
    /\ pc[t] \in {"publish", "announce"} => session[flight[t]] = "open"
    /\ pc[t] = "finish" => outcome[flight[t]] # "none"

\* A leader that wakes its waiters has an outcome, and its flight, one of the
\* waves so far, is no longer the one callers can join.
WakeAfterEnd ==
  \A t \in Thread :
    pc[t] = "wake" => /\ flight[t] # None /\ flight[t] # slot
                      /\ outcome[flight[t]] # "none"

\* Threads know only waves that have begun, and waves to come are untouched.
WavesBegun ==
  /\ slot <= waves
  /\ \A t \in Thread : flight[t] <= waves
  /\ \A t \in Thread : pc[t] = "join" => flight[t] # None
  /\ \A w \in Wave : w > waves => session[w] = "unused" /\ ~done[w]

\* A flight that has a client has an open session.
OutcomeIsOpen == \A w \in Wave : outcome[w] = "client" => session[w] = "open"

IInv == /\ TypeOK
        /\ LeaderHoldsSlot /\ LeaderProgress /\ WakeAfterEnd /\ WavesBegun /\ OutcomeIsOpen
        /\ OneStartPerWave /\ UsableClients /\ WaitersFindOutcome /\ NoJoinAfterEnd

\* The invariant holds before the first call.
LEMMA InitInv ==
  ASSUME Init PROVE IInv
BY GatewayAssumption
   DEF Init, IInv, TypeOK, LeaderHoldsSlot, LeaderProgress, WakeAfterEnd, WavesBegun,
       OutcomeIsOpen, OneStartPerWave, UsableClients, WaitersFindOutcome, NoJoinAfterEnd,
       SessionState, PC, Leading, Wave, None

\* Every step of a thread or of the reaper preserves the invariant.
LEMMA InductiveStep ==
  ASSUME IInv, [Next]_vars PROVE IInv'
<1> USE GatewayAssumption
        DEF IInv, TypeOK, LeaderHoldsSlot, LeaderProgress, WakeAfterEnd, WavesBegun,
            OutcomeIsOpen, OneStartPerWave, UsableClients, WaitersFindOutcome, NoJoinAfterEnd,
            SessionState, PC, Leading, Wave, None, shared
<1>1. ASSUME NEW t \in Thread, Invoke(t) PROVE IInv'
  BY <1>1 DEF Invoke, GoTo
<1>2. ASSUME NEW t \in Thread, Check(t) PROVE IInv'
  BY <1>2 DEF Check, GoTo
<1>3. ASSUME NEW t \in Thread, Reread(t) PROVE IInv'
  BY <1>3 DEF Reread, Receive, GoTo
<1>4. ASSUME NEW t \in Thread, Claim(t) PROVE IInv'
  <2>1. CASE client # None
    <3>1. /\ got' = [got EXCEPT ![t] = client] /\ pc' = [pc EXCEPT ![t] = "call"]
          /\ pc[t] = "claim"
          /\ UNCHANGED <<shared, flight, error, retry, calls>>
      BY <1>4, <2>1 DEF Claim, Receive, GoTo
    <3> QED
      BY <2>1, <3>1
  <2>2. CASE client = None /\ slot # None
    <3>1. /\ flight' = [flight EXCEPT ![t] = slot] /\ pc' = [pc EXCEPT ![t] = "join"]
          /\ pc[t] = "claim"
          /\ UNCHANGED <<shared, got, error, retry, calls>>
      BY <1>4, <2>2 DEF Claim, Receive, GoTo
    <3> QED
      BY <2>2, <3>1
  <2>3. CASE client = None /\ slot = None
    <3>1. /\ waves < MaxWaves /\ waves' = waves + 1 /\ slot' = waves + 1
          /\ flight' = [flight EXCEPT ![t] = waves + 1]
          /\ pc' = [pc EXCEPT ![t] = "build"]
          /\ UNCHANGED <<client, done, outcome, session, got, error, retry, calls>>
      BY <1>4, <2>3 DEF Claim, GoTo
    <3>2. \A u \in Thread : pc[u] \notin Leading
      BY <2>3
    <3>3. TypeOK'
      BY <3>1
    <3>4. LeaderHoldsSlot' /\ LeaderProgress' /\ OneStartPerWave'
      BY <3>1, <3>2
    <3>5. WavesBegun'
      <4>1. slot' <= waves' /\ \A u \in Thread : flight'[u] <= waves'
        BY <3>1
      <4>2. \A u \in Thread : pc'[u] = "join" => flight'[u] # None
        BY <3>1
      <4>3. \A w \in Wave : w > waves' => session'[w] = "unused" /\ ~done'[w]
        BY <3>1
      <4> QED
        BY <4>1, <4>2, <4>3
    <3>6. NoJoinAfterEnd'
      BY <3>1
    <3>7. ASSUME NEW u \in Thread, pc'[u] = "wake"
          PROVE  (flight[u] # None /\ flight[u] # slot /\ outcome[flight[u]] # "none")'
      <4>1. u # t /\ pc[u] = "wake" /\ flight'[u] = flight[u]
        BY <3>1, <3>7
      <4>2. flight[u] # None /\ flight[u] <= waves /\ outcome[flight[u]] # "none"
        BY <4>1
      <4> QED
        BY <3>1, <4>1, <4>2
    <3>8. WakeAfterEnd'
      BY <3>7
    <3>9. OutcomeIsOpen' /\ UsableClients' /\ WaitersFindOutcome'
      BY <3>1
    <3> QED
      BY <3>3, <3>4, <3>5, <3>6, <3>8, <3>9
  <2> QED
    BY <2>1, <2>2, <2>3
<1>5. ASSUME NEW t \in Thread, Join(t) PROVE IInv'
  BY <1>5 DEF Join, Receive, GoTo
<1>6. ASSUME NEW t \in Thread, BuildClient(t) PROVE IInv'
  <2>0. UNCHANGED <<client, slot, waves, done, got, flight, retry, calls>> /\ pc[t] = "build"
    BY <1>6 DEF BuildClient
  <2>1. CASE /\ session' = [session EXCEPT ![flight[t]] = "built"]
             /\ pc' = [pc EXCEPT ![t] = "start"]
             /\ UNCHANGED <<outcome, error>>
    BY <2>0, <2>1
  <2>2. CASE FailStart(t, "failed")
    BY <2>0, <2>2 DEF FailStart, GoTo
  <2> QED
    BY <1>6, <2>1, <2>2 DEF BuildClient, GoTo
<1>7. ASSUME NEW t \in Thread, StartClient(t) PROVE IInv'
  <2>0. UNCHANGED <<client, slot, waves, done, got, flight, retry, calls>> /\ pc[t] = "start"
    BY <1>7 DEF StartClient
  <2>1. CASE /\ session' = [session EXCEPT ![flight[t]] = "open"]
             /\ pc' = [pc EXCEPT ![t] = "publish"]
             /\ UNCHANGED <<outcome, error>>
    BY <2>0, <2>1
  <2>2. ASSUME NEW left \in {"failed", "late"}, FailStart(t, left)
        PROVE  IInv'
    BY <2>0, <2>2 DEF FailStart, GoTo
  <2> QED
    BY <1>7, <2>1, <2>2 DEF StartClient, GoTo
<1>8. ASSUME NEW t \in Thread, Publish(t) PROVE IInv'
  BY <1>8 DEF Publish, GoTo
<1>9. ASSUME NEW t \in Thread, Announce(t) PROVE IInv'
  BY <1>9 DEF Announce, GoTo
<1>10. ASSUME NEW t \in Thread, Finish(t) PROVE IInv'
  BY <1>10 DEF Finish, GoTo
<1>11. ASSUME NEW t \in Thread, Wake(t) PROVE IInv'
  BY <1>11 DEF Wake, Receive, GoTo
<1>12. ASSUME NEW t \in Thread, ReturnUnavailable(t) PROVE IInv'
  BY <1>12 DEF ReturnUnavailable, GoTo
<1>13. ASSUME NEW t \in Thread, CallTool(t) PROVE IInv'
  <2>1. PICK label \in {"idle", "drop"}, again \in BOOLEAN :
          /\ pc[t] = "call" /\ pc' = [pc EXCEPT ![t] = label]
          /\ retry' = [retry EXCEPT ![t] = again]
          /\ UNCHANGED <<shared, got, flight, error, calls>>
    <3>1. CASE pc' = [pc EXCEPT ![t] = "idle"] /\ UNCHANGED retry
      <4>1. retry' = [retry EXCEPT ![t] = retry[t]]
        BY <3>1
      <4> QED
        BY <1>13, <3>1, <4>1 DEF CallTool
    <3>2. CASE pc' = [pc EXCEPT ![t] = "drop"] /\ retry' = [retry EXCEPT ![t] = FALSE]
      BY <1>13, <3>2 DEF CallTool
    <3>3. CASE pc' = [pc EXCEPT ![t] = "drop"] /\ retry' = [retry EXCEPT ![t] = TRUE]
      BY <1>13, <3>3 DEF CallTool
    <3> QED
      BY <1>13, <3>1, <3>2, <3>3 DEF CallTool, GoTo
  <2> QED
    BY <2>1
<1>14. ASSUME NEW t \in Thread, Drop(t) PROVE IInv'
  BY <1>14 DEF Drop, GoTo
<1>15. ASSUME NEW w \in Wave, LateStartEnds(w) \/ Reap(w) PROVE IInv'
  <2>1. PICK end \in {"late_open", "failed", "stopped", "leaked"} :
          /\ session[w] \in {"late", "late_open"}
          /\ session' = [session EXCEPT ![w] = end]
    BY <1>15 DEF LateStartEnds, Reap
  <2>2. UNCHANGED <<client, slot, waves, done, outcome, pc, got, flight, error, retry, calls>>
    BY <1>15 DEF LateStartEnds, Reap
  <2>3. TypeOK'
    BY <2>1, <2>2
  <2>4. LeaderHoldsSlot' /\ LeaderProgress' /\ OneStartPerWave'
    BY <2>1, <2>2
  <2>5. WakeAfterEnd' /\ WavesBegun' /\ NoJoinAfterEnd'
    BY <2>1, <2>2
  <2>6. OutcomeIsOpen' /\ UsableClients' /\ WaitersFindOutcome'
    BY <2>1, <2>2
  <2> QED
    BY <2>3, <2>4, <2>5, <2>6
<1>16. ASSUME UNCHANGED vars PROVE IInv'
  BY <1>16 DEF vars
<1> QED
  BY <1>1, <1>2, <1>3, <1>4, <1>5, <1>6, <1>7, <1>8, <1>9, <1>10, <1>11, <1>12,
     <1>13, <1>14, <1>15, <1>16 DEF Next, Step

\* The inductive invariant holds in every reachable state.
THEOREM Invariance == Spec => []IInv
BY InitInv, InductiveStep, PTL DEF Spec

\* The gateway and its threads always have their types.
THEOREM TypeCorrectness == Spec => []TypeOK
<1>1. IInv => TypeOK
  BY DEF IInv
<1> QED
  BY <1>1, Invariance, PTL

\* However many threads call the gateway for the first time, one of them builds
\* and starts a client at a time.
THEOREM SingleStart == Spec => []OneStartPerWave
<1>1. IInv => OneStartPerWave
  BY DEF IInv
<1> QED
  BY <1>1, Invariance, PTL

\* No thread is ever given, and the gateway never publishes, a client whose
\* session was not opened in time.
THEOREM OnlyOpenSessions == Spec => []UsableClients
<1>1. IInv => UsableClients
  BY DEF IInv
<1> QED
  BY <1>1, Invariance, PTL

\* A waiter that wakes finds the outcome of its flight.
THEOREM FlightsEndProperly == Spec => []WaitersFindOutcome
<1>1. IInv => WaitersFindOutcome
  BY DEF IInv
<1> QED
  BY <1>1, Invariance, PTL

\* A flight that is over is not joined.
THEOREM EndedFlightsAreLeft == Spec => []NoJoinAfterEnd
<1>1. IInv => NoJoinAfterEnd
  BY DEF IInv
<1> QED
  BY <1>1, Invariance, PTL

\* A start has one leader, and all who join it find its outcome.
THEOREM StartsAreSound == Spec => []StartsAreShared
<1>1. OneStartPerWave /\ NoJoinAfterEnd /\ WaitersFindOutcome => StartsAreShared
  BY DEF StartsAreShared
<1> QED
  BY <1>1, SingleStart, EndedFlightsAreLeft, FlightsEndProperly, PTL
=============================================================================
