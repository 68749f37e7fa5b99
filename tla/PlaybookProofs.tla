--------------------------- MODULE PlaybookProofs ---------------------------
(***************************************************************************)
(* Proofs about the parallel playbook, for any workers, steps, budget,     *)
(* retries, threshold and pool size.                                       *)
(***************************************************************************)
EXTENDS Playbook, FiniteSetTheorems, TLAPS

\* TypeOK in parts: the groups, the pool with the budget, and the rest.
GroupTypes ==
  /\ pc \in [Worker -> PC] /\ step \in [Worker -> Nat]
  /\ attempt \in [Worker -> 0..MaxRetries + 1] /\ results \in [Worker -> Nat]
PoolTypes ==
  /\ calls_made \in 0..MaxToolCalls /\ submitted \in [Worker -> 0..MaxToolCalls]
  /\ queue \in Seq(Call) /\ running \subseteq Call
  /\ awaits \in [Worker -> 0..MaxToolCalls]
  /\ answer \in [Worker -> Answer] /\ wasted \in [Worker -> 0..MaxToolCalls]
RestTypes ==
  /\ failure_count \in [Worker -> Nat] /\ recovered \in [Worker -> BOOLEAN]
  /\ late \in BOOLEAN /\ escalated \in BOOLEAN
  /\ main \in {"collecting", "returned", "raised"}
  /\ collected \subseteq Worker /\ evidence \in [Worker -> Nat]
  /\ stall \in Nat /\ seen \subseteq Worker

\* Every call of a worker took a unit of the budget.
CallsArePaid ==
  \A w \in Worker : submitted[w] <= calls_made /\ wasted[w] <= submitted[w]

\* A group waits for nothing or for the last call of its worker.
AwaitsLast == \A w \in Worker : awaits[w] = 0 \/ awaits[w] = submitted[w]

\* Where the attempt counter of a group can be.
AttemptInRange(w) ==
  /\ pc[w] \in {"queued", "precheck"} => attempt[w] = 0
  /\ pc[w] \in {"record", "await", "answered"} => attempt[w] <= MaxRetries
  /\ pc[w] = "fail" => attempt[w] = MaxRetries + 1

\* Calls of the step under way that nobody answered yet.
Pending(w) == IF pc[w] \in {"await", "answered"} THEN attempt[w] + 1 ELSE attempt[w]

\* The calls that n failed steps cost.
Cost(n) == (MaxRetries + 1) * n

\* While a group goes on, its unanswered calls are those of the failures counted
\* and of the step under way; after a recovery only those of the step.
WasteIsCounted(w) ==
  pc[w] \notin Over =>
    /\ wasted[w] <= Cost(failure_count[w]) + Pending(w)
    /\ recovered[w] => wasted[w] <= Pending(w)

\* A circuit is closed, or has recovered, from the check to the last attempt.
CircuitInv(w) ==
  /\ AttemptInRange(w) /\ WasteIsCounted(w)
  /\ pc[w] \in {"record", "await", "answered", "fail"} =>
       failure_count[w] < Threshold \/ recovered[w]
  /\ wasted[w] <= Cost(Threshold)

\* A group that ends by itself has a result; what was collected has ended and is
\* in the evidence, unless the collection was given up.
CollectedIsEvidence ==
  /\ \A w \in Worker : pc[w] = "done" => results[w] > 0
  /\ \A w \in collected : pc[w] \in {"done", "raised"}
  /\ main # "raised" => \A w \in collected : pc[w] = "done" => evidence[w] = results[w]
  /\ main = "collecting" => ~escalated
  /\ main = "returned" /\ ~escalated => collected = Worker

IInv == /\ TypeOK /\ CallsArePaid /\ AwaitsLast
        /\ \A w \in Worker : CircuitInv(w)
        /\ CollectedIsEvidence

\* Failures cost 1 + MaxRetries calls each.
LEMMA CostFacts ==
  ASSUME NEW n \in Nat
  PROVE  /\ Cost(n) \in Nat
         /\ Cost(n + 1) = Cost(n) + MaxRetries + 1
         /\ n < Threshold => Cost(n) + MaxRetries + 1 <= Cost(Threshold)
         /\ Cost(Threshold) \in Nat /\ MaxRetries + 1 <= Cost(Threshold)
<1>1. MaxRetries \in Nat /\ Threshold \in Nat /\ Threshold >= 1
  BY PlaybookAssumption
<1>2. \A m, a, b \in Nat : a < b => m * a + m <= m * b
  OBVIOUS
<1>3. \A m, a \in Nat : m * a \in Nat /\ m * (a + 1) = m * a + m
  OBVIOUS
<1>4. Cost(n) \in Nat /\ Cost(Threshold) \in Nat /\ Cost(n + 1) = Cost(n) + (MaxRetries + 1)
  BY <1>1, <1>3 DEF Cost
<1>5. n < Threshold => Cost(n) + (MaxRetries + 1) <= Cost(Threshold)
  BY <1>1, <1>2 DEF Cost
<1>6. Cost(0) = 0
  BY <1>1 DEF Cost
<1>7. MaxRetries + 1 <= Cost(Threshold)
  <2>1. (MaxRetries + 1) * 0 + (MaxRetries + 1) <= (MaxRetries + 1) * Threshold
    BY <1>1, <1>2
  <2> QED
    BY <1>1, <1>6, <2>1 DEF Cost
<1> QED
  BY <1>1, <1>4, <1>5, <1>7

\* TypeOK is its parts.
LEMMA TypeParts == TypeOK <=> GroupTypes /\ PoolTypes /\ RestTypes
BY DEF TypeOK, GroupTypes, PoolTypes, RestTypes

\* The invariant holds before the groups start.
LEMMA InitInv ==
  ASSUME Init PROVE IInv
<1> USE PlaybookAssumption
<1>1. TypeOK
  <2>1. <<>> \in Seq(Call)
    OBVIOUS
  <2>2. GroupTypes
    BY DEF Init, GroupTypes, PC
  <2>3. PoolTypes
    BY <2>1 DEF Init, PoolTypes, Answer
  <2>4. RestTypes
    BY DEF Init, RestTypes
  <2> QED
    BY <2>2, <2>3, <2>4, TypeParts
<1>2. CallsArePaid /\ AwaitsLast
  BY DEF Init, CallsArePaid, AwaitsLast
<1>3. Cost(0) = 0 /\ Cost(Threshold) \in Nat
  <2>1. Cost(0) = 0
    BY DEF Cost
  <2> QED
    BY <2>1, CostFacts
<1>4. \A w \in Worker : CircuitInv(w)
  BY <1>3 DEF Init, CircuitInv, AttemptInRange, WasteIsCounted, Pending, Over
<1>5. CollectedIsEvidence
  BY DEF Init, CollectedIsEvidence
<1> QED
  BY <1>1, <1>2, <1>4, <1>5 DEF IInv

\* What the end of a step does to the groups.
LEMMA EndStepEffect ==
  ASSUME TypeOK, NEW w \in Worker, EndStep(w)
  PROVE  /\ GroupTypes'
         /\ pc'[w] \in {"precheck", "done"} /\ attempt'[w] = 0
         /\ results'[w] = results[w] + 1
         /\ \A v \in Worker : v # w => /\ pc'[v] = pc[v] /\ attempt'[v] = attempt[v]
                                      /\ results'[v] = results[v]
<1> USE DEF TypeOK, EndStep
<1>1. pc' \in [Worker -> PC]
  BY DEF PC
<1>2. step' \in [Worker -> Nat] /\ results' \in [Worker -> Nat]
  OBVIOUS
<1>3. attempt' \in [Worker -> 0..MaxRetries + 1]
  BY PlaybookAssumption
<1>4. pc'[w] \in {"precheck", "done"} /\ attempt'[w] = 0 /\ results'[w] = results[w] + 1
  OBVIOUS
<1>5. \A v \in Worker : v # w => /\ pc'[v] = pc[v] /\ attempt'[v] = attempt[v]
                                /\ results'[v] = results[v]
  OBVIOUS
<1> QED
  BY <1>1, <1>2, <1>3, <1>4, <1>5 DEF GroupTypes

\* Every step keeps the types, the budget's account and the calls awaited.
LEMMA TypeStep ==
  ASSUME IInv, [Next]_vars PROVE GroupTypes' /\ PoolTypes' /\ RestTypes' /\ CallsArePaid' /\ AwaitsLast'
<1> USE PlaybookAssumption DEF IInv, TypeOK, groupVars, poolVars, circuitVars, mainVars
<1>1. ASSUME NEW w \in Worker, StartGroup(w)
      PROVE  GroupTypes' /\ PoolTypes' /\ RestTypes' /\ CallsArePaid' /\ AwaitsLast'
  <2>1. GroupTypes'
    BY <1>1 DEF GroupTypes, AttemptInRange, CircuitInv, PC, StartGroup
  <2>2. PoolTypes' /\ CallsArePaid' /\ AwaitsLast'
    BY <1>1 DEF PoolTypes, CallsArePaid, AwaitsLast, Answer, Call, StartGroup
  <2>3. RestTypes'
    BY <1>1 DEF RestTypes, StartGroup
  <2> QED
    BY <2>1, <2>2, <2>3
<1>2. ASSUME NEW w \in Worker, _check_call_preconditions(w)
      PROVE  GroupTypes' /\ PoolTypes' /\ RestTypes' /\ CallsArePaid' /\ AwaitsLast'
  <2>1. GroupTypes'
    <3>1. CASE EndStep(w)
      BY <3>1, EndStepEffect
    <3>2. CASE ~EndStep(w)
      BY <1>2, <3>2 DEF GroupTypes, PC, _check_call_preconditions
    <3> QED
      BY <3>1, <3>2
  <2>2. PoolTypes' /\ CallsArePaid' /\ AwaitsLast'
    BY <1>2 DEF PoolTypes, CallsArePaid, AwaitsLast, Answer, Call, _check_call_preconditions
  <2>3. RestTypes'
    BY <1>2 DEF RestTypes, _check_call_preconditions
  <2> QED
    BY <2>1, <2>2, <2>3
<1>3. ASSUME NEW w \in Worker, SkipUnregistered(w)
      PROVE  GroupTypes' /\ PoolTypes' /\ RestTypes' /\ CallsArePaid' /\ AwaitsLast'
  <2>1. GroupTypes'
    BY <1>3, EndStepEffect DEF SkipUnregistered
  <2>2. PoolTypes' /\ CallsArePaid' /\ AwaitsLast'
    BY <1>3 DEF PoolTypes, CallsArePaid, AwaitsLast, Answer, Call, SkipUnregistered
  <2>3. RestTypes'
    BY <1>3 DEF RestTypes, SkipUnregistered
  <2> QED
    BY <2>1, <2>2, <2>3
<1>4. ASSUME NEW w \in Worker, Attempt(w)
      PROVE  GroupTypes' /\ PoolTypes' /\ RestTypes' /\ CallsArePaid' /\ AwaitsLast'
  <2>1. GroupTypes'
    BY <1>4 DEF GroupTypes, AttemptInRange, CircuitInv, PC, Attempt, try_record, Submit
  <2>2. PoolTypes' /\ CallsArePaid' /\ AwaitsLast'
    <3>1. /\ calls_made < MaxToolCalls /\ calls_made' = calls_made + 1
          /\ submitted' = [submitted EXCEPT ![w] = submitted[w] + 1]
          /\ queue' = Append(queue, [worker |-> w, number |-> submitted[w] + 1])
          /\ awaits' = [awaits EXCEPT ![w] = submitted[w] + 1]
          /\ wasted' = [wasted EXCEPT ![w] = wasted[w] + 1]
          /\ running' = running /\ answer' = answer
      BY <1>4 DEF Attempt, try_record, Submit
    <3>2. submitted[w] <= calls_made /\ wasted[w] <= submitted[w]
      BY DEF CallsArePaid
    <3>3. calls_made' \in 0..MaxToolCalls /\ submitted[w] + 1 \in 1..MaxToolCalls
      BY <3>1, <3>2
    <3>4. [worker |-> w, number |-> submitted[w] + 1] \in Call
      BY <3>3 DEF Call
    <3>5. queue' \in Seq(Call)
      BY <3>1, <3>4
    <3>6. /\ submitted' \in [Worker -> 0..MaxToolCalls]
          /\ awaits' \in [Worker -> 0..MaxToolCalls]
          /\ wasted' \in [Worker -> 0..MaxToolCalls]
      BY <3>1, <3>2, <3>3
    <3>7. CallsArePaid'
      <4>1. submitted'[w] <= calls_made' /\ wasted'[w] <= submitted'[w]
        BY <3>1, <3>2
      <4>2. ASSUME NEW v \in Worker, v # w
            PROVE  submitted'[v] <= calls_made' /\ wasted'[v] <= submitted'[v]
        <5>1. submitted'[v] = submitted[v] /\ wasted'[v] = wasted[v]
          BY <3>1, <4>2
        <5>2. submitted[v] <= calls_made /\ wasted[v] <= submitted[v]
          BY DEF CallsArePaid
        <5>3. submitted[v] \in Nat /\ wasted[v] \in Nat /\ calls_made \in Nat
          OBVIOUS
        <5>4. calls_made' = calls_made + 1
          BY <3>1
        <5> HIDE PlaybookAssumption DEF IInv, TypeOK
        <5> QED
          BY <5>1, <5>2, <5>3, <5>4
      <4> QED
        BY <4>1, <4>2 DEF CallsArePaid
    <3>8. AwaitsLast'
      BY <3>1 DEF AwaitsLast
    <3> QED
      BY <3>1, <3>3, <3>5, <3>6, <3>7, <3>8 DEF PoolTypes
  <2>3. RestTypes'
    BY <1>4 DEF RestTypes, Attempt, try_record, Submit
  <2> QED
    BY <2>1, <2>2, <2>3
<1>5. ASSUME NEW w \in Worker, BudgetExhausted(w)
      PROVE  GroupTypes' /\ PoolTypes' /\ RestTypes' /\ CallsArePaid' /\ AwaitsLast'
  <2>1. GroupTypes'
    BY <1>5 DEF GroupTypes, AttemptInRange, CircuitInv, PC, BudgetExhausted
  <2>2. PoolTypes' /\ CallsArePaid' /\ AwaitsLast'
    BY <1>5 DEF PoolTypes, CallsArePaid, AwaitsLast, Answer, Call, BudgetExhausted
  <2>3. RestTypes'
    BY <1>5 DEF RestTypes, BudgetExhausted
  <2> QED
    BY <2>1, <2>2, <2>3
<1>6. ASSUME NEW w \in Worker, CallReturns(w)
      PROVE  GroupTypes' /\ PoolTypes' /\ RestTypes' /\ CallsArePaid' /\ AwaitsLast'
  <2>1. GroupTypes'
    BY <1>6, EndStepEffect DEF CallReturns
  <2>2. PoolTypes' /\ CallsArePaid' /\ AwaitsLast'
    <3>1. /\ awaits' = [awaits EXCEPT ![w] = 0] /\ answer' = [answer EXCEPT ![w] = "none"]
          /\ wasted' = [wasted EXCEPT ![w] = 0]
          /\ UNCHANGED <<calls_made, submitted, queue, running>>
      BY <1>6 DEF CallReturns
    <3>2. PoolTypes'
      BY <3>1 DEF PoolTypes, Answer
    <3>3. CallsArePaid' /\ AwaitsLast'
      BY <3>1 DEF CallsArePaid, AwaitsLast
    <3> QED
      BY <3>2, <3>3
  <2>3. RestTypes'
    BY <1>6 DEF RestTypes, CallReturns, record_success
  <2> QED
    BY <2>1, <2>2, <2>3
<1>7. ASSUME NEW w \in Worker, CallTimesOut(w)
      PROVE  GroupTypes' /\ PoolTypes' /\ RestTypes' /\ CallsArePaid' /\ AwaitsLast'
  <2>1. GroupTypes'
    BY <1>7 DEF GroupTypes, AttemptInRange, CircuitInv, PC, CallTimesOut
  <2>2. PoolTypes' /\ CallsArePaid' /\ AwaitsLast'
    BY <1>7 DEF PoolTypes, CallsArePaid, AwaitsLast, Answer, Call, CallTimesOut
  <2>3. RestTypes'
    BY <1>7 DEF RestTypes, CallTimesOut
  <2> QED
    BY <2>1, <2>2, <2>3
<1>8. ASSUME NEW w \in Worker, CallFails(w)
      PROVE  GroupTypes' /\ PoolTypes' /\ RestTypes' /\ CallsArePaid' /\ AwaitsLast'
  <2>1. GroupTypes'
    BY <1>8, EndStepEffect DEF CallFails
  <2>2. PoolTypes' /\ CallsArePaid' /\ AwaitsLast'
    BY <1>8 DEF PoolTypes, CallsArePaid, AwaitsLast, Answer, Call, CallFails, record_failure
  <2>3. RestTypes'
    BY <1>8 DEF RestTypes, CallFails, record_failure
  <2> QED
    BY <2>1, <2>2, <2>3
<1>9. ASSUME NEW w \in Worker, GroupRaises(w)
      PROVE  GroupTypes' /\ PoolTypes' /\ RestTypes' /\ CallsArePaid' /\ AwaitsLast'
  <2>1. GroupTypes'
    BY <1>9 DEF GroupTypes, AttemptInRange, CircuitInv, PC, GroupRaises
  <2>2. PoolTypes' /\ CallsArePaid' /\ AwaitsLast'
    BY <1>9 DEF PoolTypes, CallsArePaid, AwaitsLast, Answer, Call, GroupRaises
  <2>3. RestTypes'
    BY <1>9 DEF RestTypes, GroupRaises
  <2> QED
    BY <2>1, <2>2, <2>3
<1>10. ASSUME NEW w \in Worker, RecoveryPasses(w)
       PROVE  GroupTypes' /\ PoolTypes' /\ RestTypes' /\ CallsArePaid' /\ AwaitsLast'
  <2>1. GroupTypes'
    BY <1>10 DEF GroupTypes, AttemptInRange, CircuitInv, PC, RecoveryPasses
  <2>2. PoolTypes' /\ CallsArePaid' /\ AwaitsLast'
    BY <1>10 DEF PoolTypes, CallsArePaid, AwaitsLast, Answer, Call, RecoveryPasses
  <2>3. RestTypes'
    BY <1>10 DEF RestTypes, RecoveryPasses
  <2> QED
    BY <2>1, <2>2, <2>3
<1>11. ASSUME NEW w \in Worker, Collect(w)
       PROVE  GroupTypes' /\ PoolTypes' /\ RestTypes' /\ CallsArePaid' /\ AwaitsLast'
  <2>1. GroupTypes'
    BY <1>11 DEF GroupTypes, AttemptInRange, CircuitInv, PC, Collect, Take, check
  <2>2. PoolTypes' /\ CallsArePaid' /\ AwaitsLast'
    BY <1>11 DEF PoolTypes, CallsArePaid, AwaitsLast, Answer, Call, Collect, Take, check
  <2>3. RestTypes'
    <3>1. collected' \subseteq Worker /\ evidence' \in [Worker -> Nat]
      BY <1>11 DEF Collect, Take
    <3>2. stall' \in Nat /\ seen' \subseteq Worker
      <4>1. CASE should_check
        <5>1. /\ seen' = {v \in Worker : evidence'[v] > 0}
              /\ stall' = 0 \/ stall' = stall + 1
          BY <1>11, <4>1 DEF Collect, check
        <5> QED
          BY <5>1
      <4>2. CASE ~should_check
        BY <1>11, <4>2 DEF Collect
      <4> QED
        BY <4>1, <4>2
    <3>3. escalated' \in BOOLEAN /\ main' \in {"collecting", "returned", "raised"}
      BY <1>11 DEF Collect
    <3>4. UNCHANGED <<failure_count, recovered, late>>
      BY <1>11 DEF Collect
    <3> QED
      BY <3>1, <3>2, <3>3, <3>4 DEF RestTypes
  <2> QED
    BY <2>1, <2>2, <2>3
<1>12. ASSUME StartCall
       PROVE  GroupTypes' /\ PoolTypes' /\ RestTypes' /\ CallsArePaid' /\ AwaitsLast'
  <2>1. GroupTypes'
    BY <1>12 DEF GroupTypes, AttemptInRange, CircuitInv, PC, StartCall
  <2>2. PoolTypes' /\ CallsArePaid' /\ AwaitsLast'
    <3>1. /\ queue # <<>> /\ queue' = Tail(queue)
          /\ running' = running \union {Head(queue)}
          /\ UNCHANGED <<calls_made, submitted, awaits, answer, wasted>>
      BY <1>12 DEF StartCall
    <3>2. Head(queue) \in Call /\ Tail(queue) \in Seq(Call)
      BY <3>1
    <3> QED
      BY <3>1, <3>2 DEF PoolTypes, CallsArePaid, AwaitsLast
  <2>3. RestTypes'
    BY <1>12 DEF RestTypes, StartCall
  <2> QED
    BY <2>1, <2>2, <2>3
<1>13. ASSUME NEW c \in running, Execute(c)
       PROVE  GroupTypes' /\ PoolTypes' /\ RestTypes' /\ CallsArePaid' /\ AwaitsLast'
  <2>1. GroupTypes'
    BY <1>13 DEF GroupTypes, AttemptInRange, CircuitInv, PC, Execute
  <2>2. PoolTypes' /\ CallsArePaid' /\ AwaitsLast'
    <3>1. /\ running' = running \ {c}
          /\ UNCHANGED <<calls_made, submitted, queue, awaits, wasted>>
      BY <1>13 DEF Execute
    <3>2. answer' \in [Worker -> Answer]
      BY <1>13 DEF Execute, Answer
    <3> QED
      BY <3>1, <3>2 DEF PoolTypes, CallsArePaid, AwaitsLast
  <2>3. RestTypes'
    BY <1>13 DEF RestTypes, Execute
  <2> QED
    BY <2>1, <2>2, <2>3
<1>14. ASSUME DeadlinePasses
       PROVE  GroupTypes' /\ PoolTypes' /\ RestTypes' /\ CallsArePaid' /\ AwaitsLast'
  <2>1. GroupTypes'
    BY <1>14 DEF GroupTypes, AttemptInRange, CircuitInv, PC, DeadlinePasses
  <2>2. PoolTypes' /\ CallsArePaid' /\ AwaitsLast'
    BY <1>14 DEF PoolTypes, CallsArePaid, AwaitsLast, Answer, Call, DeadlinePasses
  <2>3. RestTypes'
    BY <1>14 DEF RestTypes, DeadlinePasses
  <2> QED
    BY <2>1, <2>2, <2>3
<1>15. ASSUME CollectTimesOut
       PROVE  GroupTypes' /\ PoolTypes' /\ RestTypes' /\ CallsArePaid' /\ AwaitsLast'
  <2>1. GroupTypes'
    BY <1>15 DEF GroupTypes, AttemptInRange, CircuitInv, PC, CollectTimesOut
  <2>2. PoolTypes' /\ CallsArePaid' /\ AwaitsLast'
    BY <1>15 DEF PoolTypes, CallsArePaid, AwaitsLast, Answer, Call, CollectTimesOut
  <2>3. RestTypes'
    BY <1>15 DEF RestTypes, CollectTimesOut
  <2> QED
    BY <2>1, <2>2, <2>3
<1>16. ASSUME UNCHANGED vars
       PROVE  GroupTypes' /\ PoolTypes' /\ RestTypes' /\ CallsArePaid' /\ AwaitsLast'
  BY <1>16 DEF vars, GroupTypes, PoolTypes, RestTypes, CallsArePaid, AwaitsLast
<1> QED
  BY <1>1, <1>2, <1>3, <1>4, <1>5, <1>6, <1>7, <1>8, <1>9, <1>10, <1>11, <1>12, <1>13, <1>14,
     <1>15, <1>16 DEF Next, Group

\* Only the group and the circuit of w change.
OthersKeep(w) ==
  \A v \in Worker : v # w =>
    /\ pc'[v] = pc[v] /\ attempt'[v] = attempt[v] /\ wasted'[v] = wasted[v]
    /\ failure_count'[v] = failure_count[v] /\ recovered'[v] = recovered[v]

\* CircuitInv of a worker depends on its own group and circuit only.
LEMMA Frame ==
  ASSUME NEW v \in Worker, CircuitInv(v),
         pc'[v] = pc[v], attempt'[v] = attempt[v], wasted'[v] = wasted[v],
         failure_count'[v] = failure_count[v], recovered'[v] = recovered[v]
  PROVE  CircuitInv(v)'
BY DEF CircuitInv, AttemptInRange, WasteIsCounted, Pending, Cost

\* A group that goes to its next step, or ends, with no unanswered call more than
\* its failures account for.
LEMMA NextStep ==
  ASSUME NEW w \in Worker, TypeOK, TypeOK', pc'[w] \in {"precheck", "done"}, attempt'[w] = 0,
         wasted'[w] <= Cost(failure_count'[w]), recovered'[w] => wasted'[w] = 0,
         wasted'[w] <= Cost(Threshold)
  PROVE  CircuitInv(w)'
<1>1. wasted'[w] \in Nat /\ failure_count'[w] \in Nat
  BY PlaybookAssumption DEF TypeOK
<1>2. Cost(failure_count'[w]) \in Nat /\ Cost(Threshold) \in Nat
  BY <1>1, CostFacts
<1>3. AttemptInRange(w)'
  BY DEF AttemptInRange
<1>4. WasteIsCounted(w)'
  BY <1>1, <1>2 DEF WasteIsCounted, Pending, Cost
<1> QED
  BY <1>3, <1>4 DEF CircuitInv, Cost

\* Every step keeps the account of unanswered calls and the circuits.
LEMMA CircuitStep ==
  ASSUME IInv, [Next]_vars PROVE \A v \in Worker : CircuitInv(v)'
<1> USE PlaybookAssumption DEF groupVars, poolVars, circuitVars, mainVars
<1>0. TypeOK /\ TypeOK' /\ \A v \in Worker : CircuitInv(v)
  BY TypeStep, TypeParts DEF GroupTypes, PoolTypes, RestTypes, TypeOK, IInv
<1>1. \A v \in Worker : /\ attempt[v] \in Nat /\ wasted[v] \in Nat /\ failure_count[v] \in Nat
                        /\ recovered[v] \in BOOLEAN /\ pc[v] \in PC
                        /\ Cost(failure_count[v]) \in Nat
                        /\ Cost(failure_count[v] + 1) = Cost(failure_count[v]) + MaxRetries + 1
                        /\ failure_count[v] < Threshold =>
                             Cost(failure_count[v]) + MaxRetries + 1 <= Cost(Threshold)
  <2>1. ASSUME NEW v \in Worker
        PROVE  /\ attempt[v] \in Nat /\ wasted[v] \in Nat /\ failure_count[v] \in Nat
               /\ recovered[v] \in BOOLEAN /\ pc[v] \in PC
    BY <1>0 DEF TypeOK
  <2> QED
    BY <2>1, CostFacts
<1>2. Cost(Threshold) \in Nat /\ MaxRetries + 1 <= Cost(Threshold) /\ Cost(0) = 0
  <2>1. Cost(0) = 0
    BY DEF Cost
  <2> QED
    BY <2>1, CostFacts
<1>3. ASSUME NEW w \in Worker, OthersKeep(w), CircuitInv(w)' PROVE \A v \in Worker : CircuitInv(v)'
  BY <1>0, <1>3, Frame DEF OthersKeep
<1>4. ASSUME pc' = pc, attempt' = attempt, wasted' = wasted, failure_count' = failure_count,
             recovered' = recovered
      PROVE  \A v \in Worker : CircuitInv(v)'
  BY <1>0, <1>4, Frame
<1>5. ASSUME NEW w \in Worker, StartGroup(w) PROVE \A v \in Worker : CircuitInv(v)'
  <2>1. /\ OthersKeep(w)
        /\ pc[w] = "queued" /\ pc'[w] = "precheck" /\ attempt'[w] = attempt[w]
        /\ wasted'[w] = wasted[w] /\ failure_count'[w] = failure_count[w]
        /\ recovered'[w] = recovered[w]
    BY <1>5, <1>0 DEF OthersKeep, TypeOK, StartGroup
  <2>2. CircuitInv(w)'
    BY <1>0, <1>1, <1>2, <2>1 DEF Cost, CircuitInv, AttemptInRange, WasteIsCounted, Pending, Over
  <2> QED
    BY <1>3, <2>1, <2>2
<1>6. ASSUME NEW w \in Worker, _check_call_preconditions(w) PROVE \A v \in Worker : CircuitInv(v)'
  <2>1. CASE EndStep(w)
    <3>1. /\ OthersKeep(w) /\ pc[w] = "precheck"
          /\ pc'[w] \in {"precheck", "done"} /\ attempt'[w] = 0
          /\ wasted'[w] = wasted[w] /\ failure_count'[w] = failure_count[w]
          /\ recovered'[w] = recovered[w]
      BY <1>6, <1>0, <2>1, EndStepEffect DEF OthersKeep, _check_call_preconditions
    <3>2. wasted[w] <= Cost(failure_count[w]) /\ (recovered[w] => wasted[w] = 0)
          /\ wasted[w] <= Cost(Threshold)
      BY <1>0, <1>1, <3>1 DEF CircuitInv, AttemptInRange, WasteIsCounted, Pending, Over
    <3>3. CircuitInv(w)'
      BY <1>0, <3>1, <3>2, NextStep
    <3> QED
      BY <1>3, <3>1, <3>3
  <2>2. CASE ~EndStep(w)
    <3>1. /\ OthersKeep(w) /\ pc[w] = "precheck" /\ pc'[w] = "record" /\ ~is_open(w)
          /\ attempt'[w] = attempt[w] /\ wasted'[w] = wasted[w]
          /\ failure_count'[w] = failure_count[w] /\ recovered'[w] = recovered[w]
      BY <1>6, <1>0, <2>2 DEF OthersKeep, TypeOK, _check_call_preconditions
    <3>2. failure_count[w] < Threshold \/ recovered[w]
      BY <1>1, <3>1 DEF is_open
    <3>3. attempt[w] = 0 /\ wasted[w] <= Cost(failure_count[w]) /\ wasted[w] <= Cost(Threshold)
          /\ (recovered[w] => wasted[w] <= 0)
      BY <1>0, <1>1, <3>1 DEF CircuitInv, AttemptInRange, WasteIsCounted, Pending, Over
    <3>4. AttemptInRange(w)'
      BY <1>1, <3>1, <3>3 DEF AttemptInRange
    <3>5. WasteIsCounted(w)'
      BY <1>1, <3>1, <3>3 DEF WasteIsCounted, Pending, Cost
    <3>6. CircuitInv(w)'
      BY <3>1, <3>2, <3>3, <3>4, <3>5 DEF CircuitInv, Cost
    <3> QED
      BY <1>3, <3>1, <3>6
  <2> QED
    BY <2>1, <2>2
<1>7. ASSUME NEW w \in Worker, SkipUnregistered(w) PROVE \A v \in Worker : CircuitInv(v)'
  <2>1. /\ OthersKeep(w)
        /\ pc[w] = "precheck" /\ pc'[w] \in {"precheck", "done"} /\ attempt'[w] = 0
        /\ wasted'[w] = wasted[w] /\ failure_count'[w] = failure_count[w]
        /\ recovered'[w] = recovered[w]
    BY <1>7, <1>0, EndStepEffect DEF OthersKeep, TypeOK, SkipUnregistered
  <2>3. wasted[w] <= Cost(failure_count[w]) /\ (recovered[w] => wasted[w] = 0)
        /\ wasted[w] <= Cost(Threshold)
    BY <1>0, <1>1, <2>1 DEF CircuitInv, AttemptInRange, WasteIsCounted, Pending, Over
  <2>2. CircuitInv(w)'
    BY <1>0, <2>1, <2>3, NextStep
  <2> QED
    BY <1>3, <2>1, <2>2
<1>8. ASSUME NEW w \in Worker, Attempt(w) PROVE \A v \in Worker : CircuitInv(v)'
  <2>1. /\ OthersKeep(w)
        /\ pc[w] = "record" /\ pc'[w] = "await" /\ attempt'[w] = attempt[w]
        /\ wasted'[w] = wasted[w] + 1
        /\ failure_count'[w] = failure_count[w] /\ recovered'[w] = recovered[w]
    BY <1>8, <1>0 DEF OthersKeep, TypeOK, Attempt, Submit
  <2>2. CircuitInv(w)'
    BY <1>0, <1>1, <1>2, <2>1 DEF Cost, CircuitInv, AttemptInRange, WasteIsCounted, Pending, Over
  <2> QED
    BY <1>3, <2>1, <2>2
<1>9. ASSUME NEW w \in Worker, BudgetExhausted(w) PROVE \A v \in Worker : CircuitInv(v)'
  <2>1. /\ OthersKeep(w)
        /\ pc'[w] = "done" /\ attempt'[w] = attempt[w]
        /\ wasted'[w] = wasted[w] /\ failure_count'[w] = failure_count[w]
        /\ recovered'[w] = recovered[w]
    BY <1>9, <1>0 DEF OthersKeep, TypeOK, BudgetExhausted
  <2>2. CircuitInv(w)'
    BY <1>0, <1>1, <1>2, <2>1 DEF Cost, CircuitInv, AttemptInRange, WasteIsCounted, Pending, Over
  <2> QED
    BY <1>3, <2>1, <2>2
<1>10. ASSUME NEW w \in Worker, CallReturns(w) PROVE \A v \in Worker : CircuitInv(v)'
  <2>1. /\ OthersKeep(w)
        /\ pc'[w] \in {"precheck", "done"} /\ attempt'[w] = 0
        /\ wasted'[w] = 0 /\ failure_count'[w] = 0
    BY <1>10, <1>0, EndStepEffect DEF OthersKeep, TypeOK, CallReturns, record_success
  <2>2. CircuitInv(w)'
    BY <1>0, <1>2, <2>1, NextStep
  <2> QED
    BY <1>3, <2>1, <2>2
<1>11. ASSUME NEW w \in Worker, CallTimesOut(w) PROVE \A v \in Worker : CircuitInv(v)'
  <2>1. /\ OthersKeep(w)
        /\ pc[w] = "await" /\ attempt'[w] = attempt[w] + 1
        /\ pc'[w] = IF attempt[w] < MaxRetries THEN "record" ELSE "fail"
        /\ wasted'[w] = wasted[w] /\ failure_count'[w] = failure_count[w]
        /\ recovered'[w] = recovered[w]
    BY <1>11, <1>0 DEF OthersKeep, TypeOK, CallTimesOut
  <2>2. CircuitInv(w)'
    BY <1>0, <1>1, <1>2, <2>1 DEF Cost, CircuitInv, AttemptInRange, WasteIsCounted, Pending, Over
  <2> QED
    BY <1>3, <2>1, <2>2
<1>12. ASSUME NEW w \in Worker, CallFails(w) PROVE \A v \in Worker : CircuitInv(v)'
  <2>1. /\ OthersKeep(w)
        /\ pc[w] = "fail" /\ pc'[w] \in {"precheck", "done"} /\ attempt'[w] = 0
        /\ wasted'[w] = wasted[w] /\ failure_count'[w] = failure_count[w] + 1 /\ ~recovered'[w]
    BY <1>12, <1>0, EndStepEffect DEF OthersKeep, TypeOK, CallFails, record_failure
  <2>3. wasted[w] <= Cost(failure_count[w] + 1) /\ wasted[w] <= Cost(Threshold)
    BY <1>0, <1>1, <2>1 DEF CircuitInv, AttemptInRange, WasteIsCounted, Pending, Over
  <2>2. CircuitInv(w)'
    BY <1>0, <2>1, <2>3, NextStep
  <2> QED
    BY <1>3, <2>1, <2>2
<1>13. ASSUME NEW w \in Worker, GroupRaises(w) PROVE \A v \in Worker : CircuitInv(v)'
  <2>1. /\ OthersKeep(w)
        /\ pc'[w] = "raised" /\ attempt'[w] = attempt[w]
        /\ wasted'[w] = wasted[w] /\ failure_count'[w] = failure_count[w]
        /\ recovered'[w] = recovered[w]
    BY <1>13, <1>0 DEF OthersKeep, TypeOK, GroupRaises
  <2>2. CircuitInv(w)'
    BY <1>0, <1>1, <1>2, <2>1 DEF Cost, CircuitInv, AttemptInRange, WasteIsCounted, Pending, Over
  <2> QED
    BY <1>3, <2>1, <2>2
<1>14. ASSUME NEW w \in Worker, RecoveryPasses(w) PROVE \A v \in Worker : CircuitInv(v)'
  <2>1. /\ OthersKeep(w)
        /\ pc'[w] = pc[w] /\ attempt'[w] = attempt[w]
        /\ wasted'[w] = 0 /\ failure_count'[w] = failure_count[w] /\ recovered'[w]
    BY <1>14, <1>0 DEF OthersKeep, TypeOK, RecoveryPasses
  <2>2. CircuitInv(w)'
    BY <1>0, <1>1, <1>2, <2>1 DEF Cost, CircuitInv, AttemptInRange, WasteIsCounted, Pending, Over
  <2> QED
    BY <1>3, <2>1, <2>2
<1>15. ASSUME NEW w \in Worker, Collect(w) PROVE \A v \in Worker : CircuitInv(v)'
  <2>1. UNCHANGED <<attempt, wasted, failure_count, recovered>>
    BY <1>15 DEF Collect
  <2>2. \A v \in Worker : pc'[v] = pc[v] \/ pc'[v] = "cancelled"
    BY <1>15, <1>0 DEF Collect, TypeOK
  <2>3. ASSUME NEW v \in Worker PROVE CircuitInv(v)'
    <3>1. CASE pc'[v] = pc[v]
      BY <1>0, <2>1, <3>1, Frame
    <3>2. CASE pc'[v] = "cancelled"
      BY <1>0, <1>1, <1>2, <2>1, <3>2 DEF Cost, CircuitInv, AttemptInRange, WasteIsCounted,
         Pending, Over
    <3> QED
      BY <2>2, <3>1, <3>2
  <2> QED
    BY <2>3
<1>16. ASSUME StartCall PROVE \A v \in Worker : CircuitInv(v)'
  BY <1>4, <1>16 DEF StartCall
<1>17. ASSUME NEW c \in running, Execute(c) PROVE \A v \in Worker : CircuitInv(v)'
  <2>0. UNCHANGED <<attempt, wasted, failure_count, recovered>>
    BY <1>17 DEF Execute
  <2>1. CASE pc' = pc
    BY <1>4, <2>0, <2>1
  <2>2. CASE pc' # pc
    <3> DEFINE w == c.worker
    <3>1. w \in Worker
      BY <1>0 DEF TypeOK, Call
    <3>2. pc[w] = "await" /\ pc' = [pc EXCEPT ![w] = "answered"]
      BY <1>17, <2>2 DEF Execute
    <3>3. OthersKeep(w) /\ pc'[w] = "answered"
      BY <1>0, <2>0, <3>1, <3>2 DEF OthersKeep, TypeOK
    <3> HIDE DEF w
    <3>4. CircuitInv(w)'
      BY <1>0, <1>1, <1>2, <2>0, <3>1, <3>2, <3>3 DEF Cost, CircuitInv, AttemptInRange,
         WasteIsCounted, Pending, Over
    <3> QED
      BY <1>3, <3>1, <3>3, <3>4
  <2> QED
    BY <2>1, <2>2
<1>18. ASSUME DeadlinePasses PROVE \A v \in Worker : CircuitInv(v)'
  BY <1>4, <1>18 DEF DeadlinePasses
<1>19. ASSUME CollectTimesOut PROVE \A v \in Worker : CircuitInv(v)'
  BY <1>4, <1>19 DEF CollectTimesOut
<1>20. ASSUME UNCHANGED vars PROVE \A v \in Worker : CircuitInv(v)'
  BY <1>4, <1>20 DEF vars
<1> QED
  BY <1>5, <1>6, <1>7, <1>8, <1>9, <1>10, <1>11, <1>12, <1>13, <1>14, <1>15, <1>16, <1>17,
     <1>18, <1>19, <1>20 DEF Next, Group

\* Every step keeps what was collected.
LEMMA EvidenceStep ==
  ASSUME IInv, [Next]_vars PROVE CollectedIsEvidence'
<1> USE DEF IInv, groupVars, poolVars, circuitVars, mainVars
<1>1. ASSUME mainVars' = mainVars,
             \A v \in Worker : pc[v] \in {"done", "raised"} => pc'[v] = pc[v],
             \A v \in Worker : results'[v] = results[v] \/ pc[v] \notin {"done", "raised"},
             \A v \in Worker : pc'[v] = "done" => results'[v] > 0
      PROVE  CollectedIsEvidence'
  BY <1>1 DEF CollectedIsEvidence, TypeOK
<1>2. ASSUME NEW w \in Worker, EndStep(w), mainVars' = mainVars, pc[w] \notin {"done", "raised"}
      PROVE  CollectedIsEvidence'
  <2>1. results[w] \in Nat
    BY DEF TypeOK
  <2>2. /\ pc'[w] \in {"precheck", "done"} /\ results'[w] = results[w] + 1
        /\ \A v \in Worker : v # w => pc'[v] = pc[v] /\ results'[v] = results[v]
    BY <1>2, EndStepEffect
  <2>3. \A v \in Worker : pc'[v] = "done" => results'[v] > 0
    BY <2>1, <2>2 DEF CollectedIsEvidence
  <2> QED
    BY <1>1, <1>2, <2>2, <2>3
<1>3. ASSUME NEW w \in Worker, StartGroup(w) PROVE CollectedIsEvidence'
  BY <1>1, <1>3 DEF StartGroup, CollectedIsEvidence, TypeOK
<1>4. ASSUME NEW w \in Worker, GroupRaises(w) PROVE CollectedIsEvidence'
  BY <1>1, <1>4 DEF GroupRaises, CollectedIsEvidence, TypeOK
<1>5. ASSUME NEW w \in Worker, _check_call_preconditions(w) PROVE CollectedIsEvidence'
  <2>1. CASE EndStep(w)
    BY <1>2, <1>5, <2>1 DEF _check_call_preconditions
  <2>2. CASE ~EndStep(w)
    BY <1>1, <1>5, <2>2 DEF _check_call_preconditions, CollectedIsEvidence, TypeOK
  <2> QED
    BY <2>1, <2>2
<1>6. ASSUME NEW w \in Worker, SkipUnregistered(w) PROVE CollectedIsEvidence'
  BY <1>2, <1>6 DEF SkipUnregistered
<1>7. ASSUME NEW w \in Worker, CallReturns(w) PROVE CollectedIsEvidence'
  BY <1>2, <1>7 DEF CallReturns
<1>8. ASSUME NEW w \in Worker, CallFails(w) PROVE CollectedIsEvidence'
  BY <1>2, <1>8 DEF CallFails
<1>9. ASSUME NEW w \in Worker, BudgetExhausted(w) PROVE CollectedIsEvidence'
  <2>1. /\ pc[w] = "record" /\ pc'[w] = "done" /\ results'[w] = results[w] + 1
        /\ results[w] \in Nat /\ mainVars' = mainVars
        /\ \A v \in Worker : v # w => pc'[v] = pc[v] /\ results'[v] = results[v]
    BY <1>9 DEF BudgetExhausted, TypeOK
  <2> QED
    BY <1>1, <2>1 DEF CollectedIsEvidence
<1>10. ASSUME NEW w \in Worker, Attempt(w) PROVE CollectedIsEvidence'
  BY <1>1, <1>10 DEF Attempt, Submit, CollectedIsEvidence, TypeOK
<1>11. ASSUME NEW w \in Worker, CallTimesOut(w) PROVE CollectedIsEvidence'
  BY <1>1, <1>11 DEF CallTimesOut, CollectedIsEvidence, TypeOK
<1>12. ASSUME NEW w \in Worker, RecoveryPasses(w) PROVE CollectedIsEvidence'
  BY <1>1, <1>12 DEF RecoveryPasses, CollectedIsEvidence, TypeOK
<1>13. ASSUME StartCall PROVE CollectedIsEvidence'
  BY <1>1, <1>13 DEF StartCall, CollectedIsEvidence
<1>14. ASSUME DeadlinePasses PROVE CollectedIsEvidence'
  BY <1>1, <1>14 DEF DeadlinePasses, CollectedIsEvidence
<1>15. ASSUME NEW c \in running, Execute(c) PROVE CollectedIsEvidence'
  BY <1>1, <1>15 DEF Execute, CollectedIsEvidence, TypeOK, Call
<1>16. ASSUME CollectTimesOut PROVE CollectedIsEvidence'
  BY <1>16 DEF CollectTimesOut, CollectedIsEvidence
<1>17. ASSUME NEW w \in Worker, Collect(w) PROVE CollectedIsEvidence'
  <2>1. /\ main = "collecting" /\ pc[w] \in {"done", "raised"}
        /\ collected' = collected \union {w} /\ results' = results
        /\ evidence' = IF pc[w] = "done" THEN [evidence EXCEPT ![w] = results[w]] ELSE evidence
        /\ main' = IF escalated' \/ collected' = Worker THEN "returned" ELSE "collecting"
    BY <1>17 DEF Collect, Take
  <2>2. \A v \in Worker : /\ pc[v] \in {"done", "raised"} => pc'[v] = pc[v]
                          /\ pc'[v] = "done" => pc[v] = "done"
    BY <1>17 DEF Collect, TypeOK
  <2>3. \A v \in Worker : pc'[v] = "done" => results'[v] > 0
    BY <2>1, <2>2 DEF CollectedIsEvidence
  <2>4. \A v \in collected' : pc'[v] \in {"done", "raised"}
    BY <2>1, <2>2 DEF CollectedIsEvidence, TypeOK
  <2>5. \A v \in collected' : pc'[v] = "done" => evidence'[v] = results'[v]
    BY <2>1, <2>2 DEF CollectedIsEvidence, TypeOK
  <2>6. /\ main' = "collecting" => ~escalated'
        /\ main' = "returned" /\ ~escalated' => collected' = Worker
    BY <2>1
  <2> QED
    BY <2>3, <2>4, <2>5, <2>6 DEF CollectedIsEvidence
<1>18. ASSUME UNCHANGED vars PROVE CollectedIsEvidence'
  BY <1>1, <1>18 DEF vars, CollectedIsEvidence
<1> QED
  BY <1>3, <1>4, <1>5, <1>6, <1>7, <1>8, <1>9, <1>10, <1>11, <1>12, <1>13, <1>14, <1>15, <1>16,
     <1>17, <1>18 DEF Next, Group

\* IInv is an invariant of every playbook.
THEOREM Invariance == Spec => []IInv
<1>1. IInv /\ [Next]_vars => IInv'
  BY TypeStep, CircuitStep, EvidenceStep, TypeParts
     DEF IInv, TypeOK, GroupTypes, PoolTypes, RestTypes
<1> QED
  BY <1>1, InitInv, PTL DEF Spec

\* Budget, pool, circuits and main thread keep their types: in particular no
\* interleaving of the groups makes more calls than the budget allows.
THEOREM TypeCorrectness == Spec => []TypeOK
<1>1. IInv => TypeOK
  BY DEF IInv
<1> QED
  BY <1>1, Invariance, PTL

\* No attempt of _call_worker is made or waited for on an open circuit.
THEOREM CircuitsProtect == Spec => []OpenCircuitBlocks
<1>1. IInv => OpenCircuitBlocks
  BY PlaybookAssumption DEF IInv, TypeOK, CircuitInv, OpenCircuitBlocks, is_open
<1> QED
  BY <1>1, Invariance, PTL

\* A worker that does not answer is called at most Threshold * (MaxRetries + 1)
\* times between two recoveries, for any threshold and number of retries.
THEOREM HungWorkersAreBounded == Spec => []HungWorkerBounded
<1>1. Cost(Threshold) = Threshold * (MaxRetries + 1)
  BY PlaybookAssumption DEF Cost
<1>2. IInv => HungWorkerBounded
  BY <1>1 DEF IInv, CircuitInv, HungWorkerBounded
<1> QED
  BY <1>2, Invariance, PTL

\* The budget's counter is the number of calls made.
CallsAreCounted == IsFiniteSet(Made) /\ Cardinality(Made) = calls_made

\* At the start there are none.
LEMMA NothingMade == Init => CallsAreCounted
<1> SUFFICES ASSUME Init PROVE CallsAreCounted
  OBVIOUS
<1>1. Made = {}
  BY DEF Init, Made, Call
<1> QED
  BY <1>1, FS_EmptySet DEF CallsAreCounted, Init

\* An attempt makes one call and counts one; no other step makes or counts any.
LEMMA CountStep ==
  ASSUME IInv, CallsAreCounted, [Next]_vars PROVE CallsAreCounted'
<1>1. ASSUME UNCHANGED <<calls_made, submitted>> PROVE CallsAreCounted'
  BY <1>1 DEF CallsAreCounted, Made
<1>2. ASSUME NEW w \in Worker, Attempt(w) PROVE CallsAreCounted'
  <2> DEFINE new == [worker |-> w, number |-> submitted[w] + 1]
  <2>1. /\ calls_made < MaxToolCalls /\ calls_made' = calls_made + 1
        /\ submitted' = [submitted EXCEPT ![w] = submitted[w] + 1]
    BY <1>2 DEF Attempt, try_record, Submit
  <2>2. /\ submitted \in [Worker -> 0..MaxToolCalls] /\ submitted[w] <= calls_made
        /\ calls_made \in Nat /\ MaxToolCalls \in Nat
    BY PlaybookAssumption DEF IInv, TypeOK, CallsArePaid
  <2>3. new \in Call /\ new \notin Made
    BY <2>1, <2>2 DEF Call, Made
  <2>4. Made' = Made \union {new}
    <3>1. ASSUME NEW c \in Call
          PROVE  c.number <= submitted'[c.worker] <=> c.number <= submitted[c.worker] \/ c = new
      <4>1. c.worker \in Worker /\ c.number \in 1..MaxToolCalls
            /\ c = [worker |-> c.worker, number |-> c.number]
        BY DEF Call
      <4>2. CASE c.worker = w
        <5>1. c = new <=> c.number = submitted[w] + 1
          BY <4>1, <4>2
        <5>2. submitted'[w] = submitted[w] + 1 /\ submitted[w] \in Nat /\ c.number \in Nat
          BY <2>1, <2>2, <4>1
        <5> QED
          BY <4>2, <5>1, <5>2
      <4>3. CASE c.worker # w
        BY <2>1, <2>2, <4>1, <4>3
      <4> QED
        BY <4>2, <4>3
    <3> QED
      BY <2>3, <3>1 DEF Made
  <2> QED
    BY <2>1, <2>2, <2>3, <2>4, FS_AddElement DEF CallsAreCounted
<1>3. (\E w \in Worker : Attempt(w)) \/ UNCHANGED <<calls_made, submitted>>
  BY DEF Next, Group, StartGroup, _check_call_preconditions, SkipUnregistered, GroupRaises,
     BudgetExhausted, CallReturns, CallTimesOut, CallFails, RecoveryPasses, Collect, StartCall,
     Execute, DeadlinePasses, CollectTimesOut, vars, poolVars
<1> QED
  BY <1>1, <1>2, <1>3

\* For any number of workers and retries the calls made stay within the budget.
THEOREM BudgetIsKept == Spec => []BudgetHolds
<1>1. IInv /\ CallsAreCounted => BudgetHolds
  BY PlaybookAssumption DEF IInv, TypeOK, CallsAreCounted, BudgetHolds
<1>2. IInv /\ CallsAreCounted /\ [Next]_vars => CallsAreCounted'
  BY CountStep
<1> QED
  BY <1>1, <1>2, NothingMade, Invariance, PTL DEF Spec

\* Open circuits are left alone, a hung worker costs a bounded number of calls and
\* all groups together keep to the budget.
THEOREM WorkersCannotExhaust == Spec => []WorkersAreContained
<1>1. OpenCircuitBlocks /\ HungWorkerBounded /\ BudgetHolds => WorkersAreContained
  BY DEF WorkersAreContained
<1> QED
  BY <1>1, CircuitsProtect, HungWorkersAreBounded, BudgetIsKept, PTL

\* A playbook that returns without an escalation has the results of every group
\* that did not raise.
THEOREM NoResultIsLost == Spec => []EvidenceComplete
<1>1. IInv => EvidenceComplete
  BY DEF IInv, TypeOK, CollectedIsEvidence, EvidenceComplete
<1> QED
  BY <1>1, Invariance, PTL

\* An answer goes to the attempt that waits for it, never to a later one.
THEOREM AnswersGoToTheirCall == Spec => AnswersMatch
<1>1. ASSUME IInv, [Next]_vars, NEW w \in Worker,
             answer'[w] # "none", answer'[w] # answer[w]
      PROVE  [worker |-> w, number |-> submitted[w]] \in running \ running'
  <2>1. PICK c \in running : Execute(c)
    BY <1>1 DEF Next, Group, StartGroup, _check_call_preconditions, SkipUnregistered, Attempt,
       Submit, BudgetExhausted, CallReturns, CallTimesOut, CallFails, GroupRaises, RecoveryPasses,
       Collect, StartCall, DeadlinePasses, CollectTimesOut, vars, poolVars, IInv, TypeOK
  <2>2. c \in Call
    BY <1>1, <2>1 DEF IInv, TypeOK
  <2>3. c.worker = w /\ c.number = awaits[w]
    BY <1>1, <2>1, <2>2 DEF Execute, IInv, TypeOK, Call
  <2>4. awaits[w] = submitted[w]
    BY <1>1, <2>2, <2>3 DEF IInv, AwaitsLast, Call
  <2>5. c = [worker |-> w, number |-> submitted[w]]
    BY <2>2, <2>3, <2>4 DEF Call
  <2> QED
    BY <2>1, <2>5 DEF Execute
<1>2. IInv /\ [Next]_vars =>
        [\A w \in Worker : answer'[w] # "none" /\ answer'[w] # answer[w]
           => [worker |-> w, number |-> submitted[w]] \in running \ running']_vars
  BY <1>1
<1> QED
  BY <1>2, Invariance, PTL DEF Spec, AnswersMatch
=============================================================================
