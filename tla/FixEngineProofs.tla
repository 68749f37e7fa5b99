-------------------------- MODULE FixEngineProofs --------------------------
(* Theorems about FixEngine, for any sets of fixes and operators, and about *)
(* VerificationLoop, the watch on a service that follows a fix.             *)
EXTENDS FixEngine, VerificationLoop, SequenceTheorems, TLAPS

\* Patching a dashboard ring yields a dashboard ring.
LEMMA PatchType ==
  ASSUME NEW r \in Seq(Outcome), NEW b \in BOOLEAN
  PROVE  PatchApplied(r, b) \in Seq(Outcome) /\ PatchVerified(r, b) \in Seq(Outcome)
<1>1. CASE r = <<>>
  BY <1>1 DEF PatchApplied, PatchVerified
<1>2. CASE r # <<>>
  <2>1. 1 \in 1..Len(r) /\ r[1] \in Outcome
    BY <1>2
  <2>2. /\ [r[1] EXCEPT !.applied = b] \in Outcome
        /\ [r[1] EXCEPT !.verified = b] \in Outcome
    BY <2>1 DEF Outcome
  <2>3. /\ [r EXCEPT ![1] = [r[1] EXCEPT !.applied = b]] \in Seq(Outcome)
        /\ [r EXCEPT ![1] = [r[1] EXCEPT !.verified = b]] \in Seq(Outcome)
    BY <2>1, <2>2, ExceptSeq
  <2>4. QED BY <1>2, <2>3 DEF PatchApplied, PatchVerified
<1>3. QED BY <1>1, <1>2

----------------------------------------------------------------------------
(* The inductive invariant.  The properties of interest are about calls; what *)
(* carries them is who holds the event loop and what it knows of the object   *)
(* it works on, which no other actor can disturb before the loop is given up. *)

\* The slot is filled before anyone reads it, and a request knows its actor.
SlotInv ==
  /\ \A f \in Fix : status[f] # "unborn" => current \in Fix
  /\ current \in Fix => status[current] # "unborn"
  /\ pc # "idle" => actor \in Operator /\ current \in Fix
  /\ pc \in {"doapply", "finish"} => obj \in Fix

\* What is known of the fix that the request at pc is about to apply.
RequestInv ==
  /\ pc \in {"construct", "apply"} /\ status[current] = "approved"
       => approvedBy[current] = actor
  /\ pc \in {"doapply", "finish"} =>
       /\ status[obj] = "applying"
       /\ approvedBy[obj] = actor
       /\ appliedBy[obj] = actor
  /\ pc = "doapply" => calls[obj] = 0
  /\ pc = "finish" /\ outcome = "ok" /\ obj \in Automated => calls[obj] = 1
  /\ \A f \in Fix : status[f] = "applying" => pc \in {"doapply", "finish"} /\ obj = f

\* A fix that may still be applied has not been; a rejected one never may.
CallInv ==
  /\ \A f \in Fix : status[f] \in {"unborn", "proposed", "approved"} => calls[f] = 0
  /\ \A f \in rejected : status[f] \notin {"unborn", "proposed", "approved", "applying"}

\* The endpoint's verification loops belong to fixes that went through apply_fix.
WatchInv ==
  /\ \A f \in Fix : watch[<<"bff", f>>] # "none" =>
       /\ status[f] \notin {"unborn", "proposed", "approved", "applying"}
       /\ appliedBy[f] # NoActor
       /\ f \in Automated => calls[f] = 1
  /\ \A f \in Fix : <<"bff", f>> \in closers => watch[<<"bff", f>>] # "none"

IInv ==
  /\ TypeOK /\ SlotInv /\ RequestInv /\ CallInv /\ WatchInv
  /\ CalledOnlyWithApproval /\ CalledAtMostOnce

\* Every step preserves the invariant: a request is disturbed only by a new
\* proposal, which takes the slot and leaves the object being applied alone.
LEMMA InductiveStep == IInv /\ [Next]_vars => IInv'
<1> SUFFICES ASSUME IInv, [Next]_vars PROVE IInv'
  OBVIOUS
<1> USE FixAssumption, OperatorAssumption, EnvironmentAssumption
<1> USE DEF IInv, TypeOK, SlotInv, RequestInv, CallInv, WatchInv, CalledOnlyWithApproval,
        CalledAtMostOnce, Watches, Starter, WatchPhase, FixStatus, engineVars, loopVars, envVars
<1>1. ASSUME NEW f \in Fix, Propose(f) PROVE IInv'
  BY <1>1 DEF Propose, StoreProposal
<1>2. ASSUME NEW f \in Fix, DispatchWatch(f) PROVE IInv'
  BY <1>2 DEF DispatchWatch
<1>3. ASSUME NEW f \in Fix, RecordOutcome(f) PROVE IInv'
  BY <1>3 DEF RecordOutcome, Outcome
<1>4. ASSUME NEW f \in Fix, StartVerification(f) PROVE IInv'
  BY <1>4 DEF StartVerification
<1>5. ASSUME NEW op \in Operator, Reject(op) PROVE IInv'
  BY <1>5 DEF Reject, MarkRejected, FixInSlot
<1>6. ASSUME NEW op \in Operator, ApplyRequest(op) PROVE IInv'
  BY <1>6 DEF ApplyRequest, FixInSlot
<1>7. ASSUME Approve PROVE IInv'
  <2>1. TypeOK'
    <3>1. CASE status[current] = "proposed"
      <4>1. current \in Fix /\ actor \in Operator
        BY <1>7 DEF Approve
      <4>2. status' \in [Fix -> FixStatus \cup {"unborn"}]
        BY <1>7, <3>1, <4>1 DEF Approve
      <4>3. approvedBy' \in [Fix -> Operator \cup {NoActor}]
        BY <1>7, <3>1, <4>1 DEF Approve
      <4>4. QED BY <1>7, <3>1, <4>1, <4>2, <4>3 DEF Approve
    <3>2. CASE status[current] # "proposed"
      BY <1>7, <3>2 DEF Approve, Return
    <3>3. QED BY <3>1, <3>2
  <2>2. SlotInv'
    BY <1>7 DEF Approve, Return
  <2>3. RequestInv'
    BY <1>7 DEF Approve, Return
  <2>4. CallInv'
    BY <1>7 DEF Approve, Return
  <2>5. WatchInv'
    BY <1>7 DEF Approve, Return
  <2>6. CalledOnlyWithApproval'
    BY <1>7 DEF Approve, Return
  <2>7. CalledAtMostOnce'
    BY <1>7 DEF Approve, Return
  <2>8. QED BY <2>1, <2>2, <2>3, <2>4, <2>5, <2>6, <2>7
<1>8. ASSUME ConstructWorkers PROVE IInv'
  BY <1>8 DEF ConstructWorkers, Return
<1>9. ASSUME BeginApply PROVE IInv'
  <2>1. TypeOK'
    <3>1. CASE status[current] = "approved"
      <4>1. current \in Fix /\ actor \in Operator
        BY <1>9 DEF BeginApply
      <4>2. status' \in [Fix -> FixStatus \cup {"unborn"}]
        BY <1>9, <3>1, <4>1 DEF BeginApply
      <4>3. appliedBy' \in [Fix -> Operator \cup {NoActor}]
        BY <1>9, <3>1, <4>1 DEF BeginApply
      <4>4. QED BY <1>9, <3>1, <4>1, <4>2, <4>3 DEF BeginApply
    <3>2. CASE status[current] # "approved"
      BY <1>9, <3>2 DEF BeginApply, Return
    <3>3. QED BY <3>1, <3>2
  <2>2. SlotInv'
    BY <1>9 DEF BeginApply, Return
  <2>3. RequestInv'
    BY <1>9 DEF BeginApply, Return
  <2>4. CallInv'
    BY <1>9 DEF BeginApply, Return
  <2>5. WatchInv'
    BY <1>9 DEF BeginApply, Return
  <2>6. CalledOnlyWithApproval'
    BY <1>9 DEF BeginApply, Return
  <2>7. CalledAtMostOnce'
    BY <1>9 DEF BeginApply, Return
  <2>8. QED BY <2>1, <2>2, <2>3, <2>4, <2>5, <2>6, <2>7
<1>10. ASSUME DoApply PROVE IInv'
  <2>1. TypeOK'
    BY <1>10 DEF DoApply
  <2>2. SlotInv'
    BY <1>10 DEF DoApply
  <2>3. RequestInv'
    BY <1>10 DEF DoApply
  <2>4. CallInv'
    BY <1>10 DEF DoApply
  <2>5. WatchInv'
    BY <1>10 DEF DoApply
  <2>6. CalledOnlyWithApproval'
    BY <1>10 DEF DoApply
  <2>7. CalledAtMostOnce'
    BY <1>10 DEF DoApply
  <2>8. QED BY <2>1, <2>2, <2>3, <2>4, <2>5, <2>6, <2>7
<1>11. ASSUME FinishApply PROVE IInv'
  <2>1. PatchApplied(ring, outcome = "ok") \in Seq(Outcome)
    BY PatchType
  <2>2. TypeOK'
    BY <2>1, <1>11 DEF FinishApply, Return
  <2>3. SlotInv'
    BY <1>11 DEF FinishApply, Return
  <2>4. RequestInv'
    BY <1>11 DEF FinishApply, Return
  <2>5. CallInv'
    BY <1>11 DEF FinishApply, Return
  <2>6. WatchInv'
    BY <1>11 DEF FinishApply, Return
  <2>7. CalledOnlyWithApproval'
    BY <1>11 DEF FinishApply, Return
  <2>8. CalledAtMostOnce'
    BY <1>11 DEF FinishApply, Return
  <2>9. QED BY <2>2, <2>3, <2>4, <2>5, <2>6, <2>7, <2>8
<1>12. ASSUME NEW w \in Watches, CloseTicket(w) PROVE IInv'
  BY <1>12 DEF CloseTicket
<1>13. ASSUME NEW w \in Watches, ReportSuccess(w) PROVE IInv'
  <2>1. PatchVerified(ring, TRUE) \in Seq(Outcome)
    BY PatchType
  <2>2. TypeOK'
    BY <2>1, <1>13 DEF ReportSuccess, MarkVerified
  <2>3. SlotInv'
    BY <1>13 DEF ReportSuccess, MarkVerified
  <2>4. RequestInv'
    BY <1>13 DEF ReportSuccess, MarkVerified
  <2>5. CallInv'
    BY <1>13 DEF ReportSuccess, MarkVerified
  <2>6. WatchInv'
    BY <1>13 DEF ReportSuccess, MarkVerified
  <2>7. CalledOnlyWithApproval'
    BY <1>13 DEF ReportSuccess, MarkVerified
  <2>8. CalledAtMostOnce'
    BY <1>13 DEF ReportSuccess, MarkVerified
  <2>9. QED BY <2>2, <2>3, <2>4, <2>5, <2>6, <2>7, <2>8
<1>14. ASSUME NEW w \in Watches, ReportFailure(w) PROVE IInv'
  <2>1. PatchVerified(ring, FALSE) \in Seq(Outcome)
    BY PatchType
  <2>2. TypeOK'
    BY <2>1, <1>14 DEF ReportFailure, MarkFailedVerification
  <2>3. SlotInv'
    BY <1>14 DEF ReportFailure, MarkFailedVerification
  <2>4. RequestInv'
    BY <1>14 DEF ReportFailure, MarkFailedVerification
  <2>5. CallInv'
    BY <1>14 DEF ReportFailure, MarkFailedVerification
  <2>6. WatchInv'
    BY <1>14 DEF ReportFailure, MarkFailedVerification
  <2>7. CalledOnlyWithApproval'
    BY <1>14 DEF ReportFailure, MarkFailedVerification
  <2>8. CalledAtMostOnce'
    BY <1>14 DEF ReportFailure, MarkFailedVerification
  <2>9. QED BY <2>2, <2>3, <2>4, <2>5, <2>6, <2>7, <2>8
<1>15. CASE UNCHANGED vars
  BY <1>15 DEF vars
<1>16. QED
  BY <1>1, <1>2, <1>3, <1>4, <1>5, <1>6, <1>7, <1>8, <1>9, <1>10, <1>11, <1>12, <1>13,
     <1>14, <1>15 DEF Next, ApplySteps, WatchSteps

\* The invariant holds of a freshly constructed engine.
LEMMA InitInv == Init => IInv
BY FixAssumption, OperatorAssumption, EmptySeq
   DEF Init, IInv, TypeOK, SlotInv, RequestInv, CallInv, WatchInv,
       CalledOnlyWithApproval, CalledAtMostOnce, NoApplication, Watches, Starter,
       WatchPhase, FixStatus

\* The inductive invariant holds in every reachable state.
THEOREM Invariance == Spec => []IInv
BY InitInv, InductiveStep, PTL DEF Spec

\* Every variable stays in its domain, and no operation reads an empty slot.
THEOREM TypeCorrectness == Spec => []TypeOK
<1>1. IInv => TypeOK
  BY DEF IInv
<1>2. QED BY <1>1, Invariance, PTL

\* Nothing reaches the devops worker without the approval of the operator in
\* whose name it is applied, for any number of fixes and operators.
THEOREM ApprovalIsRequired == Spec => []CalledOnlyWithApproval
<1>1. IInv => CalledOnlyWithApproval
  BY DEF IInv
<1>2. QED BY <1>1, Invariance, PTL

\* No fix is applied twice.
THEOREM NoDoubleApply == Spec => []CalledAtMostOnce
<1>1. IInv => CalledAtMostOnce
  BY DEF IInv
<1>2. QED BY <1>1, Invariance, PTL

\* What reaches the devops worker was approved, in the name it is applied in, and
\* reaches it once.
THEOREM OneApplyPerApproval == Spec => []CalledOnceApproved
<1>1. CalledOnlyWithApproval /\ CalledAtMostOnce => CalledOnceApproved
  BY DEF CalledOnceApproved
<1>2. QED BY <1>1, ApprovalIsRequired, NoDoubleApply, PTL

\* apply_fix never leaves a fix APPLYING behind.
THEOREM ApplyResolves == Spec => []NoApplyingAtRest
<1>1. IInv => NoApplyingAtRest
  BY DEF IInv, RequestInv, NoApplyingAtRest
<1>2. QED BY <1>1, Invariance, PTL

\* The endpoint's verification loop resolves tickets only of applied fixes.
THEOREM BffClosesOnlyApplied == Spec => []BffClosesAfterApply
<1>1. IInv => BffClosesAfterApply
  BY DEF IInv, WatchInv, BffClosesAfterApply
<1>2. QED BY <1>1, Invariance, PTL

\* A rejection is final: no later step applies the fix.
THEOREM RejectionIsFinal == Spec => NoCallAfterRejection
<1>1. IInv /\ [Next]_vars => [\A f \in rejected : calls'[f] = calls[f]]_vars
  <2> SUFFICES ASSUME IInv, Next, NEW f \in rejected PROVE calls'[f] = calls[f]
    OBVIOUS
  <2>1. CASE DoApply
    <3>1. f \in Fix /\ f # obj
      BY <2>1 DEF DoApply, IInv, TypeOK, RequestInv, CallInv
    <3>2. QED BY <2>1, <3>1 DEF DoApply, IInv, TypeOK
  <2>2. CASE ~DoApply
    <3>1. UNCHANGED calls
      BY <2>2 DEF Next, ApplySteps, WatchSteps, Propose, DispatchWatch, RecordOutcome,
         StartVerification, Reject, ApplyRequest, Approve, ConstructWorkers,
         BeginApply, FinishApply, CloseTicket, ReportSuccess, ReportFailure, envVars
    <3>2. QED BY <3>1
  <2>3. QED BY <2>1, <2>2
<1>2. QED BY <1>1, Invariance, PTL DEF Spec, NoCallAfterRejection

----------------------------------------------------------------------------
(* FixEngine implements ApprovalGate *)

\* A step that changes the status of at most one fix, and no approval or call,
\* leaves the gate alone or closes that fix, unless it opens it.
LEMMA StatusStep ==
  ASSUME IInv, IInv', UNCHANGED <<approvedBy, appliedBy, calls>>,
         NEW f \in Fix, NEW v \in FixStatus \ {"proposed", "approved", "applying"},
         status' = [status EXCEPT ![f] = v], status[f] # "unborn"
  PROVE  AG!Close(f) \/ UNCHANGED AG!gateVars
<1> USE DEF IInv, TypeOK, FixStatus, GateOf
<1>1. /\ \A g \in Fix \ {f} : GateOf(g)' = GateOf(g)
      /\ GateOf(f)' = IF calls[f] > 0 THEN "executed" ELSE "closed"
  OBVIOUS
<1>2. GateOf(f) \in {"offered", "granted", "executed", "closed"}
  OBVIOUS
<1>3. UNCHANGED [g \in Fix |-> IF calls[g] > 0 THEN appliedBy[g] ELSE NoActor]
  OBVIOUS
<1>4. CASE GateOf(f) \in {"offered", "granted"}
  <2>1. GateOf(f)' = "closed"
    BY <1>1, <1>4
  <2>2. QED BY <1>1, <1>3, <1>4, <2>1 DEF AG!Close
<1>5. CASE GateOf(f) \in {"executed", "closed"}
  <2>1. GateOf(f)' = GateOf(f)
    BY <1>1, <1>5
  <2>2. QED BY <1>1, <1>3, <2>1 DEF AG!gateVars
<1>6. QED BY <1>2, <1>4, <1>5

\* A step that leaves every status, approval and call alone leaves the gate alone.
LEMMA QuietStep ==
  ASSUME UNCHANGED <<status, approvedBy, appliedBy, calls>>
  PROVE  UNCHANGED AG!gateVars
BY DEF AG!gateVars, GateOf

\* Every step of FixEngine is a step of ApprovalGate or leaves it alone.
THEOREM RefinesGate == Spec => ImplementsGate
<1>1. Init => AG!GateInit
  BY DEF Init, AG!GateInit, GateOf
<1>2. IInv /\ IInv' /\ [Next]_vars => [AG!GateNext]_(AG!gateVars)
  <2> SUFFICES ASSUME IInv, IInv', [Next]_vars
               PROVE  AG!GateNext \/ UNCHANGED AG!gateVars
    OBVIOUS
  <2>1. ASSUME NEW f \in Fix, Propose(f) PROVE AG!Offer(f)
    <3>1. /\ \A g \in Fix \ {f} : GateOf(g)' = GateOf(g)
          /\ GateOf(f) = "none" /\ GateOf(f)' = "offered"
      BY <2>1 DEF Propose, StoreProposal, IInv, TypeOK, CallInv, GateOf, envVars
    <3>2. UNCHANGED <<approvedBy, [g \in Fix |-> IF calls[g] > 0 THEN appliedBy[g] ELSE NoActor]>>
      BY <2>1 DEF Propose, envVars
    <3>3. QED BY <3>1, <3>2 DEF AG!Offer
  <2>2. ASSUME NEW f \in Fix, DispatchWatch(f) \/ RecordOutcome(f) PROVE UNCHANGED AG!gateVars
    BY <2>2, QuietStep DEF DispatchWatch, RecordOutcome, engineVars, envVars
  <2>3. ASSUME NEW op \in Operator, ApplyRequest(op) PROVE UNCHANGED AG!gateVars
    BY <2>3, QuietStep DEF ApplyRequest, engineVars, envVars
  <2>4. ASSUME NEW w \in Watches, CloseTicket(w) PROVE UNCHANGED AG!gateVars
    BY <2>4, QuietStep DEF CloseTicket, engineVars, envVars
  <2>5. CASE ConstructWorkers \/ UNCHANGED vars
    BY <2>5, QuietStep DEF ConstructWorkers, vars, engineVars, envVars
  <2>6. ASSUME NEW f \in Fix, StartVerification(f)
        PROVE  AG!GateNext \/ UNCHANGED AG!gateVars
    <3>1. PICK g \in Fix : g = current /\ status[g] # "unborn"
      BY <2>6 DEF StartVerification, IInv, SlotInv, WatchInv
    <3>2. AG!Close(g) \/ UNCHANGED AG!gateVars
      BY <2>6, <3>1, StatusStep DEF StartVerification, FixStatus, envVars
    <3>3. QED BY <3>2 DEF AG!GateNext
  <2>7. ASSUME NEW op \in Operator, Reject(op)
        PROVE  AG!GateNext \/ UNCHANGED AG!gateVars
    <3>1. PICK g \in Fix : g = current /\ status[g] # "unborn"
      BY <2>7 DEF Reject, FixInSlot, IInv, TypeOK, SlotInv
    <3>2. AG!Close(g) \/ UNCHANGED AG!gateVars
      BY <2>7, <3>1, StatusStep DEF Reject, MarkRejected, FixStatus
    <3>3. QED BY <3>2 DEF AG!GateNext
  <2>8. ASSUME NEW w \in Watches, ReportSuccess(w) \/ ReportFailure(w)
        PROVE  AG!GateNext \/ UNCHANGED AG!gateVars
    <3>1. CASE w[1] = "bff"
      <4>1. PICK f \in Fix : w = <<"bff", f>>
        BY <3>1 DEF Watches, Starter
      <4>2. PICK g \in Fix : g = current /\ status[g] # "unborn"
        BY <2>8, <4>1 DEF ReportSuccess, ReportFailure, IInv, SlotInv, WatchInv
      <4>3. PICK v \in {"verified", "failed"} : status' = [status EXCEPT ![g] = v]
        BY <2>8, <3>1, <4>2
        DEF ReportSuccess, ReportFailure, MarkVerified, MarkFailedVerification
      <4>4. AG!Close(g) \/ UNCHANGED AG!gateVars
        BY <2>8, <4>2, <4>3, StatusStep DEF ReportSuccess, ReportFailure, FixStatus, envVars
      <4>5. QED BY <4>4 DEF AG!GateNext
    <3>2. CASE w[1] # "bff"
      BY <2>8, <3>2, QuietStep DEF ReportSuccess, ReportFailure, envVars
    <3>3. QED BY <3>1, <3>2
  <2>9. CASE Approve
    <3>1. CASE status[current] = "proposed"
      <4>1. PICK f \in Fix, op \in Operator : f = current /\ op = actor /\ calls[f] = 0
        BY <2>9, <3>1 DEF Approve, IInv, SlotInv, CallInv
      <4>2. /\ \A g \in Fix \ {f} : GateOf(g)' = GateOf(g)
            /\ GateOf(f) = "offered" /\ GateOf(f)' = "granted"
        BY <2>9, <3>1, <4>1 DEF Approve, IInv, TypeOK, GateOf, envVars
      <4>3. /\ approvedBy' = [approvedBy EXCEPT ![f] = op]
            /\ UNCHANGED [g \in Fix |-> IF calls[g] > 0 THEN appliedBy[g] ELSE NoActor]
        BY <2>9, <3>1, <4>1 DEF Approve, envVars
      <4>4. AG!Grant(f, op)
        BY <4>2, <4>3 DEF AG!Grant
      <4>5. QED BY <4>4 DEF AG!GateNext
    <3>2. CASE status[current] # "proposed"
      BY <2>9, <3>2, QuietStep DEF Approve, envVars
    <3>3. QED BY <3>1, <3>2
  <2>10. CASE BeginApply
    <3>1. CASE status[current] = "approved"
      <4>1. current \in Fix /\ calls[current] = 0
        BY <2>10, <3>1 DEF BeginApply, IInv, SlotInv, CallInv
      <4>2. \A g \in Fix : GateOf(g)' = GateOf(g)
        BY <2>10, <3>1, <4>1 DEF BeginApply, IInv, TypeOK, GateOf, envVars
      <4>3. UNCHANGED <<approvedBy, [g \in Fix |-> IF calls[g] > 0 THEN appliedBy[g] ELSE NoActor]>>
        BY <2>10, <3>1, <4>1 DEF BeginApply, IInv, TypeOK, envVars
      <4>4. QED BY <4>2, <4>3 DEF AG!gateVars
    <3>2. CASE status[current] # "approved"
      BY <2>10, <3>2, QuietStep DEF BeginApply, envVars
    <3>3. QED BY <3>1, <3>2
  <2>11. CASE DoApply
    <3>1. CASE UNCHANGED calls
      BY <2>11, <3>1, QuietStep DEF DoApply, engineVars
    <3>2. CASE calls' # calls
      <4>1. PICK f \in Fix : /\ f = obj /\ calls[f] = 0 /\ status[f] = "applying"
                             /\ appliedBy[f] = approvedBy[f]
        BY <2>11 DEF DoApply, IInv, SlotInv, RequestInv
      <4>2. /\ calls' = [calls EXCEPT ![f] = @ + 1]
            /\ UNCHANGED <<status, approvedBy, appliedBy>>
        BY <2>11, <3>2, <4>1 DEF DoApply, engineVars
      <4>3. /\ \A g \in Fix \ {f} : calls'[g] = calls[g]
            /\ calls[f] = 0 /\ calls'[f] > 0
        BY <4>1, <4>2 DEF IInv, TypeOK
      <4>4. /\ \A g \in Fix \ {f} : GateOf(g)' = GateOf(g)
            /\ GateOf(f) = "granted" /\ GateOf(f)' = "executed"
        BY <4>1, <4>2, <4>3 DEF GateOf
      <4>5. AG!Execute(f)
        BY <4>1, <4>2, <4>3, <4>4 DEF AG!Execute
      <4>6. QED BY <4>5 DEF AG!GateNext
    <3>3. QED BY <3>1, <3>2
  <2>12. CASE FinishApply
    <3>1. PICK f \in Fix : f = obj /\ status[f] = "applying"
      BY <2>12 DEF FinishApply, IInv, SlotInv, RequestInv
    <3>2. /\ status' = [status EXCEPT ![f] = "failed"]
             \/ status' = [status EXCEPT ![f] = "applied"]
          /\ UNCHANGED <<approvedBy, appliedBy, calls>>
      BY <2>12, <3>1 DEF FinishApply, envVars
    <3>3. AG!Close(f) \/ UNCHANGED AG!gateVars
      BY <3>1, <3>2, StatusStep DEF FixStatus
    <3>4. QED BY <3>3 DEF AG!GateNext
  <2>13. QED
    BY <2>1, <2>2, <2>3, <2>4, <2>5, <2>6, <2>7, <2>8, <2>9, <2>10, <2>11, <2>12
    DEF Next, ApplySteps, WatchSteps, AG!GateNext
<1>3. QED BY <1>1, <1>2, Invariance, PTL DEF Spec, ImplementsGate, AG!GateSpec

----------------------------------------------------------------------------
(* The verification loop *)

WatchTypeOK ==
  /\ phase \in {"polling", "closing", "succeeded", "failed"}
  /\ stable \in 0..polls
  /\ readings \in Seq(Reading) /\ polls <= MaxPolls
  /\ ticket \in BOOLEAN

\* stable_count is the length of the run of stable readings the polls end with, and
\* the threshold is first reached by the poll that ends the loop.
VerdictInv ==
  /\ WatchTypeOK
  /\ \A j \in (polls - stable + 1)..polls : readings[j] = "low"
  /\ stable < polls => readings[polls - stable] = "high"
  /\ \A i \in 1..polls : StableRun(i) => i = polls /\ phase \in {"closing", "succeeded"}
  /\ phase \in {"polling", "failed"} => stable < StableThreshold /\ ~ticket
  /\ phase \in {"closing", "succeeded"} => stable >= StableThreshold
  /\ phase = "failed" => polls = MaxPolls

LEMMA WatchBegins ==
  ASSUME MaxPolls \in Nat, StableThreshold \in Nat \ {0}, WatchInit
  PROVE  VerdictInv
<1>1. readings \in Seq(Reading) /\ polls = 0
  BY DEF WatchInit, polls
<1>2. WatchTypeOK
  <2>1. stable = 0 /\ ticket = FALSE /\ phase = "polling"
    BY DEF WatchInit
  <2>2. stable \in 0..polls /\ polls <= MaxPolls
    BY <1>1, <2>1
  <2> QED
    BY <1>1, <2>1, <2>2 DEF WatchTypeOK
<1>3. \A i \in 1..polls : FALSE
  BY <1>1
<1>4. \A j \in (polls - stable + 1)..polls : FALSE
  BY <1>1 DEF WatchInit
<1> QED
  BY <1>1, <1>2, <1>3, <1>4 DEF WatchInit, VerdictInv

LEMMA PollStep ==
  ASSUME MaxPolls \in Nat, StableThreshold \in Nat \ {0}, VerdictInv, Poll
  PROVE  VerdictInv'
<1>0. PICK m \in Nat : m = Len(readings)
  BY DEF VerdictInv, WatchTypeOK
<1>1. /\ phase = "polling" /\ m < MaxPolls /\ ticket' = ticket
      /\ m \in Nat /\ stable \in 0..m /\ readings \in Seq(Reading)
      /\ StableThreshold \in Nat /\ StableThreshold > 0
      /\ MaxPolls \in Nat
      /\ \A j \in (m - stable + 1)..m : readings[j] = "low"
      /\ stable < m => readings[m - stable] = "high"
      /\ \A i \in 1..m : ~StableRun(i)
      /\ stable < StableThreshold /\ ~ticket /\ ticket \in BOOLEAN
  BY <1>0 DEF Poll, VerdictInv, WatchTypeOK, polls
<1>2. PICK r \in Reading :
        /\ readings' = Append(readings, r)
        /\ stable' = NextCount(r = "low")
        /\ phase' = IF ThresholdReached(r = "low") THEN "closing" ELSE "polling"
  <2>1. PICK h \in Health, answered \in Answers :
          LET metrics == CollectMetrics(h, answered)
              ok == CheckStability(metrics)
          IN  /\ readings' = Append(readings, metrics)
              /\ stable' = NextCount(ok)
              /\ phase' = IF ThresholdReached(ok) THEN "closing" ELSE "polling"
    BY DEF Poll
  <2>2. CollectMetrics(h, answered) \in Reading
    BY DEF CollectMetrics, Reading
  <2> QED
    BY <2>1, <2>2 DEF CheckStability
<1>3. /\ readings' \in Seq(Reading) /\ Len(readings') = m + 1 /\ readings'[m + 1] = r
      /\ \A i \in 1..m : readings'[i] = readings[i]
  BY <1>0, <1>1, <1>2
<1>4. \A i \in 1..m : ~(StableRun(i))'
  <2> SUFFICES ASSUME NEW i \in 1..m, StableRun(i)' PROVE FALSE
    OBVIOUS
  <2>1. i >= StableThreshold /\ \A j \in (i - StableThreshold + 1)..i : readings'[j] = "low"
    BY DEF StableRun, RunOf
  <2>2. \A j \in (i - StableThreshold + 1)..i : j \in 1..m
    BY <1>1, <2>1
  <2>3. StableRun(i)
    BY <1>3, <2>1, <2>2 DEF StableRun, RunOf
  <2> QED
    BY <1>1, <2>3
<1>5. CASE r = "low"
  <2>1. /\ stable' = stable + 1
        /\ phase' = IF stable + 1 >= StableThreshold THEN "closing" ELSE "polling"
    BY <1>2, <1>5 DEF NextCount, ThresholdReached
  <2>2. \A j \in (m + 1 - stable' + 1)..(m + 1) : readings'[j] = "low"
    <3> SUFFICES ASSUME NEW j \in (m + 1 - stable' + 1)..(m + 1) PROVE readings'[j] = "low"
      OBVIOUS
    <3>1. j = m + 1 \/ (j \in (m - stable + 1)..m /\ j \in 1..m)
      BY <1>1, <2>1
    <3> QED
      BY <1>1, <1>3, <1>5, <3>1
  <2>3. stable' < m + 1 => readings'[m + 1 - stable'] = "high"
    <3>1. stable < m => m - stable \in 1..m
      BY <1>1
    <3>2. m + 1 - stable' = m - stable /\ (stable' < m + 1 => stable < m)
      BY <1>1, <2>1
    <3> QED
      BY <1>1, <1>3, <3>1, <3>2
  <2>4. ASSUME phase' = "polling", (StableRun(m + 1))' PROVE FALSE
    <3> DEFINE i == m + 1
    <3>1. i >= StableThreshold /\ \A j \in (i - StableThreshold + 1)..i : readings'[j] = "low"
      BY <2>4 DEF StableRun, RunOf
    <3>2. stable + 1 < StableThreshold
      BY <1>1, <2>1, <2>4
    <3>3. stable < m /\ m - stable \in (i - StableThreshold + 1)..i /\ m - stable \in 1..m
      BY <1>1, <3>1, <3>2
    <3> QED
      BY <1>1, <1>3, <3>1, <3>3
  <2>5. \A i \in 1..(m + 1) : (StableRun(i))' => i = m + 1 /\ phase' = "closing"
    <3> SUFFICES ASSUME NEW i \in 1..(m + 1), (StableRun(i))'
                 PROVE  i = m + 1 /\ phase' = "closing"
      OBVIOUS
    <3>1. i = m + 1
      BY <1>1, <1>4
    <3>2. (StableRun(m + 1))'
      BY <3>1
    <3> QED
      BY <2>1, <2>4, <3>1, <3>2
  <2>6. WatchTypeOK'
    BY <1>1, <1>3, <2>1 DEF WatchTypeOK, polls
  <2>7. phase' = "polling" => stable' < StableThreshold /\ ~ticket'
    BY <1>1, <2>1
  <2>8. phase' = "closing" => stable' >= StableThreshold
    BY <1>1, <2>1
  <2> QED
    BY <1>3, <2>1, <2>2, <2>3, <2>5, <2>6, <2>7, <2>8 DEF VerdictInv, polls
<1>6. CASE r # "low"
  <2>1. stable' = 0 /\ phase' = "polling" /\ r = "high"
    BY <1>2, <1>6 DEF NextCount, ThresholdReached, Reading
  <2>2. ~(StableRun(m + 1))'
    BY <1>1, <1>3, <2>1 DEF StableRun, RunOf
  <2>3. \A i \in 1..(m + 1) : ~(StableRun(i))'
    <3> SUFFICES ASSUME NEW i \in 1..(m + 1), (StableRun(i))' PROVE FALSE
      OBVIOUS
    <3>1. i = m + 1
      BY <1>1, <1>4
    <3> QED
      BY <2>2, <3>1
  <2> QED
    BY <1>0, <1>1, <1>2, <1>3, <2>1, <2>3 DEF VerdictInv, WatchTypeOK, polls
<1> QED
  BY <1>5, <1>6

LEMMA VerdictStays ==
  ASSUME MaxPolls \in Nat, StableThreshold \in Nat \ {0}, VerdictInv, [WatchNext]_watchVars
  PROVE  VerdictInv'
<1>1. CASE Poll
  BY <1>1, PollStep
<1>2. CASE CloseSnowTicket \/ Exhausted \/ UNCHANGED watchVars
  <2>1. UNCHANGED <<stable, readings>>
    BY <1>2 DEF CloseSnowTicket, Exhausted, watchVars
  <2>2. polls' = polls /\ \A i : (StableRun(i))' <=> StableRun(i)
    BY <2>1 DEF StableRun, RunOf, polls
  <2> QED
    BY <1>2, <2>1, <2>2
       DEF VerdictInv, WatchTypeOK, CloseSnowTicket, Exhausted, watchVars
<1> QED
  BY <1>1, <1>2 DEF WatchNext

\* A verification watch, whatever its worker registers or answers, succeeds at the
\* first run of enough stable readings and fails only without one: stable_count and
\* the early return of watch() decide as a look back over all its readings would.
THEOREM VerdictFollowsReadings ==
  ASSUME MaxPolls \in Nat, StableThreshold \in Nat \ {0}
  PROVE  WatchSpec => []ReadingsDecide
<1>1. VerdictInv /\ [WatchNext]_watchVars => VerdictInv'
  BY VerdictStays
<1>2. WatchInit => VerdictInv
  BY WatchBegins
<1>3. VerdictInv => ReadingsDecide
  <2> SUFFICES ASSUME VerdictInv PROVE ReadingsDecide
    OBVIOUS
  <2>1. polls \in Nat /\ \A i \in 1..(polls - 1) : i \in 1..polls /\ i # polls
    BY DEF VerdictInv, WatchTypeOK, polls
  <2>2. ASSUME phase = "succeeded" PROVE StableRun(polls)
    <3>1. /\ stable \in 0..polls /\ stable >= StableThreshold
          /\ \A j \in (polls - stable + 1)..polls : readings[j] = "low"
      BY <2>2 DEF VerdictInv, WatchTypeOK
    <3>2. \A j \in (polls - StableThreshold + 1)..polls : j \in (polls - stable + 1)..polls
      BY <2>1, <3>1
    <3> QED
      BY <2>1, <3>1, <3>2 DEF StableRun, RunOf
  <2> QED
    BY <2>1, <2>2 DEF VerdictInv, ReadingsDecide
<1> QED
  BY <1>1, <1>2, <1>3, PTL DEF WatchSpec

\* Every reading so far was stable.
AllLow == VerdictInv /\ stable = polls

\* With a metrics worker that has no handler for get_service_metrics, as the one
\* deployed, no watch of at least STABLE_THRESHOLD polls ever fails, however the
\* service does.
THEOREM NoFailureWithoutHandler ==
  ASSUME MaxPolls \in Nat, StableThreshold \in Nat \ {0}, MaxPolls >= StableThreshold,
         "get_service_metrics" \notin MetricsActions
  PROVE  WatchSpec => [](phase # "failed")
<1>1. WatchInit => AllLow
  BY WatchBegins DEF AllLow, WatchInit, polls
<1>2. AllLow /\ [WatchNext]_watchVars => AllLow'
  <2> SUFFICES ASSUME AllLow, [WatchNext]_watchVars PROVE AllLow'
    OBVIOUS
  <2>1. VerdictInv'
    BY VerdictStays DEF AllLow
  <2>2. CASE Poll
    <3>1. PICK h \in Health, answered \in Answers :
            LET metrics == CollectMetrics(h, answered)
            IN  /\ readings' = Append(readings, metrics)
                /\ stable' = NextCount(CheckStability(metrics))
      BY <2>2 DEF Poll
    <3>2. stable' = stable + 1
      BY <3>1 DEF CollectMetrics, CheckStability, NextCount
    <3>3. readings \in Seq(Reading) /\ CollectMetrics(h, answered) \in Reading
      BY DEF AllLow, VerdictInv, WatchTypeOK, CollectMetrics, Reading
    <3>4. polls' = polls + 1
      BY <3>1, <3>3 DEF polls
    <3> QED
      BY <2>1, <3>2, <3>4 DEF AllLow
  <2>3. CASE CloseSnowTicket \/ Exhausted \/ UNCHANGED watchVars
    BY <2>1, <2>3 DEF AllLow, polls, CloseSnowTicket, Exhausted, watchVars
  <2> QED
    BY <2>2, <2>3 DEF WatchNext
<1>3. AllLow => phase # "failed"
  BY DEF AllLow, VerdictInv, WatchTypeOK
<1> QED
  BY <1>1, <1>2, <1>3, PTL DEF WatchSpec
=============================================================================
