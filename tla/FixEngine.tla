----------------------------- MODULE FixEngine -----------------------------
(***************************************************************************)
(* The life of the fixes proposed for one incident.                        *)
(*                                                                         *)
(* FixEngine keeps its dictionaries by investigation id, and the agent     *)
(* proposes under "inv-<incident>" (InvestigationContext), so every        *)
(* investigation of an incident writes the same slot.  Entries of other    *)
(* slots are never touched by these operations; one slot is modelled.      *)
(*                                                                         *)
(* Actors: agent threads (PersistPhase), the BFF's event loop (the fix     *)
(* endpoints and the verification tasks run on it, one at a time, and give *)
(* it up only at an await that really suspends), and the threads in which  *)
(* PersistPhase starts a verification loop of its own.                     *)
(***************************************************************************)
EXTENDS Naturals, Sequences

CONSTANTS Fix,        \* ProposedFix objects (fix_id is a fresh uuid)
          Automated,  \* those with a rollback, a titled code fix or a scale_up
          Operator,   \* authenticated operators of the AGUI
          NoFix, NoActor,
          Discovery,  \* possible answers to "are the needed tool servers there?"
          Submit      \* possible outcomes of _parallel_executor.submit

ASSUME FixAssumption == NoFix \notin Fix /\ Automated \subseteq Fix
ASSUME OperatorAssumption == NoActor \notin Operator
ASSUME EnvironmentAssumption == Discovery \subseteq BOOLEAN /\ Submit \subseteq BOOLEAN

VARIABLES
  current,     \* FixEngine._fixes[investigation_id]
  status,      \* ProposedFix.status of every object
  approvedBy,  \* ProposedFix.approved_by
  appliedBy,   \* ProposedFix.applied_by
  application, \* FixEngine._applications[investigation_id]: the fix and success
  ring,        \* MetricsDashboard._ring, the entries of this investigation id
  pc, actor, obj, outcome,  \* the apply request that holds the event loop
  watch,       \* phase of each verification loop, by starter and fix
  calls,       \* devops_worker.execute calls made for each fix
  rejected,    \* fixes some operator rejected
  closers      \* verification loops that resolved the ServiceNow ticket

engineVars == <<current, status, approvedBy, appliedBy, application>>
loopVars == <<pc, actor, obj, outcome>>
envVars == <<calls, rejected, closers>>
vars == <<engineVars, ring, loopVars, watch, envVars>>

\* "rolled_back" is declared by the code and never assigned.
FixStatus == {"proposed", "approved", "rejected", "applying", "applied",
              "verifying", "verified", "failed", "rolled_back"}

\* "agent": started by PersistPhase; "bff": by the endpoint after an apply.
Starter == {"agent", "bff"}
Watches == Starter \X Fix
WatchPhase == {"none", "ready", "watching", "reporting", "ended"}

NoApplication == [fix |-> NoFix, success |-> FALSE]

Init ==
  /\ current = NoFix
  /\ status = [f \in Fix |-> "unborn"]
  /\ approvedBy = [f \in Fix |-> NoActor]
  /\ appliedBy = [f \in Fix |-> NoActor]
  /\ application = NoApplication
  /\ ring = <<>>
  /\ pc = "idle" /\ actor = NoActor /\ obj = NoFix /\ outcome = "none"
  /\ watch = [w \in Watches |-> "none"]
  /\ calls = [f \in Fix |-> 0]
  /\ rejected = {}
  /\ closers = {}

----------------------------------------------------------------------------
(* MetricsDashboard *)

\* An InvestigationOutcome, of the investigation that proposed the fix.
Outcome == [fix : Fix, applied : BOOLEAN, verified : BOOLEAN]

\* update_outcome patches the first entry with this investigation id, if any.
PatchApplied(r, value) ==
  IF r = <<>> THEN r ELSE [r EXCEPT ![1] = [@ EXCEPT !.applied = value]]

PatchVerified(r, value) ==
  IF r = <<>> THEN r ELSE [r EXCEPT ![1] = [@ EXCEPT !.verified = value]]

\* A request handler gives the event loop back; its locals are gone.
Return == pc' = "idle" /\ actor' = NoActor /\ obj' = NoFix /\ outcome' = "none"

Recorded(f) == \E i \in DOMAIN ring : ring[i].fix = f

----------------------------------------------------------------------------
(* Wrong variants of the operations below, each a slip the code could have   *)
(* made; the specification never uses them.                                  *)

\* approve without the check for PROPOSED.
ApproveAnyStatus ==
  /\ pc = "approve"
  /\ status' = [status EXCEPT ![current] = "approved"]
  /\ approvedBy' = [approvedBy EXCEPT ![current] = actor]
  /\ pc' = "construct"
  /\ UNCHANGED <<current, appliedBy, application, ring, actor, obj, outcome,
                 watch, envVars>>

\* apply_fix without the check for APPROVED.
BeginApplyUnchecked ==
  /\ pc = "apply"
  /\ status' = [status EXCEPT ![current] = "applying"]
  /\ appliedBy' = [appliedBy EXCEPT ![current] = actor]
  /\ obj' = current
  /\ pc' = "doapply"
  /\ UNCHANGED <<current, approvedBy, application, ring, actor, outcome, watch,
                 envVars>>

\* apply_fix without its except clause.
FinishApplyNoExcept ==
  /\ pc = "finish"
  /\ Return
  /\ IF outcome = "exception"
       THEN UNCHANGED <<status, application, ring, watch>>
       ELSE /\ status' = [status EXCEPT ![obj] = "applied"]
            /\ application' = [fix |-> obj, success |-> outcome = "ok"]
            /\ ring' = PatchApplied(ring, outcome = "ok")
            /\ watch' = IF outcome = "ok"
                          THEN [watch EXCEPT ![<<"bff", obj>>] = "ready"] ELSE watch
  /\ UNCHANGED <<current, approvedBy, appliedBy, envVars>>

\* The endpoint starts verification for the fix in the slot, not the applied one.
FinishApplyWatchesSlot ==
  /\ pc = "finish"
  /\ status' = [status EXCEPT ![obj] =
                  IF outcome = "exception" THEN "failed" ELSE "applied"]
  /\ application' = [fix |-> obj, success |-> outcome = "ok"]
  /\ ring' = PatchApplied(ring, outcome = "ok")
  /\ watch' = IF outcome = "ok"
                THEN [watch EXCEPT ![<<"bff", current>>] = "ready"] ELSE watch
  /\ Return
  /\ UNCHANGED <<current, approvedBy, appliedBy, envVars>>

\* The task of a failed watch ends without mark_failed_verification.
ReportFailureSilently(w) ==
  /\ w[1] = "bff" => pc = "idle"
  /\ watch[w] = "watching"
  /\ watch' = [watch EXCEPT ![w] = "ended"]
  /\ ring' = PatchVerified(ring, FALSE)
  /\ UNCHANGED <<engineVars, loopVars, envVars>>

----------------------------------------------------------------------------
(* An agent thread in PersistPhase.execute *)

\* FixEngine.propose: the slot is overwritten, whatever the previous fix was
\* going through.
StoreProposal(f) ==
  /\ current' = f
  /\ status' = [status EXCEPT ![f] = "proposed"]

\* _generate_proposed_fix: a new object, stored when its type is not "none".
Propose(f) ==
  /\ status[f] = "unborn"
  /\ StoreProposal(f)
  /\ UNCHANGED <<approvedBy, appliedBy, application, ring, loopVars, watch, envVars>>

\* The verification loop PersistPhase submits as soon as a fix is proposed; a
\* submit that raises is logged and forgotten.
DispatchWatch(f) ==
  /\ status[f] # "unborn"
  /\ watch[<<"agent", f>>] = "none"
  /\ \E submitted \in Submit :
       watch' = [watch EXCEPT ![<<"agent", f>>] =
                   IF submitted THEN "watching" ELSE "ended"]
  /\ UNCHANGED <<engineVars, ring, loopVars, envVars>>

\* record_investigation_outcome appends the dashboard entry.
RecordOutcome(f) ==
  /\ watch[<<"agent", f>>] # "none"
  /\ ~Recorded(f)
  /\ ring' = Append(ring, [fix |-> f, applied |-> FALSE, verified |-> FALSE])
  /\ UNCHANGED <<engineVars, loopVars, watch, envVars>>

----------------------------------------------------------------------------
(* The fix endpoints of agui/api/investigations.py *)

\* FixEngine.get_status and get_fix: whatever is in the slot.
FixInSlot == current

\* FixEngine.reject, at any status.
MarkRejected ==
  /\ status' = [status EXCEPT ![current] = "rejected"]
  /\ rejected' = rejected \cup {current}

\* POST /fix action=reject; 404 without a proposal.
Reject(op) ==
  /\ pc = "idle"
  /\ FixInSlot # NoFix
  /\ MarkRejected
  /\ UNCHANGED <<current, approvedBy, appliedBy, application, ring, loopVars,
                 watch, calls, closers>>

\* POST /fix action=apply; 404 without a proposal.
ApplyRequest(op) ==
  /\ pc = "idle"
  /\ FixInSlot # NoFix
  /\ pc' = "approve"
  /\ actor' = op
  /\ UNCHANGED <<obj, outcome, engineVars, ring, watch, envVars>>

\* FixEngine.approve, or 409 when the fix is past PROPOSED.
Approve ==
  /\ pc = "approve"
  /\ IF status[current] = "proposed"
       THEN /\ status' = [status EXCEPT ![current] = "approved"]
            /\ approvedBy' = [approvedBy EXCEPT ![current] = actor]
            /\ pc' = "construct"
            /\ UNCHANGED <<actor, obj, outcome>>
       ELSE Return /\ UNCHANGED <<status, approvedBy>>
  /\ UNCHANGED <<current, appliedBy, application, ring, watch, envVars>>

\* SentinalAISupervisor() and its workers: without the devops or itsm
\* servers the lookup raises and the request ends with 500.
ConstructWorkers ==
  /\ pc = "construct"
  /\ \/ TRUE \in Discovery /\ pc' = "apply" /\ UNCHANGED <<actor, obj, outcome>>
     \/ FALSE \in Discovery /\ Return
  /\ UNCHANGED <<engineVars, ring, watch, envVars>>

\* FixEngine.apply_fix up to _do_apply, or 409 when the fix in the slot is
\* not APPROVED.
BeginApply ==
  /\ pc = "apply"
  /\ IF status[current] = "approved"
       THEN /\ status' = [status EXCEPT ![current] = "applying"]
            /\ appliedBy' = [appliedBy EXCEPT ![current] = actor]
            /\ obj' = current
            /\ pc' = "doapply"
            /\ UNCHANGED <<actor, outcome>>
       ELSE Return /\ UNCHANGED <<status, appliedBy>>
  /\ UNCHANGED <<current, approvedBy, application, ring, watch, envVars>>

\* _do_apply: the worker answers, answers with an error, or the fix has no
\* usable immediate_action; a fix of any other type is left to the operator
\* ("manual_required") and counts as a success.
DoApply ==
  /\ pc = "doapply"
  /\ \/ /\ obj \in Automated
        /\ \E r \in {"ok", "error"} : outcome' = r
        /\ calls' = [calls EXCEPT ![obj] = @ + 1]
     \/ /\ obj \in Automated
        /\ outcome' = "exception"
        /\ UNCHANGED calls
     \/ /\ obj \notin Automated
        /\ outcome' = "ok"
        /\ UNCHANGED calls
  /\ pc' = "finish"
  /\ UNCHANGED <<engineVars, ring, actor, obj, watch, rejected, closers>>

\* The rest of apply_fix, and the endpoint's create_task on success.
FinishApply ==
  /\ pc = "finish"
  /\ status' = [status EXCEPT ![obj] =
                  IF outcome = "exception" THEN "failed" ELSE "applied"]
  /\ application' = [fix |-> obj, success |-> outcome = "ok"]
  /\ ring' = IF outcome = "exception" THEN ring
             ELSE PatchApplied(ring, outcome = "ok")
  /\ watch' = IF outcome = "ok" THEN [watch EXCEPT ![<<"bff", obj>>] = "ready"]
              ELSE watch
  /\ Return
  /\ UNCHANGED <<current, approvedBy, appliedBy, envVars>>

----------------------------------------------------------------------------
(* Verification loops *)

\* _run_verification_loop: whatever fix is in the slot becomes VERIFYING; the
\* loop is skipped when the metrics or log worker is missing.
StartVerification(f) ==
  /\ pc = "idle"
  /\ watch[<<"bff", f>>] = "ready"
  /\ status' = [status EXCEPT ![current] = "verifying"]
  /\ \E found \in Discovery :
       watch' = [watch EXCEPT ![<<"bff", f>>] =
                   IF found THEN "watching" ELSE "ended"]
  /\ UNCHANGED <<current, approvedBy, appliedBy, application, ring, loopVars, envVars>>

\* VerificationLoop.watch reaches its stable threshold and resolves the
\* ticket from an executor thread; the update may fail, and is left out when
\* there is no itsm worker.
CloseTicket(w) ==
  /\ watch[w] = "watching"
  /\ watch' = [watch EXCEPT ![w] = "reporting"]
  /\ \E c \in {closers, closers \cup {w}} : closers' = c
  /\ UNCHANGED <<engineVars, ring, loopVars, calls, rejected>>

\* mark_verified and mark_failed_verification take whatever is in the slot.
MarkVerified == [status EXCEPT ![current] = "verified"]
MarkFailedVerification == [status EXCEPT ![current] = "failed"]

\* The end of a successful watch; the BFF's task then calls mark_verified.
ReportSuccess(w) ==
  /\ w[1] = "bff" => pc = "idle"
  /\ watch[w] = "reporting"
  /\ watch' = [watch EXCEPT ![w] = "ended"]
  /\ ring' = PatchVerified(ring, TRUE)
  /\ status' = IF w[1] = "bff" THEN MarkVerified ELSE status
  /\ UNCHANGED <<current, approvedBy, appliedBy, application, loopVars, envVars>>

\* All polls used up; the BFF's task calls mark_failed_verification.
ReportFailure(w) ==
  /\ w[1] = "bff" => pc = "idle"
  /\ watch[w] = "watching"
  /\ watch' = [watch EXCEPT ![w] = "ended"]
  /\ ring' = PatchVerified(ring, FALSE)
  /\ status' = IF w[1] = "bff" THEN MarkFailedVerification ELSE status
  /\ UNCHANGED <<current, approvedBy, appliedBy, application, loopVars, envVars>>

----------------------------------------------------------------------------
ApplySteps == Approve \/ ConstructWorkers \/ BeginApply \/ DoApply \/ FinishApply

WatchSteps(w) ==
  CloseTicket(w) \/ ReportSuccess(w) \/ ReportFailure(w)

Next ==
  \/ \E f \in Fix : \/ Propose(f) \/ DispatchWatch(f) \/ RecordOutcome(f)
                    \/ StartVerification(f)
  \/ \E op \in Operator : Reject(op) \/ ApplyRequest(op)
  \/ ApplySteps
  \/ \E w \in Watches : WatchSteps(w)

Spec == Init /\ [][Next]_vars

\* The event loop runs a handler to its end and every task that is ready again
\* and again.  Operators and new investigations come when they come.
Fairness ==
  /\ WF_vars(ApplySteps)
  /\ \A f \in Fix : SF_vars(WatchSteps(<<"bff", f>>))

FairSpec == Spec /\ Fairness

----------------------------------------------------------------------------
(* Safety *)

\* Every variable stays in its domain; in particular the slot is never read
\* while it is empty.
TypeOK ==
  /\ current \in Fix \cup {NoFix}
  /\ status \in [Fix -> FixStatus \cup {"unborn"}]
  /\ approvedBy \in [Fix -> Operator \cup {NoActor}]
  /\ appliedBy \in [Fix -> Operator \cup {NoActor}]
  /\ application \in [fix : Fix \cup {NoFix}, success : BOOLEAN]
  /\ ring \in Seq(Outcome)
  /\ pc \in {"idle", "approve", "construct", "apply", "doapply", "finish"}
  /\ actor \in Operator \cup {NoActor}
  /\ obj \in Fix \cup {NoFix}
  /\ outcome \in {"none", "ok", "error", "exception"}
  /\ watch \in [Watches -> WatchPhase]
  /\ calls \in [Fix -> Nat]
  /\ rejected \subseteq Fix
  /\ closers \subseteq Watches

\* The devops worker is called for a fix only after an operator approved that
\* very object, and in the name of the operator who approved it, even when
\* an agent thread replaces the proposal in the middle of the request.
CalledOnlyWithApproval ==
  \A f \in Fix : calls[f] > 0 => /\ approvedBy[f] \in Operator
                                 /\ appliedBy[f] = approvedBy[f]

\* No fix is applied twice ("to prevent double-apply"), whatever approvals,
\* rejections, re-proposals and failed requests came before.
CalledAtMostOnce == \A f \in Fix : calls[f] <= 1

\* One approval, one application: what reaches the devops worker was approved,
\* and reaches it once.
CalledOnceApproved == CalledOnlyWithApproval /\ CalledAtMostOnce

\* Once an operator rejected a fix it is never carried out afterwards.
NoCallAfterRejection ==
  [][\A f \in rejected : calls'[f] = calls[f]]_vars

\* Between two turns of the event loop no fix is left APPLYING: apply_fix
\* resolves it whether the worker answers, fails or raises.
NoApplyingAtRest == pc = "idle" => \A f \in Fix : status[f] # "applying"

\* The loop the endpoint starts closes the ticket only for a fix that really
\* went through apply_fix, and for an automated one reached the devops worker.
BffClosesAfterApply ==
  \A f \in Fix : <<"bff", f>> \in closers =>
    /\ appliedBy[f] # NoActor
    /\ f \in Automated => calls[f] = 1

\* Seen from outside, the engine is the approval gate.
GateOf(f) ==
  IF calls[f] > 0 THEN "executed"
  ELSE IF status[f] = "unborn" THEN "none"
  ELSE IF status[f] = "proposed" THEN "offered"
  ELSE IF status[f] \in {"approved", "applying"} THEN "granted"
  ELSE "closed"

AG == INSTANCE ApprovalGate WITH
        gate <- [f \in Fix |-> GateOf(f)],
        grantee <- approvedBy,
        executor <- [f \in Fix |-> IF calls[f] > 0 THEN appliedBy[f] ELSE NoActor]

\* Every step of the engine is a step of the approval gate or leaves it alone.
ImplementsGate == AG!GateSpec

----------------------------------------------------------------------------
(* Liveness, under FairSpec *)

\* A fix that is VERIFYING gets its verdict unless another proposal takes the
\* slot, as long as the BFF's loop found the workers it needs: while one is
\* watching, the fix does not stay VERIFYING.  (A loop that is skipped leaves it
\* so for good.)
BeingWatched == \E f \in Fix : watch[<<"bff", f>>] \in {"watching", "reporting"}

VerifyingResolves ==
  \A f \in Fix : (current = f /\ status[f] = "verifying" /\ BeingWatched)
                    ~> (current # f \/ status[f] # "verifying")

----------------------------------------------------------------------------
(* What the documentation says and the code does not keep *)

\* supervisor/verification_loop.py: the loop "monitors service health after a
\* fix is applied" and closes the ticket on success.
TicketClosedOnlyAfterApply ==
  \A w \in closers : appliedBy[w[2]] # NoActor
=============================================================================
