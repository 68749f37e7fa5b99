---------------------------- MODULE K8sExecutor ----------------------------
(***************************************************************************)
(* Calls of K8sExecutor.execute and request_approval by threads of one     *)
(* process, with the table of approval tokens they share and the           *)
(* operational store that takes their audit records.                       *)
(***************************************************************************)
EXTENDS OpsPersistence

CONSTANTS Call,        \* calls; a token is named by the call it was issued in
          NoToken,
          Action,      \* K8sAction values
          NoAction,
          Target,      \* their action and resource_name
          Disruptive,  \* those whose action is in _DISRUPTIVE_ACTIONS
          Refused,     \* those with a namespace that is not allowed, no command
          TooWide,     \* those whose estimate exceeds K8S_MAX_PODS_AFFECTED
  FromFile,    \* those whose command needs a file (apply_manifest)
          DryRunMode   \* K8S_DRY_RUN

ASSUME CallAssumption == NoToken \notin Call
ASSUME ActionAssumption ==
  /\ NoAction \notin Action /\ DOMAIN Target = Action
  /\ {Disruptive, Refused, TooWide, FromFile} \subseteq SUBSET Action
  /\ DryRunMode \in BOOLEAN
ASSUME RecordAssumption == {"asked", "audit"} \X Call \subseteq Item

VARIABLES
  pc,       \* where each call is
  act,      \* its action, until it returns
  token,    \* its approval_token, until it returns
  pending,  \* _pending_approvals: token -> action, NoAction without an entry
  issued,   \* the action every token was issued for
  live      \* live kubectl runs: the call's action and its token

callVars == <<pc, act, token, pending, issued, live>>
vars == <<opsVars, callVars>>

Audit(c) == <<"audit", c>>
Asked(c) == <<"asked", c>>

Init ==
  /\ OpsInit
  /\ pc = [c \in Call |-> "idle"]
  /\ act = [c \in Call |-> NoAction]
  /\ token = [c \in Call |-> NoToken]
  /\ pending = [c \in Call |-> NoAction]
  /\ issued = [c \in Call |-> NoAction]
  /\ live = <<>>

\* The call goes on, with its action and token.
Goto(c, label) == pc' = [pc EXCEPT ![c] = label] /\ UNCHANGED <<act, token>>

\* The call is over; its locals are gone.
Return(c) ==
  /\ pc' = [pc EXCEPT ![c] = "done"]
  /\ act' = [act EXCEPT ![c] = NoAction]
  /\ token' = [token EXCEPT ![c] = NoToken]

\* The call records its audit and returns.
AuditAndReturn(c) == Persist(Audit(c)) /\ Return(c)

----------------------------------------------------------------------------
(* Wrong variants of the definitions below; the specification never uses them. *)

\* The token stays in the table until the live run is over.
KeepToken(t) == UNCHANGED pending

\* An exception in the live run ends the call before its audit.
LiveRunUnaudited(c) ==
  /\ pc[c] = "live"
  /\ live' = Append(live, [action |-> act[c], token |-> token[c]])
  /\ Goto(c, "audit") \/ Return(c)
  /\ UNCHANGED <<opsVars, pending, issued>>

----------------------------------------------------------------------------
(* execute() *)

\* Namespace, command and the dry run that always comes first; the caller may
\* show a token it was given.
DryRun(c, a, t) ==
  /\ pc[c] = "idle" /\ phase # "none"
  /\ \/ /\ a \notin Refused
        /\ pc' = [pc EXCEPT ![c] = "gate"]
        /\ act' = [act EXCEPT ![c] = a]
        /\ token' = [token EXCEPT ![c] = t]
        /\ UNCHANGED opsVars
     \/ AuditAndReturn(c)
  /\ UNCHANGED <<pending, issued, live>>

\* The blast radius and the global dry-run mode end the call.
Withheld(c) ==
  /\ pc[c] = "gate"
  /\ act[c] \in TooWide \/ DryRunMode
  /\ AuditAndReturn(c)
  /\ UNCHANGED <<pending, issued, live>>

Passed(c) == pc[c] = "gate" /\ act[c] \notin TooWide /\ ~DryRunMode

\* An action that is not disruptive needs no approval.
GoLive(c) ==
  /\ Passed(c) /\ act[c] \notin Disruptive
  /\ Goto(c, "live")
  /\ UNCHANGED <<opsVars, pending, issued, live>>

\* _request_approval: the token is in the table before the event is persisted.
Issue(c, a) ==
  /\ pending' = [pending EXCEPT ![c] = a]
  /\ issued' = [issued EXCEPT ![c] = a]
  /\ Persist(Asked(c))

\* A disruptive action without a token asks for one; its audit follows.
AskApproval(c) ==
  /\ Passed(c) /\ act[c] \in Disruptive /\ token[c] = NoToken
  /\ Issue(c, act[c])
  /\ Goto(c, "audit")
  /\ UNCHANGED live

\* _validate_approval, under the lock: a token that fits the action and the
\* resource is used up.
Fits(t, a) == pending[t] # NoAction /\ Target[pending[t]] = Target[a]

UseToken(t) == pending' = [pending EXCEPT ![t] = NoAction]

\* A disruptive action with a token goes live or is rejected.
ShowToken(c) ==
  /\ Passed(c) /\ act[c] \in Disruptive /\ token[c] # NoToken
  /\ IF Fits(token[c], act[c])
       THEN UseToken(token[c]) /\ Goto(c, "live") /\ UNCHANGED opsVars
       ELSE AuditAndReturn(c) /\ UNCHANGED pending
  /\ UNCHANGED <<issued, live>>

\* The live command; it succeeds, fails or times out, and _run never raises.
LiveRun(c) ==
  /\ pc[c] = "live"
  /\ live' = Append(live, [action |-> act[c], token |-> token[c]])
  /\ Goto(c, "audit")
  /\ UNCHANGED <<opsVars, pending, issued>>

\* The file that the dry run still found is gone: the ValueError of the second
\* _build_command leaves execute, its token used up, with neither run nor audit.
LiveBuildRaises(c) ==
  /\ pc[c] = "live" /\ act[c] \in FromFile
  /\ Return(c)
  /\ UNCHANGED <<opsVars, pending, issued, live>>

\* _audit at the end of a call.
FinishCall(c) ==
  /\ pc[c] = "audit"
  /\ AuditAndReturn(c)
  /\ UNCHANGED <<pending, issued, live>>

\* request_approval, in a call of its own.
PreRequest(c, a) ==
  /\ pc[c] = "idle" /\ phase # "none"
  /\ Issue(c, a)
  /\ Return(c)
  /\ UNCHANGED live

----------------------------------------------------------------------------
\* The tokens a caller can know.
Issued == {c \in Call : issued[c] # NoAction}

\* The process is gone: calls end where they are, the tokens are forgotten.
Crash ==
  /\ ProcessGone
  /\ pc' = [c \in Call |-> IF pc[c] \in {"idle", "done"} THEN pc[c] ELSE "done"]
  /\ act' = [c \in Call |-> NoAction]
  /\ token' = [c \in Call |-> NoToken]
  /\ pending' = [c \in Call |-> NoAction]
  /\ UNCHANGED <<issued, live>>

CallStep(c) ==
  \/ Withheld(c) \/ GoLive(c) \/ AskApproval(c) \/ ShowToken(c)
  \/ LiveRun(c) \/ LiveBuildRaises(c) \/ FinishCall(c)

Next ==
  \/ \E c \in Call, a \in Action : \/ PreRequest(c, a)
                                   \/ \E t \in Issued \cup {NoToken} : DryRun(c, a, t)
  \/ \E c \in Call : CallStep(c)
  \/ (MakeStore \/ StartStep \/ WriterStep \/ Stop) /\ UNCHANGED callVars
  \/ Crash

Spec == Init /\ [][Next]_vars

----------------------------------------------------------------------------
(* Safety *)

\* Every variable stays in its domain.
TypeOK ==
  /\ OpsTypeOK
  /\ pc \in [Call -> {"idle", "gate", "live", "audit", "done"}]
  /\ act \in [Call -> Action \cup {NoAction}]
  /\ token \in [Call -> Call \cup {NoToken}]
  /\ pending \in [Call -> Action \cup {NoAction}]
  /\ issued \in [Call -> Action \cup {NoAction}]
  /\ live \in Seq([action : Action, token : Call \cup {NoToken}])

\* kubectl changes the cluster only within the limits, and for a disruptive
\* action on the strength of a token that was issued for the same action on the
\* same resource, however calls with tokens, crashes and new requests mix.
LiveWasCleared ==
  \A i \in DOMAIN live :
    /\ live[i].action \notin Refused \cup TooWide /\ ~DryRunMode
    /\ live[i].action \in Disruptive =>
         /\ live[i].token \in Call /\ issued[live[i].token] \in Action
         /\ Target[issued[live[i].token]] = Target[live[i].action]

\* A token clears one live run, however many calls show it at the same time.
TokenUsedOnce ==
  \A i, j \in DOMAIN live :
    /\ live[i].action \in Disruptive /\ live[j].action \in Disruptive
    /\ live[i].token = live[j].token
    => i = j

\* One clearance, one run.
ClearedOnce == LiveWasCleared /\ TokenUsedOnce

\* A call that changed the cluster returns only with its audit record accepted
\* by the store or counted as dropped; a store that is not ready loses it
\* without a trace.  (A call ends in the step of its live run, if at all, by
\* an exception of that run.)
LiveWasAudited ==
  [][\A c \in Call :
       /\ pc[c] = "audit" \/ (pc[c] = "live" /\ live' # live)
       /\ pc'[c] = "done" /\ Ready /\ Ready'
       => Audit(c) \in ToSet(accepted') \/ drops' > drops]_vars
=============================================================================
