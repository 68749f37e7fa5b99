---------------------------- MODULE ApprovalGate ----------------------------
(***************************************************************************)
(* The human-in-the-loop promise of supervisor/fix_engine.py, stated       *)
(* without its mechanism: a proposed fix reaches the infrastructure at     *)
(* most once, only after an operator granted it, in the name of that       *)
(* operator, and never after it has been closed.  FixEngine implements     *)
(* this specification.                                                     *)
(***************************************************************************)
CONSTANTS Fix, Operator, NoActor

VARIABLES gate,      \* where each proposal stands
          grantee,   \* the operator who granted it
          executor   \* the operator in whose name it was executed

gateVars == <<gate, grantee, executor>>

Gate == {"none", "offered", "granted", "executed", "closed"}

GateInit == /\ gate = [f \in Fix |-> "none"]
            /\ grantee = [f \in Fix |-> NoActor]
            /\ executor = [f \in Fix |-> NoActor]

\* The agent puts a proposal before the operators.
Offer(f) == /\ gate[f] = "none"
            /\ gate' = [gate EXCEPT ![f] = "offered"]
            /\ UNCHANGED <<grantee, executor>>

\* An operator grants a proposal that is still on offer.
Grant(f, op) == /\ gate[f] = "offered"
                /\ gate' = [gate EXCEPT ![f] = "granted"]
                /\ grantee' = [grantee EXCEPT ![f] = op]
                /\ UNCHANGED executor

\* A granted proposal reaches the infrastructure, in its grantee's name.
Execute(f) == /\ gate[f] = "granted"
              /\ gate' = [gate EXCEPT ![f] = "executed"]
              /\ executor' = [executor EXCEPT ![f] = grantee[f]]
              /\ UNCHANGED grantee

\* A proposal that was not executed is disposed of, for good.
Close(f) == /\ gate[f] \in {"offered", "granted"}
            /\ gate' = [gate EXCEPT ![f] = "closed"]
            /\ UNCHANGED <<grantee, executor>>

GateNext == \E f \in Fix : \/ Offer(f)
                           \/ \E op \in Operator : Grant(f, op)
                           \/ Execute(f)
                           \/ Close(f)

GateSpec == GateInit /\ [][GateNext]_gateVars
=============================================================================
