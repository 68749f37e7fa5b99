------------------------- MODULE K8sExecutorProofs -------------------------
(***************************************************************************)
(* Proofs about the Kubernetes executor and its operational store, for any *)
(* calls, actions, queue and batch sizes and schema versions.              *)
(***************************************************************************)
EXTENDS K8sExecutor, SequenceTheorems, TLAPS

----------------------------------------------------------------------------
(* The operational store *)

\* OpsTypeOK in parts: the file with the start of the process, and the memory.
FileTypes ==
  /\ rows \in Seq(Item) /\ version \in 1..Current /\ applied \subseteq 2..Current
  /\ damaged \in BOOLEAN
  /\ starts \in 0..MaxStart /\ phase \in Phases /\ level \in 1..Current
MemTypes ==
  /\ q \in Seq(Item \cup {Pill}) /\ Len(q) <= QueueMax
  /\ batch \in Seq(Item) /\ Len(batch) <= BatchSize
  /\ writer \in WriterAt
  /\ accepted \in Seq(Item) /\ drops \in Nat /\ lost \subseteq Item

\* Without a store that is ready there is no writer, and one that takes from the
\* queue has room in its batch.
WriterInv ==
  /\ ~Ready => batch = <<>> /\ writer = "none"
  /\ writer = "get" => Len(batch) < BatchSize

\* A migration goes on from a version that the tables have.
MigrationInv ==
  /\ 2..version \subseteq applied
  /\ phase \in {"migrate", "record"} => level < Current /\ 2..level \subseteq applied
  /\ phase = "record" => level + 1 \in applied
  /\ phase \in {"clean", "ready", "join"} => version = Current

OpsInv == FileTypes /\ MemTypes /\ WriterInv /\ MigrationInv

\* What the assumptions say of the sizes.
LEMMA Sizes ==
  /\ QueueMax \in Nat /\ QueueMax > 0 /\ BatchSize \in Nat /\ BatchSize > 0
  /\ Current \in Nat /\ Current > 0 /\ MaxStart \in Nat /\ Pill \notin Item
BY ItemAssumption, SizeAssumption, StartAssumption

\* A store that was never opened satisfies its invariant.
LEMMA OpsInitially == OpsInit => OpsInv
<1> SUFFICES ASSUME OpsInit PROVE OpsInv
  OBVIOUS
<1>1. FileTypes
  <2>1. version \in 1..Current /\ level \in 1..Current /\ starts \in 0..MaxStart
    BY Sizes DEF OpsInit
  <2>2. rows \in Seq(Item)
    BY EmptySeq DEF OpsInit
  <2> QED
    BY <2>1, <2>2 DEF OpsInit, FileTypes, Phases
<1>2. MemTypes
  BY Sizes DEF OpsInit, MemTypes, WriterAt
<1>3. WriterInv /\ MigrationInv
  BY Sizes DEF OpsInit, WriterInv, MigrationInv
<1> QED
  BY <1>1, <1>2, <1>3 DEF OpsInv

\* A write is queued or dropped.
LEMMA PersistStep ==
  ASSUME OpsInv, NEW i \in Item, Persist(i)
  PROVE  OpsInv'
<1>1. FileTypes' /\ MigrationInv'
  BY DEF OpsInv, FileTypes, MigrationInv, Persist, fileVars
<1>2. MemTypes'
  <2>1. \/ UNCHANGED <<q, accepted>> /\ drops' \in {drops, drops + 1}
        \/ /\ Len(q) < QueueMax
           /\ q' = Append(q, i) /\ accepted' = Append(accepted, i) /\ UNCHANGED drops
    BY DEF Persist
  <2>2. UNCHANGED <<batch, writer, lost>>
    BY DEF Persist
  <2>3. /\ q \in Seq(Item \cup {Pill}) /\ Len(q) \in Nat /\ Len(q) <= QueueMax
        /\ accepted \in Seq(Item) /\ drops \in Nat
    BY DEF OpsInv, MemTypes
  <2>4. /\ Append(q, i) \in Seq(Item \cup {Pill}) /\ Len(Append(q, i)) = Len(q) + 1
        /\ Append(accepted, i) \in Seq(Item)
    BY <2>3
  <2>5. /\ q' \in Seq(Item \cup {Pill}) /\ Len(q') <= QueueMax
        /\ accepted' \in Seq(Item) /\ drops' \in Nat
    <3>1. CASE UNCHANGED <<q, accepted>> /\ drops' \in {drops, drops + 1}
      BY <2>3, <3>1
    <3>2. CASE /\ Len(q) < QueueMax
               /\ q' = Append(q, i) /\ accepted' = Append(accepted, i) /\ UNCHANGED drops
      BY <2>3, <2>4, <3>2, Sizes
    <3> QED
      BY <2>1, <3>1, <3>2
  <2> QED
    BY <2>2, <2>5 DEF OpsInv, MemTypes
<1>3. WriterInv'
  BY DEF OpsInv, WriterInv, Ready, Persist
<1> QED
  BY <1>1, <1>2, <1>3 DEF OpsInv

\* The process comes up: the file is checked, migrated and served.
LEMMA StartSteps ==
  ASSUME OpsInv, MakeStore \/ StartStep
  PROVE  OpsInv'
<1>1. CASE MakeStore
  <2>1. FileTypes'
    BY <1>1, Sizes DEF OpsInv, FileTypes, MakeStore, Phases, fileVars
  <2>2. MemTypes' /\ WriterInv' /\ MigrationInv'
    BY <1>1 DEF OpsInv, MemTypes, WriterInv, MigrationInv, MakeStore, Ready, fileVars, memVars
  <2> QED
    BY <2>1, <2>2 DEF OpsInv
<1>2. CASE CheckFile
  <2>1. UNCHANGED fileVars \/ (rows' = <<>> /\ version' = 1 /\ applied' = {} /\ damaged' = FALSE)
    BY <1>2 DEF CheckFile
  <2>3. FileTypes'
    <3>1. <<>> \in Seq(Item) /\ 1 \in 1..Current
      BY EmptySeq, Sizes
    <3>2. /\ rows' \in Seq(Item) /\ version' \in 1..Current /\ applied' \subseteq 2..Current
          /\ damaged' \in BOOLEAN
      BY <2>1, <3>1 DEF OpsInv, FileTypes, fileVars
    <3> QED
      BY <1>2, <3>2 DEF OpsInv, FileTypes, CheckFile, Phases
  <2>4. MigrationInv'
    BY <1>2, <2>1, Sizes DEF OpsInv, MigrationInv, CheckFile, fileVars
  <2>2. MemTypes' /\ WriterInv'
    BY <1>2 DEF OpsInv, MemTypes, WriterInv, CheckFile, Ready, memVars
  <2> QED
    BY <2>2, <2>3, <2>4 DEF OpsInv
<1>3. CASE EnsureSchema
  <2>1. FileTypes'
    BY <1>3, Sizes DEF OpsInv, FileTypes, EnsureSchema, Phases, fileVars
  <2>2. MigrationInv'
    BY <1>3, Sizes DEF OpsInv, FileTypes, MigrationInv, EnsureSchema, fileVars
  <2>3. MemTypes' /\ WriterInv'
    BY <1>3 DEF OpsInv, MemTypes, WriterInv, EnsureSchema, Ready, memVars
  <2> QED
    BY <2>1, <2>2, <2>3 DEF OpsInv
<1>4. CASE Migrate
  <2>1. FileTypes' /\ MigrationInv'
    <3>1. level < Current /\ level \in 1..Current /\ level + 1 \in 2..Current
      BY <1>4, Sizes DEF OpsInv, FileTypes, MigrationInv, Migrate
    <3>2. applied' = applied \/ applied' = applied \cup {level + 1}
      BY <1>4 DEF Migrate
    <3>3. FileTypes'
      BY <1>4, <3>1, <3>2 DEF OpsInv, FileTypes, Migrate, Phases
    <3>4. MigrationInv'
      BY <1>4, <3>1, <3>2 DEF OpsInv, MigrationInv, Migrate
    <3> QED
      BY <3>3, <3>4
  <2>2. MemTypes' /\ WriterInv'
    BY <1>4 DEF OpsInv, MemTypes, WriterInv, Migrate, Ready, memVars
  <2> QED
    BY <2>1, <2>2 DEF OpsInv
<1>5. CASE RecordVersion
  <2>1. FileTypes' /\ MigrationInv'
    BY <1>5, Sizes DEF OpsInv, FileTypes, MigrationInv, RecordVersion, Phases
  <2>2. MemTypes' /\ WriterInv'
    BY <1>5 DEF OpsInv, MemTypes, WriterInv, RecordVersion, Ready, memVars
  <2> QED
    BY <2>1, <2>2 DEF OpsInv
<1>6. CASE CleanAndServe
  <2>1. rows' \in Seq(Item)
    <3>1. PICK n \in 0..Len(rows) : rows' = SubSeq(rows, n + 1, Len(rows))
      BY <1>6 DEF CleanAndServe
    <3>2. rows \in Seq(Item) /\ n + 1 \in 1..(Len(rows) + 1)
      BY <3>1 DEF OpsInv, FileTypes
    <3>3. \A k \in (n + 1)..Len(rows) : rows[k] \in Item
      BY <3>2, ElementOfSeq
    <3> QED
      BY <3>1, <3>2, <3>3, SubSeqProperties
  <2>2. FileTypes' /\ MigrationInv'
    BY <1>6, <2>1 DEF OpsInv, FileTypes, MigrationInv, CleanAndServe, Phases
  <2>3. MemTypes' /\ WriterInv'
    BY <1>6, Sizes DEF OpsInv, MemTypes, WriterInv, CleanAndServe, Ready, WriterAt
  <2> QED
    BY <2>2, <2>3 DEF OpsInv
<1> QED
  BY <1>1, <1>2, <1>3, <1>4, <1>5, <1>6 DEF StartStep

\* The writer thread takes, and flushes or loses, a batch; the process stops.
LEMMA WriterSteps ==
  ASSUME OpsInv, WriterStep \/ Stop \/ ProcessGone
  PROVE  OpsInv'
<1>1. CASE Take
  <2>1. Head(q) \in Item \cup {Pill} /\ Tail(q) \in Seq(Item \cup {Pill}) /\ Len(Tail(q)) < Len(q)
    BY <1>1 DEF Take, OpsInv, MemTypes
  <2>5. /\ Head(q) # Pill => Append(batch, Head(q)) \in Seq(Item)
        /\ Len(Append(batch, Head(q))) = Len(batch) + 1
        /\ Len(batch) \in Nat /\ Len(batch) < BatchSize /\ Len(Tail(q)) <= QueueMax
    BY <1>1, <2>1, Sizes DEF Take, OpsInv, MemTypes, WriterInv
  <2>6. \/ writer' = "last" /\ batch' = batch
        \/ /\ Head(q) # Pill /\ batch' = Append(batch, Head(q))
           /\ writer' = IF Len(batch) + 1 >= BatchSize THEN "flush" ELSE "get"
    BY <1>1 DEF Take
  <2>7. q' = Tail(q) /\ UNCHANGED <<fileVars, starts, phase, level, accepted, drops, lost>>
    BY <1>1 DEF Take
  <2>2. MemTypes'
    <3>1. batch' \in Seq(Item) /\ Len(batch') <= BatchSize
      <4>1. batch \in Seq(Item) /\ Len(batch) <= BatchSize
        BY DEF OpsInv, MemTypes
      <4>2. CASE batch' = batch
        BY <4>1, <4>2
      <4>3. CASE Head(q) # Pill /\ batch' = Append(batch, Head(q))
        BY <2>5, <4>3, Sizes
      <4> QED
        BY <2>6, <4>2, <4>3
    <3>2. writer' \in WriterAt
      BY <2>6 DEF WriterAt
    <3>3. q' \in Seq(Item \cup {Pill}) /\ Len(q') <= QueueMax
      BY <2>1, <2>5, <2>7
    <3> QED
      BY <2>7, <3>1, <3>2, <3>3 DEF OpsInv, MemTypes
  <2>3. WriterInv'
    <3>1. writer' = "get" => Len(batch') < BatchSize
      BY <2>5, <2>6, Sizes
    <3>2. Ready
      BY <1>1 DEF Take, OpsInv, WriterInv
    <3> QED
      BY <2>7, <3>1, <3>2 DEF WriterInv, Ready
  <2>4. FileTypes' /\ MigrationInv'
    BY <1>1 DEF Take, OpsInv, FileTypes, MigrationInv, fileVars
  <2> QED
    BY <2>2, <2>3, <2>4 DEF OpsInv
<1>2. CASE IdleFlush
  <2>1. FileTypes' /\ MemTypes' /\ MigrationInv'
    BY <1>2 DEF IdleFlush, OpsInv, FileTypes, MemTypes, MigrationInv, WriterAt, fileVars
  <2>2. WriterInv'
    BY <1>2 DEF IdleFlush, OpsInv, WriterInv, Ready
  <2> QED
    BY <2>1, <2>2 DEF OpsInv
<1>3. CASE Flush
  <2>1. rows' \in Seq(Item) /\ lost' \subseteq Item
    <3>1. rows \in Seq(Item) /\ batch \in Seq(Item) /\ lost \subseteq Item
      BY DEF OpsInv, FileTypes, MemTypes
    <3>2. rows \o batch \in Seq(Item)
      BY <3>1
    <3>3. ToSet(batch) \subseteq Item
      BY <3>1, ElementOfSeq DEF ToSet
    <3> QED
      BY <1>3, <3>1, <3>2, <3>3 DEF Flush
  <2>2. FileTypes' /\ MigrationInv'
    BY <1>3, <2>1 DEF Flush, OpsInv, FileTypes, MigrationInv
  <2>3. MemTypes' /\ WriterInv'
    BY <1>3, <2>1, Sizes DEF Flush, OpsInv, MemTypes, WriterInv, WriterAt, Ready
  <2> QED
    BY <2>2, <2>3 DEF OpsInv
<1>4. CASE Stop
  <2>1. FileTypes' /\ MigrationInv'
    BY <1>4 DEF Stop, OpsInv, FileTypes, MigrationInv, Phases, fileVars
  <2>2. MemTypes' /\ WriterInv'
    BY <1>4, Sizes DEF Stop, OpsInv, MemTypes, WriterInv, Ready
  <2> QED
    BY <2>1, <2>2 DEF OpsInv
<1>5. CASE ProcessGone
  <2>1. FileTypes' /\ MigrationInv'
    BY <1>5, Sizes DEF ProcessGone, OpsInv, FileTypes, MigrationInv, Phases
  <2>2. MemTypes' /\ WriterInv'
    BY <1>5, Sizes DEF ProcessGone, OpsInv, MemTypes, WriterInv, WriterAt
  <2> QED
    BY <2>1, <2>2 DEF OpsInv
<1> QED
  BY <1>1, <1>2, <1>3, <1>4, <1>5 DEF WriterStep

\* Steps that leave the store alone.
LEMMA OpsUnchanged ==
  ASSUME OpsInv, UNCHANGED opsVars
  PROVE  OpsInv'
BY DEF OpsInv, FileTypes, MemTypes, WriterInv, MigrationInv, Ready, opsVars, fileVars, memVars

----------------------------------------------------------------------------
(* Calls and their tokens *)

CallTypes ==
  /\ pc \in [Call -> {"idle", "gate", "live", "audit", "done"}]
  /\ act \in [Call -> Action \cup {NoAction}]
  /\ token \in [Call -> Call \cup {NoToken}]
  /\ pending \in [Call -> Action \cup {NoAction}]
  /\ issued \in [Call -> Action \cup {NoAction}]
  /\ live \in Seq([action : Action, token : Call \cup {NoToken}])

\* A live run of action a with token t is within the limits; a disruptive one has
\* a token that was issued for it and is no longer in the table.
Cleared(a, t) ==
  /\ a \in Action /\ a \notin Refused \cup TooWide /\ ~DryRunMode
  /\ a \in Disruptive =>
       /\ t \in Call /\ issued[t] \in Action /\ Target[issued[t]] = Target[a]
       /\ pending[t] = NoAction

\* A token in the table was issued for what the table says; it is issued once.
TokenInv ==
  /\ \A t \in Call : pending[t] # NoAction => issued[t] = pending[t]
  /\ \A c \in Call : pc[c] \in {"idle", "gate"} => issued[c] = NoAction

\* Calls on their way to kubectl, and those that were there, had a token each.
ClearedInv ==
  /\ \A c \in Call : pc[c] = "gate" => act[c] \in Action \ Refused
  /\ \A c \in Call : pc[c] = "live" => Cleared(act[c], token[c])
  /\ \A i \in DOMAIN live : Cleared(live[i].action, live[i].token)

OneRunPerToken ==
  /\ \A c, d \in Call :
       /\ pc[c] = "live" /\ pc[d] = "live" /\ token[c] = token[d]
       /\ act[c] \in Disruptive /\ act[d] \in Disruptive
       => c = d
  /\ \A c \in Call, i \in DOMAIN live :
       pc[c] = "live" /\ act[c] \in Disruptive /\ live[i].action \in Disruptive
         => live[i].token # token[c]
  /\ TokenUsedOnce

CallInv == CallTypes /\ TokenInv /\ ClearedInv /\ OneRunPerToken

LEMMA CallsInitially == Init => CallInv
<1> SUFFICES ASSUME Init PROVE CallInv
  OBVIOUS
<1>1. CallTypes
  BY DEF Init, CallTypes
<1>2. TokenInv /\ ClearedInv /\ OneRunPerToken
  BY DEF Init, TokenInv, ClearedInv, OneRunPerToken, TokenUsedOnce
<1> QED
  BY <1>1, <1>2 DEF CallInv

\* A call that begins, ends, raises or goes on without its token, and an action that
\* is not disruptive.
LEMMA PlainSteps ==
  ASSUME CallInv, NEW c \in Call,
         \/ \E a \in Action, t \in Issued \cup {NoToken} : DryRun(c, a, t)
         \/ Withheld(c) \/ GoLive(c) \/ LiveBuildRaises(c) \/ FinishCall(c)
  PROVE  CallInv'
<1>1. UNCHANGED <<pending, issued, live>>
  BY DEF DryRun, Withheld, GoLive, LiveBuildRaises, FinishCall
<1>2. CallTypes'
  BY <1>1 DEF CallInv, CallTypes, DryRun, Withheld, GoLive, LiveBuildRaises, FinishCall,
     AuditAndReturn, Return, Goto, Issued
<1>3. TokenInv'
  BY <1>1 DEF CallInv, CallTypes, TokenInv, DryRun, Withheld, GoLive, LiveBuildRaises, FinishCall,
       AuditAndReturn, Return, Goto
<1>4. /\ \A d \in Call \ {c} : pc'[d] = pc[d] /\ act'[d] = act[d] /\ token'[d] = token[d]
      /\ pc'[c] = "gate" => act'[c] \in Action \ Refused
      /\ pc'[c] = "live" => /\ act'[c] \notin Disruptive /\ act'[c] \notin TooWide /\ ~DryRunMode
                            /\ act'[c] \in Action \ Refused
  BY DEF CallInv, CallTypes, ClearedInv, DryRun, Withheld, GoLive, LiveBuildRaises, Passed,
         FinishCall, AuditAndReturn, Return, Goto
<1>5. ClearedInv'
  BY <1>1, <1>4 DEF CallInv, ClearedInv, Cleared
<1>6. OneRunPerToken'
  BY <1>1, <1>4 DEF CallInv, OneRunPerToken, TokenUsedOnce
<1> QED
  BY <1>2, <1>3, <1>5, <1>6 DEF CallInv

\* A token is issued, once for its call.
LEMMA IssueSteps ==
  ASSUME CallInv, NEW c \in Call,
         AskApproval(c) \/ \E a \in Action : PreRequest(c, a)
  PROVE  CallInv'
<1>1. PICK a \in Action : Issue(c, a)
  BY DEF AskApproval, PreRequest, CallInv, ClearedInv, Passed
<1>2. /\ pc[c] \in {"idle", "gate"} /\ pc'[c] \in {"audit", "done"} /\ UNCHANGED live
      /\ \A d \in Call \ {c} : pc'[d] = pc[d] /\ act'[d] = act[d] /\ token'[d] = token[d]
  BY DEF AskApproval, PreRequest, Passed, Goto, Return, CallInv, CallTypes
<1>3. issued[c] = NoAction
  BY <1>2 DEF CallInv, TokenInv
<1>4. CallTypes'
  BY <1>1 DEF AskApproval, PreRequest, Goto, Return, Issue, CallInv, CallTypes
<1>5. TokenInv'
  BY <1>1, <1>2 DEF Issue, CallInv, CallTypes, TokenInv
<1>6. ASSUME NEW b, NEW t, Cleared(b, t)
      PROVE  Cleared(b, t)'
  BY <1>1, <1>3, <1>6, ActionAssumption DEF Cleared, Issue, CallInv, CallTypes
<1>7. ClearedInv'
  BY <1>2, <1>6 DEF CallInv, ClearedInv
<1>8. OneRunPerToken'
  BY <1>2 DEF CallInv, OneRunPerToken, TokenUsedOnce
<1> QED
  BY <1>4, <1>5, <1>7, <1>8 DEF CallInv

\* A token that is shown is used up, or the call is over.
LEMMA ShowSteps ==
  ASSUME CallInv, NEW c \in Call, ShowToken(c)
  PROVE  CallInv'
<1>1. UNCHANGED <<issued, live>> /\ pc[c] = "gate" /\ act[c] \in Action \ Refused
  BY DEF ShowToken, Passed, CallInv, ClearedInv
<1>2. token[c] \in Call /\ act[c] \notin TooWide /\ ~DryRunMode
  BY DEF ShowToken, Passed, CallInv, CallTypes
<1>3. CASE ~Fits(token[c], act[c])
  <2>1. UNCHANGED pending /\ Return(c)
    BY <1>3 DEF ShowToken, AuditAndReturn
  <2>2. CallTypes' /\ TokenInv'
    BY <1>1, <2>1 DEF CallInv, CallTypes, TokenInv, Return
  <2>3. ClearedInv' /\ OneRunPerToken'
    BY <1>1, <2>1 DEF CallInv, CallTypes, ClearedInv, Cleared, OneRunPerToken,
       TokenUsedOnce, Return
  <2> QED
    BY <2>2, <2>3 DEF CallInv
<1>4. CASE Fits(token[c], act[c])
  <2>1. /\ pending' = [pending EXCEPT ![token[c]] = NoAction]
        /\ pc' = [pc EXCEPT ![c] = "live"] /\ UNCHANGED <<act, token>>
    BY <1>4 DEF ShowToken, UseToken, Goto
  <2>2. /\ pending[token[c]] \in Action /\ issued[token[c]] = pending[token[c]]
        /\ Target[issued[token[c]]] = Target[act[c]]
    BY <1>2, <1>4 DEF Fits, CallInv, CallTypes, TokenInv
  <2>3. CallTypes' /\ TokenInv'
    BY <1>1, <2>1 DEF CallInv, CallTypes, TokenInv
  <2>4. ASSUME NEW b, NEW t, Cleared(b, t)
        PROVE  Cleared(b, t)' /\ (b \in Disruptive => t # token[c])
    BY <1>1, <2>1, <2>2, <2>4, ActionAssumption DEF Cleared, CallInv, CallTypes
  <2>5. Cleared(act[c], token[c])'
    BY <1>1, <1>2, <2>1, <2>2 DEF Cleared, CallInv, CallTypes
  <2>6. ClearedInv'
    BY <1>1, <2>1, <2>4, <2>5 DEF CallInv, CallTypes, ClearedInv
  <2>7. OneRunPerToken'
    BY <1>1, <2>1, <2>4 DEF CallInv, CallTypes, ClearedInv, OneRunPerToken, TokenUsedOnce
  <2> QED
    BY <2>3, <2>6, <2>7 DEF CallInv
<1> QED
  BY <1>3, <1>4

\* A live run.
LEMMA RunSteps ==
  ASSUME CallInv, NEW c \in Call, LiveRun(c)
  PROVE  CallInv'
<1> DEFINE entry == [action |-> act[c], token |-> token[c]]
<1>1. /\ pc[c] = "live" /\ pc' = [pc EXCEPT ![c] = "audit"] /\ live' = Append(live, entry)
      /\ UNCHANGED <<act, token, pending, issued>>
  BY DEF LiveRun, Goto
<1>2. Cleared(act[c], token[c]) /\ act[c] \in Action
  BY <1>1 DEF CallInv, ClearedInv, Cleared
<1>3. live \in Seq([action : Action, token : Call \cup {NoToken}])
  BY DEF CallInv, CallTypes
<1>4. entry \in [action : Action, token : Call \cup {NoToken}]
  BY <1>2 DEF CallInv, CallTypes
<1>5. /\ DOMAIN live' = DOMAIN live \cup {Len(live) + 1} /\ Len(live) + 1 \notin DOMAIN live
      /\ live'[Len(live) + 1] = entry /\ \A i \in DOMAIN live : live'[i] = live[i]
      /\ live' \in Seq([action : Action, token : Call \cup {NoToken}])
  BY <1>1, <1>3, <1>4
<1>6. CallTypes' /\ TokenInv'
  BY <1>1, <1>5 DEF CallInv, CallTypes, TokenInv
<1>7. ClearedInv'
  BY <1>1, <1>2, <1>5 DEF CallInv, CallTypes, ClearedInv, Cleared
<1>8. OneRunPerToken'
  BY <1>1, <1>5 DEF CallInv, CallTypes, OneRunPerToken, TokenUsedOnce
<1> QED
  BY <1>6, <1>7, <1>8 DEF CallInv

\* A crash ends the calls and empties the table.
LEMMA CrashSteps ==
  ASSUME CallInv, Crash
  PROVE  CallInv'
<1>1. CallTypes'
  BY DEF Crash, CallInv, CallTypes
<1>2. TokenInv' /\ OneRunPerToken'
  BY DEF Crash, CallInv, CallTypes, TokenInv, OneRunPerToken, TokenUsedOnce
<1>3. ClearedInv'
  BY DEF Crash, CallInv, CallTypes, ClearedInv, Cleared
<1> QED
  BY <1>1, <1>2, <1>3 DEF CallInv

----------------------------------------------------------------------------
IInv == OpsInv /\ CallInv

\* The invariant is inductive; the store and the calls have an invariant each.
THEOREM Invariance == Spec => []IInv
<1>1. Init => IInv
  BY OpsInitially, CallsInitially DEF Init, IInv
<1>2. ASSUME IInv, [Next]_vars PROVE OpsInv'
  <2>1. \/ UNCHANGED opsVars
        \/ \E i \in Item : Persist(i)
        \/ MakeStore \/ StartStep \/ WriterStep \/ Stop \/ ProcessGone
    BY <1>2, RecordAssumption DEF Next, CallStep, PreRequest, DryRun, Withheld, GoLive,
       AskApproval, ShowToken, LiveRun, LiveBuildRaises, FinishCall, AuditAndReturn, Issue,
       Audit, Asked, Crash, vars
  <2> QED
    BY <1>2, <2>1, OpsUnchanged, PersistStep, StartSteps, WriterSteps DEF IInv
<1>3. ASSUME IInv, [Next]_vars PROVE CallInv'
  <2>1. CASE UNCHANGED callVars
    BY <1>3, <2>1 DEF IInv, CallInv, CallTypes, TokenInv, ClearedInv, Cleared, OneRunPerToken,
         TokenUsedOnce, callVars
  <2>2. CASE Crash
    BY <1>3, <2>2, CrashSteps DEF IInv
  <2>3. CASE \/ \E c \in Call, a \in Action :
                  PreRequest(c, a) \/ \E t \in Issued \cup {NoToken} : DryRun(c, a, t)
             \/ \E c \in Call : CallStep(c)
    BY <1>3, <2>3, PlainSteps, IssueSteps, ShowSteps, RunSteps DEF IInv, CallStep
  <2> QED
    BY <1>3, <2>1, <2>2, <2>3 DEF Next, vars
<1>4. IInv /\ [Next]_vars => IInv'
  BY <1>2, <1>3 DEF IInv
<1> QED
  BY <1>1, <1>4, PTL DEF Spec

\* Every variable of the executor and the store keeps its domain.
THEOREM TypeCorrectness == Spec => []TypeOK
<1>1. IInv => TypeOK
  BY DEF IInv, OpsInv, FileTypes, MemTypes, CallInv, CallTypes, OpsTypeOK, TypeOK
<1> QED
  BY <1>1, Invariance, PTL

\* The schema version never runs ahead of the tables.
THEOREM SchemaIsComplete == Spec => []SchemaMatchesVersion
<1>1. IInv => SchemaMatchesVersion
  BY DEF IInv, OpsInv, MigrationInv, Ready, SchemaMatchesVersion
<1> QED
  BY <1>1, Invariance, PTL

\* kubectl changes the cluster only within the limits and with a fitting token.
THEOREM OnlyClearedRuns == Spec => []LiveWasCleared
<1>1. IInv => LiveWasCleared
  BY DEF IInv, CallInv, ClearedInv, Cleared, LiveWasCleared
<1> QED
  BY <1>1, Invariance, PTL

\* A token clears one live run.
THEOREM OneRunForAToken == Spec => []TokenUsedOnce
<1>1. IInv => TokenUsedOnce
  BY DEF IInv, CallInv, OneRunPerToken
<1> QED
  BY <1>1, Invariance, PTL

\* Every live run was cleared, and no clearance serves twice.
THEOREM OneRunPerClearance == Spec => []ClearedOnce
<1>1. LiveWasCleared /\ TokenUsedOnce => ClearedOnce
  BY DEF ClearedOnce
<1> QED
  BY <1>1, OnlyClearedRuns, OneRunForAToken, PTL

\* A live run is audited, or its audit is counted as dropped, by a store that is
\* ready.
THEOREM RunsAreAudited == Spec => LiveWasAudited
<1>1. ASSUME IInv, [Next]_vars,
             NEW c \in Call, pc[c] = "audit" \/ (pc[c] = "live" /\ live' # live),
             pc'[c] = "done", Ready, Ready'
      PROVE  Audit(c) \in ToSet(accepted') \/ drops' > drops
  <2>1. Persist(Audit(c))
    BY <1>1 DEF Next, CallStep, PreRequest, DryRun, Withheld, GoLive, AskApproval,
       ShowToken, Passed, LiveRun, LiveBuildRaises, FinishCall, AuditAndReturn, Return, Goto, Crash,
       ProcessGone, Ready, vars, callVars, IInv, CallInv, CallTypes
  <2>2. accepted \in Seq(Item) /\ drops \in Nat
    BY <1>1 DEF IInv, OpsInv, MemTypes
  <2>3. CASE accepted' = Append(accepted, Audit(c))
    <3>1. /\ Len(accepted) + 1 \in DOMAIN accepted'
          /\ accepted'[Len(accepted) + 1] = Audit(c)
      BY <2>2, <2>3
    <3> QED
      BY <3>1 DEF ToSet
  <2>4. CASE drops' = drops + 1
    BY <2>2, <2>4
  <2> QED
    BY <1>1, <2>1, <2>3, <2>4 DEF Persist
<1>2. IInv /\ [Next]_vars =>
        [\A c \in Call :
           /\ pc[c] = "audit" \/ (pc[c] = "live" /\ live' # live)
           /\ pc'[c] = "done" /\ Ready /\ Ready'
           => Audit(c) \in ToSet(accepted') \/ drops' > drops]_vars
  BY <1>1
<1> QED
  BY <1>2, Invariance, PTL DEF Spec, LiveWasAudited

----------------------------------------------------------------------------
(* What the queue, the batch and the file hold of the accepted writes *)

\* The pill is at position p of the queue and nowhere else, 0 when it is not there.
PillAt(p) == p \in 0..Len(q) /\ \A k \in 1..Len(q) : q[k] = Pill <=> k = p

\* How many writes the queue holds, and which of them position k is.
Queued(p) == IF p = 0 THEN Len(q) ELSE Len(q) - 1
Nth(p, k) == IF p # 0 /\ k > p THEN k - 1 ELSE k

\* How many of the accepted writes were flushed, with success or without.
Flushed(p) == Len(accepted) - (Len(batch) + Queued(p))

\* The accepted writes are those that were flushed, then those of the batch, then
\* those of the queue.
Placed(p) ==
  /\ Flushed(p) >= 0
  /\ \A k \in 1..Len(batch) : batch[k] = accepted[Flushed(p) + k]
  /\ \A k \in 1..Len(q) : k # p => q[k] = accepted[Flushed(p) + Len(batch) + Nth(p, k)]
  /\ \A k \in 1..Flushed(p) : accepted[k] \in ToSet(rows) \cup lost
  /\ \A m \in DOMAIN rows, k \in DOMAIN accepted : rows[m] = accepted[k] => k <= Flushed(p)

PlacedInv ==
  /\ \E p \in 0..Len(q) : PillAt(p) /\ Placed(p) /\ (p # 0 => phase = "join")
  /\ ~Ready => accepted = <<>> /\ q = <<>>
  /\ \A j, k \in DOMAIN accepted : accepted[j] = accepted[k] => j = k
  /\ WrittenInOrder

\* A record that was accepted or is in the file is that of a call which made it: no
\* call makes one twice.
Made(x) == \E c \in Call : \/ x = Audit(c) /\ pc[c] = "done"
                           \/ x = Asked(c) /\ pc[c] \in {"audit", "done"}

MadeInv == \A x \in ToSet(accepted) \cup ToSet(rows) : Made(x)

\* A sequence without e stays as it is when e is removed.
LEMMA RemoveNothing ==
  ASSUME NEW S, NEW s \in Seq(S), NEW e, \A k \in 1..Len(s) : s[k] # e
  PROVE  RemoveFirst(s, e) = s
BY DEF RemoveFirst

\* What is left of a sequence when the only e, at position p, is removed.
LEMMA RemoveOnly ==
  ASSUME NEW S, NEW s \in Seq(S), NEW e, NEW p \in 1..Len(s),
         \A k \in 1..Len(s) : s[k] = e <=> k = p
  PROVE  /\ RemoveFirst(s, e) \in Seq(S)
         /\ Len(RemoveFirst(s, e)) = Len(s) - 1
         /\ \A k \in 1..(Len(s) - 1) :
              RemoveFirst(s, e)[k] = IF k < p THEN s[k] ELSE s[k + 1]
<1>1. SelectInSeq(s, LAMBDA v : v = e) = p
  <2> DEFINE I == {i \in 1..Len(s) : s[i] = e}
  <2>1. I = {p}
    OBVIOUS
  <2>2. Min({p}) = p
    BY DEF Min
  <2> QED
    BY <2>1, <2>2 DEF SelectInSeq
<1>2. RemoveFirst(s, e) = SubSeq(s, 1, p - 1) \o SubSeq(s, p + 1, Len(s))
  BY <1>1 DEF RemoveFirst, RemoveAt
<1>3. \A k \in 1..Len(s) : s[k] \in S
  BY ElementOfSeq
<1>4. /\ SubSeq(s, 1, p - 1) \in Seq(S) /\ Len(SubSeq(s, 1, p - 1)) = p - 1
      /\ \A k \in 1..(p - 1) : SubSeq(s, 1, p - 1)[k] = s[k]
  BY <1>3, SubSeqProperties
<1>5. /\ SubSeq(s, p + 1, Len(s)) \in Seq(S) /\ Len(SubSeq(s, p + 1, Len(s))) = Len(s) - p
      /\ \A k \in 1..(Len(s) - p) : SubSeq(s, p + 1, Len(s))[k] = s[p + k]
  <2>1. p + 1 \in Int /\ Len(s) \in Int /\ \A k \in (p + 1)..Len(s) : s[k] \in S
    BY <1>3
  <2> QED
    BY <2>1, SubSeqProperties
<1> DEFINE lo == SubSeq(s, 1, p - 1)
           hi == SubSeq(s, p + 1, Len(s))
<1>6. lo \in Seq(S) /\ Len(lo) = p - 1 /\ \A k \in 1..(p - 1) : lo[k] = s[k]
  BY <1>4
<1>7. hi \in Seq(S) /\ Len(hi) = Len(s) - p /\ \A k \in 1..(Len(s) - p) : hi[k] = s[p + k]
  BY <1>5
<1> HIDE DEF lo, hi
<1>8. /\ lo \o hi \in Seq(S) /\ Len(lo \o hi) = Len(s) - 1
      /\ \A k \in 1..(Len(s) - 1) : (lo \o hi)[k] = IF k < p THEN lo[k] ELSE hi[k - (p - 1)]
  <2>1. /\ Len(lo) + Len(hi) = Len(s) - 1 /\ Len(lo) \in Nat /\ Len(hi) \in Nat
        /\ \A k \in 1..(Len(s) - 1) : k <= Len(lo) <=> k < p
    BY <1>6, <1>7
  <2>2. /\ lo \o hi \in Seq(S) /\ Len(lo \o hi) = Len(lo) + Len(hi)
        /\ \A k \in 1..(Len(lo) + Len(hi)) :
             (lo \o hi)[k] = IF k <= Len(lo) THEN lo[k] ELSE hi[k - Len(lo)]
    BY <1>6, <1>7, ConcatProperties
  <2> QED
    BY <1>6, <2>1, <2>2
<1>9. \A k \in 1..(Len(s) - 1) : (lo \o hi)[k] = IF k < p THEN s[k] ELSE s[k + 1]
  BY <1>6, <1>7, <1>8
<1> QED
  BY <1>2, <1>8, <1>9 DEF lo, hi

\* A sequence that agrees with the end of another is its suffix.
LEMMA SuffixByPosition ==
  ASSUME NEW S, NEW s \in Seq(S), NEW t \in Seq(S), Len(s) <= Len(t),
         \A k \in 1..Len(s) : s[k] = t[(Len(t) - Len(s)) + k]
  PROVE  IsSuffix(s, t)
<1>1. /\ Reverse(s) \in Seq(S) /\ Len(Reverse(s)) = Len(s)
      /\ \A k \in 1..Len(s) : Reverse(s)[k] = s[(Len(s) - k) + 1]
  <2>1. \A k \in 1..Len(s) : s[(Len(s) - k) + 1] \in S
    BY ElementOfSeq
  <2> QED
    BY <2>1 DEF Reverse
<1>2. /\ Reverse(t) \in Seq(S) /\ Len(Reverse(t)) = Len(t)
      /\ \A k \in 1..Len(t) : Reverse(t)[k] = t[(Len(t) - k) + 1]
  <2>1. \A k \in 1..Len(t) : t[(Len(t) - k) + 1] \in S
    BY ElementOfSeq
  <2> QED
    BY <2>1 DEF Reverse
<1> DEFINE a == SubSeq(Reverse(s), 1, Len(s))
           b == SubSeq(Reverse(t), 1, Len(s))
<1>3. a \in Seq(S) /\ Len(a) = Len(s) /\ \A k \in 1..Len(s) : a[k] = s[(Len(s) - k) + 1]
  BY <1>1, SubSeqFull
<1>4. b \in Seq(S) /\ Len(b) = Len(s) /\ \A k \in 1..Len(s) : b[k] = t[(Len(t) - k) + 1]
  <2>1. \A k \in 1..Len(s) : Reverse(t)[k] \in S
    BY <1>2, ElementOfSeq
  <2> QED
    BY <1>2, <2>1, SubSeqProperties
<1> HIDE DEF a, b
<1>5. a = b
  <2>1. ASSUME NEW k \in 1..Len(s) PROVE a[k] = b[k]
    <3>1. (Len(s) - k) + 1 \in 1..Len(s)
      OBVIOUS
    <3>2. (Len(t) - Len(s)) + ((Len(s) - k) + 1) = (Len(t) - k) + 1
      OBVIOUS
    <3> QED
      BY <1>3, <1>4, <3>1, <3>2
  <2> QED
    BY <1>3, <1>4, <2>1, SeqEqual
<1> QED
  BY <1>1, <1>2, <1>5 DEF IsSuffix, IsPrefix, a, b

\* What the queue holds without the pill.
LEMMA QueuedWrites ==
  ASSUME OpsInv, NEW p, PillAt(p)
  PROVE  /\ RemoveFirst(q, Pill) \in Seq(Item)
         /\ Len(RemoveFirst(q, Pill)) = Queued(p)
         /\ \A k \in 1..Queued(p) :
              RemoveFirst(q, Pill)[k] = IF p # 0 /\ k >= p THEN q[k + 1] ELSE q[k]
<1>1. q \in Seq(Item \cup {Pill}) /\ p \in 0..Len(q) /\ Pill \notin Item /\ Len(q) \in Nat
  BY Sizes DEF OpsInv, MemTypes, PillAt
<1>2. \A k \in 1..Len(q) : q[k] \in Item \cup {Pill} /\ (q[k] = Pill <=> k = p)
  BY <1>1, ElementOfSeq DEF PillAt
<1>3. CASE p = 0
  <2>1. RemoveFirst(q, Pill) = q
    BY <1>1, <1>2, <1>3, RemoveNothing
  <2>2. q \in Seq(Item)
    BY <1>1, <1>2, <1>3
  <2> QED
    BY <1>3, <2>1, <2>2 DEF Queued
<1>4. CASE p # 0
  <2> DEFINE r == RemoveFirst(q, Pill)
  <2>1. p \in 1..Len(q)
    BY <1>1, <1>4
  <2>2. /\ r \in Seq(Item \cup {Pill}) /\ Len(r) = Len(q) - 1
        /\ \A k \in 1..(Len(q) - 1) : r[k] = IF k < p THEN q[k] ELSE q[k + 1]
    BY <1>1, <1>2, <2>1, RemoveOnly
  <2> HIDE DEF r
  <2>3. \A k \in 1..Len(r) : r[k] \in Item
    BY <1>1, <1>2, <2>1, <2>2
  <2>4. r \in Seq(Item)
    BY <2>2, <2>3
  <2>5. Queued(p) = Len(q) - 1
    BY <1>4 DEF Queued
  <2>6. \A k \in 1..(Len(q) - 1) : r[k] = IF p # 0 /\ k >= p THEN q[k + 1] ELSE q[k]
    BY <1>1, <2>1, <2>2
  <2> QED
    BY <2>2, <2>4, <2>5, <2>6 DEF r
<1> QED
  BY <1>3, <1>4

\* The places of the writes give the property.
LEMMA PlacedKeeps ==
  ASSUME OpsInv, PlacedInv
  PROVE  WritesKept
<1>1. PICK p \in 0..Len(q) : PillAt(p) /\ Placed(p)
  BY DEF PlacedInv
<1> DEFINE r == RemoveFirst(q, Pill)
           u == batch \o r
<1>2. /\ r \in Seq(Item) /\ Len(r) = Queued(p) /\ Queued(p) \in Nat /\ Queued(p) <= QueueMax
      /\ \A k \in 1..Len(r) : r[k] = IF p # 0 /\ k >= p THEN q[k + 1] ELSE q[k]
  <2>1. p \in 0..Len(q) /\ Len(q) \in Nat /\ Len(q) <= QueueMax
    BY <1>1 DEF OpsInv, MemTypes
  <2> QED
    BY <1>1, <2>1, QueuedWrites, Sizes DEF Queued
<1>3. /\ batch \in Seq(Item) /\ Len(batch) \in Nat /\ Len(batch) <= BatchSize
      /\ accepted \in Seq(Item) /\ Len(accepted) \in Nat /\ Len(q) \in Nat
  BY DEF OpsInv, MemTypes
<1> HIDE DEF r
<1>4. /\ u \in Seq(Item) /\ Len(u) = Len(batch) + Queued(p)
      /\ \A k \in 1..Len(u) : u[k] = IF k <= Len(batch) THEN batch[k] ELSE r[k - Len(batch)]
  <2>1. /\ u \in Seq(Item) /\ Len(u) = Len(batch) + Len(r)
        /\ \A k \in 1..(Len(batch) + Len(r)) :
             u[k] = IF k <= Len(batch) THEN batch[k] ELSE r[k - Len(batch)]
    BY <1>2, <1>3, ConcatProperties
  <2> QED
    BY <1>2, <2>1
<1> HIDE DEF u
<1>5. Len(u) <= Len(accepted) /\ Len(accepted) - Len(u) = Flushed(p) /\ Flushed(p) \in Nat
  BY <1>1, <1>2, <1>3, <1>4 DEF Placed, Flushed
<1>6. ASSUME NEW k \in 1..Len(u)
      PROVE  u[k] = accepted[(Len(accepted) - Len(u)) + k]
  <2>1. CASE k <= Len(batch)
    BY <1>1, <1>3, <1>4, <1>5, <2>1 DEF Placed
  <2>2. CASE k > Len(batch)
    <3> DEFINE j == k - Len(batch)
               at == IF p # 0 /\ j >= p THEN j + 1 ELSE j
    <3>1. j \in 1..Queued(p) /\ k = Len(batch) + j
      BY <1>2, <1>3, <1>4, <2>2
    <3>2. at \in 1..Len(q) /\ at # p /\ Nth(p, at) = j
      BY <1>1, <1>3, <3>1 DEF Nth, Queued
    <3>3. u[k] = q[at]
      BY <1>2, <1>4, <2>2, <3>1
    <3>4. q[at] = accepted[Flushed(p) + Len(batch) + j]
      BY <1>1, <3>2 DEF Placed
    <3>5. Flushed(p) + Len(batch) + j = (Len(accepted) - Len(u)) + k
      BY <1>3, <1>5, <3>1
    <3> QED
      BY <3>3, <3>4, <3>5
  <2> QED
    BY <1>3, <2>1, <2>2
<1>7. IsSuffix(u, accepted)
  BY <1>3, <1>4, <1>5, <1>6, SuffixByPosition
<1>8. Len(u) <= QueueMax + BatchSize
  BY <1>2, <1>3, <1>4, Sizes
<1>9. \A n \in 1..(Len(accepted) - Len(u)) : accepted[n] \in ToSet(rows) \cup lost
  BY <1>1, <1>5 DEF Placed
<1> QED
  BY <1>7, <1>8, <1>9 DEF u, r, Unwritten, CrashLosesOnlyTheNewest, WritesKept, PlacedInv

\* Nothing is accepted yet, or no more: the places are trivial.
LEMMA NothingPlaced ==
  ASSUME accepted' = <<>>, q' = <<>>, batch' = <<>>
  PROVE  PlacedInv'
<1>1. /\ 0 \in 0..Len(q') /\ PillAt(0)' /\ DOMAIN accepted' = {} /\ Len(accepted') = 0
      /\ Len(q') = 0 /\ Len(batch') = 0
  BY DEF PillAt
<1>2. Placed(0)'
  BY <1>1 DEF Placed, Flushed, Queued
<1>3. WrittenInOrder'
  BY <1>1 DEF WrittenInOrder, Before
<1> QED
  BY <1>1, <1>2, <1>3 DEF PlacedInv

\* The places depend on the queue, the batch, the accepted writes and the file; more
\* lost writes and a later phase do no harm.
LEMMA PlacedStays ==
  ASSUME PlacedInv, UNCHANGED <<rows, q, batch, accepted, lost>>,
         Ready' => Ready, phase = "join" => phase' = "join", ~Ready' => accepted = <<>> /\ q = <<>>
  PROVE  PlacedInv'
<1>1. PICK p \in 0..Len(q) : PillAt(p) /\ Placed(p) /\ (p # 0 => phase = "join")
  BY DEF PlacedInv
<1>2. PillAt(p)' /\ p \in 0..Len(q') /\ (p # 0 => phase' = "join")
  BY <1>1 DEF PillAt
<1>3. Flushed(p)' = Flushed(p) /\ ToSet(rows)' = ToSet(rows)
  BY DEF Flushed, Queued, ToSet
<1>4. Placed(p)'
  BY <1>1, <1>3 DEF Placed
<1> QED
  BY <1>2, <1>4 DEF PlacedInv, WrittenInOrder, Before

\* A new write gets the last place.
LEMMA PlacedPersist ==
  ASSUME OpsInv, PlacedInv, NEW i \in Item, i \notin ToSet(accepted) \cup ToSet(rows), Persist(i)
  PROVE  PlacedInv'
<1>1. PICK p \in 0..Len(q) : PillAt(p) /\ Placed(p) /\ (p # 0 => phase = "join")
  BY DEF PlacedInv
<1>2. CASE UNCHANGED <<q, accepted>>
  <2>1. UNCHANGED <<rows, phase, batch, lost>>
    BY DEF Persist, fileVars
  <2> QED
    BY <1>2, <2>1, PlacedStays DEF Ready, PlacedInv
<1>3. CASE Ready /\ q' = Append(q, i) /\ accepted' = Append(accepted, i)
  <2>1. UNCHANGED <<rows, phase, batch, lost>>
    BY DEF Persist, fileVars
  <2>2. /\ q \in Seq(Item \cup {Pill}) /\ Len(q) \in Nat
        /\ batch \in Seq(Item) /\ Len(batch) \in Nat
        /\ accepted \in Seq(Item) /\ Len(accepted) \in Nat /\ i # Pill
    BY Sizes DEF OpsInv, MemTypes
  <2>3. /\ Len(q') = Len(q) + 1 /\ q'[Len(q) + 1] = i /\ \A k \in 1..Len(q) : q'[k] = q[k]
        /\ Len(accepted') = Len(accepted) + 1 /\ accepted'[Len(accepted) + 1] = i
        /\ \A k \in 1..Len(accepted) : accepted'[k] = accepted[k]
        /\ DOMAIN accepted = 1..Len(accepted) /\ DOMAIN accepted' = 1..(Len(accepted) + 1)
    BY <1>3, <2>2
  <2>4. PillAt(p)' /\ p \in 0..Len(q')
    <3>1. p \in Nat /\ p <= Len(q) /\ \A k \in 1..Len(q) : q[k] = Pill <=> k = p
      BY <1>1, <2>2 DEF PillAt
    <3>2. p \in 0..Len(q')
      BY <2>2, <2>3, <3>1
    <3>3. \A k \in 1..Len(q') : k \in 1..Len(q) \/ k = Len(q) + 1
      BY <2>2, <2>3
    <3>4. \A k \in 1..Len(q') : q'[k] = Pill <=> k = p
      BY <2>2, <2>3, <3>1, <3>3
    <3> QED
      BY <3>2, <3>4 DEF PillAt
  <2>5. /\ Queued(p)' = Queued(p) + 1 /\ Flushed(p)' = Flushed(p) /\ Flushed(p) \in Nat
        /\ Flushed(p) + Len(batch) + Queued(p) = Len(accepted) /\ Queued(p) \in Nat
        /\ Len(batch') = Len(batch)
    <3>1. Queued(p)' = Queued(p) + 1 /\ Queued(p) \in Nat /\ Len(batch') = Len(batch)
      BY <1>1, <2>1, <2>2, <2>3 DEF Queued
    <3>2. Flushed(p) >= 0
      BY <1>1 DEF Placed
    <3>3. /\ Flushed(p) = Len(accepted) - (Len(batch) + Queued(p))
          /\ Flushed(p)' = Len(accepted') - (Len(batch') + Queued(p)')
      BY DEF Flushed
    <3>4. Len(accepted') = Len(accepted) + 1 /\ Len(accepted) \in Nat /\ Len(batch) \in Nat
      BY <2>2, <2>3
    <3>5. Flushed(p) \in Nat /\ Flushed(p) + Len(batch) + Queued(p) = Len(accepted)
      BY <3>1, <3>2, <3>3, <3>4
    <3>6. Flushed(p)' = (Len(accepted) + 1) - (Len(batch) + (Queued(p) + 1))
      BY <3>1, <3>3, <3>4
    <3>7. Flushed(p)' = Flushed(p)
      BY <3>1, <3>3, <3>4, <3>6
    <3> QED
      BY <3>1, <3>5, <3>7
  <2>6. Placed(p)'
    <3>1. \A k \in 1..Len(batch') : batch'[k] = accepted'[Flushed(p)' + k]
      BY <1>1, <2>1, <2>2, <2>3, <2>5 DEF Placed
    <3>2. ASSUME NEW k \in 1..Len(q'), k # p
          PROVE  q'[k] = accepted'[Flushed(p)' + Len(batch') + Nth(p, k)]
      <4>1. CASE k <= Len(q)
        <5>1. Nth(p, k) \in 1..Queued(p)
          BY <1>1, <2>2, <3>2, <4>1 DEF Nth, Queued
        <5>2. q[k] = accepted[Flushed(p) + Len(batch) + Nth(p, k)]
          BY <1>1, <2>2, <3>2, <4>1 DEF Placed
        <5>3. Flushed(p) + Len(batch) + Nth(p, k) \in 1..Len(accepted)
          BY <2>2, <2>5, <5>1
        <5> QED
          BY <2>1, <2>2, <2>3, <2>5, <4>1, <5>2, <5>3
      <4>2. CASE k = Len(q) + 1
        <5>1. Nth(p, k) = Queued(p) + 1
          BY <1>1, <2>2, <4>2 DEF Nth, Queued
        <5> QED
          BY <2>1, <2>2, <2>3, <2>5, <4>2, <5>1
      <4> QED
        BY <2>2, <2>3, <4>1, <4>2
    <3>3. \A k \in 1..Flushed(p)' : accepted'[k] \in ToSet(rows') \cup lost'
      BY <1>1, <2>1, <2>2, <2>3, <2>5 DEF Placed
    <3>4. \A m \in DOMAIN rows', k \in DOMAIN accepted' :
            rows'[m] = accepted'[k] => k <= Flushed(p)'
      <4>1. ASSUME NEW m \in DOMAIN rows, NEW k \in 1..(Len(accepted) + 1), rows[m] = accepted'[k]
            PROVE  k <= Flushed(p)
        <5>1. rows[m] # i
          BY DEF ToSet
        <5>2. k \in 1..Len(accepted) /\ rows[m] = accepted[k]
          BY <2>2, <2>3, <4>1, <5>1
        <5> QED
          BY <1>1, <2>3, <5>2 DEF Placed
      <4> QED
        BY <2>1, <2>3, <2>5, <4>1
    <3>5. Flushed(p)' >= 0
      BY <2>5
    <3> QED
      BY <3>1, <3>2, <3>3, <3>4, <3>5 DEF Placed
  <2>7. \A j, k \in DOMAIN accepted' : accepted'[j] = accepted'[k] => j = k
    BY <2>2, <2>3 DEF PlacedInv, ToSet
  <2>8. WrittenInOrder'
    <3>1. ASSUME NEW a, NEW b, Before(accepted, a, b)', Before(rows, b, a)'
          PROVE  Before(accepted, a, b)
      <4>1. a # i /\ b # i
        BY <2>1, <3>1 DEF Before, ToSet
      <4> QED
        BY <2>2, <2>3, <3>1, <4>1 DEF Before
    <3>2. \A a, b \in Item : Before(accepted, a, b) => ~Before(rows, b, a)
      BY DEF WrittenInOrder, PlacedInv
    <3>3. \A a, b : Before(rows, b, a)' => Before(rows, b, a)
      BY <2>1 DEF Before
    <3> QED
      BY <3>1, <3>2, <3>3 DEF WrittenInOrder
  <2> QED
    BY <1>1, <1>3, <2>1, <2>4, <2>6, <2>7, <2>8 DEF PlacedInv, Ready
<1> QED
  BY <1>2, <1>3 DEF Persist

\* A write moves from the head of the queue to the end of the batch; or the pill goes.
LEMMA PlacedTake ==
  ASSUME OpsInv, PlacedInv, Take
  PROVE  PlacedInv'
<1>1. PICK p \in 0..Len(q) : PillAt(p) /\ Placed(p) /\ (p # 0 => phase = "join")
  BY DEF PlacedInv
<1>2. /\ q # <<>> /\ q' = Tail(q) /\ UNCHANGED <<rows, phase, accepted, lost>>
      /\ IF Head(q) = Pill THEN UNCHANGED batch ELSE batch' = Append(batch, Head(q))
  BY DEF Take, fileVars
<1>3. /\ q \in Seq(Item \cup {Pill}) /\ Len(q) \in Nat /\ batch \in Seq(Item) /\ Len(batch) \in Nat
      /\ accepted \in Seq(Item) /\ Len(accepted) \in Nat
  BY DEF OpsInv, MemTypes
<1>4. /\ Len(q) > 0 /\ Len(q') = Len(q) - 1 /\ Head(q) = q[1]
      /\ \A k \in 1..Len(q') : q'[k] = q[k + 1]
  BY <1>2, <1>3
<1>5. /\ WrittenInOrder' /\ \A j, k \in DOMAIN accepted' : accepted'[j] = accepted'[k] => j = k
      /\ ~Ready' => accepted' = <<>> /\ q' = <<>>
  BY <1>2 DEF PlacedInv, WrittenInOrder, Before, Ready
<1>6. CASE p = 1
  <2>1. Head(q) = Pill /\ UNCHANGED batch
    BY <1>1, <1>2, <1>4, <1>6 DEF PillAt
  <2>2. PillAt(0)' /\ 0 \in 0..Len(q')
    BY <1>1, <1>3, <1>4, <1>6 DEF PillAt
  <2>3. Flushed(0)' = Flushed(p)
    BY <1>2, <1>3, <1>4, <1>6, <2>1 DEF Flushed, Queued
  <2>4. \A k \in 1..Len(q') : q'[k] = accepted[Flushed(p) + Len(batch) + k]
    <3>1. \A k \in 1..Len(q') : k + 1 \in 1..Len(q) /\ k + 1 # p /\ Nth(p, k + 1) = k
      BY <1>3, <1>4, <1>6 DEF Nth
    <3> QED
      BY <1>1, <1>4, <3>1 DEF Placed
  <2>5. Placed(0)'
    BY <1>1, <1>2, <2>1, <2>3, <2>4 DEF Placed, Nth, ToSet
  <2> QED
    BY <1>5, <2>2, <2>5 DEF PlacedInv
<1>7. CASE p # 1
  <2> DEFINE n == IF p = 0 THEN 0 ELSE p - 1
  <2>1. q[1] # Pill /\ q[1] \in Item
    BY <1>1, <1>3, <1>4, <1>7, ElementOfSeq DEF PillAt
  <2>2. /\ Len(batch') = Len(batch) + 1 /\ batch'[Len(batch) + 1] = q[1]
        /\ \A k \in 1..Len(batch) : batch'[k] = batch[k]
    BY <1>2, <1>3, <1>4, <2>1
  <2>3. n \in 0..Len(q') /\ (n # 0 => p # 0)
    BY <1>3, <1>4, <1>7
  <2>4. PillAt(n)'
    BY <1>1, <1>3, <1>4, <1>7, <2>3 DEF PillAt
  <2>5. Flushed(n)' = Flushed(p) /\ Flushed(p) \in Nat
    BY <1>1, <1>2, <1>3, <1>4, <1>7, <2>2 DEF Flushed, Queued, Placed
  <2>6. \A k \in 1..Len(batch') : batch'[k] = accepted'[Flushed(n)' + k]
    <3>1. q[1] = accepted[Flushed(p) + Len(batch) + 1]
      BY <1>1, <1>3, <1>4, <1>7 DEF Placed, Nth
    <3>2. \A k \in 1..Len(batch) : batch[k] = accepted[Flushed(p) + k]
      BY <1>1 DEF Placed
    <3>3. accepted' = accepted
      BY <1>2
    <3>4. ASSUME NEW k \in 1..Len(batch')
          PROVE  batch'[k] = accepted[Flushed(p) + k]
      <4>1. CASE k <= Len(batch)
        BY <1>3, <2>2, <3>2, <4>1
      <4>2. CASE k = Len(batch) + 1
        BY <1>3, <2>2, <2>5, <3>1, <4>2
      <4> QED
        BY <1>3, <2>2, <4>1, <4>2
    <3> QED
      BY <2>5, <3>3, <3>4
  <2>7. ASSUME NEW k \in 1..Len(q'), k # n
        PROVE  q'[k] = accepted'[Flushed(n)' + Len(batch') + Nth(n, k)]
    <3>1. k + 1 \in 1..Len(q) /\ k + 1 # p /\ Nth(p, k + 1) = Nth(n, k) + 1 /\ Nth(n, k) \in Nat
      BY <1>3, <1>4, <1>7, <2>7 DEF Nth
    <3>2. q[k + 1] = accepted[Flushed(p) + Len(batch) + Nth(p, k + 1)]
      BY <1>1, <3>1 DEF Placed
    <3>3. Flushed(p) + Len(batch) + Nth(p, k + 1) = Flushed(n)' + Len(batch') + Nth(n, k)
      BY <1>3, <2>2, <2>5, <3>1
    <3> QED
      BY <1>2, <1>4, <3>2, <3>3
  <2>8. Placed(n)'
    BY <1>1, <1>2, <2>5, <2>6, <2>7 DEF Placed, ToSet
  <2> HIDE DEF n
  <2> QED
    BY <1>1, <1>2, <1>5, <2>3, <2>4, <2>8 DEF PlacedInv
<1> QED
  BY <1>6, <1>7

\* The batch is flushed, or lost: its places now count as flushed.
LEMMA PlacedFlush ==
  ASSUME OpsInv, PlacedInv, Flush
  PROVE  PlacedInv' /\ ToSet(rows') \subseteq ToSet(rows) \cup ToSet(accepted)
<1>1. PICK p \in 0..Len(q) : PillAt(p) /\ Placed(p) /\ (p # 0 => phase = "join")
  BY DEF PlacedInv
<1>2. /\ batch' = <<>> /\ UNCHANGED <<phase, q, accepted>>
      /\ \/ rows' = rows \o batch /\ UNCHANGED lost
         \/ lost' = lost \cup ToSet(batch) /\ UNCHANGED rows
  BY DEF Flush
<1>3. /\ rows \in Seq(Item) /\ Len(rows) \in Nat /\ Len(q) \in Nat
      /\ batch \in Seq(Item) /\ Len(batch) \in Nat
      /\ accepted \in Seq(Item) /\ Len(accepted) \in Nat /\ DOMAIN accepted = 1..Len(accepted)
  BY DEF OpsInv, FileTypes, MemTypes
<1>4. /\ Flushed(p)' = Flushed(p) + Len(batch) /\ Flushed(p) \in Nat /\ Len(batch') = 0
      /\ Queued(p) \in Nat /\ Len(accepted) = Flushed(p) + Len(batch) + Queued(p)
  <2>1. Queued(p)' = Queued(p) /\ Queued(p) \in Nat /\ Len(batch') = 0
    BY <1>1, <1>2, <1>3 DEF Queued
  <2>2. Flushed(p) >= 0
    BY <1>1 DEF Placed
  <2> QED
    BY <1>2, <1>3, <2>1, <2>2 DEF Flushed
<1>5. \A k \in 1..Len(batch) : /\ batch[k] = accepted[Flushed(p) + k]
                               /\ Flushed(p) + k \in DOMAIN accepted
  BY <1>1, <1>3, <1>4 DEF Placed
<1>6. \A m \in DOMAIN rows' :
        \/ m \in DOMAIN rows /\ rows'[m] = rows[m]
        \/ /\ m \notin DOMAIN rows /\ m - Len(rows) \in 1..Len(batch)
           /\ rows'[m] = batch[m - Len(rows)]
  <2>1. CASE rows' = rows \o batch
    BY <1>3, <2>1, ConcatProperties
  <2> QED
    BY <1>2, <2>1
<1>7. ToSet(rows) \cup lost \cup ToSet(batch) \subseteq ToSet(rows') \cup lost'
  <2>1. CASE rows' = rows \o batch /\ UNCHANGED lost
    <3>1. /\ DOMAIN rows' = 1..(Len(rows) + Len(batch)) /\ DOMAIN rows = 1..Len(rows)
          /\ DOMAIN batch = 1..Len(batch)
          /\ \A m \in DOMAIN rows : rows'[m] = rows[m]
          /\ \A j \in 1..Len(batch) : rows'[Len(rows) + j] = batch[j]
      BY <1>3, <2>1, ConcatProperties
    <3>2. ToSet(rows) \subseteq ToSet(rows')
      BY <1>3, <3>1 DEF ToSet
    <3>3. \A j \in 1..Len(batch) : Len(rows) + j \in DOMAIN rows'
      BY <1>3, <3>1
    <3>4. ToSet(batch) \subseteq ToSet(rows')
      BY <3>1, <3>3 DEF ToSet
    <3> QED
      BY <2>1, <3>2, <3>4
  <2> QED
    BY <1>2, <2>1 DEF ToSet
<1>8. PillAt(p)' /\ p \in 0..Len(q') /\ (p # 0 => phase' = "join")
  BY <1>1, <1>2 DEF PillAt
<1>9. Placed(p)'
  <2>1. ASSUME NEW k \in 1..Len(q), k # p
        PROVE  q[k] = accepted[Flushed(p)' + Len(batch') + Nth(p, k)]
    <3>1. Flushed(p)' + Len(batch') + Nth(p, k) = Flushed(p) + Len(batch) + Nth(p, k)
      BY <1>1, <1>3, <1>4 DEF Nth
    <3> QED
      BY <1>1, <2>1, <3>1 DEF Placed
  <2>2. ASSUME NEW k \in 1..Flushed(p)' PROVE accepted'[k] \in ToSet(rows') \cup lost'
    <3>1. CASE k <= Flushed(p)
      <4>1. accepted[k] \in ToSet(rows) \cup lost
        BY <1>1, <1>4, <3>1 DEF Placed
      <4> QED
        BY <1>2, <1>7, <4>1
    <3>2. CASE k > Flushed(p)
      <4>1. k - Flushed(p) \in 1..Len(batch)
        BY <1>3, <1>4, <3>2
      <4>2. accepted[k] = batch[k - Flushed(p)]
        BY <1>3, <1>4, <1>5, <4>1
      <4>3. accepted[k] \in ToSet(batch)
        BY <1>3, <4>1, <4>2 DEF ToSet
      <4> QED
        BY <1>2, <1>7, <4>3
    <3> QED
      BY <1>4, <3>1, <3>2
  <2>3. ASSUME NEW m \in DOMAIN rows', NEW k \in DOMAIN accepted, rows'[m] = accepted[k]
        PROVE  k <= Flushed(p)'
    <3>1. CASE m \in DOMAIN rows /\ rows'[m] = rows[m]
      <4>1. k <= Flushed(p)
        BY <1>1, <2>3, <3>1 DEF Placed
      <4> QED
        BY <1>3, <1>4, <4>1
    <3>2. CASE m - Len(rows) \in 1..Len(batch) /\ rows'[m] = batch[m - Len(rows)]
      <4>1. k = Flushed(p) + (m - Len(rows))
        BY <1>5, <2>3, <3>2 DEF PlacedInv
      <4> QED
        BY <1>3, <1>4, <3>2, <4>1
    <3> QED
      BY <1>6, <3>1, <3>2
  <2> QED
    BY <1>2, <1>3, <1>4, <2>1, <2>2, <2>3 DEF Placed
<1>10. WrittenInOrder'
  <2>1. ASSUME NEW a \in Item, NEW b \in Item, Before(accepted, a, b), Before(rows', b, a)
        PROVE  FALSE
    <3>1. PICK i \in DOMAIN accepted, j \in DOMAIN accepted :
            i < j /\ accepted[i] = a /\ accepted[j] = b
      BY <2>1 DEF Before
    <3>2. PICK m \in DOMAIN rows', n \in DOMAIN rows' : m < n /\ rows'[m] = b /\ rows'[n] = a
      BY <2>1 DEF Before
    <3>3. CASE n \in DOMAIN rows
      <4>1. m \in DOMAIN rows /\ rows[m] = b /\ rows[n] = a
        <5>1. rows' \in Seq(Item)
          <6>1. rows \o batch \in Seq(Item)
            BY <1>3
          <6> QED
            BY <1>2, <1>3, <6>1
        <5>2. m \in Nat /\ m >= 1 /\ n \in 1..Len(rows) /\ DOMAIN rows = 1..Len(rows)
          BY <1>3, <3>2, <3>3, <5>1
        <5>3. m \in DOMAIN rows
          BY <3>2, <5>2
        <5> QED
          BY <1>3, <1>6, <3>2, <3>3, <5>2, <5>3
      <4> QED
        BY <2>1, <3>2, <3>3, <4>1 DEF Before, WrittenInOrder, PlacedInv
    <3>4. CASE n \notin DOMAIN rows
      <4>1. n - Len(rows) \in 1..Len(batch) /\ i = Flushed(p) + (n - Len(rows))
        BY <1>5, <1>6, <3>1, <3>2, <3>4 DEF PlacedInv
      <4>2. CASE m \in DOMAIN rows
        <5>1. rows[m] = accepted[j]
          BY <1>3, <1>6, <3>1, <3>2, <4>2
        <5>2. j <= Flushed(p)
          BY <1>1, <3>1, <4>2, <5>1 DEF Placed
        <5> QED
          BY <1>3, <1>4, <3>1, <4>1, <5>2
      <4>3. CASE m \notin DOMAIN rows
        <5>1. m - Len(rows) \in 1..Len(batch) /\ j = Flushed(p) + (m - Len(rows))
          BY <1>5, <1>6, <3>1, <3>2, <4>3 DEF PlacedInv
        <5>2. m \in Int /\ n \in Int
          <6>1. rows \o batch \in Seq(Item)
            BY <1>3
          <6>2. rows' \in Seq(Item)
            BY <1>2, <1>3, <6>1
          <6> QED
            BY <3>2, <6>2
        <5>3. Len(rows) \in Nat /\ Flushed(p) \in Nat
          BY <1>3, <1>4
        <5> QED
          BY <3>1, <3>2, <4>1, <5>1, <5>2, <5>3
      <4> QED
        BY <4>2, <4>3
    <3> QED
      BY <3>3, <3>4
  <2> QED
    BY <1>2, <2>1 DEF WrittenInOrder, Before
<1>11. ToSet(rows') \subseteq ToSet(rows) \cup ToSet(accepted)
  BY <1>5, <1>6 DEF ToSet
<1>12. ~Ready' => accepted' = <<>> /\ q' = <<>>
  BY <1>2 DEF PlacedInv, Ready
<1> QED
  BY <1>2, <1>8, <1>9, <1>10, <1>11, <1>12 DEF PlacedInv

\* The places survive the rest of the store's steps: until the store is ready there is
\* nothing to place, stop() adds the pill, and an idle writer flushes later.
LEMMA PlacedRest ==
  ASSUME OpsInv, PlacedInv,
         MakeStore \/ StartStep \/ IdleFlush \/ Stop \/ ProcessGone \/ UNCHANGED opsVars
  PROVE  PlacedInv' /\ ToSet(rows') \subseteq ToSet(rows) \cup ToSet(accepted)
<1>1. CASE MakeStore \/ CheckFile \/ EnsureSchema \/ Migrate \/ RecordVersion \/ CleanAndServe
  <2>1. ~Ready /\ UNCHANGED <<q, batch, accepted>>
    BY <1>1 DEF MakeStore, CheckFile, EnsureSchema, Migrate, RecordVersion, CleanAndServe, Ready,
         memVars
  <2>2. accepted' = <<>> /\ q' = <<>> /\ batch' = <<>>
    BY <2>1 DEF OpsInv, WriterInv, PlacedInv
  <2>3. PlacedInv'
    BY <2>2, NothingPlaced
  <2>4. CASE rows' = rows \/ rows' = <<>>
    BY <2>3, <2>4 DEF ToSet
  <2>5. CASE CleanAndServe
    <3>1. PICK n \in 0..Len(rows) : rows' = SubSeq(rows, n + 1, Len(rows))
      BY <2>5 DEF CleanAndServe
    <3>2. rows \in Seq(Item) /\ Len(rows) \in Nat /\ DOMAIN rows = 1..Len(rows)
      BY DEF OpsInv, FileTypes
    <3>3. \A k \in (n + 1)..Len(rows) : rows[k] \in Item
      BY <3>1, <3>2, ElementOfSeq
    <3>4. /\ rows' \in Seq(Item) /\ Len(rows') = Len(rows) - n
          /\ \A k \in 1..(Len(rows) - n) : rows'[k] = rows[n + k]
      <4>1. n + 1 \in Int /\ Len(rows) \in Int
        BY <3>1, <3>2
      <4> QED
        BY <3>1, <3>2, <3>3, <4>1, SubSeqProperties
    <3>5. DOMAIN rows' = 1..(Len(rows) - n)
      BY <3>4
    <3>6. \A k \in 1..(Len(rows) - n) : n + k \in 1..Len(rows)
      BY <3>1, <3>2
    <3>7. ToSet(rows') \subseteq ToSet(rows)
      BY <3>2, <3>4, <3>5, <3>6 DEF ToSet
    <3> QED
      BY <2>3, <3>7
  <2> QED
    BY <1>1, <2>4, <2>5 DEF MakeStore, CheckFile, EnsureSchema, Migrate, RecordVersion, fileVars
<1>2. CASE Stop
  <2>1. PICK p \in 0..Len(q) : PillAt(p) /\ Placed(p) /\ (p # 0 => phase = "join")
    BY DEF PlacedInv
  <2>2. /\ p = 0 /\ q' = Append(q, Pill) /\ phase' = "join"
        /\ UNCHANGED <<rows, batch, accepted, lost>>
    BY <1>2, <2>1 DEF Stop, fileVars
  <2>3. /\ q \in Seq(Item \cup {Pill}) /\ Len(q) \in Nat
        /\ Len(q') = Len(q) + 1 /\ q'[Len(q) + 1] = Pill /\ \A k \in 1..Len(q) : q'[k] = q[k]
    BY <2>2 DEF OpsInv, MemTypes
  <2>8. PICK n \in Nat : n = Len(q) + 1
    BY <2>3
  <2>4. PillAt(n)' /\ n \in 0..Len(q')
    BY <2>1, <2>2, <2>3, <2>8 DEF PillAt
  <2>5. Flushed(n)' = Flushed(p)
    BY <2>2, <2>3, <2>8 DEF Flushed, Queued
  <2>6. \A k \in 1..Len(q') : k # n => k \in 1..Len(q) /\ Nth(n, k) = k /\ Nth(p, k) = k
    BY <2>2, <2>3, <2>8 DEF Nth
  <2>7. Placed(n)'
    <3>1. \A k \in 1..Len(q') :
            k # n => q'[k] = accepted'[Flushed(n)' + Len(batch') + Nth(n, k)]
      BY <2>1, <2>2, <2>3, <2>5, <2>6 DEF Placed
    <3>2. /\ Flushed(n)' >= 0
          /\ \A k \in 1..Len(batch') : batch'[k] = accepted'[Flushed(n)' + k]
          /\ \A k \in 1..Flushed(n)' : accepted'[k] \in ToSet(rows') \cup lost'
          /\ \A m \in DOMAIN rows', k \in DOMAIN accepted' :
               rows'[m] = accepted'[k] => k <= Flushed(n)'
      BY <2>1, <2>2, <2>5 DEF Placed
    <3> QED
      BY <3>1, <3>2 DEF Placed
  <2> QED
    BY <2>2, <2>4, <2>7 DEF PlacedInv, Ready, WrittenInOrder, Before
<1>3. CASE IdleFlush \/ UNCHANGED opsVars
  <2>1. UNCHANGED <<rows, q, batch, accepted, lost, phase>>
    BY <1>3 DEF IdleFlush, opsVars, fileVars, memVars
  <2>2. Ready' <=> Ready
    BY <2>1 DEF Ready
  <2>3. PlacedInv'
    BY <2>1, <2>2, PlacedStays DEF PlacedInv
  <2> QED
    BY <2>1, <2>3
<1>4. CASE ProcessGone
  <2>1. PlacedInv'
    BY <1>4, NothingPlaced DEF ProcessGone
  <2> QED
    BY <1>4, <2>1 DEF ProcessGone
<1> QED
  BY <1>1, <1>2, <1>3, <1>4 DEF StartStep

\* A call that is not over has not made its audit record, one that has not asked no
\* request.
LEMMA FreshRecords ==
  ASSUME MadeInv, NEW c \in Call
  PROVE  /\ pc[c] # "done" => Audit(c) \notin ToSet(accepted) \cup ToSet(rows)
         /\ pc[c] \notin {"audit", "done"} => Asked(c) \notin ToSet(accepted) \cup ToSet(rows)
BY DEF MadeInv, Made, Audit, Asked

\* What a step does to the store: a call's record, or a step of the store's own.
LEMMA StoreStep ==
  ASSUME CallTypes, Next
  PROVE  \/ \E c \in Call : /\ pc[c] # "done" /\ pc'[c] = "done"
                            /\ Persist(Audit(c))
         \/ \E c \in Call : /\ pc[c] \in {"idle", "gate"} /\ pc'[c] \in {"audit", "done"}
                            /\ Persist(Asked(c))
         \/ MakeStore \/ StartStep \/ WriterStep \/ Stop \/ ProcessGone \/ UNCHANGED opsVars
<1>1. CASE \E c \in Call, a \in Action : PreRequest(c, a)
  BY <1>1 DEF PreRequest, Issue, Return, CallTypes
<1>2. CASE \E c \in Call, a \in Action : \E t \in Issued \cup {NoToken} : DryRun(c, a, t)
  BY <1>2 DEF DryRun, AuditAndReturn, Return, CallTypes
<1>3. ASSUME NEW c \in Call, CallStep(c)
      PROVE  \/ pc[c] # "done" /\ pc'[c] = "done" /\ Persist(Audit(c))
             \/ /\ pc[c] \in {"idle", "gate"} /\ pc'[c] \in {"audit", "done"}
                /\ Persist(Asked(c))
             \/ UNCHANGED opsVars
  BY <1>3 DEF CallStep, Withheld, GoLive, AskApproval, ShowToken, LiveRun, LiveBuildRaises,
     FinishCall, Passed, Issue, Goto, AuditAndReturn, Return, CallTypes
<1> QED
  BY <1>1, <1>2, <1>3 DEF Next, Crash

\* A call goes forward only, so a record that was made stays made.
LEMMA MadeStays ==
  ASSUME CallTypes, Next, NEW x, Made(x)
  PROVE  Made(x)'
<1>1. \A c \in Call : /\ pc[c] = "done" => pc'[c] = "done"
                      /\ pc[c] = "audit" => pc'[c] \in {"audit", "done"}
  BY DEF CallTypes, Next, CallStep, PreRequest, DryRun, Withheld, GoLive, AskApproval, ShowToken,
       Passed, LiveRun, LiveBuildRaises, FinishCall, AuditAndReturn, Return, Goto, Crash, callVars
<1> QED
  BY <1>1 DEF Made, Audit, Asked

\* A step keeps the places and makes each record once.
LEMMA PlacedStep ==
  ASSUME OpsInv, CallInv, PlacedInv, MadeInv, [Next]_vars
  PROVE  PlacedInv' /\ MadeInv'
<1>1. CASE UNCHANGED vars
  <2>1. UNCHANGED opsVars /\ UNCHANGED pc
    BY <1>1 DEF vars, callVars
  <2>2. PlacedInv'
    BY <2>1, PlacedRest
  <2>3. MadeInv'
    BY <2>1 DEF MadeInv, Made, opsVars, fileVars, memVars, ToSet
  <2> QED
    BY <2>2, <2>3
<1>2. ASSUME Next, NEW c \in Call, NEW x \in {Audit(c), Asked(c)}, Persist(x),
             x \notin ToSet(accepted) \cup ToSet(rows), Made(x)'
      PROVE  PlacedInv' /\ MadeInv'
  <2>1. x \in Item
    BY <1>2, RecordAssumption DEF Audit, Asked
  <2>2. PlacedInv'
    BY <1>2, <2>1, PlacedPersist
  <2>3. ToSet(accepted') \subseteq ToSet(accepted) \cup {x} /\ UNCHANGED rows
    <3>1. accepted \in Seq(Item)
      BY DEF OpsInv, MemTypes
    <3>2. CASE accepted' = Append(accepted, x)
      BY <1>2, <3>1, <3>2 DEF ToSet, Persist, fileVars
    <3> QED
      BY <1>2, <3>2 DEF ToSet, Persist, fileVars
  <2>4. MadeInv'
    BY <1>2, <2>3, MadeStays DEF MadeInv, CallInv
  <2> QED
    BY <2>2, <2>4
<1>3. ASSUME Next, NEW c \in Call, pc[c] # "done", pc'[c] = "done", Persist(Audit(c))
      PROVE  PlacedInv' /\ MadeInv'
  BY <1>2, <1>3, FreshRecords DEF Made
<1>4. ASSUME Next, NEW c \in Call, pc[c] \in {"idle", "gate"}, pc'[c] \in {"audit", "done"},
             Persist(Asked(c))
      PROVE  PlacedInv' /\ MadeInv'
  BY <1>2, <1>4, FreshRecords DEF Made
<1>5. ASSUME Next, PlacedInv', ToSet(rows') \subseteq ToSet(rows) \cup ToSet(accepted),
             ToSet(accepted') \subseteq ToSet(accepted)
      PROVE  MadeInv'
  BY <1>5, MadeStays DEF MadeInv, CallInv
<1>6. CASE /\ Next
           /\ MakeStore \/ StartStep \/ WriterStep \/ Stop \/ ProcessGone \/ UNCHANGED opsVars
  <2>1. ToSet(accepted') \subseteq ToSet(accepted)
    <3>1. accepted' = accepted \/ accepted' = <<>>
      BY <1>6 DEF MakeStore, StartStep, CheckFile, EnsureSchema, Migrate, RecordVersion,
           CleanAndServe, WriterStep, Take, IdleFlush, Flush, Stop, ProcessGone, opsVars, memVars
    <3> QED
      BY <3>1 DEF ToSet
  <2>2. CASE Take
    <3>1. PlacedInv' /\ UNCHANGED rows
      BY <2>2, PlacedTake DEF Take, fileVars
    <3> QED
      BY <1>5, <1>6, <2>1, <3>1
  <2>3. CASE Flush
    BY <1>5, <1>6, <2>1, <2>3, PlacedFlush
  <2>4. CASE MakeStore \/ StartStep \/ IdleFlush \/ Stop \/ ProcessGone \/ UNCHANGED opsVars
    BY <1>5, <1>6, <2>1, <2>4, PlacedRest
  <2> QED
    BY <1>6, <2>2, <2>3, <2>4 DEF WriterStep
<1> QED
  BY <1>1, <1>3, <1>4, <1>6, StoreStep DEF CallInv

\* Through crashes, stops and failed flushes, for any queue and batch size: only the
\* newest of the accepted writes are not in the file yet, no more than a queue and
\* a batch of them, and those in the file are in the order of their acceptance.
THEOREM NewestWritesOnly == Spec => []WritesKept
<1>1. Init => PlacedInv /\ MadeInv
  <2>1. ASSUME Init PROVE PlacedInv /\ MadeInv
    <3>1. /\ rows = <<>> /\ q = <<>> /\ batch = <<>> /\ accepted = <<>>
          /\ Len(q) = 0 /\ Len(batch) = 0 /\ Len(accepted) = 0 /\ DOMAIN accepted = {}
          /\ DOMAIN rows = {}
      BY <2>1 DEF Init, OpsInit
    <3>2. PillAt(0) /\ 0 \in 0..Len(q) /\ Placed(0)
      BY <3>1 DEF PillAt, Placed, Flushed, Queued
    <3>3. WrittenInOrder /\ MadeInv
      BY <3>1 DEF WrittenInOrder, Before, MadeInv, ToSet
    <3> QED
      BY <3>1, <3>2, <3>3 DEF PlacedInv
  <2> QED
    BY <2>1
<1>2. IInv /\ PlacedInv /\ MadeInv /\ [Next]_vars => PlacedInv' /\ MadeInv'
  BY PlacedStep DEF IInv
<1>3. IInv /\ PlacedInv => WritesKept
  BY PlacedKeeps DEF IInv
<1> QED
  BY <1>1, <1>2, <1>3, Invariance, PTL DEF Spec
=============================================================================
