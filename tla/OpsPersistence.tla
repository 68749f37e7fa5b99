--------------------------- MODULE OpsPersistence ---------------------------
(***************************************************************************)
(* The operational store of a process: OpsPersistence, its SQLite file,    *)
(* the bounded queue in front of it and the writer thread behind it.       *)
(*                                                                         *)
(* Threads call persist_*; get_ops_store makes the instance on the first   *)
(* call and starts it while others already see it.  The process is stopped *)
(* by agui/main.py or dies; the file survives.  A module that extends this *)
(* one supplies the callers.                                               *)
(***************************************************************************)
EXTENDS Naturals, Sequences, SequencesExt

CONSTANTS Item,       \* the writes callers ask for, each at most once
          Pill,       \* the None that stop() puts into the queue
          QueueMax,   \* OPS_QUEUE_MAX
          BatchSize,  \* OPS_BATCH_SIZE
          Current,    \* CURRENT_SCHEMA_VERSION
          MaxStart    \* bound: processes that open the file

ASSUME ItemAssumption == Pill \notin Item
ASSUME SizeAssumption == {QueueMax, BatchSize, Current} \subseteq Nat \ {0}
ASSUME StartAssumption == MaxStart \in Nat

VARIABLES
  rows,      \* the file: written items in the order of their rowids
  version,   \* the file: schema_meta, 1 when nothing is recorded
  applied,   \* the file: migrations whose statements were all executed
  damaged,   \* the file is corrupt
  starts,    \* processes that made an instance
  phase,     \* of start() and stop() of the instance; "none" without a process
  level,     \* current or v of _run_migrations
  q, batch,  \* the queue, the writer's local batch
  writer,    \* the writer thread
  accepted,  \* items put into the queue of this process, in order
  drops,     \* _drops
  lost       \* items of this process in a batch whose flush failed

fileVars == <<rows, version, applied, damaged>>
memVars == <<q, batch, writer, accepted, drops, lost>>
opsVars == <<fileVars, starts, phase, level, memVars>>

\* A running store is "ready", or "off" when its start failed.
Phases == {"none", "check", "schema", "migrate", "record", "clean", "ready",
           "off", "join"}
WriterAt == {"none", "get", "flush", "last", "ended"}

OpsInit ==
  /\ rows = <<>> /\ version = 1 /\ applied = {} /\ damaged = FALSE
  /\ starts = 0 /\ phase = "none" /\ level = 1
  /\ q = <<>> /\ batch = <<>> /\ writer = "none"
  /\ accepted = <<>> /\ drops = 0 /\ lost = {}

\* _ready: set at the end of start() and never cleared, not by stop() either.
Ready == phase \in {"ready", "join"}

----------------------------------------------------------------------------
(* Wrong variants of the definitions below; the specification never uses them. *)

\* The loop over the versions ends one too early.
RecordVersionShort ==
  /\ phase = "record"
  /\ version' = level + 1
  /\ level' = level + 1
  /\ phase' = IF level + 2 < Current THEN "migrate" ELSE "clean"
  /\ UNCHANGED <<rows, applied, damaged, starts, memVars>>

\* The batch is kept as a stack.
TakeToFront ==
  /\ writer = "get" /\ q # <<>>
  /\ q' = Tail(q)
  /\ IF Head(q) = Pill
       THEN writer' = "last" /\ UNCHANGED batch
       ELSE /\ batch' = <<Head(q)>> \o batch
            /\ writer' = IF Len(batch) + 1 >= BatchSize THEN "flush" ELSE "get"
  /\ UNCHANGED <<fileVars, starts, phase, level, accepted, drops, lost>>

----------------------------------------------------------------------------
(* get_ops_store and start() *)

\* The first caller makes the instance; from here on it is visible to all.
MakeStore ==
  /\ phase = "none" /\ starts < MaxStart
  /\ starts' = starts + 1
  /\ phase' = "check"
  /\ UNCHANGED <<fileVars, level, memVars>>

\* _integrity_ok, which also says no when the file is locked, and
\* _quarantine_db: the file is renamed and a new one takes its place; a rename
\* that fails is ignored.
CheckFile ==
  /\ phase = "check"
  /\ phase' = "schema"
  /\ \/ ~damaged /\ UNCHANGED fileVars
     \/ rows' = <<>> /\ version' = 1 /\ applied' = {} /\ damaged' = FALSE
     \/ damaged /\ UNCHANGED fileVars
  /\ UNCHANGED <<starts, level, memVars>>

\* _ensure_schema and _get_schema_version, which takes a version that it cannot
\* read for the base one; start() gives up on any other exception.
EnsureSchema ==
  /\ phase = "schema"
  /\ \/ /\ ~damaged
        /\ level' \in {version, 1}
        /\ phase' = IF level' >= Current THEN "clean" ELSE "migrate"
     \/ phase' = "off" /\ UNCHANGED level
  /\ UNCHANGED <<fileVars, starts, memVars>>

\* The statements of one version: each is committed by itself, and one that was
\* executed before a crash is a duplicate column or an existing table.
Migrate ==
  /\ phase = "migrate"
  /\ \/ applied' = applied \cup {level + 1} /\ phase' = "record"
     \/ phase' = "off" /\ UNCHANGED applied
  /\ UNCHANGED <<rows, version, damaged, starts, level, memVars>>

\* _set_schema_version, in a transaction of its own.
RecordVersion ==
  /\ phase = "record"
  /\ version' = level + 1
  /\ level' = level + 1
  /\ phase' = IF level + 1 < Current THEN "migrate" ELSE "clean"
  /\ UNCHANGED <<rows, applied, damaged, starts, memVars>>

\* _run_retention_cleanup takes the oldest rows or fails quietly; then the
\* writer thread starts and the store is ready.
CleanAndServe ==
  /\ phase = "clean"
  /\ \E n \in 0..Len(rows) : rows' = SubSeq(rows, n + 1, Len(rows))
  /\ phase' = "ready"
  /\ writer' = "get"
  /\ UNCHANGED <<version, applied, damaged, starts, level, q, batch, accepted, drops, lost>>

----------------------------------------------------------------------------
(* Callers *)

\* _enqueue: nothing happens unless the store is ready; when the queue is full
\* the write is dropped and counted.
Persist(i) ==
  /\ IF ~Ready THEN UNCHANGED <<q, accepted, drops>>
     ELSE IF Len(q) < QueueMax
       THEN q' = Append(q, i) /\ accepted' = Append(accepted, i) /\ UNCHANGED drops
       ELSE drops' = drops + 1 /\ UNCHANGED <<q, accepted>>
  /\ UNCHANGED <<fileVars, starts, phase, level, batch, writer, lost>>

----------------------------------------------------------------------------
(* The writer thread *)

\* q.get: a full batch is flushed, the pill flushes what there is.
Take ==
  /\ writer = "get" /\ q # <<>>
  /\ q' = Tail(q)
  /\ IF Head(q) = Pill
       THEN writer' = "last" /\ UNCHANGED batch
       ELSE /\ batch' = Append(batch, Head(q))
            /\ writer' = IF Len(batch) + 1 >= BatchSize THEN "flush" ELSE "get"
  /\ UNCHANGED <<fileVars, starts, phase, level, accepted, drops, lost>>

\* queue.Empty after _BATCH_DELAY.
IdleFlush ==
  /\ writer = "get" /\ q = <<>> /\ batch # <<>>
  /\ writer' = "flush"
  /\ UNCHANGED <<fileVars, starts, phase, level, q, batch, accepted, drops, lost>>

\* _flush: the batch in one transaction, or none of it; either way it is gone.
Flush ==
  /\ writer \in {"flush", "last"}
  /\ \/ rows' = rows \o batch /\ UNCHANGED lost
     \/ lost' = lost \cup ToSet(batch) /\ UNCHANGED rows
  /\ batch' = <<>>
  /\ writer' = IF writer = "last" THEN "ended" ELSE "get"
  /\ UNCHANGED <<version, applied, damaged, starts, phase, level, q, accepted, drops>>

----------------------------------------------------------------------------
(* The process *)

\* stop(): the pill waits for room in the queue.
Stop ==
  /\ phase = "ready" /\ Len(q) < QueueMax
  /\ q' = Append(q, Pill)
  /\ phase' = "join"
  /\ UNCHANGED <<fileVars, starts, level, batch, writer, accepted, drops, lost>>

\* The process is gone, after the join (which gives up after five seconds) or
\* at any moment; its memory with it.  A crash may damage the file.
ProcessGone ==
  /\ phase # "none"
  /\ phase' = "none" /\ level' = 1
  /\ q' = <<>> /\ batch' = <<>> /\ writer' = "none"
  /\ accepted' = <<>> /\ drops' = 0 /\ lost' = {}
  /\ \E d \in {damaged, phase # "join"} : damaged' = (damaged \/ d)
  /\ UNCHANGED <<rows, version, applied, starts>>

----------------------------------------------------------------------------
StartStep == CheckFile \/ EnsureSchema \/ Migrate \/ RecordVersion \/ CleanAndServe
WriterStep == Take \/ IdleFlush \/ Flush

----------------------------------------------------------------------------
(* Safety *)

\* Every variable stays in its domain; the queue and the batch keep their
\* limits.
OpsTypeOK ==
  /\ rows \in Seq(Item) /\ version \in 1..Current /\ applied \subseteq 2..Current
  /\ damaged \in BOOLEAN
  /\ starts \in 0..MaxStart /\ phase \in Phases /\ level \in 1..Current
  /\ q \in Seq(Item \cup {Pill}) /\ Len(q) <= QueueMax
  /\ batch \in Seq(Item) /\ Len(batch) <= BatchSize
  /\ writer \in WriterAt
  /\ accepted \in Seq(Item) /\ drops \in Nat /\ lost \subseteq Item

\* The schema version never runs ahead of the tables, through crashes in the
\* middle of a migration, repeated migrations and quarantined files; and a store
\* that is ready has the schema its statements are written for.
SchemaMatchesVersion ==
  /\ 2..version \subseteq applied
  /\ Ready => version = Current

\* What is not in the file yet are the newest of the accepted writes, no more
\* than a queue and a batch of them, so that is all a crash or a stop() that
\* gives up can lose; every older one is in the file unless its flush failed.
\* (stop() puts in one pill at most, and writes may come after it.)
Unwritten == batch \o RemoveFirst(q, Pill)

CrashLosesOnlyTheNewest ==
  /\ IsSuffix(Unwritten, accepted)
  /\ Len(Unwritten) <= QueueMax + BatchSize
  /\ \A n \in 1..(Len(accepted) - Len(Unwritten)) :
       accepted[n] \in ToSet(rows) \cup lost

\* Writes reach the file in the order in which they were accepted, so the last
\* set_state of a key is the one that stays, whatever was flushed and lost
\* in between.
Before(s, a, b) == \E i, j \in DOMAIN s : i < j /\ s[i] = a /\ s[j] = b

WrittenInOrder ==
  \A a, b \in Item : Before(accepted, a, b) => ~Before(rows, b, a)

\* The file is a part of what was accepted, in its order, without anything old
\* missing.
WritesKept == CrashLosesOnlyTheNewest /\ WrittenInOrder

=============================================================================
