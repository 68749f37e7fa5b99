--------------------------- MODULE MCReplayEngine ---------------------------
(* Small instances of ReplayEngine for TLC. *)
EXTENDS ReplayEngine, TLC

CONSTANTS s1, s2

TwoSessions == {s1, s2}

Snapshot(seqs) == [seqs |-> seqs, count |-> Len(seqs), intact |-> TRUE, started |-> TRUE]

\* Events as a table returns them, and each stored twice, as the memory holds
\* them; a stream with a control event; a damaged and a truncated snapshot.
StoredSnapshots ==
  {Snapshot(<<0, 1, 2>>), Snapshot(<<1, 0>>), Snapshot(<<0, 0, 1, 1>>),
   Snapshot(<<0, 1, 99990>>),
   [Snapshot(<<0, 1>>) EXCEPT !.intact = FALSE],
   [Snapshot(<<0, 1>>) EXCEPT !.count = 3]}

FastAndStep == {"fast", "step"}
=============================================================================
