--------------------------- MODULE MCEventStream ---------------------------
(* A small instance of EventStream for TLC. *)
EXTENDS EventStream, TLC

CONSTANTS e1, e2, e3, c1

ThreeEvents == {e1, e2, e3}
OneClient == {c1}

\* Two events with one key and another.
Repeated3 == (e1 :> 0) @@ (e2 :> 1) @@ (e3 :> 1)
=============================================================================
