------------------------- MODULE MCVerificationLoop -------------------------
(* A small instance of VerificationLoop for TLC. *)
EXTENDS VerificationLoop

\* What MetricsWorker.__init__ registers.
RegisteredActions == {"query_metrics", "get_resource_metrics", "get_events"}
=============================================================================
