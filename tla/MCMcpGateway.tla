---------------------------- MODULE MCMcpGateway ----------------------------
(* Small instances of McpGateway for TLC. *)
EXTENDS McpGateway

CONSTANTS t1, t2, t3

ThreeThreads == {t1, t2, t3}
=============================================================================
