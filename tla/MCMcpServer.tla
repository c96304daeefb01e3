----------------------------- MODULE MCMcpServer -----------------------------
(***************************************************************************)
(* McpServer for TLC.                                                      *)
(***************************************************************************)
EXTENDS McpServer, TLC

\* Connections are interchangeable (safety runs only).
Symmetry == Permutations(Conns)

=============================================================================
