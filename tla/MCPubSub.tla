------------------------------- MODULE MCPubSub -------------------------------
(* Small instances of PubSub for TLC. *)
EXTENDS PubSub, TLC

\* Nothing tells executions, or topics, apart.
Symmetry == Permutations(Executions) \cup Permutations(Topics)
=============================================================================
