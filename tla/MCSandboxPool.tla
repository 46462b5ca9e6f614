----------------------------- MODULE MCSandboxPool -----------------------------
(* A small instance of SandboxPool for TLC: the JITs of p and q compile a      *)
(* function each; both reserve slot 1, p also slot 2, and nobody slot 3.       *)
EXTENDS SandboxPool, TLC

CONSTANTS p, q

MCCompiled == (p :> {1}) @@ (q :> {2})
MCReserves == (p :> {1, 2}) @@ (q :> {1})
=============================================================================
