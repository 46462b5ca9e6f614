------------------------------- MODULE Positions -------------------------------
(***************************************************************************)
(* Vec::retain by the positions it keeps: what is left of a vector s are   *)
(* its elements at those positions, [k \in DOMAIN p |-> s[p[k]]] for the   *)
(* ascending enumeration p of them.                                        *)
(***************************************************************************)
EXTENDS Integers, FiniteSets

\* The enumerations of a finite set of positions in ascending order (there is
\* one).
Ascending(S) ==
  {p \in [1..Cardinality(S) -> S] : \A i, j \in DOMAIN p : i < j => p[i] < p[j]}
=============================================================================
