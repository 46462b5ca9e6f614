----------------------------- MODULE MCRouteAdmin -----------------------------
(* Small instances of RouteAdmin for TLC: what the clients ask for.  k tells   *)
(* requests apart that ask for the same.                                       *)
EXTENDS RouteAdmin, TLC

CONSTANTS n, f, home, pay, k1, k2

A == <<n, "a">>
OneApp == {A}
StaticHome == <<home>>
NoStatic == <<>>

ToNamespace == [op |-> "namespace"]
ToDisband == [op |-> "disband"]
ToCreate(a) == [op |-> "create", app |-> a]
ToUpload(a, content) == [op |-> "upload", app |-> a, file |-> f, content |-> content]
ToRegister(a, path, k) == [op |-> "register", app |-> a, file |-> f, path |-> path, k |-> k]
ToUnregister(a) == [op |-> "unregister", app |-> a]
ToRemove(a) == [op |-> "remove", app |-> a, file |-> f]
ToDelete(a) == [op |-> "delete", app |-> a]

NoRequests == {}
Deploy == {ToNamespace, ToCreate(A), ToUpload(A, "source"), ToRegister(A, pay, k1)}

\* Every kind of request on one application, with a conflicting registration.
Everything ==
  Deploy \cup {ToRegister(A, pay, k2), ToUnregister(A), ToRemove(A), ToDelete(A), ToDisband}

\* The clients that may leave, of the requests of several steps.
Impatient == {ToRegister(A, pay, k) : k \in {k1, k2}} \cup {ToDelete(A)}

\* The two conflicting registrations are alike.
Symmetry == Permutations({k1, k2})

Bytecode == {ToNamespace, ToCreate(A), ToUpload(A, "bytecode"), ToRegister(A, pay, k1)}
=============================================================================
