---------------------------- MODULE MCRouteTable ----------------------------
(* Small instances of RouteTable for TLC: GET may also be written in lower     *)
(* case; one static route has a parameter, the other is its literal twin.      *)
EXTENDS RouteTable, TLC

CONSTANTS get, GET, a, b, x, y

MCUpper == (get :> GET) @@ (GET :> GET)
MCStatic == <<[method |-> get, path |-> <<Param(x)>>],
              [method |-> GET, path |-> <<Literal(a)>>]>>
NoStatic == <<>>
=============================================================================
