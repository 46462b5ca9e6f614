----------------------------- MODULE MCScheduler -----------------------------
(* A small instance of Scheduler for TLC: "0 */1 ..." and "*/0 * ...", with a  *)
(* clock in half minutes.                                                      *)
EXTENDS Scheduler, TLC

CONSTANTS everyMinute, never

Quick == (everyMinute :> [sec |-> <<>>, min |-> <<1>>]) @@ (never :> [sec |-> <<0>>, min |-> <<>>])
=============================================================================
