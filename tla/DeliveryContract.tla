--------------------------- MODULE DeliveryContract ---------------------------
(***************************************************************************)
(* What a shared queue promises its clients (queues.rs:8-9), message by    *)
(* message and without queues, deadlines or retries counters: an accepted  *)
(* message is handed out, and handed out again when nobody answered, until *)
(* it is acknowledged or MaxRetries + 1 attempts were spent on it.         *)
(***************************************************************************)
EXTENDS Integers, FiniteSets

CONSTANTS
  Messages,     \* the message ids that may ever be sent
  MaxRetries    \* how many attempts may follow the first

VARIABLES
  status,       \* where each message is in its life
  attempts      \* how often it was handed out

vars == <<status, attempts>>

Status == {"unsent", "waiting", "delivered", "acked", "dropped"}

In(s) == {m \in Messages : status[m] = s}

Init ==
  /\ status = [m \in Messages |-> "unsent"]
  /\ attempts = [m \in Messages |-> 0]

Accept(m) ==
  /\ status[m] = "unsent"
  /\ status' = [status EXCEPT ![m] = "waiting"]
  /\ UNCHANGED attempts

Deliver(m) ==
  /\ status[m] = "waiting"
  /\ status' = [status EXCEPT ![m] = "delivered"]
  /\ attempts' = [attempts EXCEPT ![m] = @ + 1]

Acknowledge(m) ==
  /\ status[m] = "delivered"
  /\ status' = [status EXCEPT ![m] = "acked"]
  /\ UNCHANGED attempts

\* Unanswered or refused deliveries come back together: those with attempts
\* left wait for the next one, the others are given up.
Return(S) ==
  /\ S # {} /\ S \subseteq In("delivered")
  /\ status' = [m \in Messages |->
                  IF m \notin S THEN status[m]
                  ELSE IF attempts[m] <= MaxRetries THEN "waiting" ELSE "dropped"]
  /\ UNCHANGED attempts

Next ==
  \/ \E m \in Messages : Accept(m) \/ Deliver(m) \/ Acknowledge(m)
  \/ \E S \in SUBSET Messages : Return(S)

Spec == Init /\ [][Next]_vars

\* A waiting message is handed out, a delivered one does not stay so.
Fairness ==
  \A m \in Messages :
    /\ WF_vars(Deliver(m))
    /\ WF_vars(Acknowledge(m) \/ \E S \in SUBSET Messages : m \in S /\ Return(S))
=============================================================================
