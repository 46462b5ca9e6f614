----------------------------- MODULE SharedQueue -----------------------------
(***************************************************************************)
(* A named shared queue of the engine (fasm-engine/src/queues.rs).         *)
(*                                                                         *)
(* Every operation of SharedQueue takes the queue's mutex for its whole    *)
(* body, so each is one action; any thread may call any of them at any     *)
(* time.  A message is identified by its uuid, which is all a client needs *)
(* to answer a delivery: the code accepts an ack or a nack for any id that *)
(* is in flight, whichever delivery the caller is answering, so a late     *)
(* answer to an earlier delivery is part of the model.                     *)
(*                                                                         *)
(* Time is counted in abstract ticks.  A deadline is kept as the number of *)
(* ticks left until it: "deadline <= now" is "ttl = 0", which needs no     *)
(* ever-growing clock.                                                     *)
(***************************************************************************)
EXTENDS Integers, Sequences, FiniteSets, Functions

CONSTANTS
  Messages,     \* the message ids that may ever be sent
  MaxRetries,   \* max_retries of the queue's configuration
  Timeout       \* timeout_secs of the queue's configuration, in ticks

ASSUME QueueAssumption ==
  /\ IsFiniteSet(Messages)
  /\ MaxRetries \in Nat
  /\ Timeout \in Nat

VARIABLES
  ready,        \* VecDeque of messages waiting for a delivery
  in_flight,    \* ids delivered and not answered
  retries,      \* Message.retries, which travels with the message
  ttl,          \* ticks until PendingAck.deadline; 0 when it passed or there is none
  sent,         \* history: the ids in the order of send
  deliveries,   \* history: how often an id was handed to a consumer
  acked,        \* history: ids whose ack was accepted
  dropped       \* history: ids removed because their retries ran out

vars == <<ready, in_flight, retries, ttl, sent, deliveries, acked, dropped>>

Sent == Range(sent)
Settled == acked \cup dropped

\* Every order in which the members of a finite set can be listed.
Orders(S) == Bijection(1..Cardinality(S), S)

Init ==
  /\ ready = <<>>
  /\ in_flight = {}
  /\ retries = [m \in Messages |-> 0]
  /\ ttl = [m \in Messages |-> 0]
  /\ sent = <<>>
  /\ deliveries = [m \in Messages |-> 0]
  /\ acked = {}
  /\ dropped = {}

-----------------------------------------------------------------------------
\* Mutant of Send: the message is pushed to the front.
SendToFront(m) ==
  /\ m \notin Sent
  /\ ready' = <<m>> \o ready
  /\ sent' = Append(sent, m)
  /\ UNCHANGED <<in_flight, retries, ttl, deliveries, acked, dropped>>

\* send: a new message, with a fresh uuid and no retries, joins the back.
Send(m) ==
  /\ m \notin Sent
  /\ ready' = Append(ready, m)
  /\ sent' = Append(sent, m)
  /\ UNCHANGED <<in_flight, retries, ttl, deliveries, acked, dropped>>

\* Mutant of TryDequeue: the delivery is not tracked.
TryDequeueUntracked ==
  /\ ready # <<>>
  /\ deliveries' = [deliveries EXCEPT ![Head(ready)] = @ + 1]
  /\ ready' = Tail(ready)
  /\ UNCHANGED <<in_flight, ttl, retries, sent, acked, dropped>>

\* try_dequeue of a non-empty queue: the message at the front is handed to the
\* caller and tracked until its deadline.
TryDequeue ==
  /\ ready # <<>>
  /\ LET m == Head(ready) IN
       /\ in_flight' = in_flight \cup {m}
       /\ ttl' = [ttl EXCEPT ![m] = Timeout]
       /\ deliveries' = [deliveries EXCEPT ![m] = @ + 1]
  /\ ready' = Tail(ready)
  /\ UNCHANGED <<retries, sent, acked, dropped>>

\* Mutant of Ack: the entry is looked up but not removed.
AckKeepsEntry(m) ==
  /\ m \in in_flight
  /\ acked' = acked \cup {m}
  /\ UNCHANGED <<ready, in_flight, retries, ttl, sent, deliveries, dropped>>

\* ack of an id that is in flight; for any other id it returns false and
\* changes nothing.
Ack(m) ==
  /\ m \in in_flight
  /\ in_flight' = in_flight \ {m}
  /\ ttl' = [ttl EXCEPT ![m] = 0]
  /\ acked' = acked \cup {m}
  /\ UNCHANGED <<ready, retries, sent, deliveries, dropped>>

\* Mutant of Retriable: the retry count is compared before it is incremented.
RetriableLate(S) == {m \in S : retries[m] <= MaxRetries}

\* The messages of S that may be delivered once more.
Retriable(S) == {m \in S : retries[m] + 1 <= MaxRetries}

\* Mutant of GiveBack: a message that may not be delivered again keeps its entry.
GiveBackRetriable(S) ==
  /\ in_flight' = in_flight \ Retriable(S)
  /\ ttl' = [m \in Messages |-> IF m \in Retriable(S) THEN 0 ELSE ttl[m]]
  /\ retries' = [m \in Messages |-> IF m \in Retriable(S) THEN retries[m] + 1 ELSE retries[m]]
  /\ \E order \in Orders(Retriable(S)) : ready' = ready \o order
  /\ UNCHANGED <<sent, deliveries, acked, dropped>>

\* Mutant of GiveBack: the entries are cloned out of the in-flight table.
GiveBackKeepsEntries(S) ==
  /\ retries' = [m \in Messages |-> IF m \in S THEN retries[m] + 1 ELSE retries[m]]
  /\ \E order \in Orders(Retriable(S)) : ready' = ready \o order
  /\ dropped' = dropped \cup (S \ Retriable(S))
  /\ UNCHANGED <<in_flight, ttl, sent, deliveries, acked>>

\* The common part of nack and requeue_expired: the messages of S leave
\* in_flight with one more retry; the retriable ones rejoin the back of the
\* queue (a HashMap is scanned, so in any order), the others are forgotten.
GiveBack(S) ==
  /\ in_flight' = in_flight \ S
  /\ ttl' = [m \in Messages |-> IF m \in S THEN 0 ELSE ttl[m]]
  /\ retries' = [m \in Messages |-> IF m \in S THEN retries[m] + 1 ELSE retries[m]]
  /\ \E order \in Orders(Retriable(S)) : ready' = ready \o order
  /\ dropped' = dropped \cup (S \ Retriable(S))
  /\ UNCHANGED <<sent, deliveries, acked>>

Nack(m) ==
  /\ m \in in_flight
  /\ GiveBack({m})

Expired == {m \in in_flight : ttl[m] = 0}

\* requeue_expired, called by the queue's looper; without expired messages it
\* changes nothing.
RequeueExpired ==
  /\ Expired # {}
  /\ GiveBack(Expired)

\* Time passes: every deadline comes one tick closer.
Tick ==
  /\ \E m \in Messages : ttl[m] > 0
  /\ ttl' = [m \in Messages |-> IF ttl[m] > 0 THEN ttl[m] - 1 ELSE 0]
  /\ UNCHANGED <<ready, in_flight, retries, sent, deliveries, acked, dropped>>

Next ==
  \/ \E m \in Messages : Send(m) \/ Ack(m) \/ Nack(m)
  \/ TryDequeue
  \/ RequeueExpired
  \/ Tick

Spec == Init /\ [][Next]_vars

\* The queue's looper is a perpetual task that scans for expired messages and
\* polls; time goes on.  Clients owe nothing: they need not send nor answer.
Fairness ==
  /\ WF_vars(TryDequeue)
  /\ WF_vars(RequeueExpired)
  /\ WF_vars(Tick)

FairSpec == Spec /\ Fairness

-----------------------------------------------------------------------------
\* Type invariant of the queue (queues.rs SharedQueueInner).
TypeOK ==
  /\ ready \in Seq(Messages)
  /\ in_flight \subseteq Messages
  /\ retries \in [Messages -> 0..(MaxRetries + 1)]
  /\ ttl \in [Messages -> 0..Timeout]
  /\ sent \in Seq(Messages)
  /\ deliveries \in [Messages -> 0..(MaxRetries + 1)]
  /\ acked \subseteq Messages
  /\ dropped \subseteq Messages

Waiting == Range(ready)

\* No message is lost or duplicated by any interleaving of sends, deliveries,
\* late answers and expiry scans: a sent message is in exactly one of the
\* ready queue, the in-flight table, the acknowledged and the dropped ones,
\* and it is in the ready queue once.  (enqueue, try_dequeue, ack, nack,
\* requeue_expired each move it between two of these.)
Conservation ==
  /\ Sent = Waiting \cup in_flight \cup acked \cup dropped
  /\ IsInjective(ready)
  /\ Waiting \cap in_flight = {}
  /\ (Waiting \cup in_flight) \cap Settled = {}
  /\ acked \cap dropped = {}

\* The retry budget is spent exactly: the deliveries of a message are its
\* retries, plus the current one; a message waits only while it has budget
\* left, and is dropped only after max_retries + 1 deliveries, whoever gave it
\* back (an expiry racing a nack cannot charge the same delivery twice).
RetryBudget ==
  \A m \in Messages :
    /\ deliveries[m] = retries[m] + (IF m \in in_flight \cup acked THEN 1 ELSE 0)
    /\ m \in dropped => deliveries[m] = MaxRetries + 1
    /\ m \notin dropped => retries[m] <= MaxRetries
    /\ m \notin Sent => retries[m] = 0

\* A message that was never delivered is not overtaken by a later one that was
\* not delivered before it: first deliveries happen in the order of send, in
\* spite of the messages that rejoin the queue.
FirstDeliveriesInOrder ==
  \A i, j \in DOMAIN sent :
    i < j /\ deliveries[sent[j]] > 0 => deliveries[sent[i]] > 0

\* An accepted ack or a drop is final: the message never reaches a consumer
\* again, whatever answers to its earlier deliveries arrive later.
SettledIsFinal ==
  [][\A m \in Settled : m \in Settled' /\ deliveries'[m] = deliveries[m]]_vars

\* No message stays in the queue for ever: with the looper polling and time
\* passing, each one is acknowledged or runs out of retries.
EventuallySettled ==
  \A m \in Messages : m \in Sent ~> m \in Settled

-----------------------------------------------------------------------------
\* What a client of a shared queue may rely on: see DeliveryContract.
status ==
  [m \in Messages |->
     IF m \in acked THEN "acked"
     ELSE IF m \in dropped THEN "dropped"
     ELSE IF m \in in_flight THEN "delivered"
     ELSE IF m \in Waiting THEN "waiting"
     ELSE "unsent"]

Contract == INSTANCE DeliveryContract
              WITH status <- status, attempts <- deliveries

\* The queue implements the contract, and with its looper running also the
\* contract's promise that every accepted message is settled.
ContractSpec == Contract!Spec
ContractFairness == Contract!Spec /\ Contract!Fairness
=============================================================================
