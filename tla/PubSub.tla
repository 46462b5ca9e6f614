-------------------------------- MODULE PubSub --------------------------------
(***************************************************************************)
(* PubSubRegistry (fasm-engine/src/pubsub.rs) and the private queues it    *)
(* fans messages out to (PrivateQueue in queues.rs).  Every operation of   *)
(* the registry holds its mutex throughout; publish sends to one queue     *)
(* after the other, and receiving locks only the queue, so it may happen   *)
(* in between.  Executions are external: nothing in the engine calls this  *)
(* module yet, so they may call anything at any time and end at any time.  *)
(***************************************************************************)
EXTENDS Integers, Sequences, FiniteSets, SequencesExt, Positions

CONSTANTS
  Topics,
  Executions,     \* each has one private queue, which is named like it here
  MaxMessages     \* bound on the messages published

ASSUME PubSubAssumption == MaxMessages \in Nat

VARIABLES
  topics,      \* the subscribers of each topic, in order (none: it may not exist)
  queues,      \* the PrivateQueue of each execution
  publishing,  \* who is still to get the message being published, in order
  ended,       \* the executions that are over
  published,   \* history: the number of messages published, the last one's name
  subscribed,  \* history: the topics each execution asked for
  wanted,      \* history: the messages published to those topics meanwhile
  received     \* history: what each execution took from its queue

registry == <<topics, publishing>>
history == <<published, subscribed, wanted>>
vars == <<registry, queues, ended, history, received>>

Messages == 1..MaxMessages

Init ==
  /\ topics = [t \in Topics |-> <<>>]
  /\ queues = [e \in Executions |-> <<>>]
  /\ publishing = <<>>
  /\ ended = {}
  /\ published = 0
  /\ subscribed = [e \in Executions |-> {}]
  /\ wanted = [e \in Executions |-> <<>>]
  /\ received = [e \in Executions |-> <<>>]

\* No publish is inside the registry's mutex.
Free == publishing = <<>>

-----------------------------------------------------------------------------
\* publish takes the mutex; it sends to the topic's subscribers of that moment.
Publish(t) ==
  /\ Free
  /\ published < MaxMessages
  /\ published' = published + 1
  /\ publishing' = topics[t]
  /\ wanted' = [e \in Executions |-> IF t \in subscribed[e] THEN Append(wanted[e], published + 1)
                                                            ELSE wanted[e]]
  /\ UNCHANGED <<topics, queues, ended, subscribed, received>>

\* Mutant of Send: the message overtakes those in the queue.
SendToFront ==
  /\ ~Free
  /\ queues' = [queues EXCEPT ![Head(publishing)] = <<published>> \o @]
  /\ publishing' = Tail(publishing)
  /\ UNCHANGED <<topics, ended, history, received>>

\* PrivateQueue::send to the next subscriber.
Send ==
  /\ ~Free
  /\ queues' = [queues EXCEPT ![Head(publishing)] = Append(@, published)]
  /\ publishing' = Tail(publishing)
  /\ UNCHANGED <<topics, ended, history, received>>

\* retain of the subscribers other than e.
Without(subscribers, e) ==
  LET kept == {i \in 1..Len(subscribers) : subscribers[i] # e}
      p == CHOOSE q \in Ascending(kept) : TRUE
  IN  [k \in DOMAIN p |-> subscribers[p[k]]]

\* subscribe: the execution's earlier entry gives way to one at the end.
Subscribe(e, t) ==
  /\ Free
  /\ e \notin ended
  /\ topics' = [topics EXCEPT ![t] = Append(Without(@, e), e)]
  /\ subscribed' = [subscribed EXCEPT ![e] = @ \cup {t}]
  /\ UNCHANGED <<publishing, queues, ended, published, wanted, received>>

\* unsubscribe_all, by whoever looks after executions.
UnsubscribeAll(e) ==
  /\ Free
  /\ topics' = [t \in Topics |-> Without(topics[t], e)]
  /\ subscribed' = [subscribed EXCEPT ![e] = {}]
  /\ UNCHANGED <<publishing, queues, ended, published, wanted, received>>

\* try_recv of a message.
Receive(e) ==
  /\ e \notin ended
  /\ queues[e] # <<>>
  /\ received' = [received EXCEPT ![e] = Append(@, Head(queues[e]))]
  /\ queues' = [queues EXCEPT ![e] = Tail(@)]
  /\ UNCHANGED <<registry, ended, history>>

\* The execution ends and drops its handle of the queue.
End(e) ==
  /\ ended' = ended \cup {e}
  /\ UNCHANGED <<registry, queues, history, received>>

Next ==
  \/ \E t \in Topics : Publish(t)
  \/ Send
  \/ \E e \in Executions, t \in Topics : Subscribe(e, t)
  \/ \E e \in Executions : UnsubscribeAll(e) \/ Receive(e) \/ End(e)

Spec == Init /\ [][Next]_vars

-----------------------------------------------------------------------------
\* Type invariant of the registry and its queues (pubsub.rs TopicInner,
\* Subscriber; queues.rs PrivateQueueInner): subscribe keeps one entry per
\* execution, which is what subscriber_count relies on.
TypeOK ==
  /\ topics \in [Topics -> Seq(Executions)]
  /\ \A t \in Topics : IsInjective(topics[t])
  /\ queues \in [Executions -> Seq(Messages)]
  /\ publishing \in Seq(Executions)
  /\ ended \subseteq Executions
  /\ published \in 0..MaxMessages
  /\ subscribed \in [Executions -> SUBSET Topics]
  /\ wanted \in [Executions -> Seq(Messages)]
  /\ received \in [Executions -> Seq(Messages)]

\* What publish has yet to send to an execution.
Due(e) == IF e \in Range(publishing) THEN <<published>> ELSE <<>>

\* An execution gets exactly the messages published to its topics while it was
\* subscribed, each once and in the order of publication across all topics,
\* however publishing, receiving and renewed subscriptions interleave
\* (pubsub.rs:32-36, 38-45, 75-83).
FanOutExact ==
  \A e \in Executions : received[e] \o queues[e] \o Due(e) = wanted[e]
=============================================================================
