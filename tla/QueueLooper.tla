------------------------------ MODULE QueueLooper ------------------------------
(***************************************************************************)
(* The loopers of one shared queue (fasm-engine/src/queue_looper.rs): each *)
(* is a perpetual task that moves messages from the queue to the           *)
(* dispatcher.  This module composes SharedQueue and Dispatcher: every     *)
(* delivery of a message becomes one fire-and-forget request.              *)
(*                                                                         *)
(* engine.rs:143-152 starts a looper for each [[queues]] entry, and two    *)
(* entries may name the same queue, so there may be several.  A looper     *)
(* holds no lock from one call to the next; between its steps the other    *)
(* loopers, the executions, HTTP requests and other holders of the queue's *)
(* handle take theirs.                                                     *)
(***************************************************************************)
EXTENDS Integers, Sequences, FiniteSets, Functions

CONSTANTS
  Messages, MaxRetries, Timeout,         \* of SharedQueue
  HttpRequests, Diverging, MaxConcurrent,\* of Dispatcher
  Answered,                              \* the messages whose deliveries may be answered
  Loopers,                               \* the tasks polling this queue
  ExpireEvery                            \* iterations between expiry scans (30 in the code)

VARIABLES
  ready, in_flight, retries, ttl, sent, deliveries, acked, dropped,
  phase, permits, stats, panicked, abandoned,
  looper,        \* the locals of each looper, and where it is in its loop
  queue_depth    \* the depth gauge of the metrics

queueVars == <<ready, in_flight, retries, ttl, sent, deliveries, acked, dropped>>
dispatcherVars == <<phase, permits, stats, panicked, abandoned>>
vars == <<queueVars, dispatcherVars, looper, queue_depth>>

\* The request made for the n-th delivery of a message.
Attempts == Messages \X (1..(MaxRetries + 1))

ASSUME LooperAssumption ==
  /\ IsFiniteSet(Messages)
  /\ MaxRetries \in Nat
  /\ Timeout \in Nat
  /\ HttpRequests \cap Attempts = {}
  /\ Diverging \subseteq HttpRequests \cup Attempts
  /\ MaxConcurrent \in Nat
  /\ Answered \subseteq Messages
  /\ ExpireEvery \in Nat \ {0}

Q == INSTANCE SharedQueue
D == INSTANCE Dispatcher WITH Requests <- HttpRequests \cup Attempts, Http <- HttpRequests

(***************************************************************************)
(* Where a looper is: expire (top of the loop), read and publish (the      *)
(* depth), poll, dispatch (spawn_fire_and_forget up to try_acquire),       *)
(* invoke (record_invocation), count (inc_active and the rest of it).      *)
(***************************************************************************)
Steps == {"expire", "read", "publish", "poll", "dispatch", "invoke", "count"}
NoAttempt == <<>>

Init ==
  /\ Q!Init
  /\ D!Init
  /\ looper = [l \in Loopers |->
                 [at |-> "expire", expire_counter |-> 0, depth |-> 0, attempt |-> NoAttempt]]
  /\ queue_depth = 0

Goto(l, from, to) ==
  /\ looper[l].at = from
  /\ looper' = [looper EXCEPT ![l].at = to]

-----------------------------------------------------------------------------
\* Mutant of Expire: the counter is reset on every iteration.
ExpireNever(l) ==
  /\ looper[l].at = "expire"
  /\ looper' = [looper EXCEPT ![l].at = "read"]
  /\ UNCHANGED <<queueVars, dispatcherVars, queue_depth>>

\* The top of the loop: every ExpireEvery-th iteration scans for expired
\* messages and starts counting anew.
Expire(l) ==
  /\ looper[l].at = "expire"
  /\ LET scan == looper[l].expire_counter + 1 >= ExpireEvery IN
       /\ looper' = [looper EXCEPT ![l].at = "read",
                                   ![l].expire_counter = IF scan THEN 0 ELSE @ + 1]
       /\ IF scan /\ Q!Expired # {} THEN Q!RequeueExpired ELSE UNCHANGED queueVars
  /\ UNCHANGED <<dispatcherVars, queue_depth>>

\* queue.depth(): the messages that are ready or in flight.
ReadDepth(l) ==
  /\ looper[l].at = "read"
  /\ looper' = [looper EXCEPT ![l].at = "publish",
                              ![l].depth = Len(ready) + Cardinality(in_flight)]
  /\ UNCHANGED <<queueVars, dispatcherVars, queue_depth>>

\* set_queue_depth, with the value read before.
PublishDepth(l) ==
  /\ looper[l].at = "publish"
  /\ queue_depth' = looper[l].depth
  /\ looper' = [looper EXCEPT ![l].at = "poll", ![l].depth = 0]
  /\ UNCHANGED <<queueVars, dispatcherVars>>

\* try_dequeue finds a message.
PollMessage(l) ==
  /\ looper[l].at = "poll"
  /\ Q!TryDequeue
  /\ looper' = [looper EXCEPT ![l].at = "dispatch",
                              ![l].attempt = <<Head(ready), deliveries'[Head(ready)]>>]
  /\ UNCHANGED <<dispatcherVars, queue_depth>>

\* Mutant of PollNothing: an idle looper only polls.
PollNothingAgain(l) ==
  /\ ready = <<>>
  /\ Goto(l, "poll", "poll")
  /\ UNCHANGED <<queueVars, dispatcherVars, queue_depth>>

\* try_dequeue finds none: the looper sleeps and starts over.
PollNothing(l) ==
  /\ ready = <<>>
  /\ Goto(l, "poll", "expire")
  /\ UNCHANGED <<queueVars, dispatcherVars, queue_depth>>

\* spawn_fire_and_forget gets a permit.
DispatchAdmitted(l) ==
  /\ Goto(l, "dispatch", "invoke")
  /\ D!Admit(looper[l].attempt)
  /\ UNCHANGED <<queueVars, queue_depth>>

\* Mutant of DispatchRefused: without a permit left the message is not submitted.
DispatchForgotten(l) ==
  /\ permits = 0
  /\ looper[l].at = "dispatch"
  /\ looper' = [looper EXCEPT ![l].at = "expire", ![l].attempt = NoAttempt]
  /\ UNCHANGED <<queueVars, dispatcherVars, queue_depth>>

\* Overloaded: a warning is logged and the loop goes on; the message stays in
\* the in-flight table.
DispatchRefused(l) ==
  /\ looper[l].at = "dispatch"
  /\ D!Reject(looper[l].attempt)
  /\ looper' = [looper EXCEPT ![l].at = "expire", ![l].attempt = NoAttempt]
  /\ UNCHANGED <<queueVars, queue_depth>>

\* The rest of spawn_fire_and_forget: one counter of the metrics,
DispatchInvoked(l) ==
  /\ Goto(l, "invoke", "count")
  /\ D!RecordInvocation(looper[l].attempt)
  /\ UNCHANGED <<queueVars, queue_depth>>

\* the other one, and the detached task.
DispatchCounted(l) ==
  /\ looper[l].at = "count"
  /\ D!IncActive(looper[l].attempt)
  /\ looper' = [looper EXCEPT ![l].at = "expire", ![l].attempt = NoAttempt]
  /\ UNCHANGED <<queueVars, queue_depth>>

Loop(l) ==
  \/ Expire(l) \/ ReadDepth(l) \/ PublishDepth(l)
  \/ PollMessage(l) \/ PollNothing(l)
  \/ DispatchAdmitted(l) \/ DispatchRefused(l) \/ DispatchInvoked(l) \/ DispatchCounted(l)

\* Another holder of the queue's handle sends, or answers a delivery.  The
\* engine itself mounts no syscall that answers (dispatcher.rs:256-386): with
\* Answered = {} this is the engine as it is wired.
Client(m) ==
  /\ Q!Send(m) \/ (m \in Answered /\ (Q!Ack(m) \/ Q!Nack(m)))
  /\ UNCHANGED <<dispatcherVars, looper, queue_depth>>

\* Time passes.
Tick ==
  /\ Q!Tick
  /\ UNCHANGED <<dispatcherVars, looper, queue_depth>>

\* What the dispatcher does without a looper: HTTP requests, and executions
\* after they are counted.
Engine ==
  /\ \/ \E r \in HttpRequests :
          D!Submit(r) \/ D!RecordInvocation(r) \/ D!IncActive(r) \/ D!Disconnect(r)
     \/ \E r \in HttpRequests \cup Attempts :
          \/ D!PollDetached(r) \/ D!Start(r) \/ D!Finish(r) \/ D!Panic(r)
          \/ D!RecordError(r) \/ D!DecActive(r) \/ D!Leave(r) \/ D!Join(r)
  /\ UNCHANGED <<queueVars, looper, queue_depth>>

Next ==
  \/ \E l \in Loopers : Loop(l)
  \/ \E m \in Messages : Client(m)
  \/ Tick
  \/ Engine

Spec == Init /\ [][Next]_vars

\* The loopers are tasks that tokio polls for ever, and time passes.  Nothing
\* is assumed of the executions: they may all hold their permits for ever.
Fairness ==
  /\ \A l \in Loopers : WF_vars(Loop(l))
  /\ WF_vars(Tick)

FairSpec == Spec /\ Fairness

-----------------------------------------------------------------------------
\* Type invariant of the composition.
TypeOK ==
  /\ Q!TypeOK
  /\ D!TypeOK
  /\ looper \in [Loopers -> [at : Steps, expire_counter : 0..(ExpireEvery - 1),
                             depth : 0..Cardinality(Messages),
                             attempt : Attempts \cup {NoAttempt}]]
  /\ queue_depth \in 0..Cardinality(Messages)

\* Every delivery of a message reaches the dispatcher exactly once, whatever
\* the other loopers, an expiry or a late answer did to the message since it
\* was dequeued: a delivery made is submitted or in the hands of one looper,
\* and no execution runs for a delivery that was not made.
DeliveriesReachDispatcher ==
  \A m \in Messages, n \in 1..(MaxRetries + 1) :
    LET carriers == {l \in Loopers : looper[l].attempt = <<m, n>>
                                       /\ looper[l].at = "dispatch"} IN
      /\ phase[<<m, n>>] # "new" => n <= deliveries[m] /\ carriers = {}
      /\ phase[<<m, n>>] = "new" /\ n <= deliveries[m] => Cardinality(carriers) = 1

\* The loopers give the queue the service its liveness rests on, even when the
\* engine is overloaded for ever: a queue polled and scanned by loopers is a
\* queue of SharedQueue with its fairness (so by EventuallySettled no message
\* stays in it).
LoopersServeQueue == Q!FairSpec

\* The depth gauge does not stay wrong: once every message is settled it
\* shows 0 for ever, although a looper publishes a depth it read earlier and
\* loopers overwrite one another's (queue_looper.rs:65).
GaugeSettles ==
  <>[](acked \cup dropped = Messages => queue_depth = 0)

\* queue_looper.rs:10-11: "If the semaphore is exhausted (Dropped), the message
\* stays in the queue for the next poll cycle -- nothing is lost": a message is
\* not given up when the engine was overloaded at each of its deliveries.
NothingIsLost ==
  \A m \in dropped :
    \E n \in 1..(MaxRetries + 1) : phase[<<m, n>>] # "rejected"
=============================================================================
