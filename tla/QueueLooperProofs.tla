--------------------------- MODULE QueueLooperProofs ---------------------------
(***************************************************************************)
(* Proofs about QueueLooper for every set of loopers, every finite set of  *)
(* messages and every capacity of the dispatcher.  What is proved of the   *)
(* queue and of the dispatcher alone is used here, which needs that each   *)
(* step of the composition is a step of each, or leaves it alone.          *)
(***************************************************************************)
EXTENDS QueueLooper, FiniteSetTheorems, SequenceTheorems, TLAPS

QP == INSTANCE SharedQueueProofs
DP == INSTANCE DispatcherProofs WITH Requests <- HttpRequests \cup Attempts, Http <- HttpRequests

LoopersOK ==
  /\ looper \in [Loopers -> [at : Steps, expire_counter : 0..(ExpireEvery - 1),
                             depth : 0..Cardinality(Messages),
                             attempt : Attempts \cup {NoAttempt}]]
  /\ queue_depth \in 0..Cardinality(Messages)
  /\ \A l \in Loopers : looper[l].at \in {"dispatch", "invoke", "count"} => looper[l].attempt \in Attempts

Carries(l, m, n) == looper[l].at = "dispatch" /\ looper[l].attempt = <<m, n>>

\* A delivery is made first and submitted afterwards, and one looper has it in
\* between.
AttemptsOK ==
  \A m \in Messages, n \in 1..(MaxRetries + 1) :
    /\ phase[<<m, n>>] # "new" => n <= deliveries[m]
    /\ phase[<<m, n>>] = "new" /\ n <= deliveries[m] => \E l \in Loopers : Carries(l, m, n)
    /\ \A l \in Loopers : Carries(l, m, n) => phase[<<m, n>>] = "new" /\ n <= deliveries[m]
    /\ \A k, l \in Loopers : Carries(k, m, n) /\ Carries(l, m, n) => k = l

IInv == QP!IInv /\ DP!IInv /\ LoopersOK /\ AttemptsOK

-----------------------------------------------------------------------------
\* The same definitions reached through the two instances.
LEMMA SameQueue ==
  /\ Q!Init <=> QP!Init
  /\ Q!Next => QP!Next
  /\ UNCHANGED Q!vars <=> UNCHANGED QP!vars
  /\ QP!TypeOK => Q!TypeOK
<1>1. Q!Init <=> QP!Init
  BY DEF Q!Init, QP!Init
<1>2. ASSUME NEW S PROVE Q!Orders(S) = QP!Orders(S)
  BY DEF Q!Orders, QP!Orders, Q!Bijection, QP!Bijection, Q!Injection, QP!Injection,
         Q!Surjection, QP!Surjection, Q!IsInjective, QP!IsInjective,
         Q!Cardinality, QP!Cardinality, Q!IsFiniteSet, QP!IsFiniteSet
<1>3. ASSUME NEW S PROVE Q!Retriable(S) = QP!Retriable(S)
  BY DEF Q!Retriable, QP!Retriable
<1>4. ASSUME NEW S PROVE Q!GiveBack(S) <=> QP!GiveBack(S)
  BY <1>2, <1>3 DEF Q!GiveBack, QP!GiveBack
<1>5. Q!Expired = QP!Expired
  BY DEF Q!Expired, QP!Expired
<1>6. Q!Sent = QP!Sent
  BY DEF Q!Sent, QP!Sent, Q!Range, QP!Range
<1>7. ASSUME Q!Next PROVE QP!Next
  <2>1. ASSUME NEW m \in Messages, Q!Send(m) PROVE QP!Send(m)
    BY <1>6, <2>1 DEF Q!Send, QP!Send
  <2>2. ASSUME NEW m \in Messages, Q!Ack(m) PROVE QP!Ack(m)
    BY <2>2 DEF Q!Ack, QP!Ack
  <2>3. ASSUME NEW m \in Messages, Q!Nack(m) PROVE QP!Nack(m)
    BY <1>4, <2>3 DEF Q!Nack, QP!Nack
  <2>4. Q!TryDequeue => QP!TryDequeue
    BY DEF Q!TryDequeue, QP!TryDequeue
  <2>5. Q!RequeueExpired => QP!RequeueExpired
    BY <1>4, <1>5 DEF Q!RequeueExpired, QP!RequeueExpired
  <2>6. Q!Tick => QP!Tick
    BY DEF Q!Tick, QP!Tick
  <2> QED
    BY <1>7, <2>1, <2>2, <2>3, <2>4, <2>5, <2>6 DEF Q!Next, QP!Next
<1>8. UNCHANGED Q!vars <=> UNCHANGED QP!vars
  BY DEF Q!vars, QP!vars
<1>9. QP!TypeOK => Q!TypeOK
  BY DEF QP!TypeOK, Q!TypeOK
<1> QED
  BY <1>1, <1>7, <1>8, <1>9

LEMMA SameDispatcher ==
  /\ D!Init <=> DP!Init
  /\ D!Next => DP!Next
  /\ UNCHANGED D!vars <=> UNCHANGED DP!vars
  /\ DP!TypeOK => D!TypeOK
<1>1. D!Init <=> DP!Init
  BY DEF D!Init, DP!Init
<1>2. D!Next => DP!Next
  <2>1. ASSUME NEW r PROVE D!Submit(r) \/ D!Disconnect(r) => DP!Submit(r) \/ DP!Disconnect(r)
    BY DEF D!Submit, D!Disconnect, D!Reject, D!Admit, D!Move, D!ThreadPhases,
           DP!Submit, DP!Disconnect, DP!Reject, DP!Admit, DP!Move, DP!ThreadPhases
  <2>2. ASSUME NEW r
        PROVE  /\ D!RecordInvocation(r) => DP!RecordInvocation(r)
               /\ D!IncActive(r) => DP!IncActive(r)
               /\ D!PollDetached(r) => DP!PollDetached(r)
               /\ D!Start(r) => DP!Start(r)
    BY DEF D!RecordInvocation, D!IncActive, D!PollDetached, D!Start, D!Move,
           DP!RecordInvocation, DP!IncActive, DP!PollDetached, DP!Start, DP!Move
  <2>3. ASSUME NEW r
        PROVE  /\ D!Finish(r) => DP!Finish(r)
               /\ D!Panic(r) => DP!Panic(r)
               /\ D!RecordError(r) => DP!RecordError(r)
               /\ D!DecActive(r) => DP!DecActive(r)
    BY DEF D!Finish, D!Panic, D!RecordError, D!DecActive, D!Move,
           DP!Finish, DP!Panic, DP!RecordError, DP!DecActive, DP!Move
  <2>4. ASSUME NEW r PROVE D!Leave(r) \/ D!Join(r) => DP!Leave(r) \/ DP!Join(r)
    BY DEF D!Leave, D!Join, D!Move, DP!Leave, DP!Join, DP!Move
  <2> QED
    BY <2>1, <2>2, <2>3, <2>4 DEF D!Next, D!Advance, DP!Next, DP!Advance
<1>3. UNCHANGED D!vars <=> UNCHANGED DP!vars
  BY DEF D!vars, DP!vars
<1>4. DP!TypeOK => D!TypeOK
  BY DEF DP!TypeOK, D!TypeOK, DP!Phases, D!Phases, DP!Stats, D!Stats
<1> QED
  BY <1>1, <1>2, <1>3, <1>4

LEMMA PartAssumptions == QP!QueueAssumption /\ DP!DispatcherAssumption
BY LooperAssumption DEF QP!QueueAssumption, DP!DispatcherAssumption,
   QP!IsFiniteSet, IsFiniteSet

-----------------------------------------------------------------------------
\* A step of the composition is a step of the queue or leaves it alone; so for
\* the dispatcher.
LEMMA QueueStep == [Next]_vars => [Q!Next]_queueVars
<1> SUFFICES ASSUME Next PROVE Q!Next \/ UNCHANGED queueVars
  BY DEF vars
<1>1. ASSUME NEW l \in Loopers, Loop(l) PROVE Q!Next \/ UNCHANGED queueVars
  BY <1>1 DEF Loop, Expire, ReadDepth, PublishDepth, PollMessage, PollNothing,
     DispatchAdmitted, DispatchRefused, DispatchInvoked, DispatchCounted, Q!Next
<1>2. ASSUME NEW m \in Messages, Client(m) PROVE Q!Next
  BY <1>2 DEF Client, Q!Next
<1>3. ASSUME Tick PROVE Q!Next
  BY <1>3 DEF Tick, Q!Next
<1>4. ASSUME Engine PROVE UNCHANGED queueVars
  BY <1>4 DEF Engine
<1> QED
  BY <1>1, <1>2, <1>3, <1>4 DEF Next

LEMMA DispatcherStep == LoopersOK /\ [Next]_vars => [D!Next]_dispatcherVars
<1> SUFFICES ASSUME LoopersOK, Next PROVE D!Next \/ UNCHANGED dispatcherVars
  BY DEF vars
<1>1. ASSUME NEW l \in Loopers,
             \/ DispatchAdmitted(l) \/ DispatchRefused(l)
             \/ DispatchInvoked(l) \/ DispatchCounted(l)
      PROVE  D!Next
  <2> DEFINE r == looper[l].attempt
  <2>1. r \in HttpRequests \cup Attempts
    BY <1>1 DEF DispatchAdmitted, DispatchRefused, DispatchInvoked, DispatchCounted, Goto,
       LoopersOK
  <2>2. D!Admit(r) \/ D!Reject(r) \/ D!RecordInvocation(r) \/ D!IncActive(r)
    BY <1>1 DEF DispatchAdmitted, DispatchRefused, DispatchInvoked, DispatchCounted
  <2> QED
    BY <2>1, <2>2 DEF D!Next, D!Submit, D!Advance
<1>2. ASSUME NEW l \in Loopers,
             Expire(l) \/ ReadDepth(l) \/ PublishDepth(l) \/ PollMessage(l) \/ PollNothing(l)
      PROVE  UNCHANGED dispatcherVars
  BY <1>2 DEF Expire, ReadDepth, PublishDepth, PollMessage, PollNothing
<1>3. ASSUME NEW m \in Messages, Client(m) PROVE UNCHANGED dispatcherVars
  BY <1>3 DEF Client
<1>4. ASSUME Tick PROVE UNCHANGED dispatcherVars
  BY <1>4 DEF Tick
<1>5. ASSUME Engine PROVE D!Next
  BY <1>5 DEF Engine, D!Next, D!Advance
<1> QED
  BY <1>1, <1>2, <1>3, <1>4, <1>5 DEF Next, Loop

LEMMA PartsKeep == IInv /\ [Next]_vars => QP!IInv' /\ DP!IInv'
<1> SUFFICES ASSUME IInv, [Next]_vars PROVE QP!IInv' /\ DP!IInv'
  OBVIOUS
<1>1. [QP!Next]_(QP!vars)
  <2>1. Q!Next \/ UNCHANGED queueVars
    BY QueueStep
  <2>2. UNCHANGED queueVars => UNCHANGED QP!vars
    BY DEF queueVars, QP!vars
  <2> QED
    BY <2>1, <2>2, SameQueue
<1>2. [DP!Next]_(DP!vars)
  <2>1. D!Next \/ UNCHANGED dispatcherVars
    BY DispatcherStep DEF IInv
  <2>2. UNCHANGED dispatcherVars => UNCHANGED DP!vars
    BY DEF dispatcherVars, DP!vars
  <2> QED
    BY <2>1, <2>2, SameDispatcher
<1> QED
  BY <1>1, <1>2, QP!NextStep, DP!NextStep, PartAssumptions DEF IInv

-----------------------------------------------------------------------------
\* What the parts' invariants say of the variables read here.
LEMMA PartTypes ==
  ASSUME IInv
  PROVE  /\ ready \in Seq(Messages) /\ in_flight \subseteq Messages
         /\ deliveries \in [Messages -> 0..(MaxRetries + 1)]
         /\ \A i, j \in DOMAIN ready : ready[i] = ready[j] => i = j
         /\ \A i \in DOMAIN ready : ready[i] \notin in_flight
         /\ phase \in [HttpRequests \cup Attempts -> DP!Phases]
<1>1. QP!TypeOK /\ QP!Conservation /\ DP!TypeOK
  BY DEF IInv, QP!IInv, DP!IInv
<1>2. \A i, j \in DOMAIN ready : ready[i] = ready[j] => i = j
  BY <1>1 DEF QP!Conservation, QP!IsInjective
<1>3. \A i \in DOMAIN ready : ready[i] \notin in_flight
  BY <1>1 DEF QP!Conservation, QP!Waiting, QP!Range
<1> QED
  BY <1>1, <1>2, <1>3 DEF QP!TypeOK, DP!TypeOK

\* The messages a looper counts for the gauge are different ones.
LEMMA DepthBound ==
  ASSUME IInv PROVE Len(ready) + Cardinality(in_flight) \in 0..Cardinality(Messages)
<1> DEFINE W == {ready[i] : i \in 1..Len(ready)}
<1>1. IsFiniteSet(Messages)
  BY LooperAssumption
<1>2. W \subseteq Messages /\ in_flight \subseteq Messages /\ W \cap in_flight = {}
      /\ Len(ready) \in Nat
  BY PartTypes, LenProperties, ElementOfSeq
<1>3. IsFiniteSet(W) /\ IsFiniteSet(in_flight) /\ IsFiniteSet(W \cup in_flight)
      /\ Cardinality(W) \in Nat /\ Cardinality(in_flight) \in Nat
      /\ Cardinality(Messages) \in Nat
  BY <1>1, <1>2, FS_Subset, FS_CardinalityType, FS_Union
<1>4. Cardinality(W) = Len(ready)
  <2> DEFINE f == [i \in 1..Len(ready) |-> ready[i]]
  <2>1. f \in [1..Len(ready) -> W] /\ \A w \in W : \E i \in 1..Len(ready) : f[i] = w
    OBVIOUS
  <2>2. \A i, j \in 1..Len(ready) : f[i] = f[j] => i = j
    BY PartTypes, LenProperties
  <2>3. f \in Bijection(1..Len(ready), W)
    BY <2>1, <2>2 DEF Bijection, Injection, Surjection, IsInjective
  <2>4. ExistsBijection(1..Len(ready), W)
    BY <2>3 DEF ExistsBijection
  <2> QED
    BY <1>2, <2>4, FS_CountingElements
<1>5. Cardinality(W \cup in_flight) = Cardinality(W) + Cardinality(in_flight)
  <2>1. Cardinality(W \cup in_flight)
          = Cardinality(W) + Cardinality(in_flight) - Cardinality(W \cap in_flight)
    BY <1>3, FS_Union
  <2>2. Cardinality(W \cap in_flight) = 0
    BY <1>2, FS_EmptySet
  <2> HIDE DEF W
  <2> QED
    BY <1>3, <2>1, <2>2
<1>6. Cardinality(W \cup in_flight) <= Cardinality(Messages)
  BY <1>1, <1>2, FS_Subset
<1> HIDE DEF W
<1> QED
  BY <1>2, <1>3, <1>4, <1>5, <1>6

\* Nothing changes for the attempts when no delivery is made, none is submitted
\* and none changes hands.
LEMMA Undisturbed ==
  ASSUME AttemptsOK, deliveries' = deliveries,
         \A a \in Attempts : phase'[a] = "new" <=> phase[a] = "new",
         \A l \in Loopers, a \in Attempts :
           looper'[l].at = "dispatch" /\ looper'[l].attempt = a
             <=> looper[l].at = "dispatch" /\ looper[l].attempt = a
  PROVE  AttemptsOK'
<1>1. ASSUME NEW m \in Messages, NEW n \in 1..(MaxRetries + 1)
      PROVE  /\ <<m, n>> \in Attempts
             /\ \A l \in Loopers : Carries(l, m, n)' <=> Carries(l, m, n)
  <2>1. <<m, n>> \in Attempts
    BY DEF Attempts
  <2> QED
    BY <2>1 DEF Carries
<1> QED
  BY <1>1 DEF AttemptsOK

LEMMA InitIInv == Init => IInv
<1> SUFFICES ASSUME Init PROVE IInv
  OBVIOUS
<1>1. QP!IInv /\ DP!IInv
  BY SameQueue, SameDispatcher, PartAssumptions, QP!InitIInv, DP!InitIInv DEF Init
<1>2. Cardinality(Messages) \in Nat
  BY LooperAssumption, FS_CardinalityType
<1>3. LoopersOK
  BY <1>2, LooperAssumption DEF Init, LoopersOK, Steps
<1>4. AttemptsOK
  <2>1. ASSUME NEW m \in Messages, NEW n \in 1..(MaxRetries + 1)
        PROVE  phase[<<m, n>>] = "new" /\ ~(n <= deliveries[m])
    <3>1. <<m, n>> \in HttpRequests \cup Attempts /\ ~(n <= 0)
      BY LooperAssumption DEF Attempts
    <3>2. deliveries[m] = 0
      BY DEF Init, Q!Init
    <3>3. phase[<<m, n>>] = "new"
      BY <3>1 DEF Init, D!Init
    <3> QED
      BY <3>1, <3>2, <3>3
  <2>2. \A l \in Loopers : looper[l].at = "expire"
    BY DEF Init
  <2> QED
    BY <2>1, <2>2 DEF AttemptsOK, Carries
<1> QED
  BY <1>1, <1>3, <1>4 DEF IInv

\* The steps of a loop between two deliveries.
LEMMA IdleStep ==
  ASSUME IInv, NEW l \in Loopers,
         Expire(l) \/ ReadDepth(l) \/ PublishDepth(l) \/ PollNothing(l)
  PROVE  LoopersOK' /\ AttemptsOK'
<1>1. /\ deliveries' = deliveries /\ phase' = phase
      /\ looper[l].at \notin {"dispatch", "invoke", "count"} /\ looper'[l].at \notin {"dispatch", "invoke", "count"}
      /\ \A k \in Loopers : k # l => looper'[k] = looper[k]
  BY DEF Expire, ReadDepth, PublishDepth, PollNothing, Goto, queueVars, dispatcherVars,
     Q!RequeueExpired, Q!GiveBack, IInv, LoopersOK
<1>2. AttemptsOK'
  BY <1>1, Undisturbed DEF IInv
<1>3. LoopersOK'
  <2>1. CASE Expire(l)
    <3> DEFINE c == looper[l].expire_counter
    <3>1. c \in 0..(ExpireEvery - 1) /\ ExpireEvery \in Nat \ {0}
      BY LooperAssumption DEF IInv, LoopersOK
    <3>2. (IF c + 1 >= ExpireEvery THEN 0 ELSE c + 1) \in 0..(ExpireEvery - 1)
      BY <3>1
    <3>3. looper' = [looper EXCEPT ![l].at = "read",
                       ![l].expire_counter = IF c + 1 >= ExpireEvery THEN 0 ELSE c + 1]
      BY <2>1 DEF Expire
    <3> HIDE DEF c
    <3>4. queue_depth' = queue_depth
      BY <2>1 DEF Expire
    <3> QED
      BY <3>2, <3>3, <3>4 DEF IInv, LoopersOK, Steps
  <2>2. CASE ReadDepth(l)
    BY <2>2, DepthBound DEF ReadDepth, IInv, LoopersOK, Steps
  <2>3. CASE PublishDepth(l)
    <3>1. 0 \in 0..Cardinality(Messages)
      BY LooperAssumption, FS_CardinalityType
    <3> QED
      BY <2>3, <3>1 DEF PublishDepth, IInv, LoopersOK, Steps
  <2>4. CASE PollNothing(l)
    BY <2>4 DEF PollNothing, Goto, IInv, LoopersOK, Steps
  <2> QED
    BY <2>1, <2>2, <2>3, <2>4
<1> QED
  BY <1>2, <1>3

\* A delivery is new to the dispatcher and to the other loopers, whose deliveries
\* of the message were made before.
LEMMA PollStep ==
  ASSUME IInv, QP!IInv', NEW l \in Loopers, PollMessage(l)
  PROVE  LoopersOK' /\ AttemptsOK'
<1> DEFINE m == Head(ready)
           d == deliveries[m] + 1
<1>1. /\ m \in Messages /\ d \in 1..(MaxRetries + 1)
      /\ deliveries' = [deliveries EXCEPT ![m] = d] /\ deliveries'[m] = d
  <2>1. ready \in Seq(Messages) /\ ready # <<>>
        /\ deliveries \in [Messages -> 0..(MaxRetries + 1)]
        /\ deliveries' = [deliveries EXCEPT ![m] = d]
    BY PartTypes DEF PollMessage, Q!TryDequeue
  <2>2. m \in Messages
    BY <2>1, HeadTailProperties
  <2>3. deliveries'[m] = d
    BY <2>1, <2>2
  <2>4. deliveries' \in [Messages -> 0..(MaxRetries + 1)]
    BY DEF QP!IInv, QP!TypeOK
  <2>5. d \in 0..(MaxRetries + 1) /\ deliveries[m] \in 0..(MaxRetries + 1)
    BY <2>1, <2>2, <2>3, <2>4
  <2> HIDE DEF m
  <2> QED
    BY <2>1, <2>2, <2>3, <2>5, LooperAssumption
<1>2. /\ looper[l].at = "poll"
      /\ looper' = [looper EXCEPT ![l].at = "dispatch", ![l].attempt = <<m, d>>]
      /\ phase' = phase /\ queue_depth' = queue_depth
  BY <1>1 DEF PollMessage, dispatcherVars
<1> HIDE DEF m
<1>3. LoopersOK'
  <2>1. <<m, d>> \in Attempts
    BY <1>1 DEF Attempts
  <2> HIDE DEF d
  <2> QED
    BY <1>2, <2>1 DEF IInv, LoopersOK, Steps
<1>4. \A k \in Loopers, x \in Messages, n \in 1..(MaxRetries + 1) :
        Carries(k, x, n)' <=> Carries(k, x, n) \/ (k = l /\ x = m /\ n = d)
  <2>1. looper'[l].at = "dispatch" /\ looper'[l].attempt = <<m, d>>
        /\ \A k \in Loopers : k # l => looper'[k] = looper[k]
    BY <1>2 DEF IInv, LoopersOK
  <2>2. looper[l].at # "dispatch"
    BY <1>2
  <2>3. ASSUME NEW x \in Messages, NEW n \in 1..(MaxRetries + 1)
        PROVE  <<m, d>> = <<x, n>> <=> x = m /\ n = d
    OBVIOUS
  <2> HIDE DEF d
  <2> QED
    BY <2>1, <2>2, <2>3 DEF Carries
<1>5. ASSUME NEW x \in Messages
      PROVE  /\ deliveries[x] \in Nat
             /\ deliveries'[x] = IF x = m THEN d ELSE deliveries[x]
  BY <1>1, PartTypes, LooperAssumption
<1>6. ASSUME NEW x \in Messages, NEW n \in 1..(MaxRetries + 1)
      PROVE  /\ n <= deliveries'[x] <=> n <= deliveries[x] \/ (x = m /\ n = d)
             /\ x = m /\ n = d => ~(n <= deliveries[x])
  BY <1>5
<1> HIDE DEF d
<1> QED
  BY <1>2, <1>3, <1>4, <1>6 DEF IInv, AttemptsOK

\* The looper that has a delivery is the only one; once it is admitted or
\* refused nobody has it.
LEMMA DispatchStep ==
  ASSUME IInv, NEW l \in Loopers, DispatchAdmitted(l) \/ DispatchRefused(l)
  PROVE  LoopersOK' /\ AttemptsOK'
<1> DEFINE a == looper[l].attempt
<1>1. /\ looper[l].at = "dispatch" /\ a \in Attempts
      /\ deliveries' = deliveries /\ queue_depth' = queue_depth
  BY DEF DispatchAdmitted, DispatchRefused, Goto, queueVars, IInv, LoopersOK
<1>2. /\ phase'[a] # "new"
      /\ \A b \in Attempts : b # a => phase'[b] = phase[b]
  <2>1. \/ phase' = [phase EXCEPT ![a] = "admitted"]
        \/ phase' = [phase EXCEPT ![a] = "rejected"]
    BY DEF DispatchAdmitted, DispatchRefused, D!Admit, D!Reject, D!Move
  <2> QED
    BY <1>1, <2>1, PartTypes
<1>3. \/ looper' = [looper EXCEPT ![l].at = "invoke"]
      \/ looper' = [looper EXCEPT ![l].at = "expire", ![l].attempt = NoAttempt]
  BY DEF DispatchAdmitted, DispatchRefused, Goto
<1>4. LoopersOK'
  BY <1>1, <1>3 DEF IInv, LoopersOK, Steps
<1>5. looper'[l].at # "dispatch" /\ \A k \in Loopers : k # l => looper'[k] = looper[k]
  BY <1>3 DEF IInv, LoopersOK
<1>6. ASSUME NEW m \in Messages, NEW n \in 1..(MaxRetries + 1)
      PROVE  /\ phase'[<<m, n>>] # "new" => n <= deliveries'[m]
             /\ phase'[<<m, n>>] = "new" /\ n <= deliveries'[m]
                  => \E k \in Loopers : Carries(k, m, n)'
             /\ \A k \in Loopers : Carries(k, m, n)' =>
                                      phase'[<<m, n>>] = "new" /\ n <= deliveries'[m]
             /\ \A j, k \in Loopers : Carries(j, m, n)' /\ Carries(k, m, n)' => j = k
  <2>1. <<m, n>> \in Attempts
    BY DEF Attempts
  <2>2. /\ phase[<<m, n>>] # "new" => n <= deliveries[m]
        /\ phase[<<m, n>>] = "new" /\ n <= deliveries[m]
             => \E k \in Loopers : Carries(k, m, n)
        /\ \A k \in Loopers : Carries(k, m, n) => phase[<<m, n>>] = "new" /\ n <= deliveries[m]
        /\ \A j, k \in Loopers : Carries(j, m, n) /\ Carries(k, m, n) => j = k
    BY DEF IInv, AttemptsOK
  <2>3. Carries(l, m, n) <=> a = <<m, n>>
    BY <1>1 DEF Carries
  <2>4. ~Carries(l, m, n)' /\ \A k \in Loopers : k # l => (Carries(k, m, n)' <=> Carries(k, m, n))
    BY <1>5 DEF Carries
  <2> HIDE DEF a
  <2>5. CASE a = <<m, n>>
    BY <1>1, <1>2, <2>2, <2>3, <2>4, <2>5
  <2>6. CASE a # <<m, n>>
    BY <1>1, <1>2, <2>1, <2>2, <2>3, <2>4, <2>6
  <2> QED
    BY <2>5, <2>6
<1>7. AttemptsOK'
  BY <1>6 DEF AttemptsOK
<1> QED
  BY <1>4, <1>7

LEMMA CountStep ==
  ASSUME IInv, NEW l \in Loopers, DispatchInvoked(l) \/ DispatchCounted(l)
  PROVE  LoopersOK' /\ AttemptsOK'
<1> DEFINE a == looper[l].attempt
<1>1. /\ looper[l].at \in {"invoke", "count"} /\ a \in Attempts
      /\ \/ looper' = [looper EXCEPT ![l].at = "count"]
         \/ looper' = [looper EXCEPT ![l].at = "expire", ![l].attempt = NoAttempt]
      /\ deliveries' = deliveries /\ queue_depth' = queue_depth
  BY DEF DispatchInvoked, DispatchCounted, Goto, queueVars, IInv, LoopersOK
<1>2. LoopersOK'
  BY <1>1 DEF IInv, LoopersOK, Steps
<1>3. \A b \in Attempts : phase'[b] = "new" <=> phase[b] = "new"
  <2>1. /\ phase[a] # "new"
        /\ \E to \in {"invoked", "queued", "spawned"} : phase' = [phase EXCEPT ![a] = to]
    BY DEF DispatchInvoked, DispatchCounted, D!RecordInvocation, D!IncActive, D!Move
  <2> HIDE DEF a
  <2> QED
    BY <1>1, <2>1, PartTypes
<1>4. /\ looper'[l].at # "dispatch" /\ looper[l].at # "dispatch"
      /\ \A k \in Loopers : k # l => looper'[k] = looper[k]
  BY <1>1 DEF IInv, LoopersOK
<1> QED
  BY <1>1, <1>2, <1>3, <1>4, Undisturbed DEF IInv

\* What the clients, the clock and the executions do submits no delivery.
LEMMA OtherStep ==
  ASSUME IInv, (\E m \in Messages : Client(m)) \/ Tick \/ Engine
  PROVE  LoopersOK' /\ AttemptsOK'
<1>1. looper' = looper /\ queue_depth' = queue_depth
  BY DEF Client, Tick, Engine
<1>2. deliveries' = deliveries
  BY DEF Client, Tick, Engine, queueVars, Q!Send, Q!Ack, Q!Nack, Q!GiveBack, Q!Tick
<1>3. ASSUME NEW b \in Attempts PROVE phase'[b] = "new" <=> phase[b] = "new"
  <2>1. CASE Engine
    <3>1. ASSUME NEW r \in HttpRequests,
                 \/ D!Submit(r) \/ D!RecordInvocation(r) \/ D!IncActive(r) \/ D!Disconnect(r)
          PROVE  phase'[b] = phase[b]
      <4>1. b # r
        BY LooperAssumption
      <4> QED
        BY <3>1, <4>1, PartTypes
        DEF D!Submit, D!Reject, D!Admit, D!RecordInvocation, D!IncActive,
            D!Disconnect, D!Move
    <3>2. ASSUME NEW r \in HttpRequests \cup Attempts,
                 \/ D!PollDetached(r) \/ D!Start(r) \/ D!Finish(r) \/ D!Panic(r)
                 \/ D!RecordError(r) \/ D!DecActive(r) \/ D!Leave(r) \/ D!Join(r)
          PROVE  phase'[b] = "new" <=> phase[b] = "new"
      BY <3>2, PartTypes
      DEF D!PollDetached, D!Start, D!Finish, D!Panic, D!RecordError, D!DecActive,
          D!Leave, D!Join, D!Move
    <3> QED
      BY <2>1, <3>1, <3>2 DEF Engine
  <2>2. CASE (\E m \in Messages : Client(m)) \/ Tick
    BY <2>2 DEF Client, Tick, dispatcherVars
  <2> QED
    BY <2>1, <2>2
<1>4. LoopersOK'
  BY <1>1 DEF IInv, LoopersOK
<1>5. AttemptsOK'
  BY <1>1, <1>2, <1>3, Undisturbed DEF IInv
<1> QED
  BY <1>4, <1>5

LEMMA NextStep == IInv /\ [Next]_vars => IInv'
<1> SUFFICES ASSUME IInv, [Next]_vars PROVE IInv'
  OBVIOUS
<1>1. QP!IInv' /\ DP!IInv'
  BY PartsKeep
<1>2. ASSUME NEW l \in Loopers, Loop(l) PROVE LoopersOK' /\ AttemptsOK'
  BY <1>1, <1>2, IdleStep, PollStep, DispatchStep, CountStep DEF Loop
<1>3. ASSUME (\E m \in Messages : Client(m)) \/ Tick \/ Engine
      PROVE  LoopersOK' /\ AttemptsOK'
  BY <1>3, OtherStep
<1>4. ASSUME UNCHANGED vars PROVE LoopersOK' /\ AttemptsOK'
  <2>1. /\ looper' = looper /\ queue_depth' = queue_depth /\ deliveries' = deliveries
        /\ phase' = phase
    BY <1>4 DEF vars, queueVars, dispatcherVars
  <2>2. LoopersOK'
    BY <2>1 DEF IInv, LoopersOK
  <2>3. AttemptsOK'
    BY <2>1, Undisturbed DEF IInv
  <2> QED
    BY <2>2, <2>3
<1>5. LoopersOK' /\ AttemptsOK'
  BY <1>2, <1>3, <1>4 DEF Next
<1> QED
  BY <1>1, <1>5 DEF IInv

LEMMA Invariance == Spec => []IInv
<1>1. Init => IInv
  BY InitIInv
<1>2. IInv /\ [Next]_vars => IInv'
  BY NextStep
<1> QED
  BY <1>1, <1>2, PTL DEF Spec

-----------------------------------------------------------------------------
\* The composition keeps the types of its parts, and the depth gauge never shows
\* more than the messages there are (queue_looper.rs:61-66).
THEOREM TypeCorrect == Spec => []TypeOK
<1>1. IInv => TypeOK
  BY SameQueue, SameDispatcher DEF IInv, QP!IInv, DP!IInv, LoopersOK, TypeOK
<1> QED
  BY <1>1, Invariance, PTL

\* A delivery is submitted to the dispatcher once, by the looper that made it,
\* however many loopers the queue has (queue_looper.rs:68-95).
THEOREM EachDeliverySubmitted == Spec => []DeliveriesReachDispatcher
<1>1. ASSUME IInv, NEW m \in Messages, NEW n \in 1..(MaxRetries + 1)
      PROVE  LET carriers == {l \in Loopers : looper[l].attempt = <<m, n>>
                                                /\ looper[l].at = "dispatch"} IN
               /\ phase[<<m, n>>] # "new" => n <= deliveries[m] /\ carriers = {}
               /\ phase[<<m, n>>] = "new" /\ n <= deliveries[m] => Cardinality(carriers) = 1
  <2> DEFINE carriers == {l \in Loopers : looper[l].attempt = <<m, n>>
                                            /\ looper[l].at = "dispatch"}
  <2>1. \A l \in Loopers : l \in carriers <=> Carries(l, m, n)
    BY DEF Carries
  <2>2. phase[<<m, n>>] # "new" => n <= deliveries[m] /\ carriers = {}
    BY <1>1, <2>1 DEF IInv, AttemptsOK
  <2>3. ASSUME phase[<<m, n>>] = "new", n <= deliveries[m] PROVE Cardinality(carriers) = 1
    <3>1. PICK l \in Loopers : Carries(l, m, n)
      BY <1>1, <2>3 DEF IInv, AttemptsOK
    <3>2. carriers = {l}
      BY <1>1, <2>1, <3>1 DEF IInv, AttemptsOK
    <3> QED
      BY <3>2, FS_Singleton
  <2> QED
    BY <2>2, <2>3
<1>2. IInv => DeliveriesReachDispatcher
  BY <1>1 DEF DeliveriesReachDispatcher
<1> QED
  BY <1>2, Invariance, PTL

\* A queue with loopers is the queue that is checked without them: every step of
\* the composition is one of its steps or leaves it alone (the safety half of
\* LoopersServeQueue; queue_looper.rs:50-108).
THEOREM LoopersUseQueue == Spec => Q!Spec
<1>1. Init => Q!Init
  BY DEF Init
<1>2. [Next]_vars => [Q!Next]_(Q!vars)
  BY QueueStep DEF queueVars, Q!vars
<1> QED
  BY <1>1, <1>2, PTL DEF Spec, Q!Spec

\* So is its dispatcher (queue_looper.rs:89-104).
THEOREM LoopersUseDispatcher == Spec => D!Spec
<1>1. Init => D!Init
  BY DEF Init
<1>2. IInv /\ [Next]_vars => [D!Next]_(D!vars)
  BY DispatcherStep DEF dispatcherVars, D!vars, IInv
<1> QED
  BY <1>1, <1>2, Invariance, PTL DEF Spec, D!Spec
=============================================================================
