-------------------------- MODULE SharedQueueProofs --------------------------
(***************************************************************************)
(* Proofs about SharedQueue for every finite set of messages, every retry  *)
(* limit and every timeout: its invariants, and that it implements the     *)
(* delivery contract.                                                      *)
(***************************************************************************)
EXTENDS SharedQueue, FiniteSetTheorems, SequenceTheorems, TLAPS

\* Messages that were never delivered wait in the order in which they were
\* sent.  This is what makes FirstDeliveriesInOrder inductive: the next first
\* delivery is the oldest one.
FreshInOrder ==
  \A p, q \in DOMAIN ready : \A i, j \in DOMAIN sent :
    /\ ready[p] = sent[i] /\ ready[q] = sent[j]
    /\ deliveries[ready[p]] = 0
    /\ i < j
    => p < q

\* The inductive invariant.
IInv ==
  /\ TypeOK
  /\ Conservation
  /\ RetryBudget
  /\ FirstDeliveriesInOrder
  /\ IsInjective(sent)
  /\ FreshInOrder
-----------------------------------------------------------------------------
\* What enqueue does to a queue: one more element, at the back.
LEMMA AppendFacts ==
  ASSUME NEW S, NEW s \in Seq(S), NEW x \in S
  PROVE  /\ Append(s, x) \in Seq(S)
         /\ DOMAIN Append(s, x) = 1..(Len(s) + 1)
         /\ \A i \in DOMAIN s : Append(s, x)[i] = s[i]
         /\ Append(s, x)[Len(s) + 1] = x
         /\ Range(Append(s, x)) = Range(s) \cup {x}
         /\ IsInjective(s) /\ x \notin Range(s) => IsInjective(Append(s, x))
<1> DEFINE t == Append(s, x)
<1>1. /\ t \in Seq(S)
      /\ DOMAIN s = 1..Len(s)
      /\ Len(s) \in Nat
      /\ DOMAIN t = 1..(Len(s) + 1)
      /\ \A i \in DOMAIN s : t[i] = s[i]
      /\ t[Len(s) + 1] = x
  OBVIOUS
<1>2. DOMAIN t = DOMAIN s \cup {Len(s) + 1}
  BY <1>1
<1> HIDE DEF t
<1>3. Range(t) = Range(s) \cup {x}
  BY <1>1, <1>2 DEF Range
<1>4. ASSUME IsInjective(s), x \notin Range(s)
      PROVE  IsInjective(t)
  BY <1>1, <1>2, <1>4 DEF IsInjective, Range
<1> QED
  BY <1>1, <1>3, <1>4 DEF t

\* What try_dequeue does to a queue: the front element leaves, the others move
\* up by one place.
LEMMA TailFacts ==
  ASSUME NEW S, NEW s \in Seq(S), s # <<>>
  PROVE  /\ Head(s) \in S
         /\ Head(s) = s[1]
         /\ 1 \in DOMAIN s
         /\ Tail(s) \in Seq(S)
         /\ \A i \in DOMAIN Tail(s) : i + 1 \in DOMAIN s /\ Tail(s)[i] = s[i + 1]
         /\ Range(s) = Range(Tail(s)) \cup {Head(s)}
         /\ IsInjective(s) => /\ IsInjective(Tail(s))
                              /\ Head(s) \notin Range(Tail(s))
<1> DEFINE t == Tail(s)
<1>1. /\ Head(s) \in S
      /\ Head(s) = s[1]
      /\ DOMAIN s = 1..Len(s)
      /\ Len(s) \in Nat \ {0}
      /\ t \in Seq(S)
      /\ DOMAIN t = 1..(Len(s) - 1)
      /\ \A i \in DOMAIN t : t[i] = s[i + 1]
  OBVIOUS
<1> HIDE DEF t
<1>2. 1 \in DOMAIN s /\ \A i \in DOMAIN t : i + 1 \in DOMAIN s /\ i + 1 # 1
  BY <1>1
<1>3. \A j \in DOMAIN s : j = 1 \/ (j - 1 \in DOMAIN t /\ t[j - 1] = s[j])
  BY <1>1
<1>4. Range(s) = Range(t) \cup {Head(s)}
  <2>1. \A j \in DOMAIN s : s[j] \in Range(t) \cup {Head(s)}
    BY <1>1, <1>3 DEF Range
  <2>2. \A i \in DOMAIN t : t[i] \in Range(s)
    BY <1>1, <1>2 DEF Range
  <2>3. Head(s) \in Range(s)
    BY <1>1, <1>2 DEF Range
  <2> QED
    BY <2>1, <2>2, <2>3 DEF Range
<1>5. ASSUME IsInjective(s)
      PROVE  IsInjective(t) /\ Head(s) \notin Range(t)
  BY <1>1, <1>2, <1>5 DEF IsInjective, Range
<1> QED
  BY <1>1, <1>2, <1>4, <1>5 DEF t

\* What requeueing does to a queue: a list of distinct messages, none of which
\* waits already, joins the back.
LEMMA ConcatFacts ==
  ASSUME NEW S, NEW s \in Seq(S), NEW t \in Seq(S)
  PROVE  /\ s \o t \in Seq(S)
         /\ DOMAIN s \subseteq DOMAIN (s \o t)
         /\ \A i \in DOMAIN s : (s \o t)[i] = s[i]
         /\ \A i \in DOMAIN (s \o t) : i \in DOMAIN s \/ (s \o t)[i] \in Range(t)
         /\ Range(s \o t) = Range(s) \cup Range(t)
         /\ IsInjective(s) /\ IsInjective(t) /\ Range(s) \cap Range(t) = {}
              => IsInjective(s \o t)
<1> DEFINE u == s \o t
<1>1. /\ u \in Seq(S)
      /\ DOMAIN s = 1..Len(s) /\ Len(s) \in Nat
      /\ DOMAIN t = 1..Len(t) /\ Len(t) \in Nat
      /\ DOMAIN u = 1..(Len(s) + Len(t))
      /\ \A i \in DOMAIN u : u[i] = IF i <= Len(s) THEN s[i] ELSE t[i - Len(s)]
  OBVIOUS
<1> HIDE DEF u
<1>2. DOMAIN s \subseteq DOMAIN u /\ \A i \in DOMAIN s : u[i] = s[i]
  BY <1>1
<1>3. \A i \in DOMAIN u : i \in DOMAIN s \/ (i - Len(s) \in DOMAIN t /\ u[i] = t[i - Len(s)])
  BY <1>1
<1>4. \A i \in DOMAIN t : i + Len(s) \in DOMAIN u /\ u[i + Len(s)] = t[i]
  BY <1>1
<1>5. Range(u) = Range(s) \cup Range(t)
  BY <1>2, <1>3, <1>4 DEF Range
<1>6. ASSUME IsInjective(s), IsInjective(t), Range(s) \cap Range(t) = {},
             NEW i \in DOMAIN u, NEW j \in DOMAIN u, u[i] = u[j]
      PROVE  i = j
  <2>1. CASE i \in DOMAIN s /\ j \in DOMAIN s
    BY <1>2, <1>6, <2>1 DEF IsInjective
  <2>0. \A k \in DOMAIN u : IF k \in DOMAIN s THEN u[k] \in Range(s) ELSE u[k] \in Range(t)
    BY <1>2, <1>3 DEF Range
  <2>2. CASE i \in DOMAIN s /\ j \notin DOMAIN s
    BY <1>6, <2>2, <2>0
  <2>3. CASE i \notin DOMAIN s /\ j \in DOMAIN s
    BY <1>6, <2>3, <2>0
  <2>4. CASE i \notin DOMAIN s /\ j \notin DOMAIN s
    <3>1. i - Len(s) \in DOMAIN t /\ j - Len(s) \in DOMAIN t
      BY <1>3, <2>4
    <3>2. t[i - Len(s)] = t[j - Len(s)]
      BY <1>3, <1>6, <2>4
    <3>3. i - Len(s) = j - Len(s)
      BY <1>6, <3>1, <3>2 DEF IsInjective
    <3> QED
      BY <1>1, <3>3
  <2> QED
    BY <2>1, <2>2, <2>3, <2>4
<1> QED
  BY <1>1, <1>2, <1>3, <1>5, <1>6 DEF u, IsInjective, Range

\* A listing of a finite set has its members, each once.
LEMMA OrderFacts ==
  ASSUME NEW S, IsFiniteSet(S), NEW order \in Orders(S)
  PROVE  order \in Seq(S) /\ Range(order) = S /\ IsInjective(order)
<1>1. Cardinality(S) \in Nat
  BY FS_CardinalityType
<1>2. order \in [1..Cardinality(S) -> S] /\ IsInjective(order)
  BY DEF Orders, Bijection, Injection
<1>3. \A x \in S : \E i \in 1..Cardinality(S) : order[i] = x
  BY DEF Orders, Bijection, Surjection
<1>4. Range(order) = S
  BY <1>2, <1>3 DEF Range
<1>5. order \in Seq(S)
  BY <1>1, <1>2, IsASeq
<1> QED
  BY <1>2, <1>4, <1>5

-----------------------------------------------------------------------------
LEMMA InitIInv == Init => IInv
<1> SUFFICES ASSUME Init PROVE IInv
  OBVIOUS
<1> USE QueueAssumption DEF Init
<1>1. Range(<<>>) = {} /\ IsInjective(<<>>)
  BY DEF Range, IsInjective
<1>2. TypeOK
  BY DEF TypeOK
<1>3. Conservation
  BY <1>1 DEF Conservation, Sent, Waiting, Settled
<1>4. RetryBudget
  BY DEF RetryBudget
<1>5. FirstDeliveriesInOrder /\ FreshInOrder
  BY DEF FirstDeliveriesInOrder, FreshInOrder
<1> QED
  BY <1>1, <1>2, <1>3, <1>4, <1>5 DEF IInv

\* A message that was sent and never delivered is in the ready queue.
LEMMA FreshWaits ==
  ASSUME IInv, NEW i \in DOMAIN sent, deliveries[sent[i]] = 0
  PROVE  \E p \in DOMAIN ready : ready[p] = sent[i]
<1>1. sent[i] \in Sent /\ sent[i] \in Messages
  BY DEF IInv, TypeOK, Sent, Range
<1>2. sent[i] \notin in_flight \cup acked
  BY <1>1, QueueAssumption DEF IInv, TypeOK, RetryBudget
<1>3. sent[i] \notin dropped
  BY <1>1, QueueAssumption DEF IInv, TypeOK, RetryBudget
<1>4. sent[i] \in Waiting
  BY <1>1, <1>2, <1>3 DEF IInv, Conservation
<1> QED
  BY <1>4 DEF Waiting, Range

LEMMA SendStep ==
  ASSUME IInv, NEW m \in Messages, Send(m)
  PROVE  IInv'
<1>1. /\ m \notin Sent
      /\ ready' = Append(ready, m) /\ sent' = Append(sent, m)
      /\ UNCHANGED <<in_flight, retries, ttl, deliveries, acked, dropped>>
  BY DEF Send
<1>2. /\ ready \in Seq(Messages) /\ sent \in Seq(Messages)
      /\ IsInjective(ready) /\ IsInjective(sent)
  BY DEF IInv, TypeOK, Conservation
<1>3. m \notin Waiting /\ m \notin in_flight /\ m \notin acked /\ m \notin dropped
  BY <1>1 DEF IInv, Conservation
<1>4. Waiting' = Waiting \cup {m} /\ IsInjective(ready')
  BY <1>1, <1>2, <1>3, AppendFacts DEF Waiting
<1>5. Sent' = Sent \cup {m} /\ IsInjective(sent')
  BY <1>1, <1>2, AppendFacts DEF Sent
<1>6. TypeOK'
  BY <1>1 DEF IInv, TypeOK
<1>7. Conservation'
  BY <1>1, <1>3, <1>4, <1>5 DEF IInv, Conservation, Settled
<1>8. RetryBudget'
  BY <1>1, <1>5 DEF IInv, RetryBudget
<1>9. deliveries[m] = 0
  BY <1>1, <1>3 DEF IInv, TypeOK, RetryBudget
<1>10. FirstDeliveriesInOrder'
  <2>1. SUFFICES ASSUME NEW i \in DOMAIN sent', NEW j \in DOMAIN sent',
                        i < j, deliveries'[sent'[j]] > 0
                 PROVE  deliveries'[sent'[i]] > 0
    BY DEF FirstDeliveriesInOrder
  <2>2. DOMAIN sent' = 1..(Len(sent) + 1) /\ sent'[Len(sent) + 1] = m
    BY <1>1, <1>2, AppendFacts
  <2>3. \A k \in DOMAIN sent : sent'[k] = sent[k]
    BY <1>1, <1>2, AppendFacts
  <2>4. DOMAIN sent = 1..Len(sent) /\ Len(sent) \in Nat
    BY <1>2
  <2>5. j # Len(sent) + 1
    BY <1>1, <1>9, <2>1, <2>2
  <2>6. i \in DOMAIN sent /\ j \in DOMAIN sent
    BY <2>1, <2>2, <2>4, <2>5
  <2> QED
    BY <1>1, <2>1, <2>3, <2>6 DEF IInv, FirstDeliveriesInOrder
<1>11. FreshInOrder'
  <2>1. SUFFICES ASSUME NEW p \in DOMAIN ready', NEW q \in DOMAIN ready',
                        NEW i \in DOMAIN sent', NEW j \in DOMAIN sent',
                        ready'[p] = sent'[i], ready'[q] = sent'[j],
                        deliveries'[ready'[p]] = 0, i < j
                 PROVE  p < q
    BY DEF FreshInOrder
  <2>2. /\ DOMAIN sent' = 1..(Len(sent) + 1) /\ sent'[Len(sent) + 1] = m
        /\ DOMAIN ready' = 1..(Len(ready) + 1) /\ ready'[Len(ready) + 1] = m
        /\ \A k \in DOMAIN sent : sent'[k] = sent[k]
        /\ \A k \in DOMAIN ready : ready'[k] = ready[k]
    BY <1>1, <1>2, AppendFacts
  <2>3. /\ DOMAIN sent = 1..Len(sent) /\ Len(sent) \in Nat
        /\ DOMAIN ready = 1..Len(ready) /\ Len(ready) \in Nat
    BY <1>2
  <2>4. i \in DOMAIN sent /\ sent'[i] = sent[i]
    BY <2>1, <2>2, <2>3
  <2>5. sent[i] # m
    BY <1>1, <2>4 DEF Sent, Range
  <2>6. p \in DOMAIN ready /\ ready'[p] = ready[p]
    BY <2>1, <2>2, <2>3, <2>4, <2>5
  <2>7. CASE q = Len(ready) + 1
    BY <2>3, <2>6, <2>7
  <2>8. CASE q # Len(ready) + 1
    <3>1. q \in DOMAIN ready /\ ready'[q] = ready[q] /\ ready[q] # m
      BY <1>3, <2>2, <2>3, <2>8 DEF Waiting, Range
    <3>2. j # Len(sent) + 1
      BY <2>1, <2>2, <3>1
    <3>3. j \in DOMAIN sent /\ sent'[j] = sent[j]
      BY <2>1, <2>2, <2>3, <3>2
    <3> QED
      BY <1>1, <2>1, <2>4, <2>6, <3>1, <3>3 DEF IInv, FreshInOrder
  <2> QED
    BY <2>7, <2>8
<1> QED
  BY <1>5, <1>6, <1>7, <1>8, <1>10, <1>11 DEF IInv

LEMMA TryDequeueStep ==
  ASSUME IInv, TryDequeue
  PROVE  IInv'
<1> DEFINE m == Head(ready)
<1>1. /\ ready # <<>>
      /\ in_flight' = in_flight \cup {m}
      /\ ttl' = [ttl EXCEPT ![m] = Timeout]
      /\ deliveries' = [deliveries EXCEPT ![m] = @ + 1]
      /\ ready' = Tail(ready)
      /\ UNCHANGED <<retries, sent, acked, dropped>>
  BY DEF TryDequeue
<1>2. ready \in Seq(Messages) /\ IsInjective(ready)
  BY DEF IInv, TypeOK, Conservation
<1>3. /\ m \in Messages /\ m = ready[1] /\ 1 \in DOMAIN ready
      /\ ready' \in Seq(Messages)
      /\ \A i \in DOMAIN ready' : i + 1 \in DOMAIN ready /\ ready'[i] = ready[i + 1]
      /\ Waiting = Waiting' \cup {m}
      /\ IsInjective(ready') /\ m \notin Waiting'
  BY <1>1, <1>2, TailFacts DEF Waiting
<1> HIDE DEF m
<1>4. m \notin in_flight /\ m \notin acked /\ m \notin dropped /\ m \in Sent
  BY <1>3 DEF IInv, Conservation, Settled
<1>5. Sent' = Sent
  BY <1>1 DEF Sent
<1>6. Conservation'
  BY <1>1, <1>3, <1>4, <1>5 DEF IInv, Conservation, Settled
<1>7. deliveries[m] = retries[m] /\ retries[m] \in 0..MaxRetries
  BY <1>3, <1>4, QueueAssumption DEF IInv, TypeOK, RetryBudget
<1>8. TypeOK'
  BY <1>1, <1>3, <1>7, QueueAssumption DEF IInv, TypeOK
<1>9. RetryBudget'
  <2>1. SUFFICES ASSUME NEW n \in Messages
                 PROVE  /\ deliveries'[n] = retries'[n] + (IF n \in in_flight' \cup acked' THEN 1 ELSE 0)
                        /\ n \in dropped' => deliveries'[n] = MaxRetries + 1
                        /\ n \notin dropped' => retries'[n] <= MaxRetries
                        /\ n \notin Sent' => retries'[n] = 0
    BY DEF RetryBudget
  <2>2. CASE n = m
    BY <1>1, <1>3, <1>4, <1>5, <1>7, <2>2, QueueAssumption DEF IInv, TypeOK, RetryBudget
  <2>3. CASE n # m
    BY <1>1, <1>3, <1>5, <2>3 DEF IInv, TypeOK, RetryBudget
  <2> QED
    BY <2>2, <2>3
<1>10. \A n \in Messages : /\ n # m => deliveries'[n] = deliveries[n]
                           /\ deliveries'[n] > 0 <=> n = m \/ deliveries[n] > 0
  BY <1>1, <1>3, QueueAssumption DEF IInv, TypeOK
<1>11. \A i \in DOMAIN sent : sent[i] \in Messages /\ deliveries[sent[i]] \in Nat /\ i \in Nat
  BY QueueAssumption DEF IInv, TypeOK
<1>12. FirstDeliveriesInOrder'
  <2>1. SUFFICES ASSUME NEW i \in DOMAIN sent, NEW j \in DOMAIN sent,
                        i < j, deliveries'[sent[j]] > 0, deliveries[sent[i]] = 0, sent[i] # m
                 PROVE  FALSE
    BY <1>1, <1>10, <1>11 DEF FirstDeliveriesInOrder
  <2>2. sent[j] = m
    BY <1>10, <1>11, <2>1 DEF IInv, FirstDeliveriesInOrder
  <2>3. PICK p \in DOMAIN ready : ready[p] = sent[i]
    BY <2>1, FreshWaits
  <2>4. p < 1
    BY <1>3, <2>1, <2>2, <2>3 DEF IInv, FreshInOrder
  <2>5. p \in 1..Len(ready)
    BY <1>2
  <2> QED
    BY <2>4, <2>5
<1>13. FreshInOrder'
  <2>1. SUFFICES ASSUME NEW p \in DOMAIN ready', NEW q \in DOMAIN ready',
                        NEW i \in DOMAIN sent, NEW j \in DOMAIN sent,
                        ready'[p] = sent[i], ready'[q] = sent[j],
                        deliveries'[ready'[p]] = 0, i < j
                 PROVE  p < q
    BY <1>1 DEF FreshInOrder
  <2>2. ready'[p] # m /\ ready'[p] \in Messages
    BY <1>3, <1>11, <2>1 DEF Waiting, Range
  <2>3. deliveries[ready'[p]] = 0
    BY <1>10, <2>1, <2>2
  <2>4. p + 1 < q + 1
    BY <1>3, <2>1, <2>3 DEF IInv, FreshInOrder
  <2>5. p \in Nat /\ q \in Nat
    BY <1>3
  <2> QED
    BY <2>4, <2>5
<1> QED
  BY <1>1, <1>6, <1>8, <1>9, <1>12, <1>13 DEF IInv

LEMMA AckStep ==
  ASSUME IInv, NEW m \in Messages, Ack(m)
  PROVE  IInv'
<1>1. /\ m \in in_flight
      /\ in_flight' = in_flight \ {m} /\ acked' = acked \cup {m}
      /\ ttl' = [ttl EXCEPT ![m] = 0]
      /\ UNCHANGED <<ready, retries, sent, deliveries, dropped>>
  BY DEF Ack
<1>2. Sent' = Sent /\ Waiting' = Waiting
  BY <1>1 DEF Sent, Waiting
<1>3. TypeOK'
  BY <1>1, QueueAssumption DEF IInv, TypeOK
<1>4. Conservation'
  BY <1>1, <1>2 DEF IInv, Conservation, Settled
<1>5. RetryBudget'
  BY <1>1, <1>2 DEF IInv, RetryBudget
<1>6. FirstDeliveriesInOrder' /\ FreshInOrder'
  BY <1>1 DEF IInv, FirstDeliveriesInOrder, FreshInOrder
<1> QED
  BY <1>1, <1>3, <1>4, <1>5, <1>6 DEF IInv

\* nack and requeue_expired both give a part of the in-flight messages back.
LEMMA GiveBackStep ==
  ASSUME IInv, NEW S \in SUBSET in_flight, GiveBack(S)
  PROVE  IInv'
<1> DEFINE R == Retriable(S)
<1>1. /\ in_flight' = in_flight \ S
      /\ ttl' = [m \in Messages |-> IF m \in S THEN 0 ELSE ttl[m]]
      /\ retries' = [m \in Messages |-> IF m \in S THEN retries[m] + 1 ELSE retries[m]]
      /\ dropped' = dropped \cup (S \ R)
      /\ UNCHANGED <<sent, deliveries, acked>>
  BY DEF GiveBack
<1>2. R \subseteq S /\ S \subseteq in_flight /\ S \subseteq Messages /\ IsFiniteSet(R)
  BY FS_Subset, QueueAssumption DEF Retriable, IInv, TypeOK
<1>3. PICK order \in Orders(R) : ready' = ready \o order
  BY DEF GiveBack
<1>4. \A m \in S : m \in R <=> retries[m] + 1 <= MaxRetries
  BY DEF Retriable
<1> HIDE DEF R
<1>5. order \in Seq(R) /\ Range(order) = R /\ IsInjective(order)
  BY <1>2, <1>3, OrderFacts
<1>6. order \in Seq(Messages)
  BY <1>2, <1>5, SeqMonotonic
<1>7. ready \in Seq(Messages) /\ IsInjective(ready) /\ Waiting \cap R = {}
  BY <1>2 DEF IInv, TypeOK, Conservation
<1>8. /\ ready' \in Seq(Messages)
      /\ DOMAIN ready \subseteq DOMAIN ready'
      /\ \A p \in DOMAIN ready : ready'[p] = ready[p]
      /\ \A p \in DOMAIN ready' : p \in DOMAIN ready \/ ready'[p] \in R
      /\ Waiting' = Waiting \cup R
      /\ IsInjective(ready')
  BY <1>3, <1>5, <1>6, <1>7, ConcatFacts DEF Waiting
<1>9. \A m \in S : /\ deliveries[m] = retries[m] + 1
                   /\ retries[m] \in 0..MaxRetries
                   /\ m \in Sent /\ m \notin acked /\ m \notin dropped
  BY <1>2, QueueAssumption DEF IInv, TypeOK, RetryBudget, Conservation, Settled
<1>10. Sent' = Sent
  BY <1>1 DEF Sent
<1>11. TypeOK'
  BY <1>1, <1>2, <1>8, <1>9, QueueAssumption DEF IInv, TypeOK
<1>12. Conservation'
  BY <1>1, <1>2, <1>8, <1>9, <1>10 DEF IInv, Conservation, Settled
<1>13. RetryBudget'
  <2>1. SUFFICES ASSUME NEW m \in Messages
                 PROVE  /\ deliveries'[m] = retries'[m] + (IF m \in in_flight' \cup acked' THEN 1 ELSE 0)
                        /\ m \in dropped' => deliveries'[m] = MaxRetries + 1
                        /\ m \notin dropped' => retries'[m] <= MaxRetries
                        /\ m \notin Sent' => retries'[m] = 0
    BY DEF RetryBudget
  <2>2. CASE m \in S
    <3>1. deliveries'[m] = retries[m] + 1 /\ retries'[m] = retries[m] + 1
      BY <1>1, <1>9, <2>2
    <3>2. m \notin in_flight' /\ m \notin acked' /\ m \in Sent'
      BY <1>1, <1>9, <1>10, <2>2
    <3>3. m \in dropped' <=> ~(retries[m] + 1 <= MaxRetries)
      BY <1>1, <1>4, <1>9, <2>2
    <3> QED
      BY <1>9, <2>2, <3>1, <3>2, <3>3, QueueAssumption
  <2>3. CASE m \notin S
    BY <1>1, <1>10, <2>3 DEF IInv, RetryBudget
  <2> QED
    BY <2>2, <2>3
<1>14. FirstDeliveriesInOrder'
  BY <1>1 DEF IInv, FirstDeliveriesInOrder
<1>15. FreshInOrder'
  <2>1. SUFFICES ASSUME NEW p \in DOMAIN ready', NEW q \in DOMAIN ready',
                        NEW i \in DOMAIN sent, NEW j \in DOMAIN sent,
                        ready'[p] = sent[i], ready'[q] = sent[j],
                        deliveries[ready'[p]] = 0, i < j
                 PROVE  p < q
    BY <1>1 DEF FreshInOrder
  <2>2. \A m \in R : deliveries[m] # 0
    BY <1>2, <1>9
  <2>3. p \in DOMAIN ready
    BY <1>8, <2>1, <2>2
  <2>4. CASE q \in DOMAIN ready
    BY <1>8, <2>1, <2>3, <2>4 DEF IInv, FreshInOrder
  <2>5. CASE q \notin DOMAIN ready
    <3>1. /\ DOMAIN ready = 1..Len(ready) /\ Len(ready) \in Nat
          /\ DOMAIN ready' = 1..Len(ready') /\ Len(ready') \in Nat
      BY <1>7, <1>8
    <3> QED
      BY <2>3, <2>5, <3>1
  <2> QED
    BY <2>4, <2>5
<1> QED
  BY <1>1, <1>8, <1>11, <1>12, <1>13, <1>14, <1>15 DEF IInv

LEMMA TickStep ==
  ASSUME IInv, Tick
  PROVE  IInv'
<1>1. /\ ttl' = [m \in Messages |-> IF ttl[m] > 0 THEN ttl[m] - 1 ELSE 0]
      /\ UNCHANGED <<ready, in_flight, retries, sent, deliveries, acked, dropped>>
  BY DEF Tick
<1>2. ttl' \in [Messages -> 0..Timeout]
  BY <1>1, QueueAssumption DEF IInv, TypeOK
<1> QED
  BY <1>1, <1>2 DEF IInv, TypeOK, Conservation, RetryBudget, FirstDeliveriesInOrder,
                    FreshInOrder, Sent, Waiting, Settled

LEMMA NextStep == IInv /\ [Next]_vars => IInv'
<1> SUFFICES ASSUME IInv, [Next]_vars PROVE IInv'
  OBVIOUS
<1>1. ASSUME NEW m \in Messages, Send(m) PROVE IInv'
  BY <1>1, SendStep
<1>2. ASSUME NEW m \in Messages, Ack(m) PROVE IInv'
  BY <1>2, AckStep
<1>3. ASSUME NEW m \in Messages, Nack(m) PROVE IInv'
  BY <1>3, GiveBackStep DEF Nack
<1>4. ASSUME TryDequeue PROVE IInv'
  BY <1>4, TryDequeueStep
<1>5. ASSUME RequeueExpired PROVE IInv'
  BY <1>5, GiveBackStep DEF RequeueExpired, Expired
<1>6. ASSUME Tick PROVE IInv'
  BY <1>6, TickStep
<1>7. CASE UNCHANGED vars
  BY <1>7 DEF vars, IInv, TypeOK, Conservation, RetryBudget, FirstDeliveriesInOrder,
              FreshInOrder, Sent, Waiting, Settled
<1> QED
  BY <1>1, <1>2, <1>3, <1>4, <1>5, <1>6, <1>7 DEF Next

LEMMA Invariance == Spec => []IInv
  BY InitIInv, NextStep, PTL DEF Spec

-----------------------------------------------------------------------------
\* The queue's variables keep their types: no retry counter passes
\* max_retries + 1 and no countdown leaves 0..Timeout (queues.rs:21-67).
THEOREM TypeCorrect == Spec => []TypeOK
  BY Invariance, PTL DEF IInv

\* No interleaving of queue operations loses or duplicates a message
\* (queues.rs:69-124).
THEOREM MessagesConserved == Spec => []Conservation
  BY Invariance, PTL DEF IInv

\* A message is dropped after exactly max_retries + 1 deliveries, whichever
\* mixture of nacks and expiries returned it (queues.rs:91-124).
THEOREM RetryBudgetExact == Spec => []RetryBudget
  BY Invariance, PTL DEF IInv

\* Requeued messages never let a later message have its first delivery before
\* an earlier one (queues.rs:69-85).
THEOREM FirstDeliveriesOrdered == Spec => []FirstDeliveriesInOrder
  BY Invariance, PTL DEF IInv

\* A settled message is never delivered again (queues.rs:87-103).
THEOREM SettledStaysSettled == Spec => SettledIsFinal
<1> DEFINE Final == \A m \in Settled : m \in Settled' /\ deliveries'[m] = deliveries[m]
<1>1. IInv /\ [Next]_vars => [Final]_vars
  <2> SUFFICES ASSUME IInv, Next PROVE Final
    OBVIOUS
  <2>1. ASSUME NEW m \in Messages, Send(m) PROVE Final
    BY <2>1 DEF Send, Settled
  <2>2. ASSUME NEW m \in Messages, Ack(m) PROVE Final
    BY <2>2 DEF Ack, Settled
  <2>3. ASSUME NEW S, GiveBack(S) PROVE Final
    BY <2>3 DEF GiveBack, Settled
  <2>4. CASE TryDequeue
    <3>1. ready \in Seq(Messages) /\ ready # <<>>
      BY <2>4 DEF IInv, TypeOK, TryDequeue
    <3>2. Head(ready) \in Waiting
      BY <3>1, TailFacts DEF Waiting
    <3>3. \A m \in Settled : m # Head(ready) /\ m \in Messages
      BY <3>2 DEF IInv, TypeOK, Conservation, Settled
    <3> QED
      BY <2>4, <3>3 DEF TryDequeue, Settled, IInv, TypeOK
  <2>5. CASE Tick
    BY <2>5 DEF Tick, Settled
  <2> QED
    BY <2>1, <2>2, <2>3, <2>4, <2>5 DEF Next, Nack, RequeueExpired
<1> QED
  BY <1>1, Invariance, PTL DEF Spec, SettledIsFinal

-----------------------------------------------------------------------------
\* Where a message is, read off the invariant: the four places are disjoint,
\* so the cases of status are.
LEMMA StatusIs ==
  ASSUME IInv, NEW m \in Messages
  PROVE  /\ m \in acked => status[m] = "acked"
         /\ m \in dropped => status[m] = "dropped"
         /\ m \in in_flight => status[m] = "delivered"
         /\ m \in Waiting => status[m] = "waiting"
         /\ m \notin Sent => status[m] = "unsent"
<1>1. Conservation
  BY DEF IInv
<1> QED
  BY <1>1 DEF status, Conservation, Settled

LEMMA ContractInit == Init => Contract!Init
<1> SUFFICES ASSUME Init PROVE Contract!Init
  OBVIOUS
<1>1. Waiting = {} /\ in_flight = {} /\ acked = {} /\ dropped = {}
  BY DEF Init, Waiting, Range
<1>2. status = [m \in Messages |-> "unsent"]
  BY <1>1 DEF status
<1> QED
  BY <1>2 DEF Init, Contract!Init

\* A message that an action leaves where it was keeps its status.
LEMMA StatusKept ==
  ASSUME NEW m \in Messages,
         m \in acked <=> m \in acked', m \in dropped <=> m \in dropped',
         m \in in_flight <=> m \in in_flight', m \in Waiting <=> m \in Waiting'
  PROVE  status'[m] = status[m]
  BY DEF status

\* Every step of the queue is a step of the contract or leaves it unchanged.
LEMMA ContractStep == IInv /\ IInv' /\ [Next]_vars => [Contract!Next]_(Contract!vars)
<1> SUFFICES ASSUME IInv, IInv', [Next]_vars
             PROVE  Contract!Next \/ UNCHANGED <<status, deliveries>>
  BY DEF Contract!vars
<1>0. /\ ready \in Seq(Messages) /\ sent \in Seq(Messages)
      /\ in_flight \subseteq Messages /\ Conservation
  BY DEF IInv, TypeOK
<1>1. ASSUME NEW m \in Messages, Send(m)
      PROVE  Contract!Accept(m)
  <2>1. Waiting' = Waiting \cup {m}
    BY <1>0, <1>1, AppendFacts DEF Send, Waiting
  <2>2. status[m] = "unsent" /\ status'[m] = "waiting"
    <3>1. m \in Waiting' /\ m \notin Sent
      BY <1>1, <2>1 DEF Send
    <3>2. status'[m] = "waiting"
      BY <1>1, <2>1, <3>1, <1>0 DEF status, Send, Conservation
    <3> QED
      BY <3>1, <3>2, StatusIs
  <2>3. \A n \in Messages \ {m} : status'[n] = status[n]
    BY <1>1, <2>1, StatusKept DEF Send
  <2>4. status' = [status EXCEPT ![m] = "waiting"]
    BY <2>2, <2>3 DEF status
  <2> QED
    BY <1>1, <2>2, <2>4 DEF Contract!Accept, Send
<1>2. ASSUME NEW m \in Messages, Ack(m)
      PROVE  Contract!Acknowledge(m)
  <2>1. Waiting' = Waiting
    BY <1>2 DEF Ack, Waiting
  <2>2. status[m] = "delivered" /\ status'[m] = "acked"
    BY <1>2, StatusIs DEF Ack, status
  <2>3. \A n \in Messages \ {m} : status'[n] = status[n]
    BY <1>2, <2>1, StatusKept DEF Ack
  <2>4. status' = [status EXCEPT ![m] = "acked"]
    BY <2>2, <2>3 DEF status
  <2> QED
    BY <1>2, <2>2, <2>4 DEF Contract!Acknowledge, Ack
<1>3. ASSUME TryDequeue
      PROVE  Contract!Deliver(Head(ready)) /\ Head(ready) \in Messages
  <2> DEFINE m == Head(ready)
  <2>1. /\ m \in Messages /\ Waiting = Waiting' \cup {m} /\ m \notin Waiting'
    BY <1>0, <1>3, TailFacts DEF TryDequeue, Waiting, Conservation
  <2>2. /\ in_flight' = in_flight \cup {m}
        /\ UNCHANGED <<acked, dropped>>
        /\ deliveries' = [deliveries EXCEPT ![m] = @ + 1]
    BY <1>3 DEF TryDequeue
  <2> HIDE DEF m
  <2>3. status[m] = "waiting"
    BY <2>1, StatusIs
  <2>4. status'[m] = "delivered"
    BY <1>0, <2>1, <2>2 DEF status, Conservation, Settled
  <2>5. \A n \in Messages \ {m} : status'[n] = status[n]
    BY <2>1, <2>2, StatusKept
  <2>6. status' = [status EXCEPT ![m] = "delivered"]
    BY <2>4, <2>5 DEF status
  <2>7. Contract!Deliver(m) /\ m \in Messages
    BY <2>1, <2>2, <2>3, <2>6 DEF Contract!Deliver
  <2> QED
    BY <2>7 DEF m
<1>4. ASSUME NEW S \in SUBSET in_flight, S # {}, GiveBack(S)
      PROVE  Contract!Return(S) /\ S \in SUBSET Messages
  <2> DEFINE R == Retriable(S)
  <2>1. R \subseteq S /\ IsFiniteSet(R) /\ S \subseteq Messages
    BY <1>0, FS_Subset, QueueAssumption DEF Retriable
  <2>2. PICK order \in Orders(R) : ready' = ready \o order
    BY <1>4 DEF GiveBack
  <2>3. order \in Seq(R) /\ Range(order) = R
    BY <2>1, <2>2, OrderFacts
  <2>4. order \in Seq(Messages)
    BY <2>1, <2>3, SeqMonotonic
  <2>5. Waiting' = Waiting \cup R
    BY <1>0, <2>2, <2>3, <2>4, ConcatFacts DEF Waiting
  <2>6. /\ in_flight' = in_flight \ S /\ dropped' = dropped \cup (S \ R)
        /\ UNCHANGED <<acked, deliveries>>
    BY <1>4 DEF GiveBack
  <2>7. \A m \in S : /\ m \notin acked /\ m \notin dropped
                     /\ m \in R <=> deliveries[m] <= MaxRetries
    BY <1>0, <2>1, QueueAssumption DEF IInv, TypeOK, RetryBudget, Conservation, Settled, Retriable
  <2> HIDE DEF R
  <2>8. \A m \in Messages \ S : status'[m] = status[m]
    BY <2>1, <2>5, <2>6, StatusKept
  <2>9. \A m \in S : status[m] = "delivered"
    BY <2>1, StatusIs
  <2>10. \A m \in R : status'[m] = "waiting"
    BY <2>1, <2>5, <2>6, <2>7 DEF status
  <2>11. \A m \in S \ R : status'[m] = "dropped"
    BY <2>1, <2>6, <2>7 DEF status
  <2>12. status' = [m \in Messages |->
                      IF m \notin S THEN status[m]
                      ELSE IF deliveries[m] <= MaxRetries THEN "waiting" ELSE "dropped"]
    BY <2>1, <2>7, <2>8, <2>10, <2>11 DEF status
  <2> QED
    BY <1>4, <2>1, <2>6, <2>9, <2>12 DEF Contract!Return, Contract!In
<1>5. CASE Tick
  BY <1>5 DEF Tick, status, Waiting
<1>6. CASE UNCHANGED vars
  BY <1>6 DEF vars, status, Waiting
<1>7. ASSUME NEW m \in Messages, Nack(m) PROVE Contract!Next
  BY <1>0, <1>4, <1>7 DEF Nack, Contract!Next
<1>8. ASSUME RequeueExpired PROVE Contract!Next
  BY <1>0, <1>4, <1>8 DEF RequeueExpired, Expired, Contract!Next
<1> QED
  BY <1>1, <1>2, <1>3, <1>5, <1>6, <1>7, <1>8 DEF Next, Contract!Next

\* The shared queue implements the delivery contract: for a client, it cannot
\* be told from a table of messages with one status each (queues.rs:8-9).
THEOREM QueueImplementsContract == Spec => ContractSpec
  BY ContractInit, ContractStep, Invariance, PTL DEF Spec, ContractSpec, Contract!Spec
=============================================================================
