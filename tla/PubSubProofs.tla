------------------------------ MODULE PubSubProofs ------------------------------
(***************************************************************************)
(* Proofs about PubSub for every set of topics and executions and every    *)
(* number of messages.                                                     *)
(***************************************************************************)
EXTENDS PubSub, SequenceTheorems, FiniteSetTheorems, WellFoundedInduction, TLAPS

\* The lists of subscribers are what the executions asked for.
ListsAreSubscriptions ==
  \A e \in Executions, t \in Topics : t \in subscribed[e] <=> e \in Range(topics[t])

\* The message being published goes to each of its subscribers once.
SendsOnce ==
  /\ IsInjective(publishing)
  /\ publishing # <<>> => published \in Messages

IInv == TypeOK /\ ListsAreSubscriptions /\ SendsOnce /\ FanOutExact

-----------------------------------------------------------------------------
\* A nonempty set of naturals has a least element.
LEMMA LeastElement ==
  ASSUME NEW S \in SUBSET Nat, S # {}
  PROVE  \E m \in S : \A n \in S : m <= n
<1> DEFINE R == OpToRel(<, Nat)
<1>1. IsWellFoundedOn(R, Nat)
  BY NatLessThanWellFounded
<1> HIDE DEF R
<1>2. PICK m \in S : \A n \in S : ~ (<<n, m>> \in R)
  BY <1>1, WFMin
<1>3. \A k, n \in Nat : <<n, k>> \in R <=> n < k
  BY DEF R, OpToRel
<1>4. \A n \in S : ~(n < m) /\ n \in Nat /\ m \in Nat
  BY <1>2, <1>3
<1> QED
  BY <1>4

\* Sets of positions are finite.
LEMMA FinitePositions ==
  ASSUME NEW n \in Nat, NEW S \in SUBSET (1..n)
  PROVE  IsFiniteSet(S) /\ Cardinality(S) \in Nat
<1>1. IsFiniteSet(1..n)
  BY FS_Interval
<1>2. IsFiniteSet(S)
  BY <1>1, FS_Subset
<1> QED
  BY <1>2, FS_CardinalityType

\* The positions below n can be enumerated in ascending order; so retain always
\* leaves a sequence.
LEMMA AscendingExists ==
  ASSUME NEW n \in Nat, NEW S \in SUBSET (1..n)
  PROVE  Ascending(S) # {}
<1> DEFINE Enumerable == {k \in Nat : \A T \in SUBSET (1..k) : Ascending(T) # {}}
<1>1. 0 \in Enumerable
  <2>1. \A T \in SUBSET (1..0) : T = {}
    OBVIOUS
  <2>2. Cardinality({}) = 0
    BY FS_EmptySet
  <2>3. [i \in 1..0 |-> i] \in Ascending({})
    BY <2>2 DEF Ascending
  <2> QED
    BY <2>1, <2>3
<1>2. ASSUME NEW k \in Enumerable PROVE k + 1 \in Enumerable
  <2> SUFFICES ASSUME NEW T \in SUBSET (1..(k + 1)) PROVE Ascending(T) # {}
    OBVIOUS
  <2>1. CASE k + 1 \notin T
    BY <2>1
  <2>2. CASE k + 1 \in T
    <3> DEFINE U == T \ {k + 1}
    <3>1. U \in SUBSET (1..k) /\ U \cup {k + 1} = T
      BY <2>2
    <3>2. PICK p \in Ascending(U) : TRUE
      BY <3>1
    <3>3. IsFiniteSet(U) /\ Cardinality(U) \in Nat
      BY <3>1, FinitePositions
    <3> DEFINE c == Cardinality(U)
    <3>4. Cardinality(T) = c + 1
      BY <3>1, <3>3, FS_AddElement
    <3> DEFINE q == [i \in 1..(c + 1) |-> IF i = c + 1 THEN k + 1 ELSE p[i]]
    <3>5. p \in [1..c -> U] /\ \A i, j \in 1..c : i < j => p[i] < p[j]
      BY <3>2 DEF Ascending
    <3> HIDE DEF U, c
    <3>6. c \in Nat /\ k \in Nat
      BY <3>3 DEF c
    <3>7. q \in [1..(c + 1) -> T]
      BY <2>2, <3>1, <3>5, <3>6
    <3>8. \A i, j \in 1..(c + 1) : i < j => q[i] < q[j]
      <4> SUFFICES ASSUME NEW i \in 1..(c + 1), NEW j \in 1..(c + 1), i < j
                   PROVE  q[i] < q[j]
        OBVIOUS
      <4>1. i \in 1..c
        BY <3>6
      <4>2. q[i] = p[i] /\ p[i] \in 1..k
        <5>1. q[i] = p[i]
          BY <3>6, <4>1
        <5>2. p[i] \in U
          BY <3>5, <4>1
        <5> QED
          BY <3>1, <5>1, <5>2
      <4>3. CASE j = c + 1
        BY <3>6, <4>2, <4>3
      <4>4. CASE j # c + 1
        BY <3>5, <3>6, <4>1, <4>2, <4>4
      <4> QED
        BY <4>3, <4>4
    <3> HIDE DEF q
    <3> QED
      BY <3>4, <3>7, <3>8 DEF Ascending
  <2> QED
    BY <2>1, <2>2
<1>3. Enumerable = Nat
  <2> SUFFICES ASSUME Nat \ Enumerable # {} PROVE FALSE
    OBVIOUS
  <2>1. PICK m \in Nat \ Enumerable : \A k \in Nat \ Enumerable : m <= k
    BY LeastElement
  <2>2. m # 0 /\ m - 1 \in Nat
    BY <1>1, <2>1
  <2>3. m - 1 \in Enumerable
    BY <2>1, <2>2
  <2> HIDE DEF Enumerable
  <2> QED
    BY <1>2, <2>1, <2>2, <2>3
<1> QED
  BY <1>3

\* An ascending enumeration lists each position of its set once.
LEMMA AscendingFacts ==
  ASSUME NEW n \in Nat, NEW S \in SUBSET (1..n), NEW p \in Ascending(S)
  PROVE  /\ Cardinality(S) \in Nat
         /\ p \in [1..Cardinality(S) -> S]
         /\ \A i, j \in 1..Cardinality(S) : i # j => p[i] # p[j]
         /\ \A k \in S : \E i \in 1..Cardinality(S) : p[i] = k
<1> DEFINE c == Cardinality(S)
<1>1. IsFiniteSet(S) /\ c \in Nat
  BY FinitePositions
<1>2. p \in [1..c -> S] /\ \A i, j \in 1..c : i < j => p[i] < p[j]
  BY DEF Ascending
<1>3. \A i, j \in 1..c : i # j => p[i] # p[j]
  <2> SUFFICES ASSUME NEW i \in 1..c, NEW j \in 1..c, i # j PROVE p[i] # p[j]
    OBVIOUS
  <2>1. p[i] \in 1..n /\ p[j] \in 1..n
    BY <1>2
  <2>2. i < j \/ j < i
    BY <1>1
  <2> QED
    BY <1>2, <2>1, <2>2
<1>4. p \in Injection(1..c, S)
  BY <1>2, <1>3 DEF Injection, IsInjective
<1>5. Cardinality(1..c) = c
  BY <1>1, FS_Interval
<1>6. p \in Surjection(1..c, S)
  BY <1>1, <1>4, <1>5, FS_Injection
<1> QED
  BY <1>1, <1>2, <1>3, <1>6 DEF Surjection

\* retain takes out the execution and nothing else.
LEMMA WithoutFacts ==
  ASSUME NEW s \in Seq(Executions), NEW e
  PROVE  /\ Without(s, e) \in Seq(Executions)
         /\ Range(Without(s, e)) = Range(s) \ {e}
         /\ IsInjective(s) => IsInjective(Without(s, e))
<1> DEFINE kept == {i \in 1..Len(s) : s[i] # e}
           p == CHOOSE q \in Ascending(kept) : TRUE
           c == Cardinality(kept)
           t == [k \in 1..c |-> s[p[k]]]
<1>1. /\ Len(s) \in Nat /\ DOMAIN s = 1..Len(s)
      /\ \A i \in 1..Len(s) : s[i] \in Executions
  BY LenProperties, ElementOfSeq
<1>2. p \in Ascending(kept)
  BY <1>1, AscendingExists
<1>3. /\ c \in Nat
      /\ p \in [1..c -> kept]
      /\ \A i, j \in 1..c : i # j => p[i] # p[j]
      /\ \A k \in kept : \E i \in 1..c : p[i] = k
  BY <1>1, <1>2, AscendingFacts
<1>4. Without(s, e) = t
  BY <1>3 DEF Without
<1> HIDE DEF p, c
<1>5. \A k \in 1..c : t[k] = s[p[k]] /\ p[k] \in 1..Len(s) /\ s[p[k]] # e
  BY <1>3
<1>6. t \in Seq(Executions) /\ DOMAIN t = 1..c
  BY <1>1, <1>3, <1>5
<1>7. Range(t) = Range(s) \ {e}
  <2>1. \A x \in Range(t) : x \in Range(s) \ {e}
    BY <1>1, <1>5 DEF Range
  <2>2. ASSUME NEW x \in Range(s), x # e PROVE x \in Range(t)
    <3>1. PICK k \in 1..Len(s) : s[k] = x
      BY <1>1 DEF Range
    <3>2. PICK i \in 1..c : p[i] = k
      BY <1>3, <2>2, <3>1
    <3> QED
      BY <1>5, <3>1, <3>2 DEF Range
  <2> QED
    BY <2>1, <2>2
<1>8. ASSUME IsInjective(s) PROVE IsInjective(t)
  <2>1. \A a, b \in 1..Len(s) : s[a] = s[b] => a = b
    BY <1>1, <1>8 DEF IsInjective
  <2> QED
    BY <1>3, <1>5, <2>1 DEF IsInjective
<1> QED
  BY <1>4, <1>6, <1>7, <1>8

\* Appending an element that is not there.
LEMMA AppendFacts ==
  ASSUME NEW S, NEW s \in Seq(S), NEW e \in S
  PROVE  /\ Append(s, e) \in Seq(S)
         /\ Range(Append(s, e)) = Range(s) \cup {e}
         /\ IsInjective(s) /\ e \notin Range(s) => IsInjective(Append(s, e))
<1> DEFINE n == Len(s)
           t == Append(s, e)
<1>1. n \in Nat /\ DOMAIN s = 1..n
  BY LenProperties
<1>2. /\ t \in Seq(S) /\ Len(t) = n + 1
      /\ \A i \in 1..n : t[i] = s[i]
      /\ t[n + 1] = e
  BY AppendProperties
<1>3. DOMAIN t = 1..(n + 1)
  BY <1>2, LenProperties
<1> HIDE DEF n, t
<1>4. Range(t) = Range(s) \cup {e}
  <2>1. \A x \in Range(t) : x \in Range(s) \cup {e}
    BY <1>1, <1>2, <1>3 DEF Range
  <2>2. \A x \in Range(s) \cup {e} : x \in Range(t)
    BY <1>1, <1>2, <1>3 DEF Range
  <2> QED
    BY <2>1, <2>2
<1>5. ASSUME IsInjective(s), e \notin Range(s) PROVE IsInjective(t)
  BY <1>1, <1>2, <1>3, <1>5 DEF IsInjective, Range
<1> QED
  BY <1>2, <1>4, <1>5 DEF t

\* Taking the head off.
LEMMA TailFacts ==
  ASSUME NEW S, NEW s \in Seq(S), s # <<>>
  PROVE  /\ Head(s) \in S /\ Tail(s) \in Seq(S)
         /\ Head(s) \in Range(s)
         /\ IsInjective(s) => /\ IsInjective(Tail(s))
                              /\ Range(Tail(s)) = Range(s) \ {Head(s)}
<1> DEFINE n == Len(s)
           t == Tail(s)
<1>1. n \in Nat \ {0} /\ DOMAIN s = 1..n /\ Head(s) = s[1]
  BY EmptySeq, LenProperties
<1>2. /\ Head(s) \in S /\ t \in Seq(S) /\ Len(t) = n - 1
      /\ \A i \in 1..(n - 1) : t[i] = s[i + 1]
  BY HeadTailProperties
<1>3. DOMAIN t = 1..(n - 1)
  BY <1>2, LenProperties
<1> HIDE DEF n, t
<1>4. Head(s) \in Range(s)
  BY <1>1 DEF Range
<1>5. ASSUME IsInjective(s)
      PROVE  IsInjective(t) /\ Range(t) = Range(s) \ {Head(s)}
  <2>1. \A i, j \in 1..n : s[i] = s[j] => i = j
    BY <1>1, <1>5 DEF IsInjective
  <2>2. IsInjective(t)
    BY <1>1, <1>2, <1>3, <2>1 DEF IsInjective
  <2>3. \A x \in Range(t) : x \in Range(s) \ {Head(s)}
    BY <1>1, <1>2, <1>3, <2>1 DEF Range
  <2>4. ASSUME NEW x \in Range(s), x # Head(s) PROVE x \in Range(t)
    <3>1. PICK i \in 1..n : s[i] = x
      BY <1>1 DEF Range
    <3>2. i - 1 \in 1..(n - 1) /\ t[i - 1] = x
      BY <1>1, <1>2, <2>4, <3>1
    <3> QED
      BY <1>3, <3>2 DEF Range
  <2> QED
    BY <2>2, <2>3, <2>4
<1> QED
  BY <1>2, <1>4, <1>5 DEF t

\* A message put at the end of a queue comes after all that was received and
\* all that waits.
LEMMA AppendLast ==
  ASSUME NEW S, NEW r \in Seq(S), NEW q \in Seq(S), NEW x \in S
  PROVE  r \o Append(q, x) = r \o q \o <<x>>
<1>1. <<x>> \in Seq(S) /\ Append(q, x) = q \o <<x>>
  BY AppendIsConcat
<1> QED
  BY <1>1, ConcatAssociative

\* One wanted is due when it is published,
LEMMA AppendDue ==
  ASSUME NEW S, NEW r \in Seq(S), NEW q \in Seq(S), NEW x \in S
  PROVE  r \o q \o <<x>> = Append(r \o q, x)
  BY ConcatProperties, AppendIsConcat

\* and one moved from the head of a queue to the end of what was received is in
\* the same place.
LEMMA MoveHead ==
  ASSUME NEW S, NEW r \in Seq(S), NEW q \in Seq(S), q # <<>>
  PROVE  Append(r, Head(q)) \o Tail(q) = r \o q
<1>1. Head(q) \in S /\ Tail(q) \in Seq(S)
  BY HeadTailProperties
<1>2. <<Head(q)>> \in Seq(S) /\ <<Head(q)>> \o Tail(q) = q
  BY <1>1
<1>3. Append(r, Head(q)) = r \o <<Head(q)>>
  BY <1>1, AppendIsConcat
<1>4. (r \o <<Head(q)>>) \o Tail(q) = r \o (<<Head(q)>> \o Tail(q))
  BY <1>1, <1>2, ConcatAssociative
<1> QED
  BY <1>2, <1>3, <1>4

-----------------------------------------------------------------------------
\* At first there is no subscriber and no message.
LEMMA InitIInv == Init => IInv
<1> SUFFICES ASSUME Init PROVE IInv
  OBVIOUS
<1>1. \A S : <<>> \in Seq(S) /\ Range(<<>>) = {} /\ IsInjective(<<>>)
  BY DEF Range, IsInjective
<1>2. TypeOK
  BY <1>1, PubSubAssumption DEF Init, TypeOK
<1>3. ListsAreSubscriptions /\ SendsOnce
  BY <1>1 DEF Init, ListsAreSubscriptions, SendsOnce
<1>4. FanOutExact
  BY <1>1 DEF Init, FanOutExact, Due
<1> QED
  BY <1>2, <1>3, <1>4 DEF IInv

\* publish owes the message to the topic's subscribers, who want it.
LEMMA PublishStep == ASSUME IInv, NEW t \in Topics, Publish(t) PROVE IInv'
<1> DEFINE x == published + 1
<1>1. /\ published \in 0..MaxMessages /\ x \in Messages
      /\ published' = x
      /\ publishing = <<>> /\ publishing' = topics[t]
      /\ wanted' = [e \in Executions |-> IF t \in subscribed[e] THEN Append(wanted[e], x)
                                                                ELSE wanted[e]]
      /\ UNCHANGED <<topics, queues, ended, subscribed, received>>
  BY PubSubAssumption DEF Publish, Free, IInv, TypeOK, Messages
<1>2. \A e \in Executions : received[e] \in Seq(Messages) /\ queues[e] \in Seq(Messages)
                              /\ wanted[e] \in Seq(Messages)
  BY DEF IInv, TypeOK
<1>3. \A e \in Executions : wanted'[e] \in Seq(Messages)
  BY <1>1, <1>2, AppendFacts
<1>4. topics[t] \in Seq(Executions) /\ IsInjective(topics[t])
  BY DEF IInv, TypeOK
<1>5. TypeOK'
  <2>1. wanted' \in [Executions -> Seq(Messages)]
    BY <1>1, <1>3
  <2>2. published' \in 0..MaxMessages
    BY <1>1, PubSubAssumption DEF Messages
  <2> QED
    BY <1>1, <1>4, <2>1, <2>2 DEF IInv, TypeOK, Messages
<1>6. ListsAreSubscriptions' /\ SendsOnce'
  BY <1>1, <1>4 DEF IInv, ListsAreSubscriptions, SendsOnce
<1>7. FanOutExact'
  <2> SUFFICES ASSUME NEW e \in Executions
               PROVE  received[e] \o queues[e] \o Due(e)' = wanted'[e]
    BY <1>1 DEF FanOutExact
  <2>1. received[e] \o queues[e] \o <<>> = wanted[e]
    <3>1. Range(publishing) = {}
      BY <1>1 DEF Range
    <3> QED
      BY <3>1 DEF IInv, FanOutExact, Due
  <2>2. received[e] \o queues[e] = wanted[e]
    BY <1>2, <2>1, ConcatProperties, ConcatEmptySeq
  <2>3. CASE t \in subscribed[e]
    <3>1. Due(e)' = <<x>>
      BY <1>1, <2>3 DEF Due, IInv, ListsAreSubscriptions
    <3>2. wanted'[e] = Append(wanted[e], x)
      BY <1>1, <2>3
    <3> QED
      BY <1>1, <1>2, <2>2, <3>1, <3>2, AppendDue
  <2>4. CASE t \notin subscribed[e]
    <3>1. Due(e)' = <<>> /\ wanted'[e] = wanted[e]
      BY <1>1, <2>4 DEF Due, IInv, ListsAreSubscriptions
    <3> QED
      BY <2>1, <3>1
  <2> QED
    BY <2>3, <2>4
<1> QED
  BY <1>5, <1>6, <1>7 DEF IInv

\* The message moves from the publisher to the end of a subscriber's queue.
LEMMA SendStep == ASSUME IInv, Send PROVE IInv'
<1> DEFINE h == Head(publishing)
<1>1. /\ publishing # <<>> /\ publishing \in Seq(Executions) /\ IsInjective(publishing)
      /\ published \in Messages
      /\ publishing' = Tail(publishing)
      /\ queues' = [queues EXCEPT ![h] = Append(queues[h], published)]
      /\ UNCHANGED <<topics, ended, published, subscribed, wanted, received>>
  BY DEF Send, Free, history, IInv, TypeOK, SendsOnce
<1>2. /\ h \in Executions /\ h \in Range(publishing)
      /\ publishing' \in Seq(Executions) /\ IsInjective(publishing')
      /\ Range(publishing') = Range(publishing) \ {h}
  BY <1>1, TailFacts
<1> HIDE DEF h
<1>3. \A e \in Executions : received[e] \in Seq(Messages) /\ queues[e] \in Seq(Messages)
  BY DEF IInv, TypeOK
<1>4. /\ queues \in [Executions -> Seq(Messages)]
      /\ queues' \in [Executions -> Seq(Messages)]
      /\ queues'[h] = Append(queues[h], published)
      /\ \A e \in Executions : e # h => queues'[e] = queues[e]
  BY <1>1, <1>2, <1>3, AppendFacts DEF IInv, TypeOK
<1>5. TypeOK'
  BY <1>1, <1>2, <1>4 DEF IInv, TypeOK
<1>6. ListsAreSubscriptions' /\ SendsOnce'
  BY <1>1, <1>2 DEF IInv, ListsAreSubscriptions, SendsOnce
<1>7. FanOutExact'
  <2> SUFFICES ASSUME NEW e \in Executions
               PROVE  received[e] \o queues'[e] \o Due(e)' = wanted[e]
    BY <1>1 DEF FanOutExact
  <2>1. received[e] \o queues[e] \o Due(e) = wanted[e]
    BY DEF IInv, FanOutExact
  <2>2. CASE e = h
    <3>1. Due(e) = <<published>> /\ Due(e)' = <<>>
      BY <1>1, <1>2, <2>2 DEF Due
    <3>2. received[e] \o Append(queues[e], published) = received[e] \o queues[e] \o <<published>>
      <4> DEFINE r == received[e]
                 q == queues[e]
                 x == published
                 S == Messages
      <4>1. r \in Seq(S) /\ q \in Seq(S) /\ x \in S
        BY <1>1, <1>3
      <4> HIDE DEF r, q, x, S
      <4>2. r \o Append(q, x) = r \o q \o <<x>>
        BY <4>1, AppendLast
      <4> QED
        BY <4>2 DEF r, q, x
    <3>3. queues'[e] \in Seq(Messages) /\ queues'[e] = Append(queues[e], published)
      BY <1>4, <2>2
    <3>4. received[e] \o queues'[e] \o <<>> = received[e] \o queues'[e]
      BY <1>3, <3>3, ConcatProperties, ConcatEmptySeq
    <3> QED
      BY <1>1, <2>1, <3>1, <3>2, <3>3, <3>4
  <2>3. CASE e # h
    BY <1>1, <1>2, <1>4, <2>1, <2>3 DEF Due
  <2> QED
    BY <2>2, <2>3
<1> QED
  BY <1>5, <1>6, <1>7 DEF IInv

\* subscribe moves the execution to the end of the topic's list.
LEMMA SubscribeStep ==
  ASSUME IInv, NEW e \in Executions, NEW t \in Topics, Subscribe(e, t) PROVE IInv'
<1> DEFINE others == Without(topics[t], e)
<1>1. /\ topics' = [topics EXCEPT ![t] = Append(others, e)]
      /\ subscribed' = [subscribed EXCEPT ![e] = subscribed[e] \cup {t}]
      /\ publishing = <<>>
      /\ UNCHANGED <<publishing, queues, ended, published, wanted, received>>
  BY DEF Subscribe, Free
<1>2. topics \in [Topics -> Seq(Executions)] /\ subscribed \in [Executions -> SUBSET Topics]
      /\ \A u \in Topics : topics[u] \in Seq(Executions) /\ IsInjective(topics[u])
  BY DEF IInv, TypeOK
<1>3. others \in Seq(Executions) /\ Range(others) = Range(topics[t]) \ {e} /\ IsInjective(others)
  BY <1>2, WithoutFacts
<1> HIDE DEF others
<1>4. /\ topics'[t] \in Seq(Executions) /\ IsInjective(topics'[t])
      /\ Range(topics'[t]) = Range(topics[t]) \cup {e}
      /\ \A u \in Topics : u # t => topics'[u] = topics[u]
      /\ topics' \in [Topics -> Seq(Executions)]
  BY <1>1, <1>2, <1>3, AppendFacts
<1>5. TypeOK'
  BY <1>1, <1>2, <1>4 DEF IInv, TypeOK
<1>6. ListsAreSubscriptions'
  <2> SUFFICES ASSUME NEW x \in Executions, NEW u \in Topics
               PROVE  u \in subscribed'[x] <=> x \in Range(topics'[u])
    BY DEF ListsAreSubscriptions, Range
  <2>1. u \in subscribed[x] <=> x \in Range(topics[u])
    BY DEF IInv, ListsAreSubscriptions
  <2>2. u \in subscribed'[x] <=> u \in subscribed[x] \/ (x = e /\ u = t)
    BY <1>1, <1>2
  <2>3. x \in Range(topics'[u]) <=> x \in Range(topics[u]) \/ (x = e /\ u = t)
    BY <1>4
  <2> QED
    BY <2>1, <2>2, <2>3
<1>7. SendsOnce' /\ FanOutExact'
  BY <1>1 DEF IInv, SendsOnce, FanOutExact, Due
<1> QED
  BY <1>5, <1>6, <1>7 DEF IInv

\* unsubscribe_all takes the execution off every list.
LEMMA UnsubscribeAllStep ==
  ASSUME IInv, NEW e \in Executions, UnsubscribeAll(e) PROVE IInv'
<1>1. /\ topics' = [t \in Topics |-> Without(topics[t], e)]
      /\ subscribed' = [subscribed EXCEPT ![e] = {}]
      /\ UNCHANGED <<publishing, queues, ended, published, wanted, received>>
  BY DEF UnsubscribeAll
<1>2. subscribed \in [Executions -> SUBSET Topics]
      /\ \A u \in Topics : topics[u] \in Seq(Executions) /\ IsInjective(topics[u])
  BY DEF IInv, TypeOK
<1>3. \A u \in Topics : /\ topics'[u] \in Seq(Executions) /\ IsInjective(topics'[u])
                        /\ Range(topics'[u]) = Range(topics[u]) \ {e}
  BY <1>1, <1>2, WithoutFacts
<1>4. topics' \in [Topics -> Seq(Executions)]
  BY <1>1, <1>3
<1>5. TypeOK'
  BY <1>1, <1>2, <1>3, <1>4 DEF IInv, TypeOK
<1>6. ListsAreSubscriptions'
  <2> SUFFICES ASSUME NEW x \in Executions, NEW u \in Topics
               PROVE  u \in subscribed'[x] <=> x \in Range(topics'[u])
    BY DEF ListsAreSubscriptions, Range
  <2>1. u \in subscribed[x] <=> x \in Range(topics[u])
    BY DEF IInv, ListsAreSubscriptions
  <2>2. u \in subscribed'[x] <=> u \in subscribed[x] /\ x # e
    BY <1>1, <1>2
  <2> QED
    BY <1>3, <2>1, <2>2
<1>7. SendsOnce' /\ FanOutExact'
  BY <1>1 DEF IInv, SendsOnce, FanOutExact, Due
<1> QED
  BY <1>5, <1>6, <1>7 DEF IInv

\* A message received leaves the head of the queue.
LEMMA ReceiveStep == ASSUME IInv, NEW e \in Executions, Receive(e) PROVE IInv'
<1>1. /\ queues[e] # <<>>
      /\ received' = [received EXCEPT ![e] = Append(received[e], Head(queues[e]))]
      /\ queues' = [queues EXCEPT ![e] = Tail(queues[e])]
      /\ UNCHANGED <<topics, publishing, ended, published, subscribed, wanted>>
  BY DEF Receive, registry, history
<1>2. /\ received \in [Executions -> Seq(Messages)] /\ queues \in [Executions -> Seq(Messages)]
      /\ received[e] \in Seq(Messages) /\ queues[e] \in Seq(Messages)
  BY DEF IInv, TypeOK
<1>3. /\ Head(queues[e]) \in Messages /\ Tail(queues[e]) \in Seq(Messages)
      /\ Append(received[e], Head(queues[e])) \in Seq(Messages)
      /\ Append(received[e], Head(queues[e])) \o Tail(queues[e]) = received[e] \o queues[e]
  BY <1>1, <1>2, HeadTailProperties, AppendProperties, MoveHead
<1>4. TypeOK'
  BY <1>1, <1>2, <1>3 DEF IInv, TypeOK
<1>5. ListsAreSubscriptions' /\ SendsOnce'
  BY <1>1 DEF IInv, ListsAreSubscriptions, SendsOnce
<1>6. FanOutExact'
  <2> SUFFICES ASSUME NEW x \in Executions
               PROVE  received'[x] \o queues'[x] \o Due(x)' = wanted[x]
    BY <1>1 DEF FanOutExact
  <2>1. received'[x] \o queues'[x] = received[x] \o queues[x]
    BY <1>1, <1>2, <1>3
  <2>2. Due(x)' = Due(x)
    BY <1>1 DEF Due
  <2> QED
    BY <2>1, <2>2 DEF IInv, FanOutExact
<1> QED
  BY <1>4, <1>5, <1>6 DEF IInv

\* Every step preserves the invariant.
LEMMA NextStep == IInv /\ [Next]_vars => IInv'
<1> SUFFICES ASSUME IInv, [Next]_vars PROVE IInv'
  OBVIOUS
<1>1. ASSUME NEW e \in Executions, End(e) PROVE IInv'
  BY <1>1 DEF End, registry, history, IInv, TypeOK, ListsAreSubscriptions, SendsOnce, FanOutExact, Due
<1>2. CASE UNCHANGED vars
  BY <1>2 DEF vars, registry, history, IInv, TypeOK, ListsAreSubscriptions, SendsOnce,
              FanOutExact, Due
<1>3. CASE Next
  BY <1>1, <1>3, PublishStep, SendStep, SubscribeStep, UnsubscribeAllStep, ReceiveStep DEF Next
<1> QED
  BY <1>2, <1>3

\* The invariant holds in every reachable state.
LEMMA Invariance == Spec => []IInv
  BY InitIInv, NextStep, PTL DEF Spec

-----------------------------------------------------------------------------
\* The registry keeps its types; in particular a topic never lists an execution
\* twice, whatever is subscribed again and again (pubsub.rs:38-52).
THEOREM TypeCorrect == Spec => []TypeOK
  BY Invariance, PTL DEF IInv

\* Every execution gets what was published to its topics while it was
\* subscribed, once and in order (pubsub.rs:32-36, 75-83).
THEOREM FanOutIsExact == Spec => []FanOutExact
  BY Invariance, PTL DEF IInv
=============================================================================
