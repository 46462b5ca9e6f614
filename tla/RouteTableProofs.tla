---------------------------- MODULE RouteTableProofs ----------------------------
(***************************************************************************)
(* Proofs about RouteTable for every set of verbs, words, names and        *)
(* lengths, every static configuration and every bound on ids.             *)
(***************************************************************************)
EXTENDS RouteTable, SequenceTheorems, FiniteSetTheorems, WellFoundedInduction, TLAPS

\* Uuids are given out in order, so the ids in the table are old ones,
IdsIssued ==
  /\ \A i \in 1..Len(issued) : issued[i] = i
  /\ \A i \in 1..Len(routes) : routes[i].id <= Len(issued)

\* and the order of the list is the order of registration.
InOrder ==
  \A i, j \in 1..Len(routes) : i < j => routes[i].id < routes[j].id

IInv == TypeOK /\ IdsIssued /\ InOrder /\ NoCompetitors

-----------------------------------------------------------------------------
\* A nonempty set of naturals has a least element: what the search of
\* match_route and the last value of a parameter rest on.
LEMMA LeastElement ==
  ASSUME NEW S \in SUBSET Nat, S # {}
  PROVE  \E m \in S : \A n \in S : m <= n
<1> DEFINE R == OpToRel(<, Nat)
<1>1. IsWellFoundedOn(R, Nat)
  BY NatLessThanWellFounded
<1> HIDE DEF R
<1>2. PICK m \in S : \A n \in S : ~ (<<n, m>> \in R)
  BY <1>1, WFMin
<1>3. \A k, n \in Nat : <<n, k>> \in R <=> n < k
  BY DEF R, OpToRel
<1>4. \A n \in S : ~(n < m) /\ n \in Nat /\ m \in Nat
  BY <1>2, <1>3
<1> QED
  BY <1>4

\* A nonempty set of positions has a last one.
LEMMA LastPosition ==
  ASSUME NEW n \in Nat, NEW S \in SUBSET (1..n), S # {}
  PROVE  Max(S) \in S
<1> DEFINE T == {n - i : i \in S}
<1>1. T \in SUBSET Nat /\ T # {}
  <2>1. \A i \in S : n - i \in Nat
    OBVIOUS
  <2> QED
    BY <2>1
<1>2. PICK m \in T : \A k \in T : m <= k
  BY <1>1, LeastElement
<1>3. PICK i \in S : m = n - i
  OBVIOUS
<1>4. \A j \in S : i >= j
  BY <1>2, <1>3
<1> QED
  BY <1>3, <1>4 DEF Max

\* What the search of match_route returns for the positions that serve.
FirstOf(hits) == IF hits = {} THEN 0 ELSE CHOOSE i \in hits : \A j \in hits : i <= j

\* It is the first of the hits, or 0 if there are none.
LEMMA FirstHit ==
  ASSUME NEW n \in Nat, NEW hits \in SUBSET (1..n)
  PROVE  /\ hits = {} => FirstOf(hits) = 0
         /\ hits # {} => /\ FirstOf(hits) \in hits /\ FirstOf(hits) # 0
                         /\ \A j \in hits : FirstOf(hits) <= j
<1>1. CASE hits = {}
  BY <1>1 DEF FirstOf
<1>2. CASE hits # {}
  <2>1. hits \in SUBSET Nat
    OBVIOUS
  <2>2. \E i \in hits : \A j \in hits : i <= j
    BY <1>2, <2>1, LeastElement
  <2>3. FirstOf(hits) \in hits /\ \A j \in hits : FirstOf(hits) <= j
    BY <1>2, <2>2 DEF FirstOf
  <2>4. FirstOf(hits) # 0
    BY <2>3
  <2> QED
    BY <1>2, <2>3, <2>4
<1> QED
  BY <1>1, <1>2

\* Removing a position shifts the later elements by one.
LEMMA RemoveAtFacts ==
  ASSUME NEW S, NEW s \in Seq(S), NEW i \in 1..Len(s)
  PROVE  /\ RemoveAt(s, i) \in Seq(S)
         /\ Len(RemoveAt(s, i)) = Len(s) - 1
         /\ \A k \in 1..(Len(s) - 1) :
              RemoveAt(s, i)[k] = s[IF k < i THEN k ELSE k + 1]
<1> DEFINE a == SubSeq(s, 1, i - 1)
           b == SubSeq(s, i + 1, Len(s))
<1>1. Len(s) \in Nat
  OBVIOUS
<1>2. a \in Seq(S) /\ Len(a) = i - 1 /\ \A k \in 1..(i - 1) : a[k] = s[k]
  BY <1>1
<1>3. b \in Seq(S) /\ Len(b) = Len(s) - i /\ \A k \in 1..(Len(s) - i) : b[k] = s[i + k]
  BY <1>1
<1> HIDE DEF a, b
<1>4. /\ a \o b \in Seq(S)
      /\ Len(a \o b) = Len(s) - 1
      /\ \A k \in 1..(Len(s) - 1) : (a \o b)[k] = IF k <= i - 1 THEN a[k] ELSE b[k - (i - 1)]
  <2>1. /\ a \o b \in Seq(S)
        /\ Len(a \o b) = Len(a) + Len(b)
        /\ \A k \in 1..(Len(a) + Len(b)) :
             (a \o b)[k] = IF k <= Len(a) THEN a[k] ELSE b[k - Len(a)]
    BY <1>2, <1>3, ConcatProperties
  <2>2. Len(a) + Len(b) = Len(s) - 1 /\ Len(a) = i - 1
    BY <1>1, <1>2, <1>3
  <2> QED
    BY <2>1, <2>2
<1>5. \A k \in 1..(Len(s) - 1) : (a \o b)[k] = s[IF k < i THEN k ELSE k + 1]
  <2> SUFFICES ASSUME NEW k \in 1..(Len(s) - 1)
               PROVE  (a \o b)[k] = s[IF k < i THEN k ELSE k + 1]
    OBVIOUS
  <2>1. CASE k < i
    BY <1>1, <1>2, <1>4, <2>1
  <2>2. CASE ~(k < i)
    <3>1. k - (i - 1) \in 1..(Len(s) - i) /\ i + (k - (i - 1)) = k + 1
      BY <1>1, <2>2
    <3>2. ~(k <= i - 1)
      BY <1>1, <2>2
    <3>3. (a \o b)[k] = b[k - (i - 1)]
      BY <1>4, <3>2
    <3> QED
      BY <1>3, <2>2, <3>1, <3>3
  <2> QED
    BY <2>1, <2>2
<1> QED
  BY <1>4, <1>5 DEF RemoveAt, a, b

\* Appending keeps the elements where they are.
LEMMA AppendFacts ==
  ASSUME NEW S, NEW s \in Seq(S), NEW e \in S
  PROVE  /\ Append(s, e) \in Seq(S)
         /\ Len(Append(s, e)) = Len(s) + 1
         /\ \A k \in 1..Len(s) : Append(s, e)[k] = s[k]
         /\ Append(s, e)[Len(s) + 1] = e
  BY AppendProperties

-----------------------------------------------------------------------------
\* from_configs numbers the configured routes in their order.
LEMMA InitIInv == Init => IInv
<1> SUFFICES ASSUME Init PROVE IInv
  OBVIOUS
<1> DEFINE n == Len(Static)
<1>1. n \in Nat /\ n <= MaxId /\ \A i \in 1..n : Static[i] \in [method : Verbs, path : Patterns]
  <2>1. Static \in Seq([method : Verbs, path : Patterns]) /\ MaxId \in Nat /\ n <= MaxId
    BY RouteAssumption
  <2> QED
    BY <2>1, LenProperties, ElementOfSeq
<1>2. \A i \in 1..n : i \in Ids
  BY <1>1, RouteAssumption DEF Ids
<1>3. issued = [i \in 1..n |-> i]
  BY DEF Init
<1>4. routes = [i \in 1..n |-> [id |-> i, method |-> Upper[Static[i].method],
                                segments |-> Static[i].path, managed |-> FALSE]]
  BY <1>3 DEF Init
<1>5. issued \in Seq(Ids) /\ Len(issued) = n
  BY <1>1, <1>2, <1>3
<1>6. \A i \in 1..n : routes[i] \in Routes
  BY <1>1, <1>2, <1>4, RouteAssumption DEF Routes
<1>7. routes \in Seq(Routes) /\ Len(routes) = n
  BY <1>1, <1>4, <1>6
<1>8. TypeOK
  <2>1. IsInjective(issued)
    BY <1>3 DEF IsInjective
  <2>2. args.path = <<>> /\ args.fields = <<>>
    BY DEF Init, NothingServed
  <2> QED
    BY <1>5, <1>7, <2>1, <2>2 DEF TypeOK
<1>9. IdsIssued /\ InOrder
  BY <1>1, <1>3, <1>4, <1>5, <1>7 DEF IdsIssued, InOrder
<1>10. NoCompetitors
  BY <1>4, <1>7 DEF NoCompetitors
<1> QED
  BY <1>8, <1>9, <1>10 DEF IInv

\* A new route takes the next id, and it competes with none.
LEMMA AddRouteDynStep ==
  ASSUME IInv, Fresh \in Ids, NEW verb \in Verbs, NEW path \in Patterns,
         AddRouteDyn(Fresh, verb, path), UNCHANGED args
  PROVE  IInv'
<1> DEFINE n == Len(routes)
           new == [id |-> Fresh, method |-> Upper[verb], segments |-> path, managed |-> TRUE]
<1>1. /\ routes \in Seq(Routes) /\ n \in Nat
      /\ issued \in Seq(Ids) /\ Len(issued) \in Nat
      /\ \A i \in 1..n : routes[i] \in Routes /\ routes[i].id \in Int
  <2>1. routes \in Seq(Routes) /\ issued \in Seq(Ids)
    BY DEF IInv, TypeOK
  <2>2. \A i \in 1..n : routes[i] \in Routes
    BY <2>1, ElementOfSeq
  <2> QED
    BY <2>1, <2>2, LenProperties DEF Routes, Ids
<1>2. new \in Routes /\ routes' = Append(routes, new)
  BY RouteAssumption DEF Routes, AddRouteDyn
<1>3. /\ routes' \in Seq(Routes) /\ Len(routes') = n + 1
      /\ \A k \in 1..n : routes'[k] = routes[k]
      /\ routes'[n + 1] = new
  BY <1>1, <1>2, AppendFacts
<1>4. /\ issued' \in Seq(Ids) /\ Len(issued') = Len(issued) + 1
      /\ \A k \in 1..Len(issued) : issued'[k] = issued[k]
      /\ issued'[Len(issued) + 1] = Fresh
  BY <1>1, AppendFacts DEF AddRouteDyn
<1>5. IdsIssued'
  <2>1. \A i \in 1..(Len(issued) + 1) : issued'[i] = i
    BY <1>1, <1>4 DEF IInv, IdsIssued, Fresh
  <2>2. \A i \in 1..(n + 1) : routes'[i].id <= Len(issued) + 1
    BY <1>1, <1>3 DEF IInv, IdsIssued, Fresh
  <2> QED
    BY <1>3, <1>4, <2>1, <2>2 DEF IdsIssued
<1>6. TypeOK'
  <2>1. IsInjective(issued')
    BY <1>4, <1>5 DEF IsInjective, IdsIssued
  <2> QED
    BY <1>3, <1>4, <2>1 DEF IInv, TypeOK
<1>7. InOrder'
  <2> SUFFICES ASSUME NEW i \in 1..(n + 1), NEW j \in 1..(n + 1), i < j
               PROVE  routes'[i].id < routes'[j].id
    BY <1>3 DEF InOrder
  <2>1. i \in 1..n /\ routes'[i] = routes[i]
    BY <1>1, <1>3
  <2>2. CASE j \in 1..n
    BY <1>3, <2>1, <2>2 DEF IInv, InOrder
  <2>3. CASE j = n + 1
    BY <1>1, <1>3, <2>1, <2>3 DEF IInv, IdsIssued, Fresh
  <2> QED
    BY <1>1, <2>2, <2>3
<1>8. NoCompetitors'
  <2> SUFFICES ASSUME NEW i \in 1..(n + 1), NEW j \in 1..(n + 1), i # j,
                      routes'[i].method = routes'[j].method,
                      SegmentsEqual(routes'[i].segments, routes'[j].segments)
               PROVE  ~routes'[i].managed /\ ~routes'[j].managed
    BY <1>3 DEF NoCompetitors, SegmentsEqual
  <2>1. \A k \in 1..n : ~(routes[k].method = Upper[verb] /\ SegmentsEqual(routes[k].segments, path))
    BY DEF AddRouteDyn, Collides
  <2>2. CASE i \in 1..n /\ j \in 1..n
    BY <1>3, <2>2 DEF IInv, NoCompetitors
  <2>3. CASE i = n + 1
    <3>1. j \in 1..n /\ routes'[j] = routes[j]
      BY <1>1, <1>3, <2>3
    <3>2. SegmentsEqual(routes[j].segments, path)
      BY <1>3, <2>3, <3>1 DEF SegmentsEqual
    <3> QED
      BY <1>3, <2>1, <2>3, <3>1, <3>2
  <2>4. CASE j = n + 1
    <3>1. i \in 1..n /\ routes'[i] = routes[i]
      BY <1>1, <1>3, <2>4
    <3> QED
      BY <1>3, <2>1, <2>4, <3>1
  <2> QED
    BY <1>1, <2>2, <2>3, <2>4
<1> QED
  BY <1>5, <1>6, <1>7, <1>8 DEF IInv

\* A removal leaves the other routes in their order.
LEMMA RemoveRouteStep ==
  ASSUME IInv, NEW id \in Ids, RemoveRoute(id), UNCHANGED args
  PROVE  IInv'
<1> DEFINE n == Len(routes)
<1>1. PICK i \in 1..n : routes' = RemoveAt(routes, i)
  BY DEF RemoveRoute
<1>2. routes \in Seq(Routes) /\ n \in Nat /\ issued' = issued
  BY LenProperties DEF IInv, TypeOK, RemoveRoute
<1> DEFINE old(k) == IF k < i THEN k ELSE k + 1
<1>3. /\ routes' \in Seq(Routes) /\ Len(routes') = n - 1
      /\ \A k \in 1..(n - 1) : routes'[k] = routes[old(k)]
  BY <1>1, <1>2, RemoveAtFacts
<1>4. /\ \A k \in 1..(n - 1) : old(k) \in 1..n
      /\ \A k, l \in 1..(n - 1) : k # l => old(k) # old(l)
      /\ \A k, l \in 1..(n - 1) : k < l => old(k) < old(l)
  BY <1>2
<1> HIDE DEF old
<1>5. TypeOK'
  BY <1>2, <1>3 DEF IInv, TypeOK
<1>6. IdsIssued'
  BY <1>2, <1>3, <1>4 DEF IInv, IdsIssued
<1>7. InOrder'
  BY <1>3, <1>4 DEF IInv, InOrder
<1>8. NoCompetitors'
  <2> SUFFICES ASSUME NEW k \in 1..(n - 1), NEW l \in 1..(n - 1), k # l,
                      routes'[k].method = routes'[l].method,
                      SegmentsEqual(routes'[k].segments, routes'[l].segments)
               PROVE  ~routes'[k].managed /\ ~routes'[l].managed
    BY <1>3 DEF NoCompetitors
  <2> QED
    BY <1>3, <1>4 DEF IInv, NoCompetitors
<1> QED
  BY <1>5, <1>6, <1>7, <1>8 DEF IInv

\* The search finds the first route that serves the request.
LEMMA MatchFacts ==
  ASSUME routes \in Seq(Routes), NEW verb, NEW path
  PROVE  LET i == MatchRoute(verb, path) IN
           /\ i = 0 => \A j \in 1..Len(routes) : ~Serves(routes[j], verb, path)
           /\ i # 0 => i \in 1..Len(routes) /\ Serves(routes[i], verb, path)
           /\ \A j \in 1..Len(routes) : Serves(routes[j], verb, path) => i # 0 /\ i <= j
<1> DEFINE hits == {i \in 1..Len(routes) : Serves(routes[i], verb, path)}
<1>1. Len(routes) \in Nat
  BY LenProperties
<1>2. MatchRoute(verb, path) = FirstOf(hits)
  BY DEF MatchRoute, FirstOf
<1>3. hits \in SUBSET (1..Len(routes))
  OBVIOUS
<1>4. /\ hits = {} => FirstOf(hits) = 0
      /\ hits # {} => /\ FirstOf(hits) \in hits /\ FirstOf(hits) # 0
                      /\ \A j \in hits : FirstOf(hits) <= j
  BY <1>1, <1>3, FirstHit
<1> QED
  BY <1>2, <1>4

\* The parameters of a path are finitely many and bind words: the arguments of
\* the request are a sequence of words.
LEMMA BoundParamsFacts ==
  ASSUME NEW segments, NEW path \in Paths
  PROVE  LET bound == BoundParams(segments, path) IN
           /\ IsFiniteSet(DOMAIN bound)
           /\ \A name \in DOMAIN bound : bound[name] \in Words
<1> DEFINE at(m) == {i \in 1..Len(path) : segments[i] = Param(m)}
           D == {m \in Names : at(m) # {}}
           f == [m \in D |-> Max(at(m))]
<1>1. PICK n \in Nat : path \in [1..n -> Words]
  BY RouteAssumption DEF Paths
<1>2. Len(path) = n /\ n \in Nat
  BY <1>1
<1>3. \A m \in D : Max(at(m)) \in at(m)
  BY <1>2, LastPosition
<1>4. f \in [D -> 1..n]
  BY <1>2, <1>3
<1>5. \A m, k \in D : f[m] = f[k] => m = k
  <2>1. \A m \in D : segments[f[m]] = Param(m)
    BY <1>3
  <2>2. \A m, k \in D : Param(m) = Param(k) => m = k
    BY DEF Param
  <2> HIDE DEF D, f
  <2> QED
    BY <2>1, <2>2
<1>6. f \in Injection(D, 1..n)
  BY <1>4, <1>5 DEF Injection, IsInjective
<1>7. IsFiniteSet(D)
  BY <1>2, <1>6, FS_Injection, FS_Interval
<1>8. \A m \in D : path[Max(at(m))] \in Words
  BY <1>1, <1>2, <1>3
<1> QED
  BY <1>7, <1>8 DEF BoundParams

\* A request changes the arguments only, which are words of its path.
LEMMA HandleRequestStep ==
  ASSUME IInv, NEW verb \in Verbs, NEW path \in Paths, HandleRequest(verb, path)
  PROVE  IInv'
<1> DEFINE segments == routes[MatchRoute(verb, path)].segments
           bound == BoundParams(segments, path)
<1>1. IsFiniteSet(DOMAIN bound) /\ \A name \in DOMAIN bound : bound[name] \in Words
  BY BoundParamsFacts
<1>2. PICK names \in SetToSeqs(DOMAIN bound) :
        args' = [segments |-> segments, path |-> path,
                 fields |-> [k \in 1..Len(names) |-> bound[names[k]]]]
  BY DEF HandleRequest
<1> HIDE DEF segments, bound
<1>3. Cardinality(DOMAIN bound) \in Nat
  BY <1>1, FS_CardinalityType
<1>4. names \in [1..Cardinality(DOMAIN bound) -> DOMAIN bound]
  BY <1>2 DEF SetToSeqs
<1>5. Len(names) = Cardinality(DOMAIN bound)
  BY <1>3, <1>4
<1>6. [k \in 1..Len(names) |-> bound[names[k]]] \in Seq(Words)
  BY <1>1, <1>3, <1>4, <1>5
<1>7. args'.path \in Paths /\ args'.fields \in Seq(Words)
  BY <1>2, <1>6
<1>8. UNCHANGED <<routes, issued>>
  BY DEF HandleRequest
<1>9. TypeOK'
  BY <1>7, <1>8 DEF IInv, TypeOK
<1> QED
  BY <1>8, <1>9 DEF IInv, IdsIssued, InOrder, NoCompetitors, SegmentsEqual

\* Every step of the table preserves the invariant.
LEMMA NextStep == IInv /\ [Next]_vars => IInv'
<1> SUFFICES ASSUME IInv, [Next]_vars PROVE IInv'
  OBVIOUS
<1>1. ASSUME Fresh \in Ids, NEW verb \in Verbs, NEW path \in Patterns,
             AddRouteDyn(Fresh, verb, path), UNCHANGED args
      PROVE  IInv'
  BY <1>1, AddRouteDynStep
<1>2. ASSUME NEW id \in Ids, RemoveRoute(id), UNCHANGED args PROVE IInv'
  BY <1>2, RemoveRouteStep
<1>3. ASSUME NEW verb \in Verbs, NEW path \in Paths, HandleRequest(verb, path) PROVE IInv'
  BY <1>3, HandleRequestStep
<1>4. CASE UNCHANGED vars
  BY <1>4 DEF vars, IInv, TypeOK, IdsIssued, InOrder, NoCompetitors, SegmentsEqual
<1> QED
  BY <1>1, <1>2, <1>3, <1>4 DEF Next

\* The order of the list is the order of registration, so the first route
\* found is the one registered first.
LEMMA FirstFoundIsOldest == IInv => FirstRegisteredServes
<1> SUFFICES ASSUME IInv, NEW verb \in Verbs, NEW path \in Paths,
                    NEW j \in 1..Len(routes), Serves(routes[j], verb, path)
             PROVE  /\ MatchRoute(verb, path) # 0
                    /\ routes[MatchRoute(verb, path)].id <= routes[j].id
  BY DEF FirstRegisteredServes
<1> DEFINE i == MatchRoute(verb, path)
<1>1. routes \in Seq(Routes)
  BY DEF IInv, TypeOK
<1>2. i # 0 /\ i \in 1..Len(routes) /\ i <= j
  BY <1>1, MatchFacts
<1> HIDE DEF i
<1>3. Len(routes) \in Nat /\ routes[i] \in Routes /\ routes[j] \in Routes
  BY <1>1, <1>2, LenProperties, ElementOfSeq
<1>4. routes[i].id \in Int /\ routes[j].id \in Int
  BY <1>3, RouteAssumption DEF Routes, Ids
<1>5. i = j \/ routes[i].id < routes[j].id
  BY <1>2, <1>3 DEF IInv, InOrder
<1> QED
  BY <1>2, <1>4, <1>5 DEF i

-----------------------------------------------------------------------------
\* The same of the search in the table after a step.
LEMMA MatchFactsAfter ==
  ASSUME routes' \in Seq(Routes), NEW verb, NEW path
  PROVE  LET j == MatchRoute(verb, path)' IN
           /\ j = 0 => \A k \in 1..Len(routes') : ~Serves(routes'[k], verb, path)
           /\ j # 0 => j \in 1..Len(routes') /\ Serves(routes'[j], verb, path)
           /\ \A k \in 1..Len(routes') : Serves(routes'[k], verb, path) => j # 0 /\ j <= k
<1> DEFINE hits == {i \in 1..Len(routes') : Serves(routes'[i], verb, path)}
<1>1. Len(routes') \in Nat
  BY LenProperties
<1>2. MatchRoute(verb, path)' = FirstOf(hits)
  BY DEF MatchRoute, FirstOf, Serves
<1>3. hits \in SUBSET (1..Len(routes'))
  OBVIOUS
<1>4. /\ hits = {} => FirstOf(hits) = 0
      /\ hits # {} => /\ FirstOf(hits) \in hits /\ FirstOf(hits) # 0
                      /\ \A k \in hits : FirstOf(hits) <= k
  BY <1>1, <1>3, FirstHit
<1> QED
  BY <1>2, <1>4

\* A new route is searched last: it takes no request from another.
LEMMA AddDivertsNothing ==
  ASSUME IInv, NEW v \in Verbs, NEW p \in Patterns, AddRouteDyn(Fresh, v, p), Fresh \in Ids,
         NEW verb \in Verbs, NEW path \in Paths
  PROVE  ~Diverted(verb, path)
<1> SUFFICES ASSUME Diverted(verb, path) PROVE FALSE
  OBVIOUS
<1> DEFINE n == Len(routes)
           i == MatchRoute(verb, path)
           j == MatchRoute(verb, path)'
           new == [id |-> Fresh, method |-> Upper[v], segments |-> p, managed |-> TRUE]
<1>1. routes \in Seq(Routes) /\ n \in Nat /\ new \in Routes /\ routes' = Append(routes, new)
  BY LenProperties, RouteAssumption DEF IInv, TypeOK, Routes, AddRouteDyn
<1>2. /\ routes' \in Seq(Routes) /\ Len(routes') = n + 1
      /\ \A k \in 1..n : routes'[k] = routes[k]
  BY <1>1, AppendFacts
<1>3. i \in 1..n /\ Serves(routes[i], verb, path)
  BY <1>1, MatchFacts DEF Diverted
<1>4. j # 0 /\ j <= i /\ j \in 1..(n + 1) /\ Serves(routes'[j], verb, path)
  BY <1>1, <1>2, <1>3, MatchFactsAfter
<1>5. j \in 1..n /\ Serves(routes[j], verb, path)
  BY <1>1, <1>2, <1>3, <1>4
<1>6. i <= j
  BY <1>1, <1>5, MatchFacts
<1>7. i = j
  BY <1>1, <1>3, <1>4, <1>6
<1> QED
  BY <1>2, <1>3, <1>4, <1>7 DEF Diverted

\* A removal moves the later routes up by one and keeps their order.
LEMMA RemoveDivertsNothing ==
  ASSUME IInv, NEW id \in Ids, RemoveRoute(id), NEW verb \in Verbs, NEW path \in Paths
  PROVE  ~Diverted(verb, path)
<1> SUFFICES ASSUME Diverted(verb, path) PROVE FALSE
  OBVIOUS
<1> DEFINE n == Len(routes)
           i == MatchRoute(verb, path)
           j == MatchRoute(verb, path)'
<1>1. PICK r \in 1..n : routes' = RemoveAt(routes, r)
  BY DEF RemoveRoute
<1>2. routes \in Seq(Routes) /\ n \in Nat
  BY LenProperties DEF IInv, TypeOK
<1> DEFINE old(k) == IF k < r THEN k ELSE k + 1
<1>3. /\ routes' \in Seq(Routes) /\ Len(routes') = n - 1
      /\ \A k \in 1..(n - 1) : routes'[k] = routes[old(k)]
  BY <1>1, <1>2, RemoveAtFacts
<1>4. i \in 1..n /\ Serves(routes[i], verb, path) /\ routes[i].id \in Live'
  BY <1>2, MatchFacts DEF Diverted
<1>5. PICK k \in 1..(n - 1) : routes[i].id = routes[old(k)].id
  BY <1>3, <1>4 DEF Live
<1>6. old(k) \in 1..n
  BY <1>2
<1>7. \A a, b \in 1..n : routes[a].id \in Int /\ (a < b => routes[a].id < routes[b].id)
  <2>1. \A a \in 1..n : routes[a] \in Routes
    BY <1>2, ElementOfSeq
  <2> QED
    BY <1>2, <2>1, RouteAssumption DEF IInv, InOrder, Routes, Ids
<1> HIDE DEF i, j
<1>8. i = old(k)
  BY <1>2, <1>4, <1>5, <1>6, <1>7
<1>9. routes'[k] = routes[i] /\ j # 0 /\ j <= k
  BY <1>3, <1>4, <1>8, MatchFactsAfter DEF j
<1>10. j \in 1..(n - 1) /\ Serves(routes'[j], verb, path)
  BY <1>3, <1>9, MatchFactsAfter DEF j
<1>11. old(j) \in 1..n /\ Serves(routes[old(j)], verb, path)
  BY <1>2, <1>3, <1>10
<1>12. i <= old(j)
  BY <1>2, <1>11, MatchFacts DEF i
<1>13. j = k
  BY <1>2, <1>8, <1>9, <1>10, <1>12
<1> QED
  BY <1>9, <1>13 DEF Diverted, i, j

-----------------------------------------------------------------------------
\* The invariant holds in every reachable state.
LEMMA Invariance == Spec => []IInv
  BY InitIInv, NextStep, PTL DEF Spec

-----------------------------------------------------------------------------
\* The table, the ids and the arguments of a request keep their types, however
\* a path repeats a parameter (router.rs:46-61, 149-190).
THEOREM TypeCorrect == Spec => []TypeOK
  BY Invariance, PTL DEF IInv

\* A pattern has one managed route or static ones, never both and never two
\* managed ones, however routes come and go (router.rs:104-146).
THEOREM PatternsAreExclusive == Spec => []NoCompetitors
  BY Invariance, PTL DEF IInv

\* The first match is the oldest one (router.rs:139-146, 149-190).
THEOREM OldestRouteServes == Spec => []FirstRegisteredServes
  BY FirstFoundIsOldest, Invariance, PTL

\* Hot additions and removals divert no request from a route that stays
\* (router.rs:104-146, 149-190).
THEOREM NoRequestDiverted == Spec => MatchesAreStable
<1>1. ASSUME IInv, [Next]_vars, NEW verb \in Verbs, NEW path \in Paths, routes' # routes
      PROVE  ~Diverted(verb, path)
  <2>1. ASSUME Fresh \in Ids, NEW v \in Verbs, NEW p \in Patterns, AddRouteDyn(Fresh, v, p)
        PROVE  ~Diverted(verb, path)
    BY <1>1, <2>1, AddDivertsNothing
  <2>2. ASSUME NEW id \in Ids, RemoveRoute(id)
        PROVE  ~Diverted(verb, path)
    BY <1>1, <2>2, RemoveDivertsNothing
  <2>3. ASSUME NEW v \in Verbs, NEW p \in Paths, HandleRequest(v, p) PROVE FALSE
    BY <1>1, <2>3 DEF HandleRequest
  <2> QED
    BY <1>1, <2>1, <2>2, <2>3 DEF Next, vars
<1>2. IInv /\ [Next]_vars
        => [routes' # routes => \A verb \in Verbs, path \in Paths : ~Diverted(verb, path)]_vars
  BY <1>1
<1> QED
  BY <1>2, Invariance, PTL DEF Spec, MatchesAreStable
=============================================================================
