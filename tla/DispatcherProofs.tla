--------------------------- MODULE DispatcherProofs ---------------------------
(***************************************************************************)
(* Proofs about Dispatcher for every set of requests, finite or not, and   *)
(* every max_concurrent.                                                   *)
(***************************************************************************)
EXTENDS Dispatcher, FiniteSetTheorems, TLAPS

\* Every error and every fault whose error is still to be recorded has its
\* duration; the equation of CountersAgree.
Tally ==
  /\ IsFiniteSet(Invoked) /\ IsFiniteSet(Timed) /\ IsFiniteSet(At({"faulted"}))
  /\ stats.invocations + Cardinality(Timed)
       = stats.durations + stats.active + Cardinality(Invoked)
  /\ stats.errors + Cardinality(At({"faulted"})) <= stats.durations

\* The inductive invariant: a panicked closure is past its run, so a request
\* enters and leaves the counted and the panicked ones only once.
IInv ==
  /\ TypeOK
  /\ PermitsAccounted
  /\ GaugeExplained
  /\ Tally
  /\ panicked \subseteq At({"joined", "done"})

\* By how much a move changes the number of requests that are in phases ps.
Delta(ps, from, to) == (IF to \in ps THEN 1 ELSE 0) - (IF from \in ps THEN 1 ELSE 0)

\* A request that moves is afterwards in the sets of its new phase only, and
\* the sizes of the sets follow.
LEMMA MoveAt ==
  ASSUME TypeOK, NEW r \in Requests, NEW from, NEW to \in Phases, Move(r, from, to),
         NEW ps, IsFiniteSet(At(ps))
  PROVE  /\ IsFiniteSet(At(ps)')
         /\ Cardinality(At(ps)) \in Nat /\ Cardinality(At(ps)') \in Nat
         /\ Cardinality(At(ps)') = Cardinality(At(ps)) + Delta(ps, from, to)
<1>1. /\ r \in At(ps) <=> from \in ps
      /\ to \in ps => At(ps)' = At(ps) \cup {r}
      /\ to \notin ps => At(ps)' = At(ps) \ {r}
  BY DEF TypeOK, Move, At
<1>2. Cardinality(At(ps)) \in Nat
  BY FS_CardinalityType
<1>3. CASE to \in ps
  BY <1>1, <1>2, <1>3, FS_AddElement, FS_CardinalityType DEF Delta
<1>4. CASE to \notin ps
  BY <1>1, <1>2, <1>4, FS_RemoveElement, FS_CardinalityType DEF Delta
<1> QED
  BY <1>2, <1>3, <1>4

\* A step that moves one request keeps the invariant when it changes the permits,
\* the counters and the panicked requests by as much as it changes the sets they
\* are compared with.
LEMMA MoveStep ==
  ASSUME IInv, NEW r \in Requests, NEW from \in Phases, NEW to \in Phases, Move(r, from, to),
         permits' \in Nat, permits' = permits - Delta(HoldingPhases, from, to),
         stats' \in Stats, abandoned' = abandoned,
         NEW p \in Nat, IsFiniteSet(panicked'),
         Cardinality(panicked') = Cardinality(panicked) + p,
         panicked' \subseteq At({"joined", "done"})', panicked' \subseteq Requests,
         stats'.active = stats.active + Delta(CountedPhases, from, to) + p,
         stats'.invocations + Delta({"faulted", "recorded"}, from, to)
             - stats'.durations - stats'.active - Delta({"invoked"}, from, to)
           = stats.invocations - stats.durations - stats.active,
         stats'.errors - stats.errors + Delta({"faulted"}, from, to)
           <= stats'.durations - stats.durations
  PROVE  IInv'
<1>1. TypeOK /\ IsFiniteSet(At(HoldingPhases)) /\ IsFiniteSet(At(CountedPhases))
      /\ IsFiniteSet(At({"invoked"})) /\ IsFiniteSet(At({"faulted", "recorded"}))
      /\ IsFiniteSet(At({"faulted"}))
  BY DEF IInv, PermitsAccounted, GaugeExplained, Tally, Holding, Counted, Invoked, Timed
<1>2. \A ps : Delta(ps, from, to) \in Int
  BY DEF Delta
<1>3. PermitsAccounted' /\ permits' <= MaxConcurrent
  <2>1. /\ IsFiniteSet(Holding') /\ Cardinality(Holding') \in Nat /\ Cardinality(Holding) \in Nat
        /\ Cardinality(Holding') = Cardinality(Holding) + Delta(HoldingPhases, from, to)
    BY <1>1, MoveAt DEF Holding
  <2> QED
    BY <1>2, <2>1, DispatcherAssumption DEF IInv, TypeOK, PermitsAccounted
<1>4. GaugeExplained'
  <2>1. /\ IsFiniteSet(Counted') /\ Cardinality(Counted) \in Nat
        /\ Cardinality(Counted') = Cardinality(Counted) + Delta(CountedPhases, from, to)
    BY <1>1, MoveAt DEF Counted
  <2>2. Cardinality(panicked) \in Nat
    BY FS_CardinalityType DEF IInv, GaugeExplained
  <2> QED
    BY <1>2, <2>1, <2>2 DEF IInv, GaugeExplained
<1>5. Tally'
  <2>1. /\ IsFiniteSet(Invoked') /\ Cardinality(Invoked) \in Nat
        /\ Cardinality(Invoked') = Cardinality(Invoked) + Delta({"invoked"}, from, to)
    BY <1>1, MoveAt DEF Invoked
  <2>2. /\ IsFiniteSet(Timed') /\ Cardinality(Timed) \in Nat
        /\ Cardinality(Timed') = Cardinality(Timed) + Delta({"faulted", "recorded"}, from, to)
    BY <1>1, MoveAt DEF Timed
  <2>3. /\ IsFiniteSet(At({"faulted"})') /\ Cardinality(At({"faulted"})) \in Nat
        /\ Cardinality(At({"faulted"})') = Cardinality(At({"faulted"})) + Delta({"faulted"}, from, to)
    BY <1>1, MoveAt
  <2>4. /\ stats.invocations \in Int /\ stats.durations \in Int /\ stats.active \in Int
        /\ stats.errors \in Int /\ stats'.invocations \in Int /\ stats'.durations \in Int
        /\ stats'.active \in Int /\ stats'.errors \in Int
    BY <1>1 DEF TypeOK, Stats
  <2>5. stats'.invocations + Cardinality(Timed')
          = stats'.durations + stats'.active + Cardinality(Invoked')
    <3> DEFINE dn == Delta({"invoked"}, from, to)
               dt == Delta({"faulted", "recorded"}, from, to)
    <3>1. dn \in Int /\ dt \in Int
      BY DEF Delta
    <3>2. stats'.invocations + dt - stats'.durations - stats'.active - dn
            = stats.invocations - stats.durations - stats.active
      OBVIOUS
    <3>3. stats.invocations + Cardinality(Timed)
            = stats.durations + stats.active + Cardinality(Invoked)
      BY DEF IInv, Tally
    <3> HIDE DEF dn, dt
    <3>4. /\ Cardinality(Invoked') = Cardinality(Invoked) + dn
          /\ Cardinality(Timed') = Cardinality(Timed) + dt
      BY <2>1, <2>2 DEF dn, dt
    <3>5. Cardinality(Invoked) \in Int /\ Cardinality(Timed) \in Int
      BY <2>1, <2>2
    <3>6. stats'.invocations + (Cardinality(Timed) + dt)
            = stats'.durations + stats'.active + (Cardinality(Invoked) + dn)
      BY ONLY <2>4, <3>1, <3>2, <3>3, <3>5
    <3> QED
      BY <3>4, <3>6
  <2>6. stats'.errors + Cardinality(At({"faulted"})') <= stats'.durations
    BY <1>2, <2>3, <2>4 DEF IInv, Tally
  <2> QED
    BY <2>1, <2>2, <2>3, <2>5, <2>6 DEF Tally
<1>6. TypeOK'
  BY <1>1, <1>3, DispatcherAssumption DEF TypeOK, Move
<1> QED
  BY <1>3, <1>4, <1>5, <1>6 DEF IInv

\* The same for a step that panics nobody.
LEMMA PlainStep ==
  ASSUME IInv, NEW r \in Requests, NEW from \in Phases, NEW to \in Phases, Move(r, from, to),
         from \notin {"joined", "done"} \/ to \in {"joined", "done"},
         permits' \in Nat, permits' = permits - Delta(HoldingPhases, from, to),
         stats' \in Stats, abandoned' = abandoned, panicked' = panicked,
         stats'.active = stats.active + Delta(CountedPhases, from, to),
         stats'.invocations + Delta({"faulted", "recorded"}, from, to)
             - stats'.durations - stats'.active - Delta({"invoked"}, from, to)
           = stats.invocations - stats.durations - stats.active,
         stats'.errors - stats.errors + Delta({"faulted"}, from, to)
           <= stats'.durations - stats.durations
  PROVE  IInv'
<1>1. IsFiniteSet(panicked) /\ Cardinality(panicked) \in Nat
  BY FS_CardinalityType DEF IInv, GaugeExplained
<1>2. panicked' \subseteq At({"joined", "done"})' /\ panicked' \subseteq Requests
  BY DEF IInv, TypeOK, Move, At
<1>3. /\ 0 \in Nat /\ IsFiniteSet(panicked') /\ Cardinality(panicked') = Cardinality(panicked) + 0
  BY <1>1
<1>4. stats'.active = stats.active + Delta(CountedPhases, from, to) + 0
  BY DEF IInv, TypeOK, Stats, Delta
<1> QED
  BY <1>2, <1>3, <1>4, MoveStep

LEMMA InitIInv == Init => IInv
<1> SUFFICES ASSUME Init PROVE IInv
  OBVIOUS
<1>1. /\ Holding = {} /\ Counted = {} /\ Invoked = {} /\ Timed = {} /\ At({"faulted"}) = {}
      /\ panicked = {}
  BY DEF Init, Holding, Counted, Invoked, Timed, HoldingPhases, CountedPhases, At
<1>2. IsFiniteSet({}) /\ Cardinality({}) = 0
  BY FS_EmptySet
<1> QED
  BY <1>1, <1>2, DispatcherAssumption
  DEF Init, IInv, TypeOK, Phases, Stats, PermitsAccounted, GaugeExplained, Tally

-----------------------------------------------------------------------------
LEMMA AcquireStep ==
  ASSUME IInv, NEW r \in Requests, Reject(r) \/ Admit(r)
  PROVE  IInv'
<1>1. permits \in Nat /\ stats \in Stats
  BY DispatcherAssumption DEF IInv, TypeOK
<1>2. CASE Reject(r)
  <2>1. /\ Move(r, "new", "rejected") /\ UNCHANGED <<permits, panicked, abandoned>>
        /\ stats' = [stats EXCEPT !.dropped = @ + 1]
    BY <1>2 DEF Reject
  <2> QED
    BY <1>1, <2>1, PlainStep DEF Phases, Stats, Delta, HoldingPhases, CountedPhases
<1>3. CASE Admit(r)
  <2>1. /\ Move(r, "new", "admitted") /\ UNCHANGED <<stats, panicked, abandoned>>
        /\ permits > 0 /\ permits' = permits - 1
    BY <1>3 DEF Admit
  <2> QED
    BY <1>1, <2>1, PlainStep DEF Phases, Stats, Delta, HoldingPhases, CountedPhases
<1> QED
  BY <1>2, <1>3

\* The counters before the closure: one of the two, so the equation moves a request
\* in and out of the invoked ones.
LEMMA CountStep ==
  ASSUME IInv, NEW r \in Requests, RecordInvocation(r) \/ IncActive(r)
  PROVE  IInv'
<1>1. permits \in Nat /\ stats \in Stats
  BY DispatcherAssumption DEF IInv, TypeOK
<1>2. CASE RecordInvocation(r)
  <2>1. /\ Move(r, "admitted", "invoked") /\ UNCHANGED <<permits, panicked, abandoned>>
        /\ stats' = [stats EXCEPT !.invocations = @ + 1]
    BY <1>2 DEF RecordInvocation
  <2> QED
    BY <1>1, <2>1, PlainStep DEF Phases, Stats, Delta, HoldingPhases, CountedPhases
<1>3. CASE IncActive(r)
  <2>1. PICK to \in {"queued", "spawned"} : Move(r, "invoked", to)
    BY <1>3 DEF IncActive
  <2>2. stats' = [stats EXCEPT !.active = @ + 1] /\ UNCHANGED <<permits, panicked, abandoned>>
    BY <1>3 DEF IncActive
  <2> QED
    BY <1>1, <2>1, <2>2, PlainStep DEF Phases, Stats, Delta, HoldingPhases, CountedPhases
<1> QED
  BY <1>2, <1>3

LEMMA ScheduleStep ==
  ASSUME IInv, NEW r \in Requests, PollDetached(r) \/ Start(r)
  PROVE  IInv'
<1>1. PICK from \in {"spawned", "queued"}, to \in {"queued", "running"} : Move(r, from, to)
  BY DEF PollDetached, Start
<1>2. UNCHANGED <<permits, stats, panicked, abandoned>>
  BY DEF PollDetached, Start
<1>3. permits \in Nat /\ stats \in Stats
  BY DispatcherAssumption DEF IInv, TypeOK
<1> QED
  BY <1>1, <1>2, <1>3, PlainStep DEF Phases, Stats, Delta, HoldingPhases, CountedPhases

\* The counters after the run.  dec_active does not saturate: the request itself
\* is still in the gauge.
LEMMA FinishStep ==
  ASSUME IInv, NEW r \in Requests, Finish(r) \/ RecordError(r) \/ DecActive(r)
  PROVE  IInv'
<1>1. permits \in Nat /\ stats \in Stats
  BY DispatcherAssumption DEF IInv, TypeOK
<1>2. CASE Finish(r)
  <2>1. PICK to \in {"faulted", "recorded"} : Move(r, "running", to)
    BY <1>2 DEF Finish
  <2>2. stats' = [stats EXCEPT !.durations = @ + 1] /\ UNCHANGED <<permits, panicked, abandoned>>
    BY <1>2 DEF Finish
  <2> QED
    BY <1>1, <2>1, <2>2, PlainStep DEF Phases, Stats, Delta, HoldingPhases, CountedPhases
<1>3. CASE RecordError(r)
  <2>1. /\ Move(r, "faulted", "recorded") /\ UNCHANGED <<permits, panicked, abandoned>>
        /\ stats' = [stats EXCEPT !.errors = @ + 1]
    BY <1>3 DEF RecordError
  <2> QED
    BY <1>1, <2>1, PlainStep DEF Phases, Stats, Delta, HoldingPhases, CountedPhases
<1>4. CASE DecActive(r)
  <2>1. /\ Move(r, "recorded", "leaving") /\ UNCHANGED <<permits, panicked, abandoned>>
        /\ stats' = [stats EXCEPT !.active = IF @ = 0 THEN 0 ELSE @ - 1]
    BY <1>4 DEF DecActive
  <2>2. r \in Counted
    BY <2>1 DEF Counted, CountedPhases, At, Move
  <2>3. Cardinality(Counted) \in Nat \ {0} /\ Cardinality(panicked) \in Nat
    BY <2>2, FS_EmptySet, FS_CardinalityType DEF IInv, GaugeExplained
  <2>4. stats.active # 0
    BY <2>3 DEF IInv, GaugeExplained
  <2> QED
    BY <1>1, <2>1, <2>4, PlainStep DEF Phases, Stats, Delta, HoldingPhases, CountedPhases
<1> QED
  BY <1>2, <1>3, <1>4

LEMMA PanicStep ==
  ASSUME IInv, NEW r \in Requests, Panic(r)
  PROVE  IInv'
<1>1. PICK to \in {"done", "joined"} :
        /\ Move(r, "running", to)
        /\ permits' = IF to = "done" THEN permits + 1 ELSE permits
  BY DEF Panic
<1>2. panicked' = panicked \cup {r} /\ UNCHANGED <<stats, abandoned>>
  BY DEF Panic
<1>3. permits \in Nat /\ stats \in Stats
  BY DispatcherAssumption DEF IInv, TypeOK
<1>4. r \notin panicked
  BY <1>1 DEF IInv, Move, At
<1>5. IsFiniteSet(panicked') /\ Cardinality(panicked') = Cardinality(panicked) + 1
  BY <1>2, <1>4, FS_AddElement DEF IInv, GaugeExplained
<1>6. panicked' \subseteq At({"joined", "done"})' /\ panicked' \subseteq Requests
  BY <1>1, <1>2 DEF IInv, TypeOK, Move, At
<1>7. /\ Delta(HoldingPhases, "running", to) = IF to = "done" THEN -1 ELSE 0
      /\ Delta(CountedPhases, "running", to) = -1
      /\ Delta({"faulted", "recorded"}, "running", to) = 0
      /\ Delta({"invoked"}, "running", to) = 0 /\ Delta({"faulted"}, "running", to) = 0
      /\ "running" \in Phases /\ to \in Phases
  BY DEF Delta, HoldingPhases, CountedPhases, Phases
<1>8. /\ permits' \in Nat /\ permits' = permits - Delta(HoldingPhases, "running", to)
      /\ stats' \in Stats /\ stats'.active = stats.active + Delta(CountedPhases, "running", to) + 1
      /\ stats'.invocations + Delta({"faulted", "recorded"}, "running", to)
             - stats'.durations - stats'.active - Delta({"invoked"}, "running", to)
           = stats.invocations - stats.durations - stats.active
      /\ stats'.errors - stats.errors + Delta({"faulted"}, "running", to)
           <= stats'.durations - stats.durations
  BY <1>1, <1>2, <1>3, <1>7 DEF Stats
<1> QED
  BY <1>1, <1>2, <1>5, <1>6, <1>7, <1>8, MoveStep

LEMMA LeaveStep ==
  ASSUME IInv, NEW r \in Requests, Leave(r) \/ Join(r)
  PROVE  IInv'
<1>1. PICK from \in {"leaving", "joined"}, to \in {"done", "joined"} :
        /\ Move(r, from, to) /\ from # to
        /\ permits' = IF to = "done" THEN permits + 1 ELSE permits
  BY DEF Leave, Join
<1>2. UNCHANGED <<stats, panicked, abandoned>>
  BY DEF Leave, Join
<1>3. permits \in Nat /\ stats \in Stats
  BY DispatcherAssumption DEF IInv, TypeOK
<1> QED
  BY <1>1, <1>2, <1>3, PlainStep DEF Phases, Stats, Delta, HoldingPhases, CountedPhases

LEMMA DisconnectStep ==
  ASSUME IInv, NEW r \in Requests, Disconnect(r)
  PROVE  IInv'
  BY DEF Disconnect, IInv, TypeOK, PermitsAccounted, GaugeExplained, Tally,
         Holding, Counted, Invoked, Timed, At

LEMMA NextStep == IInv /\ [Next]_vars => IInv'
<1> SUFFICES ASSUME IInv, [Next]_vars PROVE IInv'
  OBVIOUS
<1>1. CASE UNCHANGED vars
  BY <1>1 DEF vars, IInv, TypeOK, PermitsAccounted, GaugeExplained, Tally,
              Holding, Counted, Invoked, Timed, At
<1>2. CASE Next
  BY <1>2, AcquireStep, CountStep, ScheduleStep, FinishStep, PanicStep, LeaveStep, DisconnectStep
  DEF Next, Submit, Advance
<1> QED
  BY <1>1, <1>2

LEMMA Invariance == Spec => []IInv
  BY InitIInv, NextStep, PTL DEF Spec

-----------------------------------------------------------------------------
\* The dispatcher's variables keep their types: the permits stay between none
\* and max_concurrent and no counter is negative (dispatcher.rs:73-95).
THEOREM TypeCorrect == Spec => []TypeOK
  BY Invariance, PTL DEF IInv

\* No permit is leaked or given back twice, whatever runs, faults, panics or
\* disconnects (dispatcher.rs:111-205).
THEOREM PermitsConserved == Spec => []PermitsAccounted
  BY Invariance, PTL DEF IInv

\* The semaphore bounds the programs on threads (dispatcher.rs:4).
THEOREM ConcurrencyBounded == Spec => []BoundedConcurrency
<1>1. IInv => BoundedConcurrency
  <2> SUFFICES ASSUME IInv PROVE BoundedConcurrency
    OBVIOUS
  <2>1. OnThread \subseteq Holding
    BY DEF OnThread, ThreadPhases, Holding, HoldingPhases, At
  <2>2. Cardinality(OnThread) <= Cardinality(Holding) /\ Cardinality(OnThread) \in Nat
    BY <2>1, FS_Subset, FS_CardinalityType DEF IInv, PermitsAccounted
  <2> QED
    BY <2>2, FS_CardinalityType, DispatcherAssumption
    DEF IInv, TypeOK, PermitsAccounted, BoundedConcurrency
<1> QED
  BY <1>1, Invariance, PTL

\* The gauge is the executions in progress plus the closures that panicked
\* (metrics.rs:66-73, dispatcher.rs:122, 144, 193).
THEOREM GaugeIsExplained == Spec => []GaugeExplained
  BY Invariance, PTL DEF IInv

\* Whenever a reader of /metrics takes a snapshot, the errors are at most the
\* durations, these at most the invocations, and the gauge is off by exactly the
\* requests that are between two of their counters (dispatcher.rs:121-122, 140-144,
\* 172-173, 189-193).
THEOREM CountersAlwaysAgree == Spec => []CountersAgree
<1>1. IInv => CountersAgree
  <2> SUFFICES ASSUME IInv PROVE CountersAgree
    OBVIOUS
  <2>1. /\ Cardinality(Invoked) \in Nat /\ Cardinality(Timed) \in Nat
        /\ Cardinality(At({"faulted"})) \in Nat /\ Cardinality(Counted) \in Nat
        /\ Cardinality(panicked) \in Nat
    BY FS_CardinalityType DEF IInv, Tally, GaugeExplained
  <2>2. Cardinality(Timed) <= Cardinality(Counted)
    <3>1. Timed \subseteq Counted
      BY DEF Timed, Counted, CountedPhases, At
    <3> QED
      BY <3>1, FS_Subset DEF IInv, GaugeExplained
  <2>3. stats \in Stats
    BY DEF IInv, TypeOK
  <2> QED
    BY <2>1, <2>2, <2>3 DEF IInv, Stats, GaugeExplained, Tally, CountersAgree
<1> QED
  BY <1>1, Invariance, PTL

\* Overloaded is answered only when every permit is held (dispatcher.rs:112-115,
\* 165-168).
THEOREM RefusalsJustified == Spec => RefusedOnlyWhenFull
<1> DEFINE A == \A r \in Requests : phase[r] = "new" /\ phase'[r] = "rejected"
                   => Cardinality(Holding) = MaxConcurrent
<1>1. IInv /\ [Next]_vars => [A]_vars
  <2> SUFFICES ASSUME IInv, Next, NEW r \in Requests,
                      phase[r] = "new", phase'[r] = "rejected"
               PROVE  Cardinality(Holding) = MaxConcurrent
    OBVIOUS
  <2>1. PICK q \in Requests : Submit(q) \/ Advance(q) \/ Disconnect(q)
    BY DEF Next
  <2>2. Reject(q)
    BY <2>1 DEF IInv, TypeOK, Submit, Advance, Disconnect, Move, Admit, RecordInvocation, IncActive,
                PollDetached, Start, Finish, RecordError, DecActive, Panic, Leave, Join
  <2> QED
    BY <2>2, FS_CardinalityType, DispatcherAssumption DEF Reject, IInv, TypeOK, PermitsAccounted
<1> QED
  BY <1>1, Invariance, PTL DEF Spec, RefusedOnlyWhenFull
=============================================================================
