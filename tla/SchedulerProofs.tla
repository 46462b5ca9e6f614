---------------------------- MODULE SchedulerProofs ----------------------------
(***************************************************************************)
(* Proofs about Scheduler for every set of schedules, every interval and   *)
(* every way the clock advances.                                           *)
(***************************************************************************)
EXTENDS Scheduler, SequenceTheorems, TLAPS

\* What is proved of the dispatcher alone.
DP == INSTANCE DispatcherProofs WITH Requests <- HttpRequests \cup Firings, Http <- HttpRequests

\* In which interval of length d from b an instant is, and how far into it.
Slot(b, d, t) == (t - b) \div d
Offset(b, d, t) == (t - b) % d
SlotOf(s, t) == Slot(start[s], Interval(s), t)

\* Before its ticker is made a task has no tick; then its deadline is on the grid
\* and in a later interval than any tick it had, the next one unless it is due.
OnGrid(s) ==
  /\ at[s] \in {"start", "dead"} => ticks[s] = <<>>
  /\ at[s] = "dead" => Interval(s) = 0
  /\ at[s] \in {"tick", "dispatch", "invoke", "count"} =>
       /\ Interval(s) # 0
       /\ start[s] <= deadline[s] /\ (deadline[s] - start[s]) % Interval(s) = 0
       /\ \A i \in 1..Len(ticks[s]) : SlotOf(s, ticks[s][i]) < SlotOf(s, deadline[s])
       /\ \/ deadline[s] <= now
          \/ \E i \in 1..Len(ticks[s]) : SlotOf(s, deadline[s]) = SlotOf(s, ticks[s][i]) + 1
  /\ \A i, j \in 1..Len(ticks[s]) : i < j => SlotOf(s, ticks[s][i]) < SlotOf(s, ticks[s][j])
  /\ \A i \in 1..Len(ticks[s]) : start[s] <= ticks[s][i] /\ ticks[s][i] <= now

\* There is a tick per instant at most, so the requests of Firings suffice.
Numbered(s) ==
  /\ at[s] \in {"dispatch", "invoke", "count"} => ticks[s] # <<>>
  /\ Len(ticks[s]) <= now \div Step + (IF deadline[s] > now THEN 1 ELSE 0)

TasksOK ==
  /\ now \in 0..MaxTime /\ now % Step = 0
  /\ at \in [Schedules -> {"start", "tick", "dispatch", "invoke", "count", "dead"}]
  /\ start \in [Schedules -> 0..MaxTime]
  /\ \A s \in Schedules : start[s] <= now
  /\ deadline \in [Schedules -> Nat]
  /\ ticks \in [Schedules -> Seq(0..MaxTime)]

IInv == TasksOK /\ \A s \in Schedules : OnGrid(s) /\ Numbered(s)

-----------------------------------------------------------------------------
\* Division by a positive number, by its quotient and remainder.
LEMMA DivisionFacts ==
  ASSUME NEW a \in Int, NEW d \in Nat \ {0}
  PROVE  /\ a \div d \in Int /\ a % d \in 0..(d - 1)
         /\ a = d * (a \div d) + (a % d)
OBVIOUS

LEMMA Quotient ==
  ASSUME NEW d \in Nat \ {0}, NEW k \in Int, NEW r \in 0..(d - 1)
  PROVE  (d * k + r) \div d = k /\ (d * k + r) % d = r
<1> DEFINE q == (d * k + r) \div d
           m == (d * k + r) % d
<1>1. d * k \in Int /\ d * k + r \in Int
  OBVIOUS
<1>2. q \in Int /\ m \in 0..(d - 1) /\ d * k + r = d * q + m
  BY <1>1, DivisionFacts
<1> HIDE DEF q, m
<1>3. d * (k - q) = m - r /\ d * (q - k) = r - m
  BY <1>2
<1>4. ~(k - q >= 1)
  <2> SUFFICES ASSUME k - q >= 1 PROVE FALSE
    OBVIOUS
  <2>1. d * (k - q) >= d
    BY <1>2
  <2> QED
    BY <1>2, <1>3, <2>1
<1>5. ~(q - k >= 1)
  <2> SUFFICES ASSUME q - k >= 1 PROVE FALSE
    OBVIOUS
  <2>1. d * (q - k) >= d
    BY <1>2
  <2> QED
    BY <1>2, <1>3, <2>1
<1>6. q = k
  BY <1>2, <1>4, <1>5
<1> QED
  BY <1>2, <1>6 DEF q, m

\* An instant lies in its slot, at its offset.
LEMMA Place ==
  ASSUME NEW b \in Int, NEW d \in Nat \ {0}, NEW t \in Int
  PROVE  /\ Slot(b, d, t) \in Int /\ Offset(b, d, t) \in 0..(d - 1)
         /\ t - b = d * Slot(b, d, t) + Offset(b, d, t)
<1> DEFINE a == t - b
<1>1. a \in Int
  OBVIOUS
<1> HIDE DEF a
<1>2. a \div d \in Int /\ a % d \in 0..(d - 1) /\ a = d * (a \div d) + (a % d)
  BY <1>1, DivisionFacts
<1> QED
  BY <1>2 DEF a, Slot, Offset

\* The next deadline l after a tick at time t of a grid from b: it is on the grid,
\* after t, and in the slot after that of t.
LEMMA NextOnGrid ==
  ASSUME NEW d \in Nat \ {0}, NEW b \in Nat, NEW e \in Nat, NEW t \in Nat, NEW l,
         b <= e, e <= t, Offset(b, d, e) = 0, l = t + d - Offset(e, d, t)
  PROVE  /\ l \in Nat /\ l > t /\ Offset(b, d, l) = 0
         /\ Slot(b, d, t) \in Int /\ Slot(b, d, l) = Slot(b, d, t) + 1
         /\ Slot(b, d, e) <= Slot(b, d, t)
<1> DEFINE k == Slot(b, d, e)
           q == Slot(e, d, t)
           v == Offset(e, d, t)
<1>0. b \in Int /\ e \in Int /\ t \in Int
  OBVIOUS
<1>1. k \in Int /\ e - b = d * k
  <2>1. k \in Int /\ e - b = d * k + Offset(b, d, e)
    BY <1>0, Place, Zenon
  <2> QED
    BY <2>1
<1>2. q \in Int /\ v \in 0..(d - 1) /\ t - e = d * q + v /\ l = t + d - v
  BY <1>0, Place, Zenon
<1> HIDE DEF k, q, v
<1>3. q >= 0
  <2> SUFFICES ASSUME q <= -1 PROVE FALSE
    BY <1>2
  <2>1. d * q <= -d
    BY <1>2
  <2> QED
    BY <1>2, <2>1
<1>4. l \in Nat /\ l > t
  BY <1>2
<1>5. Slot(b, d, t) = k + q
  <2> DEFINE m == k + q
  <2>1. m \in Int /\ t - b = d * m + v
    BY <1>1, <1>2
  <2> HIDE DEF m
  <2>2. (d * m + v) \div d = m
    BY <1>2, <2>1, Quotient, Zenon
  <2>3. Slot(b, d, t) = m
    BY <2>1, <2>2, Zenon DEF Slot
  <2> QED
    BY <2>3 DEF m
<1>6. Slot(b, d, l) = k + q + 1 /\ Offset(b, d, l) = 0
  <2> DEFINE m == k + q + 1
             z == 0
  <2>1. m \in Int /\ z \in 0..(d - 1) /\ l \in Int /\ l - b = d * m + z
    BY <1>1, <1>2, <1>4
  <2> HIDE DEF m, z
  <2>2. (d * m + z) \div d = m /\ (d * m + z) % d = z
    BY <2>1, Quotient, Zenon
  <2>3. Slot(b, d, l) = m /\ Offset(b, d, l) = z
    BY <2>1, <2>2, Zenon DEF Slot, Offset
  <2> QED
    BY <2>3 DEF m, z
<1> QED
  BY <1>1, <1>2, <1>3, <1>4, <1>5, <1>6 DEF k

\* An instant between one of the slot before a deadline on the grid and that deadline
\* is of the same slot.
LEMMA SameSlot ==
  ASSUME NEW d \in Nat \ {0}, NEW b \in Nat, NEW e \in Nat, NEW t \in Nat, NEW u \in Int,
         Offset(b, d, e) = 0, u <= t, t < e, Slot(b, d, e) = Slot(b, d, u) + 1
  PROVE  Slot(b, d, u) = Slot(b, d, t)
<1> DEFINE k == Slot(b, d, e)
           j == Slot(b, d, u)
           q == Slot(b, d, t)
           r == Offset(b, d, u)
           v == Offset(b, d, t)
<1>0. b \in Int /\ e \in Int /\ t \in Int
  OBVIOUS
<1>1. k \in Int /\ e - b = d * k
  <2>1. k \in Int /\ e - b = d * k + Offset(b, d, e)
    BY <1>0, Place, Zenon
  <2> QED
    BY <2>1
<1>2. j \in Int /\ r \in 0..(d - 1) /\ u - b = d * j + r
  BY <1>0, Place, Zenon
<1>3. q \in Int /\ v \in 0..(d - 1) /\ t - b = d * q + v
  BY <1>0, Place, Zenon
<1>4. k = j + 1
  OBVIOUS
<1> HIDE DEF k, j, q, r, v
<1>5. d * (q - k) < 0
  BY <1>1, <1>3
<1>6. d * (j - q) < d
  BY <1>2, <1>3
<1>7. ~(q - k >= 0)
  <2> SUFFICES ASSUME q - k >= 0 PROVE FALSE
    OBVIOUS
  <2>1. d * (q - k) >= 0
    BY <1>1, <1>3
  <2> QED
    BY <1>1, <1>3, <1>5, <2>1
<1>8. ~(j - q >= 1)
  <2> SUFFICES ASSUME j - q >= 1 PROVE FALSE
    OBVIOUS
  <2>1. d * (j - q) >= d
    BY <1>2, <1>3
  <2> QED
    BY <1>2, <1>3, <1>6, <2>1
<1> QED
  BY <1>1, <1>2, <1>3, <1>4, <1>7, <1>8 DEF j, q

\* A sequence of instants in increasing slots (f gives the slot of each) is still
\* one with an instant of the slots that follow.
LEMMA TicksExtended ==
  ASSUME NEW n \in Nat, NEW q, NEW p, NEW f \in [Int -> Int],
         NEW b \in Int, NEW e \in Int, NEW t \in Int, NEW l \in Int,
         \A i \in 1..n : q[i] \in Int,
         \A i \in 1..(n + 1) : p[i] = IF i = n + 1 THEN t ELSE q[i],
         f[t] < f[l], f[e] <= f[t], b <= e, e <= t, l > t,
         \A i \in 1..n : f[q[i]] < f[e],
         \A i, j \in 1..n : i < j => f[q[i]] < f[q[j]],
         \A i \in 1..n : b <= q[i] /\ q[i] <= t
  PROVE  /\ \A i \in 1..(n + 1) : p[i] \in Int /\ f[p[i]] < f[l]
         /\ \A i, j \in 1..(n + 1) : i < j => f[p[i]] < f[p[j]]
         /\ \A i \in 1..(n + 1) : b <= p[i] /\ p[i] <= t
         /\ b <= l
<1>1. f[t] \in Int /\ f[l] \in Int /\ f[e] \in Int
  OBVIOUS
<1>2. ASSUME NEW i \in 1..n PROVE f[q[i]] \in Int /\ f[q[i]] < f[t]
  BY <1>1
<1>3. ASSUME NEW i \in 1..(n + 1)
      PROVE  /\ p[i] \in Int /\ f[p[i]] \in Int
             /\ i # n + 1 => i \in 1..n /\ p[i] = q[i]
             /\ i = n + 1 => p[i] = t
  <2>1. i # n + 1 => i \in 1..n
    OBVIOUS
  <2> QED
    BY <2>1
<1>4. ASSUME NEW i \in 1..(n + 1)
      PROVE  f[p[i]] < f[l] /\ b <= p[i] /\ p[i] <= t
  <2>1. CASE i = n + 1
    BY <1>3, <2>1
  <2>2. CASE i # n + 1
    BY <1>1, <1>2, <1>3, <2>2
  <2> QED
    BY <2>1, <2>2
<1>5. ASSUME NEW i \in 1..(n + 1), NEW j \in 1..(n + 1), i < j
      PROVE  f[p[i]] < f[p[j]]
  <2>1. i # n + 1 /\ i \in 1..n /\ p[i] = q[i]
    BY <1>3, <1>5
  <2>2. CASE j = n + 1
    BY <1>2, <1>3, <2>1, <2>2
  <2>3. CASE j # n + 1
    BY <1>3, <1>5, <2>1, <2>3
  <2> QED
    BY <2>2, <2>3
<1> QED
  BY <1>3, <1>4, <1>5

LEMMA IntervalType == \A s \in Schedules : Interval(s) \in Nat
<1> SUFFICES ASSUME NEW s \in Schedules PROVE Interval(s) \in Nat
  OBVIOUS
<1>1. /\ Cron[s].sec \in Seq(Nat) /\ Len(Cron[s].sec) <= 1
      /\ Cron[s].min \in Seq(Nat) /\ Len(Cron[s].min) <= 1
  BY SchedulerAssumption
<1>2. Cron[s].min # <<>> => 60 * Cron[s].min[1] \in Nat
  BY <1>1, EmptySeq, LenProperties, ElementOfSeq
<1>3. Cron[s].sec # <<>> => Cron[s].sec[1] \in Nat
  BY <1>1, EmptySeq, LenProperties, ElementOfSeq
<1> QED
  BY <1>2, <1>3 DEF Interval

LEMMA IntervalConstant == \A s \in Schedules : Interval(s)' = Interval(s)
BY DEF Interval

-----------------------------------------------------------------------------
LEMMA InitIInv == Init => IInv
<1> SUFFICES ASSUME Init PROVE IInv
  OBVIOUS
<1>1. now = 0 /\ MaxTime \in Nat /\ Step \in Nat \ {0}
  BY SchedulerAssumption DEF Init
<1>2. 0 % Step = 0 /\ 0 \div Step = 0
  <2>1. (Step * 0 + 0) \div Step = 0 /\ (Step * 0 + 0) % Step = 0
    BY <1>1, Quotient
  <2> QED
    BY <1>1, <2>1
<1>3. TasksOK
  BY <1>1, <1>2 DEF Init, TasksOK
<1>4. ASSUME NEW s \in Schedules PROVE OnGrid(s) /\ Numbered(s)
  <2>1. at[s] = "start" /\ ticks[s] = <<>> /\ deadline[s] = 0 /\ Len(ticks[s]) = 0
    BY DEF Init
  <2> QED
    BY <1>1, <1>2, <2>1 DEF OnGrid, Numbered
<1> QED
  BY <1>3, <1>4 DEF IInv

\* A task keeps its part of the invariant while others go on.
LEMMA Untouched ==
  ASSUME NEW s \in Schedules, OnGrid(s), Numbered(s),
         at'[s] = at[s] \/ (at[s] = "dispatch" /\ at'[s] \in {"invoke", "tick"})
                        \/ (at[s] = "invoke" /\ at'[s] = "count")
                        \/ (at[s] = "count" /\ at'[s] = "tick"),
         start'[s] = start[s], deadline'[s] = deadline[s], ticks'[s] = ticks[s], now' = now
  PROVE  OnGrid(s)' /\ Numbered(s)'
<1>1. OnGrid(s)'
  BY IntervalConstant DEF OnGrid, SlotOf
<1>2. Numbered(s)'
  BY DEF Numbered
<1> QED
  BY <1>1, <1>2

LEMMA StartStep ==
  ASSUME IInv, NEW s \in Schedules, StartTicker(s) PROVE IInv'
<1>1. Interval(s) \in Nat
  BY IntervalType
<1>2. /\ at[s] = "start" /\ ticks[s] = <<>> /\ Len(ticks[s]) = 0
      /\ at' = [at EXCEPT ![s] = IF Interval(s) = 0 THEN "dead" ELSE "tick"]
      /\ start' = [start EXCEPT ![s] = now] /\ deadline' = [deadline EXCEPT ![s] = now]
      /\ UNCHANGED <<now, ticks>>
  BY DEF StartTicker, Goto, IInv, OnGrid
<1>3. TasksOK'
  BY <1>2, SchedulerAssumption DEF IInv, TasksOK
<1>4. OnGrid(s)' /\ Numbered(s)'
  <2>1. /\ at'[s] = (IF Interval(s) = 0 THEN "dead" ELSE "tick")
        /\ start'[s] = now /\ deadline'[s] = now /\ ticks'[s] = <<>>
    BY <1>2 DEF IInv, TasksOK
  <2>2. Interval(s) # 0 => (now - now) % Interval(s) = 0
    <3> SUFFICES ASSUME Interval(s) # 0 PROVE (now - now) % Interval(s) = 0
      OBVIOUS
    <3>1. Interval(s) \in Nat \ {0} /\ now \in Int
      BY <1>1, SchedulerAssumption DEF IInv, TasksOK
    <3>2. (Interval(s) * 0 + 0) % Interval(s) = 0
      BY <3>1, Quotient
    <3>3. now - now = Interval(s) * 0 + 0
      BY <3>1
    <3> QED
      BY <3>2, <3>3
  <2>3. OnGrid(s)'
    <3>1. now \in Nat /\ now <= now
      BY SchedulerAssumption DEF IInv, TasksOK
    <3>2. at'[s] \in {"dead", "tick"} /\ (at'[s] = "tick" => Interval(s) # 0)
      BY <2>1
    <3> QED
      BY <1>2, <2>1, <2>2, <3>1, <3>2, IntervalConstant DEF OnGrid
  <2>4. now \div Step >= 0 /\ now \div Step \in Int
    <3>1. now \in Nat /\ Step \in Nat \ {0}
      BY SchedulerAssumption DEF IInv, TasksOK
    <3> QED
      BY <3>1
  <2>5. Numbered(s)'
    BY <1>2, <2>1, <2>4, SchedulerAssumption DEF Numbered, IInv, TasksOK
  <2> QED
    BY <2>3, <2>5
<1>5. ASSUME NEW u \in Schedules, u # s PROVE OnGrid(u)' /\ Numbered(u)'
  BY <1>2, <1>5, Untouched DEF IInv, TasksOK
<1> QED
  BY <1>3, <1>4, <1>5 DEF IInv

\* A tick, however late, is in a later interval than the ticks before it, and the
\* next deadline in a later one still.
LEMMA TickStep ==
  ASSUME IInv, NEW s \in Schedules, Tick(s) PROVE IInv'
<1> DEFINE d == Interval(s)
           n == Len(ticks[s])
<1>1. /\ at[s] = "tick" /\ deadline[s] <= now
      /\ at' = [at EXCEPT ![s] = "dispatch"]
      /\ ticks' = [ticks EXCEPT ![s] = Append(ticks[s], now)]
      /\ deadline' = [deadline EXCEPT ![s] = NextDeadline(s)]
      /\ UNCHANGED <<now, start>>
  <2>1. now >= deadline[s] /\ now \in Int /\ deadline[s] \in Int
    BY SchedulerAssumption DEF Tick, IInv, TasksOK
  <2> QED
    BY <2>1 DEF Tick, Goto
<1>2. /\ now \in Nat /\ start[s] \in Nat /\ deadline[s] \in Nat
      /\ ticks[s] \in Seq(0..MaxTime) /\ n \in Nat
      /\ now \in 0..MaxTime
      /\ \A i \in 1..n : ticks[s][i] \in 0..MaxTime
  <2>1. ticks[s] \in Seq(0..MaxTime)
    BY DEF IInv, TasksOK
  <2> QED
    BY <2>1, SchedulerAssumption, LenProperties, ElementOfSeq DEF IInv, TasksOK
<1>3. /\ d \in Nat \ {0} /\ start[s] <= deadline[s]
      /\ \A i \in 1..n : SlotOf(s, ticks[s][i]) < SlotOf(s, deadline[s])
      /\ \A i, j \in 1..n : i < j => SlotOf(s, ticks[s][i]) < SlotOf(s, ticks[s][j])
      /\ \A i \in 1..n : start[s] <= ticks[s][i] /\ ticks[s][i] <= now
  BY <1>1, IntervalType DEF IInv, OnGrid
<1>4. (deadline[s] - start[s]) % d = 0
  BY <1>1 DEF IInv, OnGrid
<1>5. /\ NextDeadline(s) \in Nat /\ NextDeadline(s) > now
      /\ SlotOf(s, now) \in Int /\ SlotOf(s, NextDeadline(s)) = SlotOf(s, now) + 1
      /\ SlotOf(s, now) < SlotOf(s, NextDeadline(s))
      /\ SlotOf(s, deadline[s]) <= SlotOf(s, now)
      /\ (NextDeadline(s) - start[s]) % d = 0
  <2> DEFINE b == start[s]
             e == deadline[s]
             l == NextDeadline(s)
  <2>1. d \in Nat \ {0} /\ b \in Nat /\ e \in Nat /\ now \in Nat /\ b <= e /\ e <= now
        /\ Offset(b, d, e) = 0 /\ l = now + d - Offset(e, d, now)
    BY <1>1, <1>2, <1>3, <1>4 DEF NextDeadline, Offset
  <2> HIDE DEF b, d, e, l
  <2>2. /\ l \in Nat /\ l > now /\ Offset(b, d, l) = 0
        /\ Slot(b, d, now) \in Int /\ Slot(b, d, l) = Slot(b, d, now) + 1
        /\ Slot(b, d, e) <= Slot(b, d, now)
    BY <2>1, NextOnGrid
  <2>3. Slot(b, d, now) < Slot(b, d, l)
    BY <2>2
  <2> QED
    BY <2>2, <2>3 DEF Offset, SlotOf, b, d, e, l
<1>7. /\ at'[s] = "dispatch" /\ deadline'[s] = NextDeadline(s) /\ start'[s] = start[s]
      /\ ticks'[s] = Append(ticks[s], now)
  BY <1>1 DEF IInv, TasksOK
<1>8. /\ ticks'[s] \in Seq(0..MaxTime) /\ Len(ticks'[s]) = n + 1
      /\ \A i \in 1..(n + 1) : ticks'[s][i] = IF i = n + 1 THEN now ELSE ticks[s][i]
  BY <1>2, <1>7, AppendProperties
<1>9. TasksOK'
  BY <1>1, <1>5, <1>8 DEF IInv, TasksOK
<1>10. OnGrid(s)'
  <2> DEFINE slot(t) == Slot(start[s], d, t)
             q == ticks[s]
             p == ticks'[s]
             e == deadline[s]
             l == NextDeadline(s)
  <2>1. \A t \in Int : slot(t) \in Int
    <3>1. start[s] \in Int /\ d \in Nat \ {0}
      BY <1>2, <1>3
    <3> QED
      BY <3>1, Place, Zenon
  <2>2. PICK f \in [Int -> Int] : \A t \in Int : f[t] = slot(t)
    <3>1. [t \in Int |-> slot(t)] \in [Int -> Int]
      BY <2>1
    <3> QED
      BY <3>1
  <2>3. e \in Int /\ now \in Int
    BY <1>2
  <2>4. l \in Int /\ l > now
    BY <1>5
  <2>5. \A i \in 1..n : q[i] \in Int
    <3>1. MaxTime \in Nat
      BY SchedulerAssumption
    <3>2. \A i \in 1..n : q[i] \in 0..MaxTime
      BY <1>2
    <3> HIDE DEF n, q
    <3> QED
      BY <3>1, <3>2
  <2>6. f[now] < f[l] /\ f[e] <= f[now]
    BY <1>5, <2>2, <2>3, <2>4 DEF SlotOf
  <2>7. /\ \A i \in 1..n : f[q[i]] < f[e]
        /\ \A i, j \in 1..n : i < j => f[q[i]] < f[q[j]]
    BY <1>3, <2>2, <2>3, <2>5 DEF SlotOf
  <2>8. /\ start[s] \in Int /\ start[s] <= e /\ e <= now
        /\ \A i \in 1..n : start[s] <= q[i] /\ q[i] <= now
    <3>1. start[s] \in Int
      <4>1. start[s] \in Nat
        BY <1>2, Zenon
      <4> QED
        BY <4>1
    <3>2. start[s] <= e /\ \A i \in 1..n : start[s] <= q[i] /\ q[i] <= now
      BY <1>3
    <3>3. e <= now
      BY <1>1, Zenon
    <3> QED
      BY <3>1, <3>2, <3>3
  <2>9. n \in Nat /\ \A i \in 1..(n + 1) : p[i] = IF i = n + 1 THEN now ELSE q[i]
    BY <1>2, <1>8
  <2>10. \A t \in Int : Slot(start'[s], Interval(s)', t) = f[t]
    BY <1>7, <2>2, IntervalConstant
  <2>11. /\ \A i \in 1..(n + 1) : p[i] \in Int /\ f[p[i]] < f[l]
         /\ \A i, j \in 1..(n + 1) : i < j => f[p[i]] < f[p[j]]
         /\ \A i \in 1..(n + 1) : start[s] <= p[i] /\ p[i] <= now
         /\ start[s] <= l
    <3> HIDE DEF n, d, slot, q, p, e, l
    <3> QED
      BY <2>3, <2>4, <2>5, <2>6, <2>7, <2>8, <2>9, TicksExtended
  <2>12. /\ at'[s] = "dispatch" /\ deadline'[s] = l /\ start'[s] = start[s]
         /\ ticks'[s] = p /\ Len(p) = n + 1 /\ now' = now /\ l \in Int
    BY <1>1, <1>5, <1>7, <1>8
  <2>13. d # 0 /\ Interval(s)' = d /\ (l - start[s]) % d = 0
    BY <1>3, <1>5, IntervalConstant
  <2> HIDE DEF n, d, slot, q, p, e, l
  <2>14. /\ \A i \in 1..Len(p) : p[i] \in Int
         /\ \A i \in 1..Len(p) : start[s] <= p[i] /\ p[i] <= now
         /\ \A i \in 1..Len(p) : f[p[i]] < f[l]
         /\ \A i, j \in 1..Len(p) : i < j => f[p[i]] < f[p[j]]
    BY <2>11, <2>12
  <2>15. /\ \A i \in 1..Len(p) : Slot(start'[s], Interval(s)', p[i]) < Slot(start'[s], Interval(s)', l)
         /\ \A i, j \in 1..Len(p) : i < j =>
              Slot(start'[s], Interval(s)', p[i]) < Slot(start'[s], Interval(s)', p[j])
    BY <2>10, <2>12, <2>14
  <2>16. n + 1 \in 1..Len(p) /\ p[n + 1] = now /\ f[l] = f[now] + 1
    <3>1. n + 1 \in 1..(n + 1) /\ p[n + 1] = now
      BY <2>9
    <3>2. f[l] = f[now] + 1
      BY <1>5, <2>2, <2>3, <2>4 DEF SlotOf, slot, d, l
    <3> QED
      BY <2>12, <3>1, <3>2
  <2>17. \E i \in 1..Len(p) :
           Slot(start'[s], Interval(s)', l) = Slot(start'[s], Interval(s)', p[i]) + 1
    BY <2>3, <2>4, <2>10, <2>16
  <2> QED
    BY <2>11, <2>12, <2>13, <2>14, <2>15, <2>17 DEF OnGrid, SlotOf
<1>11. Numbered(s)'
  <2>1. now \div Step \in Int
    BY <1>2, SchedulerAssumption
  <2>2. n <= now \div Step
    BY <1>1, <1>2, <2>1 DEF IInv, Numbered
  <2>3. ticks'[s] # <<>>
    BY <1>2, <1>8
  <2> QED
    BY <1>1, <1>2, <1>5, <1>7, <1>8, <2>1, <2>2, <2>3 DEF Numbered
<1>12. ASSUME NEW u \in Schedules, u # s PROVE OnGrid(u)' /\ Numbered(u)'
  BY <1>1, <1>12, Untouched DEF IInv, TasksOK
<1> QED
  BY <1>9, <1>10, <1>11, <1>12 DEF IInv

LEMMA ClockStep ==
  ASSUME IInv, Clock PROVE IInv'
<1>1. /\ now + Step <= MaxTime /\ now' = now + Step
      /\ UNCHANGED <<at, start, deadline, ticks>>
      /\ now \in Nat /\ Step \in Nat \ {0} /\ MaxTime \in Nat
  BY SchedulerAssumption DEF Clock, IInv, TasksOK
<1>2. now' % Step = 0 /\ now' \div Step = now \div Step + 1 /\ now \div Step \in Int
  <2> DEFINE k == now \div Step
  <2>1. k \in Int /\ now = Step * k + 0
    BY <1>1, DivisionFacts DEF IInv, TasksOK
  <2> HIDE DEF k
  <2>2. now' = Step * (k + 1) + 0
    BY <1>1, <2>1
  <2>3. (Step * (k + 1) + 0) \div Step = k + 1 /\ (Step * (k + 1) + 0) % Step = 0
    BY <1>1, <2>1, Quotient
  <2> QED
    BY <2>1, <2>2, <2>3 DEF k
<1>3. TasksOK'
  <2>1. now' \in 0..MaxTime
    BY <1>1
  <2>2. \A s \in Schedules : start[s] \in Int /\ start[s] <= now
    BY <1>1 DEF IInv, TasksOK
  <2>3. \A s \in Schedules : start'[s] <= now'
    BY <1>1, <2>2
  <2> QED
    BY <1>1, <1>2, <2>1, <2>3 DEF IInv, TasksOK
<1>4. ASSUME NEW s \in Schedules PROVE OnGrid(s)' /\ Numbered(s)'
  <2>1. ticks[s] \in Seq(0..MaxTime) /\ Len(ticks[s]) \in Nat
    BY LenProperties DEF IInv, TasksOK
  <2>2. \A i \in 1..Len(ticks[s]) : ticks[s][i] <= now + Step
    BY <1>1, <2>1, ElementOfSeq DEF IInv, OnGrid
  <2>3. deadline[s] \in Nat /\ (deadline[s] <= now => deadline[s] <= now + Step)
    BY <1>1 DEF IInv, TasksOK
  <2>4. OnGrid(s)'
    BY <1>1, <2>2, <2>3, IntervalConstant DEF IInv, OnGrid, SlotOf
  <2>5. Numbered(s)'
    <3>1. Numbered(s)
      BY DEF IInv
    <3>2. Len(ticks[s]) <= now \div Step + 1
      BY <1>2, <2>1, <3>1 DEF Numbered
    <3> QED
      BY <1>1, <1>2, <2>1, <2>3, <3>1, <3>2 DEF Numbered
  <2> QED
    BY <2>4, <2>5
<1> QED
  BY <1>3, <1>4 DEF IInv

LEMMA NextStep == IInv /\ [Next]_vars => IInv'
<1> SUFFICES ASSUME IInv, [Next]_vars PROVE IInv'
  OBVIOUS
<1>1. ASSUME NEW s \in Schedules, StartTicker(s) PROVE IInv'
  BY <1>1, StartStep
<1>2. ASSUME NEW s \in Schedules, Tick(s) PROVE IInv'
  BY <1>2, TickStep
<1>3. ASSUME NEW s \in Schedules,
             \/ DispatchAdmitted(s) \/ DispatchInvoked(s)
             \/ DispatchCounted(s) \/ DispatchRefused(s)
      PROVE  IInv'
  <2>1. /\ \/ at[s] = "dispatch" /\ at' = [at EXCEPT ![s] = "invoke"]
           \/ at[s] = "invoke" /\ at' = [at EXCEPT ![s] = "count"]
           \/ at[s] = "count" /\ at' = [at EXCEPT ![s] = "tick"]
           \/ at[s] = "dispatch" /\ at' = [at EXCEPT ![s] = "tick"]
        /\ UNCHANGED <<now, start, deadline, ticks>>
    BY <1>3 DEF DispatchAdmitted, DispatchInvoked, DispatchCounted, DispatchRefused, Goto
  <2>2. TasksOK'
    BY <2>1 DEF IInv, TasksOK
  <2>3. ASSUME NEW u \in Schedules PROVE OnGrid(u)' /\ Numbered(u)'
    BY <2>1, Untouched DEF IInv, TasksOK
  <2> QED
    BY <2>2, <2>3 DEF IInv
<1>4. CASE Clock
  BY <1>4, ClockStep
<1>5. CASE UNCHANGED <<now, at, start, deadline, ticks>>
  <2>1. TasksOK'
    BY <1>5 DEF IInv, TasksOK
  <2>2. ASSUME NEW u \in Schedules PROVE OnGrid(u)' /\ Numbered(u)'
    BY <1>5, Untouched DEF IInv
  <2> QED
    BY <2>1, <2>2 DEF IInv
<1> QED
  BY <1>1, <1>2, <1>3, <1>4, <1>5 DEF Next, Loop, Engine, vars

LEMMA Invariance == Spec => []IInv
<1>1. Init => IInv
  BY InitIInv
<1>2. IInv /\ [Next]_vars => IInv'
  BY NextStep
<1> QED
  BY <1>1, <1>2, PTL DEF Spec

\* However late tokio polls a task, each interval since its start has one tick at
\* most (scheduler.rs:70).
THEOREM NoCatchingUp == Spec => []OneTickPerInterval
<1>1. IInv => OneTickPerInterval
  BY DEF IInv, OnGrid, SlotOf, Slot, OneTickPerInterval
<1> QED
  BY <1>1, Invariance, PTL

\* At every moment the interval the clock is in has had its tick or its tick is due,
\* whatever became of the requests (scheduler.rs:69-80).
THEOREM NeverSilent == Spec => []IntervalsServed
<1>1. ASSUME IInv, NEW s \in Schedules, Interval(s) # 0, at[s] # "start"
      PROVE  TickedNow(s) \/ TickDue(s)
  <2> DEFINE d == Interval(s)
  <2>1. /\ d \in Nat \ {0} /\ now \in Nat /\ start[s] \in Nat /\ deadline[s] \in Nat
        /\ at[s] \in {"tick", "dispatch", "invoke", "count", "dead"}
    BY <1>1, IntervalType, SchedulerAssumption DEF IInv, TasksOK
  <2>2. OnGrid(s)
    BY <1>1 DEF IInv
  <2>3. at[s] \in {"tick", "dispatch", "invoke", "count"}
    BY <1>1, <2>1, <2>2 DEF OnGrid
  <2>4. CASE deadline[s] <= now
    BY <2>3, <2>4 DEF TickDue
  <2>5. CASE now < deadline[s]
    <3>1. PICK i \in 1..Len(ticks[s]) : SlotOf(s, deadline[s]) = SlotOf(s, ticks[s][i]) + 1
      BY <2>1, <2>2, <2>3, <2>5 DEF OnGrid
    <3>2. ticks[s][i] \in Int /\ ticks[s][i] <= now
      <4>1. ticks[s] \in Seq(0..MaxTime) /\ MaxTime \in Nat
        BY <1>1, SchedulerAssumption DEF IInv, TasksOK
      <4>2. ticks[s][i] \in 0..MaxTime
        BY <4>1, ElementOfSeq
      <4> QED
        BY <2>2, <4>1, <4>2 DEF OnGrid
    <3>3. Offset(start[s], d, deadline[s]) = 0
      BY <2>2, <2>3 DEF Offset, OnGrid
    <3>4. Slot(start[s], d, deadline[s]) = Slot(start[s], d, ticks[s][i]) + 1
      BY <3>1 DEF SlotOf
    <3>5. Slot(start[s], d, ticks[s][i]) = Slot(start[s], d, now)
      <4> DEFINE b == start[s]
                 e == deadline[s]
                 u == ticks[s][i]
      <4>1. /\ d \in Nat \ {0} /\ b \in Nat /\ e \in Nat /\ now \in Nat /\ u \in Int
            /\ Offset(b, d, e) = 0 /\ u <= now /\ now < e
            /\ Slot(b, d, e) = Slot(b, d, u) + 1
        BY <2>1, <2>5, <3>2, <3>3, <3>4
      <4> HIDE DEF b, d, e, u
      <4>2. Slot(b, d, u) = Slot(b, d, now)
        BY <4>1, SameSlot
      <4> QED
        BY <4>2 DEF b, u
    <3> QED
      BY <3>5 DEF TickedNow, Slot
  <2> QED
    BY <2>1, <2>4, <2>5
<1>2. IInv => IntervalsServed
  BY <1>1 DEF IntervalsServed
<1> QED
  BY <1>2, Invariance, PTL

-----------------------------------------------------------------------------
\* A tick finds a request of its own: there is at most one tick per instant.
LEMMA FiringNamed ==
  ASSUME IInv, NEW s \in Schedules, at[s] \in {"dispatch", "invoke", "count"}
  PROVE  Firing(s) \in Firings
<1> DEFINE k == now \div Step
<1>1. /\ now \in Nat /\ MaxTime \in Nat /\ now <= MaxTime
      /\ Step \in Nat \ {0} /\ now % Step = 0
  BY SchedulerAssumption DEF IInv, TasksOK
<1>2. k \in Int /\ now = Step * k
  BY <1>1, DivisionFacts
<1>3. MaxTime \div Step \in Int /\ k <= MaxTime \div Step
  <2> DEFINE q == MaxTime \div Step
             r == MaxTime % Step
  <2>1. q \in Int /\ r \in 0..(Step - 1) /\ MaxTime = Step * q + r
    BY <1>1, DivisionFacts
  <2> HIDE DEF q, r, k
  <2>2. ~(k >= q + 1)
    <3> SUFFICES ASSUME k >= q + 1 PROVE FALSE
      OBVIOUS
    <3>1. Step * k >= Step * (q + 1)
      BY <1>1, <1>2, <2>1
    <3> QED
      BY <1>1, <1>2, <2>1, <3>1
  <2> QED
    BY <1>2, <2>1, <2>2 DEF q
<1>4. Len(ticks[s]) \in 1..(k + 1)
  <2>1. ticks[s] \in Seq(0..MaxTime) /\ deadline[s] \in Nat
    BY DEF IInv, TasksOK
  <2>2. Len(ticks[s]) \in Nat /\ Len(ticks[s]) # 0
    BY <2>1, EmptySeq, LenProperties DEF IInv, Numbered
  <2> QED
    BY <1>1, <1>2, <2>1, <2>2 DEF IInv, Numbered
<1> HIDE DEF k
<1>5. Len(ticks[s]) \in 1..(MaxTime \div Step + 1)
  BY <1>2, <1>3, <1>4
<1> QED
  BY <1>5 DEF Firing, Firings

LEMMA DispatcherStep ==
  IInv /\ [Next]_vars => [D!Next]_dispatcherVars
<1> SUFFICES ASSUME IInv, Next PROVE D!Next \/ UNCHANGED dispatcherVars
  BY DEF vars
<1>1. ASSUME NEW s \in Schedules,
             \/ DispatchAdmitted(s) \/ DispatchInvoked(s)
             \/ DispatchCounted(s) \/ DispatchRefused(s)
      PROVE  D!Next
  <2>1. Firing(s) \in Firings
    BY <1>1, FiringNamed DEF DispatchAdmitted, DispatchInvoked, DispatchCounted, DispatchRefused, Goto
  <2>2. \/ D!Admit(Firing(s)) \/ D!RecordInvocation(Firing(s))
        \/ D!IncActive(Firing(s)) \/ D!Reject(Firing(s))
    BY <1>1 DEF DispatchAdmitted, DispatchInvoked, DispatchCounted, DispatchRefused
  <2> QED
    BY <2>1, <2>2 DEF D!Next, D!Submit, D!Advance
<1>2. ASSUME Engine PROVE D!Next
  BY <1>2 DEF Engine, D!Next, D!Advance
<1>3. ASSUME NEW s \in Schedules, StartTicker(s) \/ Tick(s) PROVE UNCHANGED dispatcherVars
  BY <1>3 DEF StartTicker, Tick
<1>4. ASSUME Clock PROVE UNCHANGED dispatcherVars
  BY <1>4 DEF Clock
<1> QED
  BY <1>1, <1>2, <1>3, <1>4 DEF Next, Loop

\* With its schedules the dispatcher is still the dispatcher that is checked
\* without them: a tick asks it for a permit as any other request does
\* (scheduler.rs:72-80).
THEOREM SchedulesAreRequests == Spec => D!Spec
<1>1. Init => D!Init
  BY DEF Init
<1>2. UNCHANGED dispatcherVars => UNCHANGED D!vars
  BY DEF D!vars, dispatcherVars
<1>3. IInv /\ [Next]_vars => [D!Next]_(D!vars)
  BY <1>2, DispatcherStep
<1> QED
  BY <1>1, <1>3, Invariance, PTL DEF Spec, D!Spec

\* What is proved of the dispatcher holds beside the schedules.
LEMMA DispatcherInvariance == Spec => []DP!IInv
<1>1. DP!DispatcherAssumption
  BY SchedulerAssumption DEF DP!DispatcherAssumption
<1>2. D!Init => DP!IInv
  <2>1. D!Init => DP!Init
    BY DEF D!Init, DP!Init
  <2> QED
    BY <1>1, <2>1, DP!InitIInv
<1>3. DP!IInv /\ [D!Next]_(D!vars) => DP!IInv'
  <2>1. D!Next => DP!Next
    <3>1. ASSUME NEW r PROVE D!Submit(r) \/ D!Disconnect(r) => DP!Submit(r) \/ DP!Disconnect(r)
      BY DEF D!Submit, D!Disconnect, D!Reject, D!Admit, D!Move, D!ThreadPhases,
             DP!Submit, DP!Disconnect, DP!Reject, DP!Admit, DP!Move, DP!ThreadPhases
    <3>2. ASSUME NEW r
          PROVE  /\ D!RecordInvocation(r) => DP!RecordInvocation(r)
                 /\ D!IncActive(r) => DP!IncActive(r)
                 /\ D!PollDetached(r) => DP!PollDetached(r)
                 /\ D!Start(r) => DP!Start(r)
      BY DEF D!RecordInvocation, D!IncActive, D!PollDetached, D!Start, D!Move,
             DP!RecordInvocation, DP!IncActive, DP!PollDetached, DP!Start, DP!Move
    <3>3. ASSUME NEW r
          PROVE  /\ D!Finish(r) => DP!Finish(r)
                 /\ D!Panic(r) => DP!Panic(r)
                 /\ D!RecordError(r) => DP!RecordError(r)
                 /\ D!DecActive(r) => DP!DecActive(r)
      BY DEF D!Finish, D!Panic, D!RecordError, D!DecActive, D!Move,
             DP!Finish, DP!Panic, DP!RecordError, DP!DecActive, DP!Move
    <3>4. ASSUME NEW r PROVE D!Leave(r) \/ D!Join(r) => DP!Leave(r) \/ DP!Join(r)
      BY DEF D!Leave, D!Join, D!Move, DP!Leave, DP!Join, DP!Move
    <3> QED
      BY <3>1, <3>2, <3>3, <3>4 DEF D!Next, D!Advance, DP!Next, DP!Advance
  <2>2. UNCHANGED D!vars => UNCHANGED DP!vars
    BY DEF D!vars, DP!vars
  <2> QED
    BY <1>1, <2>1, <2>2, DP!NextStep
<1> QED
  BY <1>2, <1>3, SchedulesAreRequests, PTL DEF D!Spec

\* The clock, the tickers and the dispatcher keep their types, and every deadline
\* is a whole number of intervals from its ticker's start (scheduler.rs:69-71).
THEOREM TypeCorrect == Spec => []TypeOK
<1>1. DP!IInv => D!TypeOK
  BY DEF DP!IInv, DP!TypeOK, D!TypeOK, DP!Phases, D!Phases, DP!Stats, D!Stats
<1>2. IInv /\ D!TypeOK => TypeOK
  <2> SUFFICES ASSUME IInv, D!TypeOK PROVE TypeOK
    OBVIOUS
  <2>1. ASSUME NEW s \in Schedules, at[s] \notin {"start", "dead"}
        PROVE  (deadline[s] - start[s]) % Interval(s) = 0
    <3>1. at[s] \in {"tick", "dispatch", "invoke", "count"}
      BY <2>1 DEF IInv, TasksOK
    <3> QED
      BY <3>1 DEF IInv, OnGrid
  <2> QED
    BY <2>1 DEF IInv, TasksOK, TypeOK
<1> QED
  BY <1>1, <1>2, Invariance, DispatcherInvariance, PTL
=============================================================================
