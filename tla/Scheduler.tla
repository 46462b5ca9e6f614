------------------------------- MODULE Scheduler -------------------------------
(***************************************************************************)
(* The [[schedules]] tasks (fasm-engine/src/scheduler.rs) composed with    *)
(* Dispatcher: each task waits for a tick of its tokio interval and makes  *)
(* one fire-and-forget request of it.  A task may be late: nothing says    *)
(* when tokio polls it.                                                    *)
(*                                                                         *)
(* The misfire policy chooses a log line and nothing else, so it is not    *)
(* part of the model.  A schedule whose source cannot be read or compiled  *)
(* never becomes a task.                                                   *)
(***************************************************************************)
EXTENDS Integers, Sequences, FiniteSets

CONSTANTS
  Schedules,
  Cron,           \* the fields sec and min of each: <<N>> if it reads */N, else <<>>
  HttpRequests, Diverging, MaxConcurrent,   \* of Dispatcher
  Step,           \* the seconds by which the clock advances
  MaxTime         \* bound on the clock

VARIABLES
  phase, permits, stats, panicked, abandoned,
  now,         \* the clock, in seconds
  at,          \* where each task is
  start,       \* when each task made its interval
  deadline,    \* when its next tick is due
  ticks        \* history: when its ticks came

dispatcherVars == <<phase, permits, stats, panicked, abandoned>>
vars == <<dispatcherVars, now, at, start, deadline, ticks>>

\* parse_cron_interval; anything it does not know is a minute.
Interval(s) ==
  CASE Cron[s].min # <<>> -> 60 * Cron[s].min[1]
    [] Cron[s].min = <<>> /\ Cron[s].sec # <<>> -> Cron[s].sec[1]
    [] OTHER -> 60

\* The request of a schedule's n-th tick: no two ticks come at one instant.
Firings == Schedules \X (1..(MaxTime \div Step + 1))

ASSUME SchedulerAssumption ==
  /\ Cron \in [Schedules -> [sec : Seq(Nat), min : Seq(Nat)]]
  /\ \A s \in Schedules : Len(Cron[s].sec) <= 1 /\ Len(Cron[s].min) <= 1
  /\ Step \in Nat \ {0}
  /\ MaxTime \in Nat
  /\ MaxConcurrent \in Nat
  /\ Diverging \subseteq HttpRequests \cup Firings

D == INSTANCE Dispatcher WITH Requests <- HttpRequests \cup Firings, Http <- HttpRequests

Init ==
  /\ D!Init
  /\ now = 0
  /\ at = [s \in Schedules |-> "start"]
  /\ start = [s \in Schedules |-> 0]
  /\ deadline = [s \in Schedules |-> 0]
  /\ ticks = [s \in Schedules |-> <<>>]

Goto(s, from, to) ==
  /\ at[s] = from
  /\ at' = [at EXCEPT ![s] = to]

Firing(s) == <<s, Len(ticks[s])>>

-----------------------------------------------------------------------------
\* tokio::time::interval panics on an interval of 0, which ends the task and
\* nothing else; otherwise the first tick is due at once.
StartTicker(s) ==
  /\ Goto(s, "start", IF Interval(s) = 0 THEN "dead" ELSE "tick")
  /\ start' = [start EXCEPT ![s] = now]
  /\ deadline' = [deadline EXCEPT ![s] = now]
  /\ UNCHANGED <<dispatcherVars, now, ticks>>

\* Mutant of NextDeadline: tokio's default, MissedTickBehavior::Burst.
NextDeadlineBurst(s) == deadline[s] + Interval(s)

\* MissedTickBehavior::Skip: the next multiple of the interval, from its start,
\* that is not over.
NextDeadline(s) == now + Interval(s) - ((now - deadline[s]) % Interval(s))

\* ticker.tick() returns.
Tick(s) ==
  /\ now >= deadline[s]
  /\ Goto(s, "tick", "dispatch")
  /\ ticks' = [ticks EXCEPT ![s] = Append(@, now)]
  /\ deadline' = [deadline EXCEPT ![s] = NextDeadline(s)]
  /\ UNCHANGED <<dispatcherVars, now, start>>

\* spawn_fire_and_forget: with a permit left the request is admitted, whatever
\* became of the earlier ticks' requests,
DispatchAdmitted(s) ==
  /\ Goto(s, "dispatch", "invoke")
  /\ D!Admit(Firing(s))
  /\ UNCHANGED <<now, start, deadline, ticks>>

\* counted as an invocation,
DispatchInvoked(s) ==
  /\ Goto(s, "invoke", "count")
  /\ D!RecordInvocation(Firing(s))
  /\ UNCHANGED <<now, start, deadline, ticks>>

\* then in the gauge, and spawned;
DispatchCounted(s) ==
  /\ Goto(s, "count", "tick")
  /\ D!IncActive(Firing(s))
  /\ UNCHANGED <<now, start, deadline, ticks>>

\* Mutant of DispatchRefused: the request is tried until there is a permit.
DispatchRetried(s) ==
  /\ Goto(s, "dispatch", "dispatch")
  /\ permits = 0
  /\ UNCHANGED <<dispatcherVars, now, start, deadline, ticks>>

\* otherwise the tick is given up.
DispatchRefused(s) ==
  /\ Goto(s, "dispatch", "tick")
  /\ D!Reject(Firing(s))
  /\ UNCHANGED <<now, start, deadline, ticks>>

Loop(s) ==
  \/ StartTicker(s) \/ Tick(s)
  \/ DispatchAdmitted(s) \/ DispatchInvoked(s) \/ DispatchCounted(s) \/ DispatchRefused(s)

\* Time passes.
Clock ==
  /\ now + Step <= MaxTime
  /\ now' = now + Step
  /\ UNCHANGED <<dispatcherVars, at, start, deadline, ticks>>

\* What the dispatcher does without a schedule.
Engine ==
  /\ \/ \E r \in HttpRequests :
          D!Submit(r) \/ D!RecordInvocation(r) \/ D!IncActive(r) \/ D!Disconnect(r)
     \/ \E r \in HttpRequests \cup Firings :
          \/ D!PollDetached(r) \/ D!Start(r) \/ D!Finish(r) \/ D!Panic(r)
          \/ D!RecordError(r) \/ D!DecActive(r) \/ D!Leave(r) \/ D!Join(r)
  /\ UNCHANGED <<now, at, start, deadline, ticks>>

Next ==
  \/ \E s \in Schedules : Loop(s)
  \/ Clock
  \/ Engine

Spec == Init /\ [][Next]_vars

\* tokio polls each task, and time passes; executions may hold their permits
\* for ever.
FairSpec == Spec /\ (\A s \in Schedules : WF_vars(Loop(s))) /\ WF_vars(Clock)

-----------------------------------------------------------------------------
\* Type invariant of the tasks; ticks are due at multiples of the interval from
\* the start, however late the earlier ones were.
TypeOK ==
  /\ D!TypeOK
  /\ now \in 0..MaxTime
  /\ at \in [Schedules -> {"start", "tick", "dispatch", "invoke", "count", "dead"}]
  /\ start \in [Schedules -> 0..MaxTime]
  /\ deadline \in [Schedules -> Nat]
  /\ \A s \in Schedules :
       at[s] \notin {"start", "dead"} => (deadline[s] - start[s]) % Interval(s) = 0
  /\ ticks \in [Schedules -> Seq(0..MaxTime)]

\* A task that was held up does not make up for the ticks it missed: each
\* interval since its start has one tick at most, and a task may run late only
\* by the interval it is in (scheduler.rs:70).
OneTickPerInterval ==
  \A s \in Schedules : \A i, j \in 1..Len(ticks[s]) :
    i < j => (ticks[s][i] - start[s]) \div Interval(s) < (ticks[s][j] - start[s]) \div Interval(s)

\* The interval the clock is in has had its tick; the ticker owes one.
TickedNow(s) ==
  \E i \in 1..Len(ticks[s]) :
    (ticks[s][i] - start[s]) \div Interval(s) = (now - start[s]) \div Interval(s)
TickDue(s) == at[s] \notin {"start", "dead"} /\ deadline[s] <= now

\* A schedule is never silent: at every moment the interval the clock is in has
\* had its tick, or the tick is due and tokio has only to poll the task.  So an
\* interval goes by without a tick only if its tick was due all through it.
IntervalsServed ==
  \A s \in Schedules :
    Interval(s) # 0 /\ at[s] # "start" => TickedNow(s) \/ TickDue(s)

\* That, although requests are refused or never return; and a tick that is due
\* comes (scheduler.rs:69-80).
KeepsFiring ==
  /\ []IntervalsServed
  /\ \A s \in Schedules : TickDue(s) ~> TickedNow(s)
=============================================================================
