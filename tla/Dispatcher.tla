------------------------------ MODULE Dispatcher ------------------------------
(***************************************************************************)
(* TaskDispatcher (fasm-engine/src/dispatcher.rs): every execution of the  *)
(* engine takes a permit of one semaphore, is counted in the metrics, runs *)
(* on a thread of tokio's blocking pool, and gives the permit back.        *)
(*                                                                         *)
(* A request of the HTTP path (spawn_async) moves its permit into the      *)
(* blocking closure; its handler awaits the closure and is dropped when    *)
(* the client goes away.  A request of the fire-and-forget path (schedules *)
(* and queues) leaves its permit with a detached task that awaits the      *)
(* closure.  run_named may fail, panic, or never return.                   *)
(***************************************************************************)
EXTENDS Integers, FiniteSets

CONSTANTS
  Requests,       \* the requests that may ever be made
  Http,           \* those made through spawn_async; the rest are fire-and-forget
  Diverging,      \* those whose program never returns
  MaxConcurrent   \* max_concurrent of the engine's configuration

ASSUME DispatcherAssumption ==
  /\ Http \subseteq Requests
  /\ Diverging \subseteq Requests
  /\ MaxConcurrent \in Nat

VARIABLES
  phase,       \* how far each request is
  permits,     \* permits left in the semaphore
  stats,       \* MetricsRegistry: totals over functions and triggers
  panicked,    \* history: requests whose closure panicked
  abandoned    \* HTTP requests whose client left before the answer

vars == <<phase, permits, stats, panicked, abandoned>>

(***************************************************************************)
(* new       not submitted yet                                             *)
(* rejected  refused as Overloaded                                         *)
(* admitted  permit taken, nothing of it in the metrics yet                *)
(* invoked   record_invocation is done, inc_active is not                  *)
(* spawned   fire-and-forget: the detached task is not polled yet          *)
(* queued    handed to spawn_blocking, waiting for a thread                *)
(* running   on a thread: acquire_sandbox and run_named                    *)
(* faulted   run_named has failed: its duration is recorded, the error not *)
(* recorded  all is recorded but dec_active                                *)
(* leaving   the metrics are done with                                     *)
(* joined    fire-and-forget: the closure is over, the permit still held   *)
(* done      over, with its permit given back                              *)
(***************************************************************************)
Phases == {"new", "rejected", "admitted", "invoked", "spawned", "queued", "running",
           "faulted", "recorded", "leaving", "joined", "done"}

At(ps) == {r \in Requests : phase[r] \in ps}

\* The phases of a request that holds a permit, and of one that inc_active has
\* counted and dec_active has not.
HoldingPhases == {"admitted", "invoked", "spawned", "queued", "running",
                  "faulted", "recorded", "leaving", "joined"}
CountedPhases == {"spawned", "queued", "running", "faulted", "recorded"}
ThreadPhases == {"running", "faulted", "recorded", "leaving"}

Holding == At(HoldingPhases)
Counted == At(CountedPhases)
OnThread == At(ThreadPhases)
\* Those between record_invocation and inc_active, and those between
\* record_duration_ms and dec_active.
Invoked == At({"invoked"})
Timed == At({"faulted", "recorded"})
Ended == At({"rejected", "done"})

Stats == [active : Nat, invocations : Nat, dropped : Nat, durations : Nat, errors : Nat]

Init ==
  /\ phase = [r \in Requests |-> "new"]
  /\ permits = MaxConcurrent
  /\ stats = [active |-> 0, invocations |-> 0, dropped |-> 0, durations |-> 0, errors |-> 0]
  /\ panicked = {}
  /\ abandoned = {}

Move(r, from, to) ==
  /\ phase[r] = from
  /\ phase' = [phase EXCEPT ![r] = to]

-----------------------------------------------------------------------------
\* try_acquire_owned fails: record_dropped, and the caller gets Overloaded.
Reject(r) ==
  /\ permits = 0
  /\ Move(r, "new", "rejected")
  /\ stats' = [stats EXCEPT !.dropped = @ + 1]
  /\ UNCHANGED <<permits, panicked, abandoned>>

\* Mutant of Admit: the semaphore is consulted but no permit is taken.
AdmitWithoutPermit(r) ==
  /\ permits > 0
  /\ Move(r, "new", "admitted")
  /\ UNCHANGED <<permits, stats, panicked, abandoned>>

\* try_acquire_owned succeeds.
Admit(r) ==
  /\ permits > 0
  /\ permits' = permits - 1
  /\ Move(r, "new", "admitted")
  /\ UNCHANGED <<stats, panicked, abandoned>>

\* record_invocation.  Each counter has the metrics' mutex for itself, so others
\* may read and count between this and inc_active.
RecordInvocation(r) ==
  /\ Move(r, "admitted", "invoked")
  /\ stats' = [stats EXCEPT !.invocations = @ + 1]
  /\ UNCHANGED <<permits, panicked, abandoned>>

\* inc_active, then spawn_blocking (HTTP) or spawn of the detached task.
IncActive(r) ==
  /\ Move(r, "invoked", IF r \in Http THEN "queued" ELSE "spawned")
  /\ stats' = [stats EXCEPT !.active = @ + 1]
  /\ UNCHANGED <<permits, panicked, abandoned>>

\* The detached task is polled and hands the closure to spawn_blocking.
PollDetached(r) ==
  /\ Move(r, "spawned", "queued")
  /\ UNCHANGED <<permits, stats, panicked, abandoned>>

\* Mutant of Start: a closure whose client has left is skipped in the pool.
StartIfAwaited(r) ==
  /\ r \notin abandoned
  /\ Move(r, "queued", "running")
  /\ UNCHANGED <<permits, stats, panicked, abandoned>>

\* A thread of the blocking pool takes the closure.
Start(r) ==
  /\ Move(r, "queued", "running")
  /\ UNCHANGED <<permits, stats, panicked, abandoned>>

\* Mutant of Finish: the duration of a fault is not recorded.
FinishOmitsDurationOnFault(r) ==
  /\ \E to \in {"faulted", "recorded"} :
       /\ Move(r, "running", to)
       /\ stats' = [stats EXCEPT !.durations = IF to = "faulted" THEN @ ELSE @ + 1]
  /\ UNCHANGED <<permits, panicked, abandoned>>

\* run_named returns, with a fault or a value: record_duration_ms.
Finish(r) ==
  /\ \E to \in {"faulted", "recorded"} : Move(r, "running", to)
  /\ stats' = [stats EXCEPT !.durations = @ + 1]
  /\ UNCHANGED <<permits, panicked, abandoned>>

\* Mutant of RecordError: the early return of a fault skips dec_active.
RecordErrorReturns(r) ==
  /\ Move(r, "faulted", "leaving")
  /\ stats' = [stats EXCEPT !.errors = @ + 1]
  /\ UNCHANGED <<permits, panicked, abandoned>>

\* record_error, of a fault.
RecordError(r) ==
  /\ Move(r, "faulted", "recorded")
  /\ stats' = [stats EXCEPT !.errors = @ + 1]
  /\ UNCHANGED <<permits, panicked, abandoned>>

\* dec_active, which saturates at 0.
DecActive(r) ==
  /\ Move(r, "recorded", "leaving")
  /\ stats' = [stats EXCEPT !.active = IF @ = 0 THEN 0 ELSE @ - 1]
  /\ UNCHANGED <<permits, panicked, abandoned>>

\* Mutant of Panic: the permit of an unwinding closure is leaked.
PanicLeaksPermit(r) ==
  /\ Move(r, "running", IF r \in Http THEN "done" ELSE "joined")
  /\ panicked' = panicked \cup {r}
  /\ UNCHANGED <<permits, stats, abandoned>>

\* acquire_sandbox or run_named panics: everything up to the end of the closure
\* is skipped.  Unwinding drops the permit the HTTP closure owns.
Panic(r) ==
  /\ Move(r, "running", IF r \in Http THEN "done" ELSE "joined")
  /\ permits' = IF r \in Http THEN permits + 1 ELSE permits
  /\ panicked' = panicked \cup {r}
  /\ UNCHANGED <<stats, abandoned>>

\* release_sandbox, then the closure ends and drops what it owns: on the HTTP
\* path the permit.
Leave(r) ==
  /\ Move(r, "leaving", IF r \in Http THEN "done" ELSE "joined")
  /\ permits' = IF r \in Http THEN permits + 1 ELSE permits
  /\ UNCHANGED <<stats, panicked, abandoned>>

\* The detached task resumes, logs a JoinError, and drops its permit.
Join(r) ==
  /\ Move(r, "joined", "done")
  /\ permits' = permits + 1
  /\ UNCHANGED <<stats, panicked, abandoned>>

\* Mutant of Disconnect: the handler's future, not the closure, owns the permit.
DisconnectDropsPermit(r) ==
  /\ r \in Http \ abandoned
  /\ phase[r] \in {"queued"} \cup ThreadPhases
  /\ abandoned' = abandoned \cup {r}
  /\ permits' = permits + 1
  /\ UNCHANGED <<phase, stats, panicked>>

\* The client of an HTTP request goes away while its handler awaits the
\* closure: the handler's future is dropped, the closure is not.
Disconnect(r) ==
  /\ r \in Http \ abandoned
  /\ phase[r] \in {"queued"} \cup ThreadPhases
  /\ abandoned' = abandoned \cup {r}
  /\ UNCHANGED <<phase, permits, stats, panicked>>

Submit(r) == Reject(r) \/ Admit(r)
Advance(r) ==
  \/ RecordInvocation(r) \/ IncActive(r) \/ PollDetached(r) \/ Start(r)
  \/ Finish(r) \/ Panic(r) \/ RecordError(r) \/ DecActive(r)
  \/ Leave(r) \/ Join(r)

Next == \E r \in Requests : Submit(r) \/ Advance(r) \/ Disconnect(r)

Spec == Init /\ [][Next]_vars

\* tokio polls every runnable task and the blocking pool has a thread for every
\* admitted request (its limit of 512 is above max_concurrent); a program that
\* does not diverge returns or panics.  Nobody owes a request or a disconnect.
Fairness ==
  \A r \in Requests :
    /\ WF_vars(\/ RecordInvocation(r) \/ IncActive(r) \/ PollDetached(r) \/ Start(r)
               \/ RecordError(r) \/ DecActive(r) \/ Leave(r) \/ Join(r))
    /\ r \notin Diverging => WF_vars(Finish(r) \/ Panic(r))

FairSpec == Spec /\ Fairness

-----------------------------------------------------------------------------
\* Type invariant of the dispatcher (dispatcher.rs TaskDispatcher and the
\* counters of metrics.rs).
TypeOK ==
  /\ phase \in [Requests -> Phases]
  /\ permits \in 0..MaxConcurrent
  /\ stats \in Stats
  /\ panicked \subseteq Requests
  /\ abandoned \subseteq Http

\* A permit is neither leaked nor given back twice on any path: success, fault,
\* panic, client gone, or detached task (dispatcher.rs:112-126, 165-202).
PermitsAccounted ==
  /\ IsFiniteSet(Holding)
  /\ permits + Cardinality(Holding) = MaxConcurrent

\* At most max_concurrent programs are on threads, also while clients leave and
\* others take their place (dispatcher.rs:4, README of the engine "bounded
\* concurrency").
BoundedConcurrency == Cardinality(OnThread) <= MaxConcurrent

\* The active gauge counts the executions between inc_active and dec_active and
\* is off by exactly the closures that panicked; in particular the saturation
\* of dec_active never hides a missing increment (metrics.rs:66-73).
GaugeExplained ==
  /\ IsFiniteSet(Counted)
  /\ IsFiniteSet(panicked)
  /\ stats.active = Cardinality(Counted) + Cardinality(panicked)

\* What a snapshot may show, whatever others are between two of their counters:
\* no more errors than durations and no more durations than invocations; and the
\* invocations without a duration are those in the gauge, but for the requests
\* that are just then between two counters, on their way in or out
\* (dispatcher.rs:121-122, 140-144, 172-173, 189-193).
CountersAgree ==
  /\ stats.errors <= stats.durations
  /\ stats.durations <= stats.invocations
  /\ IsFiniteSet(Invoked) /\ IsFiniteSet(Timed)
  /\ stats.invocations + Cardinality(Timed)
       = stats.durations + stats.active + Cardinality(Invoked)

\* A request is refused only when max_concurrent others hold their permits.
RefusedOnlyWhenFull ==
  [][\A r \in Requests :
       phase[r] = "new" /\ phase'[r] = "rejected" => Cardinality(Holding) = MaxConcurrent]_vars

\* Every admitted request whose program returns or panics gives its permit back,
\* even if all the others never return and its client has left.
PermitReturns ==
  \A r \in Requests \ Diverging : r \in Holding ~> phase[r] = "done"
=============================================================================
