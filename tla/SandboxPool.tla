------------------------------ MODULE SandboxPool ------------------------------
(***************************************************************************)
(* The sandbox that a thread of the blocking pool keeps from one execution *)
(* to the next (dispatcher.rs acquire_sandbox and release_sandbox, with    *)
(* Sandbox::reset, Executor::set_jit and Executor::run_named).             *)
(*                                                                         *)
(* The cell is thread-local, so one thread and the sequence of requests it *)
(* serves are the whole story.  Of the executor's data the model keeps who *)
(* it comes from: a global slot is unset, or holds a value of the current  *)
(* execution ("own") or of an earlier one ("foreign"); a frame of the call *)
(* stack is likewise own or foreign.  Memory rolled back by CATCH was      *)
(* saved by a frame of the same execution, so it has the same owner.       *)
(***************************************************************************)
EXTENDS Integers, Sequences, Functions

CONSTANTS
  Programs,    \* the compiled programs the engine serves
  Funcs,       \* function indices; every program has all of them
  Slots,       \* global slot indices
  Compiled,    \* per program, the functions its JIT compiled
  Reserves,    \* per program, the slots its global_inits reserve
  DepthLimit,  \* MAX_CALL_DEPTH (512 in the code)
  NoJit        \* stands for the absence of a JIT

ASSUME PoolAssumption ==
  /\ Compiled \in [Programs -> SUBSET Funcs]
  /\ Reserves \in [Programs -> SUBSET Slots]
  /\ DepthLimit \in Nat \ {0}
  /\ NoJit \notin Programs

VARIABLES
  at,          \* how far the thread is with its request
  cached,      \* THREAD_SANDBOX holds a sandbox
  request,     \* the ExecRequest being served
  global_owners, \* owner of each global slot's value
  call_stack,  \* owner of each frame, the running one last
  jit,         \* the program whose JIT is attached to the executor, or NoJit
  served_by    \* history: the program whose machine code served the last call

poolVars == <<at, cached, request, global_owners, call_stack, jit, served_by>>

Stages == {"idle", "acquired", "ready", "running", "ended"}

\* Requests from HTTP routes carry the JIT of their program, if it has one;
\* schedules and queue loopers pass none (scheduler.rs:79, queue_looper.rs:84).
NoRequest == [program |-> NoJit, http |-> FALSE]
Requests == [program : Programs, http : BOOLEAN]
RequestJit(r) == IF r.http /\ Compiled[r.program] # {} THEN r.program ELSE NoJit

Init ==
  /\ at = "idle"
  /\ cached = FALSE
  /\ request = NoRequest
  /\ global_owners = [s \in Slots |-> "unset"]
  /\ call_stack = <<>>
  /\ jit = NoJit
  /\ served_by = NoJit

-----------------------------------------------------------------------------
\* What the globals left by an earlier execution are to the next one.
Inherited == [s \in Slots |-> IF global_owners[s] = "unset" THEN "unset" ELSE "foreign"]

\* Mutant of Acquire: the recycled sandbox is not reset.
AcquireWithoutReset(r) ==
  /\ at = "idle"
  /\ at' = "acquired"
  /\ request' = r
  /\ cached' = FALSE
  /\ global_owners' = IF cached THEN Inherited ELSE [s \in Slots |-> "unset"]
  /\ call_stack' = IF cached THEN [i \in DOMAIN call_stack |-> "foreign"] ELSE <<>>
  /\ jit' = IF cached THEN jit ELSE NoJit
  /\ served_by' = NoJit

\* acquire_sandbox: take the cached sandbox and reset it, which clears the call
\* stack, or build a new one.
Acquire(r) ==
  /\ at = "idle"
  /\ at' = "acquired"
  /\ request' = r
  /\ cached' = FALSE
  /\ global_owners' = IF cached THEN Inherited ELSE [s \in Slots |-> "unset"]
  /\ call_stack' = <<>>
  /\ jit' = IF cached THEN jit ELSE NoJit
  /\ served_by' = NoJit

\* Mutant of SetJit: a JIT is attached only to a sandbox without one.
SetJitOnce ==
  /\ at = "acquired"
  /\ at' = "ready"
  /\ jit' = IF jit = NoJit THEN RequestJit(request) ELSE jit
  /\ UNCHANGED <<cached, request, global_owners, call_stack, served_by>>

\* set_jit, when the request carries one.
SetJit ==
  /\ at = "acquired"
  /\ at' = "ready"
  /\ jit' = IF RequestJit(request) = NoJit THEN jit ELSE RequestJit(request)
  /\ UNCHANGED <<cached, request, global_owners, call_stack, served_by>>

\* Mutant of EnterRun: slots that hold a value are taken for initialised.
EnterKeepingGlobals ==
  /\ at = "ready"
  /\ global_owners' = [s \in Slots |-> IF s \in Reserves[request.program] /\ global_owners[s] = "unset"
                                 THEN "own" ELSE global_owners[s]]
  /\ \/ at' = "ended" /\ UNCHANGED call_stack
     \/ at' = "running" /\ call_stack' = Append(call_stack, "own")
  /\ UNCHANGED <<cached, request, jit, served_by>>

\* run_named up to its loop: the global inits, then the lookup of the function,
\* which may fail, then its frame.
EnterRun ==
  /\ at = "ready"
  /\ global_owners' = [s \in Slots |-> IF s \in Reserves[request.program] THEN "own" ELSE global_owners[s]]
  /\ \/ at' = "ended" /\ UNCHANGED call_stack
     \/ at' = "running" /\ call_stack' = Append(call_stack, "own")
  /\ UNCHANGED <<cached, request, jit, served_by>>

\* An instruction, or a syscall, writes or releases a global slot.
WriteGlobal(s, owner) ==
  /\ at = "running"
  /\ owner \in {"own", "unset"}
  /\ global_owners' = [global_owners EXCEPT ![s] = owner]
  /\ UNCHANGED <<at, cached, request, call_stack, jit, served_by>>

\* The frame at the top ends; so does the execution with the last one.
PopFrame ==
  /\ call_stack' = SubSeq(call_stack, 1, Len(call_stack) - 1)
  /\ at' = IF Len(call_stack) = 1 THEN "ended" ELSE at

\* jit_dispatch finds machine code for the index, and the arguments fit it.
JitServes(f) == jit # NoJit /\ f \in Compiled[jit]

\* CALL and TAIL_CALL served by the JIT.
CallJit(f) ==
  /\ at = "running"
  /\ JitServes(f)
  /\ served_by' = jit
  /\ \/ UNCHANGED <<at, call_stack>>
     \/ PopFrame
  /\ UNCHANGED <<cached, request, global_owners, jit>>

\* CALL interpreted, because no JIT serves it or the arguments do not fit: a new
\* frame, or StackOverflow, which no TRY guards.  (TAIL_CALL reuses the frame.)
CallFrame ==
  /\ at = "running"
  /\ IF Len(call_stack) >= DepthLimit
     THEN at' = "ended" /\ UNCHANGED call_stack
     ELSE UNCHANGED at /\ call_stack' = Append(call_stack, "own")
  /\ UNCHANGED <<cached, request, global_owners, jit, served_by>>

\* RET, or the end of the function.
ReturnFrame ==
  /\ at = "running"
  /\ PopFrame
  /\ UNCHANGED <<cached, request, global_owners, jit, served_by>>

\* HALT or an unhandled fault: run_named returns with its frames in place.
Abort ==
  /\ at = "running"
  /\ at' = "ended"
  /\ UNCHANGED <<cached, request, global_owners, call_stack, jit, served_by>>

\* release_sandbox.
Release ==
  /\ at = "ended"
  /\ at' = "idle"
  /\ cached' = TRUE
  /\ request' = NoRequest
  /\ UNCHANGED <<global_owners, call_stack, jit, served_by>>

\* acquire_sandbox, run_named or a mounted syscall panics: the sandbox is
\* dropped with the closure and the cell stays empty.
ClosurePanics ==
  /\ at \in {"acquired", "ready", "running"}
  /\ at' = "idle"
  /\ request' = NoRequest
  /\ UNCHANGED <<cached, global_owners, call_stack, jit, served_by>>

PoolNext ==
  \/ \E r \in Requests : Acquire(r)
  \/ SetJit
  \/ EnterRun
  \/ \E s \in Slots, owner \in {"own", "unset"} : WriteGlobal(s, owner)
  \/ \E f \in Funcs : CallJit(f)
  \/ CallFrame
  \/ ReturnFrame
  \/ Abort
  \/ Release
  \/ ClosurePanics

Spec == Init /\ [][PoolNext]_poolVars

-----------------------------------------------------------------------------
\* Type invariant of the thread's sandbox (dispatcher.rs THREAD_SANDBOX,
\* executor.rs Executor).
TypeOK ==
  /\ at \in Stages
  /\ cached \in BOOLEAN
  /\ request \in Requests \cup {NoRequest}
  /\ at # "idle" <=> request # NoRequest
  /\ global_owners \in [Slots -> {"unset", "own", "foreign"}]
  /\ call_stack \in Seq({"own", "foreign"})
  /\ jit \in Programs \cup {NoJit}
  /\ served_by \in Programs \cup {NoJit}

\* An execution never runs, or returns into, a frame that an earlier one left
\* behind by a fault, a HALT or a stack overflow, and it starts with the whole
\* of its depth budget (sandbox.rs:86-97).
OwnFramesOnly ==
  at = "running" =>
    /\ call_stack # <<>>
    /\ Range(call_stack) = {"own"}
    /\ Len(call_stack) <= DepthLimit

\* Whatever earlier executions left in the globals, a slot the program reserves
\* never shows a value of theirs (sandbox.rs:93-94, executor.rs:266-280).
ReservedSlotsFresh ==
  at = "running" => \A s \in Reserves[request.program] : global_owners[s] # "foreign"

\* A request that carries a JIT is only served by that one (dispatcher.rs:44-46).
HttpCallsOwnCode ==
  at \in {"running", "ended"} /\ RequestJit(request) # NoJit =>
    served_by \in {NoJit, request.program}

\* dispatcher.rs:44-46: the JIT cache is "for this program.  When set, eligible
\* function calls bypass the bytecode interpreter": no call of a program is
\* served by machine code of another one.
CallsOwnCode ==
  at = "running" => served_by \in {NoJit, request.program}
=============================================================================
