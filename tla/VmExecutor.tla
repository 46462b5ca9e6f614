------------------------------ MODULE VmExecutor ------------------------------
(***************************************************************************)
(* The virtual machine (fasm-vm/src/executor.rs: run_named and the control *)
(* instructions): the call stack, the TRY guards, faults and their         *)
(* recovery, calls, tail calls and syscalls.  One invocation of one        *)
(* program, of which native is the set of functions a JIT has compiled     *)
(* (empty when none is attached).  A call frame holds                      *)
(*   fn, ip    the function (from 0) and the next instruction (from 0)     *)
(*   slots, tmps, args, ret    the frame's memory                          *)
(*   guard     <<>>, or <<[catch, end, slots, globals]>>: where the last   *)
(*             TRY sends a fault, and what it found in memory              *)
(***************************************************************************)
EXTENDS JitCompiler

CONSTANTS MaxDepth,   \* MAX_CALL_DEPTH
          Input       \* the bytes of the line READ gets from the standard input

ASSUME MaxDepthAssumption == MaxDepth \in Nat \ {0}

VARIABLES program, stack, globals, outcome
vars == <<program, stack, globals, outcome>>

Running == outcome.t = "RUNNING"
Done(v) == [t |-> "DONE", v |-> v]
Error(f) == [t |-> "ERROR", f |-> f]

NewFrame(f, args) == [fn |-> f, ip |-> 0, slots |-> NoFunction, tmps |-> <<>>, args |-> args,
                      ret |-> Null, guard |-> <<>>]

IndexOf(p, name)   == (CHOOSE j \in DOMAIN p.funcs : p.funcs[j].name = name) - 1
CodeOf(p, fr)      == p.funcs[fr.fn + 1].code

\* The RESERVE instructions at the top level of a program.
InitialGlobals(p) ==
    FoldLeft(LAMBDA g, ins : Put(g, ins.a[1].i, InitialValue(ins.a[2].ty, ins.a[3])),
             NoFunction, p.globals)

\* run_named up to its loop, in a fresh executor, with p and $args.
Start(p, entry, args) ==
    /\ program = p
    /\ globals = InitialGlobals(p)
    /\ stack = <<NewFrame(IndexOf(p, entry), args)>>
    /\ outcome = [t |-> "RUNNING"]

Top     == Last(stack)
AtEnd   == Top.ip >= Len(CodeOf(program, Top))
Current == CodeOf(program, Top)[Top.ip + 1]
\* The machine the current instruction runs on: ip already points past it.
Machine == [fr |-> [Top EXCEPT !.ip = @ + 1], g |-> globals, fault |-> "none"]

Executing(ops) == Running /\ ~AtEnd /\ Current.op \in ops

-------------------------------------------------------------------------------
(* How a step ends.                                                          *)
Continue(m) ==
    /\ stack' = Append(Front(stack), m.fr)
    /\ globals' = m.g
    /\ UNCHANGED <<program, outcome>>

\* Mutant of Recovered: the slots stay as the faulting block left them.
RecoveredInPlace(m) ==
    LET g == m.fr.guard[1]
    IN  [m EXCEPT !.fr.guard = <<>>, !.g = g.globals,
                  !.fr.ret = Num("UINT32", FaultCode[m.fault]), !.fr.ip = g.catch,
                  !.fault = "none"]

\* The fault of machine m: the guard of the top frame, if it has one, restores
\* slots and globals and sends control to the handler; otherwise the whole
\* invocation fails, whatever the callers guard.
Recovered(m) ==
    LET g == m.fr.guard[1]
    IN  [m EXCEPT !.fr.guard = <<>>, !.fr.slots = g.slots, !.g = g.globals,
                  !.fr.ret = Num("UINT32", FaultCode[m.fault]), !.fr.ip = g.catch,
                  !.fault = "none"]

Unhandled(m) ==
    /\ outcome' = Error(m.fault)
    /\ stack' = Append(Front(stack), m.fr)
    /\ globals' = m.g
    /\ UNCHANGED program

Settle(m) ==
    IF ~Failed(m) THEN Continue(m)
    ELSE IF m.fault # "Panic" /\ m.fr.guard # <<>> THEN Continue(Recovered(m))
    ELSE Unhandled(m)

\* Leave the top frame with value v: into the caller's $ret, or out of the VM.
Leave(v) ==
    /\ IF Len(stack) = 1
       THEN stack' = <<>> /\ outcome' = Done(v)
       ELSE stack' = [Front(stack) EXCEPT ![Len(stack) - 1].ret = v] /\ UNCHANGED outcome
    /\ UNCHANGED <<program, globals>>

-------------------------------------------------------------------------------
(* The actions.                                                              *)
\* Running off the end of a function returns its $ret.
EndOfFunction == Running /\ AtEnd /\ Leave(Top.ret)

DataInstruction == Executing(DataOps) /\ Settle(DataStep(Machine, Current))

JumpOps == {"JMP", "JZ", "JNZ"}

JumpTo(ip) == [Machine EXCEPT !.fr.ip = ip]

Jump ==
    /\ Executing(JumpOps)
    /\ LET op   == Current.op
           cond == IF op = "JMP" THEN Null ELSE ReadOperand(Machine, Current.a[1])
           to   == Last(Current.a).i
       IN  CASE IsFault(cond) -> Settle(Fail(Machine, cond))
             [] ~IsFault(cond) /\ (\/ op = "JMP"
                                   \/ op = "JZ"  /\ ~IsTruthy(cond)
                                   \/ op = "JNZ" /\ IsTruthy(cond)) -> Settle(JumpTo(to))
             [] OTHER -> Settle(Machine)

\* What the JIT answers for the call of function f.
Native(f, args) == Dispatch(program.native, program, f, args)

Crash == outcome' = [t |-> "CRASH"] /\ stack' = <<>> /\ UNCHANGED <<program, globals>>

\* A call of function f with $args: the JIT first; then a frame of its own.  A
\* stack that is full ends the invocation without a fault.
Enter(f, args) ==
    LET v == Native(f, args)
    IN  CASE v = Trapped -> Crash
          [] v \notin {Trapped, NoDispatch} -> Continue([Machine EXCEPT !.fr.ret = v])
          [] v = NoDispatch ->
               IF Len(stack) >= MaxDepth
               THEN Unhandled([Machine EXCEPT !.fault = "StackOverflow"])
               ELSE /\ stack' = Append(Append(Front(stack), Machine.fr), NewFrame(f, args))
                    /\ UNCHANGED <<program, globals, outcome>>

\* CALL and ASYNC_CALL both run the function to its end.
Call ==
    /\ Executing({"CALL", "ASYNC_CALL"})
    /\ LET f    == Current.a[1].i
           args == ReadOperand(Machine, Current.a[2])
       IN  CASE f >= Len(program.funcs) -> Settle(Fail(Machine, Undeclared))
             [] f < Len(program.funcs) /\ IsFault(args) -> Settle(Fail(Machine, args))
             [] f < Len(program.funcs) /\ ~IsFault(args) -> Enter(f, args)

\* Natively, the caller's frame is left with the result; interpreted, the frame
\* is reused: slots and $ret are new, TMP frames and guard are kept.
Replace(f, args) ==
    LET v == Native(f, args)
    IN  CASE v = Trapped -> Crash
          [] v \notin {Trapped, NoDispatch} -> Leave(v)
          [] v = NoDispatch ->
               Continue([Machine EXCEPT !.fr = [NewFrame(f, args) EXCEPT
                             !.tmps = Top.tmps, !.guard = Top.guard]])

TailCall ==
    /\ Executing({"TAIL_CALL"})
    /\ LET f    == Current.a[1].i
           args == ReadOperand(Machine, Current.a[2])
       IN  CASE f >= Len(program.funcs) -> Settle(Fail(Machine, Undeclared))
             [] f < Len(program.funcs) /\ IsFault(args) -> Settle(Fail(Machine, args))
             [] f < Len(program.funcs) /\ ~IsFault(args) -> Replace(f, args)

Return ==
    /\ Executing({"RET"})
    /\ LET v == IF Current.a = <<>> THEN Null ELSE ReadOperand(Machine, Current.a[1])
       IN  IF IsFault(v) THEN Settle(Fail(Machine, v)) ELSE Leave(v)

Halt ==
    /\ Executing({"HALT"})
    /\ outcome' = Done(Null)
    /\ UNCHANGED <<program, stack, globals>>

Try ==
    /\ Executing({"TRY"})
    /\ Continue([Machine EXCEPT !.fr.guard =
                    <<[catch |-> Current.a[1].i, end |-> Current.a[2].i,
                       slots |-> Top.slots, globals |-> globals]>>])

\* Mutant of Catch: leaving the block normally does not disarm the guard.
CatchStillArmed ==
    /\ Executing({"CATCH"})
    /\ Continue([Machine EXCEPT !.fr.ip = IF Top.guard = <<>> THEN @
                                          ELSE Top.guard[1].end + 1])

\* Reached without a fault, CATCH jumps to the end of its block; reached with
\* the guard taken, it falls into the handler.
Catch ==
    /\ Executing({"CATCH"})
    /\ Continue([Machine EXCEPT !.fr.guard = <<>>,
                                !.fr.ip = IF Top.guard = <<>> THEN @ ELSE Top.guard[1].end])

EndTry == Executing({"ENDTRY"}) /\ Continue([Machine EXCEPT !.fr.guard = <<>>])

-------------------------------------------------------------------------------
(* The built-in syscalls: PRINT, PRINT_VEC, READ, EXIT and PARSE_INT.        *)
FieldOf(args, k) ==
    IF args.t = "STRUCT" /\ k \in KeysOf(args.e) THEN args.e[PlaceOf(args.e, k)][2] ELSE Null

Whitespace == {9, 10, 11, 12, 13, 32}
Trimmed(s) ==
    LET ink == {i \in DOMAIN s : s[i] \notin Whitespace}
    IN  IF ink = {} THEN <<>> ELSE SubSeq(s, Min(ink), Max(ink))
TrimmedEnd(s) ==
    LET ink == {i \in DOMAIN s : s[i] \notin Whitespace}
    IN  SubSeq(s, 1, IF ink = {} THEN 0 ELSE Max(ink))

IsText(v) == v.t = "VEC" /\ \A i \in DOMAIN v.s : v.s[i].t = "UINT8"

\* An optional minus and at least one digit, accumulated in 64 bits and cut to
\* 32: a long literal is some other number, not an error.
ParsedInt(args) ==
    LET v      == FieldOf(args, 0)
        text   == IF IsText(v) THEN Trimmed([i \in DOMAIN v.s |-> v.s[i].n]) ELSE <<>>
        minus  == text # <<>> /\ text[1] = 45
        digits == IF minus THEN Tail(text) ELSE text
        number == FoldLeft(LAMBDA n, d : Wrap("INT64", n * 10 + d - 48), 0, digits)
        signed == IF minus THEN -number ELSE number
    IN  IF digits # <<>> /\ \A i \in DOMAIN digits : digits[i] \in 48 .. 57
        THEN WrapperMade("OK", Num("INT32", Wrap("INT32", Wrap("INT64", signed))))
        ELSE WrapperMade("ERR", Num("UINT32", 1))

SyscallResult(id, args) ==
    CASE id \in {0, 1} -> Null
      [] id = 2 -> ImmToValue([t |-> "STR", s |-> TrimmedEnd(Input)])
      [] id = 4 -> ParsedInt(args)
      [] OTHER  -> Fault("BadSyscall")

Syscall ==
    /\ Executing({"SYSCALL", "ASYNC_SYSCALL"})
    /\ LET id   == Current.a[1].i
           args == ReadOperand(Machine, Current.a[2])
           v    == SyscallResult(id, args)
       IN  CASE IsFault(args) -> Settle(Fail(Machine, args))
             [] ~IsFault(args) /\ id = 3 ->
                  \* process::exit: nothing of the VM is left
                  /\ outcome' = [t |-> "EXIT", code |-> LET c == FieldOf(args, 0)
                                                       IN  IF c.t = "INT32" THEN c.n ELSE 0]
                  /\ stack' = <<>>
                  /\ UNCHANGED <<program, globals>>
             [] ~IsFault(args) /\ id # 3 /\ IsFault(v) -> Settle(Fail(Machine, v))
             [] ~IsFault(args) /\ id # 3 /\ ~IsFault(v) ->
                  Continue([Machine EXCEPT !.fr.ret =
                      IF Current.op = "SYSCALL" THEN v ELSE [t |-> "FUTURE", o |-> <<v>>]])

Next ==
    \/ EndOfFunction \/ DataInstruction \/ Jump \/ Call \/ TailCall \/ Return \/ Halt
    \/ Try \/ Catch \/ EndTry \/ Syscall

\* One invocation of function entry of program p with $args.
Invocation(p, entry, args) == Start(p, entry, args) /\ [][Next]_vars

-------------------------------------------------------------------------------
(* Frames, guards and the blocks of the code.                                *)
\* How many TMP blocks the first ip instructions leave open.
OpenTmps(code, ip) ==
    LET seen(op) == Cardinality({i \in 1 .. ip : code[i].op = op})
    IN  seen("TMP_BLOCK") - seen("END_TMP")

\* A fault does not close the TMP blocks its TRY block opened: a function that
\* uses both may have more TMP frames than blocks.
TmpsCountable(code) == Lines(code, {"TRY"}) = {} \/ Lines(code, {"TMP_BLOCK"}) = {}

\* A guard that is armed belongs to the TRY block its frame is executing: no
\* path through run_named (a fault, CATCH, ENDTRY, a call that returns) leaves a
\* block with its guard, or runs a handler with the block's own guard armed.
GuardCoversItsBlock ==
    \A k \in DOMAIN stack : stack[k].guard # <<>> =>
        LET code == CodeOf(program, stack[k])
            g    == stack[k].guard[1]
        IN  \E i \in Lines(code, {"TRY"}) :
                /\ code[i].a[1].i = g.catch /\ code[i].a[2].i = g.end
                /\ stack[k].ip \in i .. g.catch
                /\ code[g.catch + 1].op = "CATCH" /\ code[g.end + 1].op = "ENDTRY"

\* TRY bounds transcend tail calls (executor.rs:354): a guard leads to a handler of
\* the function that its frame executes, also when a tail call brought it there.
GuardsLeadToHandlers ==
    \A k \in DOMAIN stack : stack[k].guard # <<>> =>
        LET code == CodeOf(program, stack[k])
            at   == stack[k].guard[1].catch + 1
        IN  at \in DOMAIN code /\ code[at].op = "CATCH"

\* A frame has as many TMP frames as there are TMP blocks open where it stands:
\* what the validator's ban on jumps inside TMP blocks is for.
TmpFramesMatchBlocks ==
    \A k \in DOMAIN stack :
        LET code == CodeOf(program, stack[k])
        IN  TmpsCountable(code) => Len(stack[k].tmps) = OpenTmps(code, stack[k].ip)

-------------------------------------------------------------------------------
(* What the two properties need of a program.  The compiler sees to it that  *)
(* jumps land, that blocks are closed and that they nest.  It accepts a jump *)
(* into a TMP block, a jump or a tail call out of a TRY block, and a tail    *)
(* call inside a TMP block; each breaks one of the two.                      *)
IsSequence(s) == s \in Seq(Range(s))

\* Jumps stay in the function.
JumpsLand(code) == \A i \in Lines(code, JumpOps) : Last(code[i].a).i \in 0 .. Len(code)

\* A TRY names a CATCH behind it and an ENDTRY.
BlocksClosed(code) ==
    \A i \in Lines(code, {"TRY"}) :
        /\ code[i].a[1].i \in i .. Len(code) - 1 /\ code[code[i].a[1].i + 1].op = "CATCH"
        /\ code[i].a[2].i \in 0 .. Len(code) - 1 /\ code[code[i].a[2].i + 1].op = "ENDTRY"

\* TMP blocks nest, and a jump leaves as many open as it found.
TmpsNest(code) ==
    /\ \A ip \in 0 .. Len(code) : OpenTmps(code, ip) >= 0
    /\ \A i \in Lines(code, JumpOps) :
          OpenTmps(code, Last(code[i].a).i) = OpenTmps(code, i)

\* Control leaves the part of a TRY block before its CATCH only through it.
BlocksNotLeft(code) ==
    \A i \in Lines(code, {"TRY"}) : \A j \in i + 1 .. code[i].a[1].i :
        /\ code[j].op # "TAIL_CALL"
        /\ code[j].op \in JumpOps => Last(code[j].a).i \in i .. code[i].a[1].i

\* A tail call hands over no TMP frames.
TailCallsClean(code) ==
    \A i \in Lines(code, {"TAIL_CALL"}) : TmpsCountable(code) /\ OpenTmps(code, i) = 0

CalleesNumbered(code) ==
    \A i \in Lines(code, {"CALL", "ASYNC_CALL", "TAIL_CALL"}) : code[i].a[1].i \in Nat

WellFormed(p) ==
    /\ IsSequence(p.funcs)
    /\ \A f \in DOMAIN p.funcs :
          LET code == p.funcs[f].code
          IN  /\ IsSequence(code) /\ CalleesNumbered(code)
              /\ JumpsLand(code) /\ BlocksClosed(code) /\ TmpsNest(code)
              /\ BlocksNotLeft(code) /\ TailCallsClean(code)

===============================================================================
