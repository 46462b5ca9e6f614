---------------------------- MODULE FasmSemantics ----------------------------
(***************************************************************************)
(* What a FASM source means, defined on its lines: blocks nest, a TRY      *)
(* block either runs to its end or is undone and replaced by its handler,  *)
(* a jump continues at the line of its label, a call runs a function to    *)
(* its end.  There are no addresses, no instruction pointer, no guard and  *)
(* no machine code; FasmPipeline compares it with the compiled program.    *)
(*                                                                         *)
(* It follows FASM.md, also where the virtual machine does not: the fault  *)
(* of a callee, a full stack included, reaches the nearest TRY of a caller *)
(* (FASM.md:658, 670), ASYNC_CALL leaves a FUTURE (182) and a function     *)
(* that ends without RET returns nothing (149).  Of what FASM.md does not  *)
(* say it takes the virtual machine's answer: TMP frames opened in a block *)
(* that faults stay open.  Sources that nest TRY blocks, jump or tail call *)
(* out of one, or jump into a TMP block have no meaning here.              *)
(*                                                                         *)
(* Running lines ends in a record [k, m, ...], m being the machine then:   *)
(*   "FELL"    the lines ran to their end                                  *)
(*   "JUMP"    to label x, somewhere else                                  *)
(*   "RETURN"  from the function with value x                              *)
(*   "TAIL"    continue as function f with $args x                         *)
(*   "FAULT"   m.fault says which                                          *)
(*   "OVER"    the invocation ended with outcome x                         *)
(***************************************************************************)
EXTENDS FasmCompiler, VmExecutor

Ended(k, m)      == [k |-> k, m |-> m]
EndedWith(k, m, x) == [k |-> k, m |-> m, x |-> x]
After(m)         == IF Failed(m) THEN Ended("FAULT", m) ELSE Ended("FELL", m)
FaultOf(m, v)    == Ended("FAULT", Fail(m, v))
Future(v)        == [t |-> "FUTURE", o |-> <<v>>]

BodyOf(src, j)     == src.funcs[j].body
LabelLine(b, x)    == CHOOSE i \in DOMAIN b : b[i].op = "LABEL" /\ b[i].a[1].x = x
NextLine(b, i)     == IF b[i].op = "TRY" THEN EndOf(b, i) + 1 ELSE i + 1
OperandsAt(src, j, i) == Operands(BodyOf(src, j)[i], ContextOf(src, BodyOf(src, j)))

\* The block at line i is undone and its handler starts, with the fault's code.
Handling(m, before) ==
    [m EXCEPT !.fault = "none", !.fr.slots = before.fr.slots, !.g = before.g,
              !.fr.ret = Num("UINT32", FaultCode[m.fault])]

SyscallMeaning(op, id, args, m) ==
    IF id = 3
    THEN EndedWith("OVER", m, [t |-> "EXIT", code |-> IF FieldOf(args, 0).t = "INT32"
                                                    THEN FieldOf(args, 0).n ELSE 0])
    ELSE LET v == SyscallResult(id, args)
         IN  IF IsFault(v) THEN FaultOf(m, v)
             ELSE Ended("FELL", [m EXCEPT !.fr.ret =
                     IF op = "SYSCALL" THEN v ELSE Future(v)])

\* A call of a function that ended with r: the caller goes on with the result,
\* has the callee's fault, or ends with the invocation.
Called(op, m, r) ==
    LET back == [m EXCEPT !.g = r.m.g]
    IN  CASE r.k = "RETURN" -> Ended("FELL", [back EXCEPT !.fr.ret =
                                   IF op = "CALL" THEN r.x ELSE Future(r.x)])
          [] r.k = "FAULT"  -> FaultOf(back, Fault(r.m.fault))
          [] OTHER -> r

RECURSIVE Run(_, _, _, _, _, _, _), Invoke(_, _, _, _, _)

\* The TRY block at line i was entered with machine m and ended with r.
Guarded(src, j, d, m, i, r) ==
    IF r.k = "FAULT" /\ r.m.fault # "Panic"
    THEN LET c == CatchOf(BodyOf(src, j), i)
         IN  Run(src, j, d, Handling(r.m, m), c + 1, EndOf(BodyOf(src, j), i) - 1, c + 1)
    ELSE r

\* The control statement at line i with operands o; v is the value of the last
\* one, the argument or the condition.
Control(src, j, d, m, i, o, v) ==
    LET b  == BodyOf(src, j)
        op == b[i].op
        to == EndedWith("JUMP", m, Last(b[i].a).x)
    IN  CASE op \in {"LABEL", "CATCH"} -> Ended("FELL", m)
          [] op = "JMP" -> to
          [] op = "TRY" ->
               Guarded(src, j, d, m, i, Run(src, j, d, m, i + 1, CatchOf(b, i) - 1, i + 1))
          [] op = "HALT" -> EndedWith("OVER", m, Done(Null))
          [] op = "RET" /\ o = <<>> -> EndedWith("RETURN", m, Null)
          [] OTHER ->
               CASE IsFault(v) -> FaultOf(m, v)
                 [] op \in {"JZ", "JNZ"} ->
                      IF IsTruthy(v) = (op = "JNZ") THEN to ELSE Ended("FELL", m)
                 [] op \in {"CALL", "ASYNC_CALL"} ->
                      IF d >= MaxDepth THEN FaultOf(m, Fault("StackOverflow"))
                      ELSE Called(op, m, Invoke(src, o[1].i + 1, v, m.g, d + 1))
                 [] op = "TAIL_CALL" -> [k |-> "TAIL", m |-> m, x |-> v, f |-> o[1].i + 1]
                 [] op = "RET" -> EndedWith("RETURN", m, v)
                 [] op \in {"SYSCALL", "ASYNC_SYSCALL"} -> SyscallMeaning(op, o[1].i, v, m)

\* The statement at line i of function j, called at depth d, with operands o.
Statement(src, j, d, m, i, o) ==
    LET b  == BodyOf(src, j)
        op == b[i].op
    IN  IF op \in DataOps \cup {"LOCAL"}
        THEN After(DataStep(m, IF op = "LOCAL" THEN Emitted(b, i, ContextOf(src, b))[1]
                               ELSE Instruction(op, o)))
        ELSE Control(src, j, d, m, i, o,
                     ReadOperand(m, o[IF op \in {"JZ", "JNZ"} THEN 1 ELSE Len(o)]))

\* Line i of the block first .. last ended with r.
Onward(src, j, d, first, last, i, r) ==
    LET b == BodyOf(src, j)
    IN  CASE r.k = "FELL" -> Run(src, j, d, r.m, first, last, NextLine(b, i))
          [] r.k = "JUMP" /\ LabelLine(b, r.x) \in first .. last ->
               Run(src, j, d, r.m, first, last, LabelLine(b, r.x))
          [] OTHER -> r

\* Lines i to last of the block first .. last.
Run(src, j, d, m, first, last, i) ==
    IF i > last THEN Ended("FELL", m)
    ELSE Onward(src, j, d, first, last, i,
                Statement(src, j, d, m, i, OperandsAt(src, j, i)))

\* The body of a function called at depth d ended with r.
Finished(src, d, r) ==
    CASE r.k = "FELL" -> EndedWith("RETURN", r.m, Null)
      [] r.k = "TAIL" -> Invoke(src, r.f, r.x, r.m.g, d)
      [] OTHER -> r

\* Function j with $args and globals g at depth d: what it returns, its fault, or
\* how it ends the invocation.
Invoke(src, j, args, g, d) ==
    LET n == Len(BodyOf(src, j))
    IN  Finished(src, d, Run(src, j, d, [fr |-> NewFrame(j - 1, args), g |-> g,
                                         fault |-> "none"], 1, n, 1))

OutcomeOf(r) ==
    CASE r.k = "RETURN" -> Done(r.x)
      [] r.k = "FAULT"  -> Error(r.m.fault)
      [] r.k = "OVER"   -> r.x

\* The outcome of an invocation of Main.
Meaning(src, args) ==
    LET main == CHOOSE j \in DOMAIN src.funcs : src.funcs[j].name = "Main"
    IN  OutcomeOf(Invoke(src, main, args, InitialGlobals([globals |-> GlobalInits(src)]), 1))

===============================================================================
