---------------------------- MODULE MCFasmPipeline ----------------------------
(* Small FASM sources for FasmPipeline, written with one operator per kind of  *)
(* line, and narrow widths for the types.                                      *)
EXTENDS FasmPipeline

McBits == [INT8 |-> 8, UINT8 |-> 8, INT16 |-> 10, UINT16 |-> 10, INT32 |-> 12,
           UINT32 |-> 12, INT64 |-> 15, UINT64 |-> 15]
McTNames == {"t0", "t1", "total"}
McInput  == <<45, 49, 50, 13, 10>>        \* "-12" and the end of the line

V(x)  == Ident(x)
At(x) == [k |-> "DEREF", x |-> x]
N(n)  == [k |-> "INT", n |-> n]
Nil   == [k |-> "NULL"]
L(op, a) == [op |-> op, a |-> a]
O(op) == L(op, <<>>)
Local(i, ty, x) == L("LOCAL", <<N(i), V(ty), V(x)>>)
Here(x) == L("LABEL", <<V(x)>>)
Param(key, ty, x) == [key |-> N(key), ty |-> ty, name |-> x, required |-> TRUE]
Func(name, params, body) == [name |-> name, params |-> params, body |-> body]
Source(funcs) == [defines |-> <<>>, globals |-> <<>>, funcs |-> funcs]
Program(body) == Source(<<Func("Main", <<>>, body)>>)

Arg(n) == [t |-> "STRUCT", e |-> << <<0, Num("INT32", n)>> >>]
McEntryArgs == {[t |-> "STRUCT", e |-> <<>>], Arg(0), Arg(2), Arg(3)}

-------------------------------------------------------------------------------
\* A loop with a TMP block; without an argument it faults.
Loop == Program(<<
    Local(0, "INT32", "i"), Local(1, "INT32", "sum"), Local(2, "BOOL", "c"),
    L("GET_FIELD", <<V("$args"), N(0), V("i")>>),
    Here("again"),
    L("EQ", <<V("i"), N(0), V("c")>>), L("JNZ", <<V("c"), V("done")>>),
    O("TMP_BLOCK"), L("ADD", <<V("sum"), V("i"), V("t0")>>), L("MOV", <<V("t0"), V("sum")>>),
    O("END_TMP"),
    L("SUB", <<V("i"), N(1), V("i")>>), L("JMP", <<V("again")>>),
    Here("done"), L("RET", <<V("sum")>>)>>)

\* A block that faults after it has written; the same fault outside it.
Recover == Program(<<
    Local(0, "INT32", "x"), Local(1, "INT32", "n"), Local(2, "STACK", "s"),
    L("MOV", <<N(5), V("x")>>), L("PUSH", <<V("s"), N(1)>>),
    O("TRY"),
      L("MOV", <<N(7), V("x")>>), L("POP", <<V("s"), V("n")>>),
      L("GET_FIELD", <<V("$args"), N(0), V("n")>>),
      L("DIV", <<V("x"), V("n"), V("x")>>),
    O("CATCH"),
      L("POP", <<V("s"), V("n")>>), L("ADD", <<V("x"), V("n"), V("x")>>),
      L("JZ", <<V("$fault_code"), V("never")>>),
    O("ENDTRY"),
    L("DIV", <<V("x"), V("n"), V("x")>>),
    L("RET", <<V("x")>>), Here("never"), O("HALT")>>)

\* A TRY in a loop: its guard is armed and disarmed once per turn.
TryLoop == Program(<<
    Local(0, "INT32", "i"), Local(1, "INT32", "q"), Local(2, "INT32", "sum"),
    L("MOV", <<N(2), V("i")>>),
    Here("again"),
    O("TRY"),
      L("SUB", <<V("i"), N(1), V("q")>>), L("DIV", <<N(6), V("q"), V("q")>>),
    O("CATCH"),
      L("MOV", <<N(100), V("q")>>),
    O("ENDTRY"),
    L("ADD", <<V("sum"), V("q"), V("sum")>>), L("SUB", <<V("i"), N(1), V("i")>>),
    L("JNZ", <<V("i"), V("again")>>),
    L("GET_FIELD", <<V("$args"), N(0), V("q")>>),
    L("RET", <<V("sum")>>)>>)

\* A fault in a TMP block, in a TRY without a handler; a fault in a handler.
TmpFault == Program(<<
    Local(0, "INT32", "x"),
    O("TRY"),
      O("TMP_BLOCK"), L("MOV", <<N(1), V("t1")>>), L("MOD", <<V("t1"), V("x"), V("t0")>>),
      O("END_TMP"),
    O("ENDTRY"),
    O("TMP_BLOCK"), L("MOV", <<N(3), V("t0")>>), L("MOV", <<V("t0"), V("x")>>), O("END_TMP"),
    O("TRY"),
      L("GET_FIELD", <<V("$args"), N(0), V("x")>>),
    O("CATCH"),
      L("MOV", <<V("t1"), V("x")>>), L("NEG", <<V("missing"), V("t1")>>),
      L("GET_FIELD", <<V("$args"), N(0), V("x")>>),
    O("ENDTRY"),
    L("RET", <<V("x")>>)>>)

-------------------------------------------------------------------------------
\* Main calls F with the argument n and its own TRY; F is given by its body.
Caller(params, body) == Source(<<
    Func("F", params, body),
    Func("Main", <<>>, <<
        Local(0, "INT32", "n"), Local(1, "STRUCT", "s"), Local(2, "INT32", "r"),
        L("GET_FIELD", <<V("$args"), N(0), V("n")>>),
        L("SET_FIELD", <<V("s"), N(0), V("n")>>), L("SET_FIELD", <<V("s"), N(1), N(1)>>),
        O("TRY"),
          L("CALL", <<V("F"), V("s")>>), L("MOV", <<V("$ret"), V("r")>>),
        O("CATCH"),
          L("MOV", <<N(77), V("r")>>),
        O("ENDTRY"),
        L("RET", <<V("r")>>)>>)>>)

\* The same without a TRY around the call, after one that was left by a fault.
UnguardedCaller(params, body) == Source(<<
    Func("F", params, body),
    Func("Main", <<>>, <<
        Local(0, "INT32", "n"), Local(1, "STRUCT", "s"), Local(2, "INT32", "r"),
        O("TRY"),
          L("GET_FIELD", <<V("$args"), N(9), V("r")>>),
        O("CATCH"),
          L("MOV", <<N(77), V("r")>>),
        O("ENDTRY"),
        L("GET_FIELD", <<V("$args"), N(0), V("n")>>), L("SET_FIELD", <<V("s"), N(0), V("n")>>),
        L("CALL", <<V("F"), V("s")>>), L("ADD", <<V("r"), V("$ret"), V("r")>>),
        L("RET", <<V("r")>>)>>)>>)

\* n! by recursion, as deep as the call stack allows.
FactorialParams == <<Param(0, "INT32", "n")>>
FactorialBody == <<
    Local(0, "INT32", "n"), Local(1, "INT32", "m"), Local(2, "STRUCT", "s"),
    L("GET_FIELD", <<V("$args"), N(0), V("n")>>), L("JZ", <<V("n"), V("one")>>),
    L("SUB", <<V("n"), N(1), V("m")>>), L("SET_FIELD", <<V("s"), N(0), V("m")>>),
    L("CALL", <<V("F"), V("s")>>), L("MUL", <<V("n"), V("$ret"), V("n")>>),
    L("RET", <<V("n")>>), Here("one"), L("RET", <<N(1)>>)>>
Factorial == UnguardedCaller(FactorialParams, FactorialBody)

\* The same by a tail call with an accumulator: the JIT compiles this F.
TailFactorial == Caller(<<Param(0, "INT32", "n"), Param(1, "INT32", "a")>>, <<
    Local(0, "INT32", "n"), Local(1, "INT32", "a"), Local(2, "STRUCT", "s"),
    Local(3, "BOOL", "c"),
    L("GET_FIELD", <<V("$args"), N(0), V("n")>>), L("GET_FIELD", <<V("$args"), N(1), V("a")>>),
    L("LTE", <<V("n"), N(0), V("c")>>), L("JZ", <<V("c"), V("more")>>),
    L("RET", <<V("a")>>),
    Here("more"),
    L("MUL", <<V("a"), V("n"), V("a")>>), L("SUB", <<V("n"), N(1), V("n")>>),
    L("RESERVE", <<N(2), V("STRUCT"), Nil>>),
    L("SET_FIELD", <<V("s"), N(0), V("n")>>), L("SET_FIELD", <<V("s"), N(1), V("a")>>),
    L("TAIL_CALL", <<V("F"), V("s")>>), L("RET", <<V("$ret")>>)>>)

\* Arithmetic the JIT compiles; and the same with a read of an argument that is
\* not a parameter, which no function of the program survives.
Numeric(key) == Caller(<<Param(0, "INT32", "n")>>, <<
    Local(0, "INT32", "n"), Local(1, "INT32", "m"), Local(2, "BOOL", "c"),
    L("GET_FIELD", <<V("$args"), N(key), V("n")>>),
    L("MUL", <<V("n"), N(1000), V("m")>>), L("SHR", <<V("m"), N(2), V("m")>>),
    L("XOR", <<V("m"), N(85), V("m")>>), L("NOT", <<V("m"), V("m")>>),
    L("SHL", <<V("m"), N(3), V("m")>>), L("MOD", <<V("m"), N(-7), V("n")>>),
    L("NEG", <<V("m"), V("m")>>), L("GT", <<V("m"), V("n"), V("c")>>),
    L("JNZ", <<V("c"), V("end")>>), L("SUB", <<V("n"), V("m"), V("n")>>),
    Here("end"), L("CAST", <<V("n"), V("INT64"), V("n")>>),
    L("CAST", <<V("n"), V("INT32"), V("n")>>), L("RET", <<V("n")>>)>>)

\* A callee that faults, one that catches, one that halts, one that returns nothing.
FaultyBody == <<L("GET_FIELD", <<V("$args"), N(9), V("$ret")>>), L("RET", <<V("$ret")>>)>>
Faulty  == UnguardedCaller(<<>>, FaultyBody)
Careful == Caller(<<>>, <<
    Local(0, "INT32", "x"),
    O("TRY"), L("MOV", <<N(4), V("x")>>), L("RELEASE", <<V("x")>>), L("NEG", <<V("x"), V("x")>>),
    O("CATCH"), L("MOV", <<V("x"), V("$ret")>>), O("CATCH"), L("ADD", <<V("x"), N(8), V("$ret")>>),
    O("ENDTRY"), L("RET", <<V("$ret")>>)>>)
Stops   == Caller(<<>>, <<Local(0, "VEC", "v"), O("HALT")>>)
Silent  == Caller(<<>>, <<Local(0, "VEC", "v"), L("PUSH", <<V("v"), N(1)>>)>>)

\* References: into the frame that took them, and only there.
References == Source(<<
    Func("F", <<>>, <<
        Local(0, "INT32", "own"), Local(1, "REF_MUT", "r"),
        L("MOV", <<N(6), V("own")>>),
        L("GET_FIELD", <<V("$args"), N(0), V("r")>>), L("MOV", <<N(9), At("r")>>),
        L("RET", <<V("own")>>)>>),
    Func("Main", <<>>, <<
        Local(0, "INT32", "x"), Local(1, "REF_MUT", "r"), Local(2, "STRUCT", "s"),
        L("ADDR", <<V("x"), V("r")>>), L("MOV", <<N(2), At("r")>>),
        L("SET_FIELD", <<V("s"), N(0), V("r")>>), L("ASYNC_CALL", <<V("F"), V("s")>>),
        L("CALL", <<V("F"), V("s")>>), L("ADD", <<V("x"), V("$ret"), V("x")>>),
        L("RET", <<V("x")>>)>>)>>)

\* Main leaves through a tail call, to machine code when there is a JIT.
Handover == Source(<<
    Func("F", <<Param(0, "INT32", "n")>>, <<
        Local(0, "INT32", "n"),
        L("GET_FIELD", <<V("$args"), N(0), V("n")>>), L("ADD", <<V("n"), N(2047), V("n")>>),
        L("RET", <<V("n")>>)>>),
    Func("Main", <<>>, <<L("TAIL_CALL", <<V("F"), V("$args")>>)>>)>>)

\* Syscalls: an unknown one, READ twice, PARSE_INT, EXIT.
Syscalls == [Program(<<
    Local(0, "STRUCT", "s"), Local(1, "RESULT", "r"), Local(2, "INT32", "n"),
    Local(3, "VEC", "v"),
    O("TRY"), L("SYSCALL", <<N(9), V("$args")>>), O("CATCH"), O("ENDTRY"),
    L("MOV", <<[k |-> "STR", s |-> <<55, 56>>], V("v")>>), L("LEN", <<V("v"), V("n")>>),
    L("SYSCALL", <<N(0), V("$args")>>),
    L("ASYNC_SYSCALL", <<N(2), Nil>>), L("AWAIT", <<V("$ret"), V("v")>>),
    L("SET_FIELD", <<V("s"), N(0), V("v")>>),
    L("SYSCALL", <<V("PARSE_INT"), V("s")>>), L("MOV", <<V("$ret"), V("r")>>),
    L("UNWRAP_OK", <<V("r"), V("n")>>),
    L("GET_FIELD", <<V("$args"), N(0), V("n")>>),
    L("SYSCALL", <<N(3), V("$args")>>)>>) EXCEPT !.defines = "PARSE_INT" :> N(4)]

-------------------------------------------------------------------------------
\* Sources the compiler refuses.
JumpOutOfTmp == Program(<<O("TMP_BLOCK"), L("JNZ", <<N(1), V("out")>>), O("END_TMP"),
                          Here("out"), L("RET", <<N(1)>>)>>)
LostEndTmp   == Program(<<O("TMP_BLOCK"), L("RET", <<N(1)>>)>>)
SameLabel    == Program(<<Here("a"), Here("a"), L("RET", <<N(1)>>)>>)
Unresolved1  == Program(<<L("MOV", <<N(1), V("nowhere")>>)>>)
OpenTry      == Program(<<O("TRY"), L("RET", <<N(1)>>)>>)
NoSuchCallee == Program(<<L("CALL", <<V("G"), V("$args")>>)>>)
Rejected == {JumpOutOfTmp, LostEndTmp, SameLabel, Unresolved1, OpenTry, NoSuchCallee}

McSources == {Loop, Recover, TryLoop, TmpFault, Factorial, TailFactorial, Numeric(0),
              Numeric(1), Faulty, Careful, Stops, Silent, References, Handover, Syscalls}
             \cup Rejected

\* The validator refuses JumpOutOfTmp too; it stays among the sources because
\* TmpFramesMatchBlocks is what would notice if it did not.
ASSUME RejectedAreRefused == \A src \in Rejected \ {JumpOutOfTmp} : Compile(src) = CompileError

\* decode_program undoes encode_program, whatever follows, and refuses every
\* file that was cut short (two of the sources) or starts with another magic
\* number.
ASSUME FilesRoundTrip ==
    \A src \in McSources \ Rejected :
        LET p == Compile(src)
            b == Encoded(p)
        IN  /\ Decoded(Append(b, 0)) = <<p, <<0>>>>
            /\ src \in {Handover, Syscalls} =>
                   \A n \in 0 .. Len(b) - 1 : Decoded(SubSeq(b, 1, n)) = NotDecoded
            /\ Decoded([b EXCEPT ![1] = "ELF"]) = NotDecoded

\* A tail call out of a TRY block: F faults without an argument, and what it
\* takes for the handler of Main is an address of its own.
HandoverInTry == Source(<<
    Func("F", <<>>, <<
        Local(0, "INT32", "n"),
        L("GET_FIELD", <<V("$args"), N(0), V("n")>>), L("ADD", <<V("n"), N(1), V("n")>>),
        L("RET", <<V("n")>>)>>),
    Func("Main", <<>>, <<
        O("TRY"), L("TAIL_CALL", <<V("F"), V("$args")>>),
        O("CATCH"), L("RET", <<N(77)>>), O("ENDTRY")>>)>>)
McTailSources == {HandoverInTry}

-------------------------------------------------------------------------------
\* Sources that FASM.md gives another meaning than the virtual machine does: a
\* callee that faults inside its caller's TRY, and one whose recursion fills the
\* stack there,
McCalleeSources == {Caller(<<>>, FaultyBody)}
McDepthSources  == {Caller(FactorialParams, FactorialBody)}

\* an asynchronous call whose result is awaited,
Five == Func("G", <<>>, <<L("RET", <<N(5)>>)>>)
McAsyncSources == {Source(<<Five, Func("Main", <<>>, <<
    Local(0, "INT32", "x"),
    L("ASYNC_CALL", <<V("G"), V("$args")>>), L("AWAIT", <<V("$ret"), V("x")>>),
    L("RET", <<V("x")>>)>>)>>)}

\* and a function without RET, behind a call of its own.
McVoidSources == {Source(<<Five,
    Func("F", <<>>, <<L("CALL", <<V("G"), V("$args")>>)>>),
    Func("Main", <<>>, <<L("CALL", <<V("F"), V("$args")>>), L("RET", <<V("$ret")>>)>>)>>)}

\* The sources whose programs the properties of VmExecutor speak of: all that
\* are accepted.
ASSUME ProgramsAreWellFormed ==
    \A src \in McSources \ Rejected : WellFormed(Loaded(src, TRUE))

===============================================================================
