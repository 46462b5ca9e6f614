----------------------------- MODULE FasmPipeline -----------------------------
(***************************************************************************)
(* From a source file to the result of an invocation: the compiler, the    *)
(* bytecode file it writes and the engine reads back, the JIT if one is    *)
(* attached, and the virtual machine.                                      *)
(***************************************************************************)
EXTENDS FasmSemantics, FasmBytecode

CONSTANTS Sources,     \* the source files
          EntryArgs    \* the $args an invocation may be given

VARIABLES source, args
pvars == <<source, args, program, stack, globals, outcome>>

\* The program the engine loads from the compiled file, with or without its
\* machine code.
Loaded(src, jit) ==
    LET p == Decoded(Encoded(Compile(src)))[1]
    IN  [globals |-> p.globals, funcs |-> p.funcs,
         native  |-> IF jit THEN NativeFunctions(p) ELSE {}]

Accepted == {src \in Sources : Compile(src) # CompileError}

Init ==
    /\ source \in Accepted
    /\ args \in EntryArgs
    /\ \E jit \in BOOLEAN : Start(Loaded(source, jit), "Main", args)

Step == Next /\ UNCHANGED <<source, args>>

Spec == Init /\ [][Step]_pvars

-------------------------------------------------------------------------------
\* The program, compiled, written to a file and read back, ends as the source
\* says, natively or not: run_named takes every jump, handler and call where its
\* line points, and a fault in a TRY block undoes what the block wrote to slots
\* and globals and nothing else (TMP registers and $ret stay).
MatchesSource == Running \/ outcome = Meaning(source, args)

===============================================================================
