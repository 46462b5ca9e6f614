----------------------------- MODULE FasmCompiler -----------------------------
(***************************************************************************)
(* The FASM compiler (fasm-compiler: parser.rs, validator.rs, emitter.rs): *)
(* from the lines of a source file to a program of the virtual machine.    *)
(* A source is                                                             *)
(*   defines   name -> operand expression                                  *)
(*   globals   a sequence of [i |-> index, ty |-> type, init |-> expr]     *)
(*   funcs     a sequence of [name, params, body]; a parameter is          *)
(*             [key |-> expr, ty, name, required], a body a sequence of    *)
(*             lines [op |-> mnemonic, a |-> operand expressions]          *)
(* with one statement on a line.  An operand expression is                 *)
(*   [k |-> "IDENT" | "DEREF", x |-> name]                                 *)
(*   [k |-> "INT" | "HEX" | "FLOAT", n |-> number]                         *)
(*   [k |-> "STR", s |-> bytes], [k |-> "NULL" | "TRUE" | "FALSE"]         *)
(* The parser nests the lines between TRY and ENDTRY and the emitter       *)
(* flattens them again; the module keeps the lines flat and computes what  *)
(* each line emits and where.                                              *)
(***************************************************************************)
EXTENDS VmInstructions

CONSTANT TNames      \* the names that start with a lower-case t

CompileError == [t |-> "COMPILE_ERROR"]
Ident(x)     == [k |-> "IDENT", x |-> x]

-------------------------------------------------------------------------------
(* TRY blocks.  Opened(b, i, j) is how many blocks lines i to j leave open.  *)
CountOf(b, i, j, op) == Cardinality({l \in i .. j : b[l].op = op})
Opened(b, i, j)      == CountOf(b, i, j, "TRY") - CountOf(b, i, j, "ENDTRY")

\* The end of the block opened by the TRY at line i, and the first CATCH of
\* that block itself; a later CATCH of the same block is swallowed, and a block
\* without one has an empty handler.
EndOf(b, i)   == Min({j \in i + 1 .. Len(b) : b[j].op = "ENDTRY" /\ Opened(b, i, j) = 0})
Catches(b, i) == {j \in i + 1 .. EndOf(b, i) : b[j].op = "CATCH" /\ Opened(b, i, j) = 1}
CatchOf(b, i) == IF Catches(b, i) = {} THEN EndOf(b, i) ELSE Min(Catches(b, i))
TryLines(b)   == {i \in DOMAIN b : b[i].op = "TRY"}

\* parse_try_block succeeds: every block is closed, and no CATCH or ENDTRY
\* stands outside one (there it would be an unknown instruction).
Parses(b) ==
    /\ \A j \in DOMAIN b : Opened(b, 1, j) >= 0
    /\ Opened(b, 1, Len(b)) = 0
    /\ \A j \in DOMAIN b : b[j].op = "CATCH" => Opened(b, 1, j) > 0
    /\ \A j \in DOMAIN b : b[j].op = "LOCAL" => b[j].a[1].n \in 0 .. 2 ^ Bits["UINT8"] - 1

\* How many instructions line i emits, and the address of the first of them
\* (addresses start at 0).
SizeOf(b, i) ==
    CASE b[i].op = "LABEL"  -> 0
      [] b[i].op = "CATCH"  -> IF \E j \in TryLines(b) : CatchOf(b, j) = i THEN 1 ELSE 0
      [] b[i].op = "ENDTRY" -> IF \E j \in TryLines(b) : CatchOf(b, j) = i THEN 2 ELSE 1
      [] OTHER              -> 1
AddressOf(b, i) == MapThenSumSet(LAMBDA j : SizeOf(b, j), 1 .. i - 1)

CatchAddress(b, i) == AddressOf(b, CatchOf(b, i))
EndAddress(b, i)   == AddressOf(b, EndOf(b, i)) + SizeOf(b, EndOf(b, i)) - 1

\* collect_locals_and_labels: the last declaration of a name wins, for the
\* whole function.
LocalsOf(b) ==
    LET lines == {i \in DOMAIN b : b[i].op = "LOCAL"}
        named(x) == {i \in lines : b[i].a[3].x = x}
    IN  [x \in {b[i].a[3].x : i \in lines} |-> b[Max(named(x))].a[1].n]
LabelsOf(b) ==
    LET lines == {i \in DOMAIN b : b[i].op = "LABEL"}
        named(x) == {i \in lines : b[i].a[1].x = x}
    IN  [x \in {b[i].a[1].x : i \in lines} |-> AddressOf(b, Max(named(x)))]

-------------------------------------------------------------------------------
(* The validator.                                                            *)
Jumps == {"JMP", "JZ", "JNZ"}

NoDuplicateLabels(b) ==
    \A i, j \in DOMAIN b :
        b[i].op = "LABEL" /\ b[j].op = "LABEL" /\ b[i].a = b[j].a => i = j

TmpDepth(b, i) == CountOf(b, 1, i, "TMP_BLOCK") - CountOf(b, 1, i, "END_TMP")

TmpBlocksBalanced(b) ==
    /\ \A i \in DOMAIN b : TmpDepth(b, i) >= 0
    /\ TmpDepth(b, Len(b)) <= 0

\* Mutant of NoJumpInsideTmp: only JMP counts as a jump.
NoJmpInsideTmp(b) == \A i \in DOMAIN b : b[i].op = "JMP" => TmpDepth(b, i) <= 0

NoJumpInsideTmp(b) == \A i \in DOMAIN b : b[i].op \in Jumps => TmpDepth(b, i) <= 0

JumpsDefined(b) ==
    \A i \in DOMAIN b :
        b[i].op \in Jumps /\ b[i].a # <<>> /\ Last(b[i].a).k = "IDENT"
            => Last(b[i].a).x \in DOMAIN LabelsOf(b)

\* TAIL_CALL is not among the calls the validator looks at.
CallsDefined(b, names) ==
    \A i \in DOMAIN b :
        b[i].op \in {"CALL", "ASYNC_CALL"} /\ b[i].a # <<>> /\ b[i].a[1].k = "IDENT"
            => b[i].a[1].x \in names

\* A name may be dereferenced only after its declaration; the TMP slots are
\* not among the declared names.
BuiltInNames == {"$args", "$ret", "$fault_code", "$fault_index", "NULL", "TRUE", "FALSE"}
DerefsDeclared(src, f) ==
    LET known(i) == DOMAIN src.defines \cup BuiltInNames
                    \cup {f.params[p].name : p \in DOMAIN f.params}
                    \cup {f.body[j].a[3].x : j \in {l \in 1 .. i - 1 : f.body[l].op = "LOCAL"}}
    IN  \A i \in DOMAIN f.body : f.body[i].op \notin {"LOCAL", "LABEL"} =>
            \A p \in DOMAIN f.body[i].a :
                f.body[i].a[p].k = "DEREF" => f.body[i].a[p].x \in known(i)

FuncNames(src) == {src.funcs[j].name : j \in DOMAIN src.funcs}

ValidFunction(src, f) ==
    /\ NoDuplicateLabels(f.body)
    /\ TmpBlocksBalanced(f.body)
    /\ NoJumpInsideTmp(f.body)
    /\ JumpsDefined(f.body)
    /\ CallsDefined(f.body, FuncNames(src))
    /\ DerefsDeclared(src, f)

Valid(src) ==
    /\ Cardinality(FuncNames(src)) = Len(src.funcs)
    /\ "Main" \in FuncNames(src)
    /\ \A j \in DOMAIN src.funcs : ValidFunction(src, src.funcs[j])

-------------------------------------------------------------------------------
(* Operand resolution.  A context holds the names a function can use:        *)
(* defines, locals, labels and funcs (function name -> index).               *)
Slot(k, i)    == [k |-> k, i |-> i]
Deref(k, i)   == [k |-> "DEREF", in |-> k, i |-> i]
Imm(v)        == [k |-> "IMM", v |-> v]
Unresolved    == [k |-> "ERROR"]
AsU8(n)       == n % 2 ^ Bits["UINT8"]

TmpNames   == [i \in 0 .. TmpSlots - 1 |-> "t" \o ToString(i)]
IsTmp(x)   == \E i \in DOMAIN TmpNames : TmpNames[i] = x
TmpOf(x)   == CHOOSE i \in DOMAIN TmpNames : TmpNames[i] = x
BuiltIns   == ("$args" :> "ARGS") @@ ("$ret" :> "RET")
              @@ ("$fault_code" :> "FAULT_CODE") @@ ("$fault_index" :> "FAULT_INDEX")

\* ast_val_to_slot: a TMP name hides a local of that name; a name that is
\* DEFINEd as an integer is the local of that number.
SlotFor(v, ctx) ==
    CASE v.k = "DEREF" ->
           IF IsTmp(v.x) THEN Deref("TMP", TmpOf(v.x))
           ELSE IF v.x \in DOMAIN ctx.locals THEN Deref("LOCAL", ctx.locals[v.x])
           ELSE Unresolved
      [] v.k = "IDENT" ->
           IF v.x \in DOMAIN BuiltIns THEN [k |-> "BUILTIN", b |-> BuiltIns[v.x]]
           ELSE IF IsTmp(v.x) THEN Slot("TMP", TmpOf(v.x))
           ELSE IF v.x \in DOMAIN ctx.locals THEN Slot("LOCAL", ctx.locals[v.x])
           ELSE IF v.x \in DOMAIN ctx.defines \ TNames /\ ctx.defines[v.x].k = "INT"
                THEN Slot("LOCAL", AsU8(ctx.defines[v.x].n))
           ELSE Unresolved
      [] v.k \in {"INT", "HEX"} -> Slot("LOCAL", AsU8(v.n))
      [] OTHER -> Unresolved

LiteralFor(v) ==
    CASE v.k = "NULL"  -> Imm(Null)
      [] v.k = "TRUE"  -> Imm(Bool(TRUE))
      [] v.k = "FALSE" -> Imm(Bool(FALSE))
      [] v.k = "INT"   -> Imm(Num("INT32", Wrap("INT32", v.n)))
      [] v.k = "HEX"   -> Imm(Num("UINT32", Wrap("UINT32", v.n)))
      [] v.k = "FLOAT" -> Imm(Num("FLOAT64", v.n))
      [] v.k = "STR"   -> Imm([t |-> "STR", s |-> v.s])

\* ast_value_to_operand: a number is an immediate here; a DEFINE is replaced by
\* its value (by one level: the model's sources chain none), unless its name
\* starts with t; and a name nobody declared, a PARAM among them, is the local 0.
PlainValue(v, ctx) ==
    LET s == SlotFor(v, [ctx EXCEPT !.defines = <<>>])
    IN  CASE v.k \notin {"IDENT", "DEREF"} -> LiteralFor(v)
          [] v.k = "DEREF" -> IF s = Unresolved THEN Deref("LOCAL", 0) ELSE s
          [] v.k = "IDENT" -> IF s = Unresolved THEN Slot("LOCAL", 0) ELSE s

ValueFor(v, ctx) ==
    IF /\ v.k = "IDENT"
       /\ SlotFor(v, [ctx EXCEPT !.defines = <<>>]) = Unresolved
       /\ v.x \in DOMAIN ctx.defines \ TNames
    THEN PlainValue(ctx.defines[v.x], ctx)
    ELSE PlainValue(v, ctx)

TypeNames == IntTypes \cup FloatTypes
             \cup {"BOOL", "REF_MUT", "REF_IMM", "VEC", "STRUCT", "STACK", "QUEUE", "HEAP_MIN",
                   "HEAP_MAX", "SPARSE", "BTREE", "SLICE", "DEQUE", "BITSET", "BITVEC",
                   "OPTION", "RESULT", "FUTURE", "NULL"}
TypeFor(v) == IF v.k = "IDENT" /\ v.x \in TypeNames THEN [k |-> "TYPE", ty |-> v.x]
              ELSE Unresolved

LabelFor(v, ctx) ==
    IF v.k = "IDENT" /\ v.x \in DOMAIN ctx.labels THEN [k |-> "LABEL", i |-> ctx.labels[v.x]]
    ELSE Unresolved

FunctionFor(v, ctx) ==
    IF v.k = "IDENT" /\ v.x \in DOMAIN ctx.funcs THEN [k |-> "FUNC", i |-> ctx.funcs[v.x]]
    ELSE Unresolved

\* resolve_u32: what is no number is key 0.  (A DEFINE may name another one;
\* the chain is followed once here.)
Expanded(v, ctx) ==
    IF v.k = "IDENT" /\ v.x \in DOMAIN ctx.defines THEN ctx.defines[v.x] ELSE v
KeyFor(v, ctx) ==
    LET d == Expanded(v, ctx)
    IN  [k |-> "KEY", i |-> IF d.k \in {"INT", "HEX"} THEN Wrap("UINT32", d.n) ELSE 0]

SyscallFor(v, ctx) ==
    LET d == Expanded(v, ctx)
    IN  IF d.k \in {"INT", "HEX"} THEN [k |-> "SYSCALL", i |-> Wrap("INT32", d.n)]
        ELSE Unresolved

FilterOps == ("OP_LT" :> 0) @@ ("OP_EQ" :> 1) @@ ("OP_GT" :> 2)
FilterFor(v) == IF v.k = "IDENT" /\ v.x \in DOMAIN FilterOps
                THEN Imm(Num("UINT32", FilterOps[v.x])) ELSE Unresolved

\* How the emitter resolves an operand: as a value, slot, type, label,
\* function, key, syscall number or filter operator.
Resolved(how, v, ctx) ==
    CASE how = "v" -> ValueFor(v, ctx)
      [] how = "s" -> SlotFor(v, ctx)
      [] how = "t" -> TypeFor(v)
      [] how = "l" -> LabelFor(v, ctx)
      [] how = "f" -> FunctionFor(v, ctx)
      [] how = "k" -> KeyFor(v, ctx)
      [] how = "y" -> SyscallFor(v, ctx)
      [] how = "o" -> FilterFor(v)
-------------------------------------------------------------------------------
(* Emission: how each mnemonic resolves its operands, one letter each.       *)
MoveShapes ==
    ("RESERVE" :> <<"s", "t", "v">>) @@ ("RELEASE" :> <<"s">>) @@ ("MOV" :> <<"v", "s">>)
    @@ ("STORE" :> <<"v", "s">>) @@ ("ADDR" :> <<"s", "s">>)

ScalarShapes ==
    [o \in ArithmeticOps \cup ComparisonOps \cup BitwiseOps \cup ShiftOps |-> <<"v", "v", "s">>]
    @@ [o \in {"NEG", "NOT"} |-> <<"v", "s">>]

ControlShapes ==
    ("JMP" :> <<"l">>) @@ ("JZ" :> <<"v", "l">>) @@ ("JNZ" :> <<"v", "l">>)
    @@ [o \in {"CALL", "ASYNC_CALL", "TAIL_CALL"} |-> <<"f", "v">>]
    @@ ("HALT" :> <<>>) @@ ("TMP_BLOCK" :> <<>>) @@ ("END_TMP" :> <<>>)
    @@ ("AWAIT" :> <<"v", "s">>) @@ [o \in {"SYSCALL", "ASYNC_SYSCALL"} |-> <<"y", "v">>]

CollectionShapes ==
    [o \in {"PUSH", "ENQUEUE"} |-> <<"s", "v">>]
    @@ [o \in {"POP", "DEQUEUE", "PEEK"} |-> <<"s", "s">>]
    @@ ("GET_IDX" :> <<"v", "v", "s">>) @@ ("SET_IDX" :> <<"s", "v", "v">>)
    @@ [o \in {"GET_FIELD", "HAS_FIELD"} |-> <<"v", "k", "s">>]
    @@ ("SET_FIELD" :> <<"s", "k", "v">>) @@ ("DEL_FIELD" :> <<"s", "k">>)
    @@ ("LEN" :> <<"v", "s">>)

WrapperShapes ==
    [o \in {"SOME", "OK", "ERR"} |-> <<"s", "v">>]
    @@ [o \in {"IS_SOME", "UNWRAP", "IS_OK", "UNWRAP_OK", "UNWRAP_ERR"} |-> <<"v", "s">>]
    @@ ("CAST" :> <<"v", "t", "s">>)

VectorShapes ==
    ("PREPEND" :> <<"s", "v">>) @@ [o \in {"POP_BACK", "PEEK_BACK"} |-> <<"s", "s">>]
    @@ ("VEC_SORT" :> <<"s">>) @@ ("VEC_FILTER" :> <<"v", "o", "v", "s">>)
    @@ ("VEC_MERGE" :> <<"v", "v", "s">>) @@ ("VEC_SLICE" :> <<"v", "v", "v", "s">>)

MapShapes ==
    [o \in {"SPARSE_GET", "SPARSE_HAS", "BTREE_GET", "BTREE_HAS"} |-> <<"v", "v", "s">>]
    @@ [o \in {"SPARSE_SET", "BTREE_SET"} |-> <<"s", "v", "v">>]
    @@ [o \in {"SPARSE_DEL", "BTREE_DEL"} |-> <<"s", "v">>]
    @@ [o \in {"BTREE_MIN", "BTREE_MAX"} |-> <<"v", "s">>]

BitShapes ==
    [o \in {"BIT_SET", "BIT_CLR", "BIT_FLIP", "BIT_AND", "BIT_OR", "BIT_XOR", "BIT_GROW"} |->
        <<"s", "v">>]
    @@ ("BIT_GET" :> <<"v", "v", "s">>) @@ ("BIT_COUNT" :> <<"v", "s">>)
    @@ ("BITVEC_READ" :> <<"v", "v", "v", "s">>) @@ ("BITVEC_WRITE" :> <<"s", "v", "v", "v">>)
    @@ ("BITVEC_PUSH" :> <<"s", "v", "v">>)

Shapes == MoveShapes @@ ScalarShapes @@ ControlShapes @@ CollectionShapes
          @@ WrapperShapes @@ VectorShapes @@ MapShapes @@ BitShapes

\* RET takes an operand or none.
ShapeOf(line) == IF line.op = "RET" THEN (IF line.a = <<>> THEN <<>> ELSE <<"v">>)
                 ELSE Shapes[line.op]

Known(line) == line.op = "RET" \/ line.op \in DOMAIN Shapes

Operands(line, ctx) == [p \in DOMAIN ShapeOf(line) |-> Resolved(ShapeOf(line)[p], line.a[p], ctx)]

\* emit_instr succeeds: the mnemonic is known, and every operand is there and
\* resolves.
Emits(line, ctx) ==
    /\ Known(line)
    /\ Len(line.a) >= Len(ShapeOf(line))
    /\ \A p \in DOMAIN ShapeOf(line) : Operands(line, ctx)[p] # Unresolved

Target(address) == [k |-> "LABEL", i |-> address]
Instruction(op, a) == [op |-> op, a |-> a]

\* emit_statement: the instructions line i of body b emits.
Emitted(b, i, ctx) ==
    CASE b[i].op = "LOCAL" ->
           <<Instruction("RESERVE", <<Slot("LOCAL", b[i].a[1].n), TypeFor(b[i].a[2]),
                                      Imm(Null)>>)>>
      [] b[i].op = "LABEL" -> <<>>
      [] b[i].op = "TRY" ->
           <<Instruction("TRY", <<Target(CatchAddress(b, i)), Target(EndAddress(b, i))>>)>>
      [] b[i].op \in {"CATCH", "ENDTRY"} ->
           LET opened == {j \in TryLines(b) : CatchOf(b, j) = i}
               catch  == IF opened = {} THEN <<>>
                         ELSE <<Instruction("CATCH",
                                  <<Target(EndAddress(b, CHOOSE j \in opened : TRUE))>>)>>
           IN  IF b[i].op = "CATCH" THEN catch ELSE Append(catch, Instruction("ENDTRY", <<>>))
      [] OTHER -> <<Instruction(b[i].op, Operands(b[i], ctx))>>

ContextOf(src, b) ==
    [defines |-> src.defines, locals |-> LocalsOf(b), labels |-> LabelsOf(b),
     funcs   |-> [x \in FuncNames(src) |->
                     (CHOOSE j \in DOMAIN src.funcs : src.funcs[j].name = x) - 1]]

Structural == {"LOCAL", "LABEL", "TRY", "CATCH", "ENDTRY"}

EmitsFunction(src, f) ==
    \A i \in DOMAIN f.body :
        f.body[i].op \notin Structural => Emits(f.body[i], ContextOf(src, f.body))

ParamsOf(src, f) ==
    [p \in DOMAIN f.params |->
        [key |-> KeyFor(f.params[p].key, [defines |-> src.defines]).i, ty |-> f.params[p].ty,
         name |-> f.params[p].name, required |-> f.params[p].required]]

FunctionOf(src, f) ==
    LET ctx == ContextOf(src, f.body)
    IN  [name |-> f.name, params |-> ParamsOf(src, f),
         code |-> FlattenSeq([i \in DOMAIN f.body |-> Emitted(f.body, i, ctx)])]

GlobalInits(src) ==
    LET ctx == [defines |-> src.defines, locals |-> <<>>, labels |-> <<>>, funcs |-> <<>>]
    IN  [j \in DOMAIN src.globals |->
            Instruction("RESERVE", <<[k |-> "KEY", i |-> src.globals[j].i],
                                     [k |-> "TYPE", ty |-> src.globals[j].ty],
                                     ValueFor(src.globals[j].init, ctx)>>)]

\* compile: parse, validate, emit; the program, or an error.
Compile(src) ==
    IF /\ \A j \in DOMAIN src.funcs : Parses(src.funcs[j].body)
       /\ Valid(src)
       /\ \A j \in DOMAIN src.funcs : EmitsFunction(src, src.funcs[j])
    THEN [t |-> "PROGRAM", globals |-> GlobalInits(src),
          funcs |-> [j \in DOMAIN src.funcs |-> FunctionOf(src, src.funcs[j])]]
    ELSE CompileError

===============================================================================
