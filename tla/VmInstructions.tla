---------------------------- MODULE VmInstructions ----------------------------
(***************************************************************************)
(* One instruction of the virtual machine, apart from control flow         *)
(* (fasm-vm/src/executor.rs: execute_instruction and the operand helpers   *)
(* under it; memory.rs).  The machine an instruction sees is a record      *)
(*   fr     the top call frame: slots (index -> value, a partial           *)
(*          function), tmps (a stack of TMP frames), args, ret, ip, ...    *)
(*   g      the globals, index -> value                                    *)
(*   fault  "none", or the fault the instruction ended with: what it had   *)
(*          written by then stays written.                                 *)
(* An instruction is [op |-> opcode, a |-> operands]; an operand is        *)
(*   [k |-> "LOCAL" | "TMP" | "GLOBAL", i |-> index]                       *)
(*   [k |-> "DEREF", in |-> one of these three, i |-> index]               *)
(*   [k |-> "BUILTIN", b |-> name]     [k |-> "IMM", v |-> immediate]      *)
(*   [k |-> "KEY" | "LABEL" | "FUNC" | "SYSCALL", i |-> number]            *)
(*   [k |-> "TYPE", ty |-> type]                                           *)
(***************************************************************************)
EXTENDS VmCollections, TLC

CONSTANT TmpSlots     \* the slots of a TMP frame (16 in the code)
ASSUME TmpSlotsAssumption == TmpSlots \in Nat \ {0}

NoFunction == <<>>
Undeclared == Fault("UndeclaredSlot")
Fail(m, v) == [m EXCEPT !.fault = v.f]
Failed(m)  == m.fault # "none"

Put(f, i, v) == [k \in DOMAIN f \cup {i} |-> IF k = i THEN v ELSE f[k]]
Drop(f, i)   == Restrict(f, DOMAIN f \ {i})
Lookup(f, i, missing) == IF i \in DOMAIN f THEN f[i] ELSE missing

-------------------------------------------------------------------------------
(* Operands read.                                                            *)
NoTmp(m, i) == m.fr.tmps = <<>> \/ i >= TmpSlots

CellOf(m, space, i) ==
    CASE space = "LOCAL"  -> Lookup(m.fr.slots, i, Undeclared)
      [] space = "GLOBAL" -> Lookup(m.g, i, Undeclared)
      [] space = "TMP"    -> IF NoTmp(m, i) THEN OutOfBounds
                             ELSE Lookup(Last(m.fr.tmps), i, Undeclared)

\* deref_value: what is not a reference dereferences to itself.
DerefValue(m, r) ==
    CASE r.t \in {"REF_MUT", "REF_IMM"} ->
           Lookup(IF r.ref[1] THEN m.g ELSE m.fr.slots, r.ref[2], Fault("NullDeref"))
      [] r.t = "NULL" -> Fault("NullDeref")
      [] OTHER -> r

BuiltInValue(m, b) ==
    CASE b = "ARGS"  -> m.fr.args
      [] b = "FAULT_INDEX" -> U32(m.fr.ip)
      [] b \in {"RET", "FAULT_CODE"} -> m.fr.ret

\* imm_to_value: a string literal is the vector of its bytes.
ImmToValue(v) ==
    IF v.t = "STR" THEN List("VEC", [i \in DOMAIN v.s |-> Num("UINT8", v.s[i])]) ELSE v

ReadOperand(m, o) ==
    CASE o.k \in {"LOCAL", "GLOBAL", "TMP"} -> CellOf(m, o.k, o.i)
      [] o.k = "DEREF"   -> DerefValue(m, CellOf(m, o.in, o.i))
      [] o.k = "BUILTIN" -> BuiltInValue(m, o.b)
      [] o.k = "IMM"     -> ImmToValue(o.v)
      [] OTHER           -> TypeMismatch

\* read_key_operand: a key, a UINT32 immediate, or the integer in a slot.
ReadKey(m, o) ==
    CASE o.k = "KEY" -> Num("UINT32", o.i)
      [] o.k = "IMM" -> IF o.v.t = "UINT32" THEN o.v ELSE TypeMismatch
      [] OTHER       -> AsU32(ReadOperand(m, o))

-------------------------------------------------------------------------------
(* Operands written.                                                         *)
PutCell(m, space, i, v) ==
    CASE space = "LOCAL"  -> [m EXCEPT !.fr.slots = Put(@, i, v)]
      [] space = "GLOBAL" -> [m EXCEPT !.g = Put(@, i, v)]
      [] space = "TMP"    -> IF NoTmp(m, i) THEN Fail(m, OutOfBounds)
                             ELSE [m EXCEPT !.fr.tmps[Len(m.fr.tmps)] = Put(@, i, v)]

\* Mutant of DerefWrite: every reference is taken for one to a local slot.
DerefWriteLocal(m, r, v) ==
    CASE r.t = "REF_MUT" -> PutCell(m, "LOCAL", r.ref[2], v)
      [] r.t = "REF_IMM" -> Fail(m, Fault("WriteAccessViolation"))
      [] r.t = "NULL"    -> Fail(m, Fault("NullDeref"))
      [] IsFault(r)      -> Fail(m, r)
      [] OTHER           -> Fail(m, TypeMismatch)

\* deref_write: a write through a reference goes to the slot or the global it
\* was taken of.
DerefWrite(m, r, v) ==
    CASE r.t = "REF_MUT" -> PutCell(m, IF r.ref[1] THEN "GLOBAL" ELSE "LOCAL", r.ref[2], v)
      [] r.t = "REF_IMM" -> Fail(m, Fault("WriteAccessViolation"))
      [] r.t = "NULL"    -> Fail(m, Fault("NullDeref"))
      [] IsFault(r)      -> Fail(m, r)
      [] OTHER           -> Fail(m, TypeMismatch)

\* A value that is a fault is not written: the instruction has failed.
WriteOperand(m, o, v) ==
    CASE IsFault(v) -> Fail(m, v)
      [] ~IsFault(v) /\ o.k \in {"LOCAL", "GLOBAL", "TMP"} -> PutCell(m, o.k, o.i, v)
      [] ~IsFault(v) /\ o.k = "DEREF"   -> DerefWrite(m, CellOf(m, o.in, o.i), v)
      [] ~IsFault(v) /\ o.k = "BUILTIN" ->
           IF o.b = "RET" THEN [m EXCEPT !.fr.ret = v]
                          ELSE Fail(m, Fault("WriteAccessViolation"))
      [] OTHER -> Fail(m, TypeMismatch)

\* write_target_mut: only a slot named directly can be updated in place.
TargetValue(m, o) ==
    IF o.k \in {"LOCAL", "GLOBAL", "TMP"} THEN CellOf(m, o.k, o.i) ELSE TypeMismatch

-------------------------------------------------------------------------------
(* What an instruction reads, in the order it reads it: the position of the  *)
(* operand and the conversion it applies (V none, U as_u32, W as_u64, K key).*)
Reading(ops, sources) == [o \in ops |-> sources]
f ++ g == [o \in DOMAIN f \cup DOMAIN g |-> IF o \in DOMAIN f THEN f[o] ELSE g[o]]

ArithmeticOps == {"ADD", "SUB", "MUL", "DIV", "MOD"}
ComparisonOps == {"EQ", "NEQ", "LT", "LTE", "GT", "GTE"}
BitwiseOps    == {"AND", "OR", "XOR"}
ShiftOps      == {"SHL", "SHR"}
UnaryOps      == {"MOV", "STORE", "NEG", "NOT", "AWAIT", "PEEK", "PEEK_BACK", "LEN",
                  "IS_SOME", "UNWRAP", "IS_OK", "UNWRAP_OK", "UNWRAP_ERR",
                  "BTREE_MIN", "BTREE_MAX", "BIT_COUNT", "CAST"}
KeyedReads    == {"SPARSE_GET", "SPARSE_HAS", "BTREE_GET", "BTREE_HAS", "BIT_GET"}
FieldReads    == {"GET_FIELD", "HAS_FIELD"}

ScalarReads ==
    Reading(UnaryOps, << <<1, "V">> >>)
    ++ Reading(ArithmeticOps \cup ComparisonOps \cup BitwiseOps, << <<1, "V">>, <<2, "V">> >>)
    ++ Reading(ShiftOps \cup {"GET_IDX"}, << <<1, "V">>, <<2, "U">> >>)
    ++ Reading({"SOME", "OK"}, << <<2, "V">> >>)
    ++ Reading({"ERR"}, << <<2, "U">> >>)

CollectionReads ==
    Reading(KeyedReads, << <<2, "U">>, <<1, "V">> >>)
    ++ Reading(FieldReads, << <<2, "K">>, <<1, "V">> >>)
    ++ Reading({"VEC_FILTER"}, << <<1, "V">>, <<2, "U">>, <<3, "V">> >>)
    ++ Reading({"VEC_SLICE"}, << <<1, "V">>, <<2, "U">>, <<3, "U">> >>)
    ++ Reading({"VEC_MERGE"}, << <<1, "V">>, <<2, "V">> >>)
    ++ Reading({"BITVEC_READ"}, << <<2, "W">>, <<3, "U">>, <<1, "V">> >>)

ReadingOps == DOMAIN ScalarReads \cup DOMAIN CollectionReads

UpdateReads ==
    Reading({"PUSH", "ENQUEUE", "PREPEND", "BIT_AND", "BIT_OR", "BIT_XOR"}, << <<2, "V">> >>)
    ++ Reading({"SET_IDX", "SPARSE_SET", "BTREE_SET"}, << <<2, "U">>, <<3, "V">> >>)
    ++ Reading({"SET_FIELD"}, << <<2, "K">>, <<3, "V">> >>)
    ++ Reading({"DEL_FIELD"}, << <<2, "K">> >>)
    ++ Reading({"SPARSE_DEL", "BTREE_DEL", "BIT_SET", "BIT_CLR", "BIT_FLIP", "BIT_GROW"},
               << <<2, "U">> >>)
    ++ Reading({"VEC_SORT"}, <<>>)
    ++ Reading({"BITVEC_WRITE"}, << <<2, "W">>, <<3, "U">>, <<4, "W">> >>)
    ++ Reading({"BITVEC_PUSH"}, << <<2, "W">>, <<3, "U">> >>)

UpdatingOps == DOMAIN UpdateReads
TakingOps   == {"POP", "DEQUEUE", "POP_BACK"}

SourcesOf(op) == (ScalarReads ++ CollectionReads ++ UpdateReads)[op]

Converted(m, o, how) ==
    CASE how = "V" -> ReadOperand(m, o)
      [] how = "U" -> AsU32(ReadOperand(m, o))
      [] how = "W" -> AsU64(ReadOperand(m, o))
      [] how = "K" -> ReadKey(m, o)

SourceValues(m, ins) ==
    [j \in DOMAIN SourcesOf(ins.op) |->
        Converted(m, ins.a[SourcesOf(ins.op)[j][1]], SourcesOf(ins.op)[j][2])]

-------------------------------------------------------------------------------
(* What a reading instruction computes from its sources x.                   *)
ArithmeticResult(op, x) ==
    IF op \in {"DIV", "MOD"} /\ ~IsTruthy(x[2]) THEN Fault("DivisionByZero")
    ELSE NumericOp(op, x[1], x[2])

ComparisonResult(op, x) ==
    CASE op = "EQ"  -> Bool(EqVal(x[1], x[2]))
      [] op = "NEQ" -> Bool(~EqVal(x[1], x[2]))
      [] OTHER      -> NumericCmp(op, x[1], x[2])

BitwiseResult(op, x) ==
    CASE op \in BitwiseOps -> BitwiseOp(op, x[1], x[2])
      [] op = "NOT"        -> BitNot(x[1])
      [] op = "SHL"        -> ShiftLeft(x[1], x[2].n)
      [] op = "SHR"        -> ShiftRight(x[1], x[2].n)

ListResult(op, x) ==
    CASE op = "PEEK"      -> Peeked(x[1])
      [] op = "PEEK_BACK" -> PeekedBack(x[1])
      [] op = "GET_IDX"   -> ElementAt(x[1], x[2])
      [] op = "LEN"       -> LengthOf(x[1])
      [] op = "VEC_FILTER" -> Filtered(x[1], x[2], x[3])
      [] op = "VEC_SLICE" -> VecSliced(x[1], x[2], x[3])
      [] op = "VEC_MERGE" -> VecMerged(x[1], x[2])

Computed(ins, x) ==
    LET op == ins.op
    IN  CASE op \in {"MOV", "STORE"}     -> x[1]
          [] op \in ArithmeticOps        -> ArithmeticResult(op, x)
          [] op = "NEG"                  -> Negate(x[1])
          [] op \in ComparisonOps        -> ComparisonResult(op, x)
          [] op \in BitwiseOps \cup ShiftOps \cup {"NOT"} -> BitwiseResult(op, x)
          [] op = "CAST"                 -> CastValue(x[1], ins.a[2].ty)
          [] op \in {"SOME", "OK", "ERR"} -> WrapperMade(op, x[1])
          [] op \in {"IS_SOME", "UNWRAP", "IS_OK", "UNWRAP_OK", "UNWRAP_ERR"} ->
                                            WrapperResult(op, x[1])
          [] op = "AWAIT"                -> Awaited(x[1])
          [] op \in FieldReads           -> FieldResult(op, x[1], x[2])
          [] op \in KeyedReads \ {"BIT_GET"} -> MapResult(op, x[1], x[2])
          [] op \in {"BTREE_MIN", "BTREE_MAX"} -> EndKey(op, x[1])
          [] op \in {"BIT_GET", "BIT_COUNT"}   -> BitsetResult(op, x)
          [] op = "BITVEC_READ"          -> BitvecRead(x[3], x[1], x[2])
          [] OTHER                       -> ListResult(op, x)

\* The collection c after an updating instruction.
Changed(op, c, x) ==
    CASE op \in {"PUSH", "ENQUEUE"}       -> Appended(op, c, x)
      [] op = "PREPEND"                   -> Prepended(c, x)
      [] op = "SET_IDX"                   -> ElementReplaced(c, x[1], x[2])
      [] op \in {"SET_FIELD", "DEL_FIELD"} -> FieldChanged(op, c, x)
      [] op \in {"SPARSE_SET", "SPARSE_DEL", "BTREE_SET", "BTREE_DEL"} ->
                                             MapChanged(op, c, x)
      [] op = "VEC_SORT"                  -> VecSorted(c)
      [] op \in {"BIT_SET", "BIT_CLR", "BIT_FLIP", "BIT_GROW"} ->
                                             BitsetChanged(op, c, x)
      [] op \in {"BIT_AND", "BIT_OR", "BIT_XOR"} -> BitsetCombined(op, c, x[1])
      [] OTHER                            -> BitvecChanged(op, c, x)

-------------------------------------------------------------------------------
(* The four kinds of data instruction.                                       *)
FirstFault(x) == x[Min({j \in DOMAIN x : IsFault(x[j])})]
AnyFault(x)   == \E j \in DOMAIN x : IsFault(x[j])

TargetPosition(ins) == IF ins.op \in {"SOME", "OK", "ERR"} THEN 1 ELSE Len(ins.a)

ReadAndWrite(m, ins) ==
    LET x == SourceValues(m, ins)
    IN  IF AnyFault(x) THEN Fail(m, FirstFault(x))
        ELSE WriteOperand(m, ins.a[TargetPosition(ins)], Computed(ins, x))

Released(m, o) ==
    CASE o.k = "LOCAL"  -> [m EXCEPT !.fr.slots = Drop(@, o.i)]
      [] o.k = "GLOBAL" -> [m EXCEPT !.g = Drop(@, o.i)]
      [] o.k = "TMP" /\ ~NoTmp(m, o.i) ->
                           [m EXCEPT !.fr.tmps[Len(m.fr.tmps)] = Drop(@, o.i)]
      [] OTHER -> m

\* Mutant of UpdateInPlace: the collection is moved out of its slot for the
\* update, and a fault of the update forgets it there.
UpdateMovedOut(m, ins) ==
    LET x == SourceValues(m, ins)
        c == TargetValue(m, ins.a[1])
    IN  CASE AnyFault(x) -> Fail(m, FirstFault(x))
          [] ~AnyFault(x) /\ IsFault(c) -> Fail(m, c)
          [] ~AnyFault(x) /\ ~IsFault(c) ->
               WriteOperand(Released(m, ins.a[1]), ins.a[1], Changed(ins.op, c, x))

\* Read the sources, borrow the slot, change it where it is.
UpdateInPlace(m, ins) ==
    LET x == SourceValues(m, ins)
        c == TargetValue(m, ins.a[1])
    IN  CASE AnyFault(x) -> Fail(m, FirstFault(x))
          [] ~AnyFault(x) /\ IsFault(c) -> Fail(m, c)
          [] ~AnyFault(x) /\ ~IsFault(c) ->
               WriteOperand(m, ins.a[1], Changed(ins.op, c, x))

\* The element is gone from the collection before the target is written: when
\* the target cannot be written, the instruction faults and the element is lost.
TakeAndWrite(m, ins) ==
    LET c == TargetValue(m, ins.a[1])
        e == IF IsFault(c) THEN c ELSE Taken(ins.op, c)
    IN  IF IsFault(e) THEN Fail(m, e)
        ELSE WriteOperand(WriteOperand(m, ins.a[1], e.rest), ins.a[2], e.out)

\* A NULL initial value stands for the default of the type; any other is kept
\* as it is, whatever its type.
InitialValue(ty, o) ==
    IF o.k = "IMM" /\ o.v.t # "NULL" THEN ImmToValue(o.v) ELSE DefaultForType(ty)

SlotAddress(o) ==
    [t |-> "REF_MUT", ref |-> IF o.k \in {"LOCAL", "GLOBAL"} THEN <<o.k = "GLOBAL", o.i>>
                                                           ELSE <<FALSE, 0>>]

MemoryOps == {"NOP", "TMP_BLOCK", "END_TMP", "RESERVE", "RELEASE", "ADDR"}

MemoryStep(m, ins) ==
    CASE ins.op = "NOP" -> m
      [] ins.op = "TMP_BLOCK" -> [m EXCEPT !.fr.tmps = Append(@, NoFunction)]
      [] ins.op = "END_TMP" ->
           IF m.fr.tmps = <<>> THEN Fail(m, OutOfBounds) ELSE [m EXCEPT !.fr.tmps = Front(@)]
      [] ins.op = "RESERVE" -> WriteOperand(m, ins.a[1], InitialValue(ins.a[2].ty, ins.a[3]))
      [] ins.op = "RELEASE" -> Released(m, ins.a[1])
      [] ins.op = "ADDR"    -> WriteOperand(m, ins.a[2], SlotAddress(ins.a[1]))

DataOps == ReadingOps \cup UpdatingOps \cup TakingOps \cup MemoryOps

\* What an instruction that is not control flow does to the machine.
DataStep(m, ins) ==
    CASE ins.op \in ReadingOps  -> ReadAndWrite(m, ins)
      [] ins.op \in UpdatingOps -> UpdateInPlace(m, ins)
      [] ins.op \in TakingOps   -> TakeAndWrite(m, ins)
      [] ins.op \in MemoryOps   -> MemoryStep(m, ins)

===============================================================================
