----------------------------- MODULE FasmBytecode -----------------------------
(***************************************************************************)
(* The .fasmc file (fasm-bytecode: encode.rs, opcode.rs, types.rs).  A     *)
(* file is a sequence of fields, written in the order of the code: a       *)
(* number of any width is one field, its value modulo 2^width, and so is   *)
(* the magic number and each name; a string literal is a field per byte,   *)
(* after their number.  Decoding returns what was read and the fields      *)
(* left, or NotDecoded.                                                    *)
(***************************************************************************)
EXTENDS FasmCompiler

NotDecoded == <<>>

-------------------------------------------------------------------------------
(* The opcode and type bytes: blocks of names numbered from a base.          *)
Numbered(base, names) == [x \in Range(names) |->
                             base + (CHOOSE i \in DOMAIN names : names[i] = x) - 1]

OpcodeByte ==
    Numbered(0, <<"NOP", "RESERVE", "RELEASE", "MOV", "STORE", "ADDR">>)
    @@ Numbered(16, <<"ADD", "SUB", "MUL", "DIV", "MOD", "NEG">>)
    @@ Numbered(32, <<"EQ", "NEQ", "LT", "LTE", "GT", "GTE">>)
    @@ Numbered(48, <<"AND", "OR", "XOR", "NOT", "SHL", "SHR">>)
    @@ Numbered(64, <<"JMP", "JZ", "JNZ", "CALL", "ASYNC_CALL", "RET", "AWAIT", "TAIL_CALL",
                      "TMP_BLOCK", "END_TMP">>)
    @@ Numbered(80, <<"SYSCALL", "ASYNC_SYSCALL">>)
    @@ Numbered(96, <<"PUSH", "POP", "ENQUEUE", "DEQUEUE", "PEEK", "GET_IDX", "SET_IDX",
                      "GET_FIELD", "SET_FIELD", "HAS_FIELD", "DEL_FIELD", "LEN", "PREPEND",
                      "POP_BACK", "PEEK_BACK">>)
    @@ Numbered(112, <<"SOME", "IS_SOME", "UNWRAP", "OK", "ERR", "IS_OK", "UNWRAP_OK",
                       "UNWRAP_ERR">>)
    @@ ("CAST" :> 128)
    @@ Numbered(144, <<"TRY", "CATCH", "ENDTRY">>)
    @@ Numbered(160, <<"VEC_SORT", "VEC_FILTER", "VEC_MERGE", "VEC_SLICE", "SPARSE_GET",
                       "SPARSE_SET", "SPARSE_DEL", "SPARSE_HAS", "BTREE_GET", "BTREE_SET",
                       "BTREE_DEL", "BTREE_HAS", "BTREE_MIN", "BTREE_MAX">>)
    @@ Numbered(176, <<"BIT_SET", "BIT_CLR", "BIT_GET", "BIT_FLIP", "BIT_COUNT", "BIT_AND",
                       "BIT_OR", "BIT_XOR", "BIT_GROW">>)
    @@ Numbered(192, <<"BITVEC_READ", "BITVEC_WRITE", "BITVEC_PUSH">>)
    @@ ("HALT" :> 255)

TypeByte ==
    Numbered(1, <<"BOOL", "INT8", "INT16", "INT32", "INT64", "UINT8", "UINT16", "UINT32",
                  "UINT64", "FLOAT32", "FLOAT64">>)
    @@ Numbered(16, <<"REF_MUT", "REF_IMM">>)
    @@ Numbered(32, <<"VEC", "STRUCT", "STACK", "QUEUE", "HEAP_MIN", "HEAP_MAX", "SPARSE",
                      "BTREE", "SLICE", "DEQUE", "BITSET", "BITVEC">>)
    @@ Numbered(48, <<"OPTION", "RESULT", "FUTURE">>)
    @@ ("NULL" :> 255)

OpcodeOf(b) == {op \in DOMAIN OpcodeByte : OpcodeByte[op] = b}
TypeOf(b)   == {ty \in DOMAIN TypeByte : TypeByte[ty] = b}

-------------------------------------------------------------------------------
(* The tag of each operand, and the width of the number after it.            *)
SlotTag    == [LOCAL |-> 0, GLOBAL |-> 1, TMP |-> 4]
DerefTag   == [LOCAL |-> 2, GLOBAL |-> 3, TMP |-> 5]
NumberTag  == Numbered(16, <<"BOOL", "INT8", "INT16", "INT32", "INT64", "UINT8", "UINT16",
                             "UINT32", "UINT64", "FLOAT32", "FLOAT64">>)
TargetTag  == [FUNC |-> 32, LABEL |-> 33, SYSCALL |-> 34, KEY |-> 36]
BuiltInTag == Numbered(0, <<"ARGS", "RET", "FAULT_INDEX", "FAULT_CODE">>)

WidthOf == [LOCAL |-> "UINT8", GLOBAL |-> "UINT16", TMP |-> "UINT8", FUNC |-> "UINT16",
            LABEL |-> "UINT32", SYSCALL |-> "INT32", KEY |-> "UINT32"]

Field(ty, n)    == IF ty \in FloatTypes THEN n ELSE n % 2 ^ Bits[ty]
NumberOf(ty, n) == IF ty = "BOOL" THEN (IF n # 0 THEN 1 ELSE 0)
                   ELSE IF ty \in FloatTypes THEN n ELSE Wrap(ty, n)

\* The tags a byte can stand for.
Tagged(tags, b) == {k \in DOMAIN tags : tags[k] = b}

-------------------------------------------------------------------------------
EncodedString(s) == <<Field("UINT16", Len(s))>> \o s

EncodedImmediate(v) ==
    CASE v.t = "NULL" -> <<27>>
      [] v.t = "STR"  -> <<28>> \o EncodedString(v.s)
      [] v.t = "BOOL" -> <<NumberTag["BOOL"], v.n>>
      [] OTHER        -> <<NumberTag[v.t], Field(v.t, v.n)>>

EncodedOperand(o) ==
    CASE o.k \in DOMAIN SlotTag   -> <<SlotTag[o.k], Field(WidthOf[o.k], o.i)>>
      [] o.k = "DEREF"            -> <<DerefTag[o.in], Field(WidthOf[o.in], o.i)>>
      [] o.k = "BUILTIN"          -> <<6, BuiltInTag[o.b]>>
      [] o.k = "IMM"              -> EncodedImmediate(o.v)
      [] o.k \in DOMAIN TargetTag -> <<TargetTag[o.k], Field(WidthOf[o.k], o.i)>>
      [] o.k = "TYPE"             -> <<35, TypeByte[o.ty]>>

EncodedInstruction(ins) ==
    <<OpcodeByte[ins.op], Field("UINT8", Len(ins.a))>>
    \o FlattenSeq([j \in DOMAIN ins.a |-> EncodedOperand(ins.a[j])])

EncodedParam(p) ==
    <<Field("UINT32", p.key), TypeByte[p.ty], IF p.required THEN 1 ELSE 0, p.name>>

EncodedCode(code) ==
    <<Field("UINT32", Len(code))>>
    \o FlattenSeq([j \in DOMAIN code |-> EncodedInstruction(code[j])])

EncodedFunction(f) ==
    <<f.name, Field("UINT32", Len(f.params))>>
    \o FlattenSeq([j \in DOMAIN f.params |-> EncodedParam(f.params[j])])
    \o EncodedCode(f.code)

\* encode_program.
Encoded(p) ==
    <<"FSMC", 1>> \o EncodedCode(p.globals) \o <<Field("UINT32", Len(p.funcs))>>
    \o FlattenSeq([j \in DOMAIN p.funcs |-> EncodedFunction(p.funcs[j])])

-------------------------------------------------------------------------------
(* Decoding.  Rest(b, n) is what the cursor leaves after n fields.           *)
Rest(b, n) == SubSeq(b, n + 1, Len(b))

DecodedString(b) ==
    IF b = <<>> \/ Len(b) < 1 + b[1] THEN NotDecoded
    ELSE <<SubSeq(b, 2, 1 + b[1]), Rest(b, 1 + b[1])>>

\* The operand whose tag and number are the first two fields: at most one.
SimpleOperand(tag, n) ==
    {Slot(x, Wrap(WidthOf[x], n)) : x \in Tagged(SlotTag, tag)}
    \cup {Deref(x, Wrap(WidthOf[x], n)) : x \in Tagged(DerefTag, tag)}
    \cup {Imm(Num(ty, NumberOf(ty, n))) : ty \in Tagged(NumberTag, tag)}
    \cup {[k |-> x, i |-> Wrap(WidthOf[x], n)] : x \in Tagged(TargetTag, tag)}
    \cup (IF tag = 6 THEN {[k |-> "BUILTIN", b |-> x] : x \in Tagged(BuiltInTag, n)} ELSE {})
    \cup (IF tag = 35 THEN {[k |-> "TYPE", ty |-> x] : x \in TypeOf(n)} ELSE {})

DecodedOperand(b) ==
    IF b = <<>> THEN NotDecoded
    ELSE CASE b[1] = 27 -> <<Imm(Null), Rest(b, 1)>>
           [] b[1] = 28 ->
                LET str == DecodedString(Rest(b, 1))
                IN  IF str = NotDecoded THEN NotDecoded
                    ELSE <<Imm([t |-> "STR", s |-> str[1]]), str[2]>>
           [] OTHER ->
                IF Len(b) < 2 \/ SimpleOperand(b[1], b[2]) = {} THEN NotDecoded
                ELSE <<CHOOSE o \in SimpleOperand(b[1], b[2]) : TRUE, Rest(b, 2)>>

\* Entries of a kind, so many of them, one after the other.
RECURSIVE DecodedEntries(_, _, _, _)

DecodedInstruction(b) ==
    IF Len(b) < 2 \/ OpcodeOf(b[1]) = {} THEN NotDecoded
    ELSE LET list == DecodedEntries("OPERAND", b[2], <<>>, Rest(b, 2))
         IN  IF list = NotDecoded THEN NotDecoded
             ELSE <<Instruction(CHOOSE op \in OpcodeOf(b[1]) : TRUE, list[1]), list[2]>>

DecodedParam(b) ==
    IF Len(b) < 4 \/ TypeOf(b[2]) = {} THEN NotDecoded
    ELSE <<[key |-> b[1], ty |-> CHOOSE ty \in TypeOf(b[2]) : TRUE, name |-> b[4],
            required |-> b[3] # 0], Rest(b, 4)>>

Counted(kind, b) ==
    IF b = <<>> THEN NotDecoded ELSE DecodedEntries(kind, b[1], <<>>, Rest(b, 1))

DecodedFunction(b) ==
    LET params == IF b = <<>> THEN NotDecoded ELSE Counted("PARAM", Rest(b, 1))
        code   == IF params = NotDecoded THEN NotDecoded ELSE Counted("INSTRUCTION", params[2])
    IN  IF code = NotDecoded THEN NotDecoded
        ELSE <<[name |-> b[1], params |-> params[1], code |-> code[1]], code[2]>>

DecodedEntry(kind, b) ==
    CASE kind = "OPERAND"     -> DecodedOperand(b)
      [] kind = "INSTRUCTION" -> DecodedInstruction(b)
      [] kind = "PARAM"       -> DecodedParam(b)
      [] kind = "FUNCTION"    -> DecodedFunction(b)

DecodedEntries(kind, n, done, b) ==
    IF n = 0 THEN <<done, b>>
    ELSE LET entry == DecodedEntry(kind, b)
         IN  IF entry = NotDecoded THEN NotDecoded
             ELSE DecodedEntries(kind, n - 1, Append(done, entry[1]), entry[2])

\* decode_program: what follows the last function is not looked at.
Decoded(b) ==
    LET globals == IF Len(b) < 2 \/ b[1] # "FSMC" THEN NotDecoded
                   ELSE Counted("INSTRUCTION", Rest(b, 2))
        funcs   == IF globals = NotDecoded THEN NotDecoded
                   ELSE Counted("FUNCTION", globals[2])
    IN  IF funcs = NotDecoded THEN NotDecoded
        ELSE <<[t |-> "PROGRAM", globals |-> globals[1], funcs |-> funcs[1]], funcs[2]>>

===============================================================================
