----------------------------- MODULE JitCompiler -----------------------------
(***************************************************************************)
(* The JIT (fasm-jit: analyze.rs, codegen.rs, lib.rs): which functions of  *)
(* a program are compiled to machine code, and what that code does.        *)
(*                                                                         *)
(* Machine code keeps every local slot in a variable of its own, I32 or    *)
(* I64, set to zero once when the function is entered; RESERVE, RELEASE    *)
(* and TMP blocks do nothing, a tail call to itself is a jump to the       *)
(* start, and the $args it reads are variables too.  Slots of a float type *)
(* are left out: functions that declare one are not native here (the code  *)
(* compiles them, but passes their arguments in integer registers).  The   *)
(* code generator's own type checks (a $ret, or an argument of a tail      *)
(* call, of another width than declared) are not modelled.                 *)
(***************************************************************************)
EXTENDS VmInstructions

NativeType == [t \in {"BOOL", "INT8", "INT16", "INT32", "UINT8", "UINT16", "UINT32"} |-> "I32"]
              @@ [t \in {"INT64", "UINT64"} |-> "I64"]
NativeArgs == 8       \* a function of more parameters is left to the interpreter

-------------------------------------------------------------------------------
(* Eligibility: analyze_function.                                            *)
Lines(code, ops) == {i \in DOMAIN code : code[i].op \in ops}

IsLocal(o) == o.k = "LOCAL"

ReservesAllowed(code) ==
    \A i \in Lines(code, {"RESERVE"}) :
        IsLocal(code[i].a[1]) /\ code[i].a[2].ty \in DOMAIN NativeType \cup {"STRUCT"}

\* The type of each numeric slot, from the last RESERVE that gives it one.
SlotTypes(code) ==
    LET numeric  == {i \in Lines(code, {"RESERVE"}) : code[i].a[2].ty \in DOMAIN NativeType}
        of(s)    == {i \in numeric : code[i].a[1].i = s}
    IN  [s \in {code[i].a[1].i : i \in numeric} |-> NativeType[code[Max(of(s))].a[2].ty]]

StructSlots(code) ==
    {code[i].a[1].i : i \in {j \in Lines(code, {"RESERVE"}) : code[j].a[2].ty = "STRUCT"}}

ParamsAllowed(params) == \A p \in DOMAIN params : params[p].ty \in DOMAIN NativeType
ParamTypes(params)    == [p \in DOMAIN params |-> NativeType[params[p].ty]]

\* A RET of a local fixes the type of the result; a bare RET, RET $ret and the
\* RET of an immediate do not.
LocalRets(code) == {i \in Lines(code, {"RET"}) : code[i].a # <<>> /\ IsLocal(code[i].a[1])}
RetTypes(code)  == {SlotTypes(code)[code[i].a[1].i] : i \in LocalRets(code)}
RetsAllowed(code) ==
    /\ \A i \in LocalRets(code) : code[i].a[1].i \in DOMAIN SlotTypes(code)
    /\ \A i \in Lines(code, {"RET"}) \ LocalRets(code) :
          \/ code[i].a = <<>>
          \/ code[i].a[1].k = "IMM"
          \/ code[i].a[1] = [k |-> "BUILTIN", b |-> "RET"]
    /\ Cardinality(RetTypes(code)) <= 1
RetType(code) == IF RetTypes(code) = {} THEN "I64" ELSE CHOOSE t \in RetTypes(code) : TRUE

BinaryNativeOps == ArithmeticOps \cup ComparisonOps \cup BitwiseOps \cup ShiftOps
NativeOps == {"NOP", "RESERVE", "RELEASE", "MOV", "STORE", "NEG", "NOT", "JMP", "JZ", "JNZ",
              "RET", "HALT", "CAST", "TMP_BLOCK", "END_TMP"}
             \cup BinaryNativeOps

OpcodeAllowed(ins, structs, self) ==
    \/ ins.op \in NativeOps
    \/ ins.op = "GET_FIELD" /\ ins.a[1] = [k |-> "BUILTIN", b |-> "ARGS"]
    \/ ins.op = "SET_FIELD" /\ IsLocal(ins.a[1]) /\ ins.a[1].i \in structs
    \/ ins.op = "TAIL_CALL" /\ ins.a[1].i = self

Eligible(p, f) ==
    LET fn == p.funcs[f + 1]
    IN  /\ ReservesAllowed(fn.code)
        /\ ParamsAllowed(fn.params)
        /\ RetsAllowed(fn.code)
        /\ \A i \in DOMAIN fn.code : OpcodeAllowed(fn.code[i], StructSlots(fn.code), f)

-------------------------------------------------------------------------------
(* Code generation: compile_fn and compile_program.                          *)
Readable(o, slots) ==
    \/ IsLocal(o) /\ o.i \in slots
    \/ o = [k |-> "BUILTIN", b |-> "RET"]
    \/ o.k = "IMM" /\ o.v.t # "STR"
Writable(o, slots) == o.k # "IMM" /\ Readable(o, slots)

\* The SET_FIELD whose value argument `key` of the tail call at line i takes:
\* the last one before it in the text.
SettersOf(code, i, key) ==
    {j \in Lines(code, {"SET_FIELD"}) :
        j < i /\ code[j].a[1] = code[i].a[2] /\ code[j].a[2] = [k |-> "KEY", i |-> key]}

InstructionCompiles(fn, i) ==
    LET ins   == fn.code[i]
        slots == DOMAIN SlotTypes(fn.code)
        keys  == {fn.params[p].key : p \in DOMAIN fn.params}
    IN  CASE ins.op \in {"MOV", "NEG", "NOT"} ->
               Readable(ins.a[1], slots) /\ Writable(ins.a[2], slots)
          [] ins.op = "STORE" -> ins.a[1].k = "IMM" /\ Readable(ins.a[1], slots)
                                 /\ Writable(ins.a[2], slots)
          [] ins.op \in BinaryNativeOps ->
               Readable(ins.a[1], slots) /\ Readable(ins.a[2], slots)
               /\ Writable(ins.a[3], slots)
          [] ins.op \in {"JZ", "JNZ"} -> Readable(ins.a[1], slots)
          [] ins.op = "GET_FIELD" -> ins.a[2].i \in keys /\ Writable(ins.a[3], slots)
          [] ins.op = "SET_FIELD" -> ins.a[2].k = "KEY" /\ Readable(ins.a[3], slots)
          [] ins.op = "TAIL_CALL" ->
               IsLocal(ins.a[2]) /\ \A k \in keys : SettersOf(fn.code, i, k) # {}
          [] ins.op = "RET" -> ins.a = <<>> \/ Readable(ins.a[1], slots)
          [] ins.op = "CAST" -> Readable(ins.a[1], slots) /\ ins.a[2].ty \in DOMAIN NativeType
                                /\ Writable(ins.a[3], slots)
          [] OTHER -> TRUE

\* One eligible function that does not compile leaves the program without a JIT.
NativeFunctions(p) ==
    LET eligible == {f \in 0 .. Len(p.funcs) - 1 : Eligible(p, f)}
    IN  IF \A f \in eligible : \A i \in DOMAIN p.funcs[f + 1].code :
               InstructionCompiles(p.funcs[f + 1], i)
        THEN eligible ELSE {}

-------------------------------------------------------------------------------
(* What machine code computes.  A value in a register is [ty, n].            *)
IntOf     == [I32 |-> "INT32", I64 |-> "INT64"]
Reg(ty, n) == [ty |-> ty, n |-> Wrap(IntOf[ty], n)]
Zero(ty)   == Reg(ty, 0)
Coerced(r, ty) == Reg(ty, r.n)

ImmediateReg(v, hint) == IF v.t = "NULL" THEN Zero(hint) ELSE Reg(NativeType[v.t], v.n)

\* The state of a run: the line, the variables of slots, parameters and $ret,
\* and what each SET_FIELD stored when it last ran (a zero until then, which no
\* tail call reads: Cranelift takes no code where a SET_FIELD may not have run
\* before the tail call that hands its value over).
Entered(fn, args) ==
    LET ty == SlotTypes(fn.code)
    IN  [at     |-> 1,
         slots  |-> [s \in DOMAIN ty |-> Zero(ty[s])],
         params |-> [k \in {fn.params[p].key : p \in DOMAIN fn.params} |->
                        args[Max({p \in DOMAIN fn.params : fn.params[p].key = k})]],
         ret    |-> Zero(RetType(fn.code)),
         set    |-> [i \in Lines(fn.code, {"SET_FIELD"}) |-> Zero("I32")]]

ReadReg(s, o) ==
    CASE o.k = "LOCAL"   -> s.slots[o.i]
      [] o.k = "BUILTIN" -> s.ret
      [] o.k = "IMM"     -> ImmediateReg(o.v, s.ret.ty)

WriteReg(s, o, r) ==
    IF o.k = "LOCAL" THEN [s EXCEPT !.slots[o.i] = Coerced(r, @.ty)] ELSE [s EXCEPT !.ret = r]

\* Division by zero, or of the least number by -1, traps and ends the process.
Traps(op, a, b) ==
    /\ op \in {"DIV", "MOD"}
    /\ \/ b.n = 0
       \/ b.n = -1 /\ a.n = -(2 ^ (Bits[IntOf[a.ty]] - 1))

\* emit_binop and emit_cmp: the type is the first operand's, and shifts and
\* comparisons are signed.
Arithmetic(op, a, b) ==
    LET w == Bits[IntOf[a.ty]]
    IN  CASE op \in ArithmeticOps -> Reg(a.ty, Calculate(op, a.n, b.n))
          [] op \in BitwiseOps ->
               Reg(a.ty, FromBits(Bitwise(op, BitsOf(a.n, w), BitsOf(b.n, w))))
          [] op = "SHL" -> Reg(a.ty, a.n * 2 ^ (b.n % w))
          [] op = "SHR" -> Reg(a.ty, a.n \div 2 ^ (b.n % w))

Compared(op, a, b) ==
    LET holds == IF op \in {"EQ", "NEQ"} THEN (a.n = b.n) = (op = "EQ")
                 ELSE Compare(op, a.n, b.n)
    IN  Reg("I32", IF holds THEN 1 ELSE 0)

Combined(op, a, b) == IF op \in ComparisonOps THEN Compared(op, a, b) ELSE Arithmetic(op, a, b)

Unary(ins, r) ==
    CASE ins.op \in {"MOV", "STORE"} -> r
      [] ins.op = "NEG"  -> Reg(r.ty, -r.n)
      [] ins.op = "NOT"  -> Reg(r.ty, -r.n - 1)
      [] ins.op = "CAST" -> Coerced(r, NativeType[ins.a[2].ty])

Branches(op, r) == (op = "JZ") = (r.n = 0)

\* The state after a line that neither branches nor returns.
NativeStep(fn, s) ==
    LET ins == fn.code[s.at]
        a   == ReadReg(s, ins.a[1])
        b   == Coerced(ReadReg(s, ins.a[2]), a.ty)
        t   == CASE ins.op \in {"MOV", "STORE", "NEG", "NOT", "CAST"} ->
                      WriteReg(s, Last(ins.a), Unary(ins, a))
                 [] ins.op \in BinaryNativeOps -> WriteReg(s, ins.a[3], Combined(ins.op, a, b))
                 [] ins.op = "GET_FIELD" -> WriteReg(s, ins.a[3], s.params[ins.a[2].i])
                 [] ins.op = "SET_FIELD" -> [s EXCEPT !.set[s.at] = ReadReg(s, ins.a[3])]
                 [] OTHER -> s
    IN  [t EXCEPT !.at = @ + 1]

Trapping(fn, s) ==
    LET ins == fn.code[s.at]
        a   == ReadReg(s, ins.a[1])
    IN  ins.op \in {"DIV", "MOD"} /\ Traps(ins.op, a, Coerced(ReadReg(s, ins.a[2]), a.ty))

\* The states of a run.
Registers == [ty : {"I32", "I64"}, n : Int]

NativeStates(fn) ==
    [at     : Nat,
     slots  : [DOMAIN SlotTypes(fn.code) -> Registers],
     params : [{fn.params[p].key : p \in DOMAIN fn.params} -> Registers],
     ret    : Registers,
     set    : [Lines(fn.code, {"SET_FIELD"}) -> Registers]]

\* The result of the run from state start, as a register; [ty |-> "TRAP"] if it
\* traps.  A tail call puts the stored arguments in place and starts again.
NativeRun(fn, start) ==
    LET ret == RetType(fn.code)
        run[s \in NativeStates(fn)] ==
            LET ins == fn.code[s.at]
            IN  IF s.at > Len(fn.code) THEN Zero(ret)
                ELSE CASE ins.op = "HALT" -> Zero(ret)
                       [] ins.op = "RET" ->
                            IF ins.a = <<>> THEN Zero(ret) ELSE Coerced(ReadReg(s, ins.a[1]), ret)
                       [] ins.op = "TAIL_CALL" ->
                            run[[s EXCEPT !.at = 1,
                                 !.params = [k \in DOMAIN @ |->
                                                s.set[Max(SettersOf(fn.code, s.at, k))]]]]
                       [] ins.op \in {"JMP", "JZ", "JNZ"} ->
                            LET taken == \/ ins.op = "JMP"
                                         \/ Branches(ins.op, ReadReg(s, ins.a[1]))
                            IN  run[[s EXCEPT !.at = IF taken THEN Last(ins.a).i + 1 ELSE @ + 1]]
                       [] OTHER -> IF Trapping(fn, s) THEN [ty |-> "TRAP"]
                                   ELSE run[NativeStep(fn, s)]
    IN  run[start]

-------------------------------------------------------------------------------
(* The dispatcher: pack_args, call_jit, unpack_ret.                          *)
FieldsOf(args) == IF args.t = "STRUCT" THEN KeysOf(args.e) ELSE {}

\* $args must be a STRUCT with a number for every declared parameter.
ArgsFit(fn, args) ==
    /\ args.t = "STRUCT"
    /\ Len(fn.params) <= NativeArgs
    /\ \A p \in DOMAIN fn.params :
          /\ fn.params[p].key \in FieldsOf(args)
          /\ LET v == args.e[PlaceOf(args.e, fn.params[p].key)][2]
             IN  IsIntegral(v) \/ IsFloat(v)

NoDispatch == [t |-> "NOT_NATIVE"]
Trapped    == [t |-> "TRAP"]

\* The value machine code returns, an INT32 or INT64 whatever the slot's type;
\* NoDispatch leaves the call to the interpreter.  native is the set of
\* compiled functions.
Dispatch(native, p, f, args) ==
    LET fn == p.funcs[f + 1]
        packed == [q \in DOMAIN fn.params |->
                      Reg(ParamTypes(fn.params)[q],
                          args.e[PlaceOf(args.e, fn.params[q].key)][2].n)]
        r == NativeRun(fn, Entered(fn, packed))
    IN  IF f \notin native \/ ~ArgsFit(fn, args) THEN NoDispatch
        ELSE IF r.ty = "TRAP" THEN Trapped ELSE Num(IntOf[r.ty], r.n)

===============================================================================
