------------------------------ MODULE FasmValues ------------------------------
(***************************************************************************)
(* The values of the FASM virtual machine and the operations on the        *)
(* numeric ones (fasm-vm/src/value.rs, and the helpers at the end of       *)
(* executor.rs).  A value is a record whose field t is its type name:      *)
(*   numbers     [t |-> "INT32", n |-> 5]   BOOL is 0 or 1; a float is the *)
(*               whole number it holds (rounding is not modelled)          *)
(*   sequences   [t |-> "VEC", s |-> <<...>>]   STACK, QUEUE, DEQUE, ...   *)
(*   maps        [t |-> "SPARSE", m |-> key :> value]   and BTREE          *)
(*   STRUCT      [t, e |-> <<<<key, value>>, ...>>]   in insertion order   *)
(*   bit arrays  [t |-> "BITSET", bytes |-> <<set of bit numbers, ...>>,   *)
(*                len |-> length in bits]   and BITVEC                     *)
(*   OPTION, RESULT and FUTURE hold <<>> or <<value>> in o (RESULT also    *)
(*   the fault code); REF_MUT and REF_IMM the pair <<is_global, index>>.   *)
(* A fault is the value [t |-> "FAULT", f |-> its name]; the fault "Panic" *)
(* stands for a Rust panic, which no program can catch.                    *)
(* Widths are a parameter, so that TLC can use narrow types; the build     *)
(* modelled is the release build, in which integer overflow wraps.         *)
(***************************************************************************)
EXTENDS Integers, Sequences, FiniteSets, FiniteSetsExt

CONSTANT Bits      \* the width in bits of every integer type

SignedTypes   == {"INT8", "INT16", "INT32", "INT64"}
UnsignedTypes == {"UINT8", "UINT16", "UINT32", "UINT64"}
IntTypes      == SignedTypes \cup UnsignedTypes
FloatTypes    == {"FLOAT32", "FLOAT64"}

ASSUME BitsAssumption ==
    /\ Bits \in [IntTypes -> Nat \ {0}]
    /\ Bits["UINT64"] = Bits["INT64"]
    /\ \A t \in IntTypes \ {"INT64", "UINT64"} : Bits[t] < Bits["INT64"]

\* What the powers of two are; the provers are told nothing about ^.
ASSUME PowersAssumption ==
    2 ^ 0 = 1 /\ \A k \in 0 .. Bits["INT64"] - 1 : 2 ^ (k + 1) = 2 * 2 ^ k

Fault(name)  == [t |-> "FAULT", f |-> name]
IsFault(v)   == v.t = "FAULT"
FaultCode    == [NullDeref |-> 1, IndexOutOfBounds |-> 2, FieldNotFound |-> 3,
                 DivisionByZero |-> 4, StackOverflow |-> 5, UnwrapFault |-> 6,
                 WriteAccessViolation |-> 7, TypeMismatch |-> 8,
                 UndeclaredSlot |-> 9, BadSyscall |-> 10]
TypeMismatch == Fault("TypeMismatch")
Panic        == Fault("Panic")

Num(t, n) == [t |-> t, n |-> n]
Null      == [t |-> "NULL"]
Bool(b)   == Num("BOOL", IF b THEN 1 ELSE 0)

\* The `as` conversion of Rust: the value of integer type t that is n modulo 2^w.
Wrap(t, n) ==
    LET m == 2 ^ Bits[t]
        r == n % m
    IN  IF t \in SignedTypes /\ r >= m \div 2 THEN r - m ELSE r

IsIntegral(v) == v.t \in IntTypes \cup {"BOOL"}
IsFloat(v)    == v.t \in FloatTypes

\* numeric_as_i64: defined on the integral values; UINT64 is reinterpreted.
AsI64(v) == Wrap("INT64", v.n)

IsTruthy(v) == IF "n" \in DOMAIN v THEN v.n # 0 ELSE v.t # "NULL"

-------------------------------------------------------------------------------
(* Arithmetic: division truncates toward zero, the remainder follows it.    *)
Abs(a)        == IF a < 0 THEN -a ELSE a
\* Mutant of Quotient: rounds down.
FloorQuotient(a, b) == IF b < 0 THEN (-a) \div (-b) ELSE a \div b

Quotient(a, b) == LET q == Abs(a) \div Abs(b) IN IF (a < 0) # (b < 0) THEN -q ELSE q

Calculate(op, a, b) ==
    CASE op = "ADD" -> a + b
      [] op = "SUB" -> a - b
      [] op = "MUL" -> a * b
      [] op = "DIV" -> Quotient(a, b)
      [] op = "MOD" -> a - b * Quotient(a, b)

\* i64::MIN / -1 (and the remainder) panic in every build.
Unrepresentable(op, a, b) ==
    op \in {"DIV", "MOD"} /\ b = -1 /\ a = -(2 ^ (Bits["INT64"] - 1))

NumericOp(op, a, b) ==
    IF a.t # b.t THEN TypeMismatch
    ELSE IF IsFloat(a) THEN Num(a.t, Calculate(op, a.n, b.n))
    ELSE IF a.t \notin IntTypes THEN TypeMismatch
    ELSE IF Unrepresentable(op, AsI64(a), AsI64(b)) THEN Panic
    ELSE Num(a.t, Wrap(a.t, Wrap("INT64", Calculate(op, AsI64(a), AsI64(b)))))

Negate(v) ==
    CASE v.t \in SignedTypes -> Num(v.t, Wrap(v.t, -v.n))
      [] IsFloat(v)          -> Num(v.t, -v.n)
      [] OTHER               -> TypeMismatch

Compare(op, a, b) ==
    CASE op = "LT"  -> a < b
      [] op = "LTE" -> a <= b
      [] op = "GT"  -> a > b
      [] op = "GTE" -> a >= b

NumericCmp(op, a, b) ==
    CASE IsFloat(a) /\ a.t = b.t           -> Bool(Compare(op, a.n, b.n))
      [] IsIntegral(a) /\ IsIntegral(b)    -> Bool(Compare(op, AsI64(a), AsI64(b)))
      [] OTHER                             -> TypeMismatch

\* cmp_lt(..).unwrap_or(false)
Holds(v) == v = Bool(TRUE)

EqVal(a, b) ==
    CASE IsIntegral(a) /\ IsIntegral(b) -> AsI64(a) = AsI64(b)
      [] IsFloat(a) /\ IsFloat(b)       -> a.n = b.n
      [] OTHER                          -> a = b

-------------------------------------------------------------------------------
(* Bit operations, on the two's complement of the type's width.             *)
BitsOf(n, w)    == {i \in 0 .. w - 1 : ((n % 2 ^ w) \div 2 ^ i) % 2 = 1}
FromBits(S)     == MapThenSumSet(LAMBDA i : 2 ^ i, S)

Bitwise(op, S, T) ==
    CASE op = "AND" -> S \cap T
      [] op = "OR"  -> S \cup T
      [] op = "XOR" -> (S \cup T) \ (S \cap T)

BitwiseOp(op, a, b) ==
    IF a.t # b.t \/ a.t \notin IntTypes THEN TypeMismatch
    ELSE Num(a.t, Wrap(a.t, FromBits(Bitwise(op, BitsOf(a.n, Bits[a.t]),
                                                BitsOf(b.n, Bits[a.t])))))

BitNot(v) ==
    IF v.t \in IntTypes THEN Num(v.t, Wrap(v.t, -v.n - 1)) ELSE TypeMismatch

\* Only the 32 and 64 bit types shift; the amount is taken modulo the width.
ShiftTypes == {"INT32", "INT64", "UINT32", "UINT64"}
ShiftLeft(v, by) ==
    IF v.t \in ShiftTypes THEN Num(v.t, Wrap(v.t, v.n * 2 ^ (by % Bits[v.t])))
    ELSE TypeMismatch
ShiftRight(v, by) ==
    IF v.t \in ShiftTypes THEN Num(v.t, v.n \div 2 ^ (by % Bits[v.t]))
    ELSE TypeMismatch

-------------------------------------------------------------------------------
(* Conversions.                                                              *)
\* as_u32 accepts every integer type, as_u64 also BOOL; both truncate.
AsU32(v) == IF v.t \in IntTypes THEN Num("UINT32", Wrap("UINT32", v.n)) ELSE
            IF IsFault(v) THEN v ELSE TypeMismatch
AsU64(v) == IF IsIntegral(v) THEN Num("UINT64", Wrap("UINT64", v.n)) ELSE
            IF IsFault(v) THEN v ELSE TypeMismatch

CastValue(v, t) ==
    IF ~(IsIntegral(v) \/ IsFloat(v)) THEN TypeMismatch
    ELSE LET n == IF IsFloat(v) THEN v.n ELSE AsI64(v)
         IN  CASE t = "BOOL"        -> Bool(n # 0)
               [] t \in IntTypes   -> Num(t, Wrap(t, n))
               [] t \in FloatTypes -> Num(t, n)
               [] OTHER             -> TypeMismatch

DefaultForType(t) ==
    CASE t \in IntTypes \cup FloatTypes \cup {"BOOL"} -> Num(t, 0)
      [] t \in {"REF_MUT", "REF_IMM"}                 -> [t |-> t, ref |-> <<FALSE, 0>>]
      [] t \in {"VEC", "STACK", "QUEUE", "HEAP_MIN",
                "HEAP_MAX", "SLICE", "DEQUE"}         -> [t |-> t, s |-> <<>>]
      [] t = "STRUCT"                                 -> [t |-> t, e |-> <<>>]
      [] t \in {"SPARSE", "BTREE"}                    -> [t |-> t, m |-> <<>>]
      [] t \in {"BITSET", "BITVEC"}                   -> [t |-> t, bytes |-> <<>>, len |-> 0]
      [] t = "RESULT"                                 -> [t |-> t, o |-> <<>>, code |-> 0]
      [] t \in {"OPTION", "FUTURE"}                   -> [t |-> t, o |-> <<>>]
      [] t = "NULL"                                   -> Null

===============================================================================
