-------------------------------- MODULE VmData --------------------------------
(***************************************************************************)
(* Sequences of data instructions on one call frame: what numbers, bit     *)
(* arrays, collections and maps must keep whatever is done to them.  A     *)
(* scenario gives the memory a run starts from, the instructions it may    *)
(* execute in any order, and how many.                                     *)
(***************************************************************************)
EXTENDS VmInstructions

CONSTANT Scenarios    \* name -> [starts : set of slot functions, code : set of instructions,
                      \*          steps]

Spaces == {"LOCAL", "GLOBAL", "TMP"}

\* An instruction has the operands that its kind reads and writes.
Complete(ins) ==
    /\ ins.op \in DataOps
    /\ ins.a \in Seq(Range(ins.a))
    /\ ins.op \notin {"NOP", "TMP_BLOCK", "END_TMP"} => Len(ins.a) >= 1
    /\ ins.op \in TakingOps \cup {"ADDR"} => Len(ins.a) >= 2
    /\ \A p \in DOMAIN ins.a : ins.a[p].k = "DEREF" => ins.a[p].in \in Spaces

ASSUME ScenarioAssumption ==
    \A s \in DOMAIN Scenarios : \A ins \in Scenarios[s].code : Complete(ins)

VARIABLES scenario, machine, last, steps
dataVars == <<scenario, machine, last, steps>>

MachineWith(slots) ==
    [fr |-> [fn |-> 0, ip |-> 1, slots |-> slots, tmps |-> <<>>,
             args |-> [t |-> "STRUCT", e |-> <<>>], ret |-> Null, guard |-> <<>>],
     g |-> NoFunction, fault |-> "none"]

NoInstruction == [op |-> "NOP", a |-> <<>>]

DataInit ==
    /\ scenario \in DOMAIN Scenarios
    /\ machine \in {MachineWith(slots) : slots \in Scenarios[scenario].starts}
    /\ last = NoInstruction
    /\ steps = 0

Execute(ins) ==
    /\ ~Failed(machine)
    /\ steps < Scenarios[scenario].steps
    /\ machine' = DataStep(machine, ins)
    /\ last' = ins
    /\ steps' = steps + 1
    /\ UNCHANGED scenario

DataNext == \E ins \in Scenarios[scenario].code : Execute(ins)

DataSpec == DataInit /\ [][DataNext]_dataVars

-------------------------------------------------------------------------------
(* Numbers.                                                                  *)
Least(t)     == IF t \in SignedTypes THEN -(2 ^ (Bits[t] - 1)) ELSE 0
Greatest(t)  == 2 ^ (Bits[t] - (IF t \in SignedTypes THEN 1 ELSE 0)) - 1
InType(v)    == v.t \in IntTypes => v.n \in Least(v.t) .. Greatest(v.t)
Congruent(a, b, t) == (a - b) % 2 ^ Bits[t] = 0

RemainderOf(a, b, r) ==
    Abs(r) < Abs(b) /\ (a - r) % Abs(b) = 0 /\ (r = 0 \/ (r < 0) = (a < 0))

Exact(op, a, b, r) ==
    CASE op = "ADD" -> Congruent(r.n, a.n + b.n, a.t)
      [] op = "SUB" -> Congruent(r.n, a.n - b.n, a.t)
      [] op = "MUL" -> Congruent(r.n, a.n * b.n, a.t)
      [] op = "DIV" -> \/ RemainderOf(a.n, b.n, a.n - b.n * r.n)
                       \/ b.n = -1 /\ Congruent(r.n, -a.n, a.t)
      [] op = "MOD" -> RemainderOf(a.n, b.n, r.n)
      [] op \in {"LT", "LTE", "GT", "GTE"} -> (r.n = 1) = Compare(op, a.n, b.n)
      [] op \in {"EQ", "NEQ"} -> (r.n = 1) = ((a.n = b.n) = (op = "EQ"))
      [] op = "AND" -> BitsOf(r.n, Bits[a.t]) = BitsOf(a.n, Bits[a.t]) \cap BitsOf(b.n, Bits[a.t])
      \* the bits in common count twice in the sum
      [] op = "XOR" -> Congruent(r.n + 2 * BitwiseOp("AND", a, b).n, a.n + b.n, a.t)
      [] op = "OR"  -> Congruent(r.n + BitwiseOp("AND", a, b).n, a.n + b.n, a.t)
      [] op = "SHL" -> Congruent(r.n, a.n * 2 ^ (b.n % Bits[a.t]), a.t)
      [] op = "SHR" -> a.n - r.n * 2 ^ (b.n % Bits[a.t]) \in 0 .. 2 ^ (b.n % Bits[a.t]) - 1
      [] op = "NEG" -> Congruent(r.n, -a.n, a.t)
      [] op = "NOT" -> Congruent(r.n, -1 - a.n, a.t)
      [] op = "CAST" -> CASE r.t = "BOOL" -> r = Bool(a.n # 0)
                          [] r.t \in IntTypes -> Congruent(r.n, a.n, r.t)
                          [] r.t \in FloatTypes -> TRUE    \* rounding is not modelled

UnaryNumeric == {"NEG", "NOT", "CAST"}
NumericTypes == IntTypes \cup FloatTypes \cup {"BOOL"}
BinaryOps    == ArithmeticOps \cup ComparisonOps \cup BitwiseOps \cup ShiftOps

\* What the step executed, on which operands, and what it wrote where.
Stepped  == steps' # steps
Source(p) == ReadOperand(machine, last'.a[p])
Result   == machine'.fr.slots[last'.a[Len(last'.a)].i]
Faulted  == Failed(machine')

\* What the instruction ins may give for the integers a and b of one type (b is a
\* where ins has one operand): v, a number or a fault.
Right(ins, a, b, v) ==
    LET op == ins.op
        divides == op \in {"DIV", "MOD"}
    IN  IF IsFault(v)
        THEN \/ v.f = "DivisionByZero" /\ divides /\ b.n = 0
             \/ v.f = "Panic" /\ divides /\ b.n = -1 /\ a.n = Least("INT64")
             \/ /\ v.f = "TypeMismatch"
                /\ \/ op \in ShiftOps /\ a.t \notin ShiftTypes
                   \/ op = "NEG" /\ a.t \in UnsignedTypes
                   \/ op = "CAST" /\ ins.a[2].ty \notin NumericTypes
        ELSE /\ divides => b.n # 0
             /\ InType(v)
             /\ Exact(op, a, b, v)

\* An integer of some type, in its range.
IsInteger(v) == v.t \in IntTypes /\ v = Num(v.t, v.n) /\ InType(v)

\* The second operand of an instruction, as it reads it (the amount of a shift is
\* converted to UINT32), or the first where it has one.
SecondOf(m, ins) ==
    CASE ins.op \in UnaryNumeric -> ReadOperand(m, ins.a[1])
      [] ins.op \in ShiftOps     -> AsU32(ReadOperand(m, ins.a[2]))
      [] OTHER                   -> ReadOperand(m, ins.a[2])

\* What the code computes of the numbers as INT64: it takes a UINT64 above them for
\* a negative number, and so these instructions are only claimed of the others.
SignedReads == {"DIV", "MOD", "LT", "LTE", "GT", "GTE"}
FitsSigned(v) == v.t = "UINT64" => v.n <= Greatest("INT64")

\* The step is right if it was a numeric one, op among ops, on integers of one type.
RightStep(ops, limited) ==
    Stepped /\ last'.op \in ops /\ last'.a[Len(last'.a)].k = "LOCAL"
    => LET a == Source(1)
           b == SecondOf(machine, last')
       IN  /\ IsInteger(a) /\ IsInteger(b) /\ (last'.op \in ShiftOps \/ b.t = a.t)
           /\ last'.op \in limited => FitsSigned(a) /\ FitsSigned(b)
           => Right(last', a, b, IF Faulted THEN Fault(machine'.fault) ELSE Result)

\* Arithmetic on integers is exact modulo the width of their type, and its result
\* is of that type; division truncates toward zero, MOD has the sign of the
\* dividend, shifts and comparisons are those of the numbers, CAST keeps the number
\* modulo the width of the new type; the only faults of operands of the right types
\* are division by zero and, with a panic, the least INT64 by -1.  DIV, MOD and the
\* order are not claimed of a UINT64 above every INT64 (numeric_op, value.rs:627).
ArithmeticIsExact == [][RightStep(BinaryOps \cup UnaryNumeric, SignedReads)]_dataVars

\* FASM.md:609 on UINT64, "0 to 18,446,744,073,709,551,615": the quotient, the
\* remainder and the order of all of them are those of the numbers.
UnsignedIsUnsigned == [][RightStep(SignedReads, {})]_dataVars

-------------------------------------------------------------------------------
(* Bit arrays as sets of bit numbers.                                        *)
Members(c)   == {i \in 0 .. Byte * Len(c.bytes) - 1 : BitIn(c.bytes, i)}
FieldValue(S, start, w) == FromBits({i \in 0 .. w - 1 : start + i \in S})
Width(len)   == Min({len, Bits["UINT64"]})
\* A field that ends where a u64 can still say so.
FitsU64(start, len) == start + Width(len) < 2 ^ Bits["UINT64"]

Written(before, after, start, len, v) ==
    LET field == start .. start + Width(len) - 1
    IN  /\ Members(after) \ field = Members(before) \ field
        /\ FieldValue(Members(after), start, Width(len)) = v % 2 ^ Width(len)
        /\ after.len = Max({before.len, start + Width(len)})

\* What an updating instruction does to the bit array before, with the operands x
\* it read.
BitStep(op, before, after, x) ==
    LET S == Members(before)
        T == Members(after)
    IN  CASE op = "BIT_SET"  -> T = S \cup {x[1].n} /\ after.len >= before.len
          [] op = "BIT_CLR"  -> T = S \ {x[1].n} /\ after.len = before.len
          [] op = "BIT_FLIP" -> T = SymDiff(S, {x[1].n}) /\ after.len >= before.len
          [] op = "BIT_GROW" -> T = S
          [] op = "BIT_AND"  -> T = S \cap Members(x[1]) /\ after.len = before.len
          [] op = "BIT_OR"   -> T = S \cup Members(x[1]) /\ after.len = before.len
          [] op = "BIT_XOR"  -> T = SymDiff(S, Members(x[1])) /\ after.len = before.len
          [] op = "BITVEC_WRITE" -> FitsU64(x[1].n, x[2].n)
                                      => Written(before, after, x[1].n, x[2].n, x[3].n)
          [] op = "BITVEC_PUSH"  -> FitsU64(before.len, x[2].n)
                                      => Written(before, after, before.len, x[2].n, x[1].n)

BitReads   == {"BIT_GET", "BIT_COUNT", "BITVEC_READ"}
BitUpdates == {"BIT_SET", "BIT_CLR", "BIT_FLIP", "BIT_GROW", "BIT_AND", "BIT_OR", "BIT_XOR",
               "BITVEC_WRITE", "BITVEC_PUSH"}

\* The number a reading instruction should find in the bit array, the last it reads.
BitRead(op, x) ==
    LET S == Members(Last(x))
    IN  CASE op = "BIT_GET"     -> IF x[1].n \in S THEN 1 ELSE 0
          [] op = "BIT_COUNT"   -> Wrap("UINT32", Cardinality(S))
          [] op = "BITVEC_READ" -> FieldValue(S, x[1].n, Width(x[2].n))

\* A bit array: bytes that are sets of bit numbers, and a length in bits.
IsBits(c) ==
    /\ c.t \in {"BITSET", "BITVEC"}
    /\ c = [t |-> c.t, bytes |-> c.bytes, len |-> c.len]
    /\ c.bytes \in Seq(SUBSET (0 .. Byte - 1))
    /\ c.len \in Nat

\* A BITSET is the set of the bits that were set, and a BITVEC keeps every field
\* where it was written: an instruction changes the bits it names and no other,
\* whatever grows, and a field is cut to its width and never spills.  A field of a
\* BITVEC that reaches the end of the u64 bit numbers is left out: there the sums
\* of write_bits and read_bits wrap (value.rs:300, 314, 323).
BitArraysKeepTheirBits ==
    [][Stepped /\ ~Faulted /\ last'.op \in BitReads \cup BitUpdates =>
          LET x  == SourceValues(machine, last')
              op == last'.op
          IN  (\A j \in DOMAIN x : IsInteger(x[j]) \/ IsBits(x[j])) =>
                /\ op \in BitUpdates /\ last'.a[1].k = "LOCAL" /\ IsBits(Source(1)) =>
                      LET after == machine'.fr.slots[last'.a[1].i]
                      IN  IsBits(after) /\ BitStep(op, Source(1), after, x)
                /\ op \in BitReads /\ last'.a[Len(last'.a)].k = "LOCAL"
                   /\ (op = "BITVEC_READ" => FitsU64(x[1].n, x[2].n)) =>
                      Result.n = BitRead(op, x)]_dataVars

\* value.rs:295 on read_bits, "Returns 0 for out-of-range": wherever a field of a
\* BITVEC starts, it reads the bits there, and zeros beyond the last.
OutOfRangeReadsZero ==
    [][Stepped /\ ~Faulted /\ last'.op = "BITVEC_READ"
       /\ last'.a[Len(last'.a)].k = "LOCAL" =>
          LET x == SourceValues(machine, last')
          IN  IsInteger(x[1]) /\ IsInteger(x[2]) /\ IsBits(x[3]) =>
                Result.n = BitRead("BITVEC_READ", x)]_dataVars

-------------------------------------------------------------------------------
(* Collections.                                                              *)
Bag(s)     == [v \in Range(s) |-> Cardinality({i \in DOMAIN s : s[i] = v})]
Ordered(s) == \A i, j \in DOMAIN s : i <= j => SortKey(s[i]) <= SortKey(s[j])

\* The elements a step found in its collection, and those it left or produced.
ListStep(op, before, after) ==
    CASE op = "VEC_SORT"  -> Bag(after.s) = Bag(before.s) /\ Ordered(after.s)
      [] op = "VEC_MERGE" -> /\ Bag(Result.s) = Bag(before.s \o Source(2).s)
                             /\ Ordered(before.s) /\ Ordered(Source(2).s) => Ordered(Result.s)
      [] op = "VEC_SLICE" -> \E i \in 0 .. Len(before.s), j \in 0 .. Len(before.s) :
                                /\ SubSeq(before.s, i + 1, j) = Result.s
                                /\ Len(Result.s) <= Source(3).n
      [] op \in {"POP", "DEQUEUE", "POP_BACK"} -> Bag(Append(after.s, Result)) = Bag(before.s)
      [] op \in {"PUSH", "ENQUEUE", "PREPEND"} ->
                             Bag(after.s) = Bag(Append(before.s, Source(2)))
      [] OTHER -> TRUE

ListOps == {"VEC_SORT", "VEC_MERGE", "VEC_SLICE", "POP", "DEQUEUE", "POP_BACK", "PUSH",
            "ENQUEUE", "PREPEND"}

\* No instruction on lists loses or invents an element: sorting and merging
\* permute, and taking hands over what it removes.
CollectionsKeepTheirElements ==
    [][Stepped /\ ~Faulted /\ last'.op \in ListOps =>
          ListStep(last'.op, Source(1), machine'.fr.slots[last'.a[1].i])]_dataVars

-------------------------------------------------------------------------------
(* Maps.                                                                     *)
\* A STRUCT is a list of pairs of a key and a value, as in the code, no key twice;
\* SPARSE and BTREE are functions.
IsMap(c) ==
    \/ /\ c.t = "STRUCT" /\ c = [t |-> c.t, e |-> c.e]
       /\ c.e \in Seq(Range(c.e))
       /\ \A i, j \in DOMAIN c.e : c.e[i][1] = c.e[j][1] => i = j
    \/ c.t \in {"SPARSE", "BTREE"} /\ c = [t |-> c.t, m |-> c.m]

AsFunction(c) ==
    IF c.t = "STRUCT" THEN [k \in KeysOf(c.e) |-> c.e[PlaceOf(c.e, k)][2]] ELSE c.m

MapUpdates == {"SET_FIELD", "SPARSE_SET", "BTREE_SET"}
MapRemovals == {"DEL_FIELD", "SPARSE_DEL", "BTREE_DEL"}

\* What an updating instruction does to the map before, with the key and the value
\* x it read.
MapStep(op, before, after, x) ==
    CASE op \in MapUpdates  -> AsFunction(after) = Put(AsFunction(before), x[1].n, x[2])
      [] op \in MapRemovals -> AsFunction(after) = Drop(AsFunction(before), x[1].n)

\* A map changes at the key it is told and nowhere else, and stays a map: the list
\* behind a STRUCT never has a key twice, whatever was set and deleted before.
MapsChangeAtTheirKey ==
    [][Stepped /\ ~Faulted /\ last'.op \in MapUpdates \cup MapRemovals
       /\ last'.a[1].k = "LOCAL" =>
          LET x     == SourceValues(machine, last')
              after == machine'.fr.slots[last'.a[1].i]
          IN  IsMap(Source(1)) /\ ~AnyFault(x) =>
                IsMap(after) /\ MapStep(last'.op, Source(1), after, x)]_dataVars

-------------------------------------------------------------------------------
(* Memory.                                                                   *)
\* The cells of the memory m that an instruction names, and those it reaches
\* through the references it names.
Referred(r) == <<IF r.ref[1] THEN "GLOBAL" ELSE "LOCAL", r.ref[2]>>

CellsReached(m, ins) ==
    LET operands(k) == {ins.a[p] : p \in {q \in DOMAIN ins.a : ins.a[q].k = k}}
        references  == {CellOf(m, o.in, o.i) : o \in operands("DEREF")}
    IN  {<<o.k, o.i>> : o \in operands("LOCAL") \cup operands("GLOBAL")}
        \cup {Referred(r) : r \in {v \in references : v.t = "REF_MUT"}}

Indices(m) == DOMAIN m.fr.slots \cup DOMAIN m.g

\* A slot or a global that an instruction neither names nor reaches by a mutable
\* reference is as it was, whether the instruction faults or not: a reference
\* leads to the slot or the global it was taken of, and no write spills.
OnlyReachedCellsChange ==
    [][Stepped =>
          \A space \in {"LOCAL", "GLOBAL"}, i \in Indices(machine) \cup Indices(machine') :
             <<space, i>> \notin CellsReached(machine, last')
                => CellOf(machine', space, i) = CellOf(machine, space, i)]_dataVars

\* An instruction that faults has changed nothing, so that what TRY rolls back is
\* what came before it; only POP, DEQUEUE and POP_BACK may have taken the element
\* they then could not hand over.
FaultsLoseAtMostOneElement ==
    [][Stepped /\ Faulted =>
          \/ machine'.fr = machine.fr /\ machine'.g = machine.g
          \/ /\ last'.op \in TakingOps
             /\ LET o    == last'.a[1]
                    left == PutCell(machine, o.k, o.i, Taken(last'.op, Source(1)).rest)
                IN  machine'.fr = left.fr /\ machine'.g = left.g]_dataVars

===============================================================================
