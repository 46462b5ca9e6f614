---------------------------- MODULE VmCollections ----------------------------
(***************************************************************************)
(* The collection instructions of the virtual machine (fasm-vm: the arms   *)
(* of execute_instruction from PUSH to BITVEC_PUSH in executor.rs, and the *)
(* collection types of value.rs).  Three kinds of operator:                *)
(*   ...Result(op, x)      what a reading instruction computes from its    *)
(*                         sources x, in the order it reads them;          *)
(*   ...Changed(op, c, x)  the collection c after an updating instruction; *)
(*   Taken(op, c)          the element an instruction removes, and what    *)
(*                         remains.                                        *)
(* Each answers a fault value when the instruction faults.                 *)
(***************************************************************************)
EXTENDS FasmValues, SequencesExt, Functions

Byte == Bits["UINT8"]          \* bits in a byte of a BITSET or BITVEC

List(t, s)     == [t |-> t, s |-> s]
FieldNotFound  == Fault("FieldNotFound")
OutOfBounds    == Fault("IndexOutOfBounds")
U32(n)         == Num("UINT32", Wrap("UINT32", n))

-------------------------------------------------------------------------------
(* Stacks, queues, deques and vectors.                                      *)
AppendsTo == [PUSH |-> {"VEC", "STACK", "DEQUE"}, ENQUEUE |-> {"QUEUE", "DEQUE"}]

Appended(op, c, x) ==
    IF c.t \in AppendsTo[op] THEN [c EXCEPT !.s = Append(@, x[1])] ELSE TypeMismatch

Prepended(c, x) ==
    IF c.t = "DEQUE" THEN [c EXCEPT !.s = <<x[1]>> \o @] ELSE TypeMismatch

TakesFrom == [POP |-> {"STACK"}, DEQUEUE |-> {"QUEUE", "DEQUE"}, POP_BACK |-> {"DEQUE"}]

\* The element taken and the collection without it, or a fault.
Taken(op, c) ==
    CASE c.t \notin TakesFrom[op] -> TypeMismatch
      [] c.t \in TakesFrom[op] /\ c.s = <<>> -> OutOfBounds
      [] c.t \in TakesFrom[op] /\ c.s # <<>> ->
           IF op = "DEQUEUE"
           THEN [t |-> "TAKEN", out |-> Head(c.s), rest |-> List(c.t, Tail(c.s))]
           ELSE [t |-> "TAKEN", out |-> Last(c.s), rest |-> List(c.t, Front(c.s))]

Peeked(c) ==
    CASE c.t \notin {"STACK", "QUEUE", "DEQUE"} -> TypeMismatch
      [] c.t = "STACK"             -> IF c.s = <<>> THEN OutOfBounds ELSE Last(c.s)
      [] c.t \in {"QUEUE", "DEQUE"} -> IF c.s = <<>> THEN OutOfBounds ELSE Head(c.s)

PeekedBack(c) ==
    IF c.t # "DEQUE" THEN TypeMismatch
    ELSE IF c.s = <<>> THEN OutOfBounds ELSE Last(c.s)

ElementAt(c, i) ==
    IF c.t \notin {"VEC", "HEAP_MIN", "HEAP_MAX", "SLICE"} THEN TypeMismatch
    ELSE IF i.n < Len(c.s) THEN c.s[i.n + 1] ELSE OutOfBounds

ElementReplaced(c, i, v) ==
    IF c.t # "VEC" THEN TypeMismatch
    ELSE IF i.n < Len(c.s) THEN [c EXCEPT !.s[i.n + 1] = v] ELSE OutOfBounds

LengthOf(c) ==
    CASE "s" \in DOMAIN c -> U32(Len(c.s))
      [] "m" \in DOMAIN c -> U32(Cardinality(DOMAIN c.m))
      [] "len" \in DOMAIN c -> U32(c.len)
      [] OTHER -> TypeMismatch

-------------------------------------------------------------------------------
(* STRUCT fields: an association list that keeps insertion order.           *)
KeysOf(e)      == {e[i][1] : i \in DOMAIN e}
PlaceOf(e, k)  == CHOOSE i \in DOMAIN e : e[i][1] = k /\ \A j \in 1 .. i - 1 : e[j][1] # k

FieldResult(op, k, c) ==
    CASE c.t # "STRUCT" -> TypeMismatch
      [] c.t = "STRUCT" /\ op = "HAS_FIELD" -> Bool(k.n \in KeysOf(c.e))
      [] c.t = "STRUCT" /\ op = "GET_FIELD" ->
           IF k.n \in KeysOf(c.e) THEN c.e[PlaceOf(c.e, k.n)][2] ELSE FieldNotFound

\* Mutant of Inserted: a field that is set again is appended again.
AppendedAgain(e, k, v) == Append(e, <<k, v>>)

Inserted(e, k, v) ==
    IF k \in KeysOf(e) THEN [e EXCEPT ![PlaceOf(e, k)] = <<k, v>>]
                       ELSE Append(e, <<k, v>>)

Without(e, k) == IF k \in KeysOf(e) THEN RemoveAt(e, PlaceOf(e, k)) ELSE e

FieldChanged(op, c, x) ==
    CASE c.t # "STRUCT" -> TypeMismatch
      [] c.t = "STRUCT" /\ op = "SET_FIELD" -> [c EXCEPT !.e = Inserted(@, x[1].n, x[2])]
      [] c.t = "STRUCT" /\ op = "DEL_FIELD" -> [c EXCEPT !.e = Without(@, x[1].n)]

-------------------------------------------------------------------------------
(* SPARSE and BTREE: maps from u32 keys; the opcode names the type.         *)
MapType(op) == IF op \in {"SPARSE_GET", "SPARSE_SET", "SPARSE_DEL", "SPARSE_HAS"}
               THEN "SPARSE" ELSE "BTREE"

MapResult(op, k, c) ==
    CASE c.t # MapType(op) -> TypeMismatch
      [] c.t = MapType(op) /\ op \in {"SPARSE_HAS", "BTREE_HAS"} -> Bool(k.n \in DOMAIN c.m)
      [] c.t = MapType(op) /\ op \in {"SPARSE_GET", "BTREE_GET"} ->
           IF k.n \in DOMAIN c.m THEN c.m[k.n] ELSE FieldNotFound

MapChanged(op, c, x) ==
    CASE c.t # MapType(op) -> TypeMismatch
      [] c.t = MapType(op) /\ op \in {"SPARSE_SET", "BTREE_SET"} ->
           [c EXCEPT !.m = [k \in DOMAIN @ \cup {x[1].n} |->
                               IF k = x[1].n THEN x[2] ELSE c.m[k]]]
      [] c.t = MapType(op) /\ op \in {"SPARSE_DEL", "BTREE_DEL"} ->
           [c EXCEPT !.m = Restrict(@, DOMAIN @ \ {x[1].n})]

\* BTREE_MIN and BTREE_MAX
EndKey(op, c) ==
    IF c.t # "BTREE" THEN TypeMismatch
    ELSE IF DOMAIN c.m = {} THEN OutOfBounds
    ELSE U32(IF op = "BTREE_MIN" THEN Min(DOMAIN c.m) ELSE Max(DOMAIN c.m))

-------------------------------------------------------------------------------
(* The vector algorithms order by the integer in an element, 0 if none.     *)
SortKey(v) == IF IsIntegral(v) THEN AsI64(v) ELSE 0

\* sort_unstable_by: on the short vectors of the model an insertion sort.
Sorted(s) ==
    FoldLeft(LAMBDA done, v :
                 InsertAt(done, 1 + Cardinality({i \in DOMAIN done :
                                                   SortKey(done[i]) <= SortKey(v)}), v),
             <<>>, s)

VecSorted(c) == IF c.t = "VEC" THEN [c EXCEPT !.s = Sorted(@)] ELSE TypeMismatch

Filtered(c, how, v) ==
    LET Keep(e) == CASE Wrap("UINT8", how.n) = 0 -> Holds(NumericCmp("LT", e, v))
                     [] Wrap("UINT8", how.n) = 1 -> EqVal(e, v)
                     [] Wrap("UINT8", how.n) = 2 -> Holds(NumericCmp("GT", e, v))
                     [] OTHER                    -> FALSE
    IN  IF c.t = "VEC" THEN List("VEC", SelectSeq(c.s, Keep)) ELSE TypeMismatch

\* Mutant of Merged: when one vector is exhausted, the rest of the first is lost.
MergedShort(a, b) ==
    LET rest[i \in 0 .. Len(a), j \in 0 .. Len(b)] ==
            CASE i = Len(a) -> SubSeq(b, j + 1, Len(b))
              [] i # Len(a) /\ j = Len(b) -> <<>>
              [] i # Len(a) /\ j # Len(b) ->
                   IF SortKey(a[i + 1]) <= SortKey(b[j + 1])
                   THEN <<a[i + 1]>> \o rest[i + 1, j]
                   ELSE <<b[j + 1]>> \o rest[i, j + 1]
    IN  rest[0, 0]

\* The two-pointer merge, as written: it compares heads, sorted or not.
Merged(a, b) ==
    LET rest[i \in 0 .. Len(a), j \in 0 .. Len(b)] ==
            CASE i = Len(a) -> SubSeq(b, j + 1, Len(b))
              [] i # Len(a) /\ j = Len(b) -> SubSeq(a, i + 1, Len(a))
              [] i # Len(a) /\ j # Len(b) ->
                   IF SortKey(a[i + 1]) <= SortKey(b[j + 1])
                   THEN <<a[i + 1]>> \o rest[i + 1, j]
                   ELSE <<b[j + 1]>> \o rest[i, j + 1]
    IN  rest[0, 0]

VecMerged(c, d) ==
    IF c.t = "VEC" /\ d.t = "VEC" THEN List("VEC", Merged(c.s, d.s)) ELSE TypeMismatch

VecSliced(c, start, len) ==
    IF c.t # "VEC" THEN TypeMismatch
    ELSE List("SLICE", SubSeq(c.s, start.n + 1, Min({start.n + len.n, Len(c.s)})))

-------------------------------------------------------------------------------
(* OPTION, RESULT and FUTURE.                                                *)
WrapperMade(op, v) ==
    CASE op = "SOME" -> [t |-> "OPTION", o |-> <<v>>]
      [] op = "OK"   -> [t |-> "RESULT", o |-> <<v>>, code |-> 0]
      [] op = "ERR"  -> [t |-> "RESULT", o |-> <<>>, code |-> v.n]

\* IS_SOME and IS_OK of anything else is false; the UNWRAPs fault.
WrapperResult(op, c) ==
    LET kind == IF op \in {"IS_SOME", "UNWRAP"} THEN "OPTION" ELSE "RESULT"
        full == c.t = kind /\ c.o # <<>>
    IN  CASE op \in {"IS_SOME", "IS_OK"} -> Bool(full)
          [] op \notin {"IS_SOME", "IS_OK"} /\ c.t # kind -> TypeMismatch
          [] op \in {"UNWRAP", "UNWRAP_OK"} /\ c.t = kind ->
               IF full THEN c.o[1] ELSE Fault("UnwrapFault")
          [] op = "UNWRAP_ERR" /\ c.t = kind ->
               IF full THEN Fault("UnwrapFault") ELSE Num("UINT32", c.code)

Awaited(c) == IF c.t = "FUTURE" /\ c.o # <<>> THEN c.o[1] ELSE Null

-------------------------------------------------------------------------------
(* Bytes: sequences of sets of bit numbers.                                 *)
BytesFor(n)      == (n + Byte - 1) \div Byte
Resized(b, n)    == b \o [i \in 1 .. Max({0, n - Len(b)}) |-> {}]
BitIn(b, i)      == i \div Byte < Len(b) /\ i % Byte \in b[i \div Byte + 1]
PutBit(b, i, on) == [b EXCEPT ![i \div Byte + 1] = IF on THEN @ \cup {i % Byte}
                                                         ELSE @ \ {i % Byte}]

\* grow_to takes a u32, and write_bits grows in the same way to a u64: the argument
\* has wrapped.
GrowTo(c, n) == [c EXCEPT !.bytes = Resized(@, BytesFor(n)), !.len = Max({@, n})]

\* BIT_SET and BIT_FLIP grow only when the byte is missing; idx + 1 may wrap
\* to 0, and then the byte is still missing and the access panics.
WithBit(c, i, on) ==
    LET g == IF i \div Byte >= Len(c.bytes) THEN GrowTo(c, Wrap("UINT32", i + 1)) ELSE c
    IN  IF i \div Byte >= Len(g.bytes) THEN Panic
        ELSE [g EXCEPT !.bytes = PutBit(@, i, on)]

WithoutBit(c, i) ==
    IF i \div Byte < Len(c.bytes) THEN [c EXCEPT !.bytes = PutBit(@, i, FALSE)] ELSE c

BitsetChanged(op, c, x) ==
    CASE c.t # "BITSET" -> TypeMismatch
      [] c.t = "BITSET" /\ op = "BIT_SET"  -> WithBit(c, x[1].n, TRUE)
      [] c.t = "BITSET" /\ op = "BIT_FLIP" -> WithBit(c, x[1].n, ~BitIn(c.bytes, x[1].n))
      [] c.t = "BITSET" /\ op = "BIT_CLR"  -> WithoutBit(c, x[1].n)
      [] c.t = "BITSET" /\ op = "BIT_GROW" -> GrowTo(c, Wrap("UINT32", c.len + x[1].n))

\* BIT_AND clears the bytes beyond the source; BIT_OR and BIT_XOR lengthen the
\* bytes of the destination, and leave its length in bits.
BitsetCombined(op, c, s) ==
    LET other(i) == IF i <= Len(s.bytes) THEN s.bytes[i] ELSE {}
        longer   == Resized(c.bytes, Len(s.bytes))
    IN  IF c.t # "BITSET" \/ s.t # "BITSET" THEN TypeMismatch
        ELSE [c EXCEPT !.bytes =
                CASE op = "BIT_AND" -> [i \in DOMAIN @ |-> @[i] \cap other(i)]
                  [] op = "BIT_OR"  -> [i \in DOMAIN longer |-> longer[i] \cup other(i)]
                  [] op = "BIT_XOR" -> [i \in DOMAIN longer |->
                                           SymDiff(longer[i], other(i))]]

BitsetResult(op, x) ==
    LET c == x[Len(x)]
    IN  IF c.t # "BITSET" THEN TypeMismatch
        ELSE CASE op = "BIT_GET"   -> Bool(BitIn(c.bytes, x[1].n))
               [] op = "BIT_COUNT" -> U32(MapThenSumSet(LAMBDA j : Cardinality(c.bytes[j]),
                                                  DOMAIN c.bytes))

\* Bit numbers of a BITVEC are u64, and a sum of two wraps (the release build).
Place(start, i) == Wrap("UINT64", start + i)
FieldWidth(len) == Min({len, Bits["UINT64"]})

\* read_bits: at most the width of u64, zeros where there is no byte.
FieldBits(b, start, len) == {i \in 0 .. FieldWidth(len) - 1 : BitIn(b, Place(start, i))}
BitvecRead(c, start, len) ==
    IF c.t # "BITVEC" THEN TypeMismatch
    ELSE Num("UINT64", FromBits(FieldBits(c.bytes, start.n, len.n)))

\* Every bit number of a set has its byte in c.
HasBytes(c, places) == \A p \in places : p \div Byte < Len(c.bytes)

\* Mutant of Overwritten: the bits of the old field are not cleared.
BitsAdded(c, field, on) ==
    [c EXCEPT !.bytes = [j \in DOMAIN @ |->
                            {i \in 0 .. Byte - 1 : Byte * (j - 1) + i \in on \/ i \in @[j]}]]

\* Its bits in the set field replaced by those in the set on.
Overwritten(c, field, on) ==
    [c EXCEPT !.bytes = [j \in DOMAIN @ |->
                            {i \in 0 .. Byte - 1 :
                               LET p == Byte * (j - 1) + i
                               IN  IF p \in field THEN p \in on ELSE i \in @[j]}]]

\* write_bits: grows the bytes and the length to the end of the field; where that
\* end has wrapped nothing grows, and writing a bit whose byte is missing panics.
BitsWritten(c, start, len, v) ==
    LET w     == FieldWidth(len)
        grown == GrowTo(c, Place(start, w))
        field == {Place(start, i) : i \in 0 .. w - 1}
        on    == {Place(start, i) : i \in BitsOf(v, Bits["UINT64"]) \cap 0 .. w - 1}
    IN  IF HasBytes(grown, field) THEN Overwritten(grown, field, on) ELSE Panic

BitvecChanged(op, c, x) ==
    CASE c.t # "BITVEC" -> TypeMismatch
      [] c.t = "BITVEC" /\ op = "BITVEC_WRITE" -> BitsWritten(c, x[1].n, x[2].n, x[3].n)
      [] c.t = "BITVEC" /\ op = "BITVEC_PUSH"  -> BitsWritten(c, c.len, x[2].n, x[1].n)

===============================================================================
