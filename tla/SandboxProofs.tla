----------------------------- MODULE SandboxProofs -----------------------------
(***************************************************************************)
(* Proofs about what runs in a sandbox, for every program:                 *)
(*   - the executor's call frames stay in step with the code they execute  *)
(*     (VmExecutor), for every well-formed program and entry function;     *)
(*   - a data instruction changes only the memory it reaches, and nothing  *)
(*     at all when it faults (VmData), for every instruction, memory and   *)
(*     sequence of instructions;                                           *)
(*   - integer arithmetic is exact modulo the width of its type, for every *)
(*     width and all numbers (FasmValues, VmInstructions, VmData);         *)
(*   - bit arrays keep their bits, whatever they are (VmCollections,       *)
(*     VmInstructions, VmData);                                            *)
(*   - a thread's sandbox carries nothing from one request to the next     *)
(*     (SandboxPool), for every set of programs, functions and slots and   *)
(*     every depth limit.                                                  *)
(***************************************************************************)
EXTENDS VmExecutor, VmData, SandboxPool, FiniteSetTheorems, SequenceTheorems,
        WellFoundedInduction, TLAPS

-------------------------------------------------------------------------------
(* Data instructions and the frame.                                          *)
\* The fields of a call frame (CallFrame, executor.rs:40) and of a machine.
FrameFields == {"fn", "ip", "slots", "tmps", "args", "ret", "guard"}

\* What every instruction can rely on: the fields are there, and TMP frames are a
\* stack.
IsMachine(m) ==
  /\ DOMAIN m = {"fr", "g", "fault"}
  /\ DOMAIN m.fr = FrameFields
  /\ IsSequence(m.fr.tmps)

\* What a data instruction has no business with: function, address and guard.
KeepsControl(m, n) ==
  /\ n.fr.fn = m.fr.fn /\ n.fr.ip = m.fr.ip /\ n.fr.guard = m.fr.guard

\* An instruction that leaves the frame as it stands.
KeepsFrame(m, n) == IsMachine(n) /\ KeepsControl(m, n) /\ Len(n.fr.tmps) = Len(m.fr.tmps)

\* A sequence over some set is one over the set of its elements.
LEMMA SeqIsSequence ==
  ASSUME NEW S, NEW s \in Seq(S)
  PROVE  IsSequence(s)
<1>1. s \in [1 .. Len(s) -> S] /\ Len(s) \in Nat
  BY LenProperties
<1>2. s \in [1 .. Len(s) -> Range(s)]
  BY <1>1 DEF Range
<1>3. s \in Seq(Range(s))
  BY <1>1, <1>2, SeqDef
<1> QED
  BY <1>3 DEF IsSequence

\* Replacing an element keeps a sequence and its length.
LEMMA ExceptIsSequence ==
  ASSUME NEW s, IsSequence(s), NEW k \in DOMAIN s, NEW x
  PROVE  IsSequence([s EXCEPT ![k] = x]) /\ Len([s EXCEPT ![k] = x]) = Len(s)
<1> DEFINE S == Range(s) \cup {x}
<1>1. s \in Seq(S) /\ x \in S
  BY DEF IsSequence
<1>2. [s EXCEPT ![k] = x] \in Seq(S) /\ Len([s EXCEPT ![k] = x]) = Len(s)
  BY <1>1
<1> QED
  BY <1>2, SeqIsSequence

\* Each way of writing leaves the frame as it stands: a fault,
LEMMA FailKeepsFrame ==
  ASSUME NEW m, IsMachine(m), NEW v
  PROVE  KeepsFrame(m, Fail(m, v))
BY DEF IsMachine, KeepsFrame, KeepsControl, Fail, FrameFields

\* a write to a slot, a global or a TMP slot,
LEMMA PutCellKeepsFrame ==
  ASSUME NEW m, IsMachine(m), NEW space \in {"LOCAL", "GLOBAL", "TMP"}, NEW i, NEW v
  PROVE  KeepsFrame(m, PutCell(m, space, i, v))
<1>1. CASE space = "LOCAL"
  BY <1>1 DEF IsMachine, KeepsFrame, KeepsControl, PutCell, FrameFields
<1>2. CASE space = "GLOBAL"
  BY <1>2 DEF IsMachine, KeepsFrame, KeepsControl, PutCell, FrameFields
<1>3. CASE space = "TMP" /\ NoTmp(m, i)
  BY <1>3, FailKeepsFrame DEF PutCell
<1>4. CASE space = "TMP" /\ ~NoTmp(m, i)
  <2> DEFINE s == m.fr.tmps
             x == Put(s[Len(s)], i, v)
             n == PutCell(m, space, i, v)
  <2>1. s # <<>> /\ Len(s) \in DOMAIN s
    BY <1>4 DEF NoTmp, IsMachine, IsSequence
  <2>2. IsSequence([s EXCEPT ![Len(s)] = x]) /\ Len([s EXCEPT ![Len(s)] = x]) = Len(s)
    BY <2>1, ExceptIsSequence DEF IsMachine
  <2>3. n = [m EXCEPT !.fr = [m.fr EXCEPT !.tmps = [s EXCEPT ![Len(s)] = x]]]
    BY <1>4, <2>1 DEF PutCell
  <2>4. n.fr.tmps = [s EXCEPT ![Len(s)] = x]
    BY <2>3 DEF IsMachine, FrameFields
  <2>5. DOMAIN n = {"fr", "g", "fault"} /\ DOMAIN n.fr = FrameFields /\ KeepsControl(m, n)
    BY <2>3 DEF IsMachine, FrameFields, KeepsControl
  <2> QED
    BY <2>2, <2>4, <2>5 DEF IsMachine, KeepsFrame
<1> QED
  BY <1>1, <1>2, <1>3, <1>4

\* a write through a reference,
LEMMA DerefWriteKeepsFrame ==
  ASSUME NEW m, IsMachine(m), NEW r, NEW v
  PROVE  KeepsFrame(m, DerefWrite(m, r, v))
BY PutCellKeepsFrame, FailKeepsFrame DEF DerefWrite

\* Whatever an instruction writes and wherever, it leaves the frame as it stands.
LEMMA WriteKeepsFrame ==
  ASSUME NEW m, IsMachine(m), NEW o, NEW v
  PROVE  KeepsFrame(m, WriteOperand(m, o, v))
<1>1. ASSUME o.b = "RET" PROVE KeepsFrame(m, [m EXCEPT !.fr.ret = v])
  BY DEF IsMachine, KeepsFrame, KeepsControl, FrameFields
<1> QED
  BY <1>1, PutCellKeepsFrame, DerefWriteKeepsFrame, FailKeepsFrame DEF WriteOperand

\* a RELEASE,
LEMMA ReleasedKeepsFrame ==
  ASSUME NEW m, IsMachine(m), NEW o
  PROVE  KeepsFrame(m, Released(m, o))
<1>1. CASE o.k = "LOCAL"
  BY <1>1 DEF IsMachine, KeepsFrame, KeepsControl, Released, FrameFields
<1>2. CASE o.k = "GLOBAL"
  BY <1>2 DEF IsMachine, KeepsFrame, KeepsControl, Released, FrameFields
<1>3. CASE o.k = "TMP" /\ ~NoTmp(m, o.i)
  <2> DEFINE s == m.fr.tmps
             x == Drop(s[Len(s)], o.i)
             n == Released(m, o)
  <2>1. s # <<>> /\ Len(s) \in DOMAIN s
    BY <1>3 DEF NoTmp, IsMachine, IsSequence
  <2>2. IsSequence([s EXCEPT ![Len(s)] = x]) /\ Len([s EXCEPT ![Len(s)] = x]) = Len(s)
    BY <2>1, ExceptIsSequence DEF IsMachine
  <2>3. n = [m EXCEPT !.fr = [m.fr EXCEPT !.tmps = [s EXCEPT ![Len(s)] = x]]]
    BY <1>3, <2>1 DEF Released
  <2>4. n.fr.tmps = [s EXCEPT ![Len(s)] = x]
    BY <2>3 DEF IsMachine, FrameFields
  <2>5. DOMAIN n = {"fr", "g", "fault"} /\ DOMAIN n.fr = FrameFields /\ KeepsControl(m, n)
    BY <2>3 DEF IsMachine, FrameFields, KeepsControl
  <2> QED
    BY <2>2, <2>4, <2>5 DEF IsMachine, KeepsFrame
<1>4. CASE ~(o.k = "LOCAL" \/ o.k = "GLOBAL" \/ (o.k = "TMP" /\ ~NoTmp(m, o.i)))
  BY <1>4 DEF IsMachine, KeepsFrame, KeepsControl, Released
<1> QED
  BY <1>1, <1>2, <1>3, <1>4

\* and two of them in a row.
LEMMA KeepsFrameTwice ==
  ASSUME NEW m, NEW n, NEW o, KeepsFrame(m, n), KeepsFrame(n, o)
  PROVE  KeepsFrame(m, o)
BY DEF KeepsFrame, KeepsControl

\* So do the instructions that read operands and write a result,
LEMMA ReadKeepsFrame ==
  ASSUME NEW m, IsMachine(m), NEW ins
  PROVE  KeepsFrame(m, ReadAndWrite(m, ins))
BY WriteKeepsFrame, FailKeepsFrame DEF ReadAndWrite

\* those that update a collection in place,
LEMMA UpdateKeepsFrame ==
  ASSUME NEW m, IsMachine(m), NEW ins
  PROVE  KeepsFrame(m, UpdateInPlace(m, ins))
BY WriteKeepsFrame, FailKeepsFrame DEF UpdateInPlace

\* and those that take an element out of one.
LEMMA TakeKeepsFrame ==
  ASSUME NEW m, IsMachine(m), NEW ins
  PROVE  KeepsFrame(m, TakeAndWrite(m, ins))
<1> DEFINE e == LET c == TargetValue(m, ins.a[1]) IN IF IsFault(c) THEN c ELSE Taken(ins.op, c)
           n == WriteOperand(m, ins.a[1], e.rest)
<1>1. KeepsFrame(m, n) /\ IsMachine(n)
  BY WriteKeepsFrame DEF KeepsFrame
<1>2. KeepsFrame(n, WriteOperand(n, ins.a[2], e.out))
  BY <1>1, WriteKeepsFrame
<1>3. KeepsFrame(m, WriteOperand(n, ins.a[2], e.out))
  BY <1>1, <1>2, KeepsFrameTwice
<1> QED
  BY <1>3, FailKeepsFrame DEF TakeAndWrite

\* Which opcodes a table of operands covers.
LEMMA InMerge ==
  ASSUME NEW f, NEW g, NEW x PROVE x \in DOMAIN (f ++ g) <=> x \in DOMAIN f \/ x \in DOMAIN g
BY DEF ++
\* A table made by Reading covers the opcodes it is given.
LEMMA InReading ==
  ASSUME NEW S, NEW sources, NEW x PROVE x \in DOMAIN Reading(S, sources) <=> x \in S
BY DEF Reading
\* TMP_BLOCK and END_TMP, NOP and CATCH are in none of the tables.
LEMMA MemoryOpsApart ==
  ASSUME NEW op \in {"NOP", "TMP_BLOCK", "END_TMP", "CATCH"}
  PROVE  op \notin ReadingOps \cup UpdatingOps \cup TakingOps
<1>1. op \notin UnaryOps \cup ArithmeticOps \cup ComparisonOps \cup BitwiseOps \cup ShiftOps
                \cup KeyedReads \cup FieldReads \cup TakingOps
  BY DEF UnaryOps, ArithmeticOps, ComparisonOps, BitwiseOps, ShiftOps, KeyedReads, FieldReads,
         TakingOps
<1>2. op \notin DOMAIN ScalarReads
  BY <1>1, InMerge, InReading DEF ScalarReads
<1>3. op \notin DOMAIN CollectionReads
  BY <1>1, InMerge, InReading DEF CollectionReads
<1>4. op \notin DOMAIN UpdateReads
  BY InMerge, InReading, SMTT(90) DEF UpdateReads
<1> QED
  BY <1>1, <1>2, <1>3, <1>4 DEF ReadingOps, UpdatingOps

\* TMP_BLOCK pushes one TMP frame,
LEMMA TmpBlockStep ==
  ASSUME NEW m, IsMachine(m), NEW ins, ins.op = "TMP_BLOCK"
  PROVE  LET n == DataStep(m, ins) IN
           IsMachine(n) /\ KeepsControl(m, n) /\ Len(n.fr.tmps) = Len(m.fr.tmps) + 1
<1> DEFINE s == m.fr.tmps
           n == [m EXCEPT !.fr.tmps = Append(@, NoFunction)]
<1>1. DataStep(m, ins) = n
  <2>1. ins.op \notin ReadingOps \cup UpdatingOps \cup TakingOps /\ ins.op \in MemoryOps
    BY MemoryOpsApart DEF MemoryOps
  <2> QED
    BY <2>1 DEF DataStep, MemoryStep
<1>2. s \in Seq(Range(s) \cup {NoFunction})
  BY DEF IsMachine, IsSequence
<1>3. /\ Append(s, NoFunction) \in Seq(Range(s) \cup {NoFunction})
      /\ Len(Append(s, NoFunction)) = Len(s) + 1
  BY <1>2
<1>4. IsSequence(Append(s, NoFunction))
  BY <1>3, SeqIsSequence
<1> QED
  BY <1>1, <1>3, <1>4 DEF IsMachine, KeepsControl, FrameFields

\* and END_TMP pops one.
LEMMA EndTmpStep ==
  ASSUME NEW m, IsMachine(m), NEW ins, ins.op = "END_TMP"
  PROVE  LET n == DataStep(m, ins) IN
           /\ IsMachine(n) /\ KeepsControl(m, n)
           /\ Len(m.fr.tmps) > 0 => Len(n.fr.tmps) = Len(m.fr.tmps) - 1
<1> DEFINE s == m.fr.tmps
           n == [m EXCEPT !.fr.tmps = Front(@)]
<1>1. DataStep(m, ins) = IF s = <<>> THEN Fail(m, OutOfBounds) ELSE n
  <2>1. ins.op \notin ReadingOps \cup UpdatingOps \cup TakingOps /\ ins.op \in MemoryOps
    BY MemoryOpsApart DEF MemoryOps
  <2> QED
    BY <2>1 DEF DataStep, MemoryStep
<1>2. CASE s = <<>>
  BY <1>1, <1>2, FailKeepsFrame DEF KeepsFrame
<1>3. CASE s # <<>>
  <2>1. s \in Seq(Range(s)) /\ Len(s) \in Nat \ {0}
    BY <1>3 DEF IsMachine, IsSequence
  <2>2. Front(s) \in Seq(Range(s)) /\ Len(Front(s)) = Len(s) - 1
    BY <2>1 DEF Front
  <2>3. IsSequence(Front(s))
    BY <2>2, SeqIsSequence
  <2> QED
    BY <1>1, <1>3, <2>2, <2>3 DEF IsMachine, KeepsControl, FrameFields
<1> QED
  BY <1>2, <1>3

\* NOP, RESERVE, RELEASE and ADDR leave the frame as it stands.
LEMMA MemoryKeepsFrame ==
  ASSUME NEW m, IsMachine(m), NEW ins, ins.op \in MemoryOps \ {"TMP_BLOCK", "END_TMP"}
  PROVE  KeepsFrame(m, MemoryStep(m, ins))
<1>1. ins.op \in {"NOP", "RESERVE", "RELEASE", "ADDR"}
  BY DEF MemoryOps
<1>2. KeepsFrame(m, m)
  BY DEF KeepsFrame, KeepsControl
<1> QED
  BY <1>1, <1>2, WriteKeepsFrame, ReleasedKeepsFrame DEF MemoryStep

\* Every other data instruction leaves fn, ip, guard and the number of TMP frames.
LEMMA DataKeepsFrame ==
  ASSUME NEW m, IsMachine(m), NEW ins, ins.op \in DataOps \ {"TMP_BLOCK", "END_TMP"}
  PROVE  KeepsFrame(m, DataStep(m, ins))
BY ReadKeepsFrame, UpdateKeepsFrame, TakeKeepsFrame, MemoryKeepsFrame DEF DataStep, DataOps

-------------------------------------------------------------------------------
(* Sequences and blocks.                                                     *)
\* What Front, Append and their composition do to a stack.
LEMMA FrontFacts ==
  ASSUME NEW S, NEW s \in Seq(S), s # <<>>
  PROVE  /\ Len(s) \in Nat /\ Len(s) > 0 /\ DOMAIN s = 1 .. Len(s)
         /\ Front(s) \in Seq(S) /\ Len(Front(s)) = Len(s) - 1
         /\ \A k \in 1 .. Len(s) - 1 : Front(s)[k] = s[k]
<1>1. Len(s) \in Nat /\ Len(s) > 0 /\ DOMAIN s = 1 .. Len(s)
  OBVIOUS
<1>2. Front(s) \in Seq(S) /\ Len(Front(s)) = Len(s) - 1
  BY <1>1 DEF Front
<1>3. \A k \in 1 .. Len(s) - 1 : Front(s)[k] = s[k]
  BY <1>1 DEF Front
<1> QED
  BY <1>1, <1>2, <1>3

\* A push adds one element on top of the others.
LEMMA AppendOne ==
  ASSUME NEW s, IsSequence(s), NEW x
  PROVE  LET t == Append(s, x) IN
           /\ IsSequence(t) /\ Len(t) = Len(s) + 1 /\ Len(s) \in Nat
           /\ DOMAIN t = 1 .. Len(s) + 1 /\ DOMAIN s = 1 .. Len(s)
           /\ t[Len(s) + 1] = x
           /\ \A k \in 1 .. Len(s) : t[k] = s[k]
<1> DEFINE S == Range(s) \cup {x}
           t == Append(s, x)
<1>1. s \in Seq(S) /\ x \in S /\ Len(s) \in Nat
  BY DEF IsSequence
<1>2. t \in Seq(S) /\ Len(t) = Len(s) + 1
  BY <1>1
<1>3. IsSequence(t)
  BY <1>2, SeqIsSequence
<1> QED
  BY <1>1, <1>2, <1>3

\* A pop and a push replace the top and nothing else.
LEMMA ReplaceLast ==
  ASSUME NEW s, IsSequence(s), s # <<>>, NEW x
  PROVE  LET t == Append(Front(s), x) IN
           /\ IsSequence(t) /\ Len(t) = Len(s) /\ Len(s) \in Nat /\ Len(s) > 0
           /\ DOMAIN t = 1 .. Len(s) /\ DOMAIN s = 1 .. Len(s)
           /\ t[Len(s)] = x
           /\ \A k \in 1 .. Len(s) - 1 : t[k] = s[k]
<1> DEFINE t == Append(Front(s), x)
<1>1. PICK S : s \in Seq(S) /\ x \in S
  <2>1. s \in Seq(Range(s) \cup {x}) /\ x \in Range(s) \cup {x}
    BY DEF IsSequence
  <2> QED
    BY <2>1
<1>2. /\ Len(s) \in Nat /\ Len(s) > 0 /\ DOMAIN s = 1 .. Len(s)
      /\ Front(s) \in Seq(S) /\ Len(Front(s)) = Len(s) - 1
      /\ \A k \in 1 .. Len(s) - 1 : Front(s)[k] = s[k]
  BY <1>1, FrontFacts
<1>3. IsSequence(Front(s))
  BY <1>2, SeqIsSequence
<1>4. /\ IsSequence(t) /\ Len(t) = Len(Front(s)) + 1 /\ DOMAIN t = 1 .. Len(Front(s)) + 1
      /\ t[Len(Front(s)) + 1] = x
      /\ \A k \in 1 .. Len(Front(s)) : t[k] = Front(s)[k]
  BY <1>3, AppendOne
<1>5. Len(Front(s)) + 1 = Len(s)
  BY <1>2
<1> HIDE DEF t
<1> QED
  BY <1>2, <1>4, <1>5 DEF t

\* How the count of open TMP blocks goes from one instruction to the next.
LEMMA OpenTmpsStart ==
  ASSUME NEW code PROVE OpenTmps(code, 0) = 0
<1>1. \A op : {i \in 1 .. 0 : code[i].op = op} = {}
  OBVIOUS
<1> QED
  BY <1>1, FS_EmptySet DEF OpenTmps

\* How many of the first n instructions are op.
Seen(code, n, op) == Cardinality({i \in 1 .. n : code[i].op = op})

\* An instruction is seen once it is passed.
LEMMA SeenStep ==
  ASSUME NEW code, NEW ip \in Nat, NEW op
  PROVE  /\ Seen(code, ip, op) \in Nat
         /\ code[ip + 1].op = op => Seen(code, ip + 1, op) = Seen(code, ip, op) + 1
         /\ code[ip + 1].op # op => Seen(code, ip + 1, op) = Seen(code, ip, op)
<1> DEFINE S(n) == {i \in 1 .. n : code[i].op = op}
<1>1. IsFiniteSet(1 .. ip)
  BY FS_Interval
<1>2. IsFiniteSet(S(ip)) /\ Cardinality(S(ip)) \in Nat
  BY <1>1, FS_Subset, FS_CardinalityType
<1>3. CASE code[ip + 1].op = op
  <2>1. S(ip + 1) = S(ip) \cup {ip + 1} /\ ip + 1 \notin S(ip)
    BY <1>3
  <2> QED
    BY <1>2, <1>3, <2>1, FS_AddElement DEF Seen
<1>4. CASE code[ip + 1].op # op
  <2>1. S(ip + 1) = S(ip)
    BY <1>4
  <2> QED
    BY <1>2, <1>4, <2>1 DEF Seen
<1> QED
  BY <1>2, <1>3, <1>4 DEF Seen

\* Passing TMP_BLOCK opens a block, passing END_TMP closes one.
LEMMA OpenTmpsStep ==
  ASSUME NEW code, NEW ip \in Nat
  PROVE  /\ OpenTmps(code, ip) \in Int
         /\ code[ip + 1].op = "TMP_BLOCK" => OpenTmps(code, ip + 1) = OpenTmps(code, ip) + 1
         /\ code[ip + 1].op = "END_TMP" => OpenTmps(code, ip + 1) = OpenTmps(code, ip) - 1
         /\ code[ip + 1].op \notin {"TMP_BLOCK", "END_TMP"} =>
              OpenTmps(code, ip + 1) = OpenTmps(code, ip)
<1>1. /\ Seen(code, ip, "TMP_BLOCK") \in Nat
      /\ code[ip + 1].op = "TMP_BLOCK" =>
           Seen(code, ip + 1, "TMP_BLOCK") = Seen(code, ip, "TMP_BLOCK") + 1
      /\ code[ip + 1].op # "TMP_BLOCK" =>
           Seen(code, ip + 1, "TMP_BLOCK") = Seen(code, ip, "TMP_BLOCK")
  BY SeenStep
<1>2. /\ Seen(code, ip, "END_TMP") \in Nat
      /\ code[ip + 1].op = "END_TMP" =>
           Seen(code, ip + 1, "END_TMP") = Seen(code, ip, "END_TMP") + 1
      /\ code[ip + 1].op # "END_TMP" =>
           Seen(code, ip + 1, "END_TMP") = Seen(code, ip, "END_TMP")
  BY SeenStep
<1>3. \A n : OpenTmps(code, n) = Seen(code, n, "TMP_BLOCK") - Seen(code, n, "END_TMP")
  BY DEF OpenTmps, Seen
<1> QED
  BY <1>1, <1>2, <1>3

\* The guard g is that of a TRY block of code which ip is in.
Covers(code, ip, g) ==
  \E i \in Lines(code, {"TRY"}) :
    /\ code[i].a[1].i = g.catch /\ code[i].a[2].i = g.end
    /\ ip \in i .. g.catch
    /\ code[g.catch + 1].op = "CATCH" /\ code[g.end + 1].op = "ENDTRY"

\* What holds of every frame on the stack.
FrameOK(p, fr) ==
  /\ DOMAIN fr = FrameFields
  /\ fr.fn \in 0 .. Len(p.funcs) - 1
  /\ fr.ip \in 0 .. Len(CodeOf(p, fr))
  /\ IsSequence(fr.tmps)
  /\ fr.guard # <<>> => Covers(CodeOf(p, fr), fr.ip, fr.guard[1])
  /\ TmpsCountable(CodeOf(p, fr)) => Len(fr.tmps) = OpenTmps(CodeOf(p, fr), fr.ip)

\* What WellFormed says of one function.
CodeOK(code) ==
  /\ IsSequence(code) /\ CalleesNumbered(code)
  /\ JumpsLand(code) /\ BlocksClosed(code) /\ TmpsNest(code)
  /\ BlocksNotLeft(code) /\ TailCallsClean(code)

\* The function of a frame is a well-formed one.
LEMMA CodeIsOK ==
  ASSUME NEW p, WellFormed(p), NEW fr, fr.fn \in 0 .. Len(p.funcs) - 1
  PROVE  /\ CodeOK(CodeOf(p, fr))
         /\ Len(CodeOf(p, fr)) \in Nat /\ DOMAIN CodeOf(p, fr) = 1 .. Len(CodeOf(p, fr))
<1>1. fr.fn + 1 \in DOMAIN p.funcs
  BY DEF WellFormed, IsSequence
<1>2. CodeOK(CodeOf(p, fr))
  BY <1>1 DEF WellFormed, CodeOK, CodeOf
<1> QED
  BY <1>2 DEF CodeOK, IsSequence

\* A guard's addresses are those of a block.
LEMMA GuardAddresses ==
  ASSUME NEW code, CodeOK(code), NEW ip, NEW g, Covers(code, ip, g)
  PROVE  /\ ip \in Nat /\ ip <= g.catch
         /\ g.catch \in 0 .. Len(code) - 1 /\ g.end \in 0 .. Len(code) - 1
         /\ Lines(code, {"TRY"}) # {}
<1>1. PICK i \in Lines(code, {"TRY"}) :
         code[i].a[1].i = g.catch /\ code[i].a[2].i = g.end /\ ip \in i .. g.catch
  BY DEF Covers
<1>2. i \in 1 .. Len(code) /\ Len(code) \in Nat
  BY <1>1 DEF Lines, CodeOK, IsSequence
<1>3. g.catch \in i .. Len(code) - 1 /\ g.end \in 0 .. Len(code) - 1
  BY <1>1 DEF CodeOK, BlocksClosed
<1> QED
  BY <1>1, <1>2, <1>3

\* In a function with TRY blocks whose TMP frames can be counted there are none.
LEMMA NoTmpsWithTry ==
  ASSUME NEW code, CodeOK(code), TmpsCountable(code), Lines(code, {"TRY"}) # {},
         NEW ip \in 0 .. Len(code)
  PROVE  OpenTmps(code, ip) = 0
<1>1. \A i \in 1 .. ip : code[i].op # "TMP_BLOCK"
  BY DEF TmpsCountable, Lines, CodeOK, IsSequence
<1>2. Seen(code, ip, "TMP_BLOCK") = 0
  <2>1. {i \in 1 .. ip : code[i].op = "TMP_BLOCK"} = {}
    BY <1>1
  <2> QED
    BY <2>1, FS_EmptySet DEF Seen
<1>3. ip \in Nat
  BY DEF CodeOK, IsSequence
<1>4. Seen(code, ip, "END_TMP") \in Nat
  BY <1>3, SeenStep
<1>5. OpenTmps(code, ip) = Seen(code, ip, "TMP_BLOCK") - Seen(code, ip, "END_TMP")
  BY DEF OpenTmps, Seen
<1>6. OpenTmps(code, ip) >= 0
  BY DEF CodeOK, TmpsNest
<1> QED
  BY <1>2, <1>4, <1>5, <1>6

\* The next instruction of a covered frame is in the block, or is its CATCH.
LEMMA StaysCovered ==
  ASSUME NEW code, CodeOK(code), NEW ip \in 0 .. Len(code) - 1, NEW g, Covers(code, ip, g)
  PROVE  /\ code[ip + 1].op # "CATCH" => Covers(code, ip + 1, g)
         /\ code[ip + 1].op # "TAIL_CALL"
         /\ code[ip + 1].op \in JumpOps => Covers(code, Last(code[ip + 1].a).i, g)
<1>1. PICK i \in Lines(code, {"TRY"}) :
         /\ code[i].a[1].i = g.catch /\ code[i].a[2].i = g.end /\ ip \in i .. g.catch
         /\ code[g.catch + 1].op = "CATCH" /\ code[g.end + 1].op = "ENDTRY"
  BY DEF Covers
<1>2. i \in Nat /\ g.catch \in Nat /\ ip \in Nat
  BY <1>1, GuardAddresses DEF Lines, CodeOK, IsSequence
<1>3. \A j \in i + 1 .. g.catch :
        /\ code[j].op # "TAIL_CALL"
        /\ code[j].op \in JumpOps => Last(code[j].a).i \in i .. g.catch
  BY <1>1 DEF CodeOK, BlocksNotLeft
<1>4. CASE ip = g.catch
  <2>1. code[ip + 1].op = "CATCH"
    BY <1>1, <1>4
  <2> QED
    BY <2>1 DEF JumpOps
<1>5. CASE ip # g.catch
  <2>1. ip + 1 \in i + 1 .. g.catch /\ ip + 1 \in i .. g.catch
    BY <1>1, <1>2, <1>5
  <2>2. Covers(code, ip + 1, g)
    BY <1>1, <2>1 DEF Covers
  <2>3. ASSUME code[ip + 1].op \in JumpOps PROVE Covers(code, Last(code[ip + 1].a).i, g)
    BY <1>1, <1>3, <2>1, <2>3 DEF Covers
  <2> QED
    BY <1>3, <2>1, <2>2, <2>3
<1> QED
  BY <1>4, <1>5

\* fr2 is frame fr after instruction ins, which was at fr.ip, went on to the next one.
Advanced(fr, fr2, ins) ==
  /\ DOMAIN fr2 = FrameFields
  /\ fr2.fn = fr.fn /\ fr2.ip = fr.ip + 1 /\ fr2.guard = fr.guard
  /\ IsSequence(fr2.tmps)
  /\ CASE ins.op = "TMP_BLOCK" -> Len(fr2.tmps) = Len(fr.tmps) + 1
       [] ins.op = "END_TMP"   -> Len(fr.tmps) > 0 => Len(fr2.tmps) = Len(fr.tmps) - 1
       [] OTHER                -> Len(fr2.tmps) = Len(fr.tmps)

\* What the lemmas on frames assume.
Stepping(p, fr) == WellFormed(p) /\ FrameOK(p, fr) /\ fr.ip < Len(CodeOf(p, fr))

\* The next instruction of such a frame exists.
LEMMA SteppingFacts ==
  ASSUME NEW p, NEW fr, Stepping(p, fr)
  PROVE  LET code == CodeOf(p, fr) IN
           /\ CodeOK(code) /\ Len(code) \in Nat /\ DOMAIN code = 1 .. Len(code)
           /\ fr.ip \in 0 .. Len(code) - 1 /\ fr.ip \in Nat
           /\ fr.ip + 1 \in DOMAIN code /\ fr.ip + 1 \in 0 .. Len(code)
           /\ Len(fr.tmps) \in Nat
BY CodeIsOK DEF Stepping, FrameOK, IsSequence

\* An instruction other than CATCH that goes on to the next one.
LEMMA AdvanceOK ==
  ASSUME NEW p, NEW fr, Stepping(p, fr), NEW fr2,
         Advanced(fr, fr2, CodeOf(p, fr)[fr.ip + 1]),
         CodeOf(p, fr)[fr.ip + 1].op # "CATCH"
  PROVE  FrameOK(p, fr2)
<1> DEFINE code == CodeOf(p, fr)
           ins  == code[fr.ip + 1]
<1>1. /\ CodeOK(code) /\ Len(code) \in Nat /\ DOMAIN code = 1 .. Len(code)
      /\ fr.ip \in 0 .. Len(code) - 1 /\ fr.ip \in Nat
      /\ fr.ip + 1 \in DOMAIN code /\ fr.ip + 1 \in 0 .. Len(code)
      /\ Len(fr.tmps) \in Nat
  BY SteppingFacts
<1>2. CodeOf(p, fr2) = code
  BY DEF Advanced, CodeOf
<1>3. fr2.guard # <<>> => Covers(code, fr2.ip, fr2.guard[1])
  BY <1>1, StaysCovered DEF Advanced, Stepping, FrameOK
<1>4. ASSUME TmpsCountable(code) PROVE Len(fr2.tmps) = OpenTmps(code, fr.ip + 1)
  <2>1. Len(fr.tmps) = OpenTmps(code, fr.ip)
    BY <1>4 DEF Stepping, FrameOK
  <2>2. OpenTmps(code, fr.ip + 1) >= 0
    BY <1>1 DEF CodeOK, TmpsNest
  <2>3. CASE ins.op = "TMP_BLOCK"
    BY <1>1, <2>1, <2>3, OpenTmpsStep DEF Advanced
  <2>4. CASE ins.op = "END_TMP"
    <3>1. OpenTmps(code, fr.ip + 1) = Len(fr.tmps) - 1
      BY <1>1, <2>1, <2>4, OpenTmpsStep
    <3>2. Len(fr.tmps) > 0
      BY <1>1, <2>2, <3>1
    <3> QED
      BY <2>4, <3>1, <3>2 DEF Advanced
  <2>5. CASE ins.op \notin {"TMP_BLOCK", "END_TMP"}
    <3>1. Len(fr2.tmps) = Len(fr.tmps)
      BY <2>5 DEF Advanced
    <3>2. OpenTmps(code, fr.ip + 1) = OpenTmps(code, fr.ip)
      BY <1>1, <2>5, OpenTmpsStep
    <3> QED
      BY <2>1, <3>1, <3>2
  <2> QED
    BY <2>3, <2>4, <2>5
<1>5. fr2.fn \in 0 .. Len(p.funcs) - 1 /\ fr2.ip \in 0 .. Len(code)
  BY <1>1 DEF Advanced, Stepping, FrameOK
<1> QED
  BY <1>2, <1>3, <1>4, <1>5 DEF FrameOK, Advanced

\* A jump taken.
LEMMA JumpOK ==
  ASSUME NEW p, NEW fr, Stepping(p, fr), NEW fr2,
         CodeOf(p, fr)[fr.ip + 1].op \in JumpOps,
         fr2 = [fr EXCEPT !.ip = Last(CodeOf(p, fr)[fr.ip + 1].a).i]
  PROVE  FrameOK(p, fr2)
<1> DEFINE code == CodeOf(p, fr)
           ins  == code[fr.ip + 1]
           to   == Last(ins.a).i
<1>1. /\ CodeOK(code) /\ Len(code) \in Nat /\ DOMAIN code = 1 .. Len(code)
      /\ fr.ip \in 0 .. Len(code) - 1 /\ fr.ip \in Nat
      /\ fr.ip + 1 \in DOMAIN code /\ fr.ip + 1 \in 0 .. Len(code)
      /\ Len(fr.tmps) \in Nat
  BY SteppingFacts
<1>2. /\ DOMAIN fr2 = FrameFields /\ fr2.fn = fr.fn /\ fr2.ip = to
      /\ fr2.guard = fr.guard /\ fr2.tmps = fr.tmps
  BY DEF Stepping, FrameOK, FrameFields
<1>3. CodeOf(p, fr2) = code
  BY <1>2 DEF CodeOf
<1>4. fr.ip + 1 \in Lines(code, JumpOps)
  BY <1>1 DEF Lines
<1>5. to \in 0 .. Len(code)
  BY <1>1, <1>4 DEF CodeOK, JumpsLand
<1>6. fr2.guard # <<>> => Covers(code, to, fr2.guard[1])
  BY <1>1, <1>2, StaysCovered DEF Stepping, FrameOK
<1>7. OpenTmps(code, to) = OpenTmps(code, fr.ip)
  <2>1. OpenTmps(code, to) = OpenTmps(code, fr.ip + 1)
    BY <1>1, <1>4 DEF CodeOK, TmpsNest
  <2>2. ins.op \notin {"TMP_BLOCK", "END_TMP"}
    BY DEF JumpOps
  <2> QED
    BY <1>1, <2>1, <2>2, OpenTmpsStep
<1> QED
  BY <1>2, <1>3, <1>5, <1>6, <1>7 DEF FrameOK, Stepping

\* A fault is caught: control goes to the handler, and the guard is taken.
LEMMA RecoveredOK ==
  ASSUME NEW p, WellFormed(p), NEW fr, FrameOK(p, fr), fr.guard # <<>>,
         NEW fr2, DOMAIN fr2 = FrameFields, fr2.fn = fr.fn, fr2.tmps = fr.tmps,
         fr2.guard = <<>>, fr2.ip \in {fr.guard[1].catch, fr.guard[1].end}
  PROVE  FrameOK(p, fr2)
<1> DEFINE code == CodeOf(p, fr)
<1>1. CodeOK(code) /\ Len(code) \in Nat
  BY CodeIsOK DEF FrameOK
<1>2. Covers(code, fr.ip, fr.guard[1])
  BY DEF FrameOK
<1>3. fr2.ip \in 0 .. Len(code) /\ Lines(code, {"TRY"}) # {}
  BY <1>1, <1>2, GuardAddresses
<1>4. ASSUME TmpsCountable(code) PROVE OpenTmps(code, fr2.ip) = OpenTmps(code, fr.ip)
  BY <1>1, <1>3, <1>4, NoTmpsWithTry DEF FrameOK
<1>5. CodeOf(p, fr2) = code
  BY DEF CodeOf
<1> QED
  BY <1>3, <1>4, <1>5 DEF FrameOK

\* TRY arms its own guard.
LEMMA TryOK ==
  ASSUME NEW p, NEW fr, Stepping(p, fr), CodeOf(p, fr)[fr.ip + 1].op = "TRY",
         NEW fr2, DOMAIN fr2 = FrameFields, fr2.fn = fr.fn, fr2.tmps = fr.tmps,
         fr2.ip = fr.ip + 1,
         fr2.guard[1].catch = CodeOf(p, fr)[fr.ip + 1].a[1].i,
         fr2.guard[1].end = CodeOf(p, fr)[fr.ip + 1].a[2].i
  PROVE  FrameOK(p, fr2)
<1> DEFINE code == CodeOf(p, fr)
<1>1. /\ CodeOK(code) /\ Len(code) \in Nat /\ DOMAIN code = 1 .. Len(code)
      /\ fr.ip \in 0 .. Len(code) - 1 /\ fr.ip \in Nat
      /\ fr.ip + 1 \in DOMAIN code /\ fr.ip + 1 \in 0 .. Len(code)
  BY SteppingFacts
<1>2. fr.ip + 1 \in Lines(code, {"TRY"})
  BY <1>1 DEF Lines
<1>3. Covers(code, fr.ip + 1, fr2.guard[1])
  <2>1. /\ code[fr.ip + 1].a[1].i \in fr.ip + 1 .. Len(code) - 1
        /\ code[code[fr.ip + 1].a[1].i + 1].op = "CATCH"
        /\ code[code[fr.ip + 1].a[2].i + 1].op = "ENDTRY"
    BY <1>1, <1>2 DEF CodeOK, BlocksClosed
  <2>2. fr.ip + 1 \in fr.ip + 1 .. code[fr.ip + 1].a[1].i
    BY <1>1, <2>1
  <2> QED
    BY <1>2, <2>1, <2>2 DEF Covers
<1>4. ASSUME TmpsCountable(code) PROVE OpenTmps(code, fr.ip + 1) = OpenTmps(code, fr.ip)
  BY <1>1, OpenTmpsStep
<1>5. CodeOf(p, fr2) = code
  BY DEF CodeOf
<1> QED
  BY <1>1, <1>3, <1>4, <1>5 DEF FrameOK, Stepping

\* CATCH without a guard, and ENDTRY: the next instruction, with no guard.
LEMMA DisarmedOK ==
  ASSUME NEW p, NEW fr, Stepping(p, fr), CodeOf(p, fr)[fr.ip + 1].op \in {"CATCH", "ENDTRY"},
         NEW fr2, DOMAIN fr2 = FrameFields, fr2.fn = fr.fn, fr2.tmps = fr.tmps,
         fr2.ip = fr.ip + 1, fr2.guard = <<>>
  PROVE  FrameOK(p, fr2)
<1> DEFINE code == CodeOf(p, fr)
<1>1. /\ CodeOK(code) /\ Len(code) \in Nat
      /\ fr.ip \in Nat /\ fr.ip + 1 \in 0 .. Len(code)
  BY SteppingFacts
<1>2. OpenTmps(code, fr.ip + 1) = OpenTmps(code, fr.ip)
  BY <1>1, OpenTmpsStep
<1>3. CodeOf(p, fr2) = code
  BY DEF CodeOf
<1> QED
  BY <1>1, <1>2, <1>3 DEF FrameOK, Stepping

\* A function that is entered, with the TMP frames and the guard of none.
LEMMA EnteredOK ==
  ASSUME NEW p, WellFormed(p), NEW f \in Nat, f < Len(p.funcs), NEW fr,
         DOMAIN fr = FrameFields, fr.fn = f, fr.ip = 0, fr.guard = <<>>,
         IsSequence(fr.tmps), TmpsCountable(CodeOf(p, fr)) => Len(fr.tmps) = 0
  PROVE  FrameOK(p, fr)
<1>1. Len(p.funcs) \in Nat
  BY DEF WellFormed, IsSequence
<1>2. fr.fn \in 0 .. Len(p.funcs) - 1
  BY <1>1
<1>3. 0 \in 0 .. Len(CodeOf(p, fr))
  BY <1>2, CodeIsOK
<1> QED
  BY <1>2, <1>3, OpenTmpsStart DEF FrameOK

-------------------------------------------------------------------------------
(* The executor.                                                             *)
\* The inductive invariant: every frame on the stack is one its function can have.
IInv(p) ==
  /\ program = p
  /\ IsSequence(stack)
  /\ Running => stack # <<>>
  /\ \A k \in DOMAIN stack : FrameOK(p, stack[k])

\* The three ways a step leaves the stack.
LEMMA TopReplaced ==
  ASSUME NEW p, IInv(p), stack # <<>>, NEW fr, FrameOK(p, fr),
         program' = program, stack' = Append(Front(stack), fr)
  PROVE  IInv(p)'
<1>1. /\ IsSequence(stack') /\ Len(stack') = Len(stack) /\ Len(stack) \in Nat /\ Len(stack) > 0
      /\ DOMAIN stack' = 1 .. Len(stack) /\ DOMAIN stack = 1 .. Len(stack)
      /\ stack'[Len(stack)] = fr
      /\ \A k \in 1 .. Len(stack) - 1 : stack'[k] = stack[k]
  BY ReplaceLast DEF IInv
<1>2. stack' # <<>>
  BY <1>1
<1>3. \A k \in DOMAIN stack' : FrameOK(p, stack'[k])
  <2> TAKE k \in DOMAIN stack'
  <2>1. CASE k = Len(stack)
    BY <1>1, <2>1
  <2>2. CASE k # Len(stack)
    BY <1>1, <2>2 DEF IInv
  <2> QED
    BY <2>1, <2>2
<1> QED
  BY <1>1, <1>2, <1>3 DEF IInv

\* The top frame goes on and a new one is on top of it.
LEMMA TopPushed ==
  ASSUME NEW p, IInv(p), stack # <<>>, NEW fr, FrameOK(p, fr), NEW fr2, FrameOK(p, fr2),
         program' = program, stack' = Append(Append(Front(stack), fr), fr2)
  PROVE  IInv(p)'
<1> DEFINE t == Append(Front(stack), fr)
<1>1. /\ IsSequence(t) /\ Len(t) = Len(stack) /\ Len(stack) \in Nat /\ Len(stack) > 0
      /\ DOMAIN t = 1 .. Len(stack) /\ DOMAIN stack = 1 .. Len(stack)
      /\ t[Len(stack)] = fr
      /\ \A k \in 1 .. Len(stack) - 1 : t[k] = stack[k]
  BY ReplaceLast DEF IInv
<1>2. \A k \in 1 .. Len(stack) : FrameOK(p, t[k])
  <2> TAKE k \in 1 .. Len(stack)
  <2>1. CASE k = Len(stack)
    BY <1>1, <2>1
  <2>2. CASE k # Len(stack)
    BY <1>1, <2>2 DEF IInv
  <2> QED
    BY <2>1, <2>2
<1> HIDE DEF t
<1>3. stack' = Append(t, fr2)
  BY DEF t
<1>4. /\ IsSequence(stack') /\ Len(stack') = Len(t) + 1
      /\ DOMAIN stack' = 1 .. Len(t) + 1 /\ stack'[Len(t) + 1] = fr2
      /\ \A k \in 1 .. Len(t) : stack'[k] = t[k]
  BY <1>1, <1>3, AppendOne
<1>5. \A k \in DOMAIN stack' : FrameOK(p, stack'[k])
  <2> TAKE k \in DOMAIN stack'
  <2>1. CASE k = Len(t) + 1
    BY <1>4, <2>1
  <2>2. CASE k # Len(t) + 1
    BY <1>1, <1>2, <1>4, <2>2
  <2> QED
    BY <2>1, <2>2
<1>6. stack' # <<>>
  BY <1>1, <1>4
<1> QED
  BY <1>4, <1>5, <1>6 DEF IInv

\* The top frame is popped, and its result goes to $ret of the next or ends the run.
LEMMA LeaveOK ==
  ASSUME NEW p, IInv(p), stack # <<>>, NEW v, Leave(v)
  PROVE  IInv(p)'
<1>1. PICK S : stack \in Seq(S)
  BY DEF IInv, IsSequence
<1>2. /\ Len(stack) \in Nat /\ Len(stack) > 0 /\ DOMAIN stack = 1 .. Len(stack)
      /\ Front(stack) \in Seq(S) /\ Len(Front(stack)) = Len(stack) - 1
      /\ \A k \in 1 .. Len(stack) - 1 : Front(stack)[k] = stack[k]
  BY <1>1, FrontFacts
<1>3. CASE Len(stack) = 1
  <2>1. stack' = <<>> /\ outcome' = Done(v) /\ program' = program
    BY <1>3 DEF Leave
  <2>2. ~Running'
    BY <2>1 DEF Running, Done
  <2>3. IsSequence(<<>>)
    <3>1. <<>> \in Seq({})
      OBVIOUS
    <3> QED
      BY <3>1, SeqIsSequence
  <2> QED
    BY <2>1, <2>2, <2>3 DEF IInv
<1>4. CASE Len(stack) # 1
  <2> DEFINE u == Front(stack)
             n == Len(stack) - 1
  <2>1. stack' = [u EXCEPT ![n].ret = v] /\ program' = program
    BY <1>4 DEF Leave
  <2>2. n \in 1 .. n /\ DOMAIN u = 1 .. n /\ IsSequence(u) /\ n \in Nat
    BY <1>2, <1>4, SeqIsSequence
  <2>3. stack' = [u EXCEPT ![n] = [u[n] EXCEPT !.ret = v]]
    BY <2>1
  <2>4. IsSequence(stack') /\ Len(stack') = Len(u)
    BY <2>2, <2>3, ExceptIsSequence
  <2>5. \A k \in 1 .. n : FrameOK(p, u[k])
    BY <1>2 DEF IInv
  <2>6. FrameOK(p, [u[n] EXCEPT !.ret = v])
    BY <2>2, <2>5 DEF FrameOK, FrameFields, CodeOf
  <2>7. \A k \in DOMAIN stack' : FrameOK(p, stack'[k])
    <3>1. DOMAIN stack' = 1 .. n /\ stack'[n] = [u[n] EXCEPT !.ret = v]
          /\ \A k \in 1 .. n : k # n => stack'[k] = u[k]
      BY <2>2, <2>3
    <3> HIDE DEF u, n
    <3> QED
      BY <2>5, <2>6, <3>1
  <2>8. stack' # <<>>
    BY <1>2, <2>2, <2>4
  <2> QED
    BY <2>1, <2>4, <2>7, <2>8 DEF IInv
<1> QED
  BY <1>3, <1>4

\* The frame that executes, and the machine its instruction runs on.
LEMMA TopFacts ==
  ASSUME NEW p, WellFormed(p), IInv(p), Running
  PROVE  /\ stack # <<>> /\ program = p
         /\ FrameOK(p, Top) /\ IsMachine(Machine)
         /\ ~AtEnd => Stepping(p, Top) /\ Current = CodeOf(p, Top)[Top.ip + 1]
<1>1. stack # <<>> /\ program = p /\ IsSequence(stack)
  BY DEF IInv
<1>2. Len(stack) \in DOMAIN stack /\ Top = stack[Len(stack)]
  BY <1>1 DEF IsSequence, Top, Last
<1>3. FrameOK(p, Top)
  BY <1>2 DEF IInv
<1>4. IsMachine(Machine)
  BY <1>3 DEF IsMachine, Machine, FrameOK, FrameFields
<1>5. ASSUME ~AtEnd PROVE Stepping(p, Top)
  <2>1. Top.ip \in Int /\ Len(CodeOf(p, Top)) \in Int /\ ~(Top.ip >= Len(CodeOf(p, Top)))
    BY <1>1, <1>3, <1>5, CodeIsOK DEF AtEnd, FrameOK
  <2> QED
    BY <1>3, <2>1 DEF Stepping
<1> QED
  BY <1>1, <1>3, <1>4, <1>5 DEF Current

\* An instruction that leaves the TMP frames, the guard and the function alone.
LEMMA KeptIsAdvanced ==
  ASSUME NEW p, WellFormed(p), IInv(p), Running, ~AtEnd, NEW m, KeepsFrame(Machine, m),
         Current.op \notin {"TMP_BLOCK", "END_TMP"}
  PROVE  IsMachine(m) /\ Advanced(Top, m.fr, Current)
<1>1. FrameOK(p, Top) /\ IsMachine(Machine)
  BY TopFacts
<1>2. /\ Machine.fr.fn = Top.fn /\ Machine.fr.ip = Top.ip + 1 /\ Machine.fr.guard = Top.guard
      /\ Machine.fr.tmps = Top.tmps
  BY <1>1 DEF Machine, FrameOK, FrameFields
<1> QED
  BY <1>2 DEF KeepsFrame, KeepsControl, IsMachine, Advanced

\* Every data instruction, done or failed, goes on to the next one.
LEMMA DataAdvances ==
  ASSUME NEW p, WellFormed(p), IInv(p), Running, ~AtEnd, Current.op \in DataOps
  PROVE  /\ IsMachine(DataStep(Machine, Current))
         /\ Advanced(Top, DataStep(Machine, Current).fr, Current)
         /\ Current.op # "CATCH"
<1>1. FrameOK(p, Top) /\ IsMachine(Machine)
  BY TopFacts
<1>2. /\ Machine.fr.fn = Top.fn /\ Machine.fr.ip = Top.ip + 1 /\ Machine.fr.guard = Top.guard
      /\ Machine.fr.tmps = Top.tmps
  BY <1>1 DEF Machine, FrameOK, FrameFields
<1> DEFINE n == DataStep(Machine, Current)
<1>3. Current.op # "CATCH"
  BY MemoryOpsApart DEF DataOps, MemoryOps
<1>4. CASE Current.op \notin {"TMP_BLOCK", "END_TMP"}
  <2>1. KeepsFrame(Machine, n)
    BY <1>1, <1>4, DataKeepsFrame
  <2> QED
    BY <1>3, <1>4, <2>1, KeptIsAdvanced
<1>5. CASE Current.op = "TMP_BLOCK"
  <2>1. IsMachine(n) /\ KeepsControl(Machine, n) /\ Len(n.fr.tmps) = Len(Top.tmps) + 1
    BY <1>1, <1>2, <1>5, TmpBlockStep
  <2> HIDE DEF n
  <2>2. IsMachine(n) /\ Advanced(Top, n.fr, Current)
    BY <1>2, <1>5, <2>1 DEF KeepsControl, IsMachine, Advanced
  <2> QED
    BY <1>3, <2>2 DEF n
<1>6. CASE Current.op = "END_TMP"
  <2>1. /\ IsMachine(n) /\ KeepsControl(Machine, n)
        /\ Len(Top.tmps) > 0 => Len(n.fr.tmps) = Len(Top.tmps) - 1
    BY <1>1, <1>2, <1>6, EndTmpStep
  <2> HIDE DEF n
  <2>2. IsMachine(n) /\ Advanced(Top, n.fr, Current)
    BY <1>2, <1>6, <2>1 DEF KeepsControl, IsMachine, Advanced
  <2> QED
    BY <1>3, <2>2 DEF n
<1> QED
  BY <1>4, <1>5, <1>6

\* What becomes of a step that left the top frame fit to go on.
LEMMA ContinueOK ==
  ASSUME NEW p, IInv(p), Running, NEW m, FrameOK(p, m.fr), Continue(m)
  PROVE  IInv(p)'
<1>1. stack # <<>>
  BY DEF IInv
<1>2. program' = program /\ stack' = Append(Front(stack), m.fr)
  BY DEF Continue
<1> QED
  BY <1>1, <1>2, TopReplaced

\* A step that ends in a fault nobody handles leaves the stack for the caller to see.
LEMMA UnhandledOK ==
  ASSUME NEW p, IInv(p), Running, NEW m, FrameOK(p, m.fr), Unhandled(m)
  PROVE  IInv(p)'
<1>1. stack # <<>>
  BY DEF IInv
<1>2. program' = program /\ stack' = Append(Front(stack), m.fr)
  BY DEF Unhandled
<1> QED
  BY <1>1, <1>2, TopReplaced

\* A step of the top frame, done, faulting in a TRY block, or faulting outside one.
LEMMA SettleFrameOK ==
  ASSUME NEW p, WellFormed(p), IInv(p), Running, NEW m, IsMachine(m), FrameOK(p, m.fr), Settle(m)
  PROVE  IInv(p)'
<1>1. CASE ~Failed(m)
  <2>1. Continue(m)
    BY <1>1 DEF Settle
  <2> QED
    BY <2>1, ContinueOK
<1>2. CASE Failed(m) /\ m.fault # "Panic" /\ m.fr.guard # <<>>
  <2> DEFINE r == Recovered(m)
  <2>1. Continue(r)
    BY <1>2 DEF Settle
  <2>2. /\ DOMAIN r.fr = FrameFields /\ r.fr.fn = m.fr.fn /\ r.fr.tmps = m.fr.tmps
        /\ r.fr.guard = <<>> /\ r.fr.ip = m.fr.guard[1].catch
    BY DEF Recovered, IsMachine, FrameFields
  <2> HIDE DEF r
  <2>3. FrameOK(p, r.fr)
    BY <1>2, <2>2, RecoveredOK
  <2> QED
    BY <2>1, <2>3, ContinueOK
<1>3. CASE Failed(m) /\ ~(m.fault # "Panic" /\ m.fr.guard # <<>>)
  <2>1. Unhandled(m)
    BY <1>3 DEF Settle
  <2> QED
    BY <2>1, UnhandledOK
<1> QED
  BY <1>1, <1>2, <1>3

\* The same, where the frame stands as it was fetched.
LEMMA SettleOK ==
  ASSUME NEW p, WellFormed(p), IInv(p), Running, ~AtEnd, Current.op # "CATCH",
         NEW m, IsMachine(m), Advanced(Top, m.fr, Current), Settle(m)
  PROVE  IInv(p)'
<1>1. Stepping(p, Top) /\ Current = CodeOf(p, Top)[Top.ip + 1]
  BY TopFacts
<1>2. FrameOK(p, m.fr)
  BY <1>1, AdvanceOK
<1> QED
  BY <1>2, SettleFrameOK

\* The machine before its instruction did anything, and after it failed to read.
LEMMA MachineAdvances ==
  ASSUME NEW p, WellFormed(p), IInv(p), Running, ~AtEnd,
         Current.op \notin {"TMP_BLOCK", "END_TMP"}
  PROVE  /\ IsMachine(Machine) /\ Advanced(Top, Machine.fr, Current)
         /\ \A v : IsMachine(Fail(Machine, v)) /\ Advanced(Top, Fail(Machine, v).fr, Current)
         /\ \A v : LET m == [Machine EXCEPT !.fr.ret = v] IN
                     IsMachine(m) /\ Advanced(Top, m.fr, Current)
<1>1. IsMachine(Machine)
  BY TopFacts
<1>2. KeepsFrame(Machine, Machine)
  BY <1>1 DEF KeepsFrame, KeepsControl
<1>3. ASSUME NEW v PROVE KeepsFrame(Machine, Fail(Machine, v))
  BY <1>1, FailKeepsFrame
<1>4. ASSUME NEW v PROVE KeepsFrame(Machine, [Machine EXCEPT !.fr.ret = v])
  BY <1>1 DEF KeepsFrame, KeepsControl, IsMachine, FrameFields
<1> QED
  BY <1>2, <1>3, <1>4, KeptIsAdvanced

\* One lemma per action.  The end of a function returns $ret.
LEMMA EndOfFunctionStep ==
  ASSUME NEW p, WellFormed(p), IInv(p), EndOfFunction PROVE IInv(p)'
BY LeaveOK, TopFacts DEF EndOfFunction

\* A data instruction.
LEMMA DataInstructionOK ==
  ASSUME NEW p, WellFormed(p), IInv(p), DataInstruction PROVE IInv(p)'
<1> DEFINE n == DataStep(Machine, Current)
<1>1. Running /\ ~AtEnd /\ Current.op \in DataOps /\ Settle(n)
  BY DEF DataInstruction, Executing
<1>2. IsMachine(n) /\ Advanced(Top, n.fr, Current) /\ Current.op # "CATCH"
  BY <1>1, DataAdvances
<1> HIDE DEF n
<1> QED
  BY <1>1, <1>2, SettleOK

\* JMP, JZ and JNZ, taken or not.
LEMMA JumpTakenOK ==
  ASSUME NEW p, WellFormed(p), IInv(p), Executing(JumpOps),
         Settle(JumpTo(Last(Current.a).i))
  PROVE  IInv(p)'
<1> DEFINE m == JumpTo(Last(Current.a).i)
<1>1. /\ Running /\ FrameOK(p, Top) /\ IsMachine(Machine) /\ Stepping(p, Top)
      /\ Current = CodeOf(p, Top)[Top.ip + 1] /\ Current.op \in JumpOps
  BY TopFacts DEF Executing
<1>2. m.fr = [Top EXCEPT !.ip = Last(CodeOf(p, Top)[Top.ip + 1].a).i]
  BY <1>1 DEF JumpTo, Machine, FrameOK, FrameFields
<1>3. FrameOK(p, m.fr)
  BY <1>1, <1>2, JumpOK
<1>4. IsMachine(m)
  BY <1>1 DEF JumpTo, IsMachine, FrameFields
<1> HIDE DEF m
<1>5. Settle(m)
  BY DEF m
<1> QED
  BY <1>1, <1>3, <1>4, <1>5, SettleFrameOK

\* An instruction that neither moves control nor touches the TMP frames: it
\* fails, it does nothing more, or it leaves a result in $ret.
LEMMA PlainSettleOK ==
  ASSUME NEW p, WellFormed(p), IInv(p), Running, ~AtEnd,
         Current.op \notin {"TMP_BLOCK", "END_TMP", "CATCH"}
  PROVE  /\ Settle(Machine) => IInv(p)'
         /\ \A v : Settle(Fail(Machine, v)) => IInv(p)'
         /\ \A v : Continue([Machine EXCEPT !.fr.ret = v]) => IInv(p)'
<1>1. /\ IsMachine(Machine) /\ Advanced(Top, Machine.fr, Current)
      /\ \A v : IsMachine(Fail(Machine, v)) /\ Advanced(Top, Fail(Machine, v).fr, Current)
      /\ \A v : LET m == [Machine EXCEPT !.fr.ret = v] IN
                  IsMachine(m) /\ Advanced(Top, m.fr, Current)
  BY MachineAdvances
<1>2. Stepping(p, Top) /\ Current = CodeOf(p, Top)[Top.ip + 1]
  BY TopFacts
<1>3. ASSUME NEW m, IsMachine(m), Advanced(Top, m.fr, Current), Settle(m) PROVE IInv(p)'
  BY <1>3, SettleOK
<1>4. ASSUME NEW v, Continue([Machine EXCEPT !.fr.ret = v]) PROVE IInv(p)'
  <2> DEFINE m == [Machine EXCEPT !.fr.ret = v]
  <2>1. Advanced(Top, m.fr, Current) /\ Continue(m)
    BY <1>1, <1>4
  <2> HIDE DEF m
  <2>2. FrameOK(p, m.fr)
    BY <1>2, <2>1, AdvanceOK
  <2> QED
    BY <2>1, <2>2, ContinueOK
<1> QED
  BY <1>1, <1>3, <1>4

\* The action, whatever its condition reads.
LEMMA JumpStepOK ==
  ASSUME NEW p, WellFormed(p), IInv(p), Jump PROVE IInv(p)'
<1>1. Executing(JumpOps)
  BY DEF Jump
<1>2. Running /\ ~AtEnd /\ Current.op \notin {"TMP_BLOCK", "END_TMP", "CATCH"}
  BY <1>1 DEF Executing, JumpOps
<1>3. \/ \E v : Settle(Fail(Machine, v))
      \/ Settle(JumpTo(Last(Current.a).i))
      \/ Settle(Machine)
  BY DEF Jump
<1> QED
  BY <1>1, <1>2, <1>3, PlainSettleOK, JumpTakenOK

\* A native function aborted the process.
LEMMA CrashOK ==
  ASSUME NEW p, IInv(p), Crash PROVE IInv(p)'
<1>1. stack' = <<>> /\ program' = program /\ ~Running'
  BY DEF Crash, Running
<1>2. IsSequence(<<>>)
  <2>1. <<>> \in Seq({})
    OBVIOUS
  <2> QED
    BY <2>1, SeqIsSequence
<1> QED
  BY <1>1, <1>2 DEF IInv

\* A new frame has no TMP frames and no guard (CallFrame::new).
LEMMA NewFrameFacts ==
  ASSUME NEW f, NEW args
  PROVE  LET fr == NewFrame(f, args) IN
           /\ DOMAIN fr = FrameFields /\ fr.fn = f /\ fr.ip = 0 /\ fr.guard = <<>>
           /\ fr.tmps = <<>> /\ IsSequence(fr.tmps) /\ Len(fr.tmps) = 0
<1>1. <<>> \in Seq({})
  OBVIOUS
<1>2. IsSequence(<<>>)
  BY <1>1, SeqIsSequence
<1> QED
  BY <1>2 DEF NewFrame, FrameFields

\* CALL and ASYNC_CALL, served by the interpreter or by native code.
LEMMA EnterOK ==
  ASSUME NEW p, WellFormed(p), IInv(p), Executing({"CALL", "ASYNC_CALL"}),
         NEW f \in Nat, f < Len(p.funcs), NEW args, Enter(f, args)
  PROVE  IInv(p)'
<1>1. /\ Running /\ ~AtEnd /\ Current.op \notin {"TMP_BLOCK", "END_TMP", "CATCH"}
      /\ stack # <<>> /\ program = p
      /\ Stepping(p, Top) /\ Current = CodeOf(p, Top)[Top.ip + 1]
  BY TopFacts DEF Executing
<1>2. IsMachine(Machine) /\ Advanced(Top, Machine.fr, Current)
  BY <1>1, MachineAdvances
<1>3. FrameOK(p, Machine.fr)
  BY <1>1, <1>2, AdvanceOK
<1>4. \/ Crash
      \/ \E v : Continue([Machine EXCEPT !.fr.ret = v])
      \/ Unhandled([Machine EXCEPT !.fault = "StackOverflow"])
      \/ /\ stack' = Append(Append(Front(stack), Machine.fr), NewFrame(f, args))
         /\ program' = program
  BY DEF Enter
<1>5. ASSUME Unhandled([Machine EXCEPT !.fault = "StackOverflow"]) PROVE IInv(p)'
  <2> DEFINE m == [Machine EXCEPT !.fault = "StackOverflow"]
  <2>1. m.fr = Machine.fr /\ Unhandled(m)
    BY <1>2, <1>5 DEF IsMachine
  <2> HIDE DEF m
  <2> QED
    BY <1>1, <1>3, <2>1, UnhandledOK
<1>6. ASSUME stack' = Append(Append(Front(stack), Machine.fr), NewFrame(f, args)),
             program' = program
      PROVE  IInv(p)'
  <2>1. FrameOK(p, NewFrame(f, args))
    BY NewFrameFacts, EnteredOK
  <2> QED
    BY <1>1, <1>3, <1>6, <2>1, TopPushed
<1> QED
  BY <1>1, <1>4, <1>5, <1>6, CrashOK, PlainSettleOK

\* The action, with arguments that may fault and a stack that may be full.
LEMMA CallOK ==
  ASSUME NEW p, WellFormed(p), IInv(p), Call PROVE IInv(p)'
<1> DEFINE f == Current.a[1].i
<1>1. Executing({"CALL", "ASYNC_CALL"})
  BY DEF Call
<1>2. /\ Running /\ ~AtEnd /\ Current.op \in {"CALL", "ASYNC_CALL"}
      /\ Current.op \notin {"TMP_BLOCK", "END_TMP", "CATCH"}
      /\ program = p /\ Stepping(p, Top) /\ Current = CodeOf(p, Top)[Top.ip + 1]
  BY <1>1, TopFacts DEF Executing
<1>3. f \in Nat
  <2>1. CodeOK(CodeOf(p, Top)) /\ Top.ip + 1 \in DOMAIN CodeOf(p, Top)
    BY <1>2, SteppingFacts
  <2>2. Top.ip + 1 \in Lines(CodeOf(p, Top), {"CALL", "ASYNC_CALL", "TAIL_CALL"})
    BY <1>2, <2>1 DEF Lines
  <2> QED
    BY <1>2, <2>1, <2>2 DEF CodeOK, CalleesNumbered
<1>4. \/ \E v : Settle(Fail(Machine, v))
      \/ f < Len(p.funcs) /\ \E args : Enter(f, args)
  <2>1. Len(p.funcs) \in Nat
    BY DEF WellFormed, IsSequence
  <2>2. f >= Len(p.funcs) \/ f < Len(p.funcs)
    BY <1>3, <2>1
  <2> QED
    BY <1>2, <2>2 DEF Call
<1> HIDE DEF f
<1> QED
  BY <1>1, <1>2, <1>3, <1>4, EnterOK, PlainSettleOK

\* Where a tail call is, the frame has no guard and no TMP frames to hand over.
LEMMA TailCallHandsNothingOver ==
  ASSUME NEW p, WellFormed(p), IInv(p), Executing({"TAIL_CALL"})
  PROVE  /\ Top.guard = <<>> /\ IsSequence(Top.tmps) /\ Len(Top.tmps) = 0
         /\ Current.a[1].i \in Nat
<1> DEFINE code == CodeOf(p, Top)
<1>1. Running /\ ~AtEnd /\ Current.op = "TAIL_CALL" /\ Stepping(p, Top)
      /\ Current = code[Top.ip + 1]
  BY TopFacts DEF Executing
<1>2. /\ CodeOK(code) /\ Top.ip \in 0 .. Len(code) - 1 /\ Top.ip \in Nat
      /\ Top.ip + 1 \in DOMAIN code
  BY <1>1, SteppingFacts
<1>3. /\ IsSequence(Top.tmps)
      /\ Top.guard # <<>> => Covers(code, Top.ip, Top.guard[1])
      /\ TmpsCountable(code) => Len(Top.tmps) = OpenTmps(code, Top.ip)
  BY <1>1 DEF Stepping, FrameOK
<1>4. Top.guard = <<>>
  BY <1>1, <1>2, <1>3, StaysCovered
<1>5. Top.ip + 1 \in Lines(code, {"TAIL_CALL"})
      /\ Top.ip + 1 \in Lines(code, {"CALL", "ASYNC_CALL", "TAIL_CALL"})
  BY <1>1, <1>2 DEF Lines
<1>6. TmpsCountable(code) /\ OpenTmps(code, Top.ip + 1) = 0 /\ Current.a[1].i \in Nat
  BY <1>1, <1>2, <1>5 DEF CodeOK, TailCallsClean, CalleesNumbered
<1>7. OpenTmps(code, Top.ip) = 0
  BY <1>1, <1>2, <1>6, OpenTmpsStep
<1> QED
  BY <1>3, <1>4, <1>6, <1>7

\* TAIL_CALL keeps the guard of the frame it replaces (executor.rs:354): there is none.
LEMMA ReplaceOK ==
  ASSUME NEW p, WellFormed(p), IInv(p), Executing({"TAIL_CALL"}),
         NEW f \in Nat, f < Len(p.funcs), NEW args, Replace(f, args)
  PROVE  IInv(p)'
<1>1. Running /\ stack # <<>> /\ IsMachine(Machine)
  BY TopFacts DEF Executing
<1>2. Top.guard = <<>> /\ IsSequence(Top.tmps) /\ Len(Top.tmps) = 0
  BY TailCallHandsNothingOver
<1> DEFINE fr == [NewFrame(f, args) EXCEPT !.tmps = Top.tmps, !.guard = Top.guard]
           m  == [Machine EXCEPT !.fr = fr]
<1>3. Crash \/ (\E v : Leave(v)) \/ Continue(m)
  BY DEF Replace
<1>4. ASSUME Continue(m) PROVE IInv(p)'
  <2>1. m.fr = fr
    BY <1>1 DEF IsMachine
  <2>2. /\ DOMAIN fr = FrameFields /\ fr.fn = f /\ fr.ip = 0 /\ fr.guard = <<>>
        /\ fr.tmps = Top.tmps
    BY <1>2, NewFrameFacts DEF FrameFields
  <2> HIDE DEF fr
  <2>3. FrameOK(p, fr)
    BY <1>2, <2>2, EnteredOK
  <2> HIDE DEF m
  <2> QED
    BY <1>1, <1>4, <2>1, <2>3, ContinueOK
<1> QED
  BY <1>1, <1>3, <1>4, CrashOK, LeaveOK

\* The action, served by the interpreter or by native code.
LEMMA TailCallOK ==
  ASSUME NEW p, WellFormed(p), IInv(p), TailCall PROVE IInv(p)'
<1> DEFINE f == Current.a[1].i
<1>1. Executing({"TAIL_CALL"})
  BY DEF TailCall
<1>2. /\ Running /\ ~AtEnd /\ program = p
      /\ Current.op \notin {"TMP_BLOCK", "END_TMP", "CATCH"}
  BY <1>1, TopFacts DEF Executing
<1>3. f \in Nat
  BY <1>1, TailCallHandsNothingOver
<1>4. \/ \E v : Settle(Fail(Machine, v))
      \/ f < Len(p.funcs) /\ \E args : Replace(f, args)
  <2>1. Len(p.funcs) \in Nat
    BY DEF WellFormed, IsSequence
  <2>2. f >= Len(p.funcs) \/ f < Len(p.funcs)
    BY <1>3, <2>1
  <2> QED
    BY <1>2, <2>2 DEF TailCall
<1> HIDE DEF f
<1> QED
  BY <1>1, <1>2, <1>3, <1>4, ReplaceOK, PlainSettleOK

\* RET returns its operand, or faults reading it.
LEMMA ReturnOK ==
  ASSUME NEW p, WellFormed(p), IInv(p), Return PROVE IInv(p)'
<1>1. /\ Running /\ ~AtEnd /\ stack # <<>>
      /\ Current.op \notin {"TMP_BLOCK", "END_TMP", "CATCH"}
  BY TopFacts DEF Return, Executing
<1>2. (\E v : Settle(Fail(Machine, v))) \/ (\E v : Leave(v))
  BY DEF Return
<1> QED
  BY <1>1, <1>2, LeaveOK, PlainSettleOK

\* HALT ends the run.
LEMMA HaltOK ==
  ASSUME NEW p, IInv(p), Halt PROVE IInv(p)'
<1>1. UNCHANGED <<program, stack>> /\ ~Running'
  BY DEF Halt, Running, Done
<1> QED
  BY <1>1 DEF IInv

\* TRY arms the guard of its block.
LEMMA TryStepOK ==
  ASSUME NEW p, WellFormed(p), IInv(p), Try PROVE IInv(p)'
<1> DEFINE g == [catch |-> Current.a[1].i, end |-> Current.a[2].i,
                 slots |-> Top.slots, globals |-> globals]
           m == [Machine EXCEPT !.fr.guard = <<g>>]
<1>1. Executing({"TRY"}) /\ Continue(m)
  BY DEF Try
<1>2. /\ Running /\ Stepping(p, Top) /\ IsMachine(Machine) /\ FrameOK(p, Top)
      /\ Current = CodeOf(p, Top)[Top.ip + 1] /\ Current.op = "TRY"
  BY <1>1, TopFacts DEF Executing
<1>3. g.catch = Current.a[1].i /\ g.end = Current.a[2].i
  OBVIOUS
<1> HIDE DEF g
<1>4. /\ DOMAIN m.fr = FrameFields /\ m.fr.fn = Top.fn /\ m.fr.tmps = Top.tmps
      /\ m.fr.ip = Top.ip + 1 /\ m.fr.guard[1] = g
  BY <1>2 DEF IsMachine, Machine, FrameOK, FrameFields
<1> HIDE DEF m
<1>5. FrameOK(p, m.fr)
  BY <1>2, <1>3, <1>4, TryOK
<1> QED
  BY <1>1, <1>2, <1>5, ContinueOK

\* CATCH: past the handler when the guard is armed, into it when a fault took the guard.
LEMMA CatchOK ==
  ASSUME NEW p, WellFormed(p), IInv(p), Catch PROVE IInv(p)'
<1> DEFINE m == [Machine EXCEPT !.fr.guard = <<>>,
                   !.fr.ip = IF Top.guard = <<>> THEN @ ELSE Top.guard[1].end]
<1>1. Executing({"CATCH"}) /\ Continue(m)
  BY DEF Catch
<1>2. /\ Running /\ Stepping(p, Top) /\ IsMachine(Machine) /\ FrameOK(p, Top)
      /\ Current = CodeOf(p, Top)[Top.ip + 1] /\ Current.op = "CATCH"
  BY <1>1, TopFacts DEF Executing
<1>3. /\ DOMAIN m.fr = FrameFields /\ m.fr.fn = Top.fn /\ m.fr.tmps = Top.tmps
      /\ m.fr.guard = <<>>
      /\ m.fr.ip = IF Top.guard = <<>> THEN Top.ip + 1 ELSE Top.guard[1].end
  BY <1>2 DEF IsMachine, Machine, FrameOK, FrameFields
<1> HIDE DEF m
<1>4. CASE Top.guard = <<>>
  <2>1. FrameOK(p, m.fr)
    BY <1>2, <1>3, <1>4, DisarmedOK
  <2> QED
    BY <1>1, <1>2, <2>1, ContinueOK
<1>5. CASE Top.guard # <<>>
  <2>1. FrameOK(p, m.fr)
    BY <1>2, <1>3, <1>5, RecoveredOK
  <2> QED
    BY <1>1, <1>2, <2>1, ContinueOK
<1> QED
  BY <1>4, <1>5

\* ENDTRY drops the guard.
LEMMA EndTryOK ==
  ASSUME NEW p, WellFormed(p), IInv(p), EndTry PROVE IInv(p)'
<1> DEFINE m == [Machine EXCEPT !.fr.guard = <<>>]
<1>1. Executing({"ENDTRY"}) /\ Continue(m)
  BY DEF EndTry
<1>2. /\ Running /\ Stepping(p, Top) /\ IsMachine(Machine) /\ FrameOK(p, Top)
      /\ Current = CodeOf(p, Top)[Top.ip + 1] /\ Current.op = "ENDTRY"
  BY <1>1, TopFacts DEF Executing
<1>3. /\ DOMAIN m.fr = FrameFields /\ m.fr.fn = Top.fn /\ m.fr.tmps = Top.tmps
      /\ m.fr.guard = <<>> /\ m.fr.ip = Top.ip + 1
  BY <1>2 DEF IsMachine, Machine, FrameOK, FrameFields
<1> HIDE DEF m
<1>4. FrameOK(p, m.fr)
  BY <1>2, <1>3, DisarmedOK
<1> QED
  BY <1>1, <1>2, <1>4, ContinueOK

\* SYSCALL and ASYNC_SYSCALL, whatever the handler answers.
LEMMA SyscallOK ==
  ASSUME NEW p, WellFormed(p), IInv(p), Syscall PROVE IInv(p)'
<1>1. /\ Running /\ ~AtEnd /\ Current.op \notin {"TMP_BLOCK", "END_TMP", "CATCH"}
  BY DEF Syscall, Executing
<1>2. \/ \E v : Settle(Fail(Machine, v))
      \/ stack' = <<>> /\ program' = program /\ outcome'.t = "EXIT"
      \/ \E v : Continue([Machine EXCEPT !.fr.ret = v])
  <2> DEFINE id   == Current.a[1].i
             args == ReadOperand(Machine, Current.a[2])
             v    == SyscallResult(id, args)
             w    == IF Current.op = "SYSCALL" THEN v ELSE [t |-> "FUTURE", o |-> <<v>>]
             code == LET c == FieldOf(args, 0) IN IF c.t = "INT32" THEN c.n ELSE 0
  <2>1. \/ Settle(Fail(Machine, args))
        \/ /\ outcome' = [t |-> "EXIT", code |-> code]
           /\ stack' = <<>> /\ program' = program
        \/ Settle(Fail(Machine, v))
        \/ Continue([Machine EXCEPT !.fr.ret = w])
    BY Zenon DEF Syscall
  <2> HIDE DEF id, args, v, w, code
  <2>2. outcome' = [t |-> "EXIT", code |-> code] => outcome'.t = "EXIT"
    OBVIOUS
  <2> QED
    BY <2>1, <2>2, Zenon
<1>3. ASSUME stack' = <<>>, program' = program, outcome'.t = "EXIT" PROVE IInv(p)'
  <2>1. <<>> \in Seq({})
    OBVIOUS
  <2>2. IsSequence(<<>>) /\ ~Running'
    BY <1>3, <2>1, SeqIsSequence DEF Running
  <2> QED
    BY <1>3, <2>2 DEF IInv
<1> QED
  BY <1>1, <1>2, <1>3, PlainSettleOK

\* run_named: the entry function on an empty stack.
LEMMA StartOK ==
  ASSUME NEW p, WellFormed(p), NEW entry, \E j \in DOMAIN p.funcs : p.funcs[j].name = entry,
         NEW args, Start(p, entry, args)
  PROVE  IInv(p)
<1> DEFINE f  == IndexOf(p, entry)
           fr == NewFrame(f, args)
<1>1. f + 1 \in DOMAIN p.funcs
  BY DEF IndexOf, WellFormed, IsSequence
<1>2. f \in Nat /\ f < Len(p.funcs)
  BY <1>1 DEF WellFormed, IsSequence, IndexOf
<1> HIDE DEF f
<1>3. FrameOK(p, fr)
  BY <1>2, NewFrameFacts, EnteredOK
<1>4. program = p /\ stack = <<fr>>
  BY DEF Start, f
<1> HIDE DEF fr
<1>5. <<fr>> \in Seq({fr}) /\ DOMAIN <<fr>> = {1} /\ <<fr>>[1] = fr
  OBVIOUS
<1>6. IsSequence(stack) /\ stack # <<>>
  BY <1>4, <1>5, SeqIsSequence
<1> QED
  BY <1>3, <1>4, <1>5, <1>6 DEF IInv

\* Every step keeps the invariant.
LEMMA StepOK ==
  ASSUME NEW p, WellFormed(p), IInv(p), [Next]_vars PROVE IInv(p)'
<1>1. CASE UNCHANGED vars
  BY <1>1 DEF vars, IInv, Running
<1> QED
  BY <1>1, EndOfFunctionStep, DataInstructionOK, JumpStepOK, CallOK, TailCallOK, ReturnOK, HaltOK,
     TryStepOK, CatchOK, EndTryOK, SyscallOK DEF Next

\* The invariant holds throughout an invocation.
LEMMA FramesFollowTheCode ==
  ASSUME NEW p, WellFormed(p), NEW entry, \E j \in DOMAIN p.funcs : p.funcs[j].name = entry,
         NEW args
  PROVE  Invocation(p, entry, args) => []IInv(p)
<1>1. Start(p, entry, args) => IInv(p)
  BY StartOK
<1>2. IInv(p) /\ [Next]_vars => IInv(p)'
  BY StepOK
<1> QED
  BY <1>1, <1>2, PTL DEF Invocation

\* A guard that is armed belongs to the TRY block its frame is executing, whatever
\* the program calls, faults on or jumps to: no handler runs with its own guard
\* armed and none is left behind (run_named, executor.rs:369-378).
THEOREM GuardsCoverTheirBlocks ==
  ASSUME NEW p, WellFormed(p), NEW entry, \E j \in DOMAIN p.funcs : p.funcs[j].name = entry,
         NEW args
  PROVE  Invocation(p, entry, args) => []GuardCoversItsBlock
<1>1. IInv(p) => GuardCoversItsBlock
  BY DEF IInv, FrameOK, Covers, GuardCoversItsBlock
<1> QED
  BY <1>1, FramesFollowTheCode, PTL

\* A frame has as many TMP frames as TMP blocks are open where it stands: what the
\* ban on jumps in TMP blocks is for (validator.rs:144), on every path that calls,
\* faults and the native code make.
THEOREM TmpFramesFollowTheBlocks ==
  ASSUME NEW p, WellFormed(p), NEW entry, \E j \in DOMAIN p.funcs : p.funcs[j].name = entry,
         NEW args
  PROVE  Invocation(p, entry, args) => []TmpFramesMatchBlocks
<1>1. IInv(p) => TmpFramesMatchBlocks
  BY DEF IInv, FrameOK, TmpFramesMatchBlocks
<1> QED
  BY <1>1, FramesFollowTheCode, PTL

-------------------------------------------------------------------------------
(* Data instructions and the memory: what a fault leaves.                    *)
\* A machine that failed has the memory of the one it was.
SameMemory(m, n) == n.fr = m.fr /\ n.g = m.g

\* A write fails as a whole.
LEMMA PutCellOutcome ==
  ASSUME NEW m, IsMachine(m), ~Failed(m), NEW space \in Spaces, NEW i, NEW v
  PROVE  LET n == PutCell(m, space, i, v) IN
           /\ Failed(n) => SameMemory(m, n)
           /\ Failed(n) => space = "TMP" /\ NoTmp(m, i)
<1>1. CASE space = "LOCAL"
  BY <1>1 DEF PutCell, Failed, IsMachine
<1>2. CASE space = "GLOBAL"
  BY <1>2 DEF PutCell, Failed, IsMachine
<1>3. CASE space = "TMP"
  BY <1>3 DEF PutCell, Failed, Fail, IsMachine, SameMemory
<1> QED
  BY <1>1, <1>2, <1>3 DEF Spaces

\* Every kind of instruction that fails has left the memory alone: at once,
LEMMA FailOutcome ==
  ASSUME NEW m, IsMachine(m), NEW v
  PROVE  SameMemory(m, Fail(m, v))
BY DEF IsMachine, SameMemory, Fail

\* in a write through a reference,
LEMMA DerefWriteOutcome ==
  ASSUME NEW m, IsMachine(m), ~Failed(m), NEW r, NEW v, Failed(DerefWrite(m, r, v))
  PROVE  SameMemory(m, DerefWrite(m, r, v))
BY PutCellOutcome, FailOutcome DEF DerefWrite, Spaces

\* in a write to any operand,
LEMMA WriteOutcome ==
  ASSUME NEW m, IsMachine(m), ~Failed(m), NEW o, NEW v, Failed(WriteOperand(m, o, v))
  PROVE  SameMemory(m, WriteOperand(m, o, v))
<1>1. ~Failed([m EXCEPT !.fr.ret = v])
  BY DEF Failed, IsMachine
<1> QED
  BY <1>1, PutCellOutcome, DerefWriteOutcome, FailOutcome DEF WriteOperand, Spaces

\* after its reads,
LEMMA ReadOutcome ==
  ASSUME NEW m, IsMachine(m), ~Failed(m), NEW ins, Failed(ReadAndWrite(m, ins))
  PROVE  SameMemory(m, ReadAndWrite(m, ins))
BY WriteOutcome, FailOutcome DEF ReadAndWrite

\* in the update of a collection, which is made on the value read,
LEMMA UpdateOutcome ==
  ASSUME NEW m, IsMachine(m), ~Failed(m), NEW ins, Failed(UpdateInPlace(m, ins))
  PROVE  SameMemory(m, UpdateInPlace(m, ins))
BY WriteOutcome, FailOutcome DEF UpdateInPlace

\* and in an instruction on memory itself.
LEMMA MemoryOutcome ==
  ASSUME NEW m, IsMachine(m), ~Failed(m), NEW ins, ins.op \in MemoryOps,
         Failed(MemoryStep(m, ins))
  PROVE  SameMemory(m, MemoryStep(m, ins))
<1>1. CASE ins.op = "TMP_BLOCK"
  BY <1>1 DEF MemoryStep, Failed, IsMachine
<1>2. CASE ins.op = "END_TMP"
  <2>1. ~Failed([m EXCEPT !.fr.tmps = Front(@)])
    BY DEF Failed, IsMachine
  <2> QED
    BY <1>2, <2>1, FailOutcome DEF MemoryStep
<1>3. CASE ins.op = "RELEASE"
  <2>1. ~Failed(Released(m, ins.a[1]))
    BY DEF Released, Failed, IsMachine
  <2> QED
    BY <1>3, <2>1 DEF MemoryStep
<1>4. CASE ins.op \in {"NOP", "RESERVE", "ADDR"}
  BY <1>4, WriteOutcome DEF MemoryStep
<1> QED
  BY <1>1, <1>2, <1>3, <1>4 DEF MemoryOps

\* What POP and its like take, when they take something.
LEMMA TakenFacts ==
  ASSUME NEW m, IsMachine(m), NEW ins, ins.op \in TakingOps,
         LET c == TargetValue(m, ins.a[1]) IN ~IsFault(IF IsFault(c) THEN c ELSE Taken(ins.op, c))
  PROVE  LET o == ins.a[1]
             c == TargetValue(m, o)
         IN  /\ o.k \in Spaces /\ c = CellOf(m, o.k, o.i) /\ c = ReadOperand(m, o)
             /\ ~IsFault(c) /\ ~(o.k = "TMP" /\ NoTmp(m, o.i))
             /\ Taken(ins.op, c).rest.t = c.t /\ c.t \in TakesFrom[ins.op]
             /\ ~IsFault(Taken(ins.op, c).rest)
<1> DEFINE o == ins.a[1]
           c == TargetValue(m, o)
<1>1. ~IsFault(c) /\ ~IsFault(Taken(ins.op, c))
  OBVIOUS
<1>2. o.k \in Spaces /\ c = CellOf(m, o.k, o.i)
  BY <1>1 DEF TargetValue, TypeMismatch, Fault, IsFault, Spaces
<1>3. c = ReadOperand(m, o)
  BY <1>2 DEF ReadOperand, Spaces
<1>4. ~(o.k = "TMP" /\ NoTmp(m, o.i))
  BY <1>1, <1>2 DEF CellOf, OutOfBounds, Fault, IsFault
<1> HIDE DEF c
<1>5. c.t \in TakesFrom[ins.op] /\ c.s # <<>>
  BY <1>1 DEF Taken, TypeMismatch, OutOfBounds, Fault, IsFault
<1>6. Taken(ins.op, c).rest.t = c.t
  BY <1>5 DEF Taken, List
<1> QED
  BY <1>1, <1>2, <1>3, <1>4, <1>5, <1>6 DEF c, IsFault

\* The memory with one element fewer in the collection of the first operand.
OneTaken(m, ins) ==
  LET o == ins.a[1] IN PutCell(m, o.k, o.i, Taken(ins.op, ReadOperand(m, o)).rest)

\* Taking an element may fail after the element is gone, at the write of the target.
LEMMA TakeOutcome ==
  ASSUME NEW m, IsMachine(m), ~Failed(m), NEW ins, ins.op \in TakingOps,
         Failed(TakeAndWrite(m, ins))
  PROVE  \/ SameMemory(m, TakeAndWrite(m, ins))
         \/ SameMemory(OneTaken(m, ins), TakeAndWrite(m, ins))
<1> DEFINE o == ins.a[1]
           c == TargetValue(m, o)
           e == IF IsFault(c) THEN c ELSE Taken(ins.op, c)
           left == OneTaken(m, ins)
<1>1. CASE IsFault(e)
  BY <1>1, FailOutcome DEF TakeAndWrite
<1>2. CASE ~IsFault(e)
  <2>1. /\ o.k \in Spaces /\ c = ReadOperand(m, o) /\ ~(o.k = "TMP" /\ NoTmp(m, o.i))
        /\ ~IsFault(Taken(ins.op, c).rest) /\ ~IsFault(c)
    BY <1>2, TakenFacts
  <2>2. WriteOperand(m, o, e.rest) = left
    BY <2>1 DEF WriteOperand, Spaces, OneTaken
  <2>3. ~Failed(left) /\ IsMachine(left)
    BY <2>1, PutCellOutcome, PutCellKeepsFrame DEF KeepsFrame, Spaces, OneTaken
  <2>4. TakeAndWrite(m, ins) = WriteOperand(left, ins.a[2], e.out)
    BY <1>2, <2>2 DEF TakeAndWrite
  <2> HIDE DEF left, e
  <2> QED
    BY <2>3, <2>4, WriteOutcome DEF left
<1> QED
  BY <1>1, <1>2

-------------------------------------------------------------------------------
(* Data instructions and the memory: what a write reaches.                   *)
\* Two memories that agree on every slot and global but those of C.
AgreeBut(C, m, n) ==
  \A space \in {"LOCAL", "GLOBAL"} : \A i :
    <<space, i>> \notin C => CellOf(n, space, i) = CellOf(m, space, i)

\* An index that is not written is found as before.
LEMMA LookupFacts ==
  ASSUME NEW f, NEW i, NEW v, NEW j, j # i, NEW x
  PROVE  /\ Lookup(Put(f, i, v), j, x) = Lookup(f, j, x)
         /\ Lookup(Drop(f, i), j, x) = Lookup(f, j, x)
BY DEF Lookup, Put, Drop, Restrict

\* A cell that is written holds what was written, and every other what it held.
LEMMA PutCellElsewhere ==
  ASSUME NEW m, IsMachine(m), NEW space \in Spaces, NEW i, NEW v
  PROVE  AgreeBut({<<space, i>>}, m, PutCell(m, space, i, v))
<1> DEFINE n == PutCell(m, space, i, v)
<1>1. ASSUME space = "LOCAL", NEW s \in {"LOCAL", "GLOBAL"}, NEW j, <<s, j>> # <<space, i>>
      PROVE  CellOf(n, s, j) = CellOf(m, s, j)
  <2>1. n.fr.slots = Put(m.fr.slots, i, v) /\ n.g = m.g
    BY <1>1 DEF PutCell, IsMachine, FrameFields
  <2> HIDE DEF n
  <2> QED
    BY <1>1, <2>1, LookupFacts DEF CellOf
<1>2. ASSUME space = "GLOBAL", NEW s \in {"LOCAL", "GLOBAL"}, NEW j, <<s, j>> # <<space, i>>
      PROVE  CellOf(n, s, j) = CellOf(m, s, j)
  <2>1. n.g = Put(m.g, i, v) /\ n.fr = m.fr
    BY <1>2 DEF PutCell, IsMachine
  <2> HIDE DEF n
  <2> QED
    BY <1>2, <2>1, LookupFacts DEF CellOf
<1>3. ASSUME space = "TMP", NEW s \in {"LOCAL", "GLOBAL"}, NEW j
      PROVE  CellOf(n, s, j) = CellOf(m, s, j)
  <2>1. n.g = m.g /\ n.fr.slots = m.fr.slots
    BY <1>3 DEF PutCell, Fail, IsMachine, FrameFields
  <2> HIDE DEF n
  <2> QED
    BY <1>3, <2>1 DEF CellOf
<1> QED
  BY <1>1, <1>2, <1>3 DEF AgreeBut, Spaces

\* The cell that a write to operand o goes to.
Aim(m, o) ==
  IF o.k = "DEREF"
  THEN LET r == CellOf(m, o.in, o.i) IN IF r.t = "REF_MUT" THEN {Referred(r)} ELSE {}
  ELSE {<<o.k, o.i>>}

\* A fault writes to no cell,
LEMMA FailElsewhere ==
  ASSUME NEW m, IsMachine(m), NEW v, NEW C
  PROVE  AgreeBut(C, m, Fail(m, v))
BY DEF AgreeBut, Fail, CellOf, IsMachine

\* and a write to no cell but the one its operand aims at.
LEMMA WriteElsewhere ==
  ASSUME NEW m, IsMachine(m), NEW o, NEW v
  PROVE  AgreeBut(Aim(m, o), m, WriteOperand(m, o, v))
<1> DEFINE n == WriteOperand(m, o, v)
<1>1. CASE IsFault(v)
  BY <1>1, FailElsewhere DEF WriteOperand
<1>2. CASE ~IsFault(v) /\ o.k \in {"LOCAL", "GLOBAL", "TMP"}
  <2>1. n = PutCell(m, o.k, o.i, v) /\ Aim(m, o) = {<<o.k, o.i>>} /\ o.k \in Spaces
    BY <1>2 DEF WriteOperand, Aim, Spaces
  <2> QED
    BY <2>1, PutCellElsewhere
<1>3. CASE ~IsFault(v) /\ o.k = "DEREF"
  <2> DEFINE r == CellOf(m, o.in, o.i)
  <2>1. n = DerefWrite(m, r, v)
    BY <1>3 DEF WriteOperand
  <2>2. CASE r.t = "REF_MUT"
    <3> DEFINE space == IF r.ref[1] THEN "GLOBAL" ELSE "LOCAL"
    <3>0. n = PutCell(m, space, r.ref[2], v)
      <4> HIDE DEF n, r
      <4> QED
        BY <2>1, <2>2 DEF DerefWrite, IsFault
    <3>1. Aim(m, o) = {<<space, r.ref[2]>>}
      BY <1>3, <2>2 DEF Aim, Referred
    <3>2. space \in Spaces
      BY DEF Spaces
    <3> HIDE DEF space, r, n
    <3> QED
      BY <3>0, <3>1, <3>2, PutCellElsewhere DEF n
  <2>3. CASE r.t # "REF_MUT"
    <3> HIDE DEF r
    <3> QED
      BY <2>1, <2>3, FailElsewhere DEF DerefWrite
  <2> QED
    BY <2>2, <2>3
<1>4. CASE ~IsFault(v) /\ o.k \notin {"LOCAL", "GLOBAL", "TMP", "DEREF"}
  <2>1. ASSUME o.k = "BUILTIN", o.b = "RET" PROVE AgreeBut(Aim(m, o), m, [m EXCEPT !.fr.ret = v])
    BY DEF AgreeBut, CellOf, IsMachine, FrameFields
  <2> QED
    BY <1>4, <2>1, FailElsewhere DEF WriteOperand
<1> QED
  BY <1>1, <1>2, <1>3, <1>4

\* Where an operand's write goes is among what the instruction reaches.
LEMMA AimIsReached ==
  ASSUME NEW m, NEW ins, NEW p \in DOMAIN ins.a,
         NEW space \in {"LOCAL", "GLOBAL"}, NEW i, <<space, i>> \in Aim(m, ins.a[p])
  PROVE  <<space, i>> \in CellsReached(m, ins)
<1> DEFINE o == ins.a[p]
<1>1. CASE o.k = "DEREF"
  <2> DEFINE r == CellOf(m, o.in, o.i)
  <2>1. r.t = "REF_MUT" /\ <<space, i>> = Referred(r)
    BY <1>1 DEF Aim
  <2> QED
    BY <1>1, <2>1 DEF CellsReached
<1>2. CASE o.k # "DEREF"
  <2>1. o.k = space /\ o.i = i
    BY <1>2 DEF Aim
  <2> QED
    BY <2>1 DEF CellsReached
<1> QED
  BY <1>1, <1>2

\* So each kind of instruction changes only cells that it reaches.
LEMMA WriteReaches ==
  ASSUME NEW m, IsMachine(m), NEW ins, NEW p \in DOMAIN ins.a, NEW v
  PROVE  AgreeBut(CellsReached(m, ins), m, WriteOperand(m, ins.a[p], v))
<1> DEFINE n == WriteOperand(m, ins.a[p], v)
<1>1. AgreeBut(Aim(m, ins.a[p]), m, n)
  BY WriteElsewhere
<1> HIDE DEF n
<1>2. ASSUME NEW space \in {"LOCAL", "GLOBAL"}, NEW i, <<space, i>> \notin CellsReached(m, ins)
      PROVE  CellOf(n, space, i) = CellOf(m, space, i)
  <2>1. <<space, i>> \notin Aim(m, ins.a[p])
    BY <1>2, AimIsReached
  <2> QED
    BY <1>1, <2>1 DEF AgreeBut
<1> QED
  BY <1>2 DEF AgreeBut, n

\* What is written to a cell is there, and every other cell is as it was.
LEMMA PutCellCells ==
  ASSUME NEW m, IsMachine(m), NEW space \in Spaces, NEW i, NEW v,
         ~(space = "TMP" /\ NoTmp(m, i)), NEW s \in Spaces, NEW j
  PROVE  CellOf(PutCell(m, space, i, v), s, j) =
           IF s = space /\ j = i THEN v ELSE CellOf(m, s, j)
<1> DEFINE n == PutCell(m, space, i, v)
<1>0. \A f : Lookup(Put(f, i, v), j, Undeclared) = IF j = i THEN v ELSE Lookup(f, j, Undeclared)
  BY DEF Lookup, Put
<1>1. CASE space = "LOCAL"
  <2>1. n.fr.slots = Put(m.fr.slots, i, v) /\ n.g = m.g /\ n.fr.tmps = m.fr.tmps
    BY <1>1 DEF PutCell, IsMachine, FrameFields
  <2> HIDE DEF n
  <2> QED
    BY <1>0, <1>1, <2>1 DEF CellOf, Spaces, NoTmp, n
<1>2. CASE space = "GLOBAL"
  <2>1. n.fr = m.fr /\ n.g = Put(m.g, i, v)
    BY <1>2 DEF PutCell, IsMachine
  <2> HIDE DEF n
  <2> QED
    BY <1>0, <1>2, <2>1 DEF CellOf, Spaces, NoTmp, n
<1>3. CASE space = "TMP"
  <2> DEFINE t == m.fr.tmps
  <2>1. t # <<>> /\ ~(i >= TmpSlots)
    BY <1>3 DEF NoTmp
  <2>2. IsSequence(t) /\ Len(t) \in DOMAIN t
    BY <2>1 DEF IsMachine, IsSequence
  <2>3. n.fr.slots = m.fr.slots /\ n.g = m.g
        /\ n.fr.tmps = [t EXCEPT ![Len(t)] = Put(@, i, v)]
    BY <1>3, <2>1 DEF PutCell, NoTmp, IsMachine, FrameFields
  <2>4. Len(n.fr.tmps) = Len(t) /\ n.fr.tmps # <<>>
        /\ n.fr.tmps[Len(t)] = Put(t[Len(t)], i, v)
    <3> DEFINE u == [t EXCEPT ![Len(t)] = Put(@, i, v)]
    <3>1. IsSequence(u) /\ Len(u) = Len(t)
      BY <2>2, ExceptIsSequence
    <3>2. u[Len(t)] = Put(t[Len(t)], i, v)
      BY <2>2
    <3>3. u # <<>>
      <4>1. Len(u) \in Nat \ {0}
        BY <2>2, <3>1 DEF IsSequence
      <4> QED
        BY <4>1
    <3> QED
      BY <2>3, <3>1, <3>2, <3>3
  <2>5. Last(n.fr.tmps) = Put(Last(t), i, v)
    BY <2>4 DEF Last
  <2> HIDE DEF n
  <2>6. CASE s = "TMP"
    BY <1>0, <1>3, <2>1, <2>4, <2>5, <2>6 DEF CellOf, NoTmp, n
  <2>7. CASE s # "TMP"
    BY <1>3, <2>3, <2>7 DEF CellOf, Spaces, n
  <2> QED
    BY <2>6, <2>7
<1> QED
  BY <1>1, <1>2, <1>3 DEF Spaces

\* The target of POP is written in the memory that lacks the element: what it is
\* read from there is not the collection, so it leads where it led before.
LEMMA TakeReaches ==
  ASSUME NEW m, IsMachine(m), NEW ins, Complete(ins), ins.op \in TakingOps
  PROVE  AgreeBut(CellsReached(m, ins), m, TakeAndWrite(m, ins))
<1> DEFINE o == ins.a[1]
           c == TargetValue(m, o)
           e == IF IsFault(c) THEN c ELSE Taken(ins.op, c)
           left == PutCell(m, o.k, o.i, e.rest)
<1>0. 1 \in DOMAIN ins.a /\ 2 \in DOMAIN ins.a
  BY DEF Complete
<1>1. CASE IsFault(e)
  BY <1>1, FailElsewhere DEF TakeAndWrite
<1>2. CASE ~IsFault(e)
  <2>1. /\ o.k \in Spaces /\ ~(o.k = "TMP" /\ NoTmp(m, o.i))
        /\ e.rest.t \in TakesFrom[ins.op] /\ ~IsFault(e.rest)
    BY <1>2, TakenFacts
  <2>2. WriteOperand(m, o, e.rest) = left /\ IsMachine(left)
    BY <2>1, PutCellKeepsFrame DEF WriteOperand, Spaces, KeepsFrame
  <2>3. TakeAndWrite(m, ins) = WriteOperand(left, ins.a[2], e.out)
    BY <1>2, <2>2 DEF TakeAndWrite
  <2>4. AgreeBut(CellsReached(m, ins), m, left)
    <3>1. AgreeBut(CellsReached(m, ins), m, WriteOperand(m, o, e.rest))
      BY <1>0, WriteReaches
    <3> QED
      BY <2>2, <3>1
  <2>5. e.rest.t # "REF_MUT"
    BY <2>1 DEF TakesFrom, TakingOps
  <2> DEFINE d == ins.a[2]
  <2>6. ASSUME NEW space \in {"LOCAL", "GLOBAL"}, NEW i, <<space, i>> \in Aim(left, d)
        PROVE  <<space, i>> \in CellsReached(m, ins)
    <3>1. CASE d.k # "DEREF"
      <4>1. Aim(left, d) = Aim(m, d)
        BY <3>1 DEF Aim
      <4> QED
        BY <1>0, <2>6, <4>1, AimIsReached
    <3>2. CASE d.k = "DEREF"
      <4>1. d.in \in Spaces
        BY <1>0, <3>2 DEF Complete
      <4>2. CellOf(left, d.in, d.i) =
                IF d.in = o.k /\ d.i = o.i THEN e.rest ELSE CellOf(m, d.in, d.i)
        BY <2>1, <4>1, PutCellCells
      <4> HIDE DEF left, e
      <4>3. CellOf(left, d.in, d.i).t = "REF_MUT"
        BY <2>6, <3>2 DEF Aim
      <4>4. CellOf(left, d.in, d.i) = CellOf(m, d.in, d.i)
        BY <2>5, <4>2, <4>3
      <4>5. Aim(left, d) = Aim(m, d)
        BY <3>2, <4>4 DEF Aim
      <4> QED
        BY <1>0, <2>6, <4>5, AimIsReached
    <3> QED
      BY <3>1, <3>2
  <2> HIDE DEF left, e
  <2>7. AgreeBut(Aim(left, d), left, TakeAndWrite(m, ins))
    BY <2>2, <2>3, WriteElsewhere
  <2>8. ASSUME NEW space \in {"LOCAL", "GLOBAL"}, NEW i, <<space, i>> \notin CellsReached(m, ins)
        PROVE  CellOf(TakeAndWrite(m, ins), space, i) = CellOf(m, space, i)
    BY <2>4, <2>6, <2>7, <2>8 DEF AgreeBut
  <2> QED
    BY <2>8 DEF AgreeBut
<1> QED
  BY <1>1, <1>2

\* The operands an instruction writes to exist.
LEMMA OperandPlaces ==
  ASSUME NEW ins, Complete(ins), ins.op \notin {"NOP", "TMP_BLOCK", "END_TMP"}
  PROVE  1 \in DOMAIN ins.a /\ Len(ins.a) \in DOMAIN ins.a
BY DEF Complete

\* An instruction that reads and writes a result.
LEMMA ReadReaches ==
  ASSUME NEW m, IsMachine(m), NEW ins, Complete(ins), ins.op \in ReadingOps
  PROVE  AgreeBut(CellsReached(m, ins), m, ReadAndWrite(m, ins))
<1>1. ins.op \notin {"NOP", "TMP_BLOCK", "END_TMP"}
  BY MemoryOpsApart
<1>2. TargetPosition(ins) \in DOMAIN ins.a
  BY <1>1, OperandPlaces DEF TargetPosition
<1> QED
  BY <1>2, WriteReaches, FailElsewhere DEF ReadAndWrite

\* An instruction that updates a collection in place.
LEMMA UpdateReaches ==
  ASSUME NEW m, IsMachine(m), NEW ins, Complete(ins), ins.op \in UpdatingOps
  PROVE  AgreeBut(CellsReached(m, ins), m, UpdateInPlace(m, ins))
<1>1. ins.op \notin {"NOP", "TMP_BLOCK", "END_TMP"}
  BY MemoryOpsApart
<1>2. 1 \in DOMAIN ins.a
  BY <1>1, OperandPlaces
<1> QED
  BY <1>2, WriteReaches, FailElsewhere DEF UpdateInPlace

\* RELEASE forgets the slot it names.
LEMMA ReleaseReaches ==
  ASSUME NEW m, IsMachine(m), NEW ins, NEW p \in DOMAIN ins.a
  PROVE  AgreeBut(CellsReached(m, ins), m, Released(m, ins.a[p]))
<1> DEFINE o == ins.a[p]
           n == Released(m, o)
<1>1. CASE o.k = "LOCAL"
  <2>1. n.fr.slots = Drop(m.fr.slots, o.i) /\ n.g = m.g
    BY <1>1 DEF Released, IsMachine, FrameFields
  <2>2. <<"LOCAL", o.i>> \in CellsReached(m, ins)
    BY <1>1 DEF CellsReached
  <2> HIDE DEF n
  <2>3. ASSUME NEW space \in {"LOCAL", "GLOBAL"}, NEW i, <<space, i>> \notin CellsReached(m, ins)
        PROVE  CellOf(n, space, i) = CellOf(m, space, i)
    BY <2>1, <2>2, <2>3, LookupFacts DEF CellOf
  <2> QED
    BY <2>3 DEF AgreeBut, n
<1>2. CASE o.k = "GLOBAL"
  <2>1. n.fr = m.fr /\ n.g = Drop(m.g, o.i)
    BY <1>2 DEF Released, IsMachine
  <2>2. <<"GLOBAL", o.i>> \in CellsReached(m, ins)
    BY <1>2 DEF CellsReached
  <2> HIDE DEF n
  <2>3. ASSUME NEW space \in {"LOCAL", "GLOBAL"}, NEW i, <<space, i>> \notin CellsReached(m, ins)
        PROVE  CellOf(n, space, i) = CellOf(m, space, i)
    BY <2>1, <2>2, <2>3, LookupFacts DEF CellOf
  <2> QED
    BY <2>3 DEF AgreeBut, n
<1>3. CASE o.k \notin {"LOCAL", "GLOBAL"}
  <2>1. n.fr.slots = m.fr.slots /\ n.g = m.g
    BY <1>3 DEF Released, IsMachine, FrameFields
  <2> HIDE DEF n
  <2> QED
    BY <2>1 DEF AgreeBut, CellOf, n
<1> QED
  BY <1>1, <1>2, <1>3

\* An instruction on memory itself.
LEMMA MemoryReaches ==
  ASSUME NEW m, IsMachine(m), NEW ins, Complete(ins), ins.op \in MemoryOps
  PROVE  AgreeBut(CellsReached(m, ins), m, MemoryStep(m, ins))
<1>1. CASE ins.op = "NOP"
  BY <1>1 DEF MemoryStep, AgreeBut
<1>2. CASE ins.op = "TMP_BLOCK"
  BY <1>2 DEF MemoryStep, AgreeBut, CellOf, IsMachine, FrameFields
<1>3. CASE ins.op = "END_TMP"
  <2>1. AgreeBut(CellsReached(m, ins), m, [m EXCEPT !.fr.tmps = Front(@)])
    BY DEF AgreeBut, CellOf, IsMachine, FrameFields
  <2> QED
    BY <1>3, <2>1, FailElsewhere DEF MemoryStep
<1>4. CASE ins.op = "RESERVE"
  BY <1>4, OperandPlaces, WriteReaches DEF MemoryStep
<1>5. CASE ins.op = "RELEASE"
  BY <1>5, OperandPlaces, ReleaseReaches DEF MemoryStep
<1>6. CASE ins.op = "ADDR"
  <2>1. 2 \in DOMAIN ins.a
    BY <1>6 DEF Complete
  <2> QED
    BY <1>6, <2>1, WriteReaches DEF MemoryStep
<1> QED
  BY <1>1, <1>2, <1>3, <1>4, <1>5, <1>6 DEF MemoryOps

\* Whatever the instruction, faulting or not.
LEMMA StepReaches ==
  ASSUME NEW m, IsMachine(m), NEW ins, Complete(ins)
  PROVE  AgreeBut(CellsReached(m, ins), m, DataStep(m, ins))
<1>1. ins.op \in ReadingOps \cup UpdatingOps \cup TakingOps \cup MemoryOps
  BY DEF Complete, DataOps
<1> QED
  BY <1>1, ReadReaches, UpdateReaches, TakeReaches, MemoryReaches DEF DataStep

\* What an instruction that faults leaves, of whatever kind it is.
LEMMA StepOutcome ==
  ASSUME NEW m, IsMachine(m), ~Failed(m), NEW ins, Complete(ins), Failed(DataStep(m, ins))
  PROVE  \/ SameMemory(m, DataStep(m, ins))
         \/ ins.op \in TakingOps /\ SameMemory(OneTaken(m, ins), DataStep(m, ins))
<1>1. ins.op \in ReadingOps \cup UpdatingOps \cup TakingOps \cup MemoryOps
  BY DEF Complete, DataOps
<1>2. \/ ins.op \in ReadingOps /\ DataStep(m, ins) = ReadAndWrite(m, ins)
      \/ ins.op \in UpdatingOps /\ DataStep(m, ins) = UpdateInPlace(m, ins)
      \/ ins.op \in TakingOps /\ DataStep(m, ins) = TakeAndWrite(m, ins)
      \/ ins.op \in MemoryOps /\ DataStep(m, ins) = MemoryStep(m, ins)
  BY <1>1 DEF DataStep
<1>3. CASE ins.op \in TakingOps /\ DataStep(m, ins) = TakeAndWrite(m, ins)
  BY <1>3, TakeOutcome
<1> QED
  BY <1>2, <1>3, ReadOutcome, UpdateOutcome, MemoryOutcome

\* An instruction makes a machine of a machine.
LEMMA StepKeepsMachine ==
  ASSUME NEW m, IsMachine(m), NEW ins, Complete(ins)
  PROVE  IsMachine(DataStep(m, ins))
BY TmpBlockStep, EndTmpStep, DataKeepsFrame DEF Complete, KeepsFrame

-------------------------------------------------------------------------------
(* Sequences of data instructions.                                           *)
\* The inductive invariant of the data instructions.
DataIInv == scenario \in DOMAIN Scenarios /\ IsMachine(machine)

\* A scenario starts from a machine.
LEMMA DataInitially == DataInit => DataIInv
<1> SUFFICES ASSUME DataInit PROVE DataIInv
  OBVIOUS
<1>1. PICK slots \in Scenarios[scenario].starts : machine = MachineWith(slots)
  BY DEF DataInit
<1>2. IsSequence(<<>>)
  BY DEF IsSequence
<1> QED
  BY <1>1, <1>2 DEF DataInit, DataIInv, MachineWith, IsMachine, FrameFields

\* Every step keeps it one.
LEMMA DataPreserved == DataIInv /\ [DataNext]_dataVars => DataIInv'
<1> SUFFICES ASSUME DataIInv, [DataNext]_dataVars PROVE DataIInv'
  OBVIOUS
<1>1. ASSUME NEW ins \in Scenarios[scenario].code, Execute(ins) PROVE DataIInv'
  <2>1. Complete(ins)
    BY ScenarioAssumption DEF DataIInv
  <2> QED
    BY <1>1, <2>1, StepKeepsMachine DEF Execute, DataIInv
<1>2. ASSUME UNCHANGED dataVars PROVE DataIInv'
  BY <1>2 DEF dataVars, DataIInv
<1> QED
  BY <1>1, <1>2 DEF DataNext

\* The invariant holds throughout a scenario.
LEMMA MemoryIsAMachine == DataSpec => []DataIInv
BY DataInitially, DataPreserved, PTL DEF DataSpec

\* What a step of the specification is.
LEMMA ExecutedStep ==
  ASSUME DataIInv, [DataNext]_dataVars, Stepped
  PROVE  /\ Complete(last') /\ ~Failed(machine) /\ IsMachine(machine)
         /\ machine' = DataStep(machine, last')
<1>1. DataNext
  BY DEF Stepped, dataVars
<1>2. PICK ins \in Scenarios[scenario].code : Execute(ins)
  BY <1>1 DEF DataNext
<1> QED
  BY <1>2, ScenarioAssumption DEF DataIInv, Execute

\* An instruction that faults has changed nothing, so that what TRY rolls back is
\* what came before it; POP, DEQUEUE and POP_BACK may have taken one element
\* (execute_instruction, executor.rs:395-1310).
THEOREM FaultsLeaveMemory == DataSpec => FaultsLoseAtMostOneElement
<1>1. DataIInv /\ [DataNext]_dataVars =>
        (Stepped /\ Faulted =>
          \/ machine'.fr = machine.fr /\ machine'.g = machine.g
          \/ /\ last'.op \in TakingOps
             /\ LET o    == last'.a[1]
                    left == PutCell(machine, o.k, o.i, Taken(last'.op, Source(1)).rest)
                IN  machine'.fr = left.fr /\ machine'.g = left.g)
  <2> SUFFICES ASSUME DataIInv, [DataNext]_dataVars, Stepped, Failed(machine')
      PROVE  \/ machine'.fr = machine.fr /\ machine'.g = machine.g
             \/ /\ last'.op \in TakingOps
                /\ LET o    == last'.a[1]
                       left == PutCell(machine, o.k, o.i,
                                       Taken(last'.op, ReadOperand(machine, o)).rest)
                   IN  machine'.fr = left.fr /\ machine'.g = left.g
    BY DEF Faulted, Source
  <2> QED
    BY ExecutedStep, StepOutcome DEF SameMemory, OneTaken
<1> QED
  BY <1>1, MemoryIsAMachine, PTL DEF DataSpec, FaultsLoseAtMostOneElement

\* A slot or a global that an instruction neither names nor reaches through a
\* mutable reference is as it was, whether it faults or not (write_operand,
\* deref_write, write_target_mut, executor.rs:1386-1500).
THEOREM WritesStayInReach == DataSpec => OnlyReachedCellsChange
<1>1. DataIInv /\ [DataNext]_dataVars =>
        (Stepped =>
          \A space \in {"LOCAL", "GLOBAL"}, i \in Indices(machine) \cup Indices(machine') :
             <<space, i>> \notin CellsReached(machine, last')
                => CellOf(machine', space, i) = CellOf(machine, space, i))
  BY ExecutedStep, StepReaches DEF AgreeBut
<1> QED
  BY <1>1, MemoryIsAMachine, PTL DEF DataSpec, OnlyReachedCellsChange

-------------------------------------------------------------------------------
(* Powers of two and remainders.                                             *)
\* A nonempty set of naturals has a least element.
LEMMA LeastElement ==
  ASSUME NEW S \in SUBSET Nat, S # {}
  PROVE  \E m \in S : \A n \in S : m <= n
<1> DEFINE R == OpToRel(<, Nat)
<1>1. IsWellFoundedOn(R, Nat)
  BY NatLessThanWellFounded
<1> HIDE DEF R
<1>2. PICK m \in S : \A n \in S : ~ (<<n, m>> \in R)
  BY <1>1, WFMin
<1>3. \A k, n \in Nat : <<n, k>> \in R <=> n < k
  BY DEF R, OpToRel
<1>4. \A n \in S : ~(n < m) /\ n \in Nat /\ m \in Nat
  BY <1>2, <1>3
<1> QED
  BY <1>4

\* The widest type.
Widest == Bits["INT64"]

\* Powers of two up to the widest type are positive integers.
LEMMA PowersPositive == \A k \in 0 .. Widest : 2 ^ k \in Nat \ {0}
<1>1. Widest \in Nat
  BY BitsAssumption DEF Widest, IntTypes, SignedTypes
<1> DEFINE Bad == {k \in 0 .. Widest : 2 ^ k \notin Nat \ {0}}
<1>2. SUFFICES ASSUME Bad # {} PROVE FALSE
  OBVIOUS
<1>3. Bad \in SUBSET Nat
  BY <1>1
<1>4. PICK m \in Bad : \A n \in Bad : m <= n
  BY <1>2, <1>3, LeastElement
<1>5. m \in 0 .. Widest /\ m # 0
  <2>1. m \in 0 .. Widest /\ 2 ^ m \notin Nat \ {0}
    BY <1>4
  <2>2. ASSUME m = 0 PROVE FALSE
    <3>1. 2 ^ m = 2 ^ 0
      BY <2>2
    <3>2. 2 ^ 0 = 1
      BY PowersAssumption
    <3> QED
      BY <2>1, <3>1, <3>2
  <2> QED
    BY <2>1, <2>2
<1>6. m - 1 \in 0 .. Widest - 1 /\ m - 1 \notin Bad
  BY <1>1, <1>3, <1>4, <1>5
<1>7. 2 ^ (m - 1) \in Nat \ {0}
  BY <1>1, <1>6
<1>8. 2 ^ (m - 1 + 1) = 2 * 2 ^ (m - 1)
  BY <1>6, PowersAssumption DEF Widest
<1>9. m - 1 + 1 = m
  BY <1>1, <1>5
<1> QED
  BY <1>4, <1>7, <1>8, <1>9

\* A power of two divides the greater ones.
LEMMA PowersDivide ==
  ASSUME NEW w \in 0 .. Widest, NEW k \in 0 .. w
  PROVE  \E c \in Nat \ {0} : 2 ^ w = c * 2 ^ k
<1>1. Widest \in Nat /\ w \in Nat
  BY BitsAssumption DEF Widest, IntTypes, SignedTypes
<1> DEFINE Divides(j) == \E c \in Nat \ {0} : 2 ^ w = c * 2 ^ j
           Bad == {j \in 0 .. w : ~Divides(w - j)}
<1>2. ASSUME Bad # {} PROVE FALSE
  <2>1. Bad \in SUBSET Nat
    BY <1>1
  <2>2. PICK m \in Bad : \A n \in Bad : m <= n
    BY <1>2, <2>1, LeastElement
  <2>3. Divides(w - 0)
    <3>1. w - 0 = w
      BY <1>1
    <3>2. 2 ^ w = 1 * 2 ^ w
      BY PowersPositive, <1>1
    <3> QED
      BY <3>1, <3>2
  <2>4. m \in 0 .. w /\ m # 0
    BY <2>2, <2>3
  <2>5. m - 1 \in 0 .. w /\ m - 1 \notin Bad
    BY <1>1, <2>1, <2>2, <2>4
  <2>6. Divides(w - (m - 1))
    BY <2>5
  <2>7. PICK c \in Nat \ {0} : 2 ^ w = c * 2 ^ (w - (m - 1))
    BY <2>6
  <2>8. w - (m - 1) = (w - m) + 1 /\ w - m \in 0 .. Widest - 1
    BY <1>1, <2>4
  <2>9. 2 ^ ((w - m) + 1) = 2 * 2 ^ (w - m)
    BY <2>8, PowersAssumption DEF Widest
  <2>10. 2 ^ w = c * (2 * 2 ^ (w - m))
    BY <2>7, <2>8, <2>9
  <2>11. 2 ^ (w - m) \in Nat
    BY <2>8, PowersPositive, <1>1
  <2>12. 2 ^ w = (c * 2) * 2 ^ (w - m) /\ c * 2 \in Nat \ {0}
    BY <2>10, <2>11
  <2>13. Divides(w - m)
    BY <2>12
  <2> QED
    BY <2>2, <2>13
<1>3. w - k \in 0 .. w /\ w - (w - k) = k
  BY <1>1
<1>4. Divides(w - (w - k))
  BY <1>2, <1>3
<1> QED
  BY <1>3, <1>4

\* Division with remainder.
LEMMA DivMod ==
  ASSUME NEW n \in Int, NEW m \in Nat \ {0}
  PROVE  /\ n % m \in 0 .. m - 1 /\ n \div m \in Int
         /\ n = m * (n \div m) + (n % m)
  OBVIOUS

\* A multiple leaves no remainder.
LEMMA MultipleMod ==
  ASSUME NEW k \in Int, NEW m \in Nat \ {0}
  PROVE  (m * k) % m = 0
<1> DEFINE n == m * k
           d == n \div m
           r == n % m
<1>0. n \in Int
  OBVIOUS
<1> HIDE DEF n
<1>1. r \in 0 .. m - 1 /\ d \in Int /\ n = m * d + r
  BY <1>0, DivMod
<1> HIDE DEF d, r
<1>2. m * (k - d) = r
  BY <1>1 DEF n
<1>3. ~(k - d >= 1)
  <2>1. ASSUME k - d >= 1 PROVE FALSE
    <3>1. m * (k - d) = m + m * (k - d - 1) /\ m * (k - d - 1) >= 0
      BY <1>1, <2>1
    <3> QED
      BY <1>1, <1>2, <3>1
  <2> QED
    BY <2>1
<1>4. ~(k - d <= -1)
  <2>1. ASSUME k - d <= -1 PROVE FALSE
    <3>1. m * (d - k) >= 0 /\ m * (k - d) = -(m * (d - k))
      BY <1>1, <2>1
    <3>2. m * (d - k) = m + m * (d - k - 1) /\ m * (d - k - 1) >= 0
      BY <1>1, <2>1
    <3> QED
      BY <1>1, <1>2, <3>1, <3>2
  <2> QED
    BY <2>1
<1>5. k - d = 0
  BY <1>1, <1>3, <1>4
<1>6. m * 0 = r
  BY <1>2, <1>5
<1>7. r = 0
  BY <1>6
<1> QED
  BY <1>7 DEF r, n

\* The modulus of a type, and the bound of its numbers that a signed type keeps.
LEMMA WidthFacts ==
  ASSUME NEW t \in IntTypes
  PROVE  /\ Bits[t] \in 1 .. Widest /\ Bits[t] - 1 \in 0 .. Widest
         /\ 2 ^ Bits[t] \in Nat \ {0} /\ 2 ^ (Bits[t] - 1) \in Nat \ {0}
         /\ 2 ^ Bits[t] = 2 * 2 ^ (Bits[t] - 1)
         /\ 2 ^ Bits[t] \div 2 = 2 ^ (Bits[t] - 1)
<1>1. Widest \in Nat \ {0} /\ Bits[t] \in Nat \ {0}
  BY BitsAssumption DEF Widest, IntTypes, SignedTypes
<1>2. Bits[t] <= Widest
  <2>1. Bits["INT64"] = Widest /\ Bits["UINT64"] = Widest
    BY BitsAssumption DEF Widest
  <2>2. CASE t \in {"INT64", "UINT64"}
    BY <1>1, <2>1, <2>2
  <2>3. CASE t \notin {"INT64", "UINT64"}
    BY <1>1, <2>3, BitsAssumption DEF Widest
  <2> QED
    BY <2>2, <2>3
<1>3. Bits[t] \in 1 .. Widest /\ Bits[t] - 1 \in 0 .. Widest - 1
  BY <1>1, <1>2
<1>4. 2 ^ Bits[t] \in Nat \ {0} /\ 2 ^ (Bits[t] - 1) \in Nat \ {0}
  BY <1>1, <1>3, PowersPositive
<1>5. 2 ^ (Bits[t] - 1 + 1) = 2 * 2 ^ (Bits[t] - 1)
  BY <1>3, PowersAssumption DEF Widest
<1>6. Bits[t] - 1 + 1 = Bits[t]
  BY <1>1
<1>7. 2 ^ Bits[t] = 2 * 2 ^ (Bits[t] - 1)
  BY <1>5, <1>6
<1> QED
  BY <1>1, <1>3, <1>4, <1>7

\* Adding a multiple of the modulus is all that Wrap does,
LEMMA WrapShifts ==
  ASSUME NEW t \in IntTypes, NEW n \in Int
  PROVE  \E k \in Int : Wrap(t, n) = n + 2 ^ Bits[t] * k
<1> DEFINE m == 2 ^ Bits[t]
           r == n % m
           q == n \div m
<1>1. m \in Nat \ {0}
  BY WidthFacts
<1> HIDE DEF m
<1>2. r \in 0 .. m - 1 /\ q \in Int /\ n = m * q + r
  BY <1>1, DivMod
<1> HIDE DEF r, q
<1>3. r = n + m * (-q) /\ r - m = n + m * (-q - 1) /\ -q \in Int /\ -q - 1 \in Int
  BY <1>1, <1>2
<1>4. Wrap(t, n) \in {r, r - m}
  BY DEF Wrap, m, r
<1>5. \E k \in Int : Wrap(t, n) = n + m * k
  BY <1>3, <1>4
<1> QED
  BY <1>5 DEF m

\* and it leads to a number of the type,
LEMMA WrapInRange ==
  ASSUME NEW t \in IntTypes, NEW n \in Int
  PROVE  Wrap(t, n) \in Least(t) .. Greatest(t) /\ Wrap(t, n) \in Int
<1> DEFINE m == 2 ^ Bits[t]
           h == 2 ^ (Bits[t] - 1)
           r == n % m
<1>1. m \in Nat \ {0} /\ h \in Nat \ {0} /\ m = 2 * h /\ m \div 2 = h
  BY WidthFacts
<1>2. Bits[t] - 0 = Bits[t]
  BY WidthFacts
<1>3. /\ Least(t) = IF t \in SignedTypes THEN -h ELSE 0
      /\ Greatest(t) = IF t \in SignedTypes THEN h - 1 ELSE m - 1
  BY <1>2 DEF Least, Greatest
<1>4. Wrap(t, n) = IF t \in SignedTypes /\ r >= m \div 2 THEN r - m ELSE r
  BY DEF Wrap
<1> HIDE DEF m, h
<1>5. r \in 0 .. m - 1
  BY <1>1, DivMod
<1> HIDE DEF r
<1> QED
  BY <1>1, <1>3, <1>4, <1>5

\* of which there is one.
LEMMA OneOfEachClass ==
  ASSUME NEW t \in IntTypes, NEW a \in Least(t) .. Greatest(t),
         NEW b \in Least(t) .. Greatest(t), NEW k \in Int, a = b + 2 ^ Bits[t] * k
  PROVE  a = b
<1> DEFINE m == 2 ^ Bits[t]
           h == 2 ^ (Bits[t] - 1)
<1>1. m \in Nat \ {0} /\ h \in Nat \ {0} /\ m = 2 * h /\ Bits[t] - 0 = Bits[t]
  BY WidthFacts
<1>2. /\ Least(t) = IF t \in SignedTypes THEN -h ELSE 0
      /\ Greatest(t) = IF t \in SignedTypes THEN h - 1 ELSE m - 1
  BY <1>1 DEF Least, Greatest
<1> HIDE DEF m, h
<1>3. a \in Int /\ b \in Int /\ a - b < m /\ b - a < m
  BY <1>1, <1>2
<1>4. a - b = m * k
  BY <1>1, <1>3 DEF m
<1>5. ~(k >= 1)
  <2>1. ASSUME k >= 1 PROVE FALSE
    <3>1. m * k = m + m * (k - 1) /\ m * (k - 1) >= 0
      BY <1>1, <2>1
    <3> QED
      BY <1>1, <1>3, <1>4, <3>1
  <2> QED
    BY <2>1
<1>6. ~(k <= -1)
  <2>1. ASSUME k <= -1 PROVE FALSE
    <3>1. m * k = -m - m * (-k - 1) /\ m * (-k - 1) >= 0
      BY <1>1, <2>1
    <3> QED
      BY <1>1, <1>3, <1>4, <3>1
  <2> QED
    BY <2>1
<1>7. k = 0
  BY <1>5, <1>6
<1>8. m * k = 0
  BY <1>1, <1>7
<1> QED
  BY <1>3, <1>4, <1>8

\* A number of the type stays as it is.
LEMMA WrapFixes ==
  ASSUME NEW t \in IntTypes, NEW n \in Least(t) .. Greatest(t), n \in Int
  PROVE  Wrap(t, n) = n
<1>1. PICK k \in Int : Wrap(t, n) = n + 2 ^ Bits[t] * k
  BY WrapShifts
<1>2. Wrap(t, n) \in Least(t) .. Greatest(t)
  BY WrapInRange
<1> QED
  BY <1>1, <1>2, OneOfEachClass

\* A narrower type has at most half the numbers of the widest.
LEMMA Narrower ==
  ASSUME NEW t \in IntTypes \ {"INT64", "UINT64"}
  PROVE  2 ^ Bits[t] <= 2 ^ (Widest - 1)
<1>1. Widest \in Nat \ {0} /\ Bits[t] \in Nat /\ Bits[t] < Widest
  BY BitsAssumption DEF Widest, IntTypes, SignedTypes
<1>2. Widest - 1 \in 0 .. Widest /\ Bits[t] \in 0 .. Widest - 1 /\ Bits[t] \in 0 .. Widest
  BY <1>1
<1>3. PICK c \in Nat \ {0} : 2 ^ (Widest - 1) = c * 2 ^ Bits[t]
  BY <1>2, PowersDivide
<1>4. 2 ^ Bits[t] \in Nat
  BY <1>2, PowersPositive
<1> DEFINE m == 2 ^ Bits[t]
<1>5. c * m = m + (c - 1) * m /\ (c - 1) * m >= 0 /\ m \in Nat
  BY <1>4
<1> QED
  BY <1>3, <1>5

\* The type whose range the numbers of t have, as signed 64 bit numbers.
SignedLike(t) == IF t = "UINT64" THEN "INT64" ELSE t
AsSigned(t)   == Least(SignedLike(t)) .. Greatest(SignedLike(t))

\* The bounds of a type, and of the widest.
LEMMA Bounds ==
  ASSUME NEW t \in IntTypes
  PROVE  LET h == 2 ^ (Bits[t] - 1)
             w == 2 ^ (Widest - 1)
         IN  /\ h \in Nat \ {0} /\ w \in Nat \ {0}
             /\ 2 ^ Bits[t] = 2 * h /\ 2 ^ Widest = 2 * w
             /\ Least(t) = IF t \in SignedTypes THEN -h ELSE 0
             /\ Greatest(t) = IF t \in SignedTypes THEN h - 1 ELSE 2 * h - 1
             /\ Least("INT64") = -w /\ Greatest("INT64") = w - 1
             /\ t \in {"INT64", "UINT64"} => h = w
             /\ t \notin {"INT64", "UINT64"} => 2 * h <= w
<1> DEFINE h == 2 ^ (Bits[t] - 1)
           w == 2 ^ (Widest - 1)
<1>1. /\ h \in Nat \ {0} /\ 2 ^ Bits[t] = 2 * h /\ Bits[t] - 0 = Bits[t]
  BY WidthFacts
<1>2. "INT64" \in IntTypes /\ "INT64" \in SignedTypes /\ Bits["INT64"] = Widest
  BY DEF IntTypes, SignedTypes, Widest
<1>3. w \in Nat \ {0} /\ 2 ^ Widest = 2 * w
  BY <1>2, WidthFacts
<1>4. /\ Least(t) = IF t \in SignedTypes THEN -h ELSE 0
      /\ Greatest(t) = IF t \in SignedTypes THEN h - 1 ELSE 2 * h - 1
  BY <1>1 DEF Least, Greatest
<1>5. Least("INT64") = -w /\ Greatest("INT64") = w - 1
  BY <1>2 DEF Least, Greatest
<1>6. t \in {"INT64", "UINT64"} => h = w
  BY <1>2, BitsAssumption
<1>7. t \notin {"INT64", "UINT64"} => 2 * h <= w
  BY <1>1, Narrower
<1> QED
  BY <1>1, <1>3, <1>4, <1>5, <1>6, <1>7

\* numeric_as_i64 of a number: itself, but for a UINT64 above every INT64.
Meant(v) == IF FitsSigned(v) THEN v.n ELSE v.n - 2 ^ Bits["UINT64"]

\* numeric_as_i64 of a number of type t, in the range of t or, for UINT64, of the
\* signed type; and the same number modulo the width.
LEMMA AsI64Facts ==
  ASSUME NEW t \in IntTypes, NEW n \in Least(t) .. Greatest(t)
  PROVE  LET v == Num(t, n)
         IN  /\ n \in Int /\ AsI64(v) = Meant(v) /\ Meant(v) \in AsSigned(t)
             /\ Meant(v) \in Int /\ Meant(v) \in Least("INT64") .. Greatest("INT64")
             /\ \E k \in Int : Meant(v) = n + 2 ^ Bits[t] * k
             /\ Meant(v) = 0 <=> n = 0
<1> DEFINE v == Num(t, n)
           h == 2 ^ (Bits[t] - 1)
           w == 2 ^ (Widest - 1)
<1>1. /\ h \in Nat \ {0} /\ w \in Nat \ {0}
      /\ 2 ^ Bits[t] = 2 * h /\ 2 ^ Widest = 2 * w
      /\ Least(t) = IF t \in SignedTypes THEN -h ELSE 0
      /\ Greatest(t) = IF t \in SignedTypes THEN h - 1 ELSE 2 * h - 1
      /\ Least("INT64") = -w /\ Greatest("INT64") = w - 1
      /\ t \in {"INT64", "UINT64"} => h = w
      /\ t \notin {"INT64", "UINT64"} => 2 * h <= w
  BY Bounds
<1>2. "INT64" \in IntTypes /\ Bits["INT64"] = Widest /\ Bits["UINT64"] = Widest
  BY BitsAssumption DEF IntTypes, SignedTypes, Widest
<1>3. v.t = t /\ v.n = n /\ AsI64(v) = Wrap("INT64", n)
  BY DEF AsI64, Num
<1>4. Meant(v) = IF t = "UINT64" /\ n > Greatest("INT64") THEN n - 2 ^ Widest ELSE n
  <2>1. n \in Int
    BY <1>1
  <2> HIDE DEF v, h, w
  <2> QED
    BY <1>1, <1>2, <1>3, <2>1 DEF Meant, FitsSigned
<1>5. "INT64" \in SignedTypes /\ "UINT64" \notin SignedTypes
  BY DEF SignedTypes
<1> HIDE DEF h, w, v
<1>6. n \in Int
  BY <1>1
<1>7. CASE t # "UINT64" \/ n <= Greatest("INT64")
  <2>1. Meant(v) = n
    BY <1>1, <1>4, <1>6, <1>7
  <2>2. n \in Least("INT64") .. Greatest("INT64")
    BY <1>1, <1>5, <1>6, <1>7
  <2>3. Wrap("INT64", n) = n
    BY <1>2, <1>6, <2>2, WrapFixes
  <2>4. n = n + 2 ^ Bits[t] * 0
    BY <1>1, <1>6
  <2>5. Meant(v) \in AsSigned(t)
    BY <2>1, <2>2 DEF AsSigned, SignedLike
  <2> QED
    BY <1>3, <1>6, <2>1, <2>2, <2>3, <2>4, <2>5 DEF v
<1>8. CASE t = "UINT64" /\ n > Greatest("INT64")
  <2>1. Meant(v) = n - 2 * w /\ h = w /\ n \in 0 .. 2 * w - 1
    BY <1>1, <1>4, <1>5, <1>8
  <2>2. n - 2 * w \in Least("INT64") .. Greatest("INT64") /\ n - 2 * w \in Int /\ n - 2 * w # 0
    BY <1>1, <1>6, <1>8, <2>1
  <2>3. PICK k \in Int : Wrap("INT64", n) = n + 2 ^ Widest * k
    BY <1>2, <1>6, WrapShifts
  <2>4. Wrap("INT64", n) = (n - 2 * w) + 2 ^ Widest * (k + 1)
    BY <1>1, <1>6, <2>3
  <2>5. Wrap("INT64", n) \in Least("INT64") .. Greatest("INT64")
    BY <1>2, <1>6, WrapInRange
  <2>6. Wrap("INT64", n) = n - 2 * w
    <3>1. k + 1 \in Int /\ 2 ^ Bits["INT64"] = 2 ^ Widest
      BY <1>2
    <3> QED
      BY <1>2, <2>2, <2>4, <2>5, <3>1, OneOfEachClass
  <2>7. n - 2 * w = n + 2 ^ Bits[t] * (-1)
    BY <1>1, <1>6, <2>1
  <2>8. Meant(v) \in AsSigned(t)
    BY <1>8, <2>1, <2>2 DEF AsSigned, SignedLike
  <2>9. n # 0
    BY <1>1, <1>8, <2>1
  <2> QED
    BY <1>3, <1>6, <2>1, <2>2, <2>6, <2>7, <2>8, <2>9 DEF v
<1> QED
  BY <1>1, <1>6, <1>7, <1>8 DEF v

\* A number that t can stand for is kept by the arithmetic in 64 bits.
LEMMA SignedKeeps ==
  ASSUME NEW t \in IntTypes, NEW q \in AsSigned(t)
  PROVE  q \in Int /\ Wrap("INT64", q) = q
<1> DEFINE h == 2 ^ (Bits[t] - 1)
           w == 2 ^ (Widest - 1)
<1>1. /\ h \in Nat \ {0} /\ w \in Nat \ {0}
      /\ Least(t) = IF t \in SignedTypes THEN -h ELSE 0
      /\ Greatest(t) = IF t \in SignedTypes THEN h - 1 ELSE 2 * h - 1
      /\ Least("INT64") = -w /\ Greatest("INT64") = w - 1
      /\ t \in {"INT64", "UINT64"} => h = w
      /\ t \notin {"INT64", "UINT64"} => 2 * h <= w
  BY Bounds
<1>2. "INT64" \in IntTypes
  BY DEF IntTypes, SignedTypes
<1> HIDE DEF h, w
<1>3. q \in Int /\ q \in Least("INT64") .. Greatest("INT64")
  BY <1>1 DEF AsSigned, SignedLike
<1> QED
  BY <1>2, <1>3, WrapFixes

\* What differs by a multiple of the modulus is congruent.
LEMMA ShiftedIsCongruent ==
  ASSUME NEW t \in IntTypes, NEW a \in Int, NEW b \in Int, NEW k \in Int,
         a = b + 2 ^ Bits[t] * k
  PROVE  Congruent(a, b, t)
<1> DEFINE m == 2 ^ Bits[t]
<1>1. m \in Nat \ {0}
  BY WidthFacts
<1> HIDE DEF m
<1>2. a - b = m * k
  BY <1>1 DEF m
<1>3. (m * k) % m = 0
  BY <1>1, MultipleMod
<1> QED
  BY <1>2, <1>3 DEF Congruent, m

\* The results of numeric_op: computed in 64 bits, then cut to the type.
LEMMA WrapTwice ==
  ASSUME NEW t \in IntTypes, NEW n \in Int
  PROVE  /\ Wrap(t, Wrap("INT64", n)) \in Int
         /\ Wrap(t, Wrap("INT64", n)) \in Least(t) .. Greatest(t)
         /\ \E k \in Int : Wrap(t, Wrap("INT64", n)) = n + 2 ^ Bits[t] * k
<1> DEFINE m == 2 ^ Bits[t]
           x == Wrap("INT64", n)
           y == Wrap(t, x)
<1>1. "INT64" \in IntTypes /\ Bits["INT64"] = Widest
  BY DEF IntTypes, SignedTypes, Widest
<1>2. PICK i \in Int : x = n + 2 ^ Widest * i
  BY <1>1, WrapShifts
<1>3. x \in Int
  BY <1>1, WrapInRange
<1> HIDE DEF x
<1>4. PICK j \in Int : y = x + m * j
  BY <1>3, WrapShifts
<1>5. y \in Int /\ y \in Least(t) .. Greatest(t)
  BY <1>3, WrapInRange
<1>6. Bits[t] \in 0 .. Widest /\ m \in Nat /\ Widest \in 0 .. Widest
  <2>1. Widest \in Nat
    BY <1>1, BitsAssumption DEF Widest
  <2> QED
    BY <2>1, WidthFacts
<1>7. PICK c \in Nat \ {0} : 2 ^ Widest = c * m
  BY <1>6, PowersDivide
<1> HIDE DEF y, m
<1>8. x = n + m * (c * i)
  BY <1>2, <1>6, <1>7
<1>9. y = n + m * (c * i + j) /\ c * i + j \in Int
  <2> DEFINE u == c * i
  <2>1. u \in Int /\ x = n + m * u
    BY <1>8
  <2> HIDE DEF u
  <2>2. y = n + m * (u + j) /\ u + j \in Int
    BY <1>4, <1>6, <2>1
  <2> QED
    BY <2>2 DEF u
<1>10. \E k \in Int : y = n + m * k
  BY <1>9
<1> QED
  BY <1>5, <1>10 DEF x, y, m

\* Numbers that differ by a multiple of m.
SameClass(x, a, m) == \E k \in Int : x = a + m * k

\* Sums, differences and products of congruent numbers are congruent.
LEMMA CongruentResults ==
  ASSUME NEW m \in Int, NEW a \in Int, NEW b \in Int, NEW x, NEW y,
         SameClass(x, a, m), SameClass(y, b, m)
  PROVE  /\ SameClass(x + y, a + b, m)
         /\ SameClass(x - y, a - b, m)
         /\ SameClass(x * y, a * b, m)
<1>1. PICK i \in Int, j \in Int : x = a + m * i /\ y = b + m * j
  BY DEF SameClass
<1>2. (a + m * i) + (b + m * j) = (a + b) + m * (i + j) /\ i + j \in Int
  OBVIOUS
<1>3. (a + m * i) - (b + m * j) = (a - b) + m * (i - j) /\ i - j \in Int
  OBVIOUS
<1>4. /\ (a + m * i) * (b + m * j) = a * b + m * (a * j + i * b + i * (m * j))
      /\ a * j + i * b + i * (m * j) \in Int
  OBVIOUS
<1> QED
  BY <1>1, <1>2, <1>3, <1>4 DEF SameClass

\* Quotient truncates toward zero, and what is left has the sign of the dividend.
LEMMA QuotientFacts ==
  ASSUME NEW a \in Int, NEW b \in Int, b # 0
  PROVE  LET q == Quotient(a, b)
             r == a - b * q
         IN  /\ q \in Int /\ r \in Int /\ Abs(q) <= Abs(a)
             /\ b \notin {1, -1} => 2 * Abs(q) <= Abs(a)
             /\ b = 1 => q = a
             /\ b = -1 => q = -a
             /\ a >= 0 /\ b >= 0 => q >= 0
             /\ RemainderOf(a, b, r)
<1> DEFINE A == Abs(a)
           B == Abs(b)
           d == A \div B
           q == Quotient(a, b)
           r == a - b * q
<1>1. /\ A \in Nat /\ A = (IF a < 0 THEN -a ELSE a)
      /\ B \in Nat \ {0} /\ B = (IF b < 0 THEN -b ELSE b)
  BY DEF Abs
<1>2. q = IF (a < 0) # (b < 0) THEN -d ELSE d
  BY DEF Quotient
<1> HIDE DEF A, B, q
<1>0. A \in Int /\ B \in Nat \ {0}
  BY <1>1
<1>3. d \in Int /\ A % B \in 0 .. B - 1 /\ A = B * d + (A % B)
  BY ONLY <1>0, DivMod
<1> DEFINE s == A % B
<1> HIDE DEF d, s
<1>4. d >= 0
  <2>1. ASSUME d <= -1 PROVE FALSE
    <3>1. B * (-1 - d) >= 0 /\ B * d = -B - B * (-1 - d)
      BY <1>1, <1>3, <2>1
    <3> QED
      BY <1>1, <1>3, <3>1 DEF s
  <2> QED
    BY <1>3, <2>1
<1>5. B * d = d + (B - 1) * d /\ (B - 1) * d >= 0
  BY <1>1, <1>3, <1>4
<1>6. d <= A
  BY <1>1, <1>3, <1>5 DEF s
<1>7. B # 1 => 2 * d <= A
  <2>1. ASSUME B # 1 PROVE B * d = 2 * d + (B - 2) * d /\ (B - 2) * d >= 0
    BY <1>1, <1>3, <1>4, <2>1
  <2> QED
    BY <1>1, <1>3, <2>1 DEF s
<1>8. B = 1 => d = A
  BY <1>1, <1>3 DEF s
<1>9. q \in Int /\ Abs(q) = d
  BY <1>2, <1>3, <1>4 DEF Abs
<1>10. b * q = IF a < 0 THEN -(B * d) ELSE B * d
  <2>1. b = B \/ b = -B
    BY <1>1
  <2>2. CASE a < 0 /\ b < 0
    <3>1. b = -B /\ q = d
      BY <1>1, <1>2, <2>2
    <3> QED
      BY <1>1, <1>3, <2>2, <3>1
  <2>3. CASE a < 0 /\ ~(b < 0)
    <3>1. b = B /\ q = -d
      BY <1>1, <1>2, <2>3
    <3> QED
      BY <1>1, <1>3, <2>3, <3>1
  <2>4. CASE ~(a < 0) /\ b < 0
    <3>1. b = -B /\ q = -d
      BY <1>1, <1>2, <2>4
    <3> QED
      BY <1>1, <1>3, <2>4, <3>1
  <2>5. CASE ~(a < 0) /\ ~(b < 0)
    <3>1. b = B /\ q = d
      BY <1>1, <1>2, <2>5
    <3> QED
      BY <1>1, <1>3, <2>5, <3>1
  <2> QED
    BY <2>2, <2>3, <2>4, <2>5
<1>11. r = IF a < 0 THEN -s ELSE s
  BY <1>1, <1>3, <1>10 DEF s
<1>12. r \in Int /\ Abs(r) < B /\ (r = 0 \/ (r < 0) = (a < 0))
  BY <1>1, <1>3, <1>11 DEF Abs, s
<1>13. (a - r) % B = 0
  <2> DEFINE e == -d
  <2>0. e \in Int
    BY <1>3
  <2> HIDE DEF e
  <2>1. (B * d) % B = 0 /\ (B * e) % B = 0
    BY <1>1, <1>3, <2>0, MultipleMod
  <2>2. a - r = b * q
    BY <1>9
  <2>3. b * q = B * d \/ b * q = B * e
    BY <1>1, <1>3, <1>10 DEF e
  <2> QED
    BY <2>1, <2>2, <2>3
<1>14. RemainderOf(a, b, r)
  BY <1>12, <1>13 DEF RemainderOf, B
<1>15. b = 1 => q = a
  BY <1>1, <1>2, <1>8
<1>16. b = -1 => q = -a
  <2>1. ASSUME b = -1 PROVE q = -a
    <3>0. b < 0
      BY <2>1
    <3>4. B = -b
      BY <1>1, <3>0
    <3>6. b + 1 = 0
      BY <2>1
    <3>5. B = 1
      BY <3>4, <3>6
    <3>1. B = 1 /\ d = A /\ b < 0
      BY <1>8, <3>0, <3>5
    <3>2. CASE a < 0
      BY <1>1, <1>2, <3>1, <3>2
    <3>3. CASE ~(a < 0)
      BY <1>1, <1>2, <3>1, <3>3
    <3> QED
      BY <3>2, <3>3
  <2> QED
    BY <2>1
<1>17. b \notin {1, -1} => B # 1
  BY <1>1
<1> QED
  BY <1>2, <1>4, <1>6, <1>7, <1>9, <1>12, <1>14, <1>15, <1>16, <1>17 DEF A, q

-------------------------------------------------------------------------------
(* What an instruction computes from integers.                               *)
\* Which part of Computed an instruction on numbers takes.
LEMMA ComputedNumbers ==
  ASSUME NEW ins, NEW x
  PROVE  /\ ins.op \in ArithmeticOps => Computed(ins, x) = ArithmeticResult(ins.op, x)
         /\ ins.op \in ComparisonOps => Computed(ins, x) = ComparisonResult(ins.op, x)
         /\ ins.op \in BitwiseOps \cup ShiftOps \cup {"NOT"} =>
              Computed(ins, x) = BitwiseResult(ins.op, x)
         /\ ins.op = "NEG" => Computed(ins, x) = Negate(x[1])
         /\ ins.op = "CAST" => Computed(ins, x) = CastValue(x[1], ins.a[2].ty)
<1> USE DEF ArithmeticOps, ComparisonOps, BitwiseOps, ShiftOps, FieldReads, KeyedReads
<1>1. ins.op \in ArithmeticOps => Computed(ins, x) = ArithmeticResult(ins.op, x)
  BY DEF Computed
<1>2. ins.op \in ComparisonOps => Computed(ins, x) = ComparisonResult(ins.op, x)
  BY DEF Computed
<1>3. ins.op \in BitwiseOps \cup ShiftOps \cup {"NOT"} =>
        Computed(ins, x) = BitwiseResult(ins.op, x)
  BY DEF Computed
<1>4. ins.op = "NEG" => Computed(ins, x) = Negate(x[1])
  BY DEF Computed
<1>5. ins.op = "CAST" => Computed(ins, x) = CastValue(x[1], ins.a[2].ty)
  BY DEF Computed
<1> QED
  BY <1>1, <1>2, <1>3, <1>4, <1>5

\* Names of types.
LEMMA TypeNames ==
  ASSUME NEW t \in IntTypes
  PROVE  /\ t \notin FloatTypes /\ t # "FAULT" /\ t # "BOOL"
         /\ t \in SignedTypes <=> t \notin UnsignedTypes
         /\ t \in {"INT64", "UINT64"} => t \in ShiftTypes
BY DEF IntTypes, SignedTypes, UnsignedTypes, FloatTypes, ShiftTypes

\* numeric_op on two integers of one type, but where it panics.
LEMMA NumericOpOfIntegers ==
  ASSUME NEW t \in IntTypes, NEW a \in Least(t) .. Greatest(t),
         NEW b \in Least(t) .. Greatest(t), NEW op \in ArithmeticOps
  PROVE  LET va == Num(t, a)
             vb == Num(t, b)
             panics == op \in {"DIV", "MOD"} /\ Meant(vb) = -1 /\ Meant(va) = Least("INT64")
         IN  /\ panics => NumericOp(op, va, vb) = Panic
             /\ ~panics => NumericOp(op, va, vb)
                     = Num(t, Wrap(t, Wrap("INT64", Calculate(op, Meant(va), Meant(vb)))))
<1> DEFINE va == Num(t, a)
           vb == Num(t, b)
<1>1. va.t = t /\ vb.t = t
  BY DEF Num
<1>2. AsI64(va) = Meant(va) /\ AsI64(vb) = Meant(vb)
  BY AsI64Facts
<1>3. Least("INT64") = -(2 ^ (Bits["INT64"] - 1))
  BY DEF Least, SignedTypes
<1>4. ~IsFloat(va)
  BY <1>1, TypeNames DEF IsFloat
<1> HIDE DEF va, vb
<1> QED
  BY <1>1, <1>2, <1>3, <1>4 DEF NumericOp, Unrepresentable, va, vb

\* A result that is cut to its type is of that type, and no fault.
LEMMA WrappedIsInType ==
  ASSUME NEW t \in IntTypes, NEW n \in Int
  PROVE  LET r == Num(t, Wrap(t, n)) IN ~IsFault(r) /\ InType(r) /\ r.t = t /\ r.n = Wrap(t, n)
<1>1. Num(t, Wrap(t, n)).t = t /\ Num(t, Wrap(t, n)).n = Wrap(t, n)
  BY DEF Num
<1> QED
  BY <1>1, WrapInRange, TypeNames DEF IsFault, InType

\* ADD, SUB and MUL.
LEMMA SumsAreRight ==
  ASSUME NEW ins, ins.op \in {"ADD", "SUB", "MUL"},
         NEW t \in IntTypes, NEW a \in Least(t) .. Greatest(t), NEW b \in Least(t) .. Greatest(t)
  PROVE  LET va == Num(t, a)
             vb == Num(t, b)
         IN  Right(ins, va, vb, Computed(ins, <<va, vb>>))
<1> DEFINE va == Num(t, a)
           vb == Num(t, b)
           op == ins.op
           x  == Meant(va)
           y  == Meant(vb)
           m  == 2 ^ Bits[t]
           c  == Calculate(op, x, y)
           e  == CASE op = "ADD" -> a + b [] op = "SUB" -> a - b [] op = "MUL" -> a * b
           r  == Wrap(t, Wrap("INT64", c))
<1>1. a \in Int /\ b \in Int /\ x \in Int /\ y \in Int
  BY AsI64Facts
<1>2. SameClass(x, a, m)
  BY AsI64Facts DEF SameClass
<1>3. SameClass(y, b, m)
  BY AsI64Facts DEF SameClass
<1>4. m \in Nat /\ m \in Int
  BY WidthFacts
<1>5. va.t = t /\ vb.t = t /\ va.n = a /\ vb.n = b
  BY DEF Num
<1>6. Computed(ins, <<va, vb>>) = NumericOp(op, va, vb)
  BY ComputedNumbers DEF ArithmeticResult, ArithmeticOps
<1>7. NumericOp(op, va, vb) = Num(t, r)
  BY NumericOpOfIntegers DEF ArithmeticOps
<1> HIDE DEF va, vb, x, y, m
<1>8. c \in Int /\ e \in Int /\ SameClass(c, e, m)
  <2>1. /\ SameClass(x + y, a + b, m)
        /\ SameClass(x - y, a - b, m)
        /\ SameClass(x * y, a * b, m)
    BY <1>1, <1>2, <1>3, <1>4, CongruentResults
  <2>2. CASE op = "ADD"
    BY <1>1, <2>1, <2>2 DEF Calculate
  <2>3. CASE op = "SUB"
    BY <1>1, <2>1, <2>3 DEF Calculate
  <2>4. CASE op = "MUL"
    <3>1. c = x * y /\ e = a * b
      BY <2>4 DEF Calculate
    <3>2. x * y \in Int /\ a * b \in Int
      BY <1>1
    <3> QED
      BY <2>1, <3>1, <3>2
  <2> QED
    BY <2>2, <2>3, <2>4
<1> HIDE DEF c, e
<1>9. Congruent(r, e, t)
  <2>1. PICK k \in Int : c = e + m * k
    BY <1>8 DEF SameClass
  <2>2. r \in Int
    BY <1>8, WrapTwice
  <2>3. PICK l \in Int : r = c + m * l
    BY <1>8, WrapTwice DEF m
  <2>4. r = e + m * (k + l) /\ k + l \in Int
    BY <1>4, <1>8, <2>1, <2>3
  <2> QED
    BY <1>8, <2>2, <2>4, ShiftedIsCongruent DEF m
<1>10. Wrap("INT64", c) \in Int
  BY <1>8, WrapInRange DEF IntTypes, SignedTypes
<1>11. LET v == Num(t, r) IN ~IsFault(v) /\ InType(v) /\ v.t = t /\ v.n = r
  BY <1>10, WrappedIsInType
<1> DEFINE v == Num(t, r)
<1> HIDE DEF r, v
<1>12. Exact(op, va, vb, v)
  BY <1>5, <1>9, <1>11 DEF Exact, e, v
<1> QED
  BY <1>6, <1>7, <1>11, <1>12 DEF Right, va, vb, v

\* A wrapped number is congruent to what was wrapped.
LEMMA WrapIsCongruent ==
  ASSUME NEW t \in IntTypes, NEW n \in Int
  PROVE  Congruent(Wrap(t, n), n, t)
<1>1. PICK k \in Int : Wrap(t, n) = n + 2 ^ Bits[t] * k
  BY WrapShifts
<1>2. Wrap(t, n) \in Int
  BY WrapInRange
<1> DEFINE w == Wrap(t, n)
<1> HIDE DEF w
<1> QED
  BY <1>1, <1>2, ShiftedIsCongruent DEF w

\* NEG, NOT and CAST.
LEMMA UnaryIsRight ==
  ASSUME NEW ins, ins.op \in UnaryNumeric,
         NEW t \in IntTypes, NEW a \in Least(t) .. Greatest(t), NEW b
  PROVE  LET va == Num(t, a)
         IN  Right(ins, va, b, Computed(ins, <<va, b>>))
<1> DEFINE va == Num(t, a)
           x  == Meant(va)
<1> SUFFICES Right(ins, va, b, Computed(ins, <<va, b>>))
  OBVIOUS
<1>1. a \in Int /\ x \in Int /\ AsI64(va) = x /\ (x = 0 <=> a = 0)
  BY AsI64Facts
<1>2. va.t = t /\ va.n = a
  BY DEF Num
<1>3. ~IsFloat(va) /\ IsIntegral(va)
  BY <1>2, TypeNames DEF IsFloat, IsIntegral
<1>4. ins.op \in {"NEG", "NOT", "CAST"} /\ ins.op \notin {"DIV", "MOD"} \cup ShiftOps
  BY DEF UnaryNumeric, ShiftOps
<1>5. IsFault(TypeMismatch) /\ TypeMismatch.f = "TypeMismatch"
  BY DEF IsFault, TypeMismatch, Fault
<1> HIDE DEF va, x
<1>6. CASE ins.op = "NEG" /\ t \in SignedTypes
  <2> DEFINE r == Num(t, Wrap(t, -a))
  <2>1. Computed(ins, <<va, b>>) = r
    <3>1. Computed(ins, <<va, b>>) = Negate(va)
      BY <1>6, ComputedNumbers
    <3> QED
      BY <1>2, <1>3, <1>6, <3>1 DEF Negate
  <2>2. -a \in Int
    BY <1>1
  <2>3. ~IsFault(r) /\ InType(r) /\ r.n = Wrap(t, -a)
    BY <2>2, WrappedIsInType
  <2>4. Congruent(r.n, -a, t)
    BY <2>2, <2>3, WrapIsCongruent
  <2> HIDE DEF r
  <2>5. Exact(ins.op, va, b, r)
    BY <1>2, <1>6, <2>4 DEF Exact
  <2> QED
    BY <1>4, <2>1, <2>3, <2>5 DEF Right
<1>7. CASE ins.op = "NEG" /\ t \notin SignedTypes
  <2>1. Computed(ins, <<va, b>>) = TypeMismatch
    <3>1. Computed(ins, <<va, b>>) = Negate(va)
      BY <1>7, ComputedNumbers
    <3> QED
      BY <1>2, <1>3, <1>7, <3>1 DEF Negate
  <2>2. va.t \in UnsignedTypes
    BY <1>2, <1>7, TypeNames
  <2> QED
    BY <1>5, <1>7, <2>1, <2>2 DEF Right
<1>8. CASE ins.op = "NOT"
  <2> DEFINE r == Num(t, Wrap(t, -a - 1))
  <2>1. Computed(ins, <<va, b>>) = r
    <3>1. Computed(ins, <<va, b>>) = BitwiseResult("NOT", <<va, b>>)
      BY <1>8, ComputedNumbers
    <3>2. BitwiseResult("NOT", <<va, b>>) = BitNot(va)
      BY DEF BitwiseResult, BitwiseOps
    <3> QED
      BY <1>2, <3>1, <3>2 DEF BitNot
  <2>2. -a - 1 \in Int /\ -a - 1 = -1 - a
    BY <1>1
  <2>3. ~IsFault(r) /\ InType(r) /\ r.n = Wrap(t, -a - 1)
    BY <2>2, WrappedIsInType
  <2>4. Congruent(r.n, -1 - a, t)
    BY <2>2, <2>3, WrapIsCongruent
  <2> HIDE DEF r
  <2>5. Exact(ins.op, va, b, r)
    BY <1>2, <1>8, <2>4 DEF Exact
  <2> QED
    BY <1>4, <2>1, <2>3, <2>5 DEF Right
<1>9. CASE ins.op = "CAST"
  <2> DEFINE ty == ins.a[2].ty
             r  == CastValue(va, ty)
  <2>1. Computed(ins, <<va, b>>) = r
    BY <1>9, ComputedNumbers
  <2>2. r = CASE ty = "BOOL"        -> Bool(x # 0)
              [] ty \in IntTypes   -> Num(ty, Wrap(ty, x))
              [] ty \in FloatTypes -> Num(ty, x)
              [] OTHER             -> TypeMismatch
    BY <1>1, <1>3 DEF CastValue
  <2> HIDE DEF r
  <2>3. CASE ty = "BOOL"
    <3>1. r = Bool(a # 0)
      BY <1>1, <2>2, <2>3 DEF IntTypes, SignedTypes, UnsignedTypes, FloatTypes
    <3>2. r.t = "BOOL"
      BY <3>1 DEF Bool, Num
    <3>3. ~IsFault(r) /\ InType(r) /\ Exact(ins.op, va, b, r)
      BY <1>2, <1>9, <3>1, <3>2
         DEF IsFault, InType, Exact, IntTypes, SignedTypes, UnsignedTypes, FloatTypes
    <3> QED
      BY <1>4, <2>1, <3>3 DEF Right
  <2>4. CASE ty \in IntTypes
    <3>1. r = Num(ty, Wrap(ty, x))
      BY <2>2, <2>4, TypeNames
    <3>2. ~IsFault(r) /\ InType(r) /\ r.n = Wrap(ty, x) /\ r.t = ty
      BY <1>1, <2>4, <3>1, WrappedIsInType
    <3>3. Congruent(r.n, a, ty)
      <4>1. x = Wrap("INT64", a)
        BY <1>1, <1>2 DEF AsI64
      <4> DEFINE z == Wrap(ty, x)
      <4>2. z \in Int /\ \E k \in Int : z = a + 2 ^ Bits[ty] * k
        <5>1. a \in Int
          BY <1>1
        <5>2. /\ Wrap(ty, Wrap("INT64", a)) \in Int
              /\ \E k \in Int : Wrap(ty, Wrap("INT64", a)) = a + 2 ^ Bits[ty] * k
          BY <2>4, <5>1, WrapTwice, Zenon
        <5>3. z = Wrap(ty, Wrap("INT64", a))
          BY <4>1, Zenon
        <5> QED
          BY <5>2, <5>3, Zenon
      <4> HIDE DEF z
      <4>3. Congruent(z, a, ty)
        BY <1>1, <2>4, <4>2, ShiftedIsCongruent
      <4> QED
        BY <3>2, <4>3 DEF z
    <3>4. ty # "BOOL" /\ ty \notin FloatTypes
      BY <2>4, TypeNames
    <3>5. Exact(ins.op, va, b, r)
      BY <1>2, <1>9, <2>4, <3>2, <3>3, <3>4 DEF Exact
    <3> QED
      BY <1>4, <2>1, <3>2, <3>5 DEF Right
  <2>5. CASE ty \in FloatTypes
    <3>1. ty \notin IntTypes \cup {"BOOL", "FAULT"}
      BY <2>5 DEF IntTypes, SignedTypes, UnsignedTypes, FloatTypes
    <3>2. r = Num(ty, x)
      BY <2>2, <2>5, <3>1
    <3>3. r.t = ty /\ r.n = x
      BY <3>2 DEF Num
    <3>4. ~IsFault(r) /\ InType(r) /\ Exact(ins.op, va, b, r)
      BY <1>9, <2>5, <3>1, <3>3 DEF IsFault, InType, Exact
    <3> QED
      BY <1>4, <2>1, <3>4 DEF Right
  <2>6. CASE ty \notin NumericTypes
    <3>1. r = TypeMismatch
      BY <2>2, <2>6 DEF NumericTypes
    <3> QED
      BY <1>5, <1>9, <2>1, <2>6, <3>1 DEF Right
  <2> QED
    BY <2>3, <2>4, <2>5, <2>6 DEF NumericTypes
<1> QED
  BY <1>4, <1>6, <1>7, <1>8, <1>9

\* Which numbers the order and the equality of values compare.
LEMMA ComparisonsAreRight ==
  ASSUME NEW ins, ins.op \in ComparisonOps,
         NEW t \in IntTypes, NEW a \in Least(t) .. Greatest(t), NEW b \in Least(t) .. Greatest(t),
         ins.op \in SignedReads => FitsSigned(Num(t, a)) /\ FitsSigned(Num(t, b))
  PROVE  LET va == Num(t, a)
             vb == Num(t, b)
         IN  Right(ins, va, vb, Computed(ins, <<va, vb>>))
<1> DEFINE va == Num(t, a)
           vb == Num(t, b)
           op == ins.op
           r  == Computed(ins, <<va, vb>>)
<1> SUFFICES Right(ins, va, vb, r)
  OBVIOUS
<1>1. /\ a \in Int /\ AsI64(va) = Meant(va) /\ Meant(va) \in AsSigned(t)
      /\ b \in Int /\ AsI64(vb) = Meant(vb) /\ Meant(vb) \in AsSigned(t)
  BY AsI64Facts
<1>2. va.t = t /\ va.n = a /\ vb.t = t /\ vb.n = b
  BY DEF Num
<1>3. ~IsFloat(va) /\ IsIntegral(va) /\ ~IsFloat(vb) /\ IsIntegral(vb)
  BY <1>2, TypeNames DEF IsFloat, IsIntegral
<1>4. op \in {"EQ", "NEQ", "LT", "LTE", "GT", "GTE"} /\ op \notin {"DIV", "MOD"}
  BY DEF ComparisonOps
<1>5. r = ComparisonResult(op, <<va, vb>>)
  BY ComputedNumbers
<1>6. Meant(va) = Meant(vb) <=> a = b
  <2>0. a = b => Meant(va) = Meant(vb)
    OBVIOUS
  <2>1. SUFFICES ASSUME Meant(va) = Meant(vb) PROVE a = b
    BY <2>0
  <2>2. PICK i \in Int : Meant(va) = a + 2 ^ Bits[t] * i
    BY AsI64Facts
  <2>3. PICK j \in Int : Meant(vb) = b + 2 ^ Bits[t] * j
    BY AsI64Facts
  <2>4. 2 ^ Bits[t] \in Nat
    BY WidthFacts
  <2>5. a = b + 2 ^ Bits[t] * (j - i) /\ j - i \in Int
    <3> DEFINE m == 2 ^ Bits[t]
               x == Meant(va)
    <3>1. x = a + m * i /\ x = b + m * j /\ m \in Nat
      BY <2>1, <2>2, <2>3, <2>4
    <3> HIDE DEF m, x
    <3>2. a = b + m * (j - i)
      BY <1>1, <3>1
    <3> QED
      BY <3>2 DEF m
  <2> QED
    BY <2>5, OneOfEachClass
<1> HIDE DEF va, vb, r
<1>7. \A P \in BOOLEAN : /\ Bool(P).t = "BOOL" /\ (Bool(P).n = 1) = P
                         /\ ~IsFault(Bool(P)) /\ InType(Bool(P))
  BY DEF Bool, Num, IsFault, InType, IntTypes, SignedTypes, UnsignedTypes
<1>8. CASE op = "EQ"
  <2>1. r = Bool(a = b)
    BY <1>1, <1>3, <1>5, <1>6, <1>8 DEF ComparisonResult, EqVal
  <2>2. ~IsFault(r) /\ InType(r) /\ (r.n = 1) = (a = b)
    BY <1>7, <2>1
  <2>3. Exact(op, va, vb, r)
    BY <1>2, <1>8, <2>2 DEF Exact
  <2> QED
    BY <1>4, <2>2, <2>3 DEF Right
<1>9. CASE op = "NEQ"
  <2>1. r = Bool(~(a = b))
    BY <1>1, <1>3, <1>5, <1>6, <1>9 DEF ComparisonResult, EqVal
  <2>2. ~IsFault(r) /\ InType(r) /\ (r.n = 1) = (~(a = b))
    BY <1>7, <2>1
  <2>3. Exact(op, va, vb, r)
    BY <1>2, <1>9, <2>2 DEF Exact
  <2> QED
    BY <1>4, <2>2, <2>3 DEF Right
<1>10. CASE op \notin {"EQ", "NEQ"}
  <2> DEFINE P == Compare(op, a, b)
  <2>0. op \in {"LT", "LTE", "GT", "GTE"} /\ Meant(va) = a /\ Meant(vb) = b
    BY <1>2, <1>4, <1>10 DEF SignedReads, Meant, va, vb
  <2>1. r = Bool(P)
    BY <1>1, <1>3, <1>5, <1>10, <2>0 DEF ComparisonResult, NumericCmp
  <2>2. P \in BOOLEAN
    <3>1. op \in {"LT", "LTE", "GT", "GTE"}
      BY <2>0
    <3>2. CASE op = "LT"
      BY <1>1, <3>2 DEF Compare
    <3>3. CASE op = "LTE"
      BY <1>1, <3>3 DEF Compare
    <3>4. CASE op = "GT"
      BY <1>1, <3>4 DEF Compare
    <3>5. CASE op = "GTE"
      BY <1>1, <3>5 DEF Compare
    <3> QED
      BY <3>1, <3>2, <3>3, <3>4, <3>5
  <2>3. ~IsFault(r) /\ InType(r) /\ (r.n = 1) = P
    BY <1>7, <2>1, <2>2
  <2> HIDE DEF P
  <2>4. Exact(op, va, vb, r)
    BY <1>2, <2>0, <2>3 DEF Exact, P
  <2> QED
    BY <1>4, <2>3, <2>4 DEF Right
<1> QED
  BY <1>8, <1>9, <1>10

-------------------------------------------------------------------------------
(* Sums over sets of bits.                                                   *)
\* The equation of the sum of 2^x over a set, as the fold in FromBits computes it.
IsFold(f, S) ==
  f = [s \in SUBSET S |-> IF s = {} THEN 0
                          ELSE LET x == CHOOSE x \in s : TRUE IN 2 ^ x + f[s \ {x}]]

\* A sum of W over the subsets of S, whatever the order.
IsSum(f, W, S) ==
  /\ f \in [SUBSET S -> Nat]
  /\ f[{}] = 0
  /\ \A s \in SUBSET S : \A e \in s : f[s] = W[e] + f[s \ {e}]

\* What holds of every finite set if it holds of one more element whenever it holds:
\* a set of least size for which it does not.
LEMMA SmallestSet ==
  ASSUME NEW B, B # {}, \A S \in B : IsFiniteSet(S)
  PROVE  \E S \in B : \A T \in B : Cardinality(S) <= Cardinality(T)
<1> DEFINE Sizes == {Cardinality(S) : S \in B}
<1>1. Sizes \in SUBSET Nat /\ Sizes # {}
  BY FS_CardinalityType
<1>2. PICK n \in Sizes : \A k \in Sizes : n <= k
  BY <1>1, LeastElement
<1> QED
  BY <1>2

\* Every function on a finite set has a sum.
LEMMA SumExists ==
  ASSUME NEW U, IsFiniteSet(U), NEW W \in [U -> Nat]
  PROVE  \E f : IsSum(f, W, U)
<1> DEFINE B == {S \in SUBSET U : ~ \E f : IsSum(f, W, S)}
<1>1. SUFFICES ASSUME B # {} PROVE FALSE
  OBVIOUS
<1>2. \A S \in B : IsFiniteSet(S)
  BY FS_Subset
<1>3. PICK S \in B : \A T \in B : Cardinality(S) <= Cardinality(T)
  BY <1>1, <1>2, SmallestSet
<1>4. S # {}
  <2>1. IsSum([s \in SUBSET {} |-> 0], W, {})
    BY DEF IsSum
  <2> QED
    BY <1>3, <2>1
<1>5. PICK z \in S : TRUE
  BY <1>4
<1> DEFINE T == S \ {z}
<1>6. T \in SUBSET U /\ T \notin B
  <2>1. IsFiniteSet(S) /\ Cardinality(T) = Cardinality(S) - 1 /\ Cardinality(S) \in Nat
    BY <1>2, <1>3, <1>5, FS_RemoveElement, FS_CardinalityType
  <2> QED
    BY <1>3, <2>1
<1>7. PICK g : IsSum(g, W, T)
  BY <1>6
<1> DEFINE f == [s \in SUBSET S |-> (IF z \in s THEN W[z] ELSE 0) + g[s \ {z}]]
<1>8. g \in [SUBSET T -> Nat] /\ g[{}] = 0 /\ W[z] \in Nat /\ S \subseteq U
  BY <1>7 DEF IsSum
<1>9. f \in [SUBSET S -> Nat] /\ f[{}] = 0
  <2>1. \A s \in SUBSET S : s \ {z} \in SUBSET T
    OBVIOUS
  <2>2. \A s \in SUBSET S : g[s \ {z}] \in Nat
    BY <1>8, <2>1
  <2>3. {} \ {z} = {} /\ z \notin {}
    OBVIOUS
  <2> QED
    BY <1>8, <2>2, <2>3
<1>10. ASSUME NEW s \in SUBSET S, NEW e \in s PROVE f[s] = W[e] + f[s \ {e}]
  <2>1. s \ {e} \in SUBSET S /\ s \ {z} \in SUBSET T /\ W[e] \in Nat
    BY <1>8
  <2>2. f[s] = (IF z \in s THEN W[z] ELSE 0) + g[s \ {z}]
    OBVIOUS
  <2>3. f[s \ {e}] = (IF z \in s \ {e} THEN W[z] ELSE 0) + g[(s \ {e}) \ {z}]
    BY <2>1
  <2> HIDE DEF f, T
  <2>4. CASE e = z
    <3>1. (s \ {e}) \ {z} = s \ {z} /\ z \in s /\ z \notin s \ {e}
      BY <2>4
    <3>2. g[s \ {z}] \in Nat
      BY <1>8, <2>1
    <3>3. f[s] = W[z] + g[s \ {z}] /\ f[s \ {e}] = 0 + g[s \ {z}]
      BY <2>2, <2>3, <3>1
    <3>4. f[s \ {e}] = g[s \ {z}]
      BY <3>2, <3>3
    <3> QED
      BY <2>4, <3>3, <3>4
  <2>5. CASE e # z
    <3>1. e \in s \ {z} /\ (s \ {e}) \ {z} = (s \ {z}) \ {e} /\ (z \in s <=> z \in s \ {e})
      BY <2>5
    <3>2. g[s \ {z}] = W[e] + g[(s \ {z}) \ {e}]
      BY <1>7, <2>1, <3>1 DEF IsSum
    <3>3. (s \ {z}) \ {e} \in SUBSET T
      BY DEF T
    <3>4. g[(s \ {z}) \ {e}] \in Nat
      BY <1>8, <3>3
    <3> DEFINE c == IF z \in s THEN W[z] ELSE 0
               r == g[(s \ {z}) \ {e}]
    <3>5. c \in Nat /\ f[s] = c + (W[e] + r) /\ f[s \ {e}] = c + r
      BY <1>8, <2>2, <2>3, <3>1, <3>2
    <3> HIDE DEF c, r
    <3>6. r \in Nat
      BY <3>4 DEF r
    <3> QED
      BY <2>1, <3>5, <3>6
  <2> QED
    BY <2>4, <2>5
<1>11. IsSum(f, W, S)
  BY <1>9, <1>10 DEF IsSum
<1> QED
  BY <1>3, <1>11

\* The bit numbers of the widest type, and the powers of two.
Places == 0 .. Widest - 1
Powers == [i \in Places |-> 2 ^ i]

\* There are finitely many places, and at least one.
LEMMA PlacesFacts == IsFiniteSet(Places) /\ Powers \in [Places -> Nat] /\ Widest \in Nat \ {0}
<1>1. Widest \in Nat \ {0}
  BY BitsAssumption DEF Widest, IntTypes, SignedTypes
<1>2. \A i \in Places : 2 ^ i \in Nat
  BY <1>1, PowersPositive DEF Places
<1> QED
  BY <1>1, <1>2, FS_Interval DEF Places, Powers

\* g adds W over the subsets of S in some order.
AddsUp(g, W, S) ==
  /\ g[{}] = 0
  /\ \A s \in SUBSET S : s # {} => \E x \in s : g[s] = W[x] + g[s \ {x}]

\* Any order gives the sum.
LEMMA SumInAnyOrder ==
  ASSUME NEW U, IsFiniteSet(U), NEW W, NEW f, IsSum(f, W, U), NEW S \in SUBSET U,
         NEW g, AddsUp(g, W, S)
  PROVE  g[S] = f[S]
<1> DEFINE B == {s \in SUBSET S : g[s] # f[s]}
<1>1. SUFFICES ASSUME B # {} PROVE FALSE
  OBVIOUS
<1>2. \A s \in B : IsFiniteSet(s)
  BY FS_Subset
<1>3. PICK s \in B : \A t \in B : Cardinality(s) <= Cardinality(t)
  BY <1>1, <1>2, SmallestSet
<1>4. s # {}
  BY <1>3 DEF IsSum, AddsUp
<1>5. PICK x \in s : g[s] = W[x] + g[s \ {x}]
  BY <1>3, <1>4 DEF AddsUp
<1>6. f[s] = W[x] + f[s \ {x}]
  BY <1>3, <1>5 DEF IsSum
<1>7. s \ {x} \in SUBSET S /\ s \ {x} \notin B
  <2>1. Cardinality(s \ {x}) = Cardinality(s) - 1 /\ Cardinality(s) \in Nat
    BY <1>2, <1>3, <1>5, FS_RemoveElement, FS_CardinalityType
  <2> QED
    BY <1>3, <2>1
<1> QED
  BY <1>3, <1>5, <1>6, <1>7

\* So does the fold of the powers of two.
LEMMA FoldIsSum ==
  ASSUME NEW f, IsSum(f, Powers, Places), NEW S \in SUBSET Places, NEW g, IsFold(g, S)
  PROVE  g[S] = f[S]
<1>1. g[{}] = 0
  BY DEF IsFold
<1>2. ASSUME NEW s \in SUBSET S, s # {}
      PROVE  \E x \in s : g[s] = Powers[x] + g[s \ {x}]
  <2> DEFINE x == CHOOSE x \in s : TRUE
  <2>1. x \in s /\ x \in Places
    BY <1>2
  <2>2. g[s] = 2 ^ x + g[s \ {x}]
    BY <1>2 DEF IsFold
  <2> QED
    BY <2>1, <2>2 DEF Powers
<1>3. AddsUp(g, Powers, S)
  BY <1>1, <1>2 DEF AddsUp
<1>4. IsFiniteSet(Places)
  BY PlacesFacts
<1> QED
  BY <1>3, <1>4, SumInAnyOrder

\* The number made of a set of bits is the sum of their powers of two.
LEMMA FromBitsIsSum ==
  \E f : IsSum(f, Powers, Places) /\ \A S \in SUBSET Places : FromBits(S) = f[S]
<1>1. PICK f : IsSum(f, Powers, Places)
  BY PlacesFacts, SumExists
<1>2. ASSUME NEW S \in SUBSET Places PROVE FromBits(S) = f[S]
  <2> DEFINE iter == CHOOSE g : IsFold(g, S)
  <2>1. FromBits(S) = iter[S]
    BY DEF FromBits, MapThenSumSet, MapThenFoldSet, IsFold
  <2> DEFINE h == [s \in SUBSET S |-> f[s]]
  <2>2. IsFold(h, S)
    <3>1. ASSUME NEW s \in SUBSET S
          PROVE  h[s] = IF s = {} THEN 0
                        ELSE LET x == CHOOSE x \in s : TRUE IN 2 ^ x + h[s \ {x}]
      <4>1. CASE s = {}
        BY <1>1, <4>1 DEF IsSum
      <4>2. CASE s # {}
        <5> DEFINE x == CHOOSE x \in s : TRUE
        <5>1. x \in s /\ x \in Places /\ s \in SUBSET Places
          BY <4>2
        <5>2. f[s] = Powers[x] + f[s \ {x}]
          BY <1>1, <5>1 DEF IsSum
        <5>3. Powers[x] = 2 ^ x
          BY <5>1 DEF Powers
        <5>4. h[s] = f[s] /\ h[s \ {x}] = f[s \ {x}]
          OBVIOUS
        <5> QED
          BY <4>2, <5>2, <5>3, <5>4
      <4> QED
        BY <4>1, <4>2
    <3> HIDE DEF h
    <3>2. h = [s \in SUBSET S |-> h[s]]
      BY DEF h
    <3> QED
      BY <3>1, <3>2 DEF IsFold
  <2>3. IsFold(iter, S)
    BY <2>2
  <2> QED
    BY <1>1, <2>1, <2>3, FoldIsSum
<1> QED
  BY <1>1, <1>2

\* One bit more adds its power of two; two sets without a bit in common add up.
LEMMA FromBitsAdds ==
  /\ FromBits({}) = 0
  /\ \A S \in SUBSET Places : FromBits(S) \in Nat
  /\ \A S \in SUBSET Places : \A e \in S : FromBits(S) = 2 ^ e + FromBits(S \ {e})
<1>1. PICK f : IsSum(f, Powers, Places) /\ \A S \in SUBSET Places : FromBits(S) = f[S]
  BY FromBitsIsSum
<1>2. ASSUME NEW S \in SUBSET Places, NEW e \in S PROVE FromBits(S) = 2 ^ e + FromBits(S \ {e})
  <2>1. f[S] = Powers[e] + f[S \ {e}] /\ Powers[e] = 2 ^ e /\ S \ {e} \in SUBSET Places
    BY <1>1 DEF IsSum, Powers
  <2> QED
    BY <1>1, <2>1
<1> QED
  BY <1>1, <1>2 DEF IsSum

\* Two sets of bits that share none make the sum of their numbers.
LEMMA FromDisjointBits ==
  ASSUME NEW S \in SUBSET Places, NEW T \in SUBSET Places, S \cap T = {}
  PROVE  FromBits(S \cup T) = FromBits(S) + FromBits(T)
<1> DEFINE B == {t \in SUBSET T : FromBits(S \cup t) # FromBits(S) + FromBits(t)}
<1>1. SUFFICES ASSUME B # {} PROVE FALSE
  OBVIOUS
<1>2. \A t \in B : IsFiniteSet(t)
  BY PlacesFacts, FS_Subset
<1>3. PICK t \in B : \A u \in B : Cardinality(t) <= Cardinality(u)
  BY <1>1, <1>2, SmallestSet
<1>4. t # {}
  <2>1. S \cup {} = S
    OBVIOUS
  <2>2. FromBits(S) \in Nat
    BY FromBitsAdds
  <2> QED
    BY <1>3, <2>1, <2>2, FromBitsAdds
<1>5. PICK e \in t : TRUE
  BY <1>4
<1>6. t \ {e} \in SUBSET T /\ t \ {e} \notin B
  <2>1. Cardinality(t \ {e}) = Cardinality(t) - 1 /\ Cardinality(t) \in Nat
    BY <1>2, <1>3, <1>5, FS_RemoveElement, FS_CardinalityType
  <2> QED
    BY <1>3, <2>1
<1>7. FromBits(S \cup (t \ {e})) = FromBits(S) + FromBits(t \ {e})
  BY <1>6
<1>8. (S \cup t) \ {e} = S \cup (t \ {e}) /\ S \cup t \in SUBSET Places /\ t \in SUBSET Places
      /\ e \in Places /\ t \ {e} \in SUBSET Places
  BY <1>3, <1>5
<1>9. FromBits(S \cup t) = 2 ^ e + FromBits((S \cup t) \ {e})
  BY <1>5, <1>8, FromBitsAdds
<1>10. FromBits(t) = 2 ^ e + FromBits(t \ {e})
  BY <1>5, <1>8, FromBitsAdds
<1>11. 2 ^ e \in Nat /\ FromBits(S) \in Nat /\ FromBits(t \ {e}) \in Nat
  BY <1>8, FromBitsAdds, PlacesFacts, PowersPositive DEF Places
<1> HIDE DEF B
<1> QED
  BY <1>3, <1>7, <1>8, <1>9, <1>10, <1>11 DEF B

\* Quotient and remainder are what they are.
LEMMA DivModUnique ==
  ASSUME NEW n \in Int, NEW m \in Nat \ {0}, NEW q \in Int, NEW r \in 0 .. m - 1, n = m * q + r
  PROVE  n % m = r /\ n \div m = q
<1> DEFINE p == n \div m
           s == n % m
<1>1. s \in 0 .. m - 1 /\ p \in Int /\ n = m * p + s
  BY DivMod
<1> HIDE DEF p, s
<1>2. m * (p - q) = r - s
  BY <1>1
<1>3. ~(p - q >= 1)
  <2>1. ASSUME p - q >= 1 PROVE FALSE
    <3>1. m * (p - q) = m + m * (p - q - 1) /\ m * (p - q - 1) >= 0
      BY <1>1, <2>1
    <3> QED
      BY <1>1, <1>2, <3>1
  <2> QED
    BY <2>1
<1>4. ~(p - q <= -1)
  <2>1. ASSUME p - q <= -1 PROVE FALSE
    <3>1. m * (p - q) = -m - m * (q - p - 1) /\ m * (q - p - 1) >= 0
      BY <1>1, <2>1
    <3> QED
      BY <1>1, <1>2, <3>1
  <2> QED
    BY <2>1
<1>5. p = q
  BY <1>1, <1>3, <1>4
<1>6. s = r
  BY <1>1, <1>2, <1>5
<1> QED
  BY <1>5, <1>6 DEF p, s

\* A multiple of a greater power of two does not change a bit.
LEMMA HighPowersKeepBits ==
  ASSUME NEW w \in 0 .. Widest, NEW i \in 0 .. w - 1, NEW x \in Int, NEW b \in Int
  PROVE  ((x + b * 2 ^ w) \div 2 ^ i) % 2 = (x \div 2 ^ i) % 2
<1>1. i \in Nat /\ i + 1 \in 0 .. w /\ i \in 0 .. Widest - 1 /\ i \in 0 .. Widest
  BY PlacesFacts
<1>2. PICK c \in Nat \ {0} : 2 ^ w = c * 2 ^ (i + 1)
  BY <1>1, PowersDivide
<1>3. 2 ^ (i + 1) = 2 * 2 ^ i
  BY <1>1, PowersAssumption DEF Widest
<1> DEFINE p == 2 ^ i
           q == x \div p
           r == x % p
<1>4. p \in Nat \ {0}
  BY <1>1, PowersPositive
<1> HIDE DEF p
<1>5. r \in 0 .. p - 1 /\ q \in Int /\ x = p * q + r
  BY <1>4, DivMod
<1> HIDE DEF q, r
<1>6. b * 2 ^ w = p * (2 * (b * c))
  <2>1. 2 ^ w = c * (2 * p)
    BY <1>2, <1>3 DEF p
  <2> HIDE DEF p
  <2>2. b * (c * (2 * p)) = p * (2 * (b * c))
    BY <1>4
  <2> QED
    BY <2>1, <2>2
<1> DEFINE k == b * c
<1>7. k \in Int
  OBVIOUS
<1> HIDE DEF k
<1>8. x + b * 2 ^ w = p * (q + 2 * k) + r
  <2>1. b * 2 ^ w = p * (2 * k)
    BY <1>6 DEF k
  <2>2. p * (q + 2 * k) = p * q + p * (2 * k)
    BY <1>4, <1>5, <1>7
  <2>3. p * q \in Int /\ p * (2 * k) \in Int
    BY <1>4, <1>5, <1>7
  <2> QED
    BY <1>5, <2>1, <2>2, <2>3
<1>9. (x + b * 2 ^ w) \div p = q + 2 * k
  <2>1. q + 2 * k \in Int /\ x + b * 2 ^ w \in Int
    <3>1. p * (q + 2 * k) \in Int
      BY <1>4, <1>5, <1>7
    <3> QED
      BY <1>4, <1>5, <1>7, <1>8, <3>1
  <2> QED
    BY <1>4, <1>5, <1>8, <2>1, DivModUnique
<1>10. (q + 2 * k) % 2 = q % 2
  BY <1>5, <1>7
<1> QED
  BY <1>9, <1>10 DEF p, q

\* One bit more of a number.
LEMMA NextBit ==
  ASSUME NEW w \in 0 .. Widest - 1, NEW n \in Int
  PROVE  \E b \in {0, 1} : /\ n % 2 ^ (w + 1) = (n % 2 ^ w) + b * 2 ^ w
                           /\ BitsOf(n, w + 1) = BitsOf(n, w) \cup {i \in {w} : b = 1}
<1> DEFINE m == 2 ^ w
           r == n % 2 ^ (w + 1)
           q == n \div 2 ^ (w + 1)
           x == n % m
           b == IF r < m THEN 0 ELSE 1
<1>1. w \in Nat /\ w \in 0 .. Widest /\ m \in Nat \ {0} /\ 2 ^ (w + 1) = 2 * m
  BY PlacesFacts, PowersPositive, PowersAssumption DEF Widest
<1> HIDE DEF m
<1>2. r \in 0 .. 2 * m - 1 /\ q \in Int /\ n = (2 * m) * q + r
  <2> DEFINE d == 2 ^ (w + 1)
  <2>1. d \in Nat \ {0} /\ d = 2 * m /\ r = n % d /\ q = n \div d
    BY <1>1
  <2> HIDE DEF d, q, r
  <2>2. r \in 0 .. d - 1 /\ q \in Int /\ n = d * q + r
    BY <2>1, DivMod
  <2> QED
    BY <2>1, <2>2
<1> HIDE DEF q, r
<1>3. x = r - b * m /\ r = x + b * m /\ r \div m = b /\ x \in 0 .. m - 1
  <2>1. CASE r < m
    <3>1. n = m * (2 * q) + r /\ 2 * q \in Int /\ r \in 0 .. m - 1
      BY <1>1, <1>2, <2>1
    <3>2. x = r
      BY <1>1, <3>1, DivModUnique
    <3>3. r = m * 0 + r /\ 0 \in Int /\ r \in Int
      BY <1>1, <3>1
    <3>4. r \div m = 0
      BY <1>1, <3>1, <3>3, DivModUnique
    <3>5. b = 0 /\ 0 * m = 0 /\ r \in Int
      BY <1>1, <1>2, <2>1
    <3> HIDE DEF x, b
    <3> QED
      BY <3>1, <3>2, <3>4, <3>5
  <2>2. CASE ~(r < m)
    <3>0. m * (2 * q + 1) = (2 * m) * q + m
      BY <1>1, <1>2
    <3>1. n = m * (2 * q + 1) + (r - m) /\ 2 * q + 1 \in Int /\ r - m \in 0 .. m - 1
      <4>1. (2 * m) * q \in Int
        BY <1>1, <1>2
      <4> QED
        BY <1>1, <1>2, <2>2, <3>0, <4>1
    <3>2. x = r - m
      BY <1>1, <3>1, DivModUnique
    <3>3. r = m * 1 + (r - m) /\ 1 \in Int /\ r \in Int
      BY <1>1, <1>2, <3>1
    <3> DEFINE e == r - m
    <3>6. e \in 0 .. m - 1 /\ r = m * 1 + e
      BY <3>1, <3>3
    <3> HIDE DEF e
    <3>4. r \div m = 1
      BY <1>1, <3>3, <3>6, DivModUnique
    <3>5. b = 1 /\ 1 * m = m /\ r \in Int
      BY <1>1, <1>2, <2>2
    <3> HIDE DEF x, b
    <3> QED
      BY <1>1, <3>1, <3>2, <3>4, <3>5
  <2> QED
    BY <2>1, <2>2
<1>4. b \in {0, 1}
  OBVIOUS
<1>5. BitsOf(n, w + 1) = {i \in 0 .. w : (r \div 2 ^ i) % 2 = 1}
  BY <1>1 DEF BitsOf, r
<1>6. BitsOf(n, w) = {i \in 0 .. w - 1 : (x \div 2 ^ i) % 2 = 1}
  BY DEF BitsOf, m
<1> HIDE DEF b, x
<1>7. ASSUME NEW i \in 0 .. w - 1 PROVE (r \div 2 ^ i) % 2 = (x \div 2 ^ i) % 2
  <2>1. r = x + b * 2 ^ w /\ x \in Int /\ b \in Int
    BY <1>1, <1>3, <1>4 DEF m
  <2>2. ((x + b * 2 ^ w) \div 2 ^ i) % 2 = (x \div 2 ^ i) % 2
    BY <1>1, <2>1, HighPowersKeepBits
  <2> QED
    BY <2>1, <2>2
<1>8. (r \div 2 ^ w) % 2 = b
  <2>1. r \div 2 ^ w = b
    BY <1>3 DEF m
  <2>2. b % 2 = b
    BY <1>4
  <2> QED
    BY <2>1, <2>2
<1>9. 0 .. w = (0 .. w - 1) \cup {w}
  BY <1>1
<1>10. BitsOf(n, w + 1) = BitsOf(n, w) \cup {i \in {w} : b = 1}
  BY <1>1, <1>5, <1>6, <1>7, <1>8, <1>9
<1> QED
  BY <1>3, <1>4, <1>10 DEF r, x, m

\* The bits of a number are its bits below the width,
LEMMA BitsArePlaces ==
  ASSUME NEW w \in 0 .. Widest, NEW n
  PROVE  BitsOf(n, w) \subseteq 0 .. w - 1 /\ 0 .. w - 1 \subseteq Places
BY PlacesFacts DEF BitsOf, Places

\* and the sum of their powers is the number, modulo the width.
LEMMA BitsMakeTheNumber ==
  ASSUME NEW n \in Int, NEW w \in 0 .. Widest
  PROVE  FromBits(BitsOf(n, w)) = n % 2 ^ w
<1> DEFINE B == {k \in 0 .. Widest : FromBits(BitsOf(n, k)) # n % 2 ^ k}
<1>1. SUFFICES ASSUME B # {} PROVE FALSE
  OBVIOUS
<1>2. B \in SUBSET Nat
  BY PlacesFacts
<1>3. PICK k \in B : \A j \in B : k <= j
  BY <1>1, <1>2, LeastElement
<1>4. k # 0
  <2>1. n % 2 ^ 0 = 0
    BY PowersAssumption
  <2>2. BitsOf(n, 0) = {}
    BY DEF BitsOf
  <2> QED
    BY <1>3, <2>1, <2>2, FromBitsAdds
<1> DEFINE v == k - 1
<1>5. v \in 0 .. Widest - 1 /\ v \in 0 .. Widest /\ v + 1 = k /\ v \notin B /\ k \in 0 .. Widest
  BY <1>2, <1>3, <1>4, PlacesFacts
<1> HIDE DEF v
<1>6. FromBits(BitsOf(n, v)) = n % 2 ^ v
  BY <1>5
<1>7. PICK b \in {0, 1} : /\ n % 2 ^ (v + 1) = (n % 2 ^ v) + b * 2 ^ v
                          /\ BitsOf(n, v + 1) = BitsOf(n, v) \cup {i \in {v} : b = 1}
  BY <1>5, NextBit
<1>8. BitsOf(n, k) \in SUBSET Places /\ 2 ^ v \in Nat \ {0} /\ n % 2 ^ v \in Nat
      /\ v \notin BitsOf(n, v)
  <2>1. 2 ^ v \in Nat \ {0}
    BY <1>5, PowersPositive
  <2> DEFINE d == 2 ^ v
  <2> HIDE DEF d
  <2>3. d \in Nat \ {0} => n % d \in Nat
    BY DivMod
  <2>2. n % 2 ^ v \in Nat
    BY <2>1, <2>3 DEF d
  <2> QED
    BY <1>5, <2>1, <2>2, BitsArePlaces
<1>9. CASE b = 0
  <2>0. {i \in {v} : b = 1} = {}
    BY <1>9
  <2>1. BitsOf(n, k) = BitsOf(n, v)
    BY <1>5, <1>7, <2>0
  <2>2. n % 2 ^ k = n % 2 ^ v
    BY <1>5, <1>7, <1>8, <1>9
  <2> QED
    BY <1>3, <1>6, <2>1, <2>2
<1>10. CASE b = 1
  <2>0. {i \in {v} : b = 1} = {v}
    BY <1>10
  <2>1. BitsOf(n, k) = BitsOf(n, v) \cup {v}
    BY <1>5, <1>7, <2>0
  <2>2. v \in BitsOf(n, k) /\ BitsOf(n, k) \ {v} = BitsOf(n, v)
    BY <1>8, <2>1
  <2>3. FromBits(BitsOf(n, k)) = 2 ^ v + FromBits(BitsOf(n, v))
    BY <1>8, <2>2, FromBitsAdds
  <2>4. n % 2 ^ k = (n % 2 ^ v) + 2 ^ v
    BY <1>5, <1>7, <1>8, <1>10
  <2> QED
    BY <1>3, <1>6, <1>8, <2>3, <2>4
<1> QED
  BY <1>7, <1>9, <1>10

\* A set of bits is a number, and the set of its bits.
LEMMA NumberHasItsBits ==
  ASSUME NEW w \in 0 .. Widest, NEW S \in SUBSET (0 .. w - 1)
  PROVE  FromBits(S) \in 0 .. 2 ^ w - 1 /\ BitsOf(FromBits(S), w) = S
<1> DEFINE Good(k) == \A T \in SUBSET (0 .. k - 1) :
                         FromBits(T) \in 0 .. 2 ^ k - 1 /\ BitsOf(FromBits(T), k) = T
           B == {k \in 0 .. Widest : ~Good(k)}
<1>1. SUFFICES ASSUME B # {} PROVE FALSE
  OBVIOUS
<1>2. B \in SUBSET Nat
  BY PlacesFacts
<1>3. PICK k \in B : \A j \in B : k <= j
  BY <1>1, <1>2, LeastElement
<1>4. k # 0
  <2>1. ASSUME NEW T \in SUBSET (0 .. 0 - 1)
        PROVE  FromBits(T) \in 0 .. 2 ^ 0 - 1 /\ BitsOf(FromBits(T), 0) = T
    <3>1. T = {}
      OBVIOUS
    <3>2. BitsOf(FromBits(T), 0) = {}
      BY DEF BitsOf
    <3> QED
      BY <3>1, <3>2, FromBitsAdds, PowersAssumption
  <2> QED
    BY <1>3, <2>1
<1> DEFINE v == k - 1
<1>5. v \in 0 .. Widest - 1 /\ v \in 0 .. Widest /\ v + 1 = k /\ v \notin B /\ k \in 0 .. Widest
  BY <1>2, <1>3, <1>4, PlacesFacts
<1> HIDE DEF v
<1>6. Good(v)
  BY <1>5
<1>7. ASSUME NEW T \in SUBSET (0 .. k - 1)
      PROVE  FromBits(T) \in 0 .. 2 ^ k - 1 /\ BitsOf(FromBits(T), k) = T
  <2> DEFINE R == T \ {v}
             m == 2 ^ v
             x == FromBits(R)
             n == FromBits(T)
             b == IF v \in T THEN 1 ELSE 0
  <2>1. R \in SUBSET (0 .. v - 1) /\ T \in SUBSET Places
    BY <1>2, <1>3, <1>5, PlacesFacts DEF Places
  <2>2. x \in 0 .. m - 1 /\ BitsOf(x, v) = R
    BY <1>6, <2>1
  <2>3. m \in Nat \ {0} /\ 2 ^ k = 2 * m
    BY <1>5, PowersPositive, PowersAssumption DEF Widest
  <2>4. n = b * m + x
    <3>1. CASE v \in T
      <4>1. n = m + x
        BY <2>1, <3>1, FromBitsAdds
      <4>2. b = 1
        BY <3>1
      <4> HIDE DEF b, n, m, x
      <4> QED
        BY <2>2, <2>3, <4>1, <4>2
    <3>2. CASE v \notin T
      <4>1. n = x
        <5>1. R = T
          BY <3>2
        <5> HIDE DEF R
        <5> QED
          BY <5>1
      <4>2. b = 0
        BY <3>2
      <4> HIDE DEF b, n, m, x
      <4> QED
        BY <2>2, <2>3, <4>1, <4>2
    <3> QED
      BY <3>1, <3>2
  <2>5. b \in {0, 1} /\ (b = 1 <=> v \in T)
    OBVIOUS
  <2> HIDE DEF n, x, b, m, R
  <2>6. n \in 0 .. 2 ^ k - 1 /\ n \in Int
    BY <2>2, <2>3, <2>4, <2>5
  <2>7. n % m = x
    <3>1. n = m * b + x
      BY <2>2, <2>3, <2>4, <2>5
    <3> QED
      BY <2>2, <2>3, <2>5, <2>6, <3>1, DivModUnique, SMTT(30)
  <2>8. PICK c \in {0, 1} : /\ n % 2 ^ (v + 1) = (n % 2 ^ v) + c * 2 ^ v
                            /\ BitsOf(n, v + 1) = BitsOf(n, v) \cup {i \in {v} : c = 1}
    BY <1>5, <2>6, NextBit
  <2>9. n % 2 ^ k = n
    <3>1. n = 2 ^ k * 0 + n
      BY <2>3, <2>6
    <3> QED
      BY <2>3, <2>6, <3>1, DivModUnique
  <2>10. c = b
    <3>1. n = x + c * m
      BY <1>5, <2>7, <2>8, <2>9 DEF m
    <3> QED
      BY <2>2, <2>3, <2>4, <2>5, <3>1
  <2>11. BitsOf(n, v) = R
    <3>1. x % m = x
      <4>1. x = m * 0 + x /\ x \in Int
        BY <2>2, <2>3
      <4> QED
        BY <2>2, <2>3, <4>1, DivModUnique
    <3>2. n % 2 ^ v = x % 2 ^ v
      BY <2>7, <3>1 DEF m
    <3>3. BitsOf(n, v) = BitsOf(x, v)
      BY <3>2 DEF BitsOf
    <3> QED
      BY <2>2, <3>3
  <2>12. R \cup {i \in {v} : b = 1} = T
    BY <2>5 DEF R
  <2> QED
    BY <1>5, <2>6, <2>8, <2>10, <2>11, <2>12 DEF n
<1> QED
  BY <1>3, <1>7

\* What the sets of bits of two numbers add up to.
LEMMA BitSums ==
  ASSUME NEW S \in SUBSET Places, NEW T \in SUBSET Places
  PROVE  /\ FromBits((S \cup T) \ (S \cap T)) + 2 * FromBits(S \cap T) = FromBits(S) + FromBits(T)
         /\ FromBits(S \cup T) + FromBits(S \cap T) = FromBits(S) + FromBits(T)
<1> DEFINE A == S \ T
           B == T \ S
           C == S \cap T
<1>1. /\ A \in SUBSET Places /\ B \in SUBSET Places /\ C \in SUBSET Places
      /\ A \cup B \in SUBSET Places
  OBVIOUS
<1>2. A \cap B = {} /\ A \cap C = {} /\ B \cap C = {} /\ (A \cup B) \cap C = {}
  OBVIOUS
<1>3. /\ (S \cup T) \ (S \cap T) = A \cup B /\ S \cup T = (A \cup B) \cup C
      /\ S = A \cup C /\ T = B \cup C
  OBVIOUS
<1> HIDE DEF A, B, C
<1>4. FromBits(A \cup B) = FromBits(A) + FromBits(B)
  BY <1>1, <1>2, FromDisjointBits
<1>5. FromBits((A \cup B) \cup C) = FromBits(A \cup B) + FromBits(C)
  BY <1>1, <1>2, FromDisjointBits
<1>6. /\ FromBits(A \cup C) = FromBits(A) + FromBits(C)
      /\ FromBits(B \cup C) = FromBits(B) + FromBits(C)
  BY <1>1, <1>2, FromDisjointBits
<1>7. FromBits(A) \in Nat /\ FromBits(B) \in Nat /\ FromBits(C) \in Nat
  BY <1>1, FromBitsAdds
<1>8. S \cap T = C
  BY DEF C
<1> DEFINE a == FromBits(A)
           b == FromBits(B)
           c == FromBits(C)
<1>9. /\ FromBits((S \cup T) \ (S \cap T)) = a + b /\ FromBits(S \cap T) = c
      /\ FromBits(S \cup T) = (a + b) + c
      /\ FromBits(S) = a + c /\ FromBits(T) = b + c
  BY <1>3, <1>4, <1>5, <1>6, <1>8
<1>10. a \in Nat /\ b \in Nat /\ c \in Nat
  BY <1>7
<1> HIDE DEF a, b, c
<1> QED
  BY <1>9, <1>10

\* Cutting a number to its type keeps its bits.
LEMMA WrapKeepsBits ==
  ASSUME NEW t \in IntTypes, NEW n \in Int
  PROVE  BitsOf(Wrap(t, n), Bits[t]) = BitsOf(n, Bits[t])
<1> DEFINE m == 2 ^ Bits[t]
           r == Wrap(t, n)
           q == n \div m
           s == n % m
<1>1. m \in Nat \ {0}
  BY WidthFacts
<1>2. PICK k \in Int : r = n + m * k
  BY WrapShifts
<1> HIDE DEF m, r
<1>3. s \in 0 .. m - 1 /\ q \in Int /\ n = m * q + s
  BY <1>1, DivMod
<1> HIDE DEF q, s
<1>4. r = m * (q + k) + s /\ q + k \in Int /\ r \in Int
  <2>1. m * (q + k) = m * q + m * k /\ m * q \in Int /\ m * k \in Int
    BY <1>1, <1>3
  <2> QED
    BY <1>2, <1>3, <2>1
<1>5. r % m = s
  BY <1>1, <1>3, <1>4, DivModUnique
<1>6. r % m = n % m
  BY <1>5 DEF s
<1> QED
  BY <1>6 DEF BitsOf, m, r

\* Congruence is transitive.
LEMMA ClassesCompose ==
  ASSUME NEW m \in Int, NEW a \in Int, NEW x, NEW y, SameClass(x, y, m), SameClass(y, a, m)
  PROVE  SameClass(x, a, m)
<1>1. PICK i \in Int, j \in Int : x = y + m * i /\ y = a + m * j
  BY DEF SameClass
<1>2. (a + m * j) + m * i = a + m * (j + i) /\ j + i \in Int
  OBVIOUS
<1> QED
  BY <1>1, <1>2 DEF SameClass

\* AND, OR and XOR.
LEMMA BitwiseIsRight ==
  ASSUME NEW ins, ins.op \in BitwiseOps,
         NEW t \in IntTypes, NEW a \in Least(t) .. Greatest(t), NEW b \in Least(t) .. Greatest(t)
  PROVE  LET va == Num(t, a)
             vb == Num(t, b)
         IN  Right(ins, va, vb, Computed(ins, <<va, vb>>))
<1> DEFINE va == Num(t, a)
           vb == Num(t, b)
           w  == Bits[t]
           m  == 2 ^ w
           S  == BitsOf(a, w)
           T  == BitsOf(b, w)
           F(op) == FromBits(Bitwise(op, S, T))
           r(op) == Wrap(t, F(op))
<1> SUFFICES Right(ins, va, vb, Computed(ins, <<va, vb>>))
  OBVIOUS
<1>1. a \in Int /\ b \in Int
  BY AsI64Facts
<1>2. va.t = t /\ vb.t = t /\ va.n = a /\ vb.n = b
  BY DEF Num
<1>3. \A op : BitwiseOp(op, va, vb) = Num(t, r(op))
  BY <1>2 DEF BitwiseOp
<1>4. Computed(ins, <<va, vb>>) = Num(t, r(ins.op))
  <2>1. Computed(ins, <<va, vb>>) = BitwiseResult(ins.op, <<va, vb>>)
    BY ComputedNumbers
  <2>2. BitwiseResult(ins.op, <<va, vb>>) = BitwiseOp(ins.op, va, vb)
    BY DEF BitwiseResult, BitwiseOps
  <2> QED
    BY <1>3, <2>1, <2>2
<1>5. w \in 1 .. Widest /\ w \in 0 .. Widest /\ m \in Nat \ {0}
  BY WidthFacts, PlacesFacts
<1>6. S \in SUBSET Places /\ T \in SUBSET Places /\ S \subseteq 0 .. w - 1
  BY <1>5, BitsArePlaces
<1>7. FromBits(S) = a % m /\ FromBits(T) = b % m
  BY <1>1, <1>5, BitsMakeTheNumber
<1>8. Bitwise("AND", S, T) = S \cap T /\ Bitwise("OR", S, T) = S \cup T
      /\ Bitwise("XOR", S, T) = (S \cup T) \ (S \cap T)
  BY DEF Bitwise
<1>9. F("AND") \in Nat /\ F("OR") \in Nat /\ F("XOR") \in Nat
  <2>1. S \cap T \in SUBSET Places /\ S \cup T \in SUBSET Places
        /\ (S \cup T) \ (S \cap T) \in SUBSET Places
    BY <1>6
  <2> QED
    BY <1>8, <2>1, FromBitsAdds
<1>10. F("XOR") + 2 * F("AND") = (a % m) + (b % m) /\ F("OR") + F("AND") = (a % m) + (b % m)
  <2>1. /\ FromBits((S \cup T) \ (S \cap T)) + 2 * FromBits(S \cap T) = FromBits(S) + FromBits(T)
        /\ FromBits(S \cup T) + FromBits(S \cap T) = FromBits(S) + FromBits(T)
    BY <1>6, BitSums
  <2>2. /\ F("XOR") = FromBits((S \cup T) \ (S \cap T))
        /\ F("AND") = FromBits(S \cap T) /\ F("OR") = FromBits(S \cup T)
    BY <1>8
  <2> HIDE DEF S, T, F, m
  <2> QED
    BY <1>7, <2>1, <2>2
<1>11. BitsOf(F("AND"), w) = S \cap T
  <2>1. S \cap T \in SUBSET (0 .. w - 1)
    BY <1>6
  <2> QED
    BY <1>5, <1>8, <2>1, NumberHasItsBits
<1> HIDE DEF va, vb, m, w, S, T, F
<1>12. \A op \in BitwiseOps : F(op) \in Int
  BY <1>9 DEF BitwiseOps
<1>13. \A op \in BitwiseOps : SameClass(r(op), F(op), m) /\ r(op) \in Int
  BY <1>12, WrapShifts, WrapInRange DEF SameClass, m, w
<1>14. SameClass(a % m, a, m) /\ SameClass(b % m, b, m) /\ a % m \in Int /\ b % m \in Int
  <2>1. \A n \in Int : SameClass(n % m, n, m) /\ n % m \in Int
    <3> SUFFICES ASSUME NEW n \in Int PROVE SameClass(n % m, n, m) /\ n % m \in Int
      OBVIOUS
    <3> DEFINE q == n \div m
               s == n % m
    <3>1. s \in 0 .. m - 1 /\ q \in Int /\ n = m * q + s
      BY <1>5, DivMod
    <3> HIDE DEF q, s
    <3>2. s = n + m * (-q) /\ -q \in Int /\ s \in Int
      BY <1>5, <3>1
    <3> QED
      BY <3>2 DEF SameClass, s
  <2> QED
    BY <1>1, <2>1
<1>15. \A x, y \in Int : SameClass(x, y, m) => Congruent(x, y, t)
  BY ShiftedIsCongruent DEF SameClass, m, w
<1>16. CASE ins.op = "AND"
  <2>1. BitsOf(r("AND"), w) = S \cap T
    BY <1>11, <1>12, WrapKeepsBits DEF BitwiseOps, w
  <2>2. Exact("AND", va, vb, Num(t, r("AND")))
    BY <1>2, <2>1 DEF Exact, Num, S, T, w
  <2> QED
    BY <1>4, <1>12, <1>16, <2>2, WrappedIsInType DEF Right
<1> DEFINE x == r("XOR")
           o == r("OR")
           d == r("AND")
           X == F("XOR")
           O == F("OR")
           D == F("AND")
<1>17. /\ SameClass(x, X, m) /\ SameClass(o, O, m) /\ SameClass(d, D, m)
       /\ x \in Int /\ o \in Int /\ d \in Int /\ X \in Int /\ O \in Int /\ D \in Int
  BY <1>12, <1>13 DEF BitwiseOps
<1>18. BitwiseOp("AND", va, vb).n = d
  BY <1>3 DEF Num
<1>19. X + 2 * D = (a % m) + (b % m) /\ O + D = (a % m) + (b % m)
  BY <1>10
<1> HIDE DEF X, O, D
<1>20. SameClass((a % m) + (b % m), a + b, m) /\ m \in Int
  <2> DEFINE p == a % m
             q == b % m
  <2>1. SameClass(p, a, m) /\ SameClass(q, b, m) /\ m \in Int
    BY <1>5, <1>14
  <2> HIDE DEF p, q
  <2>2. SameClass(p + q, a + b, m)
    BY <1>1, <2>1, CongruentResults
  <2> QED
    BY <2>1, <2>2 DEF p, q
<1>21. CASE ins.op = "XOR"
  <2>1. SameClass(2, 2, m) /\ 2 \in Int
    <3>1. 2 = 2 + m * 0
      BY <1>5
    <3> QED
      BY <3>1 DEF SameClass
  <2>2. SameClass(2 * d, 2 * D, m) /\ 2 * D \in Int
    BY <1>17, <1>20, <2>1, CongruentResults
  <2>3. SameClass(x + 2 * d, X + 2 * D, m)
    BY <1>17, <1>20, <2>2, CongruentResults
  <2>4. SameClass(x + 2 * d, a + b, m)
    BY <1>1, <1>17, <1>19, <1>20, <2>3, ClassesCompose
  <2>5. x + 2 * d \in Int /\ a + b \in Int
    BY <1>1, <1>17
  <2>6. Congruent(x + 2 * d, a + b, t)
    BY <1>15, <2>4, <2>5
  <2>7. Exact("XOR", va, vb, Num(t, x))
    BY <1>2, <1>18, <2>6 DEF Exact, Num
  <2> QED
    BY <1>4, <1>12, <1>21, <2>7, WrappedIsInType DEF Right
<1>22. CASE ins.op = "OR"
  <2>3. SameClass(o + d, O + D, m)
    BY <1>17, <1>20, CongruentResults
  <2>4. SameClass(o + d, a + b, m)
    BY <1>1, <1>17, <1>19, <1>20, <2>3, ClassesCompose
  <2>5. o + d \in Int /\ a + b \in Int
    BY <1>1, <1>17
  <2>6. Congruent(o + d, a + b, t)
    BY <1>15, <2>4, <2>5
  <2>7. Exact("OR", va, vb, Num(t, o))
    BY <1>2, <1>18, <2>6 DEF Exact, Num
  <2> QED
    BY <1>4, <1>12, <1>22, <2>7, WrappedIsInType DEF Right
<1> QED
  BY <1>16, <1>21, <1>22 DEF BitwiseOps

\* SHL and SHR, by any amount.
LEMMA ShiftsAreRight ==
  ASSUME NEW ins, ins.op \in ShiftOps,
         NEW t \in IntTypes, NEW a \in Least(t) .. Greatest(t), NEW vb, vb.n \in Int
  PROVE  LET va == Num(t, a)
         IN  Right(ins, va, vb, Computed(ins, <<va, vb>>))
<1> DEFINE va == Num(t, a)
           r  == Computed(ins, <<va, vb>>)
           k  == vb.n % Bits[t]
           p  == 2 ^ k
<1> SUFFICES Right(ins, va, vb, r)
  OBVIOUS
<1>1. a \in Int
  BY AsI64Facts
<1>2. va.t = t /\ va.n = a
  BY DEF Num
<1>3. ins.op \in {"SHL", "SHR"} /\ ins.op \notin {"DIV", "MOD"}
  BY DEF ShiftOps
<1>4. p \in Nat \ {0}
  <2>1. Bits[t] \in Nat \ {0}
    BY BitsAssumption
  <2>2. k \in 0 .. Bits[t] - 1
    BY <2>1, DivMod
  <2> HIDE DEF k
  <2>3. k \in 0 .. Widest
    <3>1. Widest \in Nat /\ Bits[t] <= Widest
      BY WidthFacts, BitsAssumption DEF Widest, IntTypes, SignedTypes
    <3> QED
      BY <2>1, <2>2, <3>1
  <2> QED
    BY <2>3, PowersPositive
<1>5. r = IF ins.op = "SHL" THEN ShiftLeft(va, vb.n) ELSE ShiftRight(va, vb.n)
  <2>1. r = BitwiseResult(ins.op, <<va, vb>>)
    BY ComputedNumbers
  <2> QED
    BY <1>3, <2>1 DEF BitwiseResult, BitwiseOps
<1> HIDE DEF va, r, p
<1>6. CASE t \notin ShiftTypes
  <2>1. r = TypeMismatch
    BY <1>2, <1>5, <1>6 DEF ShiftLeft, ShiftRight
  <2> QED
    BY <1>2, <1>6, <2>1 DEF Right, IsFault, TypeMismatch, Fault
<1>7. CASE t \in ShiftTypes /\ ins.op = "SHL"
  <2>1. r = Num(t, Wrap(t, a * p))
    BY <1>2, <1>5, <1>7 DEF ShiftLeft, p
  <2> DEFINE c == a * p
  <2>2. c \in Int
    BY <1>1, <1>4
  <2> HIDE DEF c
  <2>3. ~IsFault(r) /\ InType(r) /\ r.n = Wrap(t, c)
    BY <2>1, <2>2, WrappedIsInType DEF c
  <2>4. Congruent(r.n, c, t)
    BY <2>2, <2>3, WrapIsCongruent
  <2>5. Exact(ins.op, va, vb, r)
    BY <1>2, <1>7, <2>4 DEF Exact, c, p
  <2> QED
    BY <1>3, <2>3, <2>5 DEF Right
<1>8. CASE t \in ShiftTypes /\ ins.op = "SHR"
  <2> DEFINE q == a \div p
             s == a % p
  <2>1. r = Num(t, q)
    BY <1>2, <1>5, <1>8 DEF ShiftRight, p
  <2>2. q \in Int /\ s \in 0 .. p - 1 /\ a = p * q + s
    BY <1>1, <1>4, DivMod
  <2> HIDE DEF q, s
  <2>3. a >= 0 => q \in 0 .. a
    <3>1. ASSUME a >= 0, q <= -1 PROVE FALSE
      <4>1. p * q = -p - p * (-1 - q) /\ p * (-1 - q) >= 0
        BY <1>4, <2>2, <3>1
      <4> QED
        BY <1>1, <1>4, <2>2, <3>1, <4>1
    <3>2. ASSUME a >= 0, q >= 0 PROVE q <= a
      <4>1. p * q = q + (p - 1) * q /\ (p - 1) * q >= 0
        BY <1>4, <2>2, <3>2
      <4> QED
        BY <1>1, <1>4, <2>2, <3>2, <4>1
    <3> QED
      BY <1>1, <2>2, <3>1, <3>2
  <2>4. a < 0 => q \in a .. -1
    <3>1. ASSUME a < 0, q >= 0 PROVE FALSE
      <4>1. p * q >= 0
        BY <1>4, <2>2, <3>1
      <4> QED
        BY <1>1, <1>4, <2>2, <3>1, <4>1
    <3>2. ASSUME a < 0, q <= -1 PROVE a <= q
      <4>1. p * q = p * (q + 1) - p /\ p * (q + 1) = (q + 1) - (p - 1) * (-1 - q)
                /\ (p - 1) * (-1 - q) >= 0
        BY <1>4, <2>2, <3>2
      <4> QED
        BY <1>1, <1>4, <2>2, <3>2, <4>1
    <3> QED
      BY <1>1, <2>2, <3>1, <3>2
  <2>5. q \in Least(t) .. Greatest(t)
    <3> DEFINE h == 2 ^ (Bits[t] - 1)
    <3>1. /\ h \in Nat \ {0}
          /\ Least(t) = IF t \in SignedTypes THEN -h ELSE 0
          /\ Greatest(t) = IF t \in SignedTypes THEN h - 1 ELSE 2 * h - 1
      BY Bounds
    <3> HIDE DEF h
    <3> QED
      BY <1>1, <2>2, <2>3, <2>4, <3>1
  <2>6. r.t = t /\ r.n = q
    BY <2>1 DEF Num
  <2>7. ~IsFault(r) /\ InType(r)
    BY <2>5, <2>6, TypeNames DEF IsFault, InType
  <2>8. a - q * p \in 0 .. p - 1
    BY <1>1, <1>4, <2>2
  <2>9. Exact(ins.op, va, vb, r)
    BY <1>2, <1>8, <2>6, <2>8 DEF Exact, p
  <2> QED
    BY <1>3, <2>7, <2>9 DEF Right
<1> QED
  BY <1>3, <1>6, <1>7, <1>8

\* Where the quotient and the remainder of two numbers of a type lie.
LEMMA DivisionInRange ==
  ASSUME NEW t \in IntTypes, NEW x \in AsSigned(t), NEW y \in AsSigned(t), y # 0
  PROVE  LET q == Quotient(x, y)
         IN  /\ q \in Int /\ x - y * q \in AsSigned(t)
             /\ RemainderOf(x, y, x - y * q)
             /\ q \in AsSigned(t) \/ (y = -1 /\ q = -x)
<1> DEFINE q == Quotient(x, y)
           r == x - y * q
           u == SignedLike(t)
           h == 2 ^ (Bits[u] - 1)
           lo == IF u \in SignedTypes THEN -h ELSE 0
           hi == IF u \in SignedTypes THEN h - 1 ELSE 2 * h - 1
<1>1. u \in IntTypes
  BY DEF SignedLike, IntTypes, SignedTypes
<1>2. h \in Nat \ {0} /\ AsSigned(t) = lo .. hi
  <2>1. h \in Nat \ {0} /\ Least(u) = lo /\ Greatest(u) = hi
    BY <1>1, Bounds
  <2> QED
    BY <2>1 DEF AsSigned
<1> HIDE DEF h
<1>3. x \in Int /\ y \in Int /\ x \in lo .. hi /\ y \in lo .. hi
  BY <1>2
<1>4. /\ q \in Int /\ r \in Int /\ Abs(q) <= Abs(x)
      /\ y \notin {1, -1} => 2 * Abs(q) <= Abs(x)
      /\ y = 1 => q = x
      /\ y = -1 => q = -x
      /\ x >= 0 /\ y >= 0 => q >= 0
      /\ RemainderOf(x, y, r)
  BY <1>3, QuotientFacts
<1> HIDE DEF q, r
<1>5. Abs(r) < Abs(y) /\ (r = 0 \/ (r < 0) = (x < 0))
  BY <1>4 DEF RemainderOf
<1>6. r \in lo .. hi
  BY <1>2, <1>3, <1>4, <1>5 DEF Abs
<1>7. q \in lo .. hi \/ (y = -1 /\ q = -x)
  <2>1. CASE u \in SignedTypes
    BY <1>2, <1>3, <1>4, <2>1 DEF Abs
  <2>2. CASE u \notin SignedTypes
    BY <1>2, <1>3, <1>4, <2>2 DEF Abs
  <2> QED
    BY <2>1, <2>2
<1> QED
  BY <1>2, <1>4, <1>6, <1>7 DEF q, r

\* A number that t can stand for is of t, but for the negative ones of an unsigned t.
LEMMA InOwnRange ==
  ASSUME NEW t \in IntTypes, NEW c \in AsSigned(t), c \in Int, t \in UnsignedTypes => c >= 0
  PROVE  c \in Least(t) .. Greatest(t)
<1> DEFINE h == 2 ^ (Bits[t] - 1)
           w == 2 ^ (Widest - 1)
<1>1. /\ h \in Nat \ {0} /\ w \in Nat \ {0}
      /\ Least(t) = IF t \in SignedTypes THEN -h ELSE 0
      /\ Greatest(t) = IF t \in SignedTypes THEN h - 1 ELSE 2 * h - 1
      /\ Greatest("INT64") = w - 1
      /\ t \in {"INT64", "UINT64"} => h = w
  BY Bounds
<1> HIDE DEF h, w
<1>2. CASE t = "UINT64"
  BY <1>1, <1>2 DEF AsSigned, SignedLike, UnsignedTypes, SignedTypes
<1>3. CASE t # "UINT64"
  BY <1>3 DEF AsSigned, SignedLike
<1> QED
  BY <1>2, <1>3

\* DIV and MOD.
LEMMA DivisionIsRight ==
  ASSUME NEW ins, ins.op \in {"DIV", "MOD"},
         NEW t \in IntTypes, NEW a \in Least(t) .. Greatest(t), NEW b \in Least(t) .. Greatest(t),
         FitsSigned(Num(t, a)), FitsSigned(Num(t, b))
  PROVE  LET va == Num(t, a)
             vb == Num(t, b)
         IN  Right(ins, va, vb, Computed(ins, <<va, vb>>))
<1> DEFINE va == Num(t, a)
           vb == Num(t, b)
           v  == Computed(ins, <<va, vb>>)
           q  == Quotient(a, b)
           m  == 2 ^ Bits[t]
           panics == b = -1 /\ a = Least("INT64")
<1> SUFFICES Right(ins, va, vb, v)
  OBVIOUS
<1>1. /\ a \in Int /\ a \in AsSigned(t) /\ Meant(va) = a
      /\ b \in Int /\ b \in AsSigned(t) /\ Meant(vb) = b
  <2>1. Meant(va) = a /\ Meant(vb) = b
    BY DEF Meant, Num
  <2> QED
    BY <2>1, AsI64Facts
<1>2. va.t = t /\ va.n = a /\ vb.t = t /\ vb.n = b /\ (IsTruthy(vb) <=> b # 0)
  BY DEF Num, IsTruthy
<1>3. m \in Nat /\ m \in Int
  BY WidthFacts
<1>4. v = IF b = 0 THEN Fault("DivisionByZero") ELSE NumericOp(ins.op, va, vb)
  BY <1>2, ComputedNumbers DEF ArithmeticResult, ArithmeticOps
<1>5. /\ panics => NumericOp(ins.op, va, vb) = Panic
      /\ ~panics => NumericOp(ins.op, va, vb)
                        = Num(t, Wrap(t, Wrap("INT64", Calculate(ins.op, a, b))))
  BY <1>1, NumericOpOfIntegers DEF ArithmeticOps
<1> HIDE DEF va, vb, v, m
<1>6. CASE b = 0
  BY <1>2, <1>4, <1>6 DEF Right, IsFault, Fault
<1>7. CASE b # 0 /\ panics
  BY <1>2, <1>4, <1>5, <1>7 DEF Right, IsFault, Panic, Fault
<1>8. CASE b # 0 /\ ~panics
  <2>1. /\ q \in Int /\ a - b * q \in AsSigned(t) /\ RemainderOf(a, b, a - b * q)
        /\ q \in AsSigned(t) \/ (b = -1 /\ q = -a)
        /\ a >= 0 /\ b >= 0 => q >= 0
    BY <1>1, <1>8, DivisionInRange, QuotientFacts
  <2> HIDE DEF q
  <2> DEFINE c == Calculate(ins.op, a, b)
             w == Wrap("INT64", c)
             n == Wrap(t, w)
  <2>2. v = Num(t, n)
    BY <1>4, <1>5, <1>8
  <2>3. ins.op = "DIV" => c = q
    BY DEF Calculate, q
  <2>4. ins.op = "MOD" => c = a - b * q
    BY DEF Calculate, q
  <2>5. c \in Int
    <3>1. a - b * q \in Int
      BY <1>1, <2>1
    <3> QED
      BY <2>1, <2>3, <2>4, <3>1
  <2> HIDE DEF c
  <2>6. w \in Int
    BY <2>5, WrapInRange DEF IntTypes, SignedTypes
  <2>7. ~IsFault(v) /\ InType(v) /\ v.t = t /\ v.n = n
    BY <2>2, <2>6, WrappedIsInType
  <2>8. ASSUME c \in AsSigned(t), t \in UnsignedTypes => c >= 0 PROVE v.n = c
    <3>1. c \in Least(t) .. Greatest(t)
      BY <2>5, <2>8, InOwnRange
    <3>2. w = c
      BY <2>8, SignedKeeps
    <3>3. Wrap(t, c) = c
      BY <2>5, <3>1, WrapFixes
    <3> QED
      BY <2>7, <3>2, <3>3
  <2>0. t \in UnsignedTypes => a >= 0 /\ b >= 0
    BY <1>1, TypeNames DEF Least
  <2>9. CASE ins.op = "MOD"
    <3>1. t \in UnsignedTypes => a - b * q >= 0
      <4> DEFINE z == a - b * q
      <4>1. z \in Int /\ (z = 0 \/ (z < 0) = (a < 0))
        BY <1>1, <2>1 DEF RemainderOf
      <4> HIDE DEF z
      <4>2. t \in UnsignedTypes => z >= 0
        BY <1>1, <2>0, <4>1
      <4> QED
        BY <4>2 DEF z
    <3>2. v.n = a - b * q
      BY <2>1, <2>4, <2>8, <2>9, <3>1
    <3>3. RemainderOf(va.n, vb.n, v.n)
      BY <1>2, <2>1, <3>2
    <3>4. Exact(ins.op, va, vb, v)
      BY <2>9, <3>3 DEF Exact
    <3> QED
      BY <1>2, <1>8, <2>7, <3>4 DEF Right
  <2>10. CASE ins.op = "DIV" /\ q \in AsSigned(t)
    <3>1. v.n = q
      BY <2>0, <2>1, <2>3, <2>8, <2>10
    <3>2. RemainderOf(va.n, vb.n, va.n - vb.n * v.n)
      BY <1>2, <2>1, <3>1
    <3>3. Exact(ins.op, va, vb, v)
      BY <2>10, <3>2 DEF Exact
    <3> QED
      BY <1>2, <1>8, <2>7, <3>3 DEF Right
  <2>11. CASE ins.op = "DIV" /\ b = -1 /\ q = -a
    <3>1. c = -a
      BY <2>3, <2>11
    <3>2. PICK l \in Int : n = c + m * l
      BY <2>5, WrapTwice DEF m
    <3>3. n \in Int
      BY <2>6, WrapInRange
    <3> HIDE DEF n
    <3>4. n = -a + m * l /\ -a \in Int
      BY <1>1, <3>1, <3>2
    <3>5. Congruent(n, -a, t)
      BY <3>3, <3>4, ShiftedIsCongruent DEF m
    <3>6. vb.n = -1 /\ Congruent(v.n, -va.n, va.t)
      BY <1>2, <2>7, <2>11, <3>5
    <3>7. Exact(ins.op, va, vb, v)
      BY <2>11, <3>6 DEF Exact
    <3> QED
      BY <1>2, <1>8, <2>7, <3>7 DEF Right
  <2> QED
    BY <2>1, <2>9, <2>10, <2>11
<1> QED
  BY <1>6, <1>7, <1>8

\* Integer arithmetic is exact modulo the width, for every width of every type and
\* all numbers, but DIV, MOD and the order of a UINT64 above every INT64, which the
\* code takes for negative: the formula of ArithmeticIsExact, for what a reading
\* instruction computes from the operands it read.
THEOREM IntegersAreExact ==
  ASSUME NEW ins, ins.op \in BinaryOps \cup UnaryNumeric,
         NEW t \in IntTypes, NEW a \in Least(t) .. Greatest(t), NEW b \in Least(t) .. Greatest(t),
         ins.op \in SignedReads => FitsSigned(Num(t, a)) /\ FitsSigned(Num(t, b))
  PROVE  Right(ins, Num(t, a), Num(t, b), Computed(ins, <<Num(t, a), Num(t, b)>>))
<1>1. CASE ins.op \in {"ADD", "SUB", "MUL"}
  BY <1>1, SumsAreRight
<1>2. CASE ins.op \in {"DIV", "MOD"}
  BY <1>2, DivisionIsRight DEF SignedReads
<1>3. CASE ins.op \in ComparisonOps
  BY <1>3, ComparisonsAreRight
<1>4. CASE ins.op \in ShiftOps
  <2>1. b \in Int /\ Num(t, b).n = b
    BY AsI64Facts DEF Num
  <2> QED
    BY <1>4, <2>1, ShiftsAreRight
<1>5. CASE ins.op \in UnaryNumeric
  BY <1>5, UnaryIsRight
<1>6. CASE ins.op \in BitwiseOps
  BY <1>6, BitwiseIsRight
<1> QED
  BY <1>1, <1>2, <1>3, <1>4, <1>5, <1>6 DEF BinaryOps, ArithmeticOps

-------------------------------------------------------------------------------
(* What a step of the machine makes of integers.                             *)
\* Of two tables, the first that covers an opcode is asked.
LEMMA MergeApply ==
  ASSUME NEW f, NEW g, NEW x
  PROVE  /\ x \in DOMAIN f => (f ++ g)[x] = f[x]
         /\ x \notin DOMAIN f /\ x \in DOMAIN g => (f ++ g)[x] = g[x]
BY DEF ++

\* One of its parts gives every opcode it covers the same operands.
LEMMA ReadingApply ==
  ASSUME NEW S, NEW s, NEW x \in S
  PROVE  Reading(S, s)[x] = s
BY DEF Reading

\* The operands of the instructions on one value, and on numbers.
LEMMA NumericSources ==
  ASSUME NEW op
  PROVE  /\ op \in UnaryOps \cup UnaryNumeric =>
              SourcesOf(op) = << <<1, "V">> >> /\ op \in ReadingOps
         /\ op \in BinaryOps \ ShiftOps =>
              SourcesOf(op) = << <<1, "V">>, <<2, "V">> >> /\ op \in ReadingOps
         /\ op \in ShiftOps =>
              SourcesOf(op) = << <<1, "V">>, <<2, "U">> >> /\ op \in ReadingOps
<1> DEFINE R1 == Reading(UnaryOps, << <<1, "V">> >>)
           R2 == Reading(ArithmeticOps \cup ComparisonOps \cup BitwiseOps,
                         << <<1, "V">>, <<2, "V">> >>)
           R3 == Reading(ShiftOps \cup {"GET_IDX"}, << <<1, "V">>, <<2, "U">> >>)
           R4 == Reading({"SOME", "OK"}, << <<2, "V">> >>)
           R5 == Reading({"ERR"}, << <<2, "U">> >>)
<1>1. ScalarReads = R1 ++ R2 ++ R3 ++ R4 ++ R5
  BY DEF ScalarReads
<1>2. ASSUME op \in UnaryOps PROVE op \in DOMAIN ScalarReads /\ ScalarReads[op] = << <<1, "V">> >>
  <2>1. op \in DOMAIN R1 /\ R1[op] = << <<1, "V">> >>
    BY <1>2, InReading, ReadingApply
  <2> HIDE DEF R1, R2, R3, R4, R5
  <2>2. op \in DOMAIN (R1 ++ R2) /\ (R1 ++ R2)[op] = R1[op]
    BY <2>1, InMerge, MergeApply
  <2>3. op \in DOMAIN (R1 ++ R2 ++ R3) /\ (R1 ++ R2 ++ R3)[op] = R1[op]
    BY <2>2, InMerge, MergeApply
  <2>4. op \in DOMAIN (R1 ++ R2 ++ R3 ++ R4) /\ (R1 ++ R2 ++ R3 ++ R4)[op] = R1[op]
    BY <2>3, InMerge, MergeApply
  <2>5. /\ op \in DOMAIN (R1 ++ R2 ++ R3 ++ R4 ++ R5)
        /\ (R1 ++ R2 ++ R3 ++ R4 ++ R5)[op] = R1[op]
    BY <2>4, InMerge, MergeApply
  <2> QED
    BY <1>1, <2>1, <2>5
<1>3. ASSUME op \in BinaryOps \ ShiftOps
      PROVE  op \in DOMAIN ScalarReads /\ ScalarReads[op] = << <<1, "V">>, <<2, "V">> >>
  <2>1. op \in DOMAIN R2 /\ R2[op] = << <<1, "V">>, <<2, "V">> >>
    BY <1>3, InReading, ReadingApply DEF BinaryOps
  <2>0. op \notin DOMAIN R1
    <3>1. op \notin UnaryOps
      BY <1>3 DEF BinaryOps, UnaryOps, ArithmeticOps, ComparisonOps, BitwiseOps
    <3> QED
      BY <3>1, InReading
  <2> HIDE DEF R1, R2, R3, R4, R5
  <2>2. op \in DOMAIN (R1 ++ R2) /\ (R1 ++ R2)[op] = R2[op]
    BY <2>0, <2>1, InMerge, MergeApply
  <2>3. op \in DOMAIN (R1 ++ R2 ++ R3) /\ (R1 ++ R2 ++ R3)[op] = R2[op]
    BY <2>2, InMerge, MergeApply
  <2>4. op \in DOMAIN (R1 ++ R2 ++ R3 ++ R4) /\ (R1 ++ R2 ++ R3 ++ R4)[op] = R2[op]
    BY <2>3, InMerge, MergeApply
  <2>5. /\ op \in DOMAIN (R1 ++ R2 ++ R3 ++ R4 ++ R5)
        /\ (R1 ++ R2 ++ R3 ++ R4 ++ R5)[op] = R2[op]
    BY <2>4, InMerge, MergeApply
  <2> QED
    BY <1>1, <2>1, <2>5
<1>6. ASSUME op \in ShiftOps
      PROVE  op \in DOMAIN ScalarReads /\ ScalarReads[op] = << <<1, "V">>, <<2, "U">> >>
  <2>1. op \in DOMAIN R3 /\ R3[op] = << <<1, "V">>, <<2, "U">> >>
    BY <1>6, InReading, ReadingApply
  <2>0. op \notin DOMAIN (R1 ++ R2)
    <3>1. op \notin UnaryOps \cup ArithmeticOps \cup ComparisonOps \cup BitwiseOps
      BY <1>6 DEF ShiftOps, UnaryOps, ArithmeticOps, ComparisonOps, BitwiseOps
    <3> QED
      BY <3>1, InReading, InMerge
  <2> HIDE DEF R1, R2, R3, R4, R5
  <2>3. op \in DOMAIN (R1 ++ R2 ++ R3) /\ (R1 ++ R2 ++ R3)[op] = R3[op]
    BY <2>0, <2>1, InMerge, MergeApply
  <2>4. op \in DOMAIN (R1 ++ R2 ++ R3 ++ R4) /\ (R1 ++ R2 ++ R3 ++ R4)[op] = R3[op]
    BY <2>3, InMerge, MergeApply
  <2>5. /\ op \in DOMAIN (R1 ++ R2 ++ R3 ++ R4 ++ R5)
        /\ (R1 ++ R2 ++ R3 ++ R4 ++ R5)[op] = R3[op]
    BY <2>4, InMerge, MergeApply
  <2> QED
    BY <1>1, <2>1, <2>5
<1>4. ASSUME op \in DOMAIN ScalarReads PROVE SourcesOf(op) = ScalarReads[op] /\ op \in ReadingOps
  <2>1. op \in DOMAIN (ScalarReads ++ CollectionReads)
    BY <1>4, InMerge
  <2> QED
    BY <1>4, <2>1, MergeApply DEF SourcesOf, ReadingOps
<1>5. op \in UnaryNumeric => op \in UnaryOps
  BY DEF UnaryNumeric, UnaryOps
<1> QED
  BY <1>2, <1>3, <1>4, <1>5, <1>6

\* What is computed depends on the operands the instruction has.
LEMMA ComputedFrom ==
  ASSUME NEW ins, NEW x, NEW y, x[1] = y[1]
  PROVE  /\ ins.op \in UnaryNumeric => Computed(ins, x) = Computed(ins, y)
         /\ ins.op \in BinaryOps /\ x[2] = y[2] => Computed(ins, x) = Computed(ins, y)
<1>1. CASE ins.op \in {"NEG", "CAST"}
  BY <1>1, ComputedNumbers DEF BinaryOps, ArithmeticOps, ComparisonOps,
     BitwiseOps, ShiftOps
<1>2. CASE ins.op = "NOT"
  <2>1. Computed(ins, x) = BitwiseResult("NOT", x) /\ Computed(ins, y) = BitwiseResult("NOT", y)
    BY <1>2, ComputedNumbers
  <2> QED
    BY <1>2, <2>1 DEF BitwiseResult, BitwiseOps, BinaryOps, ArithmeticOps, ComparisonOps,
       ShiftOps
<1>3. CASE ins.op \in ArithmeticOps
  BY <1>3, ComputedNumbers DEF ArithmeticResult, UnaryNumeric, ArithmeticOps
<1>4. CASE ins.op \in ComparisonOps
  BY <1>4, ComputedNumbers DEF ComparisonResult, UnaryNumeric, ComparisonOps
<1>5. CASE ins.op \in BitwiseOps \cup ShiftOps
  <2>1. Computed(ins, x) = BitwiseResult(ins.op, x) /\ Computed(ins, y) = BitwiseResult(ins.op, y)
    BY <1>5, ComputedNumbers
  <2> QED
    BY <1>5, <2>1 DEF BitwiseResult, BitwiseOps, ShiftOps, UnaryNumeric
<1> QED
  BY <1>1, <1>2, <1>3, <1>4, <1>5 DEF UnaryNumeric, BinaryOps

\* The tables of operands share no opcode.
LEMMA TablesApart ==
  /\ DOMAIN ScalarReads \cap DOMAIN CollectionReads = {}
  /\ DOMAIN ScalarReads \cap DOMAIN UpdateReads = {}
  /\ DOMAIN CollectionReads \cap DOMAIN UpdateReads = {}
<1>1. DOMAIN ScalarReads = UnaryOps \cup ArithmeticOps \cup ComparisonOps \cup BitwiseOps
                           \cup ShiftOps \cup {"GET_IDX", "SOME", "OK", "ERR"}
  <2> SUFFICES ASSUME NEW op
               PROVE  op \in DOMAIN ScalarReads
                        <=> op \in UnaryOps \cup ArithmeticOps \cup ComparisonOps \cup BitwiseOps
                                   \cup ShiftOps \cup {"GET_IDX", "SOME", "OK", "ERR"}
    OBVIOUS
  <2> QED
    BY InMerge, InReading, SMTT(60) DEF ScalarReads
<1>2. DOMAIN CollectionReads = KeyedReads \cup FieldReads
                               \cup {"VEC_FILTER", "VEC_SLICE", "VEC_MERGE", "BITVEC_READ"}
  <2> SUFFICES ASSUME NEW op
               PROVE  op \in DOMAIN CollectionReads
                        <=> op \in KeyedReads \cup FieldReads
                                   \cup {"VEC_FILTER", "VEC_SLICE", "VEC_MERGE", "BITVEC_READ"}
    OBVIOUS
  <2> QED
    BY InMerge, InReading, SMTT(60) DEF CollectionReads
<1>3. DOMAIN UpdateReads =
        {"PUSH", "ENQUEUE", "PREPEND", "BIT_AND", "BIT_OR", "BIT_XOR", "SET_IDX", "SPARSE_SET",
         "BTREE_SET", "SPARSE_DEL", "BTREE_DEL", "BIT_SET", "BIT_CLR", "BIT_FLIP", "BIT_GROW",
         "SET_FIELD", "DEL_FIELD", "VEC_SORT", "BITVEC_WRITE", "BITVEC_PUSH"}
  <2> SUFFICES ASSUME NEW op
               PROVE  op \in DOMAIN UpdateReads
                        <=> op \in {"PUSH", "ENQUEUE", "PREPEND", "BIT_AND", "BIT_OR", "BIT_XOR",
                                    "SET_IDX", "SPARSE_SET", "BTREE_SET", "SPARSE_DEL",
                                    "BTREE_DEL", "BIT_SET", "BIT_CLR", "BIT_FLIP", "BIT_GROW",
                                    "SET_FIELD", "DEL_FIELD", "VEC_SORT", "BITVEC_WRITE",
                                    "BITVEC_PUSH"}
    OBVIOUS
  <2> QED
    BY InMerge, InReading, SMTT(60) DEF UpdateReads
<1>4. ASSUME NEW op \in DOMAIN UpdateReads
      PROVE  op \notin DOMAIN ScalarReads /\ op \notin DOMAIN CollectionReads
  BY <1>1, <1>2, <1>3, <1>4
     DEF UnaryOps, ArithmeticOps, ComparisonOps, BitwiseOps, ShiftOps, KeyedReads, FieldReads
<1>5. ASSUME NEW op \in DOMAIN CollectionReads PROVE op \notin DOMAIN ScalarReads
  BY <1>1, <1>2, <1>5
     DEF UnaryOps, ArithmeticOps, ComparisonOps, BitwiseOps, ShiftOps, KeyedReads, FieldReads
<1> QED
  BY <1>4, <1>5

\* An instruction on two integers of one type, or on one, writes what it computes.
LEMMA NumericStep ==
  ASSUME NEW m, NEW ins, ins.op \in BinaryOps \cup UnaryNumeric,
         NEW va, NEW vb, va = ReadOperand(m, ins.a[1]), ~IsFault(va),
         vb = SecondOf(m, ins), ~IsFault(vb)
  PROVE  DataStep(m, ins) = WriteOperand(m, ins.a[Len(ins.a)], Computed(ins, <<va, vb>>))
<1> DEFINE x == SourceValues(m, ins)
<1>1. ins.op \in ReadingOps /\ DataStep(m, ins) = ReadAndWrite(m, ins)
  <2>1. ins.op \in ReadingOps
    BY NumericSources
  <2>2. ins.op \notin UpdatingOps \cup TakingOps \cup MemoryOps
    <3>1. ins.op \notin DOMAIN UpdateReads
      BY <2>1, TablesApart DEF ReadingOps
    <3> QED
      BY <3>1 DEF UpdatingOps, TakingOps, MemoryOps, BinaryOps, UnaryNumeric, ArithmeticOps,
                  ComparisonOps, BitwiseOps, ShiftOps
  <2> QED
    BY <2>1, <2>2 DEF DataStep
<1>2. TargetPosition(ins) = Len(ins.a)
  BY DEF TargetPosition, BinaryOps, UnaryNumeric, ArithmeticOps, ComparisonOps, BitwiseOps,
         ShiftOps
<1>3. CASE ins.op \in UnaryNumeric
  <2>1. SourcesOf(ins.op) = << <<1, "V">> >>
    BY <1>3, NumericSources
  <2>2. DOMAIN x = {1} /\ x[1] = va
    BY <2>1 DEF SourceValues, Converted
  <2>3. ~AnyFault(x)
    BY <2>2 DEF AnyFault
  <2> HIDE DEF x
  <2>4. Computed(ins, x) = Computed(ins, <<va, vb>>)
    BY <1>3, <2>2, ComputedFrom
  <2> QED
    BY <1>1, <1>2, <2>3, <2>4 DEF ReadAndWrite, x
<1>4. CASE ins.op \in BinaryOps
  <2>0. ins.op \notin UnaryNumeric
    BY <1>4 DEF BinaryOps, UnaryNumeric, ArithmeticOps, ComparisonOps, BitwiseOps, ShiftOps
  <2>1. DOMAIN x = {1, 2} /\ x[1] = va /\ x[2] = vb
    <3>1. CASE ins.op \in ShiftOps
      <4>1. SourcesOf(ins.op) = << <<1, "V">>, <<2, "U">> >>
        BY <3>1, NumericSources
      <4> QED
        BY <2>0, <3>1, <4>1 DEF SourceValues, Converted, SecondOf
    <3>2. CASE ins.op \notin ShiftOps
      <4>1. SourcesOf(ins.op) = << <<1, "V">>, <<2, "V">> >>
        BY <1>4, <3>2, NumericSources
      <4> QED
        BY <2>0, <3>2, <4>1 DEF SourceValues, Converted, SecondOf
    <3> QED
      BY <3>1, <3>2
  <2>3. ~AnyFault(x)
    BY <2>1 DEF AnyFault
  <2> HIDE DEF x
  <2>4. Computed(ins, x) = Computed(ins, <<va, vb>>)
    BY <1>4, <2>1, ComputedFrom
  <2> QED
    BY <1>1, <1>2, <2>3, <2>4 DEF ReadAndWrite, x
<1> QED
  BY <1>3, <1>4

\* What a numeric instruction leaves in the slot it writes, or the fault it ends
\* with, is right.
LEMMA NumericStepIsRight ==
  ASSUME NEW m, IsMachine(m), ~Failed(m),
         NEW ins, ins.op \in BinaryOps \cup UnaryNumeric, ins.a[Len(ins.a)].k = "LOCAL",
         IsInteger(ReadOperand(m, ins.a[1])), IsInteger(SecondOf(m, ins)),
         ins.op \in ShiftOps \/ SecondOf(m, ins).t = ReadOperand(m, ins.a[1]).t,
         ins.op \in SignedReads =>
           FitsSigned(ReadOperand(m, ins.a[1])) /\ FitsSigned(SecondOf(m, ins))
  PROVE  LET n == DataStep(m, ins)
         IN  Right(ins, ReadOperand(m, ins.a[1]), SecondOf(m, ins),
                   IF Failed(n) THEN Fault(n.fault) ELSE n.fr.slots[ins.a[Len(ins.a)].i])
<1> DEFINE va == ReadOperand(m, ins.a[1])
           vb == SecondOf(m, ins)
           v  == Computed(ins, <<va, vb>>)
           o  == ins.a[Len(ins.a)]
           n  == DataStep(m, ins)
<1> DEFINE t == va.t
           u == vb.t
           a == va.n
           b == vb.n
<1>1. t \in IntTypes /\ a \in Least(t) .. Greatest(t) /\ va = Num(t, a)
  BY DEF IsInteger, InType
<1>2. u \in IntTypes /\ b \in Least(u) .. Greatest(u) /\ vb = Num(u, b)
  BY DEF IsInteger, InType
<1>3. va.t = t /\ vb.t = u
  BY <1>1, <1>2 DEF Num
<1>5. ~IsFault(va) /\ ~IsFault(vb)
  BY <1>1, <1>2, TypeNames DEF IsFault
<1>6. n = WriteOperand(m, o, v)
  BY <1>5, NumericStep
<1>7. Right(ins, va, vb, v)
  <2>1. CASE ins.op \in ShiftOps
    <3>1. vb.n \in Int
      BY <1>2, AsI64Facts DEF Num
    <3> QED
      BY <1>1, <2>1, <3>1, ShiftsAreRight
  <2>2. CASE ins.op \notin ShiftOps
    <3>1. u = t
      BY <1>3, <2>2
    <3> QED
      BY <1>1, <1>2, <3>1, IntegersAreExact
  <2> QED
    BY <2>1, <2>2
<1> HIDE DEF va, vb, v, n
<1>8. CASE IsFault(v)
  <2>1. n = Fail(m, v)
    BY <1>6, <1>8 DEF WriteOperand
  <2>2. n.fault = v.f
    BY <2>1 DEF Fail, IsMachine
  <2>3. v.f \in {"DivisionByZero", "Panic", "TypeMismatch"}
    BY <1>7, <1>8 DEF Right
  <2>4. Failed(n)
    BY <2>2, <2>3 DEF Failed
  <2>5. IsFault(Fault(v.f)) /\ Fault(v.f).f = v.f
    BY DEF IsFault, Fault
  <2>6. Right(ins, va, vb, Fault(v.f))
    BY <1>7, <1>8, <2>5 DEF Right
  <2> QED
    BY <2>2, <2>4, <2>6 DEF va, vb, n
<1>9. CASE ~IsFault(v)
  <2>1. n = [m EXCEPT !.fr.slots = Put(@, o.i, v)]
    BY <1>6, <1>9 DEF WriteOperand, PutCell
  <2>2. n.fault = m.fault /\ n.fr.slots = Put(m.fr.slots, o.i, v)
    BY <2>1 DEF IsMachine, FrameFields
  <2>3. ~Failed(n)
    BY <2>2 DEF Failed
  <2>4. n.fr.slots[o.i] = v
    BY <2>2 DEF Put
  <2> QED
    BY <1>7, <2>3, <2>4 DEF va, vb, n
<1> QED
  BY <1>8, <1>9

\* Integer arithmetic is exact in every step, for every width and whatever the memory
\* (numeric_op, numeric_cmp, cast_value, value.rs; execute_instruction, executor.rs).
THEOREM StepsAreExact == DataSpec => ArithmeticIsExact
<1>1. DataIInv /\ [DataNext]_dataVars => RightStep(BinaryOps \cup UnaryNumeric, SignedReads)
  <2> SUFFICES ASSUME DataIInv, [DataNext]_dataVars, Stepped,
                      last'.op \in BinaryOps \cup UnaryNumeric,
                      last'.a[Len(last'.a)].k = "LOCAL",
                      IsInteger(ReadOperand(machine, last'.a[1])),
                      IsInteger(SecondOf(machine, last')),
                      \/ last'.op \in ShiftOps
                      \/ SecondOf(machine, last').t = ReadOperand(machine, last'.a[1]).t,
                      last'.op \in SignedReads =>
                        /\ FitsSigned(ReadOperand(machine, last'.a[1]))
                        /\ FitsSigned(SecondOf(machine, last'))
      PROVE  Right(last', ReadOperand(machine, last'.a[1]), SecondOf(machine, last'),
                   IF Failed(machine') THEN Fault(machine'.fault)
                   ELSE machine'.fr.slots[last'.a[Len(last'.a)].i])
    BY DEF RightStep, Faulted, Result, Source
  <2> QED
    BY ExecutedStep, NumericStepIsRight
<1> QED
  BY <1>1, MemoryIsAMachine, PTL DEF DataSpec, ArithmeticIsExact

-------------------------------------------------------------------------------
(* Bit arrays as sets of bits.                                               *)
\* The larger and the smaller of two numbers.
LEMMA OfTwo ==
  ASSUME NEW a \in Int, NEW b \in Int
  PROVE  /\ Max({a, b}) = IF a >= b THEN a ELSE b
         /\ Min({a, b}) = IF a <= b THEN a ELSE b
<1>1. \A x, y \in {a, b} : (\A z \in {a, b} : x >= z) /\ (\A z \in {a, b} : y >= z) => x = y
  OBVIOUS
<1>2. \A x, y \in {a, b} : (\A z \in {a, b} : x <= z) /\ (\A z \in {a, b} : y <= z) => x = y
  OBVIOUS
<1>3. \E x \in {a, b} : \A z \in {a, b} : x >= z
  OBVIOUS
<1>4. \E x \in {a, b} : \A z \in {a, b} : x <= z
  OBVIOUS
<1>5. Max({a, b}) \in {a, b} /\ \A z \in {a, b} : Max({a, b}) >= z
  BY <1>3 DEF Max
<1>6. Min({a, b}) \in {a, b} /\ \A z \in {a, b} : Min({a, b}) <= z
  BY <1>4 DEF Min
<1> QED
  BY <1>5, <1>6

\* A byte has bits.
LEMMA ByteFacts == Byte \in Nat \ {0}
BY BitsAssumption DEF Byte, IntTypes, UnsignedTypes

\* Products of natural numbers keep the order.
LEMMA TimesKeepsOrder ==
  ASSUME NEW m \in Nat, NEW a \in Int, NEW b \in Int, a <= b
  PROVE  m * a <= m * b
<1> DEFINE d == b - a
<1>1. d \in Nat /\ b = a + d
  OBVIOUS
<1> HIDE DEF d
<1>2. m * (a + d) = m * a + m * d /\ m * d \in Nat /\ m * a \in Int
  BY <1>1
<1> QED
  BY <1>1, <1>2

\* Where a bit is: its byte, and its place in the byte.
LEMMA BitPlace ==
  ASSUME NEW i \in Nat
  PROVE  /\ i \div Byte \in Nat /\ i % Byte \in 0 .. Byte - 1
         /\ i = Byte * (i \div Byte) + (i % Byte)
<1>1. /\ i % Byte \in 0 .. Byte - 1 /\ i \div Byte \in Int
      /\ i = Byte * (i \div Byte) + (i % Byte)
  BY ByteFacts, DivMod
<1> DEFINE q == i \div Byte
           B == Byte
<1>2. i % B \in 0 .. B - 1 /\ q \in Int /\ i = B * q + (i % B) /\ B \in Nat \ {0}
  BY <1>1, ByteFacts
<1> HIDE DEF q, B
<1>3. ASSUME q <= -1 PROVE FALSE
  <2>1. B * q <= B * (-1)
    BY <1>2, <1>3, TimesKeepsOrder
  <2> QED
    BY <1>2, <2>1
<1> QED
  BY <1>1, <1>2, <1>3 DEF q, B

\* One byte and one place make one bit.
LEMMA BitAt ==
  ASSUME NEW q \in Nat, NEW r \in 0 .. Byte - 1
  PROVE  /\ Byte * q + r \in Nat
         /\ (Byte * q + r) \div Byte = q /\ (Byte * q + r) % Byte = r
<1> DEFINE B == Byte
<1>1. B \in Nat \ {0} /\ r \in 0 .. B - 1
  BY ByteFacts
<1> HIDE DEF B
<1>2. B * q \in Nat
  BY <1>1
<1>3. (B * q + r) \in Nat
  BY <1>1, <1>2
<1>4. (B * q + r) % B = r /\ (B * q + r) \div B = q
  BY <1>1, <1>3, DivModUnique
<1> QED
  BY <1>3, <1>4 DEF B

\* n bytes hold the bits below Byte * n.
LEMMA InBytes ==
  ASSUME NEW i \in Nat, NEW n \in Nat
  PROVE  i \div Byte < n <=> i < Byte * n
<1> DEFINE B == Byte
           q == i \div Byte
           r == i % Byte
<1>1. B \in Nat \ {0} /\ q \in Nat /\ r \in 0 .. B - 1 /\ i = B * q + r
  BY ByteFacts, BitPlace
<1> HIDE DEF B, q, r
<1>2. B * q \in Nat /\ B * n \in Nat /\ B * (q + 1) = B * q + B
  BY <1>1
<1>3. ASSUME q < n PROVE i < B * n
  <2>1. B * (q + 1) <= B * n
    BY <1>1, <1>3, TimesKeepsOrder
  <2> QED
    BY <1>1, <1>2, <2>1
<1>4. ASSUME n <= q PROVE B * n <= i
  <2>1. B * n <= B * q
    BY <1>1, <1>4, TimesKeepsOrder
  <2> QED
    BY <1>1, <1>2, <2>1
<1> QED
  BY <1>1, <1>2, <1>3, <1>4 DEF B, q

\* n bits fit in BytesFor(n) bytes.
LEMMA RoomForBits ==
  ASSUME NEW n \in Nat
  PROVE  BytesFor(n) \in Nat /\ \A i \in 0 .. n - 1 : i \div Byte < BytesFor(n)
<1> DEFINE B == Byte
           m == n + Byte - 1
           q == m \div Byte
           r == m % Byte
<1>1. B \in Nat \ {0} /\ m \in Nat /\ m = n + B - 1
  BY ByteFacts
<1>2. q \in Nat /\ r \in 0 .. B - 1 /\ m = B * q + r
  BY <1>1, BitPlace
<1>3. q = BytesFor(n)
  BY DEF BytesFor
<1> HIDE DEF B, m, q, r
<1>4. B * q \in Nat /\ n <= B * q
  BY <1>1, <1>2
<1>5. ASSUME NEW i \in 0 .. n - 1 PROVE i \div Byte < q
  <2>1. i \in Nat /\ i < B * q
    BY <1>4
  <2> QED
    BY <1>2, <2>1, InBytes DEF B
<1> QED
  BY <1>2, <1>3, <1>5

\* Bytes as sets of bit numbers.
ByteSeqs == Seq(SUBSET (0 .. Byte - 1))

\* The members of a bit array are the bits in its bytes.
LEMMA MembersAreBits ==
  ASSUME NEW c, c.bytes \in ByteSeqs
  PROVE  /\ Members(c) \in SUBSET Nat
         /\ \A i \in Nat : i \in Members(c) <=> BitIn(c.bytes, i)
<1>1. Len(c.bytes) \in Nat /\ Byte \in Nat \ {0}
  BY ByteFacts DEF ByteSeqs
<1>2. Byte * Len(c.bytes) \in Nat
  BY <1>1
<1>3. ASSUME NEW i \in Nat, BitIn(c.bytes, i) PROVE i \in 0 .. Byte * Len(c.bytes) - 1
  <2>1. i < Byte * Len(c.bytes)
    BY <1>1, <1>3, InBytes DEF BitIn
  <2> QED
    BY <1>2, <2>1
<1> QED
  BY <1>2, <1>3 DEF Members

\* What is in a byte is in a byte sequence.
LEMMA SameBytes ==
  ASSUME NEW b \in ByteSeqs, NEW i \in Nat, i \div Byte < Len(b)
  PROVE  i \div Byte + 1 \in DOMAIN b /\ b[i \div Byte + 1] \in SUBSET (0 .. Byte - 1)
<1>1. i \div Byte \in Nat
  BY BitPlace
<1>2. i \div Byte + 1 \in 1 .. Len(b)
  BY <1>1 DEF ByteSeqs
<1> QED
  BY <1>2 DEF ByteSeqs

\* Writing a bit changes that bit alone.
LEMMA PutBitChanges ==
  ASSUME NEW b \in ByteSeqs, NEW i \in Nat, i \div Byte < Len(b), NEW on \in BOOLEAN
  PROVE  /\ PutBit(b, i, on) \in ByteSeqs
         /\ \A k \in Nat : BitIn(PutBit(b, i, on), k)
                             <=> IF k = i THEN on ELSE BitIn(b, k)
<1> DEFINE p == i \div Byte + 1
           x == IF on THEN b[p] \cup {i % Byte} ELSE b[p] \ {i % Byte}
           n == PutBit(b, i, on)
<1>1. i % Byte \in 0 .. Byte - 1 /\ p \in DOMAIN b /\ b[p] \in SUBSET (0 .. Byte - 1)
  BY BitPlace, SameBytes
<1>2. x \in SUBSET (0 .. Byte - 1)
  BY <1>1
<1>3. n = [b EXCEPT ![p] = x]
  BY DEF PutBit
<1>4. n \in ByteSeqs /\ Len(n) = Len(b) /\ n[p] = x /\ \A q \in DOMAIN b \ {p} : n[q] = b[q]
  <2> HIDE DEF x, p, n
  <2> QED
    BY <1>1, <1>2, <1>3, ExceptSeq DEF ByteSeqs
<1>5. ASSUME NEW k \in Nat PROVE BitIn(n, k) <=> IF k = i THEN on ELSE BitIn(b, k)
  <2> DEFINE q == k \div Byte
             d == i \div Byte
  <2>1. q \in Nat /\ d \in Nat
    BY BitPlace
  <2>2. CASE q >= Len(b)
    <3>1. k # i
      BY <2>1, <2>2 DEF ByteSeqs
    <3> QED
      BY <1>4, <2>1, <2>2, <3>1 DEF BitIn, ByteSeqs
  <2>3. CASE q < Len(b) /\ q # d
    <3>1. q + 1 \in DOMAIN b /\ q + 1 # p
      BY <2>1, <2>3, SameBytes
    <3>2. n[q + 1] = b[q + 1] /\ k # i
      BY <1>4, <2>3, <3>1
    <3> QED
      BY <1>4, <2>3, <3>2 DEF BitIn
  <2>4. CASE q < Len(b) /\ q = d
    <3>1. k = i <=> k % Byte = i % Byte
      <4>1. k = Byte * q + (k % Byte) /\ i = Byte * d + (i % Byte)
        BY BitPlace
      <4> HIDE DEF q, d
      <4> QED
        BY <2>4, <4>1
    <3>2. BitIn(n, k) <=> k % Byte \in x
      BY <1>4, <2>4 DEF BitIn
    <3>3. BitIn(b, k) <=> k % Byte \in b[p]
      BY <2>4 DEF BitIn
    <3> HIDE DEF n
    <3> QED
      BY <3>1, <3>2, <3>3
  <2> QED
    BY <2>1, <2>2, <2>3, <2>4 DEF ByteSeqs
<1> QED
  BY <1>4, <1>5

\* A sequence of bytes that grows keeps its bits.
LEMMA ResizedKeeps ==
  ASSUME NEW b \in ByteSeqs, NEW n \in Nat
  PROVE  /\ Resized(b, n) \in ByteSeqs
         /\ Len(Resized(b, n)) = IF n >= Len(b) THEN n ELSE Len(b)
         /\ \A k \in Nat : BitIn(Resized(b, n), k) <=> BitIn(b, k)
<1> DEFINE more == Max({0, n - Len(b)})
           e == [i \in 1 .. more |-> {}]
           r == Resized(b, n)
<1>1. Len(b) \in Nat /\ more = IF n >= Len(b) THEN n - Len(b) ELSE 0
  BY OfTwo DEF ByteSeqs
<1>2. more \in Nat
  BY <1>1
<1> HIDE DEF more
<1>3. e \in ByteSeqs /\ Len(e) = more /\ \A i \in 1 .. more : e[i] = {}
  BY <1>2 DEF ByteSeqs
<1>4. r = b \o e
  BY DEF Resized, more
<1> HIDE DEF e, r
<1>5. /\ r \in ByteSeqs /\ Len(r) = Len(b) + more
      /\ \A i \in 1 .. Len(b) + more : r[i] = IF i <= Len(b) THEN b[i] ELSE e[i - Len(b)]
  BY <1>3, <1>4, ConcatProperties DEF ByteSeqs
<1>6. Len(r) = IF n >= Len(b) THEN n ELSE Len(b)
  BY <1>1, <1>5
<1>7. ASSUME NEW k \in Nat PROVE BitIn(r, k) <=> BitIn(b, k)
  <2> DEFINE q == k \div Byte
  <2>1. q \in Nat
    BY BitPlace
  <2>2. CASE q < Len(b)
    <3>1. q + 1 \in 1 .. Len(b) + more /\ q + 1 <= Len(b) /\ q < Len(r)
      BY <1>1, <1>2, <1>5, <2>1, <2>2
    <3>2. r[q + 1] = b[q + 1]
      BY <1>5, <3>1
    <3> QED
      BY <2>2, <3>1, <3>2 DEF BitIn
  <2>3. CASE q >= Len(b) /\ q < Len(r)
    <3>1. q + 1 \in 1 .. Len(b) + more /\ ~(q + 1 <= Len(b)) /\ q + 1 - Len(b) \in 1 .. more
      BY <1>1, <1>2, <1>5, <2>1, <2>3
    <3>2. r[q + 1] = {}
      BY <1>3, <1>5, <3>1
    <3>3. ~(q < Len(b))
      BY <1>1, <2>1, <2>3
    <3> QED
      BY <3>2, <3>3 DEF BitIn
  <2>4. CASE q >= Len(r)
    <3>1. ~(q < Len(r)) /\ ~(q < Len(b))
      BY <1>1, <1>2, <1>5, <2>1, <2>4
    <3> QED
      BY <3>1 DEF BitIn
  <2>5. q < Len(b) \/ (q >= Len(b) /\ q < Len(r)) \/ q >= Len(r)
    BY <1>1, <1>2, <1>5, <2>1
  <2> QED
    BY <2>2, <2>3, <2>4, <2>5
<1> QED
  BY <1>5, <1>6, <1>7 DEF r

\* What an update of a bit array rests on.
BitArray(t, b, n) == [t |-> t, bytes |-> b, len |-> n]

\* What IsBits says of a value, which is then neither a fault nor a number.
LEMMA BitArrayFacts ==
  ASSUME NEW c
  PROVE  /\ IsBits(c) <=> /\ c.t \in {"BITSET", "BITVEC"} /\ c = BitArray(c.t, c.bytes, c.len)
                          /\ c.bytes \in ByteSeqs /\ c.len \in Nat
         /\ IsBits(c) => ~IsFault(c) /\ ~IsInteger(c)
BY DEF IsBits, BitArray, ByteSeqs, IsFault, IsInteger, IntTypes, SignedTypes, UnsignedTypes

\* A bit array made of bytes and a length, and with others in their place.
LEMMA BitArrayMade ==
  ASSUME NEW t \in {"BITSET", "BITVEC"}, NEW b \in ByteSeqs, NEW n \in Nat
  PROVE  /\ IsBits(BitArray(t, b, n))
         /\ BitArray(t, b, n).t = t
         /\ BitArray(t, b, n).bytes = b
         /\ BitArray(t, b, n).len = n
BY DEF IsBits, BitArray, ByteSeqs

\* The same, one field after the other.
LEMMA BitArrayExcept ==
  ASSUME NEW t, NEW b, NEW n, NEW c, c = BitArray(t, b, n)
  PROVE  /\ \A d : [c EXCEPT !.bytes = d] = BitArray(t, d, n)
         /\ \A k : [c EXCEPT !.len = k] = BitArray(t, b, k)
BY DEF BitArray

\* Two bit arrays with the same bits in their bytes have the same members.
LEMMA MembersOf ==
  ASSUME NEW b \in ByteSeqs, NEW c, c.bytes = b, NEW S \in SUBSET Nat,
         \A k \in Nat : BitIn(b, k) <=> k \in S
  PROVE  Members(c) = S
BY MembersAreBits

\* grow_to: more room, the same bits.
LEMMA GrowToKeeps ==
  ASSUME NEW c, IsBits(c), NEW n \in Nat
  PROVE  LET g == GrowTo(c, n)
         IN  /\ IsBits(g) /\ g.t = c.t /\ Members(g) = Members(c)
             /\ g.len >= c.len /\ g.len = Max({c.len, n})
             /\ Len(g.bytes) = IF BytesFor(n) >= Len(c.bytes) THEN BytesFor(n) ELSE Len(c.bytes)
             /\ \A k \in Nat : BitIn(g.bytes, k) <=> BitIn(c.bytes, k)
<1> DEFINE r == Resized(c.bytes, BytesFor(n))
           l == Max({c.len, n})
<1>1. /\ c.t \in {"BITSET", "BITVEC"} /\ c = BitArray(c.t, c.bytes, c.len)
      /\ c.bytes \in ByteSeqs /\ c.len \in Nat
  BY BitArrayFacts
<1>2. BytesFor(n) \in Nat
  BY RoomForBits
<1>3. /\ r \in ByteSeqs
      /\ Len(r) = IF BytesFor(n) >= Len(c.bytes) THEN BytesFor(n) ELSE Len(c.bytes)
      /\ \A k \in Nat : BitIn(r, k) <=> BitIn(c.bytes, k)
  BY <1>1, <1>2, ResizedKeeps
<1>4. l \in Nat /\ l >= c.len
  BY <1>1, OfTwo
<1> HIDE DEF r, l
<1>5. GrowTo(c, n) = BitArray(c.t, r, l)
  <2>1. GrowTo(c, n) = [c EXCEPT !.bytes = r, !.len = l]
    BY DEF GrowTo, r, l
  <2> DEFINE x == [c EXCEPT !.bytes = r]
  <2>2. x = BitArray(c.t, r, c.len)
    BY <1>1, BitArrayExcept
  <2> HIDE DEF x
  <2>3. [x EXCEPT !.len = l] = BitArray(c.t, r, l)
    BY <2>2, BitArrayExcept
  <2> QED
    BY <2>1, <2>3 DEF x
<1>6. IsBits(BitArray(c.t, r, l)) /\ BitArray(c.t, r, l).bytes = r /\ BitArray(c.t, r, l).len = l
      /\ BitArray(c.t, r, l).t = c.t
  BY <1>1, <1>3, <1>4, BitArrayMade
<1>7. Members(BitArray(c.t, r, l)) = Members(c)
  <2>1. Members(c) \in SUBSET Nat /\ \A k \in Nat : BitIn(c.bytes, k) <=> k \in Members(c)
    BY <1>1, MembersAreBits
  <2>2. \A k \in Nat : BitIn(r, k) <=> k \in Members(c)
    BY <1>3, <2>1
  <2> QED
    BY <1>3, <1>6, <2>1, <2>2, MembersOf
<1> QED
  BY <1>3, <1>4, <1>5, <1>6, <1>7 DEF l

\* BIT_SET and BIT_FLIP: the bit, where there is room or room is made.
LEMMA WithBitChanges ==
  ASSUME NEW c, IsBits(c), NEW i \in Nat, NEW w \in Nat, NEW on \in BOOLEAN,
         w = Wrap("UINT32", i + 1), ~IsFault(WithBit(c, i, on))
  PROVE  LET g == WithBit(c, i, on)
         IN  /\ IsBits(g) /\ g.len >= c.len
             /\ Members(g) = IF on THEN Members(c) \cup {i} ELSE Members(c) \ {i}
<1> DEFINE g == IF i \div Byte >= Len(c.bytes) THEN GrowTo(c, w) ELSE c
<1>1. /\ IsBits(g) /\ g.len >= c.len
      /\ \A k \in Nat : BitIn(g.bytes, k) <=> BitIn(c.bytes, k)
  <2>1. c.len \in Nat
    BY BitArrayFacts
  <2>2. CASE i \div Byte >= Len(c.bytes)
    BY <2>2, GrowToKeeps
  <2>3. CASE ~(i \div Byte >= Len(c.bytes))
    BY <2>1, <2>3
  <2> QED
    BY <2>2, <2>3
<1>2. WithBit(c, i, on) = IF i \div Byte >= Len(g.bytes) THEN Panic
                          ELSE [g EXCEPT !.bytes = PutBit(g.bytes, i, on)]
  BY DEF WithBit
<1> HIDE DEF g
<1>3. ~(i \div Byte >= Len(g.bytes))
  BY <1>2 DEF IsFault, Panic, Fault
<1>4. /\ g.t \in {"BITSET", "BITVEC"} /\ g = BitArray(g.t, g.bytes, g.len)
      /\ g.bytes \in ByteSeqs /\ g.len \in Nat
  BY <1>1, BitArrayFacts
<1>5. i \div Byte < Len(g.bytes)
  <2>1. i \div Byte \in Nat
    BY BitPlace
  <2>2. Len(g.bytes) \in Nat
    BY <1>4 DEF ByteSeqs
  <2> QED
    BY <1>3, <2>1, <2>2
<1> DEFINE b == PutBit(g.bytes, i, on)
<1>6. /\ b \in ByteSeqs
      /\ \A k \in Nat : BitIn(b, k) <=> IF k = i THEN on ELSE BitIn(g.bytes, k)
  BY <1>4, <1>5, PutBitChanges
<1> HIDE DEF b
<1>7. WithBit(c, i, on) = BitArray(g.t, b, g.len)
  <2>1. WithBit(c, i, on) = [g EXCEPT !.bytes = b]
    BY <1>2, <1>3 DEF b
  <2> QED
    BY <1>4, <2>1 DEF BitArray
<1>8. /\ IsBits(BitArray(g.t, b, g.len)) /\ BitArray(g.t, b, g.len).bytes = b
      /\ BitArray(g.t, b, g.len).len = g.len
  BY <1>4, <1>6, BitArrayMade
<1>9. Members(BitArray(g.t, b, g.len)) = IF on THEN Members(c) \cup {i} ELSE Members(c) \ {i}
  <2> DEFINE S == IF on THEN Members(c) \cup {i} ELSE Members(c) \ {i}
  <2>1. Members(c) \in SUBSET Nat /\ \A k \in Nat : BitIn(c.bytes, k) <=> k \in Members(c)
    BY BitArrayFacts, MembersAreBits
  <2>2. S \in SUBSET Nat /\ \A k \in Nat : BitIn(b, k) <=> k \in S
    BY <1>1, <1>6, <2>1
  <2> QED
    BY <1>6, <1>8, <2>2, MembersOf
<1> QED
  BY <1>1, <1>7, <1>8, <1>9

\* A bit array with other bytes, whose bits are S.
LEMMA OtherBytes ==
  ASSUME NEW c, IsBits(c), NEW b \in ByteSeqs, NEW S \in SUBSET Nat,
         \A k \in Nat : BitIn(b, k) <=> k \in S
  PROVE  LET d == [c EXCEPT !.bytes = b]
         IN  IsBits(d) /\ d.t = c.t /\ d.len = c.len /\ Members(d) = S
<1>1. c.t \in {"BITSET", "BITVEC"} /\ c = BitArray(c.t, c.bytes, c.len) /\ c.len \in Nat
  BY BitArrayFacts
<1> DEFINE d == [c EXCEPT !.bytes = b]
<1>2. d = BitArray(c.t, b, c.len)
  BY <1>1, BitArrayExcept
<1> HIDE DEF d
<1>3. IsBits(d) /\ d.t = c.t /\ d.bytes = b /\ d.len = c.len
  BY <1>1, <1>2, BitArrayMade
<1>4. Members(d) = S
  BY <1>3, MembersOf
<1> QED
  BY <1>3, <1>4 DEF d

\* BIT_CLR, where there is such a byte.
LEMMA WithoutBitChanges ==
  ASSUME NEW c, IsBits(c), NEW i \in Nat
  PROVE  LET g == WithoutBit(c, i)
         IN  IsBits(g) /\ g.len = c.len /\ Members(g) = Members(c) \ {i}
<1>1. c.bytes \in ByteSeqs
  BY BitArrayFacts
<1>2. Members(c) \in SUBSET Nat /\ \A k \in Nat : BitIn(c.bytes, k) <=> k \in Members(c)
  BY <1>1, MembersAreBits
<1>3. CASE i \div Byte < Len(c.bytes)
  <2> DEFINE b == PutBit(c.bytes, i, FALSE)
             S == Members(c) \ {i}
  <2>1. /\ b \in ByteSeqs
        /\ \A k \in Nat : BitIn(b, k) <=> IF k = i THEN FALSE ELSE BitIn(c.bytes, k)
    BY <1>1, <1>3, PutBitChanges
  <2>2. WithoutBit(c, i) = [c EXCEPT !.bytes = b]
    BY <1>3 DEF WithoutBit
  <2> HIDE DEF b
  <2>3. S \in SUBSET Nat /\ \A k \in Nat : BitIn(b, k) <=> k \in S
    BY <1>2, <2>1
  <2> HIDE DEF S
  <2>4. LET d == [c EXCEPT !.bytes = b]
        IN  IsBits(d) /\ d.t = c.t /\ d.len = c.len /\ Members(d) = S
    BY <2>1, <2>3, OtherBytes
  <2> QED
    BY <2>2, <2>4 DEF S
<1>4. CASE ~(i \div Byte < Len(c.bytes))
  <2>1. WithoutBit(c, i) = c
    BY <1>4 DEF WithoutBit
  <2>2. i \notin Members(c)
    BY <1>2, <1>4 DEF BitIn
  <2> QED
    BY <2>1, <2>2
<1> QED
  BY <1>3, <1>4

\* A byte that is there has an index.
LEMMA ByteIndex ==
  ASSUME NEW k \in Nat, NEW n \in Nat
  PROVE  /\ k \div Byte < n => k \div Byte + 1 \in 1 .. n
         /\ \A m \in Nat : k \div Byte < n /\ n <= m => k \div Byte < m
<1> DEFINE q == k \div Byte
<1>1. q \in Nat
  BY BitPlace
<1> HIDE DEF q
<1>2. /\ q < n => q + 1 \in 1 .. n
      /\ \A m \in Nat : q < n /\ n <= m => q < m
  BY <1>1
<1> QED
  BY <1>2 DEF q

\* A sequence made byte by byte.
LEMMA MadeOfBytes ==
  ASSUME NEW n \in Nat, NEW f \in [1 .. n -> SUBSET (0 .. Byte - 1)]
  PROVE  /\ f \in ByteSeqs /\ Len(f) = n
         /\ \A k \in Nat : BitIn(f, k) <=> k \div Byte < n /\ k % Byte \in f[k \div Byte + 1]
<1>1. f \in ByteSeqs /\ Len(f) = n
  BY DEF ByteSeqs
<1> QED
  BY <1>1 DEF BitIn

\* BIT_AND, BIT_OR and BIT_XOR, byte by byte.
LEMMA CombinedChanges ==
  ASSUME NEW c, IsBits(c), NEW s, IsBits(s), c.t = "BITSET", s.t = "BITSET",
         NEW op \in {"BIT_AND", "BIT_OR", "BIT_XOR"}
  PROVE  LET g == BitsetCombined(op, c, s)
             S == Members(c)
             T == Members(s)
         IN  /\ IsBits(g) /\ g.len = c.len
             /\ Members(g) = CASE op = "BIT_AND" -> S \cap T
                               [] op = "BIT_OR"  -> S \cup T
                               [] op = "BIT_XOR" -> SymDiff(S, T)
<1> DEFINE S == Members(c)
           T == Members(s)
           B == 0 .. Byte - 1
           other(i) == IF i <= Len(s.bytes) THEN s.bytes[i] ELSE {}
           longer == Resized(c.bytes, Len(s.bytes))
           R == CASE op = "BIT_AND" -> S \cap T
                  [] op = "BIT_OR"  -> S \cup T
                  [] op = "BIT_XOR" -> SymDiff(S, T)
           b == CASE op = "BIT_AND" -> [i \in DOMAIN c.bytes |-> c.bytes[i] \cap other(i)]
                  [] op = "BIT_OR"  -> [i \in DOMAIN longer |-> longer[i] \cup other(i)]
                  [] op = "BIT_XOR" -> [i \in DOMAIN longer |-> SymDiff(longer[i], other(i))]
<1>1. BitsetCombined(op, c, s) = [c EXCEPT !.bytes = b]
  BY DEF BitsetCombined
<1>2. c.bytes \in ByteSeqs /\ s.bytes \in ByteSeqs /\ Len(c.bytes) \in Nat /\ Len(s.bytes) \in Nat
  BY BitArrayFacts DEF ByteSeqs
<1>3. /\ longer \in ByteSeqs /\ Len(longer) \in Nat
      /\ Len(longer) >= Len(c.bytes) /\ Len(longer) >= Len(s.bytes)
      /\ \A k \in Nat : BitIn(longer, k) <=> BitIn(c.bytes, k)
  <2>1. /\ longer \in ByteSeqs
        /\ Len(longer) = IF Len(s.bytes) >= Len(c.bytes) THEN Len(s.bytes) ELSE Len(c.bytes)
        /\ \A k \in Nat : BitIn(longer, k) <=> BitIn(c.bytes, k)
    BY <1>2, ResizedKeeps
  <2> QED
    BY <1>2, <2>1
<1>4. \A i \in Nat \ {0} : other(i) \in SUBSET B
  BY <1>2 DEF ByteSeqs
<1>5. \A k \in Nat : k % Byte \in other(k \div Byte + 1) <=> BitIn(s.bytes, k)
  <2> TAKE k \in Nat
  <2>1. k \div Byte \in Nat
    BY BitPlace
  <2> QED
    BY <1>2, <2>1 DEF BitIn
<1>6. /\ S \in SUBSET Nat /\ \A k \in Nat : BitIn(c.bytes, k) <=> k \in S
      /\ T \in SUBSET Nat /\ \A k \in Nat : BitIn(s.bytes, k) <=> k \in T
  BY <1>2, MembersAreBits
<1>7. DOMAIN c.bytes = 1 .. Len(c.bytes) /\ DOMAIN longer = 1 .. Len(longer)
  BY <1>2, <1>3 DEF ByteSeqs
<1>8. /\ \A i \in 1 .. Len(c.bytes) : c.bytes[i] \in SUBSET B
      /\ \A i \in 1 .. Len(longer) : longer[i] \in SUBSET B
  BY <1>2, <1>3 DEF ByteSeqs
<1>9. \A k \in Nat : k \div Byte \in Nat
  BY BitPlace
<1> HIDE DEF other, longer, S, T, B
<1>10. b \in ByteSeqs /\ R \in SUBSET Nat /\ \A k \in Nat : BitIn(b, k) <=> k \in R
  <2>1. CASE op = "BIT_AND"
    <3> DEFINE f == [i \in 1 .. Len(c.bytes) |-> c.bytes[i] \cap other(i)]
    <3>1. b = f /\ R = S \cap T
      BY <1>7, <2>1
    <3>2. f \in [1 .. Len(c.bytes) -> SUBSET B]
      BY <1>8
    <3>3. \A k \in Nat : k \div Byte < Len(c.bytes) =>
              f[k \div Byte + 1] = c.bytes[k \div Byte + 1] \cap other(k \div Byte + 1)
      BY <1>2, ByteIndex
    <3> HIDE DEF f
    <3>4. /\ f \in ByteSeqs
          /\ \A k \in Nat : BitIn(f, k) <=> k \div Byte < Len(c.bytes)
                                            /\ k % Byte \in f[k \div Byte + 1]
      BY <1>2, <3>2, MadeOfBytes DEF B
    <3>5. \A k \in Nat : BitIn(f, k) <=> BitIn(c.bytes, k) /\ BitIn(s.bytes, k)
      BY <1>5, <3>3, <3>4 DEF BitIn
    <3> HIDE DEF b, R
    <3> QED
      BY <1>6, <3>1, <3>4, <3>5
  <2>2. CASE op = "BIT_OR"
    <3> DEFINE f == [i \in 1 .. Len(longer) |-> longer[i] \cup other(i)]
    <3>1. b = f /\ R = S \cup T
      BY <1>7, <2>2
    <3>2. f \in [1 .. Len(longer) -> SUBSET B]
      BY <1>4, <1>8
    <3>3. \A k \in Nat : k \div Byte < Len(longer) =>
              f[k \div Byte + 1] = longer[k \div Byte + 1] \cup other(k \div Byte + 1)
      BY <1>3, ByteIndex
    <3> HIDE DEF f
    <3>4. /\ f \in ByteSeqs
          /\ \A k \in Nat : BitIn(f, k) <=> k \div Byte < Len(longer)
                                            /\ k % Byte \in f[k \div Byte + 1]
      BY <1>3, <3>2, MadeOfBytes DEF B
    <3>5. \A k \in Nat : BitIn(s.bytes, k) => k \div Byte < Len(longer)
      BY <1>2, <1>3, ByteIndex DEF BitIn
    <3>6. \A k \in Nat : BitIn(f, k) <=> BitIn(longer, k) \/ BitIn(s.bytes, k)
      BY <1>5, <3>3, <3>4, <3>5 DEF BitIn
    <3> HIDE DEF b, R
    <3> QED
      BY <1>3, <1>6, <3>1, <3>4, <3>6
  <2>3. CASE op = "BIT_XOR"
    <3> DEFINE f == [i \in 1 .. Len(longer) |-> SymDiff(longer[i], other(i))]
    <3>1. b = f /\ R = (S \ T) \cup (T \ S)
      BY <1>7, <2>3 DEF SymDiff
    <3>2. f \in [1 .. Len(longer) -> SUBSET B]
      BY <1>4, <1>8 DEF SymDiff
    <3>3. \A k \in Nat : k \div Byte < Len(longer) =>
              f[k \div Byte + 1] = (longer[k \div Byte + 1] \ other(k \div Byte + 1))
                                   \cup (other(k \div Byte + 1) \ longer[k \div Byte + 1])
      BY <1>3, ByteIndex DEF SymDiff
    <3> HIDE DEF f
    <3>4. /\ f \in ByteSeqs
          /\ \A k \in Nat : BitIn(f, k) <=> k \div Byte < Len(longer)
                                            /\ k % Byte \in f[k \div Byte + 1]
      BY <1>3, <3>2, MadeOfBytes DEF B
    <3>5. \A k \in Nat : BitIn(s.bytes, k) => k \div Byte < Len(longer)
      BY <1>2, <1>3, ByteIndex DEF BitIn
    <3>6. \A k \in Nat : BitIn(f, k) <=> ~(BitIn(longer, k) <=> BitIn(s.bytes, k))
      BY <1>5, <3>3, <3>4, <3>5 DEF BitIn
    <3> HIDE DEF b, R
    <3> QED
      BY <1>3, <1>6, <3>1, <3>4, <3>6
  <2> QED
    BY <2>1, <2>2, <2>3
<1> HIDE DEF b, R
<1>11. LET d == [c EXCEPT !.bytes = b]
       IN  IsBits(d) /\ d.t = c.t /\ d.len = c.len /\ Members(d) = R
  BY <1>10, OtherBytes
<1> QED
  BY <1>1, <1>11 DEF R, S, T

\* The low bits of a number are the same whatever the width they are cut from.
LEMMA LowBits ==
  ASSUME NEW w \in 0 .. Widest, NEW v \in Int
  PROVE  BitsOf(v, Widest) \cap 0 .. w - 1 = BitsOf(v, w)
<1>1. Widest \in Nat
  BY PlacesFacts
<1>2. ASSUME NEW u \in 0 .. Widest, NEW i \in 0 .. u - 1
      PROVE  ((v % 2 ^ u) \div 2 ^ i) % 2 = (v \div 2 ^ i) % 2
  <2> DEFINE m == 2 ^ u
             b == v \div m
             r == v % m
  <2>1. m \in Nat \ {0}
    BY <1>1, PowersPositive
  <2>2. r \in Int /\ b \in Int /\ v = m * b + r
    <3> HIDE DEF m
    <3> QED
      BY <2>1, DivMod
  <2>3. v = r + b * m
    <3> HIDE DEF m, b, r
    <3> QED
      BY <2>1, <2>2
  <2>4. ((r + b * m) \div 2 ^ i) % 2 = (r \div 2 ^ i) % 2
    <3> HIDE DEF b, r
    <3> QED
      BY <2>2, HighPowersKeepBits
  <2> QED
    BY <2>3, <2>4
<1>3. Widest \in 0 .. Widest /\ 0 .. w - 1 \subseteq 0 .. Widest - 1
  BY <1>1
<1>4. \A i \in 0 .. w - 1 : ((v % 2 ^ Widest) \div 2 ^ i) % 2 = ((v % 2 ^ w) \div 2 ^ i) % 2
  BY <1>2, <1>3
<1> QED
  BY <1>3, <1>4 DEF BitsOf

\* The width of a field, which read_bits and write_bits cut at 64.
LEMMA WidthOfField ==
  ASSUME NEW len \in Nat
  PROVE  /\ Width(len) \in Nat /\ Width(len) \in 0 .. Widest
         /\ Width(len) = FieldWidth(len) /\ Bits["UINT64"] = Widest
<1>1. Widest \in Nat /\ Bits["UINT64"] = Widest
  BY PlacesFacts, BitsAssumption DEF Widest
<1>2. Width(len) = IF len <= Widest THEN len ELSE Widest
  BY <1>1, OfTwo DEF Width
<1> QED
  BY <1>1, <1>2 DEF Width, FieldWidth

\* A bit number is a u64, and where the sum fits in one it is the sum.
LEMMA Places64 ==
  ASSUME NEW start \in Nat, NEW i \in Nat
  PROVE  /\ Place(start, i) \in Nat
         /\ start + i < 2 ^ Bits["UINT64"] => Place(start, i) = start + i
<1> DEFINE n == start + i
           m == 2 ^ Bits["UINT64"]
<1>1. n \in Nat /\ "UINT64" \in IntTypes
  BY DEF IntTypes, UnsignedTypes
<1>2. Least("UINT64") = 0 /\ Greatest("UINT64") = m - 1 /\ m \in Nat
  <2>1. Least("UINT64") = 0 /\ Greatest("UINT64") = 2 ^ (Bits["UINT64"] - 0) - 1
    BY DEF Least, Greatest, SignedTypes
  <2>2. Bits["UINT64"] - 0 = Bits["UINT64"] /\ 2 ^ Bits["UINT64"] \in Nat
    BY <1>1, WidthFacts, BitsAssumption
  <2> QED
    BY <2>1, <2>2
<1> HIDE DEF n, m
<1>3. Wrap("UINT64", n) \in Nat
  BY <1>1, <1>2, WrapInRange
<1>4. ASSUME n < m PROVE Wrap("UINT64", n) = n
  BY <1>1, <1>2, <1>4, WrapFixes
<1> QED
  BY <1>3, <1>4 DEF Place, n, m

\* Overwriting a field: its bits are those told, where they have a byte, and the
\* other bits are as they were.
LEMMA OverwrittenKeeps ==
  ASSUME NEW c, IsBits(c), NEW field \in SUBSET Nat, NEW on \in SUBSET field
  PROVE  LET g == Overwritten(c, field, on)
         IN  /\ IsBits(g) /\ g.len = c.len
             /\ HasBytes(c, field) => Members(g) = (Members(c) \ field) \cup on
<1> DEFINE b == c.bytes
           byte(j) == {i \in 0 .. Byte - 1 :
                         IF Byte * (j - 1) + i \in field THEN Byte * (j - 1) + i \in on
                         ELSE i \in b[j]}
           f == [j \in DOMAIN b |-> byte(j)]
           S == (Members(c) \ field) \cup on
           g == Overwritten(c, field, on)
<1>1. /\ c.t \in {"BITSET", "BITVEC"} /\ c = BitArray(c.t, b, c.len)
      /\ b \in ByteSeqs /\ c.len \in Nat
  BY BitArrayFacts
<1>2. g = [c EXCEPT !.bytes = f]
  BY DEF Overwritten
<1>3. Len(b) \in Nat /\ DOMAIN b = 1 .. Len(b)
  BY <1>1 DEF ByteSeqs
<1> HIDE DEF b, g
<1>4. /\ f \in ByteSeqs
      /\ \A k \in Nat : BitIn(f, k) <=> /\ k \div Byte < Len(b)
                                       /\ IF k \in field THEN k \in on ELSE BitIn(b, k)
  <2>1. f \in [1 .. Len(b) -> SUBSET (0 .. Byte - 1)]
    BY <1>3
  <2>2. /\ f \in ByteSeqs
        /\ \A k \in Nat : BitIn(f, k) <=> k \div Byte < Len(b)
                                          /\ k % Byte \in f[k \div Byte + 1]
    <3> HIDE DEF f
    <3> QED
      BY <1>3, <2>1, MadeOfBytes
  <2>3. ASSUME NEW k \in Nat, k \div Byte < Len(b)
        PROVE  k % Byte \in f[k \div Byte + 1]
                 <=> IF k \in field THEN k \in on ELSE k % Byte \in b[k \div Byte + 1]
    <3> DEFINE q == k \div Byte
               i == k % Byte
    <3>1. q \in Nat /\ i \in 0 .. Byte - 1 /\ k = Byte * q + i /\ q + 1 \in DOMAIN b
      BY <1>3, <2>3, BitPlace, ByteIndex
    <3> HIDE DEF q, i
    <3>2. q + 1 - 1 = q
      BY <3>1
    <3>3. f[q + 1] = byte(q + 1)
      BY <3>1
    <3>4. i \in byte(q + 1) <=> IF k \in field THEN k \in on ELSE i \in b[q + 1]
      BY <3>1, <3>2
    <3> QED
      BY <3>3, <3>4 DEF q, i
  <2> HIDE DEF f
  <2> QED
    BY <2>2, <2>3 DEF BitIn
<1> HIDE DEF f
<1>5. g = BitArray(c.t, f, c.len)
  BY <1>1, <1>2, BitArrayExcept
<1>6. IsBits(g) /\ g.bytes = f /\ g.len = c.len
  BY <1>1, <1>4, <1>5, BitArrayMade
<1>7. Members(c) \in SUBSET Nat /\ \A k \in Nat : BitIn(b, k) <=> k \in Members(c)
  BY <1>1, MembersAreBits DEF b
<1>8. ASSUME HasBytes(c, field) PROVE Members(g) = S
  <2>1. S \in SUBSET Nat
    BY <1>7
  <2>2. \A k \in Nat : k \in field => k \div Byte < Len(b)
    BY <1>8 DEF HasBytes, b
  <2>3. \A k \in Nat : BitIn(b, k) => k \div Byte < Len(b)
    BY DEF BitIn
  <2>4. \A k \in Nat : BitIn(f, k) <=> k \in S
    BY <1>4, <1>7, <2>2, <2>3
  <2> HIDE DEF S
  <2> QED
    BY <1>4, <1>6, <2>1, <2>4, MembersOf
<1> QED
  BY <1>6, <1>8 DEF g

\* write_bits: a bit array again, and if the field ends within the u64, it holds the
\* value cut to its width and the other bits are as they were.
LEMMA BitsWrittenIsWritten ==
  ASSUME NEW c, IsBits(c), NEW start \in Nat, NEW len \in Nat, NEW v \in Int,
         ~IsFault(BitsWritten(c, start, len, v))
  PROVE  LET g == BitsWritten(c, start, len, v)
         IN  IsBits(g) /\ (FitsU64(start, len) => Written(c, g, start, len, v))
<1> DEFINE w == Width(len)
           e == Place(start, w)
           d == GrowTo(c, e)
           low == BitsOf(v, w)
           on == {Place(start, i) : i \in low}
           field == {Place(start, i) : i \in 0 .. w - 1}
           g == BitsWritten(c, start, len, v)
<1>1. w \in Nat /\ w \in 0 .. Widest /\ w = FieldWidth(len) /\ Bits["UINT64"] = Widest
  BY WidthOfField
<1>2. BitsOf(v, Bits["UINT64"]) \cap 0 .. w - 1 = low
  BY <1>1, LowBits
<1> HIDE DEF w
<1>3. low \in SUBSET (0 .. w - 1) /\ 0 .. w - 1 \in SUBSET Nat
  BY <1>1 DEF BitsOf
<1> HIDE DEF low
<1>4. e \in Nat /\ field \in SUBSET Nat /\ on \in SUBSET field
  BY <1>1, <1>3, Places64
<1>5. g = IF HasBytes(d, field) THEN Overwritten(d, field, on) ELSE Panic
  BY <1>1, <1>2 DEF BitsWritten
<1> HIDE DEF e, field, on
<1>6. IsBits(d) /\ Members(d) = Members(c) /\ d.len = Max({c.len, e})
  BY <1>4, GrowToKeeps
<1> HIDE DEF d, g
<1>7. HasBytes(d, field) /\ g = Overwritten(d, field, on)
  BY <1>5 DEF g, IsFault, Panic, Fault
<1>8. IsBits(g) /\ g.len = d.len /\ Members(g) = (Members(d) \ field) \cup on
  BY <1>4, <1>6, <1>7, OverwrittenKeeps
<1>9. ASSUME FitsU64(start, len) PROVE Written(c, g, start, len, v)
  <2>1. start + w < 2 ^ Bits["UINT64"]
    BY <1>9 DEF FitsU64, w
  <2>2. 2 ^ Bits["UINT64"] \in Nat
    BY WidthFacts DEF IntTypes, UnsignedTypes
  <2> DEFINE m == 2 ^ Bits["UINT64"]
  <2>3. m \in Nat /\ start + w < m
    BY <2>1, <2>2
  <2> HIDE DEF m
  <2>4. /\ e = start + w
        /\ \A i \in 0 .. w - 1 : i \in Nat /\ start + i < m
    BY <1>1, <2>3, Places64 DEF e, m
  <2>5. \A i \in 0 .. w - 1 : Place(start, i) = start + i
    BY <2>4, Places64 DEF m
  <2>6. field = start .. start + w - 1
    <3>1. \A k \in start .. start + w - 1 : k - start \in 0 .. w - 1 /\ k = start + (k - start)
      BY <1>1
    <3>2. \A i \in 0 .. w - 1 : start + i \in start .. start + w - 1
      BY <1>1
    <3> QED
      BY <2>5, <3>1, <3>2 DEF field
  <2>7. on = {start + i : i \in low}
    BY <1>3, <2>5 DEF on
  <2>8. Members(g) \ field = Members(c) \ field
    BY <1>4, <1>6, <1>8
  <2>9. FieldValue(Members(g), start, w) = v % 2 ^ w
    <3>1. ASSUME NEW i \in 0 .. w - 1 PROVE start + i \in Members(g) <=> i \in low
      <4>1. start + i \in field
        BY <1>1, <2>6
      <4>2. \A j \in low : j \in Int
        BY <1>3
      <4>3. start + i \in on <=> i \in low
        BY <1>1, <2>7, <4>2
      <4> QED
        BY <1>8, <4>1, <4>3
    <3>2. {i \in 0 .. w - 1 : start + i \in Members(g)} = low
      BY <1>3, <3>1
    <3>3. FromBits(low) = v % 2 ^ w
      BY <1>1, BitsMakeTheNumber DEF low
    <3> QED
      BY <3>2, <3>3 DEF FieldValue
  <2>10. g.len = Max({c.len, start + w})
    BY <1>6, <1>8, <2>4
  <2> QED
    BY <2>6, <2>8, <2>9, <2>10 DEF Written, w
<1> QED
  BY <1>8, <1>9 DEF g

\* How BIT_COUNT counts, byte by byte.
CountIn(b) == MapThenSumSet(LAMBDA j : Cardinality(b[j]), DOMAIN b)

\* The equation of that fold.
IsCount(f, b, S) ==
  f = [s \in SUBSET S |-> IF s = {} THEN 0
                          ELSE LET x == CHOOSE x \in s : TRUE
                               IN  Cardinality(b[x]) + f[s \ {x}]]

\* The bits in a byte are as many as the bit numbers in it.
LEMMA BitsInByte ==
  ASSUME NEW b \in ByteSeqs, NEW j \in DOMAIN b
  PROVE  LET S == {k \in Nat : BitIn(b, k) /\ k \div Byte + 1 = j}
         IN  IsFiniteSet(S) /\ Cardinality(S) = Cardinality(b[j]) /\ Cardinality(S) \in Nat
<1> DEFINE S == {k \in Nat : BitIn(b, k) /\ k \div Byte + 1 = j}
           q == j - 1
           f == [i \in b[j] |-> Byte * q + i]
<1>1. q \in Nat /\ j = q + 1 /\ q < Len(b)
  BY DEF ByteSeqs
<1>2. b[j] \in SUBSET (0 .. Byte - 1) /\ IsFiniteSet(b[j])
  <2>1. b[j] \in SUBSET (0 .. Byte - 1)
    BY DEF ByteSeqs
  <2>2. IsFiniteSet(0 .. Byte - 1)
    <3>1. Byte - 1 \in Int
      BY ByteFacts
    <3> QED
      BY <3>1, FS_Interval
  <2> QED
    BY <2>1, <2>2, FS_Subset
<1> HIDE DEF q
<1>3. \A i \in b[j] : /\ Byte * q + i \in Nat
                      /\ (Byte * q + i) \div Byte = q /\ (Byte * q + i) % Byte = i
  BY <1>1, <1>2, BitAt
<1>4. f \in [b[j] -> S]
  <2>1. ASSUME NEW i \in b[j] PROVE Byte * q + i \in S
    <3>1. BitIn(b, Byte * q + i)
      BY <1>1, <1>3 DEF BitIn
    <3> QED
      BY <1>1, <1>3, <3>1
  <2> HIDE DEF S
  <2> QED
    BY <2>1
<1>5. \A i, k \in b[j] : f[i] = f[k] => i = k
  BY <1>3
<1>6. \A k \in S : \E i \in b[j] : f[i] = k
  <2> TAKE k \in S
  <2> DEFINE d == k \div Byte
             r == k % Byte
  <2>1. d \in Nat /\ k = Byte * d + r /\ d + 1 = j /\ r \in b[d + 1]
    BY BitPlace DEF BitIn
  <2> HIDE DEF d, r
  <2>2. d = q
    BY <1>1, <2>1
  <2>3. r \in b[j] /\ f[r] = k
    BY <2>1, <2>2
  <2> QED
    BY <2>3
<1>7. ExistsBijection(b[j], S)
  <2> HIDE DEF f, S
  <2> QED
    BY <1>4, <1>5, <1>6
    DEF ExistsBijection, Bijection, Injection, Surjection, IsInjective
<1>8. IsFiniteSet(S) /\ Cardinality(S) = Cardinality(b[j])
  <2> HIDE DEF S
  <2> QED
    BY <1>2, <1>7, FS_Bijection
<1> QED
  BY <1>8, FS_CardinalityType

\* The bits in all bytes are counted by counting those of each.
LEMMA CountIsSum ==
  ASSUME NEW b \in ByteSeqs
  PROVE  LET M == {k \in Nat : BitIn(b, k)}
             W == [j \in DOMAIN b |-> Cardinality(b[j])]
             cnt == [s \in SUBSET DOMAIN b |-> Cardinality({k \in M : k \div Byte + 1 \in s})]
         IN  IsSum(cnt, W, DOMAIN b) /\ cnt[DOMAIN b] = Cardinality(M)
<1> DEFINE M == {k \in Nat : BitIn(b, k)}
           U == DOMAIN b
           W == [j \in U |-> Cardinality(b[j])]
           At(s) == {k \in M : k \div Byte + 1 \in s}
           cnt == [s \in SUBSET U |-> Cardinality(At(s))]
<1>1. IsFiniteSet(M)
  <2>1. Byte * Len(b) \in Nat
    BY ByteFacts DEF ByteSeqs
  <2>2. Members([bytes |-> b]) \subseteq 0 .. Byte * Len(b) - 1
    BY DEF Members
  <2>3. M = Members([bytes |-> b])
    BY MembersAreBits
  <2>4. IsFiniteSet(0 .. Byte * Len(b) - 1)
    BY <2>1, FS_Interval
  <2> HIDE DEF M
  <2> QED
    BY <2>2, <2>3, <2>4, FS_Subset
<1>2. \A s : IsFiniteSet(At(s)) /\ Cardinality(At(s)) \in Nat
  <2> TAKE s
  <2>1. At(s) \subseteq M
    OBVIOUS
  <2> HIDE DEF At, M
  <2> QED
    BY <1>1, <2>1, FS_Subset, FS_CardinalityType
<1>3. At({}) = {}
  OBVIOUS
<1>4. At(U) = M
  <2>1. ASSUME NEW k \in M PROVE k \div Byte + 1 \in U
    <3>1. k \in Nat /\ k \div Byte < Len(b)
      BY DEF BitIn
    <3> QED
      BY <3>1, SameBytes
  <2> QED
    BY <2>1
<1>5. ASSUME NEW s \in SUBSET U, NEW e \in s PROVE cnt[s] = W[e] + cnt[s \ {e}]
  <2> DEFINE A == {k \in Nat : BitIn(b, k) /\ k \div Byte + 1 = e}
  <2>1. IsFiniteSet(A) /\ Cardinality(A) = Cardinality(b[e]) /\ Cardinality(A) \in Nat
    BY BitsInByte
  <2>2. At(s) = A \cup At(s \ {e}) /\ A \cap At(s \ {e}) = {}
    OBVIOUS
  <2>3. W[e] = Cardinality(b[e]) /\ cnt[s] = Cardinality(At(s))
        /\ cnt[s \ {e}] = Cardinality(At(s \ {e}))
    OBVIOUS
  <2> HIDE DEF A, At, cnt, W
  <2>4. Cardinality(At(s)) = Cardinality(A) + Cardinality(At(s \ {e})) - Cardinality({})
    BY <1>2, <2>1, <2>2, FS_Union
  <2> QED
    BY <1>2, <2>1, <2>3, <2>4, FS_EmptySet
<1>6. cnt \in [SUBSET U -> Nat] /\ cnt[{}] = 0
  <2> HIDE DEF At, U
  <2> QED
    BY <1>2, <1>3, FS_EmptySet
<1>7. cnt[U] = Cardinality(M)
  <2>1. cnt[U] = Cardinality(At(U))
    OBVIOUS
  <2> HIDE DEF At, cnt, M
  <2> QED
    BY <1>4, <2>1
<1> HIDE DEF cnt, W, M, U
<1>8. IsSum(cnt, W, U)
  BY <1>5, <1>6 DEF IsSum
<1> QED
  BY <1>7, <1>8 DEF cnt, W, M, U

\* BIT_COUNT counts the bits.
LEMMA CountIsCardinality ==
  ASSUME NEW b \in ByteSeqs
  PROVE  CountIn(b) = Cardinality({k \in Nat : BitIn(b, k)})
<1> DEFINE M == {k \in Nat : BitIn(b, k)}
           U == DOMAIN b
           W == [j \in U |-> Cardinality(b[j])]
           cnt == [s \in SUBSET U |-> Cardinality({k \in M : k \div Byte + 1 \in s})]
           iter == CHOOSE g : IsCount(g, b, U)
<1>1. IsSum(cnt, W, U) /\ cnt[U] = Cardinality(M)
  BY CountIsSum
<1> HIDE DEF cnt, M
<1>2. IsFiniteSet(U)
  BY FS_Interval DEF ByteSeqs
<1>3. CountIn(b) = iter[U]
  BY DEF CountIn, MapThenSumSet, MapThenFoldSet, IsCount
<1> DEFINE h == [s \in SUBSET U |-> cnt[s]]
<1>4. IsCount(h, b, U)
  <2>1. ASSUME NEW s \in SUBSET U
        PROVE  h[s] = IF s = {} THEN 0
                      ELSE LET x == CHOOSE x \in s : TRUE IN Cardinality(b[x]) + h[s \ {x}]
    <3>1. CASE s = {}
      BY <1>1, <3>1 DEF IsSum
    <3>2. CASE s # {}
      <4> DEFINE x == CHOOSE x \in s : TRUE
      <4>1. x \in s /\ x \in U
        BY <3>2
      <4>2. cnt[s] = W[x] + cnt[s \ {x}]
        BY <1>1, <4>1 DEF IsSum
      <4>3. W[x] = Cardinality(b[x])
        BY <4>1
      <4>4. h[s] = cnt[s] /\ h[s \ {x}] = cnt[s \ {x}]
        OBVIOUS
      <4> QED
        BY <3>2, <4>2, <4>3, <4>4
    <3> QED
      BY <3>1, <3>2
  <2> HIDE DEF h
  <2>2. h = [s \in SUBSET U |-> h[s]]
    BY DEF h
  <2> QED
    BY <2>1, <2>2 DEF IsCount
<1>5. IsCount(iter, b, U)
  BY <1>4
<1> HIDE DEF iter
<1>6. AddsUp(iter, W, U)
  <2>1. iter[{}] = 0
    BY <1>5 DEF IsCount
  <2>2. ASSUME NEW s \in SUBSET U, s # {} PROVE \E x \in s : iter[s] = W[x] + iter[s \ {x}]
    <3> DEFINE x == CHOOSE x \in s : TRUE
    <3>1. x \in s /\ x \in U
      BY <2>2
    <3>2. iter[s] = Cardinality(b[x]) + iter[s \ {x}]
      BY <1>5, <2>2 DEF IsCount
    <3> QED
      BY <3>1, <3>2
  <2> HIDE DEF W
  <2> QED
    BY <2>1, <2>2 DEF AddsUp
<1> HIDE DEF W, U
<1> QED
  BY <1>1, <1>2, <1>3, <1>6, SumInAnyOrder DEF M

-------------------------------------------------------------------------------
(* What instructions on bit arrays read and write.                           *)
\* The table g is f with a row for the opcodes of S that f does not cover.
RowAdded(g, f, S, s) ==
  /\ DOMAIN g = DOMAIN f \cup S
  /\ \A x \in DOMAIN f : g[x] = f[x]
  /\ \A x \in S \ DOMAIN f : g[x] = s

\* Adding the opcodes of a table made by Reading adds a row.
LEMMA MoreReading == \A f, S, s : RowAdded(f ++ Reading(S, s), f, S, s)
BY DEF RowAdded, ++, Reading

\* What the instructions that update a collection read.
LEMMA UpdatesRead ==
  /\ \A op \in {"PUSH", "ENQUEUE", "PREPEND", "BIT_AND", "BIT_OR", "BIT_XOR"} :
       op \in DOMAIN UpdateReads /\ UpdateReads[op] = << <<2, "V">> >>
  /\ \A op \in {"SET_IDX", "SPARSE_SET", "BTREE_SET"} :
       op \in DOMAIN UpdateReads /\ UpdateReads[op] = << <<2, "U">>, <<3, "V">> >>
  /\ "SET_FIELD" \in DOMAIN UpdateReads /\ UpdateReads["SET_FIELD"] = << <<2, "K">>, <<3, "V">> >>
  /\ "DEL_FIELD" \in DOMAIN UpdateReads /\ UpdateReads["DEL_FIELD"] = << <<2, "K">> >>
  /\ \A op \in {"SPARSE_DEL", "BTREE_DEL", "BIT_SET", "BIT_CLR", "BIT_FLIP", "BIT_GROW"} :
       op \in DOMAIN UpdateReads /\ UpdateReads[op] = << <<2, "U">> >>
  /\ "VEC_SORT" \in DOMAIN UpdateReads /\ UpdateReads["VEC_SORT"] = <<>>
  /\ /\ "BITVEC_WRITE" \in DOMAIN UpdateReads
     /\ UpdateReads["BITVEC_WRITE"] = << <<2, "W">>, <<3, "U">>, <<4, "W">> >>
  /\ /\ "BITVEC_PUSH" \in DOMAIN UpdateReads
     /\ UpdateReads["BITVEC_PUSH"] = << <<2, "W">>, <<3, "U">> >>
<1> DEFINE S1 == {"PUSH", "ENQUEUE", "PREPEND", "BIT_AND", "BIT_OR", "BIT_XOR"}
           S2 == {"SET_IDX", "SPARSE_SET", "BTREE_SET"}
           S5 == {"SPARSE_DEL", "BTREE_DEL", "BIT_SET", "BIT_CLR", "BIT_FLIP", "BIT_GROW"}
           R1 == Reading(S1, << <<2, "V">> >>)
           R2 == R1 ++ Reading(S2, << <<2, "U">>, <<3, "V">> >>)
           R3 == R2 ++ Reading({"SET_FIELD"}, << <<2, "K">>, <<3, "V">> >>)
           R4 == R3 ++ Reading({"DEL_FIELD"}, << <<2, "K">> >>)
           R5 == R4 ++ Reading(S5, << <<2, "U">> >>)
           R6 == R5 ++ Reading({"VEC_SORT"}, <<>>)
           R7 == R6 ++ Reading({"BITVEC_WRITE"}, << <<2, "W">>, <<3, "U">>, <<4, "W">> >>)
           R8 == R7 ++ Reading({"BITVEC_PUSH"}, << <<2, "W">>, <<3, "U">> >>)
<1>0. UpdateReads = R8
  BY DEF UpdateReads
<1>1. DOMAIN R1 = S1 /\ \A x \in S1 : R1[x] = << <<2, "V">> >>
  BY DEF Reading
<1> HIDE DEF R1
<1>2. RowAdded(R2, R1, S2, << <<2, "U">>, <<3, "V">> >>)
  BY MoreReading
<1> HIDE DEF R2
<1>3. RowAdded(R3, R2, {"SET_FIELD"}, << <<2, "K">>, <<3, "V">> >>)
  BY MoreReading
<1> HIDE DEF R3
<1>4. RowAdded(R4, R3, {"DEL_FIELD"}, << <<2, "K">> >>)
  BY MoreReading
<1> HIDE DEF R4
<1>5. RowAdded(R5, R4, S5, << <<2, "U">> >>)
  BY MoreReading
<1> HIDE DEF R5
<1>6. RowAdded(R6, R5, {"VEC_SORT"}, <<>>)
  BY MoreReading
<1> HIDE DEF R6
<1>7. RowAdded(R7, R6, {"BITVEC_WRITE"}, << <<2, "W">>, <<3, "U">>, <<4, "W">> >>)
  BY MoreReading
<1> HIDE DEF R7
<1>8. RowAdded(R8, R7, {"BITVEC_PUSH"}, << <<2, "W">>, <<3, "U">> >>)
  BY MoreReading
<1> HIDE DEF R8
<1>9. /\ \A x \in DOMAIN R1 : x \in DOMAIN R8 /\ R8[x] = R1[x]
      /\ \A x \in DOMAIN R2 : x \in DOMAIN R8 /\ R8[x] = R2[x]
      /\ \A x \in DOMAIN R3 : x \in DOMAIN R8 /\ R8[x] = R3[x]
      /\ \A x \in DOMAIN R4 : x \in DOMAIN R8 /\ R8[x] = R4[x]
      /\ \A x \in DOMAIN R5 : x \in DOMAIN R8 /\ R8[x] = R5[x]
      /\ \A x \in DOMAIN R6 : x \in DOMAIN R8 /\ R8[x] = R6[x]
      /\ \A x \in DOMAIN R7 : x \in DOMAIN R8 /\ R8[x] = R7[x]
  BY <1>2, <1>3, <1>4, <1>5, <1>6, <1>7, <1>8 DEF RowAdded
<1>10. /\ S2 \cap DOMAIN R1 = {} /\ "SET_FIELD" \notin DOMAIN R2 /\ "DEL_FIELD" \notin DOMAIN R3
       /\ S5 \cap DOMAIN R4 = {} /\ "VEC_SORT" \notin DOMAIN R5
       /\ "BITVEC_WRITE" \notin DOMAIN R6 /\ "BITVEC_PUSH" \notin DOMAIN R7
  BY <1>1, <1>2, <1>3, <1>4, <1>5, <1>6, <1>7 DEF RowAdded
<1> HIDE DEF S1, S2, S5
<1> QED
  BY <1>0, <1>1, <1>2, <1>3, <1>4, <1>5, <1>6, <1>7, <1>8, <1>9, <1>10
  DEF RowAdded, S1, S2, S5

\* What the instructions that read a collection read, but for those with one operand.
LEMMA CollectionsRead ==
  /\ \A op \in KeyedReads :
       op \in DOMAIN CollectionReads /\ CollectionReads[op] = << <<2, "U">>, <<1, "V">> >>
  /\ \A op \in FieldReads :
       op \in DOMAIN CollectionReads /\ CollectionReads[op] = << <<2, "K">>, <<1, "V">> >>
  /\ /\ "VEC_FILTER" \in DOMAIN CollectionReads
     /\ CollectionReads["VEC_FILTER"] = << <<1, "V">>, <<2, "U">>, <<3, "V">> >>
  /\ /\ "VEC_SLICE" \in DOMAIN CollectionReads
     /\ CollectionReads["VEC_SLICE"] = << <<1, "V">>, <<2, "U">>, <<3, "U">> >>
  /\ /\ "VEC_MERGE" \in DOMAIN CollectionReads
     /\ CollectionReads["VEC_MERGE"] = << <<1, "V">>, <<2, "V">> >>
  /\ /\ "BITVEC_READ" \in DOMAIN CollectionReads
     /\ CollectionReads["BITVEC_READ"] = << <<2, "W">>, <<3, "U">>, <<1, "V">> >>
<1> DEFINE R1 == Reading(KeyedReads, << <<2, "U">>, <<1, "V">> >>)
           R2 == R1 ++ Reading(FieldReads, << <<2, "K">>, <<1, "V">> >>)
           R3 == R2 ++ Reading({"VEC_FILTER"}, << <<1, "V">>, <<2, "U">>, <<3, "V">> >>)
           R4 == R3 ++ Reading({"VEC_SLICE"}, << <<1, "V">>, <<2, "U">>, <<3, "U">> >>)
           R5 == R4 ++ Reading({"VEC_MERGE"}, << <<1, "V">>, <<2, "V">> >>)
           R6 == R5 ++ Reading({"BITVEC_READ"}, << <<2, "W">>, <<3, "U">>, <<1, "V">> >>)
<1>0. CollectionReads = R6
  BY DEF CollectionReads
<1>1. DOMAIN R1 = KeyedReads /\ \A x \in KeyedReads : R1[x] = << <<2, "U">>, <<1, "V">> >>
  BY DEF Reading
<1> HIDE DEF R1
<1>2. RowAdded(R2, R1, FieldReads, << <<2, "K">>, <<1, "V">> >>)
  BY MoreReading
<1> HIDE DEF R2
<1>3. RowAdded(R3, R2, {"VEC_FILTER"}, << <<1, "V">>, <<2, "U">>, <<3, "V">> >>)
  BY MoreReading
<1> HIDE DEF R3
<1>4. RowAdded(R4, R3, {"VEC_SLICE"}, << <<1, "V">>, <<2, "U">>, <<3, "U">> >>)
  BY MoreReading
<1> HIDE DEF R4
<1>5. RowAdded(R5, R4, {"VEC_MERGE"}, << <<1, "V">>, <<2, "V">> >>)
  BY MoreReading
<1> HIDE DEF R5
<1>6. RowAdded(R6, R5, {"BITVEC_READ"}, << <<2, "W">>, <<3, "U">>, <<1, "V">> >>)
  BY MoreReading
<1> HIDE DEF R6
<1>7. /\ \A x \in DOMAIN R1 : x \in DOMAIN R6 /\ R6[x] = R1[x]
      /\ \A x \in DOMAIN R2 : x \in DOMAIN R6 /\ R6[x] = R2[x]
      /\ \A x \in DOMAIN R3 : x \in DOMAIN R6 /\ R6[x] = R3[x]
      /\ \A x \in DOMAIN R4 : x \in DOMAIN R6 /\ R6[x] = R4[x]
      /\ \A x \in DOMAIN R5 : x \in DOMAIN R6 /\ R6[x] = R5[x]
  BY <1>2, <1>3, <1>4, <1>5, <1>6 DEF RowAdded
<1>8. /\ FieldReads \cap DOMAIN R1 = {} /\ "VEC_FILTER" \notin DOMAIN R2
      /\ "VEC_SLICE" \notin DOMAIN R3 /\ "VEC_MERGE" \notin DOMAIN R4
      /\ "BITVEC_READ" \notin DOMAIN R5
  BY <1>1, <1>2, <1>3, <1>4, <1>5 DEF RowAdded, KeyedReads, FieldReads
<1> QED
  BY <1>0, <1>1, <1>2, <1>3, <1>4, <1>5, <1>6, <1>7, <1>8 DEF RowAdded

\* The operands of the instructions on bit arrays, and what these compute.
LEMMA BitSources ==
  ASSUME NEW op
  PROVE  /\ op \in BitUpdates => op \in UpdatingOps /\ op \notin ReadingOps
                                 /\ SourcesOf(op) = UpdateReads[op]
         /\ op \in BitReads => op \in ReadingOps /\ op \notin {"SOME", "OK", "ERR"}
         /\ op = "BIT_GET" => SourcesOf(op) = << <<2, "U">>, <<1, "V">> >>
         /\ op = "BIT_COUNT" => SourcesOf(op) = << <<1, "V">> >>
         /\ op = "BITVEC_READ" => SourcesOf(op) = << <<2, "W">>, <<3, "U">>, <<1, "V">> >>
<1>1. ASSUME op \in BitUpdates
      PROVE  op \in UpdatingOps /\ op \notin ReadingOps /\ SourcesOf(op) = UpdateReads[op]
  <2>1. op \in DOMAIN UpdateReads
    BY <1>1, UpdatesRead DEF BitUpdates
  <2>2. op \notin DOMAIN ScalarReads /\ op \notin DOMAIN CollectionReads
    BY <2>1, TablesApart
  <2>3. op \notin DOMAIN (ScalarReads ++ CollectionReads)
    BY <2>2, InMerge
  <2> QED
    BY <2>1, <2>2, <2>3, MergeApply DEF SourcesOf, UpdatingOps, ReadingOps
<1>2. ASSUME op \in {"BIT_GET", "BITVEC_READ"}
      PROVE  op \in ReadingOps /\ SourcesOf(op) = CollectionReads[op]
  <2>1. op \in DOMAIN CollectionReads
    BY <1>2, CollectionsRead DEF KeyedReads
  <2>2. op \notin DOMAIN ScalarReads
    BY <2>1, TablesApart
  <2>3. /\ op \in DOMAIN (ScalarReads ++ CollectionReads)
        /\ (ScalarReads ++ CollectionReads)[op] = CollectionReads[op]
    BY <2>1, <2>2, InMerge, MergeApply
  <2> QED
    BY <2>1, <2>3, MergeApply DEF SourcesOf, ReadingOps
<1>3. ASSUME op = "BIT_COUNT" PROVE op \in ReadingOps /\ SourcesOf(op) = << <<1, "V">> >>
  BY <1>3, NumericSources DEF UnaryOps
<1> QED
  BY <1>1, <1>2, <1>3, CollectionsRead DEF BitReads, KeyedReads

\* What a source converted to a number is, when it is not a fault.
LEMMA ConvertedNumbers ==
  ASSUME NEW m, NEW o, NEW how \in {"U", "W"}, NEW v, v = Converted(m, o, how), ~IsFault(v),
         IsInteger(v) \/ IsBits(v)
  PROVE  v.n \in Nat /\ v.t = IF how = "U" THEN "UINT32" ELSE "UINT64"
<1>1. v.t = IF how = "U" THEN "UINT32" ELSE "UINT64"
  BY DEF Converted, AsU32, AsU64, Num, IsFault, TypeMismatch, Fault
<1>2. IsInteger(v)
  BY <1>1 DEF IsBits
<1>3. v.n \in Least(v.t) .. Greatest(v.t) /\ v.t \in IntTypes
  BY <1>2 DEF IsInteger, InType
<1>4. Least(v.t) = 0
  BY <1>1 DEF Least, SignedTypes
<1>5. Greatest(v.t) \in Int
  BY <1>3, Bounds
<1> QED
  BY <1>1, <1>3, <1>4, <1>5

\* What an update computes from a bit array.
LEMMA ChangedBits ==
  ASSUME NEW op, NEW c, NEW x
  PROVE  /\ op \in {"BIT_SET", "BIT_CLR", "BIT_FLIP", "BIT_GROW"} =>
              Changed(op, c, x) = BitsetChanged(op, c, x)
         /\ op \in {"BIT_AND", "BIT_OR", "BIT_XOR"} =>
              Changed(op, c, x) = BitsetCombined(op, c, x[1])
         /\ op \in {"BITVEC_WRITE", "BITVEC_PUSH"} => Changed(op, c, x) = BitvecChanged(op, c, x)
BY DEF Changed

\* BIT_SET, BIT_CLR, BIT_FLIP and BIT_GROW.
LEMMA BitsetStepIsRight ==
  ASSUME NEW c, IsBits(c), NEW x, x[1].n \in Nat,
         NEW op \in {"BIT_SET", "BIT_CLR", "BIT_FLIP", "BIT_GROW"},
         ~IsFault(BitsetChanged(op, c, x))
  PROVE  IsBits(BitsetChanged(op, c, x)) /\ BitStep(op, c, BitsetChanged(op, c, x), x)
<1> DEFINE i == x[1].n
           g == BitsetChanged(op, c, x)
<1>1. c.t = "BITSET"
  BY DEF BitsetChanged, IsFault, TypeMismatch, Fault
<1>2. c.bytes \in ByteSeqs /\ c.len \in Nat
  BY BitArrayFacts
<1>3. \A n \in Nat : Wrap("UINT32", n) \in Nat
  <2> TAKE n \in Nat
  <2>1. /\ "UINT32" \in IntTypes /\ Least("UINT32") = 0
    BY DEF IntTypes, UnsignedTypes, Least, SignedTypes
  <2>2. Wrap("UINT32", n) \in Least("UINT32") .. Greatest("UINT32") /\ Wrap("UINT32", n) \in Int
    BY <2>1, WrapInRange
  <2>3. Greatest("UINT32") \in Int
    BY <2>1, Bounds
  <2> QED
    BY <2>1, <2>2, <2>3
<1>4. Members(c) \in SUBSET Nat /\ \A k \in Nat : BitIn(c.bytes, k) <=> k \in Members(c)
  BY <1>2, MembersAreBits
<1>5. i \in Nat
  OBVIOUS
<1> HIDE DEF i
<1>6. ASSUME NEW on \in BOOLEAN, g = WithBit(c, i, on)
      PROVE  /\ IsBits(g) /\ g.len >= c.len
             /\ Members(g) = IF on THEN Members(c) \cup {i} ELSE Members(c) \ {i}
  <2> DEFINE w == Wrap("UINT32", i + 1)
  <2>1. ~IsFault(WithBit(c, i, on))
    BY <1>6
  <2>2. w \in Nat /\ w = Wrap("UINT32", i + 1)
    BY <1>3, <1>5
  <2> HIDE DEF g, w
  <2>3. LET d == WithBit(c, i, on)
        IN  /\ IsBits(d) /\ d.len >= c.len
            /\ Members(d) = IF on THEN Members(c) \cup {i} ELSE Members(c) \ {i}
    BY <1>5, <2>1, <2>2, WithBitChanges
  <2> QED
    BY <1>6, <2>3
<1>7. CASE op = "BIT_SET"
  <2>1. g = WithBit(c, i, TRUE)
    BY <1>1, <1>7 DEF BitsetChanged, i
  <2> HIDE DEF g
  <2>2. IsBits(g) /\ g.len >= c.len /\ Members(g) = Members(c) \cup {i}
    BY <1>6, <2>1
  <2> QED
    BY <1>7, <2>2 DEF BitStep, i, g
<1>8. CASE op = "BIT_FLIP"
  <2> DEFINE on == ~BitIn(c.bytes, i)
  <2>1. g = WithBit(c, i, on)
    BY <1>1, <1>8 DEF BitsetChanged, i
  <2>2. on \in BOOLEAN /\ (on <=> i \notin Members(c))
    BY <1>4, <1>5
  <2> HIDE DEF g, on
  <2>3. IsBits(g) /\ g.len >= c.len
        /\ Members(g) = IF on THEN Members(c) \cup {i} ELSE Members(c) \ {i}
    BY <1>6, <2>1, <2>2
  <2>4. Members(g) = SymDiff(Members(c), {i})
    BY <2>2, <2>3 DEF SymDiff
  <2> QED
    BY <1>8, <2>3, <2>4 DEF BitStep, i, g
<1>9. CASE op = "BIT_CLR"
  <2>1. g = WithoutBit(c, i)
    BY <1>1, <1>9 DEF BitsetChanged, i
  <2> HIDE DEF g
  <2>2. IsBits(g) /\ g.len = c.len /\ Members(g) = Members(c) \ {i}
    BY <1>5, <2>1, WithoutBitChanges
  <2> QED
    BY <1>9, <2>2 DEF BitStep, i, g
<1>10. CASE op = "BIT_GROW"
  <2> DEFINE n == Wrap("UINT32", c.len + i)
  <2>1. g = GrowTo(c, n)
    BY <1>1, <1>10 DEF BitsetChanged, i
  <2>2. n \in Nat
    BY <1>2, <1>3, <1>5
  <2> HIDE DEF g, n
  <2>3. IsBits(g) /\ Members(g) = Members(c)
    BY <2>1, <2>2, GrowToKeeps
  <2> QED
    BY <1>10, <2>3 DEF BitStep, g
<1> QED
  BY <1>7, <1>8, <1>9, <1>10

\* BIT_AND, BIT_OR and BIT_XOR.
LEMMA CombinedStepIsRight ==
  ASSUME NEW c, IsBits(c), NEW x, IsInteger(x[1]) \/ IsBits(x[1]),
         NEW op \in {"BIT_AND", "BIT_OR", "BIT_XOR"}, ~IsFault(BitsetCombined(op, c, x[1]))
  PROVE  IsBits(BitsetCombined(op, c, x[1])) /\ BitStep(op, c, BitsetCombined(op, c, x[1]), x)
<1>1. c.t = "BITSET" /\ x[1].t = "BITSET"
  BY DEF BitsetCombined, IsFault, TypeMismatch, Fault
<1>2. IsBits(x[1])
  BY <1>1 DEF IsInteger, IntTypes, SignedTypes, UnsignedTypes
<1>3. ASSUME NEW s, s = x[1]
      PROVE  LET g == BitsetCombined(op, c, s)
             IN  /\ IsBits(g) /\ g.len = c.len
                 /\ Members(g) = CASE op = "BIT_AND" -> Members(c) \cap Members(s)
                                   [] op = "BIT_OR"  -> Members(c) \cup Members(s)
                                   [] op = "BIT_XOR" -> SymDiff(Members(c), Members(s))
  <2>1. IsBits(s) /\ s.t = "BITSET"
    BY <1>1, <1>2, <1>3
  <2> QED
    BY <1>1, <2>1, CombinedChanges
<1> DEFINE g == BitsetCombined(op, c, x[1])
<1>4. /\ IsBits(g) /\ g.len = c.len
      /\ Members(g) = CASE op = "BIT_AND" -> Members(c) \cap Members(x[1])
                        [] op = "BIT_OR"  -> Members(c) \cup Members(x[1])
                        [] op = "BIT_XOR" -> SymDiff(Members(c), Members(x[1]))
  BY <1>3
<1> HIDE DEF g
<1> QED
  BY <1>4 DEF BitStep, g

\* BITVEC_WRITE and BITVEC_PUSH.
LEMMA BitvecStepIsRight ==
  ASSUME NEW c, IsBits(c), NEW x, x[1].n \in Nat, x[2].n \in Nat,
         NEW op \in {"BITVEC_WRITE", "BITVEC_PUSH"}, op = "BITVEC_WRITE" => x[3].n \in Nat,
         ~IsFault(BitvecChanged(op, c, x))
  PROVE  IsBits(BitvecChanged(op, c, x)) /\ BitStep(op, c, BitvecChanged(op, c, x), x)
<1> DEFINE g == BitvecChanged(op, c, x)
<1>1. c.t = "BITVEC"
  BY DEF BitvecChanged, IsFault, TypeMismatch, Fault
<1>2. c.len \in Nat
  BY DEF IsBits
<1>3. \A i, l, v \in Nat :
        ~IsFault(BitsWritten(c, i, l, v)) =>
          /\ IsBits(BitsWritten(c, i, l, v))
          /\ FitsU64(i, l) => Written(c, BitsWritten(c, i, l, v), i, l, v)
  <2> TAKE i, l, v \in Nat
  <2>1. v \in Int
    OBVIOUS
  <2> QED
    BY <2>1, BitsWrittenIsWritten
<1>4. CASE op = "BITVEC_WRITE"
  <2>1. g = BitsWritten(c, x[1].n, x[2].n, x[3].n)
    BY <1>1, <1>4 DEF BitvecChanged
  <2>0. ~IsFault(g)
    OBVIOUS
  <2> HIDE DEF g
  <2>2. IsBits(g) /\ (FitsU64(x[1].n, x[2].n) => Written(c, g, x[1].n, x[2].n, x[3].n))
    BY <1>3, <1>4, <2>0, <2>1
  <2> QED
    BY <1>4, <2>2 DEF BitStep, g
<1>5. CASE op = "BITVEC_PUSH"
  <2>1. g = BitsWritten(c, c.len, x[2].n, x[1].n)
    BY <1>1, <1>5 DEF BitvecChanged
  <2>0. ~IsFault(g)
    OBVIOUS
  <2> HIDE DEF g
  <2>2. IsBits(g) /\ (FitsU64(c.len, x[2].n) => Written(c, g, c.len, x[2].n, x[1].n))
    BY <1>2, <1>3, <2>0, <2>1
  <2> QED
    BY <1>5, <2>2 DEF BitStep, g
<1> QED
  BY <1>4, <1>5

\* The values that an update reads.
LEMMA NumbersOfUpdates ==
  ASSUME NEW m, NEW ins, ins.op \in BitUpdates, NEW x, x = SourceValues(m, ins),
         \A j \in DOMAIN x : IsInteger(x[j]) \/ IsBits(x[j])
  PROVE  /\ ins.op \in {"BIT_AND", "BIT_OR", "BIT_XOR"} => IsInteger(x[1]) \/ IsBits(x[1])
         /\ ins.op \notin {"BIT_AND", "BIT_OR", "BIT_XOR"} => x[1].n \in Nat
         /\ ins.op \in {"BITVEC_WRITE", "BITVEC_PUSH"} => x[2].n \in Nat
         /\ ins.op = "BITVEC_WRITE" => x[3].n \in Nat
<1> DEFINE s == SourcesOf(ins.op)
<1>1. /\ DOMAIN x = DOMAIN s
      /\ \A j \in DOMAIN s : x[j] = Converted(m, ins.a[s[j][1]], s[j][2])
  BY DEF SourceValues
<1>2. s = UpdateReads[ins.op]
  BY BitSources
<1> HIDE DEF s
<1>3. \A j \in DOMAIN s : s[j][2] \in {"U", "W"} => x[j].n \in Nat
  <2> TAKE j \in DOMAIN s
  <2> HAVE s[j][2] \in {"U", "W"}
  <2>1. IsInteger(x[j]) \/ IsBits(x[j])
    BY <1>1
  <2>2. ~IsFault(x[j])
    BY <2>1, BitArrayFacts DEF IsFault, IsInteger, IntTypes, SignedTypes, UnsignedTypes
  <2> QED
    BY <1>1, <2>1, <2>2, ConvertedNumbers
<1>4. CASE ins.op \in {"BIT_AND", "BIT_OR", "BIT_XOR"}
  <2>1. s = << <<2, "V">> >>
    BY <1>2, <1>4, UpdatesRead
  <2> QED
    BY <1>1, <1>4, <2>1
<1>5. CASE ins.op \in {"BIT_SET", "BIT_CLR", "BIT_FLIP", "BIT_GROW"}
  <2>1. s = << <<2, "U">> >>
    BY <1>2, <1>5, UpdatesRead
  <2> QED
    BY <1>3, <1>5, <2>1
<1>6. CASE ins.op = "BITVEC_WRITE"
  <2>1. s = << <<2, "W">>, <<3, "U">>, <<4, "W">> >>
    BY <1>2, <1>6, UpdatesRead
  <2> QED
    BY <1>3, <1>6, <2>1
<1>7. CASE ins.op = "BITVEC_PUSH"
  <2>1. s = << <<2, "W">>, <<3, "U">> >>
    BY <1>2, <1>7, UpdatesRead
  <2> QED
    BY <1>3, <1>7, <2>1
<1> QED
  BY <1>4, <1>5, <1>6, <1>7 DEF BitUpdates

\* What an update makes of a bit array is right, unless it faults.
LEMMA ChangeIsRight ==
  ASSUME NEW m, NEW ins, ins.op \in BitUpdates, NEW x, x = SourceValues(m, ins),
         \A j \in DOMAIN x : IsInteger(x[j]) \/ IsBits(x[j]),
         NEW c, IsBits(c), ~IsFault(Changed(ins.op, c, x))
  PROVE  IsBits(Changed(ins.op, c, x)) /\ BitStep(ins.op, c, Changed(ins.op, c, x), x)
<1> DEFINE op == ins.op
<1>1. /\ op \in {"BIT_AND", "BIT_OR", "BIT_XOR"} => IsInteger(x[1]) \/ IsBits(x[1])
      /\ op \notin {"BIT_AND", "BIT_OR", "BIT_XOR"} => x[1].n \in Nat
      /\ op \in {"BITVEC_WRITE", "BITVEC_PUSH"} => x[2].n \in Nat
      /\ op = "BITVEC_WRITE" => x[3].n \in Nat
  BY NumbersOfUpdates
<1> HIDE DEF op
<1>2. CASE op \in {"BIT_SET", "BIT_CLR", "BIT_FLIP", "BIT_GROW"}
  <2>1. Changed(op, c, x) = BitsetChanged(op, c, x)
    BY <1>2, ChangedBits
  <2> QED
    BY <1>1, <1>2, <2>1, BitsetStepIsRight DEF op
<1>3. CASE op \in {"BIT_AND", "BIT_OR", "BIT_XOR"}
  <2>1. Changed(op, c, x) = BitsetCombined(op, c, x[1])
    BY <1>3, ChangedBits
  <2> QED
    BY <1>1, <1>3, <2>1, CombinedStepIsRight DEF op
<1>4. CASE op \in {"BITVEC_WRITE", "BITVEC_PUSH"}
  <2>1. Changed(op, c, x) = BitvecChanged(op, c, x)
    BY <1>4, ChangedBits
  <2> QED
    BY <1>1, <1>4, <2>1, BitvecStepIsRight DEF op
<1> QED
  BY <1>2, <1>3, <1>4 DEF BitUpdates, op

\* The faults of an update of a bit array.
LEMMA BitFaults ==
  ASSUME NEW op \in BitUpdates, NEW c, IsBits(c), NEW x, IsFault(Changed(op, c, x))
  PROVE  Changed(op, c, x).f \in {"TypeMismatch", "Panic"}
<1>1. c.t \in {"BITSET", "BITVEC"} /\ c = BitArray(c.t, c.bytes, c.len)
  BY BitArrayFacts
<1>2. ASSUME NEW t, NEW b, NEW l, NEW d, d = BitArray(t, b, l), NEW e
      PROVE  /\ [d EXCEPT !.bytes = e].t = t
             /\ \A k : [d EXCEPT !.len = k, !.bytes = e].t = t
             /\ \A k : [d EXCEPT !.bytes = e, !.len = k].t = t
  BY <1>2 DEF BitArray
<1>4. \A n : \E b, l : GrowTo(c, n) = BitArray(c.t, b, l)
  <2> TAKE n
  <2> DEFINE r == Resized(c.bytes, BytesFor(n))
             k == Max({c.len, n})
             d == [c EXCEPT !.bytes = r]
  <2>1. GrowTo(c, n) = [d EXCEPT !.len = k]
    BY DEF GrowTo
  <2> HIDE DEF r, k
  <2>2. d = BitArray(c.t, r, c.len)
    BY <1>1, BitArrayExcept
  <2> HIDE DEF d
  <2>3. [d EXCEPT !.len = k] = BitArray(c.t, r, k)
    BY <2>2, BitArrayExcept
  <2> QED
    BY <2>1, <2>3
<1>3. \A i, l, v : BitsWritten(c, i, l, v) = Panic \/ BitsWritten(c, i, l, v).t = c.t
  <2> TAKE i, l, v
  <2>1. \E n, field, on : BitsWritten(c, i, l, v) \in {Panic, Overwritten(GrowTo(c, n), field, on)}
    BY DEF BitsWritten
  <2>2. PICK n, field, on :
          BitsWritten(c, i, l, v) \in {Panic, Overwritten(GrowTo(c, n), field, on)}
    BY <2>1
  <2> DEFINE d == GrowTo(c, n)
  <2>3. \E b, k : d = BitArray(c.t, b, k)
    BY <1>4
  <2> HIDE DEF d
  <2>4. Overwritten(d, field, on).t = c.t
    BY <1>2, <2>3 DEF Overwritten
  <2> QED
    BY <2>2, <2>4 DEF d
<1>5. \A i, on : WithBit(c, i, on) = Panic \/ WithBit(c, i, on).t = c.t
  <2> TAKE i, on
  <2> DEFINE g == IF i \div Byte >= Len(c.bytes) THEN GrowTo(c, Wrap("UINT32", i + 1)) ELSE c
  <2>1. \E b, l : g = BitArray(c.t, b, l)
    BY <1>1, <1>4
  <2>2. \/ WithBit(c, i, on) = Panic
        \/ WithBit(c, i, on) = [g EXCEPT !.bytes = PutBit(g.bytes, i, on)]
    <3>1. [g EXCEPT !.bytes = PutBit(@, i, on)] = [g EXCEPT !.bytes = PutBit(g.bytes, i, on)]
      OBVIOUS
    <3> QED
      BY <3>1 DEF WithBit
  <2> HIDE DEF g
  <2>3. [g EXCEPT !.bytes = PutBit(g.bytes, i, on)].t = c.t
    BY <1>2, <2>1
  <2> QED
    BY <2>2, <2>3
<1>6. /\ \A i : WithoutBit(c, i).t = c.t
      /\ \A n : GrowTo(c, n).t = c.t
  BY <1>1, <1>2, <1>4 DEF WithoutBit, BitArray
<1>7. \A s : BitsetCombined(op, c, s) = TypeMismatch \/ BitsetCombined(op, c, s).t = c.t
  BY <1>1, <1>2 DEF BitsetCombined
<1>8. BitsetChanged(op, c, x) \in {TypeMismatch, Panic} \/ BitsetChanged(op, c, x).t = c.t
      \/ op \notin {"BIT_SET", "BIT_CLR", "BIT_FLIP", "BIT_GROW"}
  BY <1>5, <1>6 DEF BitsetChanged
<1>9. BitvecChanged(op, c, x) \in {TypeMismatch, Panic} \/ BitvecChanged(op, c, x).t = c.t
      \/ op \notin {"BITVEC_WRITE", "BITVEC_PUSH"}
  BY <1>3 DEF BitvecChanged
<1>10. Changed(op, c, x) \in {TypeMismatch, Panic} \/ Changed(op, c, x).t = c.t
  BY <1>7, <1>8, <1>9, ChangedBits DEF BitUpdates
<1> QED
  BY <1>1, <1>10 DEF IsFault, TypeMismatch, Panic, Fault

\* The outcome of an update in a slot of the frame.
LEMMA BitUpdateStep ==
  ASSUME NEW m, IsMachine(m), ~Failed(m), NEW ins, ins.op \in BitUpdates,
         ins.a[1].k = "LOCAL", IsBits(ReadOperand(m, ins.a[1])), ~Failed(DataStep(m, ins)),
         NEW x, x = SourceValues(m, ins), \A j \in DOMAIN x : IsInteger(x[j]) \/ IsBits(x[j])
  PROVE  LET after == DataStep(m, ins).fr.slots[ins.a[1].i]
         IN  IsBits(after) /\ BitStep(ins.op, ReadOperand(m, ins.a[1]), after, x)
<1> DEFINE c == ReadOperand(m, ins.a[1])
           g == Changed(ins.op, c, x)
           n == DataStep(m, ins)
           i == ins.a[1].i
<1>1. DataStep(m, ins) = UpdateInPlace(m, ins)
  <2>1. ins.op \in UpdatingOps /\ ins.op \notin ReadingOps
    BY BitSources
  <2>2. ins.op \notin TakingOps \cup MemoryOps
    BY DEF BitUpdates, TakingOps, MemoryOps
  <2> QED
    BY <2>1, <2>2 DEF DataStep
<1>2. TargetValue(m, ins.a[1]) = c
  BY DEF TargetValue, ReadOperand
<1>3. ~IsFault(c) /\ ~AnyFault(x)
  BY BitArrayFacts DEF AnyFault, IsFault, IsInteger, IntTypes, SignedTypes, UnsignedTypes
<1>4. n = WriteOperand(m, ins.a[1], g)
  BY <1>1, <1>2, <1>3 DEF UpdateInPlace
<1> HIDE DEF c, g, n, i
<1>5. ~IsFault(g)
  <2> SUFFICES ASSUME IsFault(g) PROVE FALSE
    OBVIOUS
  <2>1. n = Fail(m, g)
    BY <1>4 DEF WriteOperand
  <2>2. n.fault = g.f
    BY <2>1 DEF Fail, IsMachine
  <2>3. g.f \in {"TypeMismatch", "Panic"}
    BY BitFaults DEF g, c
  <2> QED
    BY <2>2, <2>3 DEF Failed, n
<1>6. IsBits(g) /\ BitStep(ins.op, c, g, x)
  BY <1>5, ChangeIsRight DEF g, c
<1>7. n.fr.slots[i] = g
  <2>1. n = [m EXCEPT !.fr.slots = Put(@, i, g)]
    BY <1>4, <1>5 DEF WriteOperand, PutCell, i
  <2>2. n.fr.slots = Put(m.fr.slots, i, g)
    BY <2>1 DEF IsMachine, FrameFields
  <2> QED
    BY <2>2 DEF Put
<1> QED
  BY <1>6, <1>7 DEF n, c, i

\* The values that a read of a bit array reads.
LEMMA SourcesOfReads ==
  ASSUME NEW m, NEW ins, ins.op \in BitReads, NEW x, x = SourceValues(m, ins),
         \A j \in DOMAIN x : IsInteger(x[j]) \/ IsBits(x[j])
  PROVE  /\ ins.op = "BIT_GET" => x[1].n \in Nat /\ Len(x) = 2 /\ DOMAIN x = 1 .. 2
         /\ ins.op = "BIT_COUNT" => Len(x) = 1 /\ DOMAIN x = 1 .. 1
         /\ ins.op = "BITVEC_READ" => /\ x[1].n \in Nat /\ x[2].n \in Nat /\ Len(x) = 3
                                      /\ DOMAIN x = 1 .. 3
<1> DEFINE s == SourcesOf(ins.op)
<1>1. /\ x = [j \in DOMAIN s |-> Converted(m, ins.a[s[j][1]], s[j][2])]
      /\ DOMAIN x = DOMAIN s
      /\ \A j \in DOMAIN s : x[j] = Converted(m, ins.a[s[j][1]], s[j][2])
  BY DEF SourceValues
<1>2. /\ ins.op = "BIT_GET" => s = << <<2, "U">>, <<1, "V">> >>
      /\ ins.op = "BIT_COUNT" => s = << <<1, "V">> >>
      /\ ins.op = "BITVEC_READ" => s = << <<2, "W">>, <<3, "U">>, <<1, "V">> >>
  BY BitSources
<1> HIDE DEF s
<1>3. \A j \in DOMAIN s : s[j][2] \in {"U", "W"} => x[j].n \in Nat
  <2> TAKE j \in DOMAIN s
  <2> HAVE s[j][2] \in {"U", "W"}
  <2>1. IsInteger(x[j]) \/ IsBits(x[j])
    BY <1>1
  <2>2. ~IsFault(x[j])
    BY <2>1, BitArrayFacts DEF IsFault, IsInteger, IntTypes, SignedTypes, UnsignedTypes
  <2> QED
    BY <1>1, <2>1, <2>2, ConvertedNumbers
<1>4. \A k \in Nat : DOMAIN x = 1 .. k => Len(x) = k
  <2> TAKE k \in Nat
  <2> HAVE DOMAIN x = 1 .. k
  <2>1. x = [j \in 1 .. k |-> x[j]]
    BY <1>1
  <2> QED
    BY <2>1
<1>5. CASE ins.op = "BIT_GET"
  <2>1. DOMAIN s = 1 .. 2 /\ s[1][2] = "U"
    BY <1>2, <1>5
  <2> QED
    BY <1>1, <1>3, <1>4, <1>5, <2>1
<1>6. CASE ins.op = "BIT_COUNT"
  <2>1. DOMAIN s = 1 .. 1
    BY <1>2, <1>6
  <2> QED
    BY <1>1, <1>4, <1>6, <2>1
<1>7. CASE ins.op = "BITVEC_READ"
  <2>1. DOMAIN s = 1 .. 3 /\ s[1][2] = "W" /\ s[2][2] = "U"
    BY <1>2, <1>7
  <2> QED
    BY <1>1, <1>3, <1>4, <1>7, <2>1
<1> QED
  BY <1>5, <1>6, <1>7 DEF BitReads

\* BIT_GET, BIT_COUNT and BITVEC_READ find what is there.
LEMMA ReadIsRight ==
  ASSUME NEW m, NEW ins, ins.op \in BitReads, NEW x, x = SourceValues(m, ins),
         \A j \in DOMAIN x : IsInteger(x[j]) \/ IsBits(x[j])
  PROVE  \/ Computed(ins, x) = TypeMismatch
         \/ /\ ~IsFault(Computed(ins, x))
            /\ (ins.op = "BITVEC_READ" => FitsU64(x[1].n, x[2].n))
                 => Computed(ins, x).n = BitRead(ins.op, x)
<1> DEFINE c == Last(x)
           S == Members(c)
<1>1. /\ ins.op = "BIT_GET" => x[1].n \in Nat /\ Len(x) = 2 /\ DOMAIN x = 1 .. 2
      /\ ins.op = "BIT_COUNT" => Len(x) = 1 /\ DOMAIN x = 1 .. 1
      /\ ins.op = "BITVEC_READ" => /\ x[1].n \in Nat /\ x[2].n \in Nat /\ Len(x) = 3
                                   /\ DOMAIN x = 1 .. 3
  BY SourcesOfReads
<1>2. c = x[Len(x)]
  BY DEF Last
<1>3. IsInteger(c) \/ IsBits(c)
  BY <1>1, <1>2 DEF BitReads
<1>4. c.t \in {"BITSET", "BITVEC"} =>
        /\ c.bytes \in ByteSeqs /\ S \in SUBSET Nat
        /\ \A k \in Nat : k \in S <=> BitIn(c.bytes, k)
  BY <1>3, BitArrayFacts, MembersAreBits DEF IsInteger, IntTypes, SignedTypes, UnsignedTypes
<1>5. /\ ins.op \in {"BIT_GET", "BIT_COUNT"} => Computed(ins, x) = BitsetResult(ins.op, x)
      /\ ins.op = "BITVEC_READ" => Computed(ins, x) = BitvecRead(c, x[1], x[2])
  BY <1>1, <1>2 DEF Computed, ArithmeticOps, ComparisonOps, BitwiseOps, ShiftOps, FieldReads,
                    KeyedReads
<1> HIDE DEF c, S
<1>6. CASE ins.op = "BIT_GET" /\ c.t = "BITSET"
  <2>1. Computed(ins, x) = Bool(BitIn(c.bytes, x[1].n))
    BY <1>2, <1>5, <1>6 DEF BitsetResult
  <2>2. BitRead(ins.op, x) = IF x[1].n \in S THEN 1 ELSE 0
    BY <1>6 DEF BitRead, S, c
  <2> QED
    BY <1>1, <1>4, <1>6, <2>1, <2>2 DEF Bool, Num, IsFault
<1>7. CASE ins.op = "BIT_COUNT" /\ c.t = "BITSET"
  <2>1. Computed(ins, x) = U32(CountIn(c.bytes))
    BY <1>2, <1>5, <1>7 DEF BitsetResult, CountIn
  <2>2. BitRead(ins.op, x) = Wrap("UINT32", Cardinality(S))
    BY <1>7 DEF BitRead, S, c
  <2>3. S = {k \in Nat : BitIn(c.bytes, k)}
    BY <1>4, <1>7
  <2>4. CountIn(c.bytes) = Cardinality(S)
    BY <1>4, <1>7, <2>3, CountIsCardinality
  <2> QED
    BY <2>1, <2>2, <2>4 DEF U32, Num, IsFault
<1>8. CASE ins.op = "BITVEC_READ" /\ c.t = "BITVEC"
  <2> DEFINE w == Width(x[2].n)
             start == x[1].n
             A == {i \in 0 .. w - 1 : BitIn(c.bytes, Place(start, i))}
             B == {i \in 0 .. w - 1 : start + i \in S}
  <2>1. Computed(ins, x) = Num("UINT64", FromBits(A))
    BY <1>5, <1>8 DEF BitvecRead, FieldBits, Width, FieldWidth
  <2>2. BitRead(ins.op, x) = FromBits(B)
    BY <1>8 DEF BitRead, FieldValue, S, c
  <2>3. w \in Nat /\ start \in Nat
    BY <1>1, <1>8, WidthOfField
  <2> DEFINE top == 2 ^ Bits["UINT64"]
  <2>5. top \in Nat
    BY WidthFacts DEF IntTypes, UnsignedTypes
  <2>6. FitsU64(start, x[2].n) <=> start + w < top
    BY DEF FitsU64
  <2> HIDE DEF w, start, top
  <2>4. ASSUME start + w < top PROVE A = B
    <3>1. ASSUME NEW i \in 0 .. w - 1 PROVE Place(start, i) = start + i /\ start + i \in Nat
      <4>1. i \in Nat /\ start + i < top
        BY <2>3, <2>4, <2>5
      <4> QED
        BY <2>3, <4>1, Places64 DEF top
    <3> QED
      BY <1>4, <1>8, <3>1
  <2> HIDE DEF A, B
  <2> QED
    BY <1>8, <2>1, <2>2, <2>4, <2>6 DEF Num, IsFault, start
<1>9. CASE \/ ins.op \in {"BIT_GET", "BIT_COUNT"} /\ c.t # "BITSET"
           \/ ins.op = "BITVEC_READ" /\ c.t # "BITVEC"
  BY <1>2, <1>5, <1>9 DEF BitsetResult, BitvecRead
<1> QED
  BY <1>6, <1>7, <1>8, <1>9 DEF BitReads

\* The outcome of a read into a slot of the frame.
LEMMA BitReadStep ==
  ASSUME NEW m, IsMachine(m), ~Failed(m), NEW ins, ins.op \in BitReads,
         ins.a[Len(ins.a)].k = "LOCAL", ~Failed(DataStep(m, ins)),
         NEW x, x = SourceValues(m, ins), \A j \in DOMAIN x : IsInteger(x[j]) \/ IsBits(x[j])
  PROVE  (ins.op = "BITVEC_READ" => FitsU64(x[1].n, x[2].n))
           => DataStep(m, ins).fr.slots[ins.a[Len(ins.a)].i].n = BitRead(ins.op, x)
<1> DEFINE v == Computed(ins, x)
           o == ins.a[Len(ins.a)]
           n == DataStep(m, ins)
<1>1. n = WriteOperand(m, o, v)
  <2>1. DataStep(m, ins) = ReadAndWrite(m, ins) /\ TargetPosition(ins) = Len(ins.a)
    <3>1. ins.op \in ReadingOps /\ ins.op \notin {"SOME", "OK", "ERR"}
      BY BitSources
    <3>2. ins.op \notin UpdatingOps
      BY <3>1, TablesApart DEF ReadingOps, UpdatingOps
    <3> QED
      BY <3>1, <3>2 DEF DataStep, TargetPosition, TakingOps, MemoryOps, BitReads
  <2>2. ~AnyFault(x)
    BY BitArrayFacts DEF AnyFault, IsFault, IsInteger, IntTypes, SignedTypes, UnsignedTypes
  <2> QED
    BY <2>1, <2>2 DEF ReadAndWrite
<1> HIDE DEF n, o
<1>2. \/ v = TypeMismatch
      \/ /\ ~IsFault(v)
         /\ (ins.op = "BITVEC_READ" => FitsU64(x[1].n, x[2].n)) => v.n = BitRead(ins.op, x)
  BY ReadIsRight
<1> HIDE DEF v
<1>3. v # TypeMismatch
  <2> SUFFICES ASSUME v = TypeMismatch PROVE FALSE
    OBVIOUS
  <2>1. IsFault(v) /\ v.f = "TypeMismatch"
    BY DEF IsFault, TypeMismatch, Fault
  <2>2. n = Fail(m, v)
    BY <1>1, <2>1 DEF WriteOperand
  <2>3. n.fault = v.f
    BY <2>2 DEF Fail, IsMachine
  <2> QED
    BY <2>1, <2>3 DEF Failed, n
<1>4. n = [m EXCEPT !.fr.slots = Put(@, o.i, v)]
  BY <1>1, <1>2, <1>3 DEF WriteOperand, PutCell, o
<1>5. n.fr.slots = Put(m.fr.slots, o.i, v)
  BY <1>4 DEF IsMachine, FrameFields
<1>6. n.fr.slots[o.i] = v
  BY <1>5 DEF Put
<1> QED
  BY <1>2, <1>3, <1>6 DEF n, o

\* Bit arrays keep their bits in every step, whatever the memory (bitset and bitvec
\* instructions, value.rs; execute_instruction, executor.rs).
THEOREM BitsAreKept == DataSpec => BitArraysKeepTheirBits
<1>1. DataIInv /\ [DataNext]_dataVars =>
        (Stepped /\ ~Faulted /\ last'.op \in BitReads \cup BitUpdates =>
          LET x  == SourceValues(machine, last')
              op == last'.op
          IN  (\A j \in DOMAIN x : IsInteger(x[j]) \/ IsBits(x[j])) =>
                /\ op \in BitUpdates /\ last'.a[1].k = "LOCAL" /\ IsBits(Source(1)) =>
                      LET after == machine'.fr.slots[last'.a[1].i]
                      IN  IsBits(after) /\ BitStep(op, Source(1), after, x)
                /\ op \in BitReads /\ last'.a[Len(last'.a)].k = "LOCAL"
                   /\ (op = "BITVEC_READ" => FitsU64(x[1].n, x[2].n)) =>
                      Result.n = BitRead(op, x))
  <2> SUFFICES ASSUME DataIInv, [DataNext]_dataVars, Stepped, ~Failed(machine'),
                      NEW x, x = SourceValues(machine, last'),
                      \A j \in DOMAIN x : IsInteger(x[j]) \/ IsBits(x[j])
      PROVE  /\ last'.op \in BitUpdates /\ last'.a[1].k = "LOCAL"
                /\ IsBits(ReadOperand(machine, last'.a[1])) =>
                  LET after == machine'.fr.slots[last'.a[1].i]
                  IN  /\ IsBits(after)
                      /\ BitStep(last'.op, ReadOperand(machine, last'.a[1]), after, x)
             /\ last'.op \in BitReads /\ last'.a[Len(last'.a)].k = "LOCAL"
                /\ (last'.op = "BITVEC_READ" => FitsU64(x[1].n, x[2].n)) =>
                  machine'.fr.slots[last'.a[Len(last'.a)].i].n = BitRead(last'.op, x)
    BY DEF Faulted, Result, Source
  <2>1. ~Failed(machine) /\ IsMachine(machine) /\ machine' = DataStep(machine, last')
    BY ExecutedStep
  <2> QED
    BY <2>1, BitUpdateStep, BitReadStep
<1> QED
  BY <1>1, MemoryIsAMachine, PTL DEF DataSpec, BitArraysKeepTheirBits

-------------------------------------------------------------------------------
(* Maps as functions.                                                        *)
\* No key twice in the list e of pairs, and the function that such a list stands for.
KeysApart(e) == \A i, j \in DOMAIN e : e[i][1] = e[j][1] => i = j
PairMap(e)   == [k \in KeysOf(e) |-> e[PlaceOf(e, k)][2]]

\* Every pair of a list without a key twice is one value of its function.
LEMMA PairMapProperties ==
  ASSUME NEW S, NEW e \in Seq(S), KeysApart(e)
  PROVE  /\ DOMAIN PairMap(e) = KeysOf(e)
         /\ \A k \in KeysOf(e) : PlaceOf(e, k) \in DOMAIN e /\ e[PlaceOf(e, k)][1] = k
         /\ \A i \in DOMAIN e : e[i][1] \in KeysOf(e) /\ PairMap(e)[e[i][1]] = e[i][2]
<1> DEFINE First(i, k) == i \in DOMAIN e /\ e[i][1] = k /\ \A j \in 1 .. i - 1 : e[j][1] # k
<1>1. ASSUME NEW i \in DOMAIN e PROVE PlaceOf(e, e[i][1]) = i
  <2> DEFINE k == e[i][1]
  <2>1. First(i, k)
    BY <1>1 DEF KeysApart
  <2>2. \A j \in DOMAIN e : First(j, k) => j = i
    BY <1>1 DEF KeysApart
  <2>3. PlaceOf(e, k) = CHOOSE j \in DOMAIN e : First(j, k)
    BY DEF PlaceOf
  <2> HIDE DEF First, k
  <2>4. PlaceOf(e, k) \in DOMAIN e /\ First(PlaceOf(e, k), k)
    BY <1>1, <2>1, <2>3
  <2> QED
    BY <2>2, <2>4 DEF k
<1>2. ASSUME NEW i \in DOMAIN e
      PROVE  e[i][1] \in KeysOf(e) /\ PairMap(e)[e[i][1]] = e[i][2]
  <2>1. e[i][1] \in KeysOf(e)
    BY DEF KeysOf
  <2>2. PairMap(e)[e[i][1]] = e[PlaceOf(e, e[i][1])][2]
    BY <2>1 DEF PairMap
  <2> QED
    BY <1>1, <2>1, <2>2
<1>3. ASSUME NEW k \in KeysOf(e)
      PROVE  PlaceOf(e, k) \in DOMAIN e /\ e[PlaceOf(e, k)][1] = k
  <2>1. PICK i \in DOMAIN e : e[i][1] = k
    BY DEF KeysOf
  <2> QED
    BY <1>1, <2>1
<1> QED
  BY <1>2, <1>3 DEF PairMap

\* A list without a key twice stands for the function that holds its pairs.
LEMMA PairMapIs ==
  ASSUME NEW S, NEW e \in Seq(S), KeysApart(e), NEW h, h = [k \in KeysOf(e) |-> h[k]],
         \A i \in DOMAIN e : h[e[i][1]] = e[i][2]
  PROVE  PairMap(e) = h
<1>1. \A k \in KeysOf(e) : e[PlaceOf(e, k)][2] = h[k]
  BY PairMapProperties
<1> QED
  BY <1>1 DEF PairMap

\* SET_FIELD on the list of pairs: the key has the value, once.
LEMMA InsertedPairs ==
  ASSUME NEW S, NEW e \in Seq(S), KeysApart(e), NEW k, NEW v
  PROVE  LET g == Inserted(e, k, v)
         IN  /\ g \in Seq(S \cup {<<k, v>>}) /\ KeysApart(g)
             /\ PairMap(g) = Put(PairMap(e), k, v)
<1> DEFINE g == Inserted(e, k, v)
           G == S \cup {<<k, v>>}
           p == PlaceOf(e, k)
           f == PairMap(e)
           F(n) == IF n = k THEN v ELSE f[n]
<1>1. <<k, v>>[1] = k /\ <<k, v>>[2] = v
  OBVIOUS
<1>2. /\ DOMAIN f = KeysOf(e)
      /\ k \in KeysOf(e) => p \in DOMAIN e /\ e[p][1] = k
      /\ \A i \in DOMAIN e : e[i][1] \in KeysOf(e) /\ f[e[i][1]] = e[i][2]
  BY PairMapProperties
<1>3. e \in Seq(G) /\ <<k, v>> \in G
  OBVIOUS
<1> HIDE DEF f, p, G
<1>4. g \in Seq(G) /\ KeysApart(g) /\ KeysOf(g) = KeysOf(e) \cup {k}
      /\ \A i \in DOMAIN g : g[i][2] = F(g[i][1])
  <2>1. CASE k \in KeysOf(e)
    <3>1. g = [e EXCEPT ![p] = <<k, v>>]
      BY <2>1 DEF Inserted, p
    <3>2. DOMAIN g = DOMAIN e /\ g[p] = <<k, v>> /\ \A i \in DOMAIN e \ {p} : g[i] = e[i]
      BY <1>2, <2>1, <3>1
    <3>3. g \in Seq(G)
      BY <1>2, <1>3, <2>1, <3>1
    <3>4. \A i \in DOMAIN e : g[i][1] = e[i][1]
      BY <1>1, <1>2, <2>1, <3>2
    <3> HIDE DEF g
    <3>5. KeysApart(g)
      BY <3>2, <3>4 DEF KeysApart
    <3>6. KeysOf(g) = KeysOf(e) \cup {k}
      BY <2>1, <3>2, <3>4 DEF KeysOf
    <3>7. ASSUME NEW i \in DOMAIN g PROVE g[i][2] = F(g[i][1])
      <4>1. CASE i = p
        BY <1>1, <3>2, <4>1
      <4>2. CASE i # p
        <5>1. e[i][1] # k
          BY <1>2, <2>1, <3>2, <4>2 DEF KeysApart
        <5> QED
          BY <1>2, <3>2, <4>2, <5>1
      <4> QED
        BY <4>1, <4>2
    <3> QED
      BY <3>3, <3>5, <3>6, <3>7
  <2>2. CASE k \notin KeysOf(e)
    <3>1. g = Append(e, <<k, v>>)
      BY <2>2 DEF Inserted
    <3>2. /\ g \in Seq(G) /\ Len(g) = Len(e) + 1
          /\ \A i \in 1 .. Len(e) : g[i] = e[i]
          /\ g[Len(e) + 1] = <<k, v>>
      BY <1>3, <3>1, AppendProperties
    <3> HIDE DEF g
    <3>3. DOMAIN g = DOMAIN e \cup {Len(e) + 1} /\ Len(e) + 1 \notin DOMAIN e
          /\ DOMAIN e = 1 .. Len(e)
      BY <3>2
    <3>4. \A i \in DOMAIN e : e[i][1] # k
      BY <1>2, <2>2
    <3>5. g[Len(e) + 1][1] = k /\ g[Len(e) + 1][2] = v
      BY <1>1, <3>2
    <3>6. KeysApart(g)
      BY <3>2, <3>3, <3>4, <3>5 DEF KeysApart
    <3>7. KeysOf(g) = KeysOf(e) \cup {k}
      BY <3>2, <3>3, <3>5 DEF KeysOf
    <3>8. \A i \in DOMAIN g : g[i][2] = F(g[i][1])
      BY <1>2, <3>2, <3>3, <3>4, <3>5
    <3> QED
      BY <3>2, <3>6, <3>7, <3>8
  <2> QED
    BY <2>1, <2>2
<1> DEFINE h == Put(f, k, v)
<1> HIDE DEF g
<1>5. h = [n \in KeysOf(g) |-> h[n]] /\ \A n \in KeysOf(g) : h[n] = F(n)
  BY <1>2, <1>4 DEF Put
<1> HIDE DEF h, F
<1>6. \A i \in DOMAIN g : g[i][1] \in KeysOf(g)
  BY DEF KeysOf
<1>7. \A i \in DOMAIN g : h[g[i][1]] = g[i][2]
  <2> TAKE i \in DOMAIN g
  <2>1. h[g[i][1]] = F(g[i][1])
    BY <1>5, <1>6
  <2> QED
    BY <1>4, <2>1
<1>8. PairMap(g) = h
  <2>1. h = [n \in KeysOf(g) |-> h[n]]
    BY <1>5
  <2>2. g \in Seq(G) /\ KeysApart(g)
    BY <1>4
  <2> QED
    BY <1>7, <2>1, <2>2, PairMapIs
<1> QED
  BY <1>4, <1>8 DEF g, G, f, h

\* DEL_FIELD on the list of pairs: the key is gone, and only the key.
LEMMA PairsWithout ==
  ASSUME NEW S, NEW e \in Seq(S), KeysApart(e), NEW k
  PROVE  LET g == Without(e, k)
         IN  /\ g \in Seq(S) /\ KeysApart(g)
             /\ PairMap(g) = Drop(PairMap(e), k)
<1> DEFINE g == Without(e, k)
           p == PlaceOf(e, k)
           f == PairMap(e)
           h == Drop(f, k)
<1>1. /\ DOMAIN f = KeysOf(e)
      /\ k \in KeysOf(e) => p \in DOMAIN e /\ e[p][1] = k
      /\ \A i \in DOMAIN e : e[i][1] \in KeysOf(e) /\ f[e[i][1]] = e[i][2]
  BY PairMapProperties
<1>2. f = [n \in KeysOf(e) |-> f[n]]
  BY DEF PairMap
<1>3. h = [n \in KeysOf(e) \ {k} |-> f[n]]
  BY <1>1 DEF Drop, Restrict
<1> HIDE DEF f, p, h
<1>4. CASE k \notin KeysOf(e)
  <2>1. g = e
    BY <1>4 DEF Without
  <2>2. h = f
    BY <1>2, <1>3, <1>4
  <2> QED
    BY <2>1, <2>2 DEF f, h
<1>5. CASE k \in KeysOf(e)
  <2> DEFINE before == SubSeq(e, 1, p - 1)
             after == SubSeq(e, p + 1, Len(e))
             from(i) == IF i < p THEN i ELSE i + 1
  <2>1. g = before \o after /\ p \in 1 .. Len(e) /\ e[p][1] = k
    <3>1. g = RemoveAt(e, p)
      BY <1>5 DEF Without, p
    <3> HIDE DEF g
    <3>2. g = before \o after
      BY <3>1 DEF RemoveAt
    <3> QED
      BY <1>1, <1>5, <3>2
  <2> HIDE DEF g
  <2>2. \A i \in 1 .. Len(e) : e[i] \in S
    OBVIOUS
  <2>3. /\ before \in Seq(S) /\ Len(before) = p - 1
        /\ \A i \in 1 .. p - 1 : before[i] = e[i]
    <3>1. \A i \in 1 .. p - 1 : e[i] \in S
      BY <2>1, <2>2
    <3>2. /\ before \in Seq(S) /\ Len(before) = IF 1 <= p - 1 THEN p - 1 - 1 + 1 ELSE 0
          /\ \A i \in 1 .. p - 1 - 1 + 1 : before[i] = e[1 + i - 1]
      BY <2>1, <3>1, SubSeqProperties
    <3> QED
      BY <2>1, <3>2
  <2>4. /\ after \in Seq(S) /\ Len(after) = Len(e) - p
        /\ \A i \in 1 .. Len(e) - p : after[i] = e[p + i]
    <3>1. \A i \in p + 1 .. Len(e) : e[i] \in S
      BY <2>1, <2>2
    <3>2. /\ after \in Seq(S)
          /\ Len(after) = IF p + 1 <= Len(e) THEN Len(e) - (p + 1) + 1 ELSE 0
          /\ \A i \in 1 .. Len(e) - (p + 1) + 1 : after[i] = e[p + 1 + i - 1]
      BY <2>1, <3>1, SubSeqProperties
    <3> QED
      BY <2>1, <3>2
  <2> HIDE DEF before, after
  <2>5. g \in Seq(S) /\ Len(g) = Len(e) - 1 /\ \A i \in 1 .. Len(g) : g[i] = e[from(i)]
    <3>1. /\ g \in Seq(S) /\ Len(g) = Len(before) + Len(after)
          /\ \A i \in 1 .. Len(before) + Len(after) :
                g[i] = IF i <= Len(before) THEN before[i] ELSE after[i - Len(before)]
      BY <2>1, <2>3, <2>4, ConcatProperties
    <3>2. Len(g) = Len(e) - 1
      BY <2>1, <2>3, <2>4, <3>1
    <3>3. ASSUME NEW i \in 1 .. Len(g) PROVE g[i] = e[from(i)]
      <4>1. CASE i < p
        BY <2>1, <2>3, <2>4, <3>1, <4>1
      <4>2. CASE i >= p
        <5>1. i - Len(before) \in 1 .. Len(e) - p /\ ~(i <= Len(before))
          BY <2>1, <2>3, <3>2, <4>2
        <5>2. g[i] = after[i - Len(before)]
          BY <2>3, <2>4, <3>1, <5>1
        <5>3. p + (i - Len(before)) = i + 1
          BY <2>1, <2>3, <3>2
        <5>4. after[i - Len(before)] = e[p + (i - Len(before))]
          BY <2>4, <5>1
        <5>5. from(i) = i + 1
          BY <2>1, <3>2, <4>2
        <5> HIDE DEF from
        <5> QED
          BY <5>2, <5>3, <5>4, <5>5
      <4> QED
        BY <2>1, <3>2, <4>1, <4>2
    <3> QED
      BY <3>1, <3>2, <3>3
  <2>6. \A i \in DOMAIN g : from(i) \in DOMAIN e \ {p}
    BY <2>1, <2>5
  <2>7. \A i, j \in DOMAIN g : from(i) = from(j) => i = j
    BY <2>1, <2>5
  <2>8. \A j \in DOMAIN e \ {p} : \E i \in DOMAIN g : from(i) = j
    <3> TAKE j \in DOMAIN e \ {p}
    <3>1. CASE j < p
      BY <2>1, <2>5, <3>1
    <3>2. CASE j > p
      <4>1. j - 1 \in DOMAIN g /\ from(j - 1) = j
        BY <2>1, <2>5, <3>2
      <4> QED
        BY <4>1
    <3> QED
      BY <2>1, <3>1, <3>2
  <2> HIDE DEF from
  <2>9. DOMAIN g = 1 .. Len(g)
    BY <2>5
  <2>10. KeysApart(g)
    BY <2>5, <2>6, <2>7, <2>9 DEF KeysApart
  <2>11. \A j \in DOMAIN e : e[j][1] = k <=> j = p
    BY <2>1 DEF KeysApart
  <2>12. KeysOf(g) = KeysOf(e) \ {k}
    <3>1. ASSUME NEW n \in KeysOf(g) PROVE n \in KeysOf(e) /\ n # k
      <4>1. PICK i \in DOMAIN g : n = g[i][1]
        BY DEF KeysOf
      <4> QED
        BY <1>1, <2>5, <2>6, <2>9, <2>11, <4>1
    <3>2. ASSUME NEW n \in KeysOf(e), n # k PROVE n \in KeysOf(g)
      <4>1. PICK j \in DOMAIN e : n = e[j][1]
        BY DEF KeysOf
      <4>2. j # p
        BY <2>1, <3>2, <4>1
      <4>3. PICK i \in DOMAIN g : from(i) = j
        BY <2>8, <4>2
      <4> QED
        BY <2>5, <2>9, <4>1, <4>3 DEF KeysOf
    <3> QED
      BY <3>1, <3>2
  <2>13. h = [n \in KeysOf(g) |-> h[n]] /\ \A n \in KeysOf(g) : h[n] = f[n]
    BY <1>3, <2>12
  <2>14. \A i \in DOMAIN g : h[g[i][1]] = g[i][2]
    <3> TAKE i \in DOMAIN g
    <3>1. g[i] = e[from(i)] /\ from(i) \in DOMAIN e
      BY <2>5, <2>6, <2>9
    <3>2. f[g[i][1]] = g[i][2]
      BY <1>1, <3>1
    <3>3. g[i][1] \in KeysOf(g)
      BY DEF KeysOf
    <3> QED
      BY <2>13, <3>2, <3>3
  <2>15. PairMap(g) = h
    BY <2>5, <2>10, <2>13, <2>14, PairMapIs
  <2> QED
    BY <2>5, <2>10, <2>15 DEF g, f, h
<1> QED
  BY <1>4, <1>5
\* A map after an update that did not fault.
LEMMA MapChangeIsRight ==
  ASSUME NEW op \in MapUpdates \cup MapRemovals, NEW x, NEW c, IsMap(c),
         ~IsFault(Changed(op, c, x))
  PROVE  IsMap(Changed(op, c, x)) /\ MapStep(op, c, Changed(op, c, x), x)
<1> DEFINE g == Changed(op, c, x)
           k == x[1].n
           v == x[2]
<1>0. IsFault(TypeMismatch)
  BY DEF IsFault, TypeMismatch, Fault
<1>1. CASE op \in {"SET_FIELD", "DEL_FIELD"}
  <2>1. g = FieldChanged(op, c, x)
    BY <1>1 DEF Changed
  <2>2. c.t = "STRUCT"
    BY <1>0, <1>1, <2>1 DEF FieldChanged
  <2> DEFINE e == c.e
             S == Range(e)
             d == IF op = "SET_FIELD" THEN Inserted(e, k, v) ELSE Without(e, k)
  <2>3. c = [t |-> "STRUCT", e |-> e] /\ e \in Seq(S) /\ KeysApart(e)
    BY <2>2 DEF IsMap, KeysApart
  <2>4. g = [c EXCEPT !.e = d]
    BY <1>1, <2>1, <2>2 DEF FieldChanged
  <2> HIDE DEF e, d, g, S
  <2>5. g = [t |-> "STRUCT", e |-> d] /\ g.t = "STRUCT" /\ g.e = d
    BY <2>3, <2>4
  <2>6. /\ d \in Seq(S \cup {<<k, v>>}) /\ KeysApart(d)
        /\ PairMap(d) = IF op = "SET_FIELD" THEN Put(PairMap(e), k, v) ELSE Drop(PairMap(e), k)
    <3>1. CASE op = "SET_FIELD"
      <4>1. d = Inserted(e, k, v)
        BY <3>1 DEF d
      <4>2. /\ d \in Seq(S \cup {<<k, v>>}) /\ KeysApart(d)
            /\ PairMap(d) = Put(PairMap(e), k, v)
        <5> HIDE DEF k, v
        <5>1. LET i == Inserted(e, k, v)
              IN  /\ i \in Seq(S \cup {<<k, v>>}) /\ KeysApart(i)
                  /\ PairMap(i) = Put(PairMap(e), k, v)
          BY <2>3, InsertedPairs
        <5> QED
          BY <4>1, <5>1
      <4> QED
        BY <3>1, <4>2
    <3>2. CASE op = "DEL_FIELD"
      <4>1. d = Without(e, k)
        BY <3>2 DEF d
      <4>2. d \in Seq(S) /\ KeysApart(d) /\ PairMap(d) = Drop(PairMap(e), k)
        <5> HIDE DEF k
        <5>1. LET w == Without(e, k)
              IN  w \in Seq(S) /\ KeysApart(w) /\ PairMap(w) = Drop(PairMap(e), k)
          BY <2>3, PairsWithout
        <5> QED
          BY <4>1, <5>1
      <4>3. d \in Seq(S \cup {<<k, v>>})
        BY <4>2
      <4>4. op # "SET_FIELD"
        BY <3>2
      <4> QED
        BY <4>2, <4>3, <4>4
    <3> QED
      BY <1>1, <3>1, <3>2
  <2>7. d \in Seq(Range(d))
    <3>1. d = [i \in 1 .. Len(d) |-> d[i]] /\ \A i \in 1 .. Len(d) : d[i] \in Range(d)
      BY <2>6 DEF Range
    <3> QED
      BY <2>6, <3>1
  <2>8. IsMap(g)
    BY <2>5, <2>6, <2>7 DEF IsMap, KeysApart
  <2>9. AsFunction(g) = PairMap(d) /\ AsFunction(c) = PairMap(e)
    BY <2>2, <2>5 DEF AsFunction, PairMap, e
  <2>10. MapStep(op, c, g, x)
    BY <1>1, <2>6, <2>9 DEF MapStep, MapUpdates, MapRemovals
  <2> QED
    BY <2>8, <2>10 DEF g
<1>2. CASE op \in {"SPARSE_SET", "BTREE_SET", "SPARSE_DEL", "BTREE_DEL"}
  <2>1. g = MapChanged(op, c, x)
    BY <1>2 DEF Changed
  <2>2. c.t = MapType(op) /\ c.t \in {"SPARSE", "BTREE"}
    BY <1>0, <1>2, <2>1 DEF MapChanged, MapType
  <2> DEFINE f == c.m
             d == IF op \in MapUpdates THEN Put(f, k, v) ELSE Drop(f, k)
  <2>3. c = [t |-> c.t, m |-> f]
    BY <2>2 DEF IsMap
  <2>4. g = [c EXCEPT !.m = d]
    <3>1. CASE op \in {"SPARSE_SET", "BTREE_SET"}
      BY <2>1, <2>2, <3>1 DEF MapChanged, Put, MapUpdates
    <3>2. CASE op \in {"SPARSE_DEL", "BTREE_DEL"}
      BY <2>1, <2>2, <3>2 DEF MapChanged, Drop, MapUpdates
    <3> QED
      BY <1>2, <3>1, <3>2
  <2> HIDE DEF f, d, g
  <2>5. g = [t |-> c.t, m |-> d] /\ g.t = c.t /\ g.m = d
    BY <2>3, <2>4
  <2>6. IsMap(g)
    BY <2>2, <2>5 DEF IsMap
  <2>7. AsFunction(g) = d /\ AsFunction(c) = f
    BY <2>2, <2>5 DEF AsFunction, f
  <2>8. MapStep(op, c, g, x)
    BY <1>2, <2>7 DEF MapStep, MapUpdates, MapRemovals, d
  <2> QED
    BY <2>6, <2>8 DEF g
<1> QED
  BY <1>1, <1>2 DEF MapUpdates, MapRemovals

\* The only fault of an update of a map: the collection is of another type.
LEMMA MapFaults ==
  ASSUME NEW op \in MapUpdates \cup MapRemovals, NEW x, NEW c, IsMap(c),
         IsFault(Changed(op, c, x))
  PROVE  Changed(op, c, x) = TypeMismatch
<1>1. c.t \in {"STRUCT", "SPARSE", "BTREE"}
  BY DEF IsMap
<1>2. /\ c.t = "STRUCT" => \A e : [c EXCEPT !.e = e].t = "STRUCT"
      /\ c.t \in {"SPARSE", "BTREE"} => \A e : [c EXCEPT !.m = e].t = c.t
  BY DEF IsMap
<1>3. CASE op \in {"SET_FIELD", "DEL_FIELD"}
  <2>1. Changed(op, c, x) = FieldChanged(op, c, x)
    BY <1>3 DEF Changed
  <2> QED
    BY <1>1, <1>2, <1>3, <2>1 DEF FieldChanged, IsFault
<1>4. CASE op \in {"SPARSE_SET", "BTREE_SET", "SPARSE_DEL", "BTREE_DEL"}
  <2>1. Changed(op, c, x) = MapChanged(op, c, x)
    BY <1>4 DEF Changed
  <2>2. MapType(op) \in {"SPARSE", "BTREE"}
    BY DEF MapType
  <2> QED
    BY <1>1, <1>2, <1>4, <2>1, <2>2 DEF MapChanged, IsFault
<1> QED
  BY <1>3, <1>4 DEF MapUpdates, MapRemovals

\* The outcome of an update of a map in a slot of the frame.
LEMMA MapUpdateStep ==
  ASSUME NEW m, IsMachine(m), ~Failed(m), NEW ins, ins.op \in MapUpdates \cup MapRemovals,
         ins.a[1].k = "LOCAL", IsMap(ReadOperand(m, ins.a[1])), ~Failed(DataStep(m, ins)),
         NEW x, x = SourceValues(m, ins), ~AnyFault(x)
  PROVE  LET after == DataStep(m, ins).fr.slots[ins.a[1].i]
         IN  IsMap(after) /\ MapStep(ins.op, ReadOperand(m, ins.a[1]), after, x)
<1> DEFINE c == ReadOperand(m, ins.a[1])
           g == Changed(ins.op, c, x)
           n == DataStep(m, ins)
           i == ins.a[1].i
<1>1. DataStep(m, ins) = UpdateInPlace(m, ins)
  <2>1. ins.op \in DOMAIN UpdateReads
    BY UpdatesRead DEF MapUpdates, MapRemovals
  <2>2. ins.op \in UpdatingOps /\ ins.op \notin ReadingOps
    BY <2>1, TablesApart DEF UpdatingOps, ReadingOps
  <2>3. ins.op \notin TakingOps \cup MemoryOps
    BY DEF MapUpdates, MapRemovals, TakingOps, MemoryOps
  <2> QED
    BY <2>2, <2>3 DEF DataStep
<1>2. TargetValue(m, ins.a[1]) = c
  BY DEF TargetValue, ReadOperand
<1>3. ~IsFault(c)
  BY DEF IsMap, IsFault
<1>4. n = WriteOperand(m, ins.a[1], g)
  BY <1>1, <1>2, <1>3 DEF UpdateInPlace
<1> HIDE DEF c, g, n, i
<1>5. ~IsFault(g)
  <2> SUFFICES ASSUME IsFault(g) PROVE FALSE
    OBVIOUS
  <2>1. n = Fail(m, g)
    BY <1>4 DEF WriteOperand
  <2>2. n.fault = g.f
    BY <2>1 DEF Fail, IsMachine
  <2>3. g = TypeMismatch
    BY MapFaults DEF g, c
  <2> QED
    BY <2>2, <2>3 DEF Failed, n, TypeMismatch, Fault
<1>6. IsMap(g) /\ MapStep(ins.op, c, g, x)
  BY <1>5, MapChangeIsRight DEF g, c
<1>7. n.fr.slots[i] = g
  <2>1. n = [m EXCEPT !.fr.slots = Put(@, i, g)]
    BY <1>4, <1>5 DEF WriteOperand, PutCell, i
  <2>2. n.fr.slots = Put(m.fr.slots, i, g)
    BY <2>1 DEF IsMachine, FrameFields
  <2> QED
    BY <2>2 DEF Put
<1> QED
  BY <1>6, <1>7 DEF n, c, i

\* Maps change at their key in every step, whatever the memory (SET_FIELD to BTREE_DEL,
\* execute_instruction, executor.rs; FasmStruct, FasmSparse and FasmBTree, value.rs).
THEOREM MapsStayMaps == DataSpec => MapsChangeAtTheirKey
<1>1. DataIInv /\ [DataNext]_dataVars =>
        (Stepped /\ ~Faulted /\ last'.op \in MapUpdates \cup MapRemovals
         /\ last'.a[1].k = "LOCAL" =>
          LET x     == SourceValues(machine, last')
              after == machine'.fr.slots[last'.a[1].i]
          IN  IsMap(Source(1)) /\ ~AnyFault(x) =>
                IsMap(after) /\ MapStep(last'.op, Source(1), after, x))
  <2> SUFFICES ASSUME DataIInv, [DataNext]_dataVars, Stepped, ~Failed(machine'),
                      last'.op \in MapUpdates \cup MapRemovals, last'.a[1].k = "LOCAL",
                      NEW x, x = SourceValues(machine, last'), ~AnyFault(x),
                      IsMap(ReadOperand(machine, last'.a[1]))
      PROVE  LET after == machine'.fr.slots[last'.a[1].i]
             IN  /\ IsMap(after)
                 /\ MapStep(last'.op, ReadOperand(machine, last'.a[1]), after, x)
    BY DEF Faulted, Source
  <2>1. ~Failed(machine) /\ IsMachine(machine) /\ machine' = DataStep(machine, last')
    BY ExecutedStep
  <2> QED
    BY <2>1, MapUpdateStep
<1> QED
  BY <1>1, MemoryIsAMachine, PTL DEF DataSpec, MapsChangeAtTheirKey

-------------------------------------------------------------------------------
(* The pool.                                                                 *)
\* Before the run no frame is on the stack and no call was served; from SetJit
\* on, the JIT of a request that carries one is attached.
Prepared ==
  /\ at \in {"acquired", "ready"} => call_stack = <<>> /\ served_by = NoJit
  /\ at \in {"ready", "running", "ended"} /\ RequestJit(request) # NoJit =>
       jit = RequestJit(request)

\* The inductive invariant of the pool.
PoolIInv == TypeOK /\ Prepared /\ OwnFramesOnly /\ ReservedSlotsFresh /\ HttpCallsOwnCode

\* A frame pushed on an empty stack, or on own ones, leaves own ones only; so
\* does a frame popped, when another remains.
LEMMA PushPop ==
  ASSUME NEW s \in Seq({"own", "foreign"}), s = <<>> \/ Range(s) = {"own"}
  PROVE  /\ Append(s, "own") \in Seq({"own", "foreign"})
         /\ Append(s, "own") # <<>>
         /\ Range(Append(s, "own")) = {"own"}
         /\ Len(Append(s, "own")) = Len(s) + 1
         /\ Len(s) > 1 =>
              LET t == SubSeq(s, 1, Len(s) - 1) IN
                /\ t \in Seq({"own", "foreign"})
                /\ t # <<>>
                /\ Range(t) = {"own"}
                /\ Len(t) = Len(s) - 1
<1> DEFINE a == Append(s, "own")
           t == SubSeq(s, 1, Len(s) - 1)
<1>1. \A i \in 1..Len(s) : s[i] = "own"
  BY DEF Range
<1>2. a \in Seq({"own", "foreign"}) /\ Len(a) = Len(s) + 1
  OBVIOUS
<1>3. \A i \in 1..Len(a) : a[i] = "own"
  BY <1>1, <1>2
<1>4. Len(s) \in Nat /\ DOMAIN a = 1..Len(a) /\ 1 \in DOMAIN a /\ a # <<>>
  BY <1>2
<1>5. Range(a) = {"own"}
  BY <1>3, <1>4 DEF Range
<1>6. ASSUME Len(s) > 1
      PROVE  /\ t \in Seq({"own", "foreign"}) /\ Len(t) = Len(s) - 1 /\ t # <<>>
             /\ \A i \in 1..Len(t) : t[i] = "own"
             /\ DOMAIN t = 1..Len(t) /\ 1 \in DOMAIN t
  BY <1>1, <1>4, <1>6
<1>7. Len(s) > 1 => Range(t) = {"own"}
  BY <1>6 DEF Range
<1> QED
  BY <1>2, <1>4, <1>5, <1>6, <1>7

\* A request carries the JIT of its own program or none.
LEMMA JitOfRequest ==
  ASSUME NEW r \in Requests PROVE RequestJit(r) \in {r.program, NoJit} /\ r.program \in Programs
  BY DEF RequestJit, Requests

\* A new thread satisfies the invariant.
LEMMA PoolInit == Init => PoolIInv
<1> SUFFICES ASSUME Init PROVE PoolIInv
  OBVIOUS
<1>1. TypeOK
  <2>1. /\ at = "idle" /\ at \in Stages /\ cached \in BOOLEAN
        /\ request = NoRequest /\ jit = NoJit /\ served_by = NoJit
    BY DEF Init, Stages
  <2>2. global_owners \in [Slots -> {"unset", "own", "foreign"}]
    BY DEF Init
  <2>3. call_stack \in Seq({"own", "foreign"})
    BY DEF Init
  <2> QED
    BY <2>1, <2>2, <2>3 DEF TypeOK
<1>2. Prepared /\ OwnFramesOnly /\ ReservedSlotsFresh /\ HttpCallsOwnCode
  BY DEF Init, Prepared, OwnFramesOnly, ReservedSlotsFresh, HttpCallsOwnCode
<1> QED
  BY <1>1, <1>2 DEF PoolIInv

-----------------------------------------------------------------------------
\* One lemma per action of the pool.
LEMMA AcquireStep == ASSUME PoolIInv, NEW r \in Requests, Acquire(r) PROVE PoolIInv'
<1>1. r # NoRequest
  BY PoolAssumption DEF Requests, NoRequest
<1>2. TypeOK'
  <2>1. /\ at' = "acquired" /\ at' \in Stages /\ cached' \in BOOLEAN
        /\ request' = r /\ jit' \in Programs \cup {NoJit} /\ served_by' = NoJit
    BY DEF Acquire, PoolIInv, TypeOK, Stages
  <2>2. global_owners' \in [Slots -> {"unset", "own", "foreign"}]
    BY DEF Acquire, Inherited
  <2>3. call_stack' \in Seq({"own", "foreign"})
    BY DEF Acquire
  <2> QED
    BY <1>1, <2>1, <2>2, <2>3 DEF TypeOK
<1>3. Prepared' /\ OwnFramesOnly' /\ ReservedSlotsFresh' /\ HttpCallsOwnCode'
  BY DEF Acquire, Prepared, OwnFramesOnly, ReservedSlotsFresh, HttpCallsOwnCode
<1> QED
  BY <1>2, <1>3 DEF PoolIInv

\* A request that carries a JIT attaches it.
LEMMA SetJitStep == ASSUME PoolIInv, SetJit PROVE PoolIInv'
<1>1. request \in Requests /\ request' = request /\ at' = "ready"
  BY DEF SetJit, PoolIInv, TypeOK
<1>2. /\ RequestJit(request)' = RequestJit(request)
      /\ jit' = IF RequestJit(request) = NoJit THEN jit ELSE RequestJit(request)
  BY <1>1 DEF SetJit, RequestJit
<1>3. TypeOK'
  BY <1>1, <1>2, JitOfRequest DEF SetJit, PoolIInv, TypeOK, Stages
<1>4. Prepared'
  BY <1>1, <1>2 DEF SetJit, PoolIInv, Prepared
<1>5. OwnFramesOnly' /\ ReservedSlotsFresh' /\ HttpCallsOwnCode'
  BY <1>1 DEF OwnFramesOnly, ReservedSlotsFresh, HttpCallsOwnCode
<1> QED
  BY <1>3, <1>4, <1>5 DEF PoolIInv

\* run_named: the reserved slots are set, and the first frame pushed unless the
\* function is missing.
LEMMA EnterStep == ASSUME PoolIInv, EnterRun PROVE PoolIInv'
<1>1. request \in Requests /\ request' = request /\ jit' = jit /\ served_by' = served_by
  BY DEF EnterRun, PoolIInv, TypeOK
<1>2. call_stack = <<>> /\ served_by = NoJit
  BY DEF EnterRun, PoolIInv, Prepared
<1>3. TypeOK'
  BY <1>1, <1>2, PushPop DEF EnterRun, PoolIInv, TypeOK, Stages
<1>4. OwnFramesOnly'
  <2> SUFFICES ASSUME at' = "running"
               PROVE  /\ call_stack' # <<>>
                      /\ Range(call_stack') = {"own"}
                      /\ Len(call_stack') <= DepthLimit
    BY DEF OwnFramesOnly
  <2>1. call_stack' = Append(call_stack, "own")
    BY DEF EnterRun
  <2>2. call_stack \in Seq({"own", "foreign"}) /\ Len(call_stack) = 0
    BY <1>2
  <2>3. DepthLimit \in Nat \ {0}
    BY PoolAssumption
  <2>4. /\ call_stack' # <<>> /\ Range(call_stack') = {"own"}
        /\ Len(call_stack') = Len(call_stack) + 1
    BY <1>2, <2>1, <2>2, PushPop
  <2> QED
    BY <2>2, <2>3, <2>4
<1>5. ReservedSlotsFresh'
  BY <1>1, PoolAssumption, JitOfRequest DEF EnterRun, ReservedSlotsFresh
<1>6. Prepared' /\ HttpCallsOwnCode'
  BY <1>1, <1>2 DEF EnterRun, PoolIInv, Prepared, HttpCallsOwnCode, RequestJit
<1> QED
  BY <1>3, <1>4, <1>5, <1>6 DEF PoolIInv

\* A program writes its globals.
LEMMA WriteGlobalStep ==
  ASSUME PoolIInv, NEW s \in Slots, NEW owner \in {"own", "unset"}, WriteGlobal(s, owner)
  PROVE  PoolIInv'
  BY DEF WriteGlobal, PoolIInv, TypeOK, Stages, Prepared, OwnFramesOnly, ReservedSlotsFresh,
         HttpCallsOwnCode, RequestJit

\* What a popped frame leaves of the invariant's conjuncts about the stack.
LEMMA PopFrameStep ==
  ASSUME PoolIInv, at = "running", PopFrame
  PROVE  /\ at' \in {"running", "ended"}
         /\ call_stack' \in Seq({"own", "foreign"})
         /\ OwnFramesOnly'
<1>1. /\ call_stack \in Seq({"own", "foreign"}) /\ call_stack # <<>>
      /\ Range(call_stack) = {"own"} /\ Len(call_stack) <= DepthLimit
  BY DEF PoolIInv, TypeOK, OwnFramesOnly
<1>2. Len(call_stack) \in Nat \ {0}
  BY <1>1
<1>3. CASE Len(call_stack) = 1
  <2>1. SubSeq(call_stack, 1, 0) \in Seq({"own", "foreign"})
    BY <1>1
  <2> QED
    BY <1>3, <2>1 DEF PopFrame, OwnFramesOnly
<1>4. CASE Len(call_stack) > 1
  <2>1. call_stack' = SubSeq(call_stack, 1, Len(call_stack) - 1) /\ at' = "running"
    BY <1>4 DEF PopFrame
  <2>2. /\ call_stack' \in Seq({"own", "foreign"}) /\ call_stack' # <<>>
        /\ Range(call_stack') = {"own"} /\ Len(call_stack') = Len(call_stack) - 1
    BY <1>1, <1>4, <2>1, PushPop
  <2> QED
    BY <1>1, <1>2, <2>1, <2>2, PoolAssumption DEF OwnFramesOnly
<1>5. \A n \in Nat \ {0} : n = 1 \/ n > 1
  OBVIOUS
<1> QED
  BY <1>2, <1>3, <1>4, <1>5

\* A call that native code serves.
LEMMA CallJitStep == ASSUME PoolIInv, NEW f \in Funcs, CallJit(f) PROVE PoolIInv'
<1>1. /\ at = "running" /\ jit # NoJit /\ served_by' = jit
      /\ UNCHANGED <<cached, request, global_owners, jit>>
  BY DEF CallJit, JitServes
<1>2. /\ at' \in {"running", "ended"}
      /\ call_stack' \in Seq({"own", "foreign"})
      /\ OwnFramesOnly'
  BY <1>1, PopFrameStep DEF CallJit, PoolIInv, TypeOK, OwnFramesOnly
<1>3. request \in Requests
  BY <1>1 DEF PoolIInv, TypeOK
<1> QED
  BY <1>1, <1>2, <1>3, JitOfRequest
  DEF PoolIInv, TypeOK, Stages, Prepared, ReservedSlotsFresh, HttpCallsOwnCode, RequestJit

\* A call that the interpreter serves.
LEMMA CallFrameStep == ASSUME PoolIInv, CallFrame PROVE PoolIInv'
<1>1. at = "running" /\ UNCHANGED <<cached, request, global_owners, jit, served_by>>
  BY DEF CallFrame
<1>2. /\ call_stack \in Seq({"own", "foreign"}) /\ Range(call_stack) = {"own"}
      /\ Len(call_stack) \in Nat
  BY <1>1 DEF PoolIInv, TypeOK, OwnFramesOnly
<1>3. CASE Len(call_stack) >= DepthLimit
  BY <1>1, <1>3 DEF CallFrame, PoolIInv, TypeOK, Stages, Prepared, OwnFramesOnly,
                    ReservedSlotsFresh, HttpCallsOwnCode, RequestJit
<1>4. CASE ~(Len(call_stack) >= DepthLimit)
  <2>1. call_stack' = Append(call_stack, "own") /\ at' = at
    BY <1>4 DEF CallFrame
  <2>2. /\ call_stack' \in Seq({"own", "foreign"}) /\ call_stack' # <<>>
        /\ Range(call_stack') = {"own"} /\ Len(call_stack') = Len(call_stack) + 1
    BY <1>2, <2>1, PushPop
  <2>3. OwnFramesOnly'
    BY <1>2, <1>4, <2>2, PoolAssumption DEF OwnFramesOnly
  <2> QED
    BY <1>1, <2>1, <2>2, <2>3
    DEF PoolIInv, TypeOK, Prepared, ReservedSlotsFresh, HttpCallsOwnCode, RequestJit
<1> QED
  BY <1>3, <1>4

\* A frame is popped.
LEMMA ReturnStep == ASSUME PoolIInv, ReturnFrame PROVE PoolIInv'
<1>1. at = "running" /\ PopFrame /\ UNCHANGED <<cached, request, global_owners, jit, served_by>>
  BY DEF ReturnFrame
<1> QED
  BY <1>1, PopFrameStep
  DEF PoolIInv, TypeOK, Stages, Prepared, ReservedSlotsFresh, HttpCallsOwnCode, RequestJit

\* A run that aborts or panics, and the sandbox given back.
LEMMA LeaveStep == ASSUME PoolIInv, Abort \/ Release \/ ClosurePanics PROVE PoolIInv'
  BY DEF Abort, Release, ClosurePanics, PoolIInv, TypeOK, Stages, Prepared, OwnFramesOnly,
         ReservedSlotsFresh, HttpCallsOwnCode, RequestJit

\* Every step keeps the invariant.
LEMMA PoolStep == PoolIInv /\ [PoolNext]_poolVars => PoolIInv'
<1> SUFFICES ASSUME PoolIInv, [PoolNext]_poolVars PROVE PoolIInv'
  OBVIOUS
<1>1. CASE UNCHANGED poolVars
  BY <1>1 DEF poolVars, PoolIInv, TypeOK, Prepared, OwnFramesOnly, ReservedSlotsFresh,
              HttpCallsOwnCode, RequestJit
<1>2. CASE PoolNext
  BY <1>2, AcquireStep, SetJitStep, EnterStep, WriteGlobalStep, CallJitStep, CallFrameStep,
     ReturnStep, LeaveStep DEF PoolNext
<1> QED
  BY <1>1, <1>2

\* The invariant holds on a thread that serves any sequence of requests.
LEMMA PoolInvariance == Spec => []PoolIInv
  BY PoolInit, PoolStep, PTL DEF Spec

-----------------------------------------------------------------------------
\* The sandbox of a thread keeps its types through any sequence of requests
\* (dispatcher.rs:228-255).
THEOREM TypeCorrect == Spec => []TypeOK
  BY PoolInvariance, PTL DEF PoolIInv

\* No execution meets a frame of an earlier one, and its depth is bounded by
\* MAX_CALL_DEPTH (sandbox.rs:86-97, executor.rs:333).
THEOREM FramesAreOwn == Spec => []OwnFramesOnly
  BY PoolInvariance, PTL DEF PoolIInv

\* A reserved slot is fresh in every execution (executor.rs:266-280).
THEOREM ReservedSlotsAreFresh == Spec => []ReservedSlotsFresh
  BY PoolInvariance, PTL DEF PoolIInv

\* A request that carries a JIT is never served by another one
\* (dispatcher.rs:135-137).
THEOREM CarriedJitServes == Spec => []HttpCallsOwnCode
  BY PoolInvariance, PTL DEF PoolIInv
===============================================================================
