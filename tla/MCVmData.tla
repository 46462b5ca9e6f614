------------------------------- MODULE MCVmData -------------------------------
(* Scenarios for VmData: every pair of numbers of the narrow types, and short   *)
(* sequences of instructions on bit arrays, lists, maps and the memory.         *)
EXTENDS VmData

McBits == [INT8 |-> 2, UINT8 |-> 2, INT16 |-> 3, UINT16 |-> 3, INT32 |-> 4, UINT32 |-> 4,
           INT64 |-> 8, UINT64 |-> 8]

Slot(i)  == [k |-> "LOCAL", i |-> i]
At(i)    == [k |-> "DEREF", in |-> "LOCAL", i |-> i]
Tmp(i)   == [k |-> "TMP", i |-> i]
Global(i) == [k |-> "GLOBAL", i |-> i]
Key(i)   == [k |-> "KEY", i |-> i]
Type(t)  == [k |-> "TYPE", ty |-> t]
Args     == [k |-> "BUILTIN", b |-> "ARGS"]       \* readable, and never writable
Imm(v)   == [k |-> "IMM", v |-> v]
Number(n) == Imm(Num("UINT32", n))
I(op, a) == [op |-> op, a |-> a]

Memory(s) == [i \in 0 .. Len(s) - 1 |-> s[i + 1]]
Empty(t) == DefaultForType(t)

-------------------------------------------------------------------------------
\* Every value of the narrow types, the edges of the 64 bit ones.
Edges(t) == {n \in {-1, 0, 1, 2, 5, 100} : n \in Least(t) .. Greatest(t)}
            \cup {Least(t), Least(t) + 1, Greatest(t) - 1, Greatest(t)} \cup
            (IF t = "UINT64" THEN {127, 128} ELSE {-100})
IntValues(t) == {Num(t, n) : n \in IF t \in {"INT64", "UINT64"} THEN Edges(t)
                                   ELSE Least(t) .. Greatest(t)}
Pairs == UNION {{Memory(<<a, b>>) : a \in IntValues(t), b \in IntValues(t)} : t \in IntTypes}
Mixed == {Memory(<<Num("INT16", 2), Num("INT32", 2)>>), Memory(<<Bool(TRUE), Bool(FALSE)>>),
          Memory(<<Num("FLOAT64", 3), Num("FLOAT64", -2)>>), Memory(<<Null, Num("INT8", 1)>>)}

Numbers == [starts |-> Pairs \cup Mixed, steps |-> 1,
            code |-> {I(op, <<Slot(0), Slot(1), Slot(2)>>) : op \in BinaryOps}
                     \cup {I(op, <<Slot(0), Slot(2)>>) : op \in {"NEG", "NOT"}}
                     \cup {I("CAST", <<Slot(0), Type(t), Slot(2)>>) :
                              t \in IntTypes \cup {"BOOL", "FLOAT32", "VEC"}}]

Bitsets == [starts |-> {Memory(<<Empty("BITSET"), Empty("BITSET")>>)}, steps |-> 4,
            code |-> {I(op, <<Slot(0), Number(i)>>) : op \in {"BIT_SET", "BIT_CLR", "BIT_FLIP"},
                                                      i \in {0, 1, 4, 15}}
                     \cup {I("BIT_SET", <<Slot(1), Number(i)>>) : i \in {1, 2}}
                     \cup {I(op, <<Slot(0), Slot(1)>>) : op \in {"BIT_AND", "BIT_OR", "BIT_XOR"}}
                     \cup {I("BIT_GET", <<Slot(0), Number(1), Slot(2)>>),
                           I("BIT_COUNT", <<Slot(0), Slot(2)>>), I("LEN", <<Slot(0), Slot(2)>>),
                           I("BIT_GROW", <<Slot(0), Number(3)>>), I("BIT_OR", <<Slot(0), Args>>)}]

Bitvecs == [starts |-> {Memory(<<Empty("BITVEC")>>)}, steps |-> 3,
            code |-> {I("BITVEC_WRITE", <<Slot(0), Number(s), Number(n), Number(v)>>) :
                         s \in {0, 1, 3}, n \in {0, 1, 3}, v \in {0, 2, 7}}
                     \cup {I("BITVEC_PUSH", <<Slot(0), Number(v), Number(n)>>) :
                              v \in {1, 6}, n \in {2, 5}}
                     \cup {I("BITVEC_READ", <<Slot(0), Number(s), Number(n), Slot(2)>>) :
                              s \in {0, 2}, n \in {1, 5}}
                     \* from the last bit numbers of a u64 on, and just before them
                     \cup {I("BITVEC_READ", <<Slot(0), Imm(Num("INT8", s)), Number(3), Slot(2)>>) :
                              s \in {-1, -2}}
                     \cup {I("BITVEC_WRITE", <<Slot(0), Imm(Num("UINT64", s)), Number(n), Number(7)>>) :
                              s \in {250, 254}, n \in {2, 3}}]

-------------------------------------------------------------------------------
OneOf(t) == Memory(<<Empty(t), List("VEC", <<Num("INT16", 2), Num("INT16", 0)>>),
                     List("VEC", <<Num("INT16", 1)>>), Null>>)
Lists == [starts |-> {OneOf(t) : t \in {"VEC", "STACK", "QUEUE", "DEQUE"}}, steps |-> 4,
          code |-> {I(op, <<Slot(0), Imm(Num("INT16", n))>>) :
                       op \in {"PUSH", "ENQUEUE", "PREPEND"}, n \in {1, 3}}
                   \cup {I(op, <<Slot(0), o>>) : op \in TakingOps, o \in {Slot(4), Args}}
                   \cup {I(op, <<Slot(0), Slot(4)>>) : op \in {"PEEK", "PEEK_BACK", "LEN"}}]

Vectors == [starts |-> {OneOf("VEC")}, steps |-> 4,
            code |-> {I("PUSH", <<Slot(v), Imm(Num("INT16", 1))>>) : v \in {0, 1}}
                     \cup {I("VEC_SORT", <<Slot(v)>>) : v \in {0, 1, 3}}
                     \cup {I("VEC_MERGE", <<Slot(a), Slot(b), Slot(0)>>) : a, b \in {1, 2}}
                     \cup {I("VEC_SLICE", <<Slot(1), Number(s), Number(n), Slot(4)>>) :
                              s \in {0, 1, 5}, n \in {0, 2}}
                     \cup {I("VEC_FILTER", <<Slot(1), Number(o), Imm(Num("INT16", 1)), Slot(0)>>) :
                              o \in {0, 1, 2, 3}}
                     \cup {I("GET_IDX", <<Slot(1), Number(i), Slot(4)>>) : i \in {1, 3}}
                     \cup {I("SET_IDX", <<Slot(1), Number(i), Null1>>) :
                              i \in {0, 3}, Null1 \in {Imm(Num("INT16", -3))}}]

\* One map of each kind; the SPARSE and BTREE instructions take any integer as key.
Maps == [starts |-> {Memory(<<Empty(t), Num("INT8", -1)>>) : t \in {"STRUCT", "SPARSE", "BTREE"}},
         steps |-> 4,
         code |-> {I(op, <<Slot(0), k, Imm(Num("INT16", v))>>) :
                      op \in {"SET_FIELD", "SPARSE_SET", "BTREE_SET"},
                      k \in {Number(1), Number(2), Slot(1)}, v \in {0, 1}}
                  \cup {I(op, <<Slot(0), k>>) :
                      op \in {"DEL_FIELD", "SPARSE_DEL", "BTREE_DEL"}, k \in {Number(1), Slot(1)}}
                  \cup {I(op, <<Slot(0), Number(1), Slot(2)>>) :
                      op \in KeyedReads \cup FieldReads}
                  \cup {I(op, <<Slot(0), Slot(2)>>) : op \in {"BTREE_MIN", "BTREE_MAX", "LEN"}}]

\* Wrappers, references and TMP registers.
Memories == [starts |-> {Memory(<<Num("INT16", 1), Empty("REF_MUT"), Empty("OPTION")>>)},
             steps |-> 4,
             code |-> {I(op, <<Slot(2), Slot(0)>>) :
                          op \in {"SOME", "OK", "ERR", "IS_SOME", "IS_OK", "UNWRAP", "UNWRAP_OK",
                                  "UNWRAP_ERR", "AWAIT"}}
                      \cup {I("MOV", <<a, b>>) : a \in {Imm(Num("INT16", 2)), At(1)},
                                                 b \in {Slot(0), At(1), At(0), Tmp(0), Args}}
                      \cup {I("TMP_BLOCK", <<>>), I("END_TMP", <<>>), I("NOP", <<>>),
                            I("ADDR", <<Slot(2), Slot(1)>>), I("ADDR", <<Global(0), Slot(1)>>),
                            I("RELEASE", <<Slot(2)>>),
                            I("RESERVE", <<Slot(2), Type("OPTION"), Imm(Null)>>)}]

McScenarios == [numbers |-> Numbers, bitsets |-> Bitsets, bitvecs |-> Bitvecs, lists |-> Lists,
                vectors |-> Vectors, maps |-> Maps, memories |-> Memories]

===============================================================================
