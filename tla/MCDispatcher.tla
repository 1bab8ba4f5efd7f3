---------------------------- MODULE MCDispatcher ----------------------------
(***************************************************************************)
(* Instances for TLC: the texts and registrations each run tries.  A text  *)
(* has four words; the last is never read by the allocator, so the third   *)
(* always leaves.  Branches and jumps go to words 1, 2, 3 and, past the    *)
(* text, to 5.                                                             *)
(***************************************************************************)
EXTENDS DispatcherProperties

I(op, rd, rs1, imm) == [op |-> op, rd |-> rd, rs1 |-> rs1, imm |-> imm, sys |-> "none"]
Syscall(kind) == [op |-> "SYSTEM", rd |-> "zero", rs1 |-> "zero", imm |-> 0, sys |-> kind]

Padding == I("OPIMM", "zero", "zero", 0)

Texts(first, second, third) ==
  {<<x, y, z, Padding>> : x \in first, y \in second, z \in third}

Has(t, ops) == \E k \in 1..3 : t[k].op \in ops

Calls(t, kind) == \E k \in 1..3 : t[k].sys = kind

Jumps == {I("JAL", "t6", "zero", -2), I("JALR", "zero", "t6", 0),
          I("JALR", "t6", "ra", 0), I("JAL", "ra", "zero", 2)}

NoTool == [instPre |-> FALSE, instPost |-> FALSE, typedPre |-> {}, typedPost |-> {},
           bbPre |-> FALSE, bbPost |-> FALSE]

SmallRegs == {0, 3}

-----------------------------------------------------------------------------
(* No routines.  A forwarded ECALL is right only when nothing has cached   *)
(* what follows it, so it is left to the texts that do not come back.      *)

First == {I("BRANCH", "zero", "t6", 2), I("BRANCH", "zero", "ra", 1),
          I("JAL", "ra", "zero", 2), I("JALR", "t6", "t6", 0),
          I("AUIPC", "t6", "zero", 2), I("LOAD", "ra", "t6", 0),
          I("LOAD", "t6", "t6", 3), I("STORE", "zero", "ra", 0),
          I("OPIMM", "t6", "zero", 2), I("LUI", "ra", "zero", 3),
          I("AMO", "ra", "sp", 1), Syscall("emulated"), Syscall("forwarded")}

Second == {I("BRANCH", "zero", "t6", -1), I("JAL", "zero", "zero", -1),
           I("JALR", "ra", "ra", 0), I("AUIPC", "ra", "zero", 0),
           I("LOAD", "ra", "sp", 2), I("OPIMM", "t6", "zero", 0),
           I("OP", "t6", "ra", 1), I("AMO", "t6", "t6", 0),
           Syscall("emulated"), Syscall("forwarded"), Syscall("exit")}

OnlyForward(t) ==
  \A k \in 1..3 : t[k].op # "JALR" /\ (t[k].op \in {"JAL", "BRANCH"} => t[k].imm > 0)

CoreTexts == {t \in Texts(First, Second, Jumps \cup {Syscall("exit")}) :
                Calls(t, "forwarded") => OnlyForward(t)}

CoreSetups == {[text |-> t, tool |-> NoTool] : t \in CoreTexts}

-----------------------------------------------------------------------------
(* Routines that work: for all instructions, after those of a type, or     *)
(* around basic blocks.  No atomics, which get no routines, and no         *)
(* forwarded ECALL, whose POST routines run before it.                     *)

InstrumentedTexts ==
  {t \in CoreTexts : ~Has(t, {"AMO"}) /\ ~Calls(t, "forwarded")}

PerInstruction ==
  {[NoTool EXCEPT !.instPre = b, !.instPost = c] : b, c \in BOOLEAN}

AfterType ==
  {[NoTool EXCEPT !.typedPost = s] :
      s \in {{"I"}, {"S"}, {"U"}, {"MEM_ACCESS"}, {"B", "J"}, {"SYSTEM"}, {"I", "MEM_ACCESS"}}}

AroundBB == {[NoTool EXCEPT !.bbPre = TRUE, !.bbPost = TRUE]}

InstrumentedSetups ==
  {[text |-> t, tool |-> s] :
      t \in InstrumentedTexts, s \in (PerInstruction \ {NoTool}) \cup AfterType \cup AroundBB}

(* With and without routines.                                              *)
EngineSetups == CoreSetups \cup InstrumentedSetups

-----------------------------------------------------------------------------
(* Routines before the instructions of a type, for texts without T6.  An   *)
(* ECALL may not have one.                                                 *)

TypedFirst == {I("BRANCH", "zero", "ra", 2), I("JAL", "ra", "zero", 2),
               I("JALR", "ra", "ra", 0), I("AUIPC", "ra", "zero", 2),
               I("LOAD", "ra", "sp", 3), I("STORE", "zero", "ra", 0),
               I("OPIMM", "ra", "zero", 0), I("OP", "ra", "ra", 3), Syscall("emulated")}

TypedSecond == {I("BRANCH", "zero", "ra", -1), I("LOAD", "ra", "ra", 2),
                I("STORE", "zero", "sp", 0), I("AUIPC", "ra", "zero", -1),
                I("OPIMM", "ra", "zero", 5), I("AMO", "ra", "ra", 1)}

TypedThird == {I("JAL", "ra", "zero", -2), I("JALR", "zero", "ra", 0), Syscall("exit")}

BeforeType ==
  {[NoTool EXCEPT !.typedPre = s] :
      s \in {{"I"}, {"S"}, {"U"}, {"R"}, {"MEM_ACCESS"}, {"B", "J"}, {"I", "MEM_ACCESS"}}}

TypedPreSetups ==
  {s \in {[text |-> t, tool |-> x] :
             t \in Texts(TypedFirst, TypedSecond, TypedThird), x \in BeforeType} :
     "I" \in s.tool.typedPre => ~Has(s.text, {"SYSTEM"})}

-----------------------------------------------------------------------------
(* Anything together with anything.                                        *)

AnyTool ==
  {[NoTool EXCEPT !.instPre = b, !.typedPre = s, !.typedPost = p, !.bbPre = TRUE] :
      b \in BOOLEAN, s \in {{}, {"I"}, {"MEM_ACCESS", "R"}, {"U", "B"}},
      p \in {{}, {"I"}}}

AnyTexts == Texts({I("BRANCH", "zero", "t6", 2), I("LOAD", "t6", "t6", 3),
                   I("AUIPC", "t6", "zero", 2), I("OPIMM", "ra", "zero", 2),
                   Syscall("forwarded")},
                  {I("JAL", "zero", "zero", -1), I("LOAD", "t6", "ra", 2),
                   I("AMO", "t6", "ra", 0), I("STORE", "zero", "t6", 0),
                   Syscall("forwarded")},
                  Jumps \cup {Syscall("exit"), I("OP", "ra", "ra", 1)})

AnySetups == {[text |-> t, tool |-> s] : t \in AnyTexts, s \in AnyTool}

-----------------------------------------------------------------------------
(* Where the code falls short.                                             *)

(* A loop through a forwarded ECALL, entered behind it.                    *)
ReentrySetups ==
  {[text |-> t, tool |-> NoTool] :
      t \in Texts({I("JAL", "ra", "zero", 2)}, {Syscall("forwarded")},
                  {I("JAL", "t6", "zero", -1), I("BRANCH", "zero", "ra", -1)})}

(* A typed PRE routine and a guest that uses T6.                           *)
BorrowedT6Setups ==
  {[text |-> t, tool |-> [NoTool EXCEPT !.typedPre = {"I"}]] :
      t \in Texts({I("LUI", "t6", "zero", 3)}, {I("OPIMM", "ra", "t6", 0)},
                  {I("JALR", "zero", "t6", 0), I("JAL", "ra", "zero", -2)})}

(* A routine before all instructions and two atomics in a row: the first   *)
(* does not end its block, so the second has no call.                      *)
AtomicSetups ==
  {[text |-> t, tool |-> [NoTool EXCEPT !.instPre = TRUE]] :
      t \in Texts({I("AMO", "ra", "ra", 1)}, {I("AMO", "ra", "sp", 1)},
                  {I("JAL", "ra", "zero", -2)})}
=============================================================================
