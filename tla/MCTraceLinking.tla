--------------------------- MODULE MCTraceLinking ---------------------------
(***************************************************************************)
(* Instances for TLC of the engine with trace linking.  A text has four    *)
(* words, the last of which is never read.                                 *)
(***************************************************************************)
EXTENDS TraceProperties

I(op, rd, rs1, imm) == [op |-> op, rd |-> rd, rs1 |-> rs1, imm |-> imm, sys |-> "none"]
Syscall(kind) == [op |-> "SYSTEM", rd |-> "zero", rs1 |-> "zero", imm |-> 0, sys |-> kind]

Padding == I("OPIMM", "zero", "zero", 0)

Texts(first, second, third) ==
  {<<x, y, z, Padding>> : x \in first, y \in second, z \in third}

Has(t, ops) == \E k \in 1..3 : t[k].op \in ops
Calls(t, kind) == \E k \in 1..3 : t[k].sys = kind

NoTool == [instPre |-> FALSE, instPost |-> FALSE, typedPre |-> {}, typedPost |-> {},
           bbPre |-> FALSE, bbPost |-> FALSE]

SmallRegs == {0, 3}

OnlyForward(t) ==
  \A k \in 1..3 : t[k].op # "JALR" /\ (t[k].op \in {"JAL", "BRANCH"} => t[k].imm > 0)

-----------------------------------------------------------------------------

TFirst == {I("BRANCH", "zero", "t6", 2), I("BRANCH", "zero", "ra", 1),
           I("JAL", "ra", "zero", 2), I("JAL", "zero", "zero", 1),
           I("JALR", "t6", "t6", 0), I("AUIPC", "t6", "zero", 2),
           I("LOAD", "t6", "t6", 3), I("OPIMM", "t6", "zero", 2),
           I("AMO", "ra", "sp", 1), Syscall("emulated"), Syscall("forwarded")}

TSecond == {I("BRANCH", "zero", "t6", -1), I("BRANCH", "zero", "ra", 1),
            I("JAL", "zero", "zero", -1), I("JAL", "t6", "zero", 1),
            I("LOAD", "ra", "ra", 2), I("OPIMM", "t6", "zero", 0),
            I("OP", "t6", "ra", 1),
            Syscall("emulated"), Syscall("forwarded"), Syscall("exit")}

TThird == {I("JAL", "t6", "zero", -2), I("JAL", "zero", "zero", -1),
           I("JALR", "zero", "t6", 0), I("JALR", "t6", "ra", 0),
           I("BRANCH", "zero", "ra", -1), I("JAL", "ra", "zero", 2), Syscall("exit")}

(* A trace that ends in a jump must not be left through it twice, since    *)
(* the link its first exit makes does not preserve T6 (PatchedJump.cfg).   *)
(* Where a trace of n joined blocks from a ends:                           *)
TraceEndsAt(t) ==
  LET f[a \in -2..8, n \in 0..TraceBlocks] ==
        IF a \notin 1..3 \/ t[a].op \in {"BRANCH", "JALR", "SYSTEM"} THEN a
        ELSE IF t[a].op = "JAL" THEN IF n = 0 THEN a ELSE f[a + t[a].imm, n - 1]
        ELSE f[a + 1, n]
  IN  f

EndsInJump(t, a, n) ==
  LET e == TraceEndsAt(t)[a, n] IN e \in 1..3 /\ t[e].op = "JAL"

(* init's trace has one block, stub's have TraceBlocks.                    *)
NoJumpExitTwice(t) ==
  \/ OnlyForward(t)
  \/ /\ \A a \in 2..3 : ~EndsInJump(t, a, TraceBlocks - 1)
     /\ ~EndsInJump(t, 1, 0)
  \/ /\ \A a \in 2..3 : ~EndsInJump(t, a, TraceBlocks - 1)
     /\ \A k \in 1..3 : /\ t[k].op # "JALR"
                        /\ t[k].op \in {"JAL", "BRANCH"} => k + t[k].imm # 1

PlainTexts ==
  {t \in Texts(TFirst, TSecond, TThird) :
     NoJumpExitTwice(t) /\ (Calls(t, "forwarded") => OnlyForward(t))}

-----------------------------------------------------------------------------
(* Routines for single instructions: with links among traces they would    *)
(* meet a stale currentBB, so these texts have no direct exits.            *)

RoutineTexts ==
  {t \in Texts(TFirst, TSecond, TThird) :
     ~Has(t, {"BRANCH", "JAL", "AMO"}) /\ ~Calls(t, "forwarded")}

Routines ==
  ({[NoTool EXCEPT !.instPre = b, !.instPost = c] : b, c \in BOOLEAN} \ {NoTool})
  \cup {[NoTool EXCEPT !.typedPost = s] : s \in {{"U"}, {"MEM_ACCESS"}, {"R", "SYSTEM"}}}

TraceSetups ==
  {[text |-> t, tool |-> NoTool] : t \in PlainTexts}
  \cup {[text |-> t, tool |-> s] : t \in RoutineTexts, s \in Routines}

-----------------------------------------------------------------------------
(* A loop longer than a trace: it is left through a jump, again and again. *)

PatchedJumpSetups ==
  {[text |-> t, tool |-> NoTool] :
     t \in Texts({I("OPIMM", "ra", "zero", 2)}, {I("OPIMM", "ra", "zero", 3)},
                 {I("JAL", "zero", "zero", -1)})}
=============================================================================
