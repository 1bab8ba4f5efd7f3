----------------------------- MODULE CacheWords -----------------------------
(***************************************************************************)
(* The words the allocator writes into the code cache, and the sequences   *)
(* it writes them in, word for word: the dispatcher jumps to fixed offsets *)
(* (one word before a block, six words into one), so lengths matter.       *)
(*                                                                         *)
(* A sequence that is only ever entered at its first word is executed as   *)
(* one step: its other words are "cont" and cannot be executed alone.  The *)
(* address-adjusting sequence around a load, store or atomic is entered    *)
(* and left at its ends only and stands as the single word "mem"; an       *)
(* atomic's stands for the access whose address needs no adjustment.       *)
(***************************************************************************)
EXTENDS GuestIsa

WordKind == {"restore", "save", "li", "liT5", "cont", "jalrT6", "branch",
             "guest", "mem", "setpc", "ecall", "jalRoot"}

(* a: the guest address whose instruction the word carries, 0 for the      *)
(* library's own words.  v: the constant a li loads.                       *)
Word == [k : WordKind, a : Int, v : Int]

W(k, a, v) == [k |-> k, a |-> a, v |-> v]

Cont == W("cont", 0, 0)

(* Entry points of the host, negative so that no guest or cache address    *)
(* equals one.                                                             *)
ContextSwitch           == -1
ContextSwitchTaken      == -2
ContextSwitchInstrument == -3
InitSwitch              == -4

NoRestoreScratch == << >>   \* mutant: a block that forgets to restore T6
RestoreScratch == <<W("restore", 0, 0)>>            \* ld t6, -16(sp)
InlineSave     == <<W("save", 0, 0), Cont>>         \* addi sp, -16; sd t6, 0(sp)
Li(v)          == <<W("li", 0, v), Cont, Cont>>     \* lui; addi; addi
LiT5(v)        == <<W("liT5", 0, v), Cont, Cont>>
JalrT6         == <<W("jalrT6", 0, 0)>>             \* jalr x0, 0(t6)

(* Leave the cache for the host routine h: six words.                      *)
SwitchTo(h) == InlineSave \o Li(h) \o JalrT6

(* The exit of a branch.  The copied branch skips five words when taken.   *)
BranchSkip    == 5
BranchExit(a) ==
  InlineSave \o <<W("branch", a, 0)>>
             \o Li(ContextSwitch) \o JalrT6
             \o Li(ContextSwitchTaken) \o JalrT6

(* An instruction that stays in line: AUIPC becomes a li of its result.    *)
InLine(i, a) ==
  CASE i.op = "AUIPC"                   -> <<W("setpc", a, a + i.imm), Cont, Cont>>
    [] i.op \in MemoryOp \cup {"AMO"}   -> <<W("mem", a, 0)>>
    [] OTHER                            -> <<W("guest", a, 0)>>

(* Mutant: the ECALL is not kept behind the block.                         *)
NoEcall(a) == << >>
Ecall(a) == <<W("ecall", a, 0)>>

(* The body allocateNextInst gives a pre-instrumented instruction: what it *)
(* does in line or its branch exit, then the switch to the dispatcher.  A  *)
(* memory access through T6 gets its exit address in T5, and an ECALL a    *)
(* jump to a stub region that this build never places: its distance from   *)
(* address 0, cut to the 21 bits of a JAL, leads to the cache's first word.*)
NextInstWords(i, a) ==
  CASE i.op = "BRANCH"          -> BranchExit(a)
    [] i.op \in {"JAL", "JALR"} -> SwitchTo(ContextSwitchTaken)
    [] i.op = "SYSTEM"          -> <<W("jalRoot", 0, 0)>> \o Ecall(a)
    [] i.op \in MemoryOp /\ i.rs1 = "t6" ->
         InLine(i, a) \o InlineSave \o LiT5(ContextSwitchTaken) \o JalrT6
    [] i.op = "AMO"             -> <<W("guest", a, 0)>> \o SwitchTo(ContextSwitchTaken)
    [] OTHER                    -> InLine(i, a) \o SwitchTo(ContextSwitchTaken)

(* Offset from a pre-instrumented block's start to its body.               *)
InstrumentSkipTooFar == 7   \* mutant
InstrumentSkip == 6
=============================================================================
