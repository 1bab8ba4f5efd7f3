------------------------ MODULE MemAccessInvariants -------------------------
(***************************************************************************)
(* What every state of a sequence of module MemAccess has that its         *)
(* properties follow from: before each word, which registers and cells are *)
(* the guest's and what the library's hold.                                *)
(***************************************************************************)
EXTENDS MemAccessProperties

-----------------------------------------------------------------------------
(* What the library must be given.                                         *)

AccessOp == {"LOAD", "STORE", "AMO"}

(* The registers an instruction names.                                     *)
Operands(w) ==
  CASE w.opcode = "LOAD"             -> {w.rs1, w.rd}
    [] w.opcode = "STORE"            -> {w.rs1, w.rs2}
    [] w.opcode = "AMO"              -> {w.rs1, w.rs2, w.rd}
    [] w.opcode = "AUIPC"            -> {w.rd}
    [] w.opcode = "BRANCH"           -> {w.rs1, w.rs2}

(* Where an access goes.                                                   *)
Offset(w) ==
  CASE w.opcode = "LOAD"  -> ImmI(w)
    [] w.opcode = "STORE" -> ImmS(w)
    [] OTHER              -> 0

(* The instruction has a sequence and names registers of the model; an     *)
(* access does not disturb its sequence and leaves alone the word below    *)
(* the stack that the scratch register is saved to; an AUIPC has a result  *)
(* of 32 bits; a branch does not compare SP, which its exit has moved      *)
(* (code_cache.cpp:206).                                                   *)
Undisturbed ==
  /\ inst.opcode \in AccessOp \cup {"AUIPC", "BRANCH"}
  /\ Operands(inst) \subseteq Reg \cup {ZERO}
  /\ inst.opcode \in AccessOp =>
       /\ ~Disturbed([inst |-> inst, single |-> single])
       /\ ~LR(inst) /\ ~SC(inst)
       /\ inst.rs1 # SP => Base + Offset(inst) # Parking
  /\ inst.opcode = "AUIPC" =>
       -2147483647 - 1 <= PC + ImmU(inst) /\ PC + ImmU(inst) <= 2147483647
  /\ inst.opcode = "BRANCH" => SP \notin {inst.rs1, inst.rs2}

-----------------------------------------------------------------------------
(* The guest's state in the middle of a sequence.                          *)

Borrowed == IF inst.opcode = "BRANCH" THEN T6 ELSE Scratch(inst)

(* The registers but those of X are the ones of r.                         *)
Agree(r, X) == \A n \in Reg \ X : regs[n] = r[n]

SameCells(m, n) ==
  \A a \in (DOMAIN m \cup DOMAIN n) \ {Parking} : Cell(m, a) = Cell(n, a)

Parked == regs[SP] = Parking /\ Cell(memory, Parking) = guest[Borrowed]

(* Before the access and after it, but for the register in the way and SP  *)
(* and what of the base register has been moved.                           *)
Before(X) == Agree(guest, {SP, Borrowed} \cup X) /\ SameCells(memory, NoMemory) /\ Parked
After(X)  == Agree(GuestRegs, {SP, Borrowed} \cup X) /\ SameCells(memory, GuestMemory) /\ Parked

(* insertLi's three words, for a value v.                                  *)
Page(v) == 4096 * (v \div 4096)
Half(v) == (v % 4096) \div 2

Untouched == regs = guest /\ memory = NoMemory

Lowered == regs = [guest EXCEPT ![SP] = Parking] /\ memory = NoMemory

-----------------------------------------------------------------------------
(* The sequences, word by word.                                            *)

(* An access as it is.                                                     *)
PlainAt ==
  \/ ip = 1 /\ Untouched
  \/ ip = 2 /\ regs = GuestRegs /\ memory = GuestMemory

(* The constant in place of an AUIPC.                                      *)
AuipcAt ==
  LET v == PC + ImmU(inst)
  IN  /\ memory = NoMemory
      /\ \/ ip = 1 /\ regs = guest
         \/ ip = 2 /\ regs = Written(guest, inst.rd, Page(v))
         \/ ip = 3 /\ regs = Written(guest, inst.rd, Page(v) + Half(v))
         \/ ip = 4 /\ regs = Written(guest, inst.rd, v)

BranchGoes == Taken(inst, Value(guest, inst.rs1), Value(guest, inst.rs2))

(* A branch's exit for the host routine h, from word k on.                 *)
ExitAt(k, h) ==
  \/ ip = k     /\ left = 0
  \/ ip = k + 1 /\ left = 0 /\ regs[T6] = Page(h)
  \/ ip = k + 2 /\ left = 0 /\ regs[T6] = Page(h) + Half(h)
  \/ ip = k + 3 /\ left \in {0, h} /\ regs[T6] = h

BranchAt ==
  \/ ip = 1 /\ Untouched /\ left = 0
  \/ ip = 2 /\ Lowered /\ left = 0
  \/ ip = 3 /\ Before({}) /\ regs[T6] = guest[T6] /\ left = 0
  \/ ~BranchGoes /\ Before({}) /\ ExitAt(4, ContextSwitch)
  \/ BranchGoes /\ Before({}) /\ ExitAt(8, ContextSwitchTaken)

(* An access with a register borrowed around it ...                        *)
AroundAt ==
  \/ ip = 1 /\ Untouched
  \/ ip = 2 /\ Lowered
  \/ ip = 3 /\ Before({})
  \/ ip = 4 /\ Before({}) /\ regs[Borrowed] = Page(dataOffset)
  \/ ip = 5 /\ Before({}) /\ regs[Borrowed] = Page(dataOffset) + Half(dataOffset)
  \/ ip = 6 /\ Before({}) /\ regs[Borrowed] = dataOffset
  \/ ip = 7 /\ Before({}) /\ Value(guest, inst.rs1) >= dataOffset
  \/ ip = 8 /\ After({})
  \/ ip = 9 /\ Before({}) /\ regs[Borrowed] = dataOffset
            /\ Value(guest, inst.rs1) < dataOffset
  \/ ip = Len(words) - 1 /\ After({})
  \/ ip = Len(words)     /\ After({}) /\ regs[Borrowed] = guest[Borrowed]
  \/ ip = Len(words) + 1 /\ regs = GuestRegs /\ SameCells(memory, GuestMemory)

(* ... for which the address is computed there ...                         *)
CopyAt == ip = 10 /\ Before({}) /\ regs[Borrowed] = Base

(* ... or in the base register, which gets its value back unless it has    *)
(* been loaded.                                                            *)
InPlaceAt ==
  LET b == inst.rs1
  IN  /\ Value(guest, b) < dataOffset /\ regs[Borrowed] = dataOffset
      /\ \/ ip = 10 /\ Before({b}) /\ regs[b] = Base
         \/ ip = 11 /\ IF b \in Other(inst) THEN After({}) ELSE After({b}) /\ regs[b] = Base

InPlace == MovedInPlace([inst |-> inst, single |-> single])

SequenceAt ==
  CASE inst.opcode = "BRANCH"                      -> BranchAt
    [] inst.opcode = "AUIPC"                       -> AuipcAt /\ left = 0
    [] inst.opcode \in AccessOp /\ inst.rs1 = SP   -> PlainAt /\ left = 0
    [] inst.opcode \in AccessOp /\ inst.rs1 # SP   ->
         /\ AroundAt \/ (IF InPlace THEN InPlaceAt ELSE CopyAt)
         /\ left = 0

SequenceInv ==
  /\ guest \in [Reg -> Int]
  /\ words = << >> => ip = 1 /\ Untouched /\ left = 0
  /\ words # << >> /\ Undisturbed =>
       /\ words = LaidOut(inst)
       /\ regs \in [Reg -> Int] /\ memory \in [DOMAIN memory -> Int]
       /\ SequenceAt
=============================================================================
