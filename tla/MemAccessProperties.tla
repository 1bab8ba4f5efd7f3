------------------------ MODULE MemAccessProperties -------------------------
(***************************************************************************)
(* What the sequences of module MemAccess, and the codec they are written  *)
(* with, must do.                                                          *)
(***************************************************************************)
EXTENDS MemAccess

(* Every variable has its type.                                            *)
TypeOK ==
  /\ inst \in RvWord
  /\ single \in BOOLEAN
  /\ guest \in [Reg -> Int]
  /\ words \in Seq(RvWord)
  /\ ip \in Int
  /\ regs \in [Reg -> Int]
  /\ memory \in [DOMAIN memory -> Int]
  /\ left \in Int

-----------------------------------------------------------------------------
(* The guest's instruction itself, on the guest's data where the library   *)
(* put it.                                                                 *)

NoMemory == [a \in {} |-> 0]

Translated(a) == IF a < dataOffset THEN a + dataOffset ELSE a

Base == IF inst.rs1 = SP THEN guest[SP] ELSE Translated(Value(guest, inst.rs1))

GuestRegs ==
  IF inst.opcode = "AUIPC" THEN Written(guest, inst.rd, PC + ImmU(inst))
                           ELSE AccessRegs(inst, Base, guest, NoMemory)

GuestMemory == AccessMemory(inst, Base, guest, NoMemory)

(* Where the sequence may write on its own account: below the stack.       *)
Parking == guest[SP] - 16

SameMemory ==
  \A a \in (DOMAIN memory \cup DOMAIN GuestMemory) \ {Parking} :
    Cell(memory, a) = Cell(GuestMemory, a)

(* The sequence laid out for a load, store, atomic or AUIPC leaves all     *)
(* registers, the scratch register and SP among them, and all memory above *)
(* the stack pointer as the instruction itself would: the effect of the    *)
(* words allocateBB and allocateNextInst emit around an access.            *)
ResultMatchesGuest ==
  Finished /\ inst.opcode # "BRANCH" => left = 0 /\ regs = GuestRegs /\ SameMemory

(* A branch leaves for the host routine of the way the guest's branch      *)
(* would go, with all registers as they were but T6, which lies where the  *)
(* routine looks for it (util.S, the first words of a context switch).     *)
ExitMatchesGuest ==
  Finished /\ inst.opcode = "BRANCH" =>
    /\ left = IF Taken(inst, Value(guest, inst.rs1), Value(guest, inst.rs2))
              THEN ContextSwitchTaken ELSE ContextSwitch
    /\ \A r \in Reg \ {T6, SP} : regs[r] = guest[r]
    /\ regs[SP] = Parking /\ Cell(memory, Parking) = guest[T6]

(* The relative jumps inside a sequence lead to its end: the processor     *)
(* gets out of what the allocator laid out.                                *)
SequenceEnds == <>Finished

-----------------------------------------------------------------------------
(* Instructions whose sequence is known to be wrong.  The scratch register *)
(* is saved below SP before and restored after the access, so neither may  *)
(* be its operand; a base register that is moved in place may not be an    *)
(* operand either, and register 0 cannot be moved.                         *)

MovedInPlace(c) == c.single \/ c.inst.opcode = "AMO"

Other(w) == CASE w.opcode = "LOAD"  -> {w.rd}
              [] w.opcode = "STORE" -> {w.rs2}
              [] OTHER              -> {w.rd, w.rs2}

Disturbed(c) ==
  /\ c.inst.rs1 # SP
  /\ \/ {SP, Scratch(c.inst)} \cap Other(c.inst) # {}
     \/ MovedInPlace(c) /\ c.inst.rs1 = ZERO
     \/ MovedInPlace(c) /\ c.inst.opcode # "LOAD" /\ c.inst.rs1 \in Other(c.inst)
     \/ c.single /\ c.inst.opcode = "AMO"

-----------------------------------------------------------------------------
(* The codec.                                                              *)

(* RvDecoder's immediate is the processor's, sign and bit order included.  *)
DecodesAsHardware(w) ==
  LET i == decode_instruction(w)
  IN  CASE w.opcode \in ITypeOp -> i.imm = ImmI(w)
        [] w.opcode = "STORE"   -> i.imm = ImmS(w)
        [] w.opcode = "BRANCH"  -> i.imm = ImmB(w)
        [] w.opcode = "JAL"     -> i.imm = ImmJ(w)
        [] w.opcode \in UTypeOp -> 4096 * SignExtended(i.imm, Two20) = ImmU(w)
        [] OTHER                -> TRUE

(* Opcodes encode_instruction turns into a NOP: a fence or a system call   *)
(* must never be laid out through it.                                      *)
NotEncoded == {"SYSTEM", "MISC_MEM", "other"}

(* Encoding what was decoded gives the word back, so that rewriting one    *)
(* field, as the sequences do, changes nothing else.                       *)
ReencodesExactly(w) ==
  w.opcode \notin NotEncoded => encode_instruction(decode_instruction(w)) = w

(* For the guest's word and every word laid out: RvDecoder reads the       *)
(* immediate the processor reads, and RvEncoder undoes RvDecoder.          *)
CodecIsExact ==
  \A w \in {inst} \cup {words[k] : k \in DOMAIN words} :
    DecodesAsHardware(w) /\ ReencodesExactly(w)

-----------------------------------------------------------------------------
(* Of LR and SC: "sw/lw rd, x(rs1)" (code_cache.cpp:502), "add load/store" *)
(* (508).  An LR loads, an SC stores.                                      *)
ReservedReachMemory ==
  Finished /\ (LR(inst) \/ SC(inst)) =>
    regs[inst.rd] = GuestRegs[inst.rd] /\ SameMemory
=============================================================================
