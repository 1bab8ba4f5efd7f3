----------------------------- MODULE MemAccess ------------------------------
(***************************************************************************)
(* What allocateBB and allocateNextInst lay out in place of a load, store, *)
(* atomic, AUIPC or branch, word by word, and the processor running it.    *)
(* The guest's data lies dataOffset above the addresses the guest uses, so *)
(* an access whose base register is below dataOffset gets it added; this   *)
(* needs a scratch register, which is saved below the stack pointer.       *)
(* Module CacheWords has these sequences as single words.                  *)
(***************************************************************************)
EXTENDS RvHardware, Sequences

CONSTANTS
  Cases,         \* what is laid out: [inst : RvWord, single : BOOLEAN]
  InitialRegs,   \* register files a sequence may start with
  PC,            \* the guest address of the instruction
  dataOffset     \* CodeCache::dataOffset

ASSUME CasesAssumption == Cases \subseteq [inst : RvWord, single : BOOLEAN]
ASSUME InitialRegsAssumption == InitialRegs \subseteq [Reg -> Int]
ASSUME AddressAssumption == PC \in Int /\ dataOffset \in Nat

(* Instructions lie at even addresses; dataOffset is an int that holds     *)
(* data_addr, the address of a page (rail.cpp:208).                        *)
ASSUME AlignmentAssumption ==
  PC % 2 = 0 /\ dataOffset % 2 = 0 /\ dataOffset <= 2147483647

VARIABLES
  inst,     \* the guest's word
  single,   \* laid out by allocateNextInst rather than allocateBB
  guest,    \* the registers the guest has before the instruction
  words,    \* the words laid out, empty before
  ip,       \* the word the processor is at
  regs,     \* the registers
  memory,   \* the memory written since
  left      \* the host address jumped to, 0 while in the sequence

laidOut == <<inst, single, guest, words>>
vars == <<inst, single, guest, words, ip, regs, memory, left>>

(* Host entry points as the processor sees them: even, of several pages.   *)
ContextSwitch      == 20746
ContextSwitchTaken == 27046

-----------------------------------------------------------------------------
(* insertLi and insertRoutine.                                             *)

(* Half of the low twelve bits are added twice, so that ADDI never sees a  *)
(* negative immediate.                                                     *)
insertLi(v, reg) ==
  LET addi == encode_Itype([opcode |-> "OPIMM", rd |-> reg, funct3 |-> 0, rs1 |-> reg,
                            imm |-> (v % 4096) \div 2])
  IN  <<encode_Utype([opcode |-> "LUI", rd |-> reg, imm |-> (v \div 4096) % Two20]),
        addi, addi>>

MoveSP(n) == encode_Itype([opcode |-> "OPIMM", rd |-> SP, funct3 |-> 0, rs1 |-> SP, imm |-> n])

inline_save(reg) ==
  <<MoveSP(-16),
    encode_Stype([opcode |-> "STORE", funct3 |-> 3, rs1 |-> SP, rs2 |-> reg, imm |-> 0])>>

inline_load(reg) ==
  <<encode_Itype([opcode |-> "LOAD", rd |-> reg, funct3 |-> 3, rs1 |-> SP, imm |-> 0]),
    MoveSP(16)>>

JalrT6 == <<encode_Itype([opcode |-> "JALR", rd |-> ZERO, funct3 |-> 0, rs1 |-> T6, imm |-> 0])>>

JalUnset(bytes) ==   \* mutant: the distance is never filled in
  encode_Jtype([opcode |-> "JAL", rd |-> ZERO, imm |-> 0 * bytes])

Jal(bytes) == encode_Jtype([opcode |-> "JAL", rd |-> ZERO, imm |-> bytes])

BltOver(a, b) == encode_Btype([opcode |-> "BRANCH", funct3 |-> 4, rs1 |-> a, rs2 |-> b, imm |-> 12])

Arith(funct7, rd, a, b) ==
  encode_Rtype([opcode |-> "OP", rd |-> rd, funct3 |-> 0, rs1 |-> a, rs2 |-> b, funct7 |-> funct7])
Add(rd, a, b) == Arith(0, rd, a, b)
Sub(rd, a, b) == Arith(32, rd, a, b)

Scratch(i) == IF i.rs1 = T6 THEN T5 ELSE T6

-----------------------------------------------------------------------------
(* The sequences.                                                          *)

(* The scratch register saved and holding dataOffset; then the access as   *)
(* it is, or the other words when the base is below; then what was saved.  *)
AroundUnrestored(w, scratch, access, skip, adjusted) ==   \* mutant
  inline_save(scratch) \o insertLi(dataOffset, scratch)
    \o <<BltOver(w.rs1, scratch), access, Jal(skip)>>
    \o adjusted \o <<MoveSP(16)>>

Around(w, scratch, access, skip, adjusted) ==
  inline_save(scratch) \o insertLi(dataOffset, scratch)
    \o <<BltOver(w.rs1, scratch), access, Jal(skip)>>
    \o adjusted \o inline_load(scratch)

(* allocateBB: the copy of a load or store goes through the scratch        *)
(* register.                                                               *)
AdjustedAccess(w) ==
  LET i == decode_instruction(w)
      s == Scratch(i)
  IN  Around(w, s, w, 12, <<Add(s, i.rs1, s), encode_instruction([i EXCEPT !.rs1 = s])>>)

(* allocateNextInst: the base register itself is moved and moved back,     *)
(* unless the instruction also loads or stores it.                         *)
AdjustedInPlace(w) ==
  LET i     == decode_instruction(w)
      s     == Scratch(i)
      other == IF w.opcode = "LOAD" THEN i.rd ELSE i.rs2
  IN  Around(w, s, w, 16, <<Add(i.rs1, i.rs1, s), w,
                            IF i.rs1 # other THEN Sub(i.rs1, i.rs1, s) ELSE Nop>>)

(* LR and SC are to become a plain load and store, but are encoded with    *)
(* the opcode OP.                                                          *)
Unreserved(w) ==
  LET i     == decode_Rtype(w)
      width == IF i.funct3 = 2 THEN 2 ELSE 3
  IN  CASE LR(w) -> encode_Itype([opcode |-> "OP", rd |-> i.rd, funct3 |-> width,
                                  rs1 |-> i.rs1, imm |-> 0])
        [] SC(w) -> encode_Stype([opcode |-> "OP", funct3 |-> width, rs1 |-> i.rs1,
                                  rs2 |-> i.rs2, imm |-> 0])
        [] OTHER -> w

(* An SC is followed by words that report success.                         *)
Success(w) ==
  IF SC(w) THEN <<encode_Itype([opcode |-> "OP", rd |-> w.rd, funct3 |-> 0,
                                rs1 |-> ZERO, imm |-> 0])>>
           ELSE << >>

AdjustedAtomic(w) ==
  LET access == Unreserved(w)
      i      == decode_instruction(access)
      s      == Scratch(i)
  IN  Around(w, s, access, 16, <<Add(i.rs1, i.rs1, s), encode_instruction(i),
                                 Sub(i.rs1, i.rs1, s)>>) \o Success(w)

(* An AUIPC becomes a li of its result, computed in 32 bits.               *)
ReplacedAuipc(w) ==
  LET i == decode_Utype(w)
  IN  insertLi(PC + 4096 * SignExtended(i.imm, Two20), i.rd)

(* The exits of a branch; the branch, taken, skips the first.              *)
BranchExitShort(w) ==   \* mutant: the skip counted from the next word
  inline_save(T6) \o <<encode_Btype([decode_Btype(w) EXCEPT !.imm = 16])>>
    \o insertLi(ContextSwitch, T6) \o JalrT6
    \o insertLi(ContextSwitchTaken, T6) \o JalrT6

BranchExit(w) ==
  inline_save(T6) \o <<encode_Btype([decode_Btype(w) EXCEPT !.imm = 20])>>
    \o insertLi(ContextSwitch, T6) \o JalrT6
    \o insertLi(ContextSwitchTaken, T6) \o JalrT6

(* What either function lays out for the guest's word.                     *)
LaidOut(w) ==
  CASE w.opcode = "BRANCH"                                     -> BranchExit(w)
    [] w.opcode = "AUIPC"                                      -> ReplacedAuipc(w)
    [] w.opcode \in {"LOAD", "STORE"} /\ w.rs1 # SP /\ ~single -> AdjustedAccess(w)
    [] w.opcode \in {"LOAD", "STORE"} /\ w.rs1 # SP /\ single  -> AdjustedInPlace(w)
    [] w.opcode = "AMO" /\ w.rs1 # SP /\ ~single               -> AdjustedAtomic(w)
    [] w.opcode = "AMO" /\ w.rs1 = SP /\ ~single               -> <<Unreserved(w)>> \o Success(w)
    [] OTHER                                                   -> <<w>>

Allocate ==
  /\ words = << >>
  /\ words' = LaidOut(inst)
  /\ UNCHANGED <<inst, single, guest, ip, regs, memory, left>>

-----------------------------------------------------------------------------
(* The processor.                                                          *)

Running == words # << >> /\ ip \in 1..Len(words) /\ left = 0

word == words[ip]

At(opcode) == Running /\ word.opcode = opcode

Operand1 == Value(regs, word.rs1)
Operand2 == Value(regs, word.rs2)

Computes(v) ==
  /\ regs' = Written(regs, word.rd, v)
  /\ ip' = ip + 1
  /\ UNCHANGED <<laidOut, memory, left>>

RunOpImm == At("OPIMM") /\ Computes(Operand1 + ImmI(word))

RunLui == At("LUI") /\ Computes(ImmU(word))

RunOp == At("OP") /\ Computes(ALU(word, Operand1, Operand2))

RunAccess ==
  /\ At("LOAD") \/ At("STORE") \/ At("AMO")
  /\ regs' = AccessRegs(word, Operand1, regs, memory)
  /\ memory' = AccessMemory(word, Operand1, regs, memory)
  /\ ip' = ip + 1
  /\ UNCHANGED <<laidOut, left>>

Goes(bytes) ==
  /\ ip' = ip + bytes \div 4
  /\ UNCHANGED <<laidOut, regs, memory, left>>

RunBranch ==
  /\ At("BRANCH")
  /\ Goes(IF Taken(word, Operand1, Operand2) THEN ImmB(word) ELSE 4)

RunJal == At("JAL") /\ Goes(ImmJ(word))

RunJalr ==
  /\ At("JALR")
  /\ left' = Operand1 + ImmI(word)
  /\ UNCHANGED <<laidOut, ip, regs, memory>>

-----------------------------------------------------------------------------

Init ==
  /\ \E c \in Cases : inst = c.inst /\ single = c.single
  /\ guest \in InitialRegs
  /\ words = << >>
  /\ ip = 1
  /\ regs = guest
  /\ memory = [a \in {} |-> 0]
  /\ left = 0

(* The sequence is over: its last word or a jump to the host is behind.    *)
Finished == words # << >> /\ (ip = Len(words) + 1 \/ left # 0)

Finish == Finished /\ UNCHANGED vars

Step ==
  \/ Allocate
  \/ RunOpImm \/ RunLui \/ RunOp \/ RunAccess
  \/ RunBranch \/ RunJal \/ RunJalr

Next == Step \/ Finish

Spec == Init /\ [][Next]_vars
FairSpec == Spec /\ WF_vars(Step)
=============================================================================
