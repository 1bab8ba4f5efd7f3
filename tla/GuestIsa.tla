------------------------------ MODULE GuestIsa ------------------------------
(***************************************************************************)
(* The instructions of the instrumented ("guest") binary and what the      *)
(* hardware does with them.  Addresses count instruction words, from 1; 0  *)
(* is the address the library uses for "no block".  An instruction keeps   *)
(* the fields the library looks at: its opcode, rd, rs1 and an immediate.  *)
(*                                                                         *)
(* Data is abstracted to what decides control: a branch is taken when its  *)
(* rs1 is not zero, a load, an atomic or an arithmetic instruction writes  *)
(* its immediate, and stores write nothing the model looks at.             *)
(* Registers are T6, which the library borrows, and RA, which stands for   *)
(* every register it does not borrow.  SP occurs only as a base register.  *)
(***************************************************************************)
EXTENDS Integers, Sequences

Reg == {"ra", "t6"}

Opcode == {"BRANCH", "JAL", "JALR", "AUIPC", "LOAD", "STORE", "SYSTEM",
           "AMO", "OP", "OPIMM", "LUI"}

(* What the a7 of an ECALL asks for, as handle_syscalls sorts it: a call   *)
(* the library performs itself, one it leaves to the host, or an exit.     *)
SyscallKind == {"none", "emulated", "forwarded", "exit"}

Inst == [op  : Opcode \cup {"none"},
         rd  : Reg \cup {"zero"},
         rs1 : Reg \cup {"zero", "sp"},
         imm : Int,
         sys : SyscallKind]

(* The zero word: what reading outside the text section yields.            *)
NoInst == [op |-> "none", rd |-> "zero", rs1 |-> "zero", imm |-> 0, sys |-> "none"]

(* What a typed routine may be registered for.  No opcode has the last     *)
(* three; SYSTEM and MEM_ACCESS are looked up apart, AMO never is.         *)
InstType == {"R", "I", "S", "U", "B", "J", "SYSTEM", "MEM_ACCESS", "AMO"}

getType(op) ==
  CASE op \in {"OPIMM", "JALR", "LOAD", "SYSTEM"} -> "I"
    [] op = "STORE"                               -> "S"
    [] op \in {"AUIPC", "LUI"}                    -> "U"
    [] op = "BRANCH"                              -> "B"
    [] op = "JAL"                                 -> "J"
    [] OTHER                                      -> "R"

MemoryOp  == {"LOAD", "STORE"}
ControlOp == {"BRANCH", "JAL", "JALR", "SYSTEM"}

-----------------------------------------------------------------------------
(* The hardware's semantics.                                               *)

RegValue(regs, r) == IF r \in Reg THEN regs[r] ELSE 0

BranchTaken(i, regs) == RegValue(regs, i.rs1) # 0

Target(i, a, regs) ==
  CASE i.op = "BRANCH" -> IF BranchTaken(i, regs) THEN a + i.imm ELSE a + 1
    [] i.op = "JAL"    -> a + i.imm
    [] i.op = "JALR"   -> RegValue(regs, i.rs1) + i.imm
    [] OTHER           -> a + 1

Result(i, a) ==
  CASE i.op \in {"JAL", "JALR"} -> a + 1
    [] i.op = "AUIPC"           -> a + i.imm
    [] OTHER                    -> i.imm

WritesRd(i) == i.op \notin {"BRANCH", "STORE", "SYSTEM", "none"} /\ i.rd \in Reg

Execute(i, a, regs) ==
  IF WritesRd(i) THEN [regs EXCEPT ![i.rd] = Result(i, a)] ELSE regs
=============================================================================
