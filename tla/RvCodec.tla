------------------------------ MODULE RvCodec -------------------------------
(***************************************************************************)
(* RvDecoder and RvEncoder.  A word is given as its six groups of bits,    *)
(* 6:0, 11:7, 14:12, 19:15, 24:20 and 31:25, named for what they mean in   *)
(* an R-type instruction; every mask and shift of the two classes takes a  *)
(* group, a part of one or several in a row.  Opcodes are names.  The      *)
(* decoded instruction has the fields its decode function sets; the        *)
(* mnemonic, which only the printer reads, is left out.                    *)
(***************************************************************************)
EXTENDS Integers

RTypeOp == {"OP", "OP_32", "AMO"}
ITypeOp == {"OPIMM", "OPIMM_32", "JALR", "LOAD", "MISC_MEM", "SYSTEM"}
UTypeOp == {"AUIPC", "LUI"}

OpcodeName == RTypeOp \cup ITypeOp \cup UTypeOp \cup {"STORE", "BRANCH", "JAL", "other"}

RvWord == [opcode : OpcodeName,
           rd     : 0..31,
           funct3 : 0..7,
           rs1    : 0..31,
           rs2    : 0..31,
           funct7 : 0..127]

Two19 == 524288
Two20 == 1048576
Two21 == 2097152

(* A field of span values read as two's complement.                        *)
SignExtended(v, span) == IF v >= span \div 2 THEN v - span ELSE v

-----------------------------------------------------------------------------
(* RvDecoder.                                                              *)

decode_Rtype(w) ==
  [opcode |-> w.opcode, rd |-> w.rd, funct3 |-> w.funct3,
   rs1 |-> w.rs1, rs2 |-> w.rs2, funct7 |-> w.funct7]

decode_Itype(w) ==
  [opcode |-> w.opcode, rd |-> w.rd, funct3 |-> w.funct3, rs1 |-> w.rs1,
   imm    |-> SignExtended(w.rs2 + 32 * w.funct7, 4096)]

decode_Stype(w) ==
  [opcode |-> w.opcode, funct3 |-> w.funct3, rs1 |-> w.rs1, rs2 |-> w.rs2,
   imm    |-> SignExtended(w.rd + 32 * w.funct7, 4096)]

decode_Utype(w) ==
  [opcode |-> w.opcode, rd |-> w.rd,
   imm    |-> w.funct3 + 8 * w.rs1 + 256 * w.rs2 + 8192 * w.funct7]

decode_Btype(w) ==
  LET imm_11    == w.rd % 2
      imm_1to4  == w.rd \div 2
      imm_5to10 == w.funct7 % 64
      imm_12    == w.funct7 \div 64
  IN  [opcode |-> w.opcode, funct3 |-> w.funct3, rs1 |-> w.rs1, rs2 |-> w.rs2,
       imm    |-> SignExtended(4096 * imm_12 + 2048 * imm_11 + 32 * imm_5to10
                                 + 2 * imm_1to4, 8192)]

decode_Jtype(w) ==
  LET bits      == decode_Utype(w).imm
      imm_12to19 == bits % 256
      imm_11     == (bits \div 256) % 2
      imm_1to10  == (bits \div 512) % 1024
      imm_20     == bits \div Two19
  IN  [opcode |-> w.opcode, rd |-> w.rd,
       imm    |-> SignExtended(Two20 * imm_20 + 4096 * imm_12to19 + 2048 * imm_11
                                 + 2 * imm_1to10, Two21)]

(* Opcodes the decoder does not know give an instruction of zeros.         *)
UndefInst == [opcode |-> "other", rd |-> 0, funct3 |-> 0, rs1 |-> 0, rs2 |-> 0,
              funct7 |-> 0, imm |-> 0]

decode_instruction(w) ==
  CASE w.opcode \in RTypeOp -> decode_Rtype(w)
    [] w.opcode \in ITypeOp -> decode_Itype(w)
    [] w.opcode = "STORE"   -> decode_Stype(w)
    [] w.opcode \in UTypeOp -> decode_Utype(w)
    [] w.opcode = "BRANCH"  -> decode_Btype(w)
    [] w.opcode = "JAL"     -> decode_Jtype(w)
    [] OTHER                -> UndefInst

-----------------------------------------------------------------------------
(* RvEncoder.  Fields other than the immediate are in range wherever the   *)
(* library encodes; an immediate loses the bits its format has no room for.*)

encode_Rtype(i) ==
  [opcode |-> i.opcode, rd |-> i.rd, funct3 |-> i.funct3,
   rs1 |-> i.rs1, rs2 |-> i.rs2, funct7 |-> i.funct7]

(* Mutant: a negative immediate spills out of its field.                   *)
encode_ItypeUnmasked(i) ==
  [opcode |-> i.opcode, rd |-> i.rd, funct3 |-> i.funct3, rs1 |-> i.rs1,
   rs2    |-> i.imm % 32,
   funct7 |-> i.imm \div 32]

encode_Itype(i) ==
  [opcode |-> i.opcode, rd |-> i.rd, funct3 |-> i.funct3, rs1 |-> i.rs1,
   rs2    |-> i.imm % 32,
   funct7 |-> (i.imm % 4096) \div 32]

encode_Stype(i) ==
  [opcode |-> i.opcode, rd |-> i.imm % 32, funct3 |-> i.funct3,
   rs1 |-> i.rs1, rs2 |-> i.rs2,
   funct7 |-> (i.imm % 4096) \div 32]

encode_Utype(i) ==
  [opcode |-> i.opcode, rd |-> i.rd,
   funct3 |-> i.imm % 8,
   rs1    |-> (i.imm \div 8) % 32,
   rs2    |-> (i.imm \div 256) % 32,
   funct7 |-> (i.imm \div 8192) % 128]

(* Mutant: bit 11 of the offset is not brought down to bit 7.              *)
encode_BtypeNoBit11(i) ==
  [opcode |-> i.opcode, funct3 |-> i.funct3, rs1 |-> i.rs1, rs2 |-> i.rs2,
   rd     |-> 2 * ((i.imm \div 2) % 16),
   funct7 |-> ((i.imm \div 32) % 64) + 64 * ((i.imm \div 4096) % 2)]

encode_Btype(i) ==
  [opcode |-> i.opcode, funct3 |-> i.funct3, rs1 |-> i.rs1, rs2 |-> i.rs2,
   rd     |-> ((i.imm \div 2048) % 2) + 2 * ((i.imm \div 2) % 16),
   funct7 |-> ((i.imm \div 32) % 64) + 64 * ((i.imm \div 4096) % 2)]

encode_Jtype(i) ==
  LET imm_x1 == (i.imm % 2048) \div 2
      imm_x2 == (i.imm \div 2048) % 2
      imm_x3 == (i.imm \div 4096) % 256
      imm_x4 == (i.imm \div Two20) % 2
  IN  encode_Utype([opcode |-> i.opcode, rd |-> i.rd,
                    imm |-> imm_x3 + 256 * imm_x2 + 512 * imm_x1 + Two19 * imm_x4])

(* Everything else, system calls and fences among it, becomes a NOP.       *)
Nop == [opcode |-> "OPIMM", rd |-> 0, funct3 |-> 0, rs1 |-> 0, rs2 |-> 0, funct7 |-> 0]

encode_instruction(i) ==
  CASE i.opcode \in RTypeOp                               -> encode_Rtype(i)
    [] i.opcode \in {"LOAD", "JALR", "OPIMM", "OPIMM_32"} -> encode_Itype(i)
    [] i.opcode = "STORE"                                 -> encode_Stype(i)
    [] i.opcode \in UTypeOp                               -> encode_Utype(i)
    [] i.opcode = "BRANCH"                                -> encode_Btype(i)
    [] i.opcode = "JAL"                                   -> encode_Jtype(i)
    [] OTHER                                              -> Nop
=============================================================================
