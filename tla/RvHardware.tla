----------------------------- MODULE RvHardware -----------------------------
(***************************************************************************)
(* The RISC-V processor the cache runs on: what it reads out of a word,    *)
(* independently of RvDecoder, and what the instructions do that the       *)
(* library emits or copies into an address-adjusting sequence.             *)
(*                                                                         *)
(* Registers hold integers; those with numbers other than the five in Reg  *)
(* do not occur, and register 0 reads as zero.  Memory is a function from  *)
(* the addresses written so far; Cell gives what an address holds.         *)
(***************************************************************************)
EXTENDS RvCodec

ZERO == 0
SP   == 2
A0   == 10
A1   == 11
T5   == 30
T6   == 31

Reg == {SP, A0, A1, T5, T6}

(* The immediate of each format: a sum of bits, the top one negative.      *)
ImmI(w) == w.rs2 + 32 * (w.funct7 % 64) - 2048 * (w.funct7 \div 64)
ImmS(w) == w.rd  + 32 * (w.funct7 % 64) - 2048 * (w.funct7 \div 64)
ImmB(w) == 2 * (w.rd \div 2) + 32 * (w.funct7 % 64) + 2048 * (w.rd % 2)
             - 4096 * (w.funct7 \div 64)
ImmU(w) == 4096 * (w.funct3 + 8 * w.rs1 + 256 * w.rs2
                     + 8192 * (w.funct7 % 64) - Two19 * (w.funct7 \div 64))
ImmJ(w) == 2 * (w.rs2 \div 2) + 32 * (w.funct7 % 64) + 2048 * (w.rs2 % 2)
             + 4096 * (w.funct3 + 8 * w.rs1) - Two20 * (w.funct7 \div 64)

-----------------------------------------------------------------------------
(* Registers.                                                              *)

Value(r, n) == IF n = ZERO THEN 0 ELSE r[n]

Written(r, n, v) == IF n = ZERO THEN r ELSE [r EXCEPT ![n] = v]

(* Comparison as unsigned numbers: negative ones are the large ones.       *)
Below(a, b) == IF (a < 0) = (b < 0) THEN a < b ELSE b < 0

Taken(w, a, b) ==
  CASE w.funct3 = 0 -> a = b
    [] w.funct3 = 1 -> a # b
    [] w.funct3 = 4 -> a < b
    [] w.funct3 = 5 -> a >= b
    [] w.funct3 = 6 -> Below(a, b)
    [] w.funct3 = 7 -> ~Below(a, b)
    [] OTHER        -> FALSE

Bit(b) == IF b THEN 1 ELSE 0

ALU(w, a, b) ==
  CASE w.funct3 = 0 -> IF w.funct7 = 32 THEN a - b ELSE a + b
    [] w.funct3 = 2 -> Bit(a < b)
    [] w.funct3 = 3 -> Bit(Below(a, b))

-----------------------------------------------------------------------------
(* Memory.  Untouched cells hold values that tell their addresses apart.   *)
(* A double word moves as it is; a narrower access yields a value that     *)
(* tells the widths apart.                                                 *)

Cell(m, a) == IF a \in DOMAIN m THEN m[a] ELSE -a - 1

Put(m, a, v) == [x \in DOMAIN m \cup {a} |-> IF x = a THEN v ELSE m[x]]

Narrow(funct3, v) == IF funct3 = 3 THEN v ELSE 8 * v + funct3

(* What an atomic stores: operation, old value and operand all matter.     *)
Combined(w, old, v) == 3 * old + v + w.funct7

LR(w) == w.opcode = "AMO" /\ w.funct7 \div 4 = 2
SC(w) == w.opcode = "AMO" /\ w.funct7 \div 4 = 3

(* The registers and the memory after the access w to the given base.      *)
AccessRegs(w, base, r, m) ==
  CASE w.opcode = "LOAD"             -> Written(r, w.rd, Narrow(w.funct3, Cell(m, base + ImmI(w))))
    [] SC(w)                         -> Written(r, w.rd, 0)
    [] w.opcode = "AMO" /\ ~SC(w)    -> Written(r, w.rd, Narrow(w.funct3, Cell(m, base)))
    [] OTHER                         -> r

AccessMemory(w, base, r, m) ==
  CASE w.opcode = "STORE"                  -> Put(m, base + ImmS(w), Narrow(w.funct3, Value(r, w.rs2)))
    [] SC(w)                               -> Put(m, base, Narrow(w.funct3, Value(r, w.rs2)))
    [] w.opcode = "AMO" /\ ~LR(w) /\ ~SC(w) ->
         Put(m, base, Combined(w, Narrow(w.funct3, Cell(m, base)), Value(r, w.rs2)))
    [] OTHER                               -> m
=============================================================================
