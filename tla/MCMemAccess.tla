---------------------------- MODULE MCMemAccess -----------------------------
(***************************************************************************)
(* Instances for TLC: the instructions that are laid out and the registers *)
(* they start with.  A value is below dataOffset, equal to it or above.    *)
(***************************************************************************)
EXTENDS MemAccessInvariants, FiniteSets

W(op, rd, funct3, rs1, rs2, funct7) ==
  [opcode |-> op, rd |-> rd, funct3 |-> funct3, rs1 |-> rs1, rs2 |-> rs2, funct7 |-> funct7]

Values == {100, dataOffset, 30000}

SmallRegs ==
  {[r \in Reg |-> CASE r = SP -> 60000 [] r = A0 -> v[1] [] r = A1 -> v[2]
                    [] r = T5 -> v[3] [] r = T6 -> v[4]] :
     v \in Values \X {100, 30000} \X Values \X Values}

Case(w, s) == [inst |-> w, single |-> s]

Base1 == {ZERO, SP, A0, T6}

(* Offsets 8, -8 and -2048, as the last two groups of the word.            *)
Loads ==
  {W("LOAD", rd, f, b, o[1], o[2]) :
     rd \in {ZERO} \cup Reg, f \in {2, 3}, b \in Base1, o \in {<<8, 0>>, <<24, 127>>, <<0, 64>>}}

Stores ==
  {W("STORE", o[1], f, b, s, o[2]) :
     s \in {ZERO} \cup Reg, f \in {2, 3}, b \in Base1, o \in {<<8, 0>>, <<24, 127>>}}

(* AMOADD, AMOSWAP and AMOMAXU.                                            *)
Atomics ==
  {W("AMO", rd, f, b, s, o) :
     rd \in {ZERO} \cup Reg, f \in {2, 3}, b \in Base1, s \in Reg, o \in {0, 4, 112}}

Reserved ==
  {W("AMO", rd, f, A0, s, o) : rd \in {A1}, f \in {2, 3}, s \in {T5}, o \in {8, 12}}

(* Immediates 0, 1, -1 and the smallest.                                   *)
Auipcs ==
  {W("AUIPC", rd, g[1], g[2], g[3], g[4]) :
     rd \in {ZERO} \cup Reg, g \in {<<0, 0, 0, 0>>, <<1, 0, 0, 0>>, <<7, 31, 31, 127>>,
                                    <<0, 0, 0, 100>>, <<3, 17, 5, 20>>}}

(* Offsets 2048 (bit 11), 12 and -4096.                                    *)
Branches ==
  {W("BRANCH", o[1], f, a, b, o[2]) :
     f \in {0, 1, 4, 5, 6, 7}, a \in {ZERO, A0, T6}, b \in {ZERO, A0, T6},
     o \in {<<1, 0>>, <<12, 0>>, <<0, 64>>}}

-----------------------------------------------------------------------------
AccessCases ==
  {c \in {Case(w, s) : w \in Loads \cup Stores \cup Atomics, s \in BOOLEAN} : ~Disturbed(c)}
    \cup {Case(w, s) : w \in Auipcs \cup Branches, s \in BOOLEAN}

ReservedCases == {Case(w, FALSE) : w \in Reserved}
=============================================================================
