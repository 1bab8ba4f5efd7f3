--------------------------- MODULE MCContextSwitch --------------------------
(***************************************************************************)
(* An instance for TLC of the context switches.  Every register has a      *)
(* value of its own, so that no two can be taken for each other.           *)
(***************************************************************************)
EXTENDS SwitchProperties

Memory == -40..5

DistinctRegs ==
  {[r \in Reg |-> IF r = ZERO THEN 0 ELSE IF r = SP THEN 0 ELSE 100 + r]}

E(op, rd, rs1, imm) ==
  {[switch |-> s, op |-> op, rd |-> rd, rs1 |-> rs1, imm |-> imm, address |-> 50,
    lastAddr |-> IF s \in TraceExit THEN 40 ELSE 50] : s \in SwitchesFor(op)}

SmallExits ==
  UNION {E("BRANCH", ZERO, rs1, -3) : rs1 \in {3, SP, T6}}
  \cup E("OPIMM", 5, 5, 1) \cup E("SYSTEM", ZERO, ZERO, 0)
  \cup UNION {E("JAL", rd, ZERO, 7) : rd \in {ZERO, SP, T6}}
  \cup UNION {E("JALR", RA, rs1, 2) : rs1 \in {ZERO, RA, SP, T6}}
  \cup E("JALR", T6, T6, 2)

SmallWritten == {RA, SP, 3, A0, T6}
SmallValues  == {-900}
SmallMoves   == {-2, 2}
=============================================================================
