------------------------------ MODULE MCSession -----------------------------
(***************************************************************************)
(* Instances for TLC of whole sessions.  The image has sixteen words, the  *)
(* texts lie at words 1 to 4 and the fourth is never read.                 *)
(***************************************************************************)
EXTENDS SessionProperties

I(op, imm) == [op |-> op, rd |-> "zero", rs1 |-> "zero", imm |-> imm,
               sys |-> IF op = "SYSTEM" THEN "emulated" ELSE "none"]

Padding == I("OPIMM", 0)

S(name, addr, offset, size) ==
  [name |-> name, addr |-> addr, offset |-> offset, size |-> size]

SmallImage == 0..15

Executable(text, size, sections) ==
  [kind |-> "riscv", size |-> size, entry |-> 1, text |-> text, sections |-> sections]

Text == S(".text", 1, 3, 4)

(* Thread-local and ordinary data that is to be zero, the former where the *)
(* next section begins as well, and a section that is not loaded.          *)
Linked(text, size) ==
  Executable(text, size,
             <<S(".note", 6, 2, 1), Text, S(".rodata", 7, 7, 2), S(".tbss", 9, 9, 2),
               S(".init_array", 9, 9, 1), S(".data", 10, 10, 2), S(".bss", 12, 12, 2),
               S(".comment", 0, 12, 2)>>)

(* Other addresses; more ahead of the text than there is behind it.        *)
Relinked(text, size) ==
  Executable(text, size,
             <<S(".note", 6, 1, 1), S(".rela", 7, 1, 2), Text, S(".data", 8, 7, 4),
               S(".sbss", 11, 11, 2), S(".other", 13, 11, 1)>>)

NoExecutable(kind) ==
  [kind |-> kind, size |-> 0, entry |-> 0, text |-> << >>, sections |-> << >>]

-----------------------------------------------------------------------------

Load(f)     == [call |-> "setTarget", file |-> f]
Args(env)   == [call |-> "registerArgs", env |-> env]
Other(name) == [call |-> name]

Register(what, point) ==
  [call |-> "addInstrument", bounded |-> FALSE,
   routine |-> [what |-> what, point |-> point, lowerBound |-> 0, upperBound |-> MaxInt]]

RegisterIn(what, point, lower, upper) ==
  [call |-> "addInstrument", bounded |-> TRUE,
   routine |-> [what |-> what, point |-> point, lowerBound |-> lower, upperBound |-> upper]]

ShortArgs == [argv |-> <<101>>, envp |-> << >>]

Straight == <<I("OPIMM", 0), I("LOAD", 0), I("SYSTEM", 0), Padding>>

(* Which targets, in which order, after which failures, with which pieces  *)
(* of a file missing.                                                      *)
LoadingSessions ==
  {[args  |-> ShortArgs,
    calls |-> {Load(f), Load(g), Load(NoExecutable(k)), Args(TRUE)}] :
     f \in {Linked(Straight, 14), Linked(Straight, 10)},
     g \in {Relinked(Straight, 12), Relinked(Straight, 9)},
     k \in {"missing", "notElf", "foreign"}}

(* Which arguments.                                                        *)
ArgumentSessions ==
  {[args  |-> [argv |-> v, envp |-> e],
    calls |-> {Load(Linked(Straight, 14)), Args(TRUE), Args(FALSE),
               Other("setExitRoutine")}] :
     v \in {<<101>>, <<101, 102>>, <<101, 102, 103>>},
     e \in {<< >>, <<201>>, <<201, 202, 203>>}}

(* Which routines.                                                         *)
ToolTexts ==
  {Straight,
   <<I("BRANCH", 2), I("LOAD", 0), I("JAL", -2), Padding>>,
   <<I("OPIMM", 0), I("STORE", 0), I("BRANCH", -1), Padding>>,
   <<I("LOAD", 0), I("SYSTEM", 0), I("JALR", 0), Padding>>,
   <<I("LOAD", 0), I("AUIPC", 0), I("STORE", 0), Padding>>,
   <<I("STORE", 0), I("AMO", 0), I("JAL", -1), Padding>>}

Registrations ==
  {Register("BB", "PRE"), Register("BB", "POST"), RegisterIn("BB", "PRE", 1, 2),
   RegisterIn("BB", "POST", 2, 3), Register("ALL", "PRE"), RegisterIn("ALL", "POST", 2, 3),
   RegisterIn("ALL", "PRE", -1, 2), RegisterIn("I", "PRE", 1, 1),
   RegisterIn("MEM_ACCESS", "PRE", 2, 3), RegisterIn("MEM_ACCESS", "POST", 1, 2),
   Register("S", "PRE"), Register("U", "POST"), Register("SYSTEM", "PRE"),
   RegisterIn("SYSTEM", "POST", 2, 2), RegisterIn("B", "POST", 3, 3)}

ToolSessions ==
  {[args  |-> ShortArgs,
    calls |-> {Load(Linked(t, 14)), Args(TRUE), Other("addCFGGeneration"), c, d}] :
     t \in ToolTexts, c \in Registrations, d \in Registrations}

AllSessions == LoadingSessions \cup ArgumentSessions \cup ToolSessions
=============================================================================
