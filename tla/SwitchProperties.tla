--------------------------- MODULE SwitchProperties -------------------------
(***************************************************************************)
(* What the guest and the routines rely on when control changes sides.     *)
(***************************************************************************)
EXTENDS ContextSwitch

(* The state is of the shapes the code declares; the instruction a trace   *)
(* names is an address, and no garbage of the frame's.                     *)
SwitchTypeOK ==
  /\ regs \in [Reg -> Int] /\ stack \in [StackAddrs -> Int]
  /\ phase \in Phase /\ exit \in Exit
  /\ TRAPFRAME \in Int /\ lastInstAddress \in Nat /\ nextBlockAddr \in Int
  /\ guest \in [Reg -> Int] /\ guestStack \in [StackAddrs -> Int]
  /\ borrowed \in BOOLEAN /\ moved \in BOOLEAN /\ steps \in 0..MaxSteps

(* A guest whose T6 a pre-instrumented block has overwritten is excused    *)
(* for it until it, or a routine in stub, writes T6 anew.                  *)
Kept(r) == r # T6 \/ ~borrowed

(* After every switch, whichever of the five, the guest has the registers  *)
(* it had, but for the link, the result of a system call and what routines *)
(* have set: these it has too, T6 by way of the word that is both the      *)
(* frame's and restore_scratch's.  A write to the frame's SP (moved) is    *)
(* excepted: all registers behind RA are then loaded from another place.   *)
RegistersSurvive ==
  phase = "guest" /\ ~moved => \A r \in Reg : Kept(r) => regs[r] = guest[r]

(* What stub, a routine or the exit routine finds under a register's       *)
(* number in TRAPFRAME is the guest's register, T6 included, which the     *)
(* exit had in use; only SP is that of the frame, 32 words too low.        *)
FrameShowsGuest ==
  phase \in {"host", "routines", "exited"} /\ ~moved =>
    /\ \A r \in Reg \ {ZERO, SP} : Kept(r) => Frame(r) = guest[r]
    /\ Frame(SP) = guest[SP] - FrameSize

(* No exit, no switch and no compiled code touches the guest's stack: the  *)
(* words from its SP upwards are what it has put there.                    *)
StackAboveKept ==
  ~moved => \A w \in StackAddrs : w >= guest[SP] => stack[w] = guestStack[w]

NativeNext ==
  CASE exit.op = "BRANCH" ->
         exit.address + (IF Negative(guest[exit.rs1]) THEN exit.imm ELSE 1)
    [] exit.op = "JAL"  -> exit.address + exit.imm
    [] exit.op = "JALR" -> guest[exit.rs1] + exit.imm
    [] OTHER            -> exit.address + 1

(* Where stub sends the guest is where it would go, by the registers it    *)
(* had before the link is written, also when the exit is a trace's and     *)
(* currentBB's own last instruction is another.  A branch and a jump that  *)
(* go by SP are excepted: the branch stands where SP is lowered, the frame *)
(* has its own.  So is a jump to a constant address by register 0, which   *)
(* has no word in the frame.                                               *)
NextIsNative ==
  [][/\ InStub /\ phase' = "routines"
     /\ exit.op \in {"BRANCH", "JALR"} => exit.rs1 # SP /\ Kept(exit.rs1)
     /\ exit.op = "JALR" => exit.rs1 # ZERO
     => nextBlockAddr' = NativeNext]_vars
=============================================================================
