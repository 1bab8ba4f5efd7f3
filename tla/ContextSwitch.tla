---------------------------- MODULE ContextSwitch ---------------------------
(***************************************************************************)
(* util.S: how the guest's 31 registers get to stub and instrument and     *)
(* back.  The frame lies below the guest's stack pointer, in the guest's   *)
(* own stack; the two words above its registers are those an exit has      *)
(* left there.  The guest, stub and the tool's routines read and write it  *)
(* as they please.                                                         *)
(*                                                                         *)
(* Addresses count words of eight bytes.                                   *)
(***************************************************************************)
EXTENDS Integers

CONSTANTS
  StackAddrs,    (* words of memory that are modelled                         *)
  InitialRegs,   (* registers of a guest that has run for a while             *)
  Exits,         (* the ways out of the cache                                 *)
  Written,       (* registers the guest and the routines write to             *)
  Values,        (* what they write                                           *)
  Moves,         (* how far the guest moves its stack pointer                 *)
  MaxSteps       (* steps of the guest and the routines in a behaviour        *)

ZERO == 0
RA   == 1
SP   == 2
A0   == 10
T6   == 31
Reg  == 0..31

Switch == {"context_switch", "context_switch_taken", "context_switch_trace_exit",
           "context_switch_trace_exit_taken", "context_switch_instrument"}

TraceExit   == {"context_switch_trace_exit", "context_switch_trace_exit_taken"}
TakenSwitch == {"context_switch_taken", "context_switch_trace_exit_taken"}

(* Which of them the allocators give a block that ends in an instruction;  *)
(* instrument comes before any instruction.                                *)
SwitchesFor(op) ==
  {"context_switch_instrument"} \cup
    CASE op = "BRANCH"           -> Switch
      [] op \in {"JAL", "JALR"}  -> TakenSwitch
      [] op = "SYSTEM"           -> {"context_switch", "context_switch_trace_exit"}
      [] OTHER                   -> {"context_switch", "context_switch_taken"}

(* The instruction at its address that the exit belongs to, and lastAddr   *)
(* of the block currentBB names: behind an exit that reports its address,  *)
(* any other's.  A branch is BLT of a register with zero.                  *)
Exit == {e \in [switch : Switch, op : {"BRANCH", "JAL", "JALR", "SYSTEM", "OPIMM"},
                rd : Reg, rs1 : Reg, imm : Int, address : Nat \ {0}, lastAddr : Nat] :
           /\ e.switch \in SwitchesFor(e.op)
           /\ e.switch \notin TraceExit => e.lastAddr = e.address}

FrameSize == 32

(* The frame, and what lies below it, fits into the memory.                *)
Room(sp) == \A k \in 1..FrameSize : sp - k \in StackAddrs

ASSUME SwitchAssumption ==
  /\ StackAddrs \subseteq Int /\ Values \subseteq Int /\ Moves \subseteq Int
  /\ Exits \subseteq Exit
  /\ Written \subseteq Reg \ {ZERO}
  /\ MaxSteps \in Nat
  /\ \A f \in InitialRegs : f \in [Reg -> Int] /\ f[ZERO] = 0 /\ Room(f[SP])

VARIABLES
  regs,              (* of the processor                                      *)
  stack,
  phase,             (* where the processor is                                *)
  exit,              (* the exit control has taken last                       *)
  TRAPFRAME,
  lastInstAddress,   (* stub's fourth argument                                *)
  nextBlockAddr

(* History.                                                                *)
VARIABLES
  guest,        (* the registers the guest should have, had no one been here  *)
  guestStack,   (* and the memory                                             *)
  borrowed,     (* instrument has cost the guest its T6                       *)
  moved,        (* the frame's SP has been written                            *)
  steps

vars == <<regs, stack, phase, exit, TRAPFRAME, lastInstAddress, nextBlockAddr,
          guest, guestStack, borrowed, moved, steps>>

Phase == {"guest", "switch", "host", "routines", "entering", "exited"}

Garbage      == -1   (* a word elsewhere                                      *)
CacheAddress == -2
HostValue    == -3   (* left in a register by compiled code                   *)

Read(a) == IF a \in StackAddrs THEN stack[a] ELSE Garbage

Store(mem, a, v) == [w \in StackAddrs |-> IF w = a THEN v ELSE mem[w]]

-----------------------------------------------------------------------------
(* The guest, in a block.                                                  *)

Step == steps < MaxSteps /\ steps' = steps + 1

(* A guest whose SP was written in the frame is left where it is.          *)
InGuest == phase = "guest" /\ ~moved /\ Step

SwitchUnchanged == UNCHANGED <<phase, exit, TRAPFRAME, lastInstAddress, nextBlockAddr, moved>>

Guest_Write(r, v) ==
  /\ InGuest
  /\ r # SP
  /\ regs'  = [regs EXCEPT ![r] = v]
  /\ guest' = [guest EXCEPT ![r] = v]
  /\ borrowed' = (borrowed /\ r # T6)
  /\ UNCHANGED <<stack, guestStack>> /\ SwitchUnchanged

(* What was below its stack pointer the guest does not rely on.            *)
Guest_MoveSP(d) ==
  /\ InGuest
  /\ Room(regs[SP] + d)
  /\ regs'  = [regs EXCEPT ![SP] = @ + d]
  /\ guest' = [guest EXCEPT ![SP] = @ + d]
  /\ guestStack' = [w \in StackAddrs |-> IF w < guest[SP] THEN stack[w] ELSE guestStack[w]]
  /\ UNCHANGED <<stack, borrowed>> /\ SwitchUnchanged

Guest_Push(v) ==
  /\ InGuest
  /\ stack'      = Store(stack, regs[SP], v)
  /\ guestStack' = Store(guestStack, guest[SP], v)
  /\ UNCHANGED <<regs, guest, borrowed>> /\ SwitchUnchanged

-----------------------------------------------------------------------------
(* Out of the cache.                                                       *)

(* Mutant: inline_save does not lower SP.                                  *)
SlotAtTop == regs[SP]

Slot == regs[SP] - 2   (* where inline_save puts T6                           *)

(* Mutant: an exit of a trace does not say which instruction it is.        *)
LeaveUnnamed(e) ==
  /\ stack' = Store(stack, Slot, regs[T6])
  /\ regs' = [regs EXCEPT ![SP] = Slot, ![T6] = CacheAddress]
  /\ exit' = e
  /\ phase' = "switch"
  /\ UNCHANGED <<TRAPFRAME, lastInstAddress, nextBlockAddr, guest, guestStack, moved>>

(* inline_save, the constants and, in a trace, the instruction's address   *)
(* in the word above.                                                      *)
Leave(e) ==
  LET saved == Store(stack, Slot, regs[T6])
  IN  /\ stack' = IF e.switch \in TraceExit THEN Store(saved, Slot + 1, e.address) ELSE saved
      /\ regs' = [regs EXCEPT ![SP] = Slot, ![T6] = CacheAddress]
      /\ exit' = e
      /\ phase' = "switch"
      /\ UNCHANGED <<TRAPFRAME, lastInstAddress, nextBlockAddr, guest, guestStack, moved>>

Negative(v) == v < 0

(* The branch between the two exits stands behind inline_save: it compares *)
(* SP as lowered, and T6 before the constants.                             *)
BranchTaken(e) == Negative([regs EXCEPT ![SP] = Slot][e.rs1])

LeaveBlock(e) ==
  /\ InGuest /\ e.switch # "context_switch_instrument"
  /\ e.op = "BRANCH" => (e.switch \in TakenSwitch <=> BranchTaken(e))
  /\ Leave(e)
  /\ UNCHANGED borrowed

(* A pre-instrumented block leaves by its first word, with T6 in use.      *)
LeaveForInstrument(e) ==
  /\ phase = "entering" /\ ~moved /\ Step /\ e.switch = "context_switch_instrument"
  /\ Leave(e)
  /\ borrowed' = TRUE

(* Mutant: the save half leaves T6 as the exit has it.                     *)
SavedInUse == [regs EXCEPT ![SP] = @ + 2 - FrameSize]

(* What the save half stores: T6 comes back first, and SP is lowered.      *)
Saved == [regs EXCEPT ![T6] = Read(regs[SP]), ![SP] = @ + 2 - FrameSize]

(* Every register goes to the word of its number.  What lies below is the  *)
(* compiled code's.                                                        *)
Save ==
  LET frame == Saved[SP]
  IN  /\ phase = "switch"
      /\ stack' = [w \in StackAddrs |->
                     IF w - frame \in 0..30 THEN Saved[w - frame + 1]
                     ELSE IF w < frame THEN HostValue ELSE stack[w]]
      /\ TRAPFRAME' = frame
      /\ lastInstAddress' = IF exit.switch \in TraceExit THEN Read(frame + 31) ELSE 0
      /\ regs' = [r \in Reg |-> CASE r = ZERO -> 0 [] r = SP -> frame [] OTHER -> HostValue]
      /\ phase' = "host"
      /\ UNCHANGED <<exit, nextBlockAddr, guest, guestStack, borrowed, moved, steps>>

-----------------------------------------------------------------------------
(* stub and instrument.                                                    *)

Frame(r)       == Read(TRAPFRAME + r - 1)
SetFrame(r, v) == stack' = Store(stack, TRAPFRAME + r - 1, v)

(* Mutant: stub asks currentBB behind a trace as well.                     *)
AddressOfBlock == exit.lastAddr

Address == IF lastInstAddress # 0 THEN lastInstAddress ELSE exit.lastAddr
Taken   == exit.switch \in TakenSwitch

InStub == phase = "host" /\ exit.switch # "context_switch_instrument"

Handled(next) ==
  /\ InStub
  /\ nextBlockAddr' = next
  /\ phase' = "routines"
  /\ UNCHANGED <<regs, exit, TRAPFRAME, lastInstAddress, guestStack, steps>>

FrameUnchanged == UNCHANGED <<stack, guest, borrowed, moved>>

Stub_Branch ==
  /\ exit.op = "BRANCH"
  /\ Handled(IF Taken THEN Address + exit.imm ELSE Address + 1)
  /\ FrameUnchanged

(* What the guest should have gets the link; the frame gets it, and SP     *)
(* there is not what the guest's is.                                       *)
Linked ==
  IF exit.rd = ZERO THEN FrameUnchanged
  ELSE /\ SetFrame(exit.rd, Address + 1)
       /\ guest' = [guest EXCEPT ![exit.rd] = exit.address + 1]
       /\ borrowed' = (borrowed /\ exit.rd # T6)
       /\ moved' = (moved \/ exit.rd = SP)

Stub_Jump ==
  /\ exit.op = "JAL"
  /\ Handled(Address + exit.imm)
  /\ Linked

Stub_IndirectJump ==
  /\ exit.op = "JALR"
  /\ Handled(Frame(exit.rs1) + exit.imm)
  /\ Linked

(* A call that is left to the host runs in the cache, before the block     *)
(* (Guest_Write to A0).                                                    *)
Stub_Straight ==
  /\ exit.op \in {"OPIMM", "SYSTEM"}
  /\ Handled(Address + 1)
  /\ FrameUnchanged

(* handle_syscalls returns its result in A0.                               *)
Stub_Emulate(v) ==
  /\ exit.op = "SYSTEM"
  /\ Handled(Address + 1)
  /\ SetFrame(A0, v)
  /\ guest' = [guest EXCEPT ![A0] = v]
  /\ UNCHANGED <<borrowed, moved>>

(* exit_binary: the exit routine is given the frame.                       *)
Stub_Exit ==
  /\ InStub /\ exit.op = "SYSTEM"
  /\ phase' = "exited"
  /\ UNCHANGED <<regs, stack, exit, TRAPFRAME, lastInstAddress, nextBlockAddr, guest,
                 guestStack, borrowed, moved, steps>>

Instrument ==
  /\ phase = "host" /\ exit.switch = "context_switch_instrument"
  /\ phase' = "routines"
  /\ UNCHANGED <<regs, stack, exit, TRAPFRAME, lastInstAddress, nextBlockAddr, guest,
                 guestStack, borrowed, moved, steps>>

(* A routine sets a register of the guest's; those for SYSTEM run before    *)
(* the call as well.  Behind instrument no word restores T6.               *)
Routine(r, v) ==
  /\ phase = "routines" \/ (InStub /\ exit.op = "SYSTEM")
  /\ Step
  /\ SetFrame(r, v)
  /\ guest' = [guest EXCEPT ![r] = v]
  /\ borrowed' = (borrowed /\ (r # T6 \/ exit.switch = "context_switch_instrument"))
  /\ moved' = (moved \/ r = SP)
  /\ UNCHANGED <<regs, phase, exit, TRAPFRAME, lastInstAddress, nextBlockAddr, guestStack>>

-----------------------------------------------------------------------------
(* Back into the cache.                                                    *)

(* Mutant: SP stays at the frame.                                          *)
LoadedAtFrame ==
  LET sp == Read(regs[SP] + 1)
  IN  [r \in Reg |-> CASE r = ZERO -> 0
                       [] r = RA   -> Read(regs[SP])
                       [] r = SP   -> sp
                       [] r = T6   -> CacheAddress
                       [] OTHER    -> Read(sp + r - 1)]

(* The load half: RA, then SP, and the others from where SP then is; T6    *)
(* holds the address to enter.                                             *)
Loaded ==
  LET sp == Read(regs[SP] + 1)
  IN  [r \in Reg |-> CASE r = ZERO -> 0
                       [] r = RA   -> Read(regs[SP])
                       [] r = SP   -> sp + FrameSize
                       [] r = T6   -> CacheAddress
                       [] OTHER    -> Read(sp + r - 1)]

Return ==
  /\ phase = "routines"
  /\ regs' = Loaded
  /\ phase' = IF exit.switch = "context_switch_instrument" THEN "guest" ELSE "entering"
  /\ UNCHANGED <<stack, exit, TRAPFRAME, lastInstAddress, nextBlockAddr, guest, guestStack,
                 borrowed, moved, steps>>

(* restore_scratch, a block's first word.                                  *)
Enter ==
  /\ phase = "entering"
  /\ regs' = [regs EXCEPT ![T6] = Read(Slot)]
  /\ phase' = "guest"
  /\ UNCHANGED <<stack, exit, TRAPFRAME, lastInstAddress, nextBlockAddr, guest, guestStack,
                 borrowed, moved, steps>>

Rest ==
  /\ phase = "exited" \/ (phase = "guest" /\ (moved \/ steps = MaxSteps))
  /\ UNCHANGED vars

-----------------------------------------------------------------------------

NoExit == [switch |-> "context_switch", op |-> "OPIMM", rd |-> ZERO, rs1 |-> ZERO,
           imm |-> 0, address |-> 1, lastAddr |-> 1]

Init ==
  /\ regs \in InitialRegs
  /\ stack = [w \in StackAddrs |-> Garbage]
  /\ phase = "guest"
  /\ exit = NoExit
  /\ TRAPFRAME = 0
  /\ lastInstAddress = 0
  /\ nextBlockAddr = 0
  /\ guest = regs
  /\ guestStack = stack
  /\ borrowed = FALSE
  /\ moved = FALSE
  /\ steps = 0

GuestStep == \/ \E r \in Written, v \in Values : Guest_Write(r, v)
             \/ \E d \in Moves : Guest_MoveSP(d)
             \/ \E v \in Values : Guest_Push(v)

HostStep == \/ Stub_Branch  \/ Stub_Jump \/ Stub_IndirectJump \/ Stub_Straight
            \/ \E v \in Values : Stub_Emulate(v)
            \/ Stub_Exit \/ Instrument
            \/ \E r \in Written, v \in Values : Routine(r, v)

Next == \/ GuestStep
        \/ \E e \in Exits : LeaveBlock(e) \/ LeaveForInstrument(e)
        \/ Save \/ HostStep \/ Return \/ Enter \/ Rest

Spec == Init /\ [][Next]_vars
=============================================================================
