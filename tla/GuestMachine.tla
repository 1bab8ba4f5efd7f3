---------------------------- MODULE GuestMachine ----------------------------
(***************************************************************************)
(* What the library promises: the guest behaves as if it ran on the bare   *)
(* machine.  One step retires one instruction; nothing of the library is   *)
(* visible.                                                                *)
(***************************************************************************)
EXTENDS GuestIsa

CONSTANTS
  Programs,     (* the texts a run may instrument: non-empty sequences of Inst *)
  InitialRegs   (* the values registers may hold when the guest starts        *)

VARIABLES
  text,    (* the text section, fixed for a behaviour                         *)
  pc,      (* address of the next instruction to retire                       *)
  regs,    (* the architectural registers                                     *)
  served,  (* address of the last ECALL that the operating system performed   *)
  status   (* "running", "exited" by a system call, or "faulted"              *)

vars == <<text, pc, regs, served, status>>

Entry == 1

Init ==
  /\ text \in Programs
  /\ pc = Entry
  /\ regs \in [Reg -> InitialRegs]
  /\ served = 0
  /\ status = "running"

InText == pc \in 1..Len(text)

(* Any instruction but an ECALL.                                           *)
Retire ==
  /\ status = "running" /\ InText
  /\ text[pc].op # "SYSTEM"
  /\ pc' = Target(text[pc], pc, regs)
  /\ regs' = Execute(text[pc], pc, regs)
  /\ UNCHANGED <<text, served, status>>

(* An ECALL that returns: performed exactly once, then the next address.   *)
Serve ==
  /\ status = "running" /\ InText
  /\ text[pc].op = "SYSTEM" /\ text[pc].sys # "exit"
  /\ served' = pc
  /\ pc' = pc + 1
  /\ UNCHANGED <<text, regs, status>>

Exit ==
  /\ status = "running" /\ InText
  /\ text[pc].op = "SYSTEM" /\ text[pc].sys = "exit"
  /\ status' = "exited"
  /\ UNCHANGED <<text, pc, regs, served>>

(* Control reached an address that holds no instruction.                   *)
Fault ==
  /\ status = "running" /\ ~InText
  /\ status' = "faulted"
  /\ UNCHANGED <<text, pc, regs, served>>

Next == Retire \/ Serve \/ Exit \/ Fault

Spec == Init /\ [][Next]_vars

(* The processor keeps executing.                                          *)
Fairness == WF_vars(Next)
=============================================================================
