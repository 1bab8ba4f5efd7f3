----------------------------- MODULE SwitchProofs ---------------------------
(***************************************************************************)
(* The guest's registers and stack survive every switch, for every exit,   *)
(* every memory and every value.                                           *)
(***************************************************************************)
EXTENDS SwitchProperties, TLAPS

TopOfFrame == guest[SP] - FrameSize

AgreeBut(mine, excepted) == \A r \in Reg \ excepted : mine[r] = guest[r]

(* T6 is in the word restore_scratch fetches it from.                      *)
SlotHoldsT6 == Kept(T6) => stack[guest[SP] - 2] = guest[T6]

InFrame(r) == stack[TopOfFrame + r - 1]

(* What an exit has left on the stack.                                     *)
AtSwitch ==
  /\ AgreeBut(regs, {SP, T6})
  /\ regs[SP] = guest[SP] - 2
  /\ SlotHoldsT6
  /\ exit.switch \in TraceExit => stack[guest[SP] - 1] = exit.address

(* What the save half has made of it, and stub and the routines have kept. *)
AtHost ==
  /\ TRAPFRAME = TopOfFrame
  /\ regs[SP] = TopOfFrame
  /\ \A r \in Reg \ {ZERO, SP} : Kept(r) => InFrame(r) = guest[r]
  /\ InFrame(SP) = TopOfFrame

AtEntry ==
  /\ AgreeBut(regs, {T6})
  /\ SlotHoldsT6

HostPhase == {"host", "routines", "exited"}

(* While the frame's SP is its own.                                        *)
FrameInv ==
  /\ Room(guest[SP])
  /\ \A w \in StackAddrs : w >= guest[SP] => stack[w] = guestStack[w]
  /\ phase = "guest" => \A r \in Reg : Kept(r) => regs[r] = guest[r]
  /\ phase = "switch" => AtSwitch
  /\ phase \in HostPhase => AtHost
  /\ phase = "entering" => AtEntry

(* stub knows the instruction, SP is written behind the save half only,    *)
(* and a branch has come out of the exit its register asks for.            *)
ReportInv ==
  /\ guest[ZERO] = 0
  /\ phase = "switch" => ~moved
  /\ phase = "host" /\ exit.op # "SYSTEM" => ~moved
  /\ phase \in HostPhase =>
       lastInstAddress = IF exit.switch \in TraceExit THEN exit.address ELSE 0
  /\ phase \in {"switch", "host", "routines", "exited"}
       /\ exit.switch = "context_switch_instrument" => borrowed
  /\ phase \in {"switch", "host"} /\ exit.switch # "context_switch_instrument"
       /\ exit.op = "BRANCH" /\ exit.rs1 # SP /\ Kept(exit.rs1) =>
       (Taken <=> Negative(guest[exit.rs1]))

SwitchInv == SwitchTypeOK /\ ReportInv /\ (~moved => FrameInv)

USE DEF ZERO, RA, SP, A0, T6, FrameSize, Garbage, CacheAddress, HostValue

LEMMA RegNumbers == /\ ZERO \in Reg /\ RA \in Reg /\ SP \in Reg
                    /\ A0 \in Reg /\ T6 \in Reg
BY DEF Reg

LEMMA StoreWorks ==
  ASSUME NEW mem \in [StackAddrs -> Int], NEW a \in Int, NEW v \in Int
  PROVE  /\ Store(mem, a, v) \in [StackAddrs -> Int]
         /\ \A w \in StackAddrs : Store(mem, a, v)[w] = IF w = a THEN v ELSE mem[w]
BY DEF Store

LEMMA ReadWorks ==
  ASSUME SwitchTypeOK, NEW a \in Int
  PROVE  /\ Read(a) \in Int
         /\ a \in StackAddrs => Read(a) = stack[a]
BY DEF Read, SwitchTypeOK

(* The words of the frame, and the two above, are in memory.               *)
LEMMA RoomWorks ==
  ASSUME NEW sp \in Int, Room(sp)
  PROVE  /\ \A r \in Reg \ {ZERO} : sp - FrameSize + r - 1 \in StackAddrs
         /\ sp - 1 \in StackAddrs /\ sp - 2 \in StackAddrs
<1>1. ASSUME NEW r \in Reg \ {ZERO}
      PROVE  sp - FrameSize + r - 1 \in StackAddrs
  <2>1. 33 - r \in 1..FrameSize /\ sp - (33 - r) = sp - FrameSize + r - 1
    BY DEF Reg
  <2>2. QED BY <2>1 DEF Room
<1>2. QED BY <1>1 DEF Room

LEMMA ExitFields ==
  ASSUME NEW e \in Exit
  PROVE  /\ e.switch \in Switch /\ e.rd \in Reg /\ e.rs1 \in Reg /\ e.imm \in Int
         /\ e.address \in Nat \ {0} /\ e.lastAddr \in Nat
         /\ e.switch \notin TraceExit => e.lastAddr = e.address
BY DEF Exit

(* The guest has started.                                                  *)
LEMMA SwitchInit == Init => SwitchInv
<1> SUFFICES ASSUME Init PROVE SwitchInv
  OBVIOUS
<1>1. regs \in [Reg -> Int] /\ regs[ZERO] = 0 /\ Room(regs[SP])
  BY SwitchAssumption DEF Init
<1>2. exit \in Exit
  BY DEF Init, NoExit, Exit, Reg, Switch, SwitchesFor, TraceExit
<1>3. SwitchTypeOK
  <2>1. regs \in [Reg -> Int] /\ guest \in [Reg -> Int]
    BY <1>1 DEF Init
  <2>2. stack \in [StackAddrs -> Int] /\ guestStack \in [StackAddrs -> Int]
    BY DEF Init
  <2>3. steps \in 0..MaxSteps
    BY SwitchAssumption DEF Init
  <2>4. phase \in Phase
    BY DEF Init, Phase
  <2>5. TRAPFRAME \in Int /\ lastInstAddress \in Nat /\ nextBlockAddr \in Int
    BY DEF Init
  <2>6. borrowed \in BOOLEAN /\ moved \in BOOLEAN
    BY DEF Init
  <2>7. QED BY <1>2, <2>1, <2>2, <2>3, <2>4, <2>5, <2>6 DEF SwitchTypeOK
<1>4. ReportInv
  BY <1>1 DEF Init, ReportInv, HostPhase
<1>5. FrameInv
  BY <1>1 DEF Init, FrameInv, HostPhase
<1>6. QED BY <1>3, <1>4, <1>5 DEF SwitchInv

(***************************************************************************)
(* The guest.                                                              *)
(***************************************************************************)

LEMMA GuestWriteKeeps ==
  ASSUME SwitchInv, NEW r \in Written, NEW v \in Values, Guest_Write(r, v)
  PROVE  SwitchInv'
<1>1. r \in Reg \ {ZERO, SP} /\ v \in Int
  BY SwitchAssumption DEF Guest_Write
<1>2. SwitchTypeOK'
  <2>1. regs' \in [Reg -> Int] /\ guest' \in [Reg -> Int]
    BY <1>1 DEF SwitchInv, SwitchTypeOK, Guest_Write
  <2>2. steps' \in 0..MaxSteps
    BY SwitchAssumption DEF SwitchInv, SwitchTypeOK, Guest_Write, InGuest, Step
  <2>3. borrowed' \in BOOLEAN
    BY DEF Guest_Write
  <2>4. QED BY <2>1, <2>2, <2>3 DEF SwitchInv, SwitchTypeOK, Guest_Write, SwitchUnchanged
<1>3. phase = "guest" /\ phase' = "guest" /\ moved' = moved /\ ~moved
  BY DEF Guest_Write, InGuest, SwitchUnchanged
<1>4. ReportInv'
  BY <1>1, <1>3 DEF SwitchInv, ReportInv, SwitchTypeOK, HostPhase, Guest_Write
<1>5. guest'[SP] = guest[SP] /\ stack' = stack /\ guestStack' = guestStack
  BY <1>1 DEF SwitchInv, SwitchTypeOK, Guest_Write
<1>6. ASSUME NEW q \in Reg, Kept(q)'
      PROVE  regs'[q] = guest'[q]
  BY <1>1, <1>3, <1>6 DEF SwitchInv, SwitchTypeOK, FrameInv, Guest_Write, Kept
<1>7. FrameInv'
  BY <1>3, <1>5, <1>6 DEF SwitchInv, FrameInv, HostPhase, Room
<1>8. QED BY <1>2, <1>4, <1>7 DEF SwitchInv

LEMMA GuestMoveSPKeeps ==
  ASSUME SwitchInv, NEW d \in Moves, Guest_MoveSP(d)
  PROVE  SwitchInv'
<1>1. d \in Int
  BY SwitchAssumption
<1>2. SwitchTypeOK'
  <2>1. regs' \in [Reg -> Int] /\ guest' \in [Reg -> Int]
    BY <1>1, RegNumbers DEF SwitchInv, SwitchTypeOK, Guest_MoveSP
  <2>2. steps' \in 0..MaxSteps
    BY SwitchAssumption DEF SwitchInv, SwitchTypeOK, Guest_MoveSP, InGuest, Step
  <2>3. guestStack' \in [StackAddrs -> Int]
    BY DEF SwitchInv, SwitchTypeOK, Guest_MoveSP
  <2>4. QED BY <2>1, <2>2, <2>3 DEF SwitchInv, SwitchTypeOK, Guest_MoveSP, SwitchUnchanged
<1>3. phase = "guest" /\ phase' = "guest" /\ moved' = moved /\ ~moved
  BY DEF Guest_MoveSP, InGuest, SwitchUnchanged
<1>4. ReportInv'
  BY <1>3 DEF SwitchInv, ReportInv, SwitchTypeOK, HostPhase, Guest_MoveSP, Reg
<1>5. regs[SP] = guest[SP]
  BY <1>3 DEF SwitchInv, FrameInv, Kept, Reg
<1>6. guest'[SP] = regs[SP] + d
  BY <1>5 DEF SwitchInv, SwitchTypeOK, Guest_MoveSP, Reg
<1>7. Room(guest[SP])'
  BY <1>6 DEF Guest_MoveSP, Room
<1>8. /\ stack' = stack
      /\ \A w \in StackAddrs :
           guestStack'[w] = IF w < guest[SP] THEN stack[w] ELSE guestStack[w]
  BY DEF Guest_MoveSP
<1>9. ASSUME NEW q \in Reg, Kept(q)'
      PROVE  regs'[q] = guest'[q]
  BY <1>3, <1>5, <1>9 DEF SwitchInv, SwitchTypeOK, FrameInv, Guest_MoveSP, Kept
<1>10. ASSUME NEW w \in StackAddrs
       PROVE  stack'[w] = guestStack'[w]
  <2>1. w \in Int /\ guest[SP] \in Int
    BY RegNumbers, SwitchAssumption DEF SwitchInv, SwitchTypeOK
  <2>2. CASE w < guest[SP]
    BY <1>8, <2>2
  <2>3. CASE w >= guest[SP]
    BY <1>3, <1>8, <2>1, <2>3 DEF SwitchInv, FrameInv
  <2>4. QED BY <2>1, <2>2, <2>3
<1>11. FrameInv'
  BY <1>3, <1>7, <1>9, <1>10 DEF FrameInv, HostPhase
<1>12. QED BY <1>2, <1>4, <1>11 DEF SwitchInv

LEMMA GuestPushKeeps ==
  ASSUME SwitchInv, NEW v \in Values, Guest_Push(v)
  PROVE  SwitchInv'
<1>1. v \in Int
  BY SwitchAssumption
<1>2. phase = "guest" /\ phase' = "guest" /\ moved' = moved /\ ~moved /\ exit' = exit
  BY DEF Guest_Push, InGuest, SwitchUnchanged
<1>3. regs[SP] = guest[SP] /\ regs[SP] \in Int
  BY <1>2 DEF SwitchInv, SwitchTypeOK, FrameInv, Kept, Reg
<1>4. /\ stack' = Store(stack, guest[SP], v) /\ guestStack' = Store(guestStack, guest[SP], v)
      /\ regs' = regs /\ guest' = guest /\ borrowed' = borrowed
  BY <1>3 DEF Guest_Push
<1>5. SwitchTypeOK'
  <2>1. stack' \in [StackAddrs -> Int] /\ guestStack' \in [StackAddrs -> Int]
    BY <1>1, <1>3, <1>4, StoreWorks DEF SwitchInv, SwitchTypeOK
  <2>2. steps' \in 0..MaxSteps
    BY SwitchAssumption DEF SwitchInv, SwitchTypeOK, Guest_Push, InGuest, Step
  <2>3. QED BY <1>4, <2>1, <2>2 DEF SwitchInv, SwitchTypeOK, Guest_Push, SwitchUnchanged
<1>6. ReportInv'
  BY <1>2, <1>4 DEF SwitchInv, ReportInv, HostPhase
<1>7. ASSUME NEW w \in StackAddrs, w >= guest'[SP]
      PROVE  stack'[w] = guestStack'[w]
  <2>1. /\ stack'[w] = IF w = guest[SP] THEN v ELSE stack[w]
        /\ guestStack'[w] = IF w = guest[SP] THEN v ELSE guestStack[w]
    BY <1>1, <1>3, <1>4, StoreWorks DEF SwitchInv, SwitchTypeOK
  <2>2. QED BY <1>2, <1>4, <1>7, <2>1 DEF SwitchInv, FrameInv
<1>8. FrameInv'
  BY <1>2, <1>4, <1>7 DEF SwitchInv, FrameInv, HostPhase, Room, Kept
<1>9. QED BY <1>5, <1>6, <1>8 DEF SwitchInv

(***************************************************************************)
(* Out of the cache.                                                       *)
(***************************************************************************)

(* An exit leaves what the save half will look for, whichever it is.       *)
LEMMA LeaveKeeps ==
  ASSUME SwitchInv, ~moved, NEW e \in Exits, Leave(e),
         AgreeBut(regs, {T6}), Kept(T6)' => regs[T6] = guest[T6], borrowed' \in BOOLEAN,
         steps' \in 0..MaxSteps,
         e.switch = "context_switch_instrument" => borrowed',
         /\ e.switch # "context_switch_instrument" /\ e.op = "BRANCH"
         /\ e.rs1 # SP /\ Kept(e.rs1)'
         => (e.switch \in TakenSwitch <=> Negative(guest[e.rs1]))
  PROVE  SwitchInv'
<1>1. e \in Exit /\ e.address \in Int
  BY SwitchAssumption, ExitFields
<1>2. regs[SP] = guest[SP] /\ guest[SP] \in Int /\ regs[T6] \in Int
  BY DEF SwitchInv, SwitchTypeOK, AgreeBut, Reg
<1>3. Slot = guest[SP] - 2 /\ Slot \in Int
  BY <1>2 DEF Slot
<1>4. Slot \in StackAddrs /\ Slot + 1 \in StackAddrs
  BY <1>2, <1>3, RoomWorks DEF SwitchInv, FrameInv
<1> DEFINE saved == Store(stack, Slot, regs[T6])
<1>5. /\ saved \in [StackAddrs -> Int]
      /\ \A w \in StackAddrs : saved[w] = IF w = Slot THEN regs[T6] ELSE stack[w]
  BY <1>2, <1>3, StoreWorks DEF SwitchInv, SwitchTypeOK
<1>6. /\ stack' \in [StackAddrs -> Int]
      /\ stack'[Slot] = regs[T6]
      /\ e.switch \in TraceExit => stack'[Slot + 1] = e.address
      /\ \A w \in StackAddrs : w > Slot + 1 => stack'[w] = stack[w]
  <2>1. CASE e.switch \in TraceExit
    <3>1. stack' = Store(saved, Slot + 1, e.address)
      BY <2>1 DEF Leave
    <3> HIDE DEF saved
    <3>2. /\ stack' \in [StackAddrs -> Int]
          /\ \A w \in StackAddrs : stack'[w] = IF w = Slot + 1 THEN e.address ELSE saved[w]
      BY <1>1, <1>3, <1>5, <3>1, StoreWorks
    <3>3. \A w \in StackAddrs : w \in Int
      BY SwitchAssumption
    <3>4. QED BY <1>3, <1>4, <1>5, <3>2, <3>3
  <2>2. CASE e.switch \notin TraceExit
    <3>1. stack' = saved
      BY <2>2 DEF Leave
    <3> HIDE DEF saved
    <3>2. \A w \in StackAddrs : w \in Int
      BY SwitchAssumption
    <3>3. QED BY <1>3, <1>4, <1>5, <2>2, <3>1, <3>2
  <2>3. QED BY <2>1, <2>2
<1>7. /\ regs' \in [Reg -> Int] /\ regs'[SP] = guest[SP] - 2
      /\ \A r \in Reg \ {SP, T6} : regs'[r] = guest[r]
  BY <1>3 DEF Leave, SwitchInv, SwitchTypeOK, AgreeBut, Reg
<1>8. /\ phase' = "switch" /\ exit' = e /\ guest' = guest /\ moved' = moved
      /\ guestStack' = guestStack
  BY DEF Leave
<1>9. SwitchTypeOK'
  BY <1>1, <1>6, <1>7, <1>8 DEF SwitchInv, SwitchTypeOK, Phase, Leave
<1>10. ReportInv'
  BY <1>8 DEF SwitchInv, ReportInv, HostPhase, Taken, Kept
<1>11. AtSwitch'
  <2>1. AgreeBut(regs, {SP, T6})'
    BY <1>7, <1>8 DEF AgreeBut
  <2>2. SlotHoldsT6'
    BY <1>3, <1>6, <1>8 DEF SlotHoldsT6, Kept
  <2>3. e.switch \in TraceExit => stack'[guest[SP] - 1] = e.address
    <3>1. Slot + 1 = guest[SP] - 1
      BY <1>2, <1>3
    <3>2. QED BY <1>6, <3>1
  <2>4. QED BY <1>7, <1>8, <2>1, <2>2, <2>3 DEF AtSwitch
<1>12. ASSUME NEW w \in StackAddrs, w >= guest[SP]
       PROVE  stack'[w] = guestStack[w]
  <2>1. w \in Int /\ w > Slot + 1
    BY <1>2, <1>3, <1>12, SwitchAssumption
  <2>2. QED BY <1>6, <1>12, <2>1 DEF SwitchInv, FrameInv
<1>13. FrameInv'
  BY <1>8, <1>11, <1>12 DEF SwitchInv, FrameInv, HostPhase, Room
<1>14. QED BY <1>9, <1>10, <1>13 DEF SwitchInv

LEMMA LeaveBlockKeeps ==
  ASSUME SwitchInv, NEW e \in Exits, LeaveBlock(e)
  PROVE  SwitchInv'
<1>1. phase = "guest" /\ ~moved /\ Leave(e) /\ borrowed' = borrowed
  BY DEF LeaveBlock, InGuest
<1>2. steps' \in 0..MaxSteps
  BY SwitchAssumption DEF SwitchInv, SwitchTypeOK, LeaveBlock, InGuest, Step
<1>3. guest' = guest
  BY <1>1 DEF Leave
<1>4. \A r \in Reg : Kept(r) => regs[r] = guest[r]
  BY <1>1 DEF SwitchInv, FrameInv
<1>5. AgreeBut(regs, {T6}) /\ (Kept(T6)' => regs[T6] = guest[T6])
  BY <1>1, <1>4, RegNumbers DEF AgreeBut, Kept
<1>6. ASSUME e.op = "BRANCH", e.rs1 # SP, Kept(e.rs1)'
      PROVE  e.switch \in TakenSwitch <=> Negative(guest[e.rs1])
  <2>1. e.rs1 \in Reg
    BY SwitchAssumption, ExitFields
  <2>2. [regs EXCEPT ![SP] = Slot][e.rs1] = guest[e.rs1]
    BY <1>1, <1>4, <1>6, <2>1 DEF SwitchInv, SwitchTypeOK, Kept
  <2>3. QED BY <1>6, <2>2 DEF LeaveBlock, BranchTaken
<1>7. borrowed' \in BOOLEAN /\ e.switch # "context_switch_instrument"
  BY <1>1 DEF SwitchInv, SwitchTypeOK, LeaveBlock
<1>8. QED BY <1>1, <1>2, <1>5, <1>6, <1>7, LeaveKeeps

LEMMA LeaveForInstrumentKeeps ==
  ASSUME SwitchInv, NEW e \in Exits, LeaveForInstrument(e)
  PROVE  SwitchInv'
<1>1. /\ phase = "entering" /\ ~moved /\ Leave(e) /\ borrowed' = TRUE
      /\ e.switch = "context_switch_instrument"
  BY DEF LeaveForInstrument
<1>2. steps' \in 0..MaxSteps
  BY SwitchAssumption DEF SwitchInv, SwitchTypeOK, LeaveForInstrument, Step
<1>3. AgreeBut(regs, {T6})
  BY <1>1 DEF SwitchInv, FrameInv, AtEntry
<1>4. QED BY <1>1, <1>2, <1>3, LeaveKeeps DEF Kept

(* The save half.                                                          *)
LEMMA SaveKeeps ==
  ASSUME SwitchInv, Save
  PROVE  SwitchInv'
<1>1. phase = "switch" /\ phase' = "host" /\ ~moved /\ moved' = moved
  BY DEF Save, SwitchInv, ReportInv
<1>2. FrameInv /\ AtSwitch
  BY <1>1 DEF SwitchInv, FrameInv
<1>3. guest[SP] \in Int /\ regs[SP] = guest[SP] - 2 /\ regs \in [Reg -> Int]
  BY <1>2, RegNumbers DEF SwitchInv, SwitchTypeOK, AtSwitch
<1>4. guest[SP] - 1 \in StackAddrs /\ guest[SP] - 2 \in StackAddrs
  BY <1>2, <1>3, RoomWorks DEF FrameInv
<1>5. Read(guest[SP] - 1) = stack[guest[SP] - 1] /\ Read(guest[SP] - 2) = stack[guest[SP] - 2]
  BY <1>4 DEF Read
<1>6. /\ Saved \in [Reg -> Int] /\ Saved[SP] = TopOfFrame /\ Saved[T6] = stack[guest[SP] - 2]
      /\ \A r \in Reg \ {SP, T6} : Saved[r] = guest[r]
  <2>1. stack[guest[SP] - 2] \in Int
    BY <1>4 DEF SwitchInv, SwitchTypeOK
  <2>2. Saved = [regs EXCEPT ![T6] = stack[guest[SP] - 2], ![SP] = @ + 2 - FrameSize]
    BY <1>3, <1>5 DEF Saved
  <2>3. \A r \in Reg \ {SP, T6} : regs[r] = guest[r]
    BY <1>2 DEF AtSwitch, AgreeBut
  <2>4. QED BY <1>3, <2>1, <2>2, <2>3, RegNumbers DEF TopOfFrame
<1>7. /\ \A w \in StackAddrs :
           stack'[w] = IF w - TopOfFrame \in 0..30 THEN Saved[w - TopOfFrame + 1]
                       ELSE IF w < TopOfFrame THEN HostValue ELSE stack[w]
      /\ TRAPFRAME' = TopOfFrame
      /\ lastInstAddress' = IF exit.switch \in TraceExit THEN Read(TopOfFrame + 31) ELSE 0
      /\ regs' = [r \in Reg |-> CASE r = ZERO -> 0 [] r = SP -> TopOfFrame
                                  [] OTHER -> HostValue]
      /\ guest' = guest /\ guestStack' = guestStack /\ exit' = exit
      /\ borrowed' = borrowed /\ steps' = steps /\ nextBlockAddr' = nextBlockAddr
  BY <1>6 DEF Save
<1>8. lastInstAddress' = IF exit.switch \in TraceExit THEN exit.address ELSE 0
  <2>1. TopOfFrame + 31 = guest[SP] - 1
    BY <1>3 DEF TopOfFrame
  <2>2. QED BY <1>2, <1>5, <1>7, <2>1 DEF AtSwitch
<1>9. TopOfFrame \in Int
  BY <1>3 DEF TopOfFrame
<1>10. stack' \in [StackAddrs -> Int]
  <2>1. ASSUME NEW w \in StackAddrs
        PROVE  stack'[w] \in Int
    <3>1. CASE w - TopOfFrame \in 0..30
      <4>1. w - TopOfFrame + 1 \in Reg
        BY <1>9, <3>1, SwitchAssumption DEF Reg
      <4>2. QED BY <1>6, <1>7, <3>1, <4>1
    <3>2. CASE w - TopOfFrame \notin 0..30
      BY <1>7, <3>2 DEF SwitchInv, SwitchTypeOK
    <3>3. QED BY <3>1, <3>2
  <2>2. \E f : stack' = [w \in StackAddrs |-> f[w]]
    <3>1. stack' = [w \in StackAddrs |-> stack'[w]]
      BY DEF Save
    <3>2. QED BY <3>1
  <2>3. QED BY <2>1, <2>2
<1>11. SwitchTypeOK'
  <2>1. regs' \in [Reg -> Int]
    BY <1>7, <1>9
  <2>2. lastInstAddress' \in Nat
    BY <1>8, ExitFields DEF SwitchInv, SwitchTypeOK
  <2>3. QED BY <1>1, <1>7, <1>9, <1>10, <2>1, <2>2 DEF SwitchInv, SwitchTypeOK, Phase
<1>12. ReportInv'
  BY <1>1, <1>7, <1>8 DEF SwitchInv, ReportInv, HostPhase, Taken, Kept
<1>13. ASSUME NEW r \in Reg \ {ZERO}
       PROVE  stack'[TopOfFrame + r - 1] = Saved[r]
  <2>1. TopOfFrame + r - 1 \in StackAddrs
    BY <1>2, <1>3, RoomWorks DEF FrameInv, TopOfFrame
  <2>2. (TopOfFrame + r - 1) - TopOfFrame \in 0..30
        /\ (TopOfFrame + r - 1) - TopOfFrame + 1 = r
    BY <1>9 DEF Reg
  <2>3. QED BY <1>7, <2>1, <2>2
<1>14. AtHost'
  <2>1. TopOfFrame' = TopOfFrame
    BY <1>7 DEF TopOfFrame
  <2>2. regs'[SP] = TopOfFrame
    BY <1>7, RegNumbers
  <2>3. \A r \in Reg \ {ZERO, SP} : Kept(r)' => InFrame(r)' = guest'[r]
    BY <1>2, <1>6, <1>7, <1>13, <2>1 DEF AtSwitch, SlotHoldsT6, InFrame, Kept
  <2>4. InFrame(SP)' = TopOfFrame
    BY <1>6, <1>13, <2>1, RegNumbers DEF InFrame
  <2>5. QED BY <1>7, <2>1, <2>2, <2>3, <2>4 DEF AtHost
<1>15. ASSUME NEW w \in StackAddrs, w >= guest[SP]
       PROVE  stack'[w] = guestStack[w]
  <2>1. w - TopOfFrame \notin 0..30 /\ ~(w < TopOfFrame)
    BY <1>3, <1>15, SwitchAssumption DEF TopOfFrame
  <2>2. QED BY <1>2, <1>7, <1>15, <2>1 DEF FrameInv
<1>16. FrameInv'
  BY <1>1, <1>2, <1>7, <1>14, <1>15 DEF FrameInv, HostPhase, Room
<1>17. QED BY <1>11, <1>12, <1>16 DEF SwitchInv

(***************************************************************************)
(* stub, instrument and the routines.                                      *)
(***************************************************************************)

(* Those that leave the frame alone.                                       *)
LEMMA HostKeeps ==
  ASSUME SwitchInv, phase \in HostPhase, phase' \in {"routines", "exited"},
         UNCHANGED <<regs, stack, exit, TRAPFRAME, lastInstAddress, guest, guestStack,
                     borrowed, moved, steps>>,
         nextBlockAddr' \in Int
  PROVE  SwitchInv'
<1>1. SwitchTypeOK'
  BY DEF SwitchInv, SwitchTypeOK, Phase
<1>2. ReportInv'
  BY DEF SwitchInv, ReportInv, HostPhase
<1>3. ~moved => FrameInv'
  BY DEF SwitchInv, FrameInv, HostPhase, AtHost, InFrame, TopOfFrame, Kept, Room
<1>4. QED BY <1>1, <1>2, <1>3 DEF SwitchInv

(* A register written in the frame is the guest's, unless it is SP.        *)
LEMMA FrameWriteKeeps ==
  ASSUME SwitchInv, phase \in HostPhase, phase' \in HostPhase,
         phase' = "host" => exit.op = "SYSTEM",
         NEW r \in Reg \ {ZERO}, NEW v \in Int,
         SetFrame(r, v), guest' = [guest EXCEPT ![r] = v], moved' = (moved \/ r = SP),
         UNCHANGED <<regs, exit, TRAPFRAME, lastInstAddress, guestStack>>,
         borrowed' \in BOOLEAN, Kept(T6)' => Kept(T6) \/ r = T6,
         exit.switch = "context_switch_instrument" /\ borrowed => borrowed',
         steps' \in 0..MaxSteps, nextBlockAddr' \in Int
  PROVE  SwitchInv'
<1>1. TRAPFRAME + r - 1 \in Int
  BY DEF SwitchInv, SwitchTypeOK, Reg
<1>2. /\ stack' \in [StackAddrs -> Int]
      /\ \A w \in StackAddrs : stack'[w] = IF w = TRAPFRAME + r - 1 THEN v ELSE stack[w]
  BY <1>1, StoreWorks DEF SwitchInv, SwitchTypeOK, SetFrame
<1>3. SwitchTypeOK'
  <2>1. guest' \in [Reg -> Int] /\ moved' \in BOOLEAN
    BY DEF SwitchInv, SwitchTypeOK
  <2>2. phase' \in Phase
    BY DEF HostPhase, Phase
  <2>3. QED BY <1>2, <2>1, <2>2 DEF SwitchInv, SwitchTypeOK
<1>4. ReportInv'
  <2>1. guest'[ZERO] = 0
    BY RegNumbers DEF SwitchInv, SwitchTypeOK, ReportInv
  <2>2. QED BY <2>1 DEF SwitchInv, ReportInv, HostPhase
<1>5. ASSUME ~moved'
      PROVE  FrameInv'
  <2>1. ~moved /\ r # SP
    BY <1>5
  <2>2. FrameInv /\ AtHost
    BY <2>1 DEF SwitchInv, FrameInv
  <2>3. guest'[SP] = guest[SP] /\ guest[SP] \in Int /\ TopOfFrame' = TopOfFrame
    BY <2>1, RegNumbers DEF SwitchInv, SwitchTypeOK, TopOfFrame
  <2>4. TRAPFRAME = TopOfFrame /\ TopOfFrame \in Int
    BY <2>2, <2>3 DEF AtHost, TopOfFrame
  <2>5. ASSUME NEW q \in Reg \ {ZERO}
        PROVE  InFrame(q)' = IF q = r THEN v ELSE InFrame(q)
    <3>1. TopOfFrame + q - 1 \in StackAddrs
      BY <2>2, <2>3, RoomWorks DEF FrameInv, TopOfFrame
    <3>2. TopOfFrame + q - 1 = TopOfFrame + r - 1 <=> q = r
      BY <2>4 DEF Reg
    <3>3. QED BY <1>2, <2>3, <2>4, <3>1, <3>2 DEF InFrame
  <2>6. ASSUME NEW q \in Reg \ {ZERO, SP}, Kept(q)'
        PROVE  InFrame(q)' = guest'[q]
    <3>1. guest'[q] = IF q = r THEN v ELSE guest[q]
      BY DEF SwitchInv, SwitchTypeOK
    <3>2. q # r => Kept(q)
      BY <2>6 DEF Kept
    <3>3. QED BY <2>2, <2>5, <3>1, <3>2 DEF AtHost
  <2>7. AtHost'
    BY <2>1, <2>2, <2>3, <2>5, <2>6, RegNumbers DEF AtHost
  <2>8. ASSUME NEW w \in StackAddrs, w >= guest[SP]
        PROVE  stack'[w] = guestStack[w]
    <3>1. w # TRAPFRAME + r - 1
      BY <2>3, <2>4, <2>8, SwitchAssumption DEF TopOfFrame, Reg
    <3>2. QED BY <1>2, <2>2, <2>8, <3>1 DEF FrameInv
  <2>9. QED BY <2>2, <2>3, <2>7, <2>8 DEF FrameInv, HostPhase, Room
<1>6. QED BY <1>3, <1>4, <1>5 DEF SwitchInv

(* stub knows the instruction it was left by.                              *)
LEMMA AddressIsExits ==
  ASSUME SwitchInv, phase \in HostPhase
  PROVE  Address = exit.address /\ exit.address \in Nat \ {0} /\ exit.imm \in Int
<1>1. exit \in Exit
  BY DEF SwitchInv, SwitchTypeOK
<1>2. QED BY <1>1, ExitFields DEF SwitchInv, ReportInv, Address

LEMMA LinkedKeeps ==
  ASSUME SwitchInv, NEW next \in Int, Handled(next), Linked
  PROVE  SwitchInv'
<1>1. phase \in HostPhase /\ phase' \in HostPhase \ {"host"} /\ phase' \in {"routines", "exited"}
  BY DEF Handled, InStub, HostPhase
<1>2. CASE exit.rd = ZERO
  BY <1>1, <1>2, HostKeeps DEF Handled, Linked, FrameUnchanged
<1>3. CASE exit.rd # ZERO
  <2>1. exit.rd \in Reg \ {ZERO} /\ exit.address + 1 \in Int
    BY <1>3, ExitFields DEF SwitchInv, SwitchTypeOK
  <2>2. /\ SetFrame(exit.rd, exit.address + 1)
        /\ guest' = [guest EXCEPT ![exit.rd] = exit.address + 1]
        /\ borrowed' = (borrowed /\ exit.rd # T6)
        /\ moved' = (moved \/ exit.rd = SP)
    BY <1>1, <1>3, AddressIsExits DEF Linked
  <2>3. exit.switch # "context_switch_instrument"
    BY DEF Handled, InStub
  <2>4. borrowed' \in BOOLEAN
    BY <2>2
  <2>5. Kept(T6)' => Kept(T6) \/ exit.rd = T6
    BY <2>2 DEF Kept
  <2>6. steps' \in 0..MaxSteps /\ nextBlockAddr' \in Int
    BY DEF Handled, SwitchInv, SwitchTypeOK
  <2>7. QED BY <1>1, <2>1, <2>2, <2>3, <2>4, <2>5, <2>6, FrameWriteKeeps DEF Handled
<1>4. QED BY <1>2, <1>3

LEMMA StubKeeps ==
  ASSUME SwitchInv, Stub_Branch \/ Stub_Jump \/ Stub_IndirectJump \/ Stub_Straight
                    \/ \E v \in Values : Stub_Emulate(v)
  PROVE  SwitchInv'
<1> USE DEF Handled, InStub
<1>1. phase = "host" /\ phase' = "routines" /\ phase \in HostPhase /\ phase' \in HostPhase
  BY DEF Stub_Branch, Stub_Jump, Stub_IndirectJump, Stub_Straight, Stub_Emulate, HostPhase
<1>2. Address \in Int /\ exit.imm \in Int
  BY <1>1, AddressIsExits
<1>3. CASE Stub_Branch
  BY <1>1, <1>2, <1>3, HostKeeps DEF Stub_Branch, FrameUnchanged
<1>4. CASE Stub_Jump
  <2>1. Address + exit.imm \in Int
    BY <1>2
  <2>2. QED BY <1>4, <2>1, LinkedKeeps DEF Stub_Jump
<1>5. CASE Stub_IndirectJump
  <2>1. TRAPFRAME + exit.rs1 - 1 \in Int
    BY ExitFields DEF SwitchInv, SwitchTypeOK, Reg
  <2>2. Frame(exit.rs1) + exit.imm \in Int
    BY <1>2, <2>1, ReadWorks DEF Frame, SwitchInv
  <2>3. QED BY <1>5, <2>2, LinkedKeeps DEF Stub_IndirectJump
<1>6. CASE Stub_Straight
  BY <1>1, <1>2, <1>6, HostKeeps DEF Stub_Straight, FrameUnchanged
<1>7. CASE \E v \in Values : Stub_Emulate(v)
  <2>1. PICK v \in Values : Stub_Emulate(v)
    BY <1>7
  <2>2. v \in Int /\ A0 \in Reg \ {ZERO} /\ A0 # SP
    BY RegNumbers, SwitchAssumption
  <2>3. /\ SetFrame(A0, v) /\ guest' = [guest EXCEPT ![A0] = v] /\ moved' = moved
        /\ borrowed' = borrowed /\ steps' = steps /\ nextBlockAddr' = Address + 1
        /\ UNCHANGED <<regs, exit, TRAPFRAME, lastInstAddress, guestStack>>
    BY <2>1 DEF Stub_Emulate
  <2>4. borrowed' \in BOOLEAN /\ steps' \in 0..MaxSteps /\ moved \in BOOLEAN
    BY <2>3 DEF SwitchInv, SwitchTypeOK
  <2>5. moved' = (moved \/ A0 = SP)
    BY <2>2, <2>3, <2>4
  <2>6. /\ Kept(T6)' => Kept(T6) \/ A0 = T6
        /\ exit.switch = "context_switch_instrument" /\ borrowed => borrowed'
    BY <2>3 DEF Kept
  <2>7. nextBlockAddr' \in Int /\ (phase' = "host" => exit.op = "SYSTEM")
    BY <1>1, <1>2, <2>3
  <2>8. QED BY <1>1, <2>2, <2>3, <2>4, <2>5, <2>6, <2>7, FrameWriteKeeps
<1>8. QED BY <1>3, <1>4, <1>5, <1>6, <1>7

LEMMA ExitAndInstrumentKeep ==
  ASSUME SwitchInv, Stub_Exit \/ Instrument
  PROVE  SwitchInv'
<1>1. nextBlockAddr' \in Int
  BY DEF SwitchInv, SwitchTypeOK, Stub_Exit, Instrument
<1>2. QED BY <1>1, HostKeeps DEF Stub_Exit, Instrument, InStub, HostPhase

LEMMA RoutineKeeps ==
  ASSUME SwitchInv, NEW r \in Written, NEW v \in Values, Routine(r, v)
  PROVE  SwitchInv'
<1>1. r \in Reg \ {ZERO} /\ v \in Int
  BY SwitchAssumption
<1>2. /\ phase \in HostPhase /\ phase' \in HostPhase
      /\ phase' = "host" => exit.op = "SYSTEM"
  BY DEF Routine, InStub, HostPhase
<1>3. borrowed' \in BOOLEAN /\ (Kept(T6)' => Kept(T6) \/ r = T6)
      /\ (exit.switch = "context_switch_instrument" /\ borrowed => borrowed')
  BY DEF Routine, Kept
<1>4. steps' \in 0..MaxSteps /\ nextBlockAddr' \in Int
  BY SwitchAssumption DEF SwitchInv, SwitchTypeOK, Routine, Step
<1>5. QED BY <1>1, <1>2, <1>3, <1>4, FrameWriteKeeps DEF Routine

(***************************************************************************)
(* Back into the cache.                                                    *)
(***************************************************************************)

LEMMA ReturnKeeps ==
  ASSUME SwitchInv, Return
  PROVE  SwitchInv'
<1>1. /\ phase \in HostPhase /\ phase' \in {"guest", "entering"}
      /\ phase' = "guest" => exit.switch = "context_switch_instrument"
      /\ regs' = Loaded
      /\ UNCHANGED <<stack, exit, TRAPFRAME, lastInstAddress, nextBlockAddr, guest, guestStack,
                     borrowed, moved, steps>>
  BY DEF Return, HostPhase
<1>2. regs[SP] \in Int /\ Read(regs[SP] + 1) \in Int /\ Read(regs[SP]) \in Int
  BY RegNumbers, ReadWorks DEF SwitchInv, SwitchTypeOK
<1>3. \A r \in Reg : Read(Read(regs[SP] + 1) + r - 1) \in Int
  BY <1>2, ReadWorks DEF SwitchInv, Reg
<1>4. regs' \in [Reg -> Int]
  BY <1>1, <1>2, <1>3 DEF Loaded
<1>5. SwitchTypeOK'
  BY <1>1, <1>4 DEF SwitchInv, SwitchTypeOK, Phase
<1>6. ReportInv'
  BY <1>1 DEF SwitchInv, ReportInv, HostPhase
<1>7. ASSUME ~moved
      PROVE  FrameInv'
  <2>1. FrameInv /\ AtHost
    BY <1>1, <1>7 DEF SwitchInv, FrameInv
  <2>2. guest[SP] \in Int /\ TopOfFrame \in Int /\ guest[SP] = TopOfFrame + FrameSize
    BY RegNumbers DEF SwitchInv, SwitchTypeOK, TopOfFrame
  <2>3. ASSUME NEW r \in Reg \ {ZERO}
        PROVE  Read(TopOfFrame + r - 1) = InFrame(r)
    BY <2>1, <2>2, RoomWorks DEF FrameInv, TopOfFrame, Read, InFrame
  <2>4. Read(regs[SP] + 1) = TopOfFrame /\ Read(regs[SP]) = guest[RA]
    <3>1. TopOfFrame + 1 = TopOfFrame + SP - 1 /\ TopOfFrame = TopOfFrame + RA - 1
      BY <2>2
    <3>2. Read(TopOfFrame + 1) = InFrame(SP) /\ Read(TopOfFrame) = InFrame(RA)
      BY <2>3, <3>1, RegNumbers
    <3>3. QED BY <2>1, <3>2, RegNumbers DEF AtHost, Kept
  <2>5. AgreeBut(regs, {T6})'
    <3>1. ASSUME NEW r \in Reg \ {ZERO, RA, SP, T6}
          PROVE  regs'[r] = guest[r]
      BY <1>1, <2>1, <2>3, <2>4 DEF Loaded, AtHost, Kept
    <3>2. regs'[ZERO] = guest[ZERO] /\ regs'[RA] = guest[RA] /\ regs'[SP] = guest[SP]
      BY <1>1, <2>2, <2>4, RegNumbers DEF Loaded, SwitchInv, ReportInv
    <3>3. QED BY <1>1, <3>1, <3>2 DEF AgreeBut
  <2>6. SlotHoldsT6'
    <3>1. guest[SP] - 2 = TopOfFrame + T6 - 1
      BY <2>2
    <3>2. QED BY <1>1, <2>1, <3>1, RegNumbers DEF SlotHoldsT6, AtHost, InFrame, Kept
  <2>7. phase' = "guest" => \A r \in Reg : Kept(r)' => regs'[r] = guest'[r]
    BY <1>1, <2>5 DEF SwitchInv, ReportInv, HostPhase, Kept, AgreeBut
  <2>8. QED BY <1>1, <2>1, <2>5, <2>6, <2>7 DEF FrameInv, HostPhase, AtEntry, Room
<1>8. QED BY <1>1, <1>5, <1>6, <1>7 DEF SwitchInv

LEMMA EnterKeeps ==
  ASSUME SwitchInv, Enter
  PROVE  SwitchInv'
<1>1. /\ phase = "entering" /\ phase' = "guest" /\ regs' = [regs EXCEPT ![T6] = Read(Slot)]
      /\ UNCHANGED <<stack, exit, TRAPFRAME, lastInstAddress, nextBlockAddr, guest, guestStack,
                     borrowed, moved, steps>>
  BY DEF Enter
<1>2. Slot \in Int /\ Read(Slot) \in Int
  BY RegNumbers, ReadWorks DEF SwitchInv, SwitchTypeOK, Slot
<1>3. regs' \in [Reg -> Int]
  BY <1>1, <1>2 DEF SwitchInv, SwitchTypeOK
<1>4. SwitchTypeOK'
  BY <1>1, <1>3 DEF SwitchInv, SwitchTypeOK, Phase
<1>5. ReportInv'
  BY <1>1 DEF SwitchInv, ReportInv, HostPhase
<1>6. ASSUME ~moved
      PROVE  FrameInv'
  <2>1. FrameInv /\ AtEntry
    BY <1>1, <1>6 DEF SwitchInv, FrameInv
  <2>2. regs[SP] = guest[SP] /\ guest[SP] \in Int
    BY <2>1, RegNumbers DEF AtEntry, AgreeBut, SwitchInv, SwitchTypeOK
  <2>3. Read(Slot) = stack[guest[SP] - 2]
    BY <2>1, <2>2, RoomWorks DEF FrameInv, Slot, Read
  <2>4. ASSUME NEW r \in Reg, Kept(r)
        PROVE  regs'[r] = guest[r]
    BY <1>1, <2>1, <2>3, <2>4 DEF SwitchInv, SwitchTypeOK, AtEntry, AgreeBut, SlotHoldsT6
  <2>5. QED BY <1>1, <2>1, <2>4 DEF FrameInv, HostPhase, Room, Kept
<1>7. QED BY <1>1, <1>4, <1>5, <1>6 DEF SwitchInv

LEMMA SwitchStutter ==
  ASSUME SwitchInv, UNCHANGED vars
  PROVE  SwitchInv'
<1>1. SwitchTypeOK' /\ ReportInv'
  BY DEF SwitchInv, SwitchTypeOK, ReportInv, vars, Taken, Kept
<1>2. ~moved => FrameInv'
  BY DEF SwitchInv, FrameInv, AtSwitch, AtHost, AtEntry, AgreeBut, SlotHoldsT6, InFrame,
         TopOfFrame, Kept, Room, vars
<1>3. QED BY <1>1, <1>2 DEF SwitchInv, vars

LEMMA SwitchStep ==
  ASSUME SwitchInv, [Next]_vars
  PROVE  SwitchInv'
<1>1. CASE GuestStep
  BY <1>1, GuestWriteKeeps, GuestMoveSPKeeps, GuestPushKeeps DEF GuestStep
<1>2. CASE \E e \in Exits : LeaveBlock(e) \/ LeaveForInstrument(e)
  BY <1>2, LeaveBlockKeeps, LeaveForInstrumentKeeps
<1>3. CASE Save
  BY <1>3, SaveKeeps
<1>4. CASE HostStep
  BY <1>4, StubKeeps, ExitAndInstrumentKeep, RoutineKeeps DEF HostStep
<1>5. CASE Return
  BY <1>5, ReturnKeeps
<1>6. CASE Enter
  BY <1>6, EnterKeeps
<1>7. CASE Rest \/ UNCHANGED vars
  BY <1>7, SwitchStutter DEF Rest
<1>8. QED BY <1>1, <1>2, <1>3, <1>4, <1>5, <1>6, <1>7 DEF Next

LEMMA SwitchInvariant == Spec => []SwitchInv
<1>1. Init => SwitchInv
  BY SwitchInit
<1>2. SwitchInv /\ [Next]_vars => SwitchInv'
  BY SwitchStep
<1>3. QED BY <1>1, <1>2, PTL DEF Spec

(***************************************************************************)
(* The theorems.                                                           *)
(***************************************************************************)

(* Every variable keeps its type, and what a trace reports to stub is the  *)
(* address of an instruction.                                              *)
THEOREM SwitchTyped == Spec => []SwitchTypeOK
<1>1. SwitchInv => SwitchTypeOK
  BY DEF SwitchInv
<1>2. QED BY <1>1, SwitchInvariant, PTL

(* The guest has its registers after every switch, whatever it and the     *)
(* routines have written, short of SP in the frame.                        *)
THEOREM RegistersKept == Spec => []RegistersSurvive
<1>1. SwitchInv => RegistersSurvive
  BY DEF SwitchInv, FrameInv, RegistersSurvive
<1>2. QED BY <1>1, SwitchInvariant, PTL

(* stub, the routines and the exit routine find them in the frame.         *)
THEOREM FrameIsGuests == Spec => []FrameShowsGuest
<1>1. ASSUME SwitchInv, phase \in HostPhase, ~moved
      PROVE  /\ \A r \in Reg \ {ZERO, SP} : Kept(r) => Frame(r) = guest[r]
             /\ Frame(SP) = guest[SP] - FrameSize
  <2>1. FrameInv /\ AtHost
    BY <1>1 DEF SwitchInv, FrameInv
  <2>2. guest[SP] \in Int /\ TRAPFRAME = TopOfFrame
    BY <1>1, <2>1, RegNumbers DEF SwitchInv, SwitchTypeOK, AtHost
  <2>3. \A r \in Reg \ {ZERO} : TopOfFrame + r - 1 \in StackAddrs
    BY <2>1, <2>2, RoomWorks DEF FrameInv, TopOfFrame
  <2>4. \A r \in Reg \ {ZERO} : Frame(r) = InFrame(r)
    BY <2>2, <2>3 DEF Frame, Read, InFrame
  <2>5. QED BY <2>1, <2>4, RegNumbers DEF AtHost, TopOfFrame
<1>2. SwitchInv => FrameShowsGuest
  BY <1>1 DEF FrameShowsGuest, HostPhase
<1>3. QED BY <1>2, SwitchInvariant, PTL

(* No switch touches the guest's stack above its SP.                       *)
THEOREM StackKept == Spec => []StackAboveKept
<1>1. SwitchInv => StackAboveKept
  BY DEF SwitchInv, FrameInv, StackAboveKept
<1>2. QED BY <1>1, SwitchInvariant, PTL

NativeStep ==
  /\ InStub /\ phase' = "routines"
  /\ exit.op \in {"BRANCH", "JALR"} => exit.rs1 # SP /\ Kept(exit.rs1)
  /\ exit.op = "JALR" => exit.rs1 # ZERO
  => nextBlockAddr' = NativeNext

(* stub sends the guest where it would go, whatever block currentBB names. *)
THEOREM StubKnowsNext == Spec => NextIsNative
<1>1. ASSUME SwitchInv, Next, InStub, phase' = "routines",
             exit.op \in {"BRANCH", "JALR"} => exit.rs1 # SP /\ Kept(exit.rs1),
             exit.op = "JALR" => exit.rs1 # ZERO
      PROVE  nextBlockAddr' = NativeNext
  <2>1. phase = "host" /\ exit.switch # "context_switch_instrument"
    BY <1>1 DEF InStub
  <2>2. Address = exit.address
    BY <1>1, <2>1, AddressIsExits DEF HostPhase
  <2>3. \/ Stub_Branch \/ Stub_Jump \/ Stub_IndirectJump \/ Stub_Straight
        \/ \E v \in Values : Stub_Emulate(v)
    BY <1>1, <2>1 DEF Next, GuestStep, HostStep, Guest_Write, Guest_MoveSP, Guest_Push,
       LeaveBlock, LeaveForInstrument, InGuest, Save, Stub_Exit, Instrument, Routine, Return,
       Enter, Rest, vars
  <2>4. CASE Stub_Branch
    BY <1>1, <2>1, <2>2, <2>4 DEF Stub_Branch, Handled, NativeNext, SwitchInv, ReportInv
  <2>5. CASE Stub_Jump
    BY <2>2, <2>5 DEF Stub_Jump, Handled, NativeNext
  <2>6. CASE Stub_IndirectJump
    <3>1. exit.op = "JALR" /\ nextBlockAddr' = Frame(exit.rs1) + exit.imm
      BY <2>6 DEF Stub_IndirectJump, Handled
    <3>2. ~moved /\ FrameInv /\ AtHost
      BY <1>1, <2>1, <3>1 DEF SwitchInv, ReportInv, FrameInv, HostPhase
    <3>3. exit.rs1 \in Reg \ {ZERO, SP} /\ Kept(exit.rs1)
      BY <1>1, <3>1, ExitFields DEF SwitchInv, SwitchTypeOK
    <3>4. guest[SP] \in Int
      BY <1>1, RegNumbers DEF SwitchInv, SwitchTypeOK
    <3>5. Frame(exit.rs1) = InFrame(exit.rs1)
      BY <3>2, <3>3, <3>4, RoomWorks DEF FrameInv, AtHost, TopOfFrame, Frame, Read, InFrame
    <3>6. QED BY <3>1, <3>2, <3>3, <3>5 DEF AtHost, NativeNext
  <2>7. CASE Stub_Straight \/ \E v \in Values : Stub_Emulate(v)
    BY <2>2, <2>7 DEF Stub_Straight, Stub_Emulate, Handled, NativeNext
  <2>8. QED BY <2>3, <2>4, <2>5, <2>6, <2>7
<1>2. ASSUME SwitchInv, [Next]_vars
      PROVE  [NativeStep]_vars
  BY <1>1, <1>2 DEF NativeStep
<1>3. Spec => [][NativeStep]_vars
  BY <1>2, SwitchInvariant, PTL DEF Spec
<1>4. QED BY <1>3 DEF NextIsNative, NativeStep
=============================================================================
