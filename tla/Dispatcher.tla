----------------------------- MODULE Dispatcher -----------------------------
(***************************************************************************)
(* The whole engine: the processor runs the code cache, leaves it through  *)
(* the context switches of util.S, and dispatcher.cpp (init, stub and      *)
(* instrument) runs the user's routines, finds or allocates the next block *)
(* and returns into the cache.  Trace linking is off.                      *)
(*                                                                         *)
(* A context switch keeps the guest's registers in a frame whose word for  *)
(* T6 is the very word inline_save stored it to: "slot" is both.           *)
(***************************************************************************)
EXTENDS CodeCache

CONSTANTS
  InitialRegs,   (* the values registers may hold when the guest starts       *)
  CacheBase,     (* cache word i has address CacheBase + i                    *)
  CacheSize      (* words the mapping of the cache holds                      *)

VARIABLES
  phase,    (* what executes: the cache, or one of the host's functions       *)
  ip,       (* in the cache: index of the next word                           *)
  regs,     (* the processor's registers                                      *)
  slot,     (* the stack word below the guest's SP that T6 is saved to        *)
  taken,    (* stub's second argument                                         *)
  frame,    (* stub's locals that live across the allocation                  *)
  edges,    (* CFGGenerator::entries, without the counts                      *)
  served,   (* address of the last ECALL that was performed                   *)
  status    (* "running", or how the process ended                            *)

(* History: what the guest and the user of the library can observe.        *)
VARIABLES
  gpc,       (* the address after the last retired instruction                *)
  t6Saved,   (* the guest's T6 is in slot and not in the register             *)
  leader,    (* where the guest's current basic block began                   *)
  preCalls,  (* addresses PRE routines were called for since the last retire  *)
  postCalls, (* the same for POST routines                                    *)
  retired,   (* the last retirement, with the calls around it                 *)
  bbState    (* how far the basic-block routines have got                     *)

dispatcherVars == <<phase, ip, regs, slot, taken, frame, edges, served, status>>
history == <<gpc, t6Saved, leader, preCalls, postCalls, retired, bbState>>
vars == <<cacheVars, dispatcherVars, history>>

ASSUME InitialRegsAssumption == InitialRegs \subseteq Int
ASSUME CacheAssumption == CacheBase \in Nat /\ CacheSize \in Nat

Phase  == {"run", "init", "initWait", "stub", "stubWait", "instrument"}
Status == {"running", "exited", "faulted", "crashed"}

(* The labels "START" and "END" of the control-flow graph.                 *)
StartNode == -1
EndNode   == -2

CacheAddr(i) == CacheBase + i

Lookup(a) == IF a \in DOMAIN RailBasicBlocks THEN RailBasicBlocks[a] ELSE ZeroBlock

EmptyFrame == [currentBasicBlock |-> ZeroBlock, nextBlockAddr |-> 0,
               shouldNotExecLast |-> TRUE]

Times(n, a) == [k \in 1..n |-> a]
One(b) == IF b THEN 1 ELSE 0

-----------------------------------------------------------------------------
(* History.                                                                *)

Retirement(a, pre) ==
  [addr |-> a, pre |-> pre, prev |-> retired.addr, post |-> postCalls]

(* A block's PRE routine, the instructions of its body, its transfer of    *)
(* control and its POST routine are to come in this order.                 *)
BBStep(s, event) ==
  IF ~(tool.bbPre /\ tool.bbPost) THEN s
  ELSE CASE s = "fresh" /\ event = "pre"                      -> "entered"
         [] s \in {"entered", "inside"} /\ event = "body"     -> "inside"
         [] s \in {"entered", "inside"} /\ event = "transfer" -> "leaving"
         [] s = "leaving" /\ event = "post"                   -> "fresh"
         [] OTHER                                             -> "broken"

(* A word of the cache retires the instruction at a.                       *)
RetireInCache(a, event) ==
  /\ gpc' = a + 1
  /\ retired' = Retirement(a, preCalls)
  /\ preCalls' = << >>
  /\ postCalls' = << >>
  /\ bbState' = BBStep(bbState, event)
  /\ leader' = IF event = "transfer" THEN a + 1 ELSE leader

-----------------------------------------------------------------------------
(* The processor in the cache.                                             *)

word == memory[ip]

At(kind) == /\ status = "running" /\ phase = "run" /\ ip \in DOMAIN memory
            /\ word.k = kind

(* util.S restore_scratch.                                                 *)
RunRestoreScratch ==
  /\ At("restore")
  /\ regs' = [regs EXCEPT !.t6 = slot]
  /\ t6Saved' = FALSE
  /\ ip' = ip + Len(RestoreScratch)
  /\ UNCHANGED <<cacheVars, phase, slot, taken, frame, edges, served, status,
                 gpc, leader, preCalls, postCalls, retired, bbState>>

(* util.S inline_save.                                                     *)
RunInlineSave ==
  /\ At("save")
  /\ slot' = regs.t6
  /\ t6Saved' = TRUE
  /\ ip' = ip + Len(InlineSave)
  /\ UNCHANGED <<cacheVars, phase, regs, taken, frame, edges, served, status,
                 gpc, leader, preCalls, postCalls, retired, bbState>>

(* T5 is one of the registers the model leaves out.                        *)
RunLi ==
  /\ \/ At("li")   /\ regs' = [regs EXCEPT !.t6 = word.v]
     \/ At("liT5") /\ UNCHANGED regs
  /\ ip' = ip + Len(Li(word.v))
  /\ UNCHANGED <<cacheVars, phase, slot, taken, frame, edges, served, status, history>>

(* The copied branch compares the guest's registers and picks an exit.     *)
RunBranch ==
  /\ At("branch")
  /\ ip' = IF BranchTaken(text[word.a], regs) THEN ip + BranchSkip ELSE ip + 1
  /\ UNCHANGED <<cacheVars, phase, regs, slot, taken, frame, edges, served, status,
                 history>>

(* Unless the base is SP, the address adjustment parks a register in slot  *)
(* and restores it after the access: T6, or T5 (not modelled, its value is *)
(* given as 0) when the base is T6.                                        *)
LostToScratch(i) == i.rd = "t6" /\ i.rs1 \notin {"t6", "sp"}

Parked(i) == CASE i.rs1 = "sp" -> slot
               [] i.rs1 = "t6" -> 0
               [] OTHER        -> regs.t6

RunGuestWord ==
  /\ At("guest") \/ At("mem") \/ At("setpc")
  /\ regs' = IF word.k = "mem" /\ LostToScratch(text[word.a])
             THEN regs
             ELSE Execute(text[word.a], word.a, regs)
  /\ slot' = IF word.k = "mem" THEN Parked(text[word.a]) ELSE slot
  /\ ip' = ip + Len(InLine(text[word.a], word.a))
  /\ RetireInCache(word.a, "body")
  /\ UNCHANGED <<cacheVars, phase, taken, frame, edges, served, status, t6Saved>>

(* The host performs the system call the library did not want to.          *)
RunEcall ==
  /\ At("ecall")
  /\ served' = word.a
  /\ ip' = ip + 1
  /\ RetireInCache(word.a, "transfer")
  /\ UNCHANGED <<cacheVars, phase, regs, slot, taken, frame, edges, status, t6Saved>>

(* jalr x0, 0(t6): within the cache, or into a host routine, which begins  *)
(* by taking the guest's T6 back from the stack.                           *)
RunJumpInCache ==
  /\ At("jalrT6")
  /\ regs.t6 - CacheBase \in DOMAIN memory
  /\ ip' = regs.t6 - CacheBase
  /\ UNCHANGED <<cacheVars, phase, regs, slot, taken, frame, edges, served, status,
                 history>>

HostEntry == InitSwitch..ContextSwitch

HostPhase(t) == CASE t = InitSwitch              -> "init"
                  [] t = ContextSwitchInstrument -> "instrument"
                  [] OTHER                       -> "stub"

RunSwitch ==
  /\ At("jalrT6")
  /\ regs.t6 \in HostEntry
  /\ phase' = HostPhase(regs.t6)
  /\ taken' = (regs.t6 # ContextSwitch)
  /\ regs' = [regs EXCEPT !.t6 = slot]
  /\ UNCHANGED <<cacheVars, ip, slot, frame, edges, served, status, history>>

(* The displacement reads memoryIndex while the same statement increments  *)
(* it: the jump leads to the first word or, out of the cache, before it.   *)
RunJalRoot ==
  /\ At("jalRoot")
  /\ ip' \in {0, 1}
  /\ UNCHANGED <<cacheVars, phase, regs, slot, taken, frame, edges, served, status,
                 history>>

(* Anything else the processor may meet there ends the process.            *)
RunCrash ==
  /\ status = "running" /\ phase = "run"
  /\ ip \in DOMAIN memory =>
       \/ word.k = "cont"
       \/ /\ word.k = "jalrT6"
          /\ regs.t6 - CacheBase \notin DOMAIN memory
          /\ regs.t6 \notin HostEntry
  /\ status' = "crashed"
  /\ UNCHANGED <<cacheVars, phase, ip, regs, slot, taken, frame, edges, served, history>>

RunStep == \/ RunRestoreScratch \/ RunInlineSave \/ RunLi     \/ RunBranch
           \/ RunGuestWord      \/ RunEcall      \/ RunJumpInCache
           \/ RunSwitch         \/ RunJalRoot    \/ RunCrash

-----------------------------------------------------------------------------
(* The host.  TRAPFRAME holds the guest's registers, T6's word is slot.    *)

TRAPFRAME == [regs EXCEPT !.t6 = slot]

(* Returning a cache address: it travels in T6.                            *)
EnterCacheAt(i, frameRegs) ==
  /\ phase' = "run"
  /\ ip' = i
  /\ regs' = [frameRegs EXCEPT !.t6 = CacheAddr(i)]

(* init: allocate the entry block ...                                      *)
Init_Allocate ==
  /\ status = "running" /\ phase = "init"
  /\ AllocBegin(program_counter)
  /\ frame' = [EmptyFrame EXCEPT !.nextBlockAddr = program_counter]
  /\ phase' = "initWait"
  /\ UNCHANGED <<ip, regs, slot, taken, edges, served, status, history>>

(* ... call the PRE routines, and enter it.                                *)
Init_Enter ==
  LET next == Lookup(frame.nextBlockAddr)
  IN  /\ status = "running" /\ phase = "initWait" /\ ~alloc.busy
      /\ edges' = edges \cup {<<StartNode, frame.nextBlockAddr>>}
      /\ preCalls' = preCalls \o Times(One(tool.instPre), next.firstAddr)
      /\ bbState' = IF tool.bbPre /\ next.type # "SEGMENTED"
                    THEN BBStep(bbState, "pre") ELSE bbState
      /\ EnterCacheAt(next.startLocationInCache, regs)
      /\ UNCHANGED <<cacheVars, slot, taken, frame, served, status,
                     gpc, t6Saved, leader, postCalls, retired>>

(* stub: the frame once a jump has written its link ...                    *)
LinkedFrame(i, a) ==
  IF i.op \in {"JAL", "JALR"} /\ i.rd # "zero"
  THEN [TRAPFRAME EXCEPT ![i.rd] = a + 1]
  ELSE TRAPFRAME

(* Mutant: the link is written before the jump's base is read.             *)
NextBlockAddrAfterLink(i, a) ==
  CASE i.op = "BRANCH" -> IF taken THEN a + i.imm ELSE a + 1
    [] i.op = "JAL"    -> a + i.imm
    [] i.op = "JALR"   -> RegValue(LinkedFrame(i, a), i.rs1) + i.imm
    [] OTHER           -> a + 1

(* ... and where control goes after the instruction i at a.                *)
NextBlockAddr(i, a) ==
  CASE i.op = "BRANCH" -> IF taken THEN a + i.imm ELSE a + 1
    [] i.op = "JAL"    -> a + i.imm
    [] i.op = "JALR"   -> RegValue(TRAPFRAME, i.rs1) + i.imm
    [] OTHER           -> a + 1

(* The POST routines stub calls for the instruction that ended the block.  *)
NumPostCalls(i) ==
  One(tool.instPost)
    + One(getType(i.op) \in tool.typedPost)
    + One(i.op \in MemoryOp /\ "MEM_ACCESS" \in tool.typedPost)

NumSystemCalls(types) == One("SYSTEM" \in types)

(* Mutant: indirect branches and system calls end no basic block.          *)
BBPostDirect(s, block) ==
  IF tool.bbPost /\ block.type = "DIRECT_BRANCH" THEN BBStep(s, "post") ELSE s

BBPost(s, block) ==
  IF tool.bbPost /\ block.type # "SEGMENTED" THEN BBStep(s, "post") ELSE s

AllocateIfMissing(a) ==
  IF a \in DOMAIN RailBasicBlocks THEN UNCHANGED cacheVars ELSE AllocBegin(a)

(* The rest of stub's first half: the edge and the next block.             *)
LeaveFor(cur, next, execLast) ==
  /\ edges' = edges \cup {<<cur.basicBlockAddress, next>>}
  /\ frame' = [currentBasicBlock |-> cur, nextBlockAddr |-> next,
               shouldNotExecLast |-> ~execLast]
  /\ AllocateIfMissing(next)
  /\ phase' = "stubWait"
  /\ UNCHANGED <<ip, taken, status, t6Saved>>

InStub == status = "running" /\ phase = "stub"

(* A branch or jump retires here: the cache only recorded its direction.   *)
Stub_Transfer ==
  LET cur  == Lookup(currentBB)
      i    == cur.terminalInst
      a    == cur.lastAddr
      next == NextBlockAddr(i, a)
  IN  /\ InStub /\ cur.type \in {"DIRECT_BRANCH", "INDIRECT_BRANCH"}
      /\ regs' = LinkedFrame(i, a)
      /\ slot' = LinkedFrame(i, a).t6
      /\ gpc' = next
      /\ leader' = next
      /\ retired' = Retirement(a, preCalls)
      /\ preCalls' = << >>
      /\ postCalls' = Times(NumPostCalls(i), a)
      /\ bbState' = BBPost(BBStep(bbState, "transfer"), cur)
      /\ LeaveFor(cur, next, FALSE)
      /\ UNCHANGED served

Stub_Segment ==
  LET cur == Lookup(currentBB)
      a   == cur.lastAddr
  IN  /\ InStub /\ cur.type = "SEGMENTED"
      /\ postCalls' = postCalls \o Times(NumPostCalls(cur.terminalInst), a)
      /\ LeaveFor(cur, a + 1, FALSE)
      /\ UNCHANGED <<regs, slot, served, gpc, leader, preCalls, retired, bbState>>

(* handle_syscalls performs the call, and the ECALL is done.               *)
Stub_Emulate ==
  LET cur == Lookup(currentBB)
      i   == cur.terminalInst
      a   == cur.lastAddr
  IN  /\ InStub /\ cur.type = "SYSCALL" /\ i.sys = "emulated"
      /\ served' = a
      /\ gpc' = a + 1
      /\ leader' = a + 1
      /\ retired' = Retirement(a, preCalls \o Times(NumSystemCalls(tool.typedPre), a))
      /\ preCalls' = << >>
      /\ postCalls' = Times(NumSystemCalls(tool.typedPost) + NumPostCalls(i), a)
      /\ bbState' = BBPost(BBStep(bbState, "transfer"), cur)
      /\ LeaveFor(cur, a + 1, FALSE)
      /\ UNCHANGED <<regs, slot>>

(* It does not know the call: the ECALL has yet to run, after stub.        *)
Stub_Forward ==
  LET cur == Lookup(currentBB)
      i   == cur.terminalInst
      a   == cur.lastAddr
  IN  /\ InStub /\ cur.type = "SYSCALL" /\ i.sys = "forwarded"
      /\ preCalls' = preCalls \o Times(NumSystemCalls(tool.typedPre), a)
      /\ postCalls' = postCalls
                        \o Times(NumSystemCalls(tool.typedPost) + NumPostCalls(i), a)
      /\ bbState' = BBPost(bbState, cur)
      /\ LeaveFor(cur, a + 1, TRUE)
      /\ UNCHANGED <<regs, slot, served, gpc, leader, retired>>

(* handle_syscalls does not return from an exit: exit_binary ends the      *)
(* process and closes the graph.                                           *)
Stub_Exit ==
  LET cur == Lookup(currentBB)
  IN  /\ InStub /\ cur.type = "SYSCALL" /\ cur.terminalInst.sys = "exit"
      /\ preCalls' = preCalls \o Times(NumSystemCalls(tool.typedPre), cur.lastAddr)
      /\ edges' = edges \cup {<<cur.basicBlockAddress, EndNode>>}
      /\ status' = "exited"
      /\ UNCHANGED <<cacheVars, phase, ip, regs, slot, taken, frame, served,
                     gpc, t6Saved, leader, postCalls, retired, bbState>>

(* A segment takes over the basic block control comes from.  Mutant: every *)
(* block does.                                                             *)
AdoptAny(key, next) ==
  RailBasicBlocks' =
    [RailBasicBlocks EXCEPT
       ![key].basicBlockAddress = frame.currentBasicBlock.basicBlockAddress]

AdoptSegment(key, next) ==
  RailBasicBlocks' =
    IF next.type = "SEGMENTED"
    THEN [RailBasicBlocks EXCEPT
            ![key].basicBlockAddress = frame.currentBasicBlock.basicBlockAddress]
    ELSE RailBasicBlocks

(* Where stub returns to: the block, or the word before it to run an ECALL.*)
(* Mutant: always the word before it.                                      *)
ReturnBefore(next) == next.startLocationInCache - 1

ReturnVal(next) ==
  IF frame.shouldNotExecLast THEN next.startLocationInCache
                             ELSE next.startLocationInCache - 1

(* stub's second half, once the next block is there: it calls the PRE       *)
(* routines and returns into the cache.                                    *)
Stub_Enter ==
  LET key  == frame.nextBlockAddr
      next == Lookup(key)
  IN  /\ status = "running" /\ phase = "stubWait" /\ ~alloc.busy
      /\ next.firstAddr # 0
      /\ AdoptSegment(key, next)
      /\ setCurrentBB(next.firstAddr)
      /\ preCalls' = preCalls \o Times(One(tool.instPre), next.firstAddr)
      /\ bbState' = IF tool.bbPre /\ next.type # "SEGMENTED"
                    THEN BBStep(bbState, "pre") ELSE bbState
      /\ EnterCacheAt(ReturnVal(next), regs)
      /\ frame' = EmptyFrame
      /\ UNCHANGED <<text, tool, program_counter, memory, alloc,
                     slot, taken, edges, served, status,
                     gpc, t6Saved, leader, postCalls, retired>>

(* No block: stub gives up and exits.  The allocation has already moved    *)
(* currentBB, so the graph's last edge starts at a block without address.  *)
Stub_GiveUp ==
  /\ status = "running" /\ phase = "stubWait" /\ ~alloc.busy
  /\ Lookup(frame.nextBlockAddr).firstAddr = 0
  /\ edges' = edges \cup {<<Lookup(currentBB).basicBlockAddress, EndNode>>}
  /\ status' = "faulted"
  /\ UNCHANGED <<cacheVars, phase, ip, regs, slot, taken, frame, served, history>>

(* instrument: the typed PRE routines of the instruction that begins the   *)
(* block, then on to its body.                                             *)
NumTypedPreCalls(i) ==
  One(getType(i.op) \in tool.typedPre)
    + One(i.op \in MemoryOp /\ "MEM_ACCESS" \in tool.typedPre)

Instrument ==
  LET cur == Lookup(currentBB)
  IN  /\ status = "running" /\ phase = "instrument"
      /\ preCalls' = preCalls \o Times(NumTypedPreCalls(cur.startInst), cur.firstAddr)
      /\ EnterCacheAt(cur.startLocationInCache + InstrumentSkip, regs)
      /\ UNCHANGED <<cacheVars, slot, taken, frame, edges, served, status,
                     gpc, t6Saved, leader, postCalls, retired, bbState>>

HostStep == \/ Init_Allocate \/ Init_Enter   \/ Stub_Transfer \/ Stub_Segment
            \/ Stub_Emulate  \/ Stub_Forward \/ Stub_Exit     \/ Stub_Enter
            \/ Stub_GiveUp   \/ Instrument

-----------------------------------------------------------------------------

(* Nothing stops the allocator at the end of the mapping.                  *)
Allocate ==
  /\ status = "running"
  /\ AllocStep
  /\ status' = IF Len(memory') > CacheSize THEN "crashed" ELSE status
  /\ UNCHANGED <<phase, ip, regs, slot, taken, frame, edges, served, history>>

Halted == status # "running" /\ UNCHANGED vars

Init ==
  /\ CacheInit
  /\ phase = "run"
  /\ ip = 1
  /\ \E v \in InitialRegs : regs = [r \in Reg |-> IF r = "t6" THEN 0 ELSE v]
  /\ slot \in InitialRegs
  /\ taken = FALSE
  /\ frame = EmptyFrame
  /\ edges = {}
  /\ served = 0
  /\ status = "running"
  /\ gpc = 1
  /\ t6Saved = TRUE
  /\ leader = 1
  /\ preCalls = << >>
  /\ postCalls = << >>
  /\ retired = [addr |-> 0, pre |-> << >>, prev |-> 0, post |-> << >>]
  /\ bbState = "fresh"

Next == RunStep \/ HostStep \/ Allocate \/ Halted

Spec == Init /\ [][Next]_vars

(* The process is one thread that the host keeps running.                  *)
FairSpec == Spec /\ WF_vars(Next)
=============================================================================
