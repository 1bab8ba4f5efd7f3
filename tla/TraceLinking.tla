---------------------------- MODULE TraceLinking ----------------------------
(***************************************************************************)
(* The engine with Rail::enableTraceLinking.  A block is then a trace:     *)
(* allocateTrace follows direct jumps while it copies, so that up to       *)
(* TraceBlocks basic blocks lie in one piece, and every exit tells stub    *)
(* which instruction it is the exit of.  When stub has found the trace     *)
(* behind a direct exit it overwrites two words of the exit, and from then *)
(* on control passes from trace to trace without it.                       *)
(*                                                                         *)
(* Links land inside the sequences that load constants, so these, unlike   *)
(* the li of CacheWords, are executed word by word.                        *)
(***************************************************************************)
EXTENDS Dispatcher

CONSTANT
  TraceBlocks    (* blocks of a trace stub allocates: 10 in dispatcher.cpp    *)

ASSUME TraceBlocksAssumption == TraceBlocks \in Nat \ {0}

VARIABLES
  exits,            (* CodeCache::exits: guest address -> cache word          *)
  trace,            (* allocateTrace's activation: its railBB, and the blocks *)
                    (* that may still be joined to the trace                  *)
  sp,               (* the processor's SP, counted from the guest's           *)
  lastInst,         (* the stack word above slot                              *)
  lastInstAddress   (* stub's fourth argument                                 *)

(* History.  A jump that is followed leaves no word of its own in the      *)
(* trace: it retires, in a step of its own, before the word laid out next. *)
VARIABLES
  followed,   (* cache word -> the jumps followed just before it was laid out *)
  passed,     (* how many of them have retired since control reached ip       *)
  linked      (* control entered the trace it is in through a link            *)

traceVars    == <<exits, trace, lastInst, lastInstAddress>>
traceHistory == <<followed, passed, linked>>
allVars == <<vars, traceVars, sp, traceHistory>>

IdleTrace == [busy |-> FALSE, railBB |-> ZeroBlock, count |-> 0]

-----------------------------------------------------------------------------
(* Words.                                                                  *)

TraceWordKind == WordKind \cup {"lui", "addi", "addiEnd", "sdPc", "traceBranch",
                                "popSp", "jal", "liRd"}

(* jal: v is the cache word it leads to; a, which the processor does not   *)
(* see, the branch or jump whose exit the link replaced.                   *)
TraceWord == [k : TraceWordKind, a : Int, v : Int]

ContextSwitchTraceExit      == -5
ContextSwitchTraceExitTaken == -6
TraceEntry == {ContextSwitchTraceExit, ContextSwitchTraceExitTaken}

(* What T6 holds between the words of a li.                                *)
Unfinished == -7

TraceLi(v) == <<W("lui", 0, v), W("addi", 0, v), W("addiEnd", 0, v)>>

(* Give the address of the exit's instruction to stub and call it.         *)
ReportTo(a, h) == TraceLi(a) \o <<W("sdPc", 0, 0)>> \o TraceLi(h) \o JalrT6

TraceExit(a, h) == InlineSave \o ReportTo(a, h)

(* A taken branch skips the first of its exit's two sequences.             *)
TraceBranchSkip == 9

TraceBranchExit(a) ==
  InlineSave \o <<W("traceBranch", a, 0)>>
             \o ReportTo(a, ContextSwitchTraceExit)
             \o ReportTo(a, ContextSwitchTraceExitTaken)

(* The exit of the address a, as exits remembers it: a branch's word, or   *)
(* else the word before the sequence.                                      *)
ExitWord(i, words) == IF i.op = "BRANCH" THEN Len(words) + 3 ELSE Len(words)

(* A jump that is followed only writes its link.                           *)
FollowedJump(i, a) ==
  IF i.rd = "zero" THEN << >> ELSE <<W("liRd", a, a + 1), Cont, Cont>>

(* In line, atomics are copied without any adjustment.                     *)
TraceInLine(i, a) ==
  IF i.op = "AMO" THEN <<W("guest", a, 0)>> ELSE InLine(i, a)

-----------------------------------------------------------------------------
(* The allocator: allocateTrace around allocateTraceBlock.                 *)

(* Mutant: only the POST routines for all instructions end a segment.      *)
TraceSegmentsAfterPost(i) == tool.instPost

(* A routine has to run between i and the next instruction.                *)
TraceSegmentsAfter(i) ==
  \/ tool.instPre \/ tool.instPost
  \/ IF i.op \in MemoryOp THEN "MEM_ACCESS" \in tool.typedPost
                          ELSE getType(i.op) \in tool.typedPost

(* railBB.startInst is read before the cursor moves, at cursor.            *)
TraceBegin(cursor, a, count) ==
  /\ program_counter' = a
  /\ setCurrentBB(a)
  /\ memory' = memory \o RestoreScratch
  /\ trace' = [busy |-> TRUE,
               railBB |-> [ZeroBlock EXCEPT !.firstAddr = a,
                                            !.basicBlockAddress = a,
                                            !.startInst = Fetch(cursor),
                                            !.startLocationInCache = EndOf(memory)],
               count |-> count - 1]
  /\ UNCHANGED <<text, tool, RailBasicBlocks, alloc, exits>>

ExitsWith(a, e) == [x \in DOMAIN exits \cup {a} |-> IF x = a THEN e ELSE exits[x]]

FollowedWith(n, a) ==
  [x \in DOMAIN followed \cup {n} |->
     IF x # n THEN followed[x]
     ELSE IF n \in DOMAIN followed THEN Append(followed[n], a) ELSE <<a>>]

(* The trace is complete.  The cursor stays at its last instruction.       *)
TraceEnd(type, words) ==
  /\ memory' = memory \o words
  /\ RailBasicBlocks' =
       InsertedBB(RailBasicBlocks,
                  [trace.railBB EXCEPT !.type = type,
                                       !.lastAddr = program_counter,
                                       !.terminalInst = Fetch(program_counter),
                                       !.endLocationInCache = EndOf(memory \o words)])
  /\ trace' = IdleTrace
  /\ UNCHANGED <<program_counter, followed>>

TraceGoesOn(next, words) ==
  /\ memory' = memory \o words
  /\ program_counter' = next
  /\ UNCHANGED RailBasicBlocks

(* Mutant: an exit is known by where control goes.                         *)
TraceExitsByTarget(i, type, words) ==
  /\ exits' = ExitsWith(program_counter + i.imm, ExitWord(i, memory))
  /\ TraceEnd(type, words)

(* ... with an exit.                                                       *)
TraceExits(i, type, words) ==
  /\ exits' = ExitsWith(program_counter, ExitWord(i, memory))
  /\ TraceEnd(type, words)

TraceAt(ops) == trace.busy /\ Fetch(program_counter).op \in ops

TraceBranch ==
  /\ TraceAt({"BRANCH"})
  /\ TraceExits(Fetch(program_counter), "DIRECT_BRANCH", TraceBranchExit(program_counter))

(* A jump is followed while blocks may be joined (and does not lead to     *)
(* address 0, which would end the trace).                                  *)
TraceJump ==
  LET i == Fetch(program_counter)
  IN  /\ TraceAt({"JAL"}) /\ trace.count > 0
      /\ TraceGoesOn(program_counter + i.imm, FollowedJump(i, program_counter))
      /\ trace' = [trace EXCEPT !.count = @ - 1, !.railBB.type = "DIRECT_BRANCH"]
      /\ followed' = IF i.rd = "zero"
                     THEN FollowedWith(EndOf(memory), program_counter) ELSE followed
      /\ UNCHANGED exits

TraceLastJump ==
  /\ TraceAt({"JAL"}) /\ trace.count = 0
  /\ TraceExits(Fetch(program_counter), "DIRECT_BRANCH",
                TraceExit(program_counter, ContextSwitchTraceExitTaken))

TraceJalr ==
  /\ TraceAt({"JALR"})
  /\ TraceExits(Fetch(program_counter), "INDIRECT_BRANCH",
                TraceExit(program_counter, ContextSwitchTraceExitTaken))

TraceSystem ==
  /\ TraceAt({"SYSTEM"})
  /\ TraceExits(Fetch(program_counter), "SYSCALL",
                TraceExit(program_counter, ContextSwitchTraceExit)
                  \o Ecall(program_counter))

(* The exit of a segment does not say what it is the exit of.              *)
TraceInstruction ==
  LET i == Fetch(program_counter)
  IN  /\ TraceAt(Opcode \ ControlOp)
      /\ UNCHANGED exits
      /\ IF TraceSegmentsAfter(i)
         THEN TraceEnd("SEGMENTED", TraceInLine(i, program_counter)
                                      \o SwitchTo(ContextSwitchTaken))
         ELSE /\ TraceGoesOn(program_counter + 1, TraceInLine(i, program_counter))
              /\ UNCHANGED <<trace, followed>>

(* The text ends inside the trace: it is inserted all the same, without an *)
(* exit, and unless a jump was followed with a type nobody has set.        *)
TraceTextEnd ==
  /\ TraceAt({"none"})
  /\ UNCHANGED exits
  /\ IF trace.railBB.type = "UNSET"
     THEN \E type \in BlockType : TraceEnd(type, << >>)
     ELSE TraceEnd(trace.railBB.type, << >>)

TraceStep == \/ TraceBranch \/ TraceJump   \/ TraceLastJump    \/ TraceJalr
             \/ TraceSystem \/ TraceInstruction \/ TraceTextEnd

AllocateTraceStep ==
  /\ status = "running"
  /\ TraceStep
  /\ status' = IF Len(memory') > CacheSize THEN "crashed" ELSE status
  /\ UNCHANGED <<text, tool, currentBB, alloc, phase, ip, regs, slot, taken, frame,
                 edges, served, history, lastInst, lastInstAddress, sp, passed, linked>>

-----------------------------------------------------------------------------
(* The processor.  What the words of module CacheWords do is unchanged.    *)

(* The jumps followed just before the word at ip have retired.             *)
Arrived == passed = IF ip \in DOMAIN followed THEN Len(followed[ip]) ELSE 0

Moves == Arrived /\ passed' = 0 /\ UNCHANGED followed

RunOldWord ==
  /\ RunRestoreScratch \/ RunLi \/ RunGuestWord \/ RunEcall \/ RunJumpInCache
  /\ Moves
  /\ UNCHANGED <<traceVars, sp, linked>>

RunOldCrash ==
  /\ RunCrash
  /\ ~(At("jalrT6") /\ regs.t6 \in TraceEntry)
  /\ Moves
  /\ UNCHANGED <<traceVars, sp, linked>>

RunSave ==
  /\ RunInlineSave
  /\ sp' = sp - 16
  /\ Moves
  /\ UNCHANGED <<traceVars, linked>>

(* The four old routines; all but init_switch pop what inline_save pushed. *)
RunOldSwitch ==
  /\ RunSwitch
  /\ lastInstAddress' = 0
  /\ sp' = IF regs.t6 = InitSwitch THEN sp ELSE sp + 16
  /\ linked' = FALSE
  /\ Moves
  /\ UNCHANGED <<exits, trace, lastInst>>

(* context_switch_trace_exit and its twin: they pass on the stack word.    *)
RunTraceSwitch ==
  /\ At("jalrT6") /\ regs.t6 \in TraceEntry
  /\ phase' = "stub"
  /\ taken' = (regs.t6 = ContextSwitchTraceExitTaken)
  /\ lastInstAddress' = lastInst
  /\ regs' = [regs EXCEPT !.t6 = slot]
  /\ sp' = sp + 16
  /\ linked' = FALSE
  /\ Moves
  /\ UNCHANGED <<cacheVars, ip, slot, frame, edges, served, status, history,
                 exits, trace, lastInst>>

RunTraceLi ==
  /\ At("lui") \/ At("addi") \/ At("addiEnd")
  /\ regs' = [regs EXCEPT !.t6 = IF word.k = "addiEnd" THEN word.v ELSE Unfinished]
  /\ ip' = ip + 1
  /\ Moves
  /\ UNCHANGED <<cacheVars, phase, slot, taken, frame, edges, served, status, history,
                 traceVars, sp, linked>>

RunSdPc ==
  /\ At("sdPc")
  /\ lastInst' = regs.t6
  /\ ip' = ip + 1
  /\ Moves
  /\ UNCHANGED <<cacheVars, phase, regs, slot, taken, frame, edges, served, status,
                 history, exits, trace, lastInstAddress, sp, linked>>

RunTraceBranch ==
  /\ At("traceBranch")
  /\ ip' = IF BranchTaken(text[word.a], regs) THEN ip + TraceBranchSkip ELSE ip + 1
  /\ Moves
  /\ UNCHANGED <<cacheVars, phase, regs, slot, taken, frame, edges, served, status,
                 history, traceVars, sp, linked>>

(* The first word of a link undoes inline_save, its store excepted.        *)
RunPopSp ==
  /\ At("popSp")
  /\ sp' = sp + 16
  /\ t6Saved' = FALSE
  /\ ip' = ip + 1
  /\ Moves
  /\ UNCHANGED <<cacheVars, phase, regs, slot, taken, frame, edges, served, status,
                 gpc, leader, preCalls, postCalls, retired, bbState, traceVars, linked>>

(* A branch or jump retires without stub: what the routines observe.       *)
RetireTransfer(a, next) ==
  /\ gpc' = next
  /\ leader' = next
  /\ retired' = Retirement(a, preCalls)
  /\ preCalls' = << >>
  /\ postCalls' = << >>
  /\ bbState' = BBStep(bbState, "transfer")

(* Its second word leads behind the restore_scratch of the next trace.     *)
RunLink ==
  /\ At("jal")
  /\ ip' = word.v
  /\ RetireTransfer(word.a, Target(text[word.a], word.a, regs))
  /\ linked' = TRUE
  /\ Moves
  /\ UNCHANGED <<cacheVars, phase, regs, slot, taken, frame, edges, served, status,
                 t6Saved, traceVars, sp>>

(* The link of a jump that was followed.                                   *)
RunLiRd ==
  /\ At("liRd")
  /\ regs' = Execute(text[word.a], word.a, regs)
  /\ ip' = ip + 3
  /\ RetireTransfer(word.a, Target(text[word.a], word.a, regs))
  /\ Moves
  /\ UNCHANGED <<cacheVars, phase, slot, taken, frame, edges, served, status, t6Saved,
                 traceVars, sp, linked>>

(* A jump that was followed and left no word.                              *)
RunFollowed ==
  /\ status = "running" /\ phase = "run" /\ ~Arrived
  /\ LET a == followed[ip][passed + 1]
     IN  RetireTransfer(a, Target(text[a], a, regs))
  /\ passed' = passed + 1
  /\ UNCHANGED <<cacheVars, phase, ip, regs, slot, taken, frame, edges, served, status,
                 t6Saved, traceVars, sp, followed, linked>>

RunTraceStep == \/ RunOldWord     \/ RunOldCrash \/ RunSave  \/ RunOldSwitch
                \/ RunTraceSwitch \/ RunTraceLi  \/ RunSdPc  \/ RunTraceBranch
                \/ RunPopSp       \/ RunLink     \/ RunLiRd  \/ RunFollowed

-----------------------------------------------------------------------------
(* The dispatcher.                                                         *)

NoTraceStep == UNCHANGED <<lastInst, sp, followed, passed>>

TraceInit_Allocate ==
  /\ status = "running" /\ phase = "init"
  /\ TraceBegin(program_counter, program_counter, 1)
  /\ frame' = [EmptyFrame EXCEPT !.nextBlockAddr = program_counter]
  /\ phase' = "initWait"
  /\ NoTraceStep
  /\ UNCHANGED <<ip, regs, slot, taken, edges, served, status, history,
                 lastInstAddress, linked>>

TraceInit_Enter ==
  /\ Init_Enter /\ ~trace.busy
  /\ NoTraceStep
  /\ UNCHANGED <<exits, trace, lastInstAddress, linked>>

(* Where stub takes the last instruction from: the exit that reported      *)
(* itself, or else the block it was last told of.                          *)
Reported == lastInstAddress # 0 /\ lastInstAddress \in DOMAIN exits

LastAddr == IF Reported THEN lastInstAddress ELSE Lookup(currentBB).lastAddr
LastInst == IF Reported THEN Fetch(lastInstAddress) ELSE Lookup(currentBB).terminalInst
ExitType == IF Reported THEN NextInstType(LastInst.op) ELSE Lookup(currentBB).type

(* Where that leaves the reader's cursor.                                  *)
Cursor == IF Reported THEN lastInstAddress ELSE program_counter

(* The edge and the next trace.                                            *)
TraceLeaveFor(next, execLast) ==
  /\ edges' = edges \cup {<<Lookup(currentBB).basicBlockAddress, next>>}
  /\ frame' = [currentBasicBlock |-> Lookup(currentBB), nextBlockAddr |-> next,
               shouldNotExecLast |-> ~execLast]
  /\ IF next \in DOMAIN RailBasicBlocks
     THEN /\ program_counter' = Cursor
          /\ UNCHANGED <<text, tool, memory, RailBasicBlocks, currentBB, alloc, exits, trace>>
     ELSE TraceBegin(Cursor, next, TraceBlocks)
  /\ phase' = "stubWait"
  /\ NoTraceStep
  /\ UNCHANGED <<ip, taken, status, t6Saved, lastInstAddress, linked>>

TraceStub_Transfer ==
  LET next == NextBlockAddr(LastInst, LastAddr)
  IN  /\ InStub /\ ExitType \in {"DIRECT_BRANCH", "INDIRECT_BRANCH"}
      /\ regs' = LinkedFrame(LastInst, LastAddr)
      /\ slot' = LinkedFrame(LastInst, LastAddr).t6
      /\ gpc' = next
      /\ leader' = next
      /\ retired' = Retirement(LastAddr, preCalls)
      /\ preCalls' = << >>
      /\ postCalls' = Times(NumPostCalls(LastInst), LastAddr)
      /\ bbState' = BBPost(BBStep(bbState, "transfer"), Lookup(currentBB))
      /\ TraceLeaveFor(next, FALSE)
      /\ UNCHANGED served

TraceStub_Segment ==
  /\ InStub /\ ExitType = "SEGMENTED"
  /\ postCalls' = postCalls \o Times(NumPostCalls(LastInst), LastAddr)
  /\ TraceLeaveFor(LastAddr + 1, FALSE)
  /\ UNCHANGED <<regs, slot, served, gpc, leader, preCalls, retired, bbState>>

TraceStub_Emulate ==
  /\ InStub /\ ExitType = "SYSCALL" /\ LastInst.sys = "emulated"
  /\ served' = LastAddr
  /\ gpc' = LastAddr + 1
  /\ leader' = LastAddr + 1
  /\ retired' =
       Retirement(LastAddr, preCalls \o Times(NumSystemCalls(tool.typedPre), LastAddr))
  /\ preCalls' = << >>
  /\ postCalls' =
       Times(NumSystemCalls(tool.typedPost) + NumPostCalls(LastInst), LastAddr)
  /\ bbState' = BBPost(BBStep(bbState, "transfer"), Lookup(currentBB))
  /\ TraceLeaveFor(LastAddr + 1, FALSE)
  /\ UNCHANGED <<regs, slot>>

TraceStub_Forward ==
  /\ InStub /\ ExitType = "SYSCALL" /\ LastInst.sys = "forwarded"
  /\ preCalls' = preCalls \o Times(NumSystemCalls(tool.typedPre), LastAddr)
  /\ postCalls' =
       postCalls \o Times(NumSystemCalls(tool.typedPost) + NumPostCalls(LastInst), LastAddr)
  /\ bbState' = BBPost(bbState, Lookup(currentBB))
  /\ TraceLeaveFor(LastAddr + 1, TRUE)
  /\ UNCHANGED <<regs, slot, served, gpc, leader, retired>>

TraceStub_Exit ==
  /\ InStub /\ ExitType = "SYSCALL" /\ LastInst.sys = "exit"
  /\ preCalls' = preCalls \o Times(NumSystemCalls(tool.typedPre), LastAddr)
  /\ edges' = edges \cup {<<Lookup(currentBB).basicBlockAddress, EndNode>>}
  /\ program_counter' = Cursor
  /\ status' = "exited"
  /\ NoTraceStep
  /\ UNCHANGED <<text, tool, memory, RailBasicBlocks, currentBB, alloc, phase, ip, regs,
                 slot, taken, frame, served, gpc, t6Saved, leader, postCalls, retired,
                 bbState, exits, trace, lastInstAddress, linked>>

(* The offsets into an exit of the two words to overwrite: behind a        *)
(* branch's word, or where its taken side begins.  Mutants: off by one;    *)
(* sides swapped.                                                          *)
LinkOffsetLate == IF taken THEN 10 ELSE 2
LinkOffsetSwapped == IF taken THEN 1 ELSE 9
LinkOffset == IF taken THEN 9 ELSE 1

(* Mutant: a link enters the next trace at its first word.                 *)
LinkTargetFirst(next) == next.startLocationInCache
LinkTarget(next) == next.startLocationInCache + 1

(* Mutant: the stack pointer is not put back.                              *)
LinkWordsNoPop(a, next) == <<W("addi", 0, 0), W("jal", a, LinkTarget(next))>>
LinkWords(a, next) == <<W("popSp", 0, 0), W("jal", a, LinkTarget(next))>>

(* The exit control came from now leads to the next trace.                 *)
LinkedMemory(next) ==
  IF Reported /\ ExitType = "DIRECT_BRANCH"
  THEN LET first == exits[lastInstAddress] + LinkOffset
       IN  [memory EXCEPT ![first]     = LinkWords(lastInstAddress, next)[1],
                          ![first + 1] = LinkWords(lastInstAddress, next)[2]]
  ELSE memory

(* stub's second half.                                                     *)
TraceStub_Enter ==
  LET key  == frame.nextBlockAddr
      next == Lookup(key)
  IN  /\ status = "running" /\ phase = "stubWait" /\ ~trace.busy
      /\ next.firstAddr # 0
      /\ memory' = LinkedMemory(next)
      /\ AdoptSegment(key, next)
      /\ setCurrentBB(next.firstAddr)
      /\ preCalls' = preCalls \o Times(One(tool.instPre), next.firstAddr)
      /\ bbState' = IF tool.bbPre /\ next.type # "SEGMENTED"
                    THEN BBStep(bbState, "pre") ELSE bbState
      /\ EnterCacheAt(ReturnVal(next), regs)
      /\ frame' = EmptyFrame
      /\ NoTraceStep
      /\ UNCHANGED <<text, tool, program_counter, alloc, slot, taken, edges, served, status,
                     gpc, t6Saved, leader, postCalls, retired,
                     exits, trace, lastInstAddress, linked>>

(* Address 0 is no block, though it has got a trace: it ends the process   *)
(* as before.                                                              *)
TraceStub_GiveUp ==
  /\ status = "running" /\ phase = "stubWait" /\ ~trace.busy
  /\ Lookup(frame.nextBlockAddr).firstAddr = 0
  /\ memory' = LinkedMemory(Lookup(frame.nextBlockAddr))
  /\ edges' = edges \cup {<<Lookup(currentBB).basicBlockAddress, EndNode>>}
  /\ status' = "faulted"
  /\ NoTraceStep
  /\ UNCHANGED <<text, tool, program_counter, RailBasicBlocks, currentBB, alloc, phase,
                 ip, regs, slot, taken, frame, served, history,
                 exits, trace, lastInstAddress, linked>>

TraceHostStep == \/ TraceInit_Allocate \/ TraceInit_Enter   \/ TraceStub_Transfer
                 \/ TraceStub_Segment  \/ TraceStub_Emulate \/ TraceStub_Forward
                 \/ TraceStub_Exit     \/ TraceStub_Enter   \/ TraceStub_GiveUp

-----------------------------------------------------------------------------

TraceHalted == Halted /\ UNCHANGED <<traceVars, sp, traceHistory>>

TraceInit ==
  /\ Init
  /\ exits = [a \in {} |-> 0]
  /\ trace = IdleTrace
  /\ sp = 0
  /\ lastInst = 0
  /\ lastInstAddress = 0
  /\ followed = [n \in {} |-> << >>]
  /\ passed = 0
  /\ linked = FALSE

TraceNext == RunTraceStep \/ TraceHostStep \/ AllocateTraceStep \/ TraceHalted

TraceSpec == TraceInit /\ [][TraceNext]_allVars

(* The process is one thread that the host keeps running.                  *)
FairTraceSpec == TraceSpec /\ WF_allVars(TraceNext)
=============================================================================
