------------------------ MODULE DispatcherInvariants ------------------------
(***************************************************************************)
(* What every state of the engine has that its properties follow from: how *)
(* the allocator lays blocks out in the cache, and where control, the      *)
(* guest's position and its T6 are between any two steps.                  *)
(***************************************************************************)
EXTENDS DispatcherProperties

-----------------------------------------------------------------------------
(* The layout of the cache.                                                *)

(* The words ws stand in the memory m from index i on.                     *)
Holds(m, i, ws) ==
  /\ i \in 1..Len(m) /\ i + Len(ws) - 1 \in 1..Len(m)
  /\ \A k \in 1..Len(ws) : m[i + k - 1] = ws[k]

(* What the straight-line instruction at a becomes.                        *)
Copy(a) == InLine(Fetch(a), a)

(* The words of m from i to j - 1 are the copies of the instructions from  *)
(* a to c - 1, in order, each once and one behind the other.               *)
LaidOut(m, i, a, c, j) ==
  /\ \A k \in i..(j - 1) : m[k].a = 0 => m[k] = Cont
  /\ \A k \in i..(j - 1) : m[k].a # 0 =>
       LET x == m[k].a
           n == k + Len(Copy(x))
       IN  /\ x \in a..(c - 1) /\ m[k] = Copy(x)[1]
           /\ \/ n = j /\ x + 1 = c
              \/ n < j /\ m[n].a = x + 1
  /\ \A x \in a..(c - 1) : \E k \in i..(j - 1) : m[k].a = x
  /\ \A k, l \in i..(j - 1) : m[k].a # 0 /\ m[l].a # 0 /\ k < l => m[k].a < m[l].a
  /\ IF a = c THEN i = j ELSE i < j /\ m[i].a = a

EndsInBranch(b)  == b.terminalInst.op = "BRANCH"
EndsInControl(b) == b.terminalInst.op \in ControlOp

(* A block's exit, the guest address it is reached at, and its words.      *)
ExitStart(b) == b.endLocationInCache - (IF EndsInBranch(b) THEN 11 ELSE 6)
ExitAddr(b)  == b.lastAddr + One(~EndsInControl(b))

(* allocateBB's blocks: T6 back, the instructions, the way out; and behind *)
(* a block that ends in an ECALL that ECALL.                               *)
PlainLayout(m, b) ==
  /\ b.startLocationInCache \in 1..Len(m)
  /\ m[b.startLocationInCache] = RestoreScratch[1]
  /\ b.startLocationInCache < ExitStart(b)
  /\ LaidOut(m, b.startLocationInCache + 1, b.firstAddr, ExitAddr(b), ExitStart(b))
  /\ IF EndsInBranch(b)
     THEN Holds(m, ExitStart(b), BranchExit(b.lastAddr))
     ELSE \E h \in {ContextSwitch, ContextSwitchTaken} : Holds(m, ExitStart(b), SwitchTo(h))
  /\ b.type = "SYSCALL" => Holds(m, b.endLocationInCache, Ecall(b.lastAddr))

(* Blocks of pre-instrumented instructions: the way to instrument, the     *)
(* instruction, the way out.                                               *)
PreInstWords(b) ==
  SwitchTo(ContextSwitchInstrument) \o NextInstWords(b.terminalInst, b.lastAddr)

PreInstLayout(m, b) ==
  /\ NeedsPreBlock(b.terminalInst)
  /\ b.firstAddr = b.lastAddr
  /\ b.endLocationInCache = b.startLocationInCache + Len(PreInstWords(b))
  /\ Holds(m, b.startLocationInCache, PreInstWords(b))

AllLaidOut(m, blocks) ==
  \A a \in DOMAIN blocks : PlainLayout(m, blocks[a]) \/ PreInstLayout(m, blocks[a])

BlocksLaidOut == AllLaidOut(memory, RailBasicBlocks)

(* The block allocateBB is at, as far as it has got.                       *)
AllocLaidOut ==
  alloc.busy =>
    LET s == alloc.railBB.startLocationInCache
    IN  /\ s \in 1..Len(memory)
        /\ memory[s] = RestoreScratch[1]
        /\ LaidOut(memory, s + 1, alloc.railBB.firstAddr, program_counter, Len(memory) + 1)

LayoutOK == BlocksLaidOut /\ AllocLaidOut

-----------------------------------------------------------------------------
(* What the engine must be given to work, by dispatcher.cpp and            *)
(* code_cache.cpp as they are.                                             *)

TextRange == 1..(Len(text) - 1)

(* No ECALL has a typed PRE routine: it would become the jump to a stub    *)
(* region of code_cache.cpp:876, which leads nowhere.                      *)
NoPreRoutineForEcalls ==
  "I" \in tool.typedPre => \A a \in TextRange : text[a].op # "SYSTEM"

(* The readable text consists of instructions and does not end in          *)
(* straight-line code, which allocateBB would not insert.                  *)
TextCloses ==
  /\ \A a \in TextRange : text[a].op # "none"
  /\ Len(text) - 1 \in TextRange /\ text[Len(text) - 1].op \in ControlOp

(* No ECALL is left to the host or has a typed PRE routine, and no access  *)
(* through T6 has one: its exit would jump through T6 although the address *)
(* is in T5 (code_cache.cpp:856).                                          *)
Tracked ==
  /\ TextCloses
  /\ \A a \in TextRange :
       /\ text[a].sys # "forwarded"
       /\ NeedsPreBlock(text[a]) =>
            text[a].op # "SYSTEM" /\ ~(text[a].op \in MemoryOp /\ text[a].rs1 = "t6")

(* No typed PRE routine is registered, which would not preserve T6.        *)
KeepsT6 == tool.typedPre = {}

(* No access leaves its result in a T6 that serves as scratch.             *)
Supported ==
  /\ Tracked
  /\ KeepsT6
  /\ \A a \in TextRange :
       text[a].op \in MemoryOp \cup {"AMO"} /\ WritesRd(text[a]) =>
         ~LostToScratch(text[a])

LeavesT6Alone == \A a \in TextRange : text[a].rd # "t6" /\ text[a].rs1 # "t6"

-----------------------------------------------------------------------------
(* Control, the guest's position and its T6.                               *)

(* The guest's T6 is in slot.                                              *)
Parked6 == t6Saved /\ regs.t6 = slot

AtRoot ==
  /\ currentBB = 0 /\ gpc = 1 /\ program_counter = 1 /\ ~alloc.busy
  /\ \/ phase = "run" /\ ip = 1
     \/ phase = "run" /\ ip = 4 /\ regs.t6 = InitSwitch
     \/ phase = "init" /\ regs.t6 = slot
  /\ t6Saved
  /\ Holds(memory, 1, Li(InitSwitch) \o JalrT6)

(* The host waits for the block at gpc.                                    *)
AtWait ==
  /\ phase \in {"initWait", "stubWait"}
  /\ Parked6
  /\ frame.nextBlockAddr = gpc /\ frame.shouldNotExecLast
  /\ phase = "initWait" => gpc \in TextRange /\ currentBB = gpc
  /\ IF alloc.busy
     THEN /\ alloc.railBB.firstAddr = gpc
          /\ currentBB = gpc
          /\ gpc \in TextRange => program_counter \in TextRange
     ELSE gpc \in DOMAIN RailBasicBlocks \/ gpc \notin TextRange

(* The rest are states of a guest in the block b.                          *)
AtStub(b) ==
  /\ phase = "stub"
  /\ Parked6
  /\ gpc = ExitAddr(b)
  /\ EndsInBranch(b) => (taken <=> BranchTaken(b.terminalInst, regs))

AtRestore(b) ==
  /\ PlainLayout(memory, b)
  /\ ip = b.startLocationInCache /\ t6Saved /\ gpc = b.firstAddr

(* A pre-instrumented block leads to instrument first.                     *)
AtEntry(b) ==
  /\ PreInstLayout(memory, b)
  /\ t6Saved /\ gpc = b.firstAddr
  /\ \/ ip = b.startLocationInCache
     \/ ip = b.startLocationInCache + 2
     \/ ip = b.startLocationInCache + 5 /\ regs.t6 = ContextSwitchInstrument

AtInstrument(b) ==
  phase = "instrument" /\ PreInstLayout(memory, b) /\ Parked6 /\ gpc = b.firstAddr

AtCopy(b) ==
  /\ ip \in b.startLocationInCache + 1 .. ExitStart(b) - 1
  /\ KeepsT6 => ~t6Saved
  /\ memory[ip].a = gpc /\ gpc # 0

(* The words of an exit that are executed on their own.                    *)
AtSave(b) ==
  ip = ExitStart(b) /\ (KeepsT6 => ~t6Saved) /\ gpc = ExitAddr(b)

AtSwitch(b) ==
  /\ ~EndsInBranch(b) /\ t6Saved /\ gpc = ExitAddr(b)
  /\ \/ ip = ExitStart(b) + 2
     \/ ip = ExitStart(b) + 5 /\ regs.t6 = memory[ExitStart(b) + 2].v

AtBranch(b) ==
  EndsInBranch(b) /\ Parked6 /\ gpc = ExitAddr(b) /\ ip = ExitStart(b) + 2

AtBranchExit(b) ==
  /\ EndsInBranch(b) /\ t6Saved /\ gpc = ExitAddr(b)
  /\ \/ /\ ~BranchTaken(b.terminalInst, ArchRegs)
        /\ \/ ip = ExitStart(b) + 3
           \/ ip = ExitStart(b) + 6 /\ regs.t6 = ContextSwitch
     \/ /\ BranchTaken(b.terminalInst, ArchRegs)
        /\ \/ ip = ExitStart(b) + 7
           \/ ip = ExitStart(b) + 10 /\ regs.t6 = ContextSwitchTaken

InBlock(b) ==
  \/ AtStub(b)
  \/ AtInstrument(b)
  \/ /\ phase = "run"
     /\ \/ AtRestore(b) \/ AtEntry(b)  \/ AtCopy(b) \/ AtSave(b)
        \/ AtSwitch(b)  \/ AtBranch(b) \/ AtBranchExit(b)

(* The guest is in the block that currentBB names.                         *)
AtBlock ==
  /\ ~alloc.busy
  /\ currentBB \in DOMAIN RailBasicBlocks
  /\ InBlock(RailBasicBlocks[currentBB])

ControlInv == Tracked => AtRoot \/ AtWait \/ AtBlock

(* The one way to crash is to fill the cache.                              *)
CrashIsOverflow == status = "crashed" => Len(memory) > CacheSize

-----------------------------------------------------------------------------
(* The calls of routines.                                                  *)

NoInstRoutines ==
  ~tool.instPre /\ ~tool.instPost /\ tool.typedPre = {} /\ tool.typedPost = {}

(* Atomics never end a block (code_cache.cpp:468): there are none, or no   *)
(* routine that would need one to.                                         *)
AtomicsUntouched ==
  \/ \A a \in TextRange : text[a].op # "AMO"
  \/ /\ ~tool.instPre /\ ~tool.instPost /\ "AMO" \notin tool.typedPre
     /\ tool.typedPost \cap {"R", "AMO"} = {}

(* Routines for instructions split basic blocks, and those for basic       *)
(* blocks then run at some of the pieces (dispatcher.cpp:269).             *)
RoutinesApart == tool.bbPre /\ tool.bbPost => NoInstRoutines

(* No block goes on behind an instruction a routine wants to follow, or    *)
(* reaches one it wants to precede, unless through instrument.             *)
WellCut(m, b) ==
  /\ \A x \in b.firstAddr..(b.lastAddr - 1) : ~SegmentsAfter(Fetch(x))
  /\ m[b.startLocationInCache].k = "restore" =>
       \A x \in b.firstAddr..b.lastAddr : ~NeedsPreBlock(Fetch(x))

(* Without routines for instructions no basic block is in pieces.          *)
Whole(b) == b.type # "SEGMENTED" /\ b.basicBlockAddress = b.firstAddr

AllWellCut(m, blocks) ==
  \A a \in DOMAIN blocks :
    /\ WellCut(m, blocks[a])
    /\ NoInstRoutines => Whole(blocks[a])

AllocWellCut ==
  alloc.busy =>
    /\ \A x \in alloc.railBB.firstAddr..(program_counter - 1) :
         ~SegmentsAfter(Fetch(x)) /\ ~NeedsPreBlock(Fetch(x))
    /\ alloc.railBB.basicBlockAddress = alloc.railBB.firstAddr

CutInv == AtomicsUntouched => AllWellCut(memory, RailBasicBlocks) /\ AllocWellCut

(* The guest is in a block: Here.                                          *)
Inside == phase \in {"run", "stub", "instrument"} /\ currentBB # 0
Here   == Lookup(currentBB)

(* It has yet to come through instrument, if its block leads there.        *)
Entering ==
  \/ phase = "instrument"
  \/ phase = "run" /\ ip < Here.startLocationInCache + InstrumentSkip

(* PRE routines have been called for the instruction a block begins with,  *)
(* and for no other since the last one retired.                            *)
PreCalled ==
  preCalls =
    IF Inside /\ gpc = Here.firstAddr
    THEN Times(One(tool.instPre)
                 + (IF Entering THEN 0 ELSE NumTypedPreCalls(text[gpc])), gpc)
    ELSE << >>

(* POST routines have been called for the last instruction retired, unless *)
(* the guest is still in its block.                                        *)
PostCalled ==
  IF Inside /\ gpc # Here.firstAddr
  THEN retired.addr = gpc - 1 /\ postCalls = << >>
  ELSE retired.addr # 0 =>
         postCalls = Wanted(tool.instPost, tool.typedPost, retired.addr)

BBCalled ==
  IF Inside /\ tool.bbPre /\ tool.bbPost
  THEN bbState \in {"entered", "inside"}
  ELSE bbState = "fresh"

LeaderKnown == leader = IF Inside THEN Here.firstAddr ELSE gpc

InstCalls ==
  /\ status = "running" => PreCalled
  /\ PostCalled
  /\ PreRoutinesRun
  /\ PostRoutinesRun

CallsInv ==
  Tracked =>
    /\ AtomicsUntouched => InstCalls
    /\ RoutinesApart => BBCalled
    /\ NoInstRoutines => LeaderKnown
=============================================================================
