------------------------ MODULE DispatcherProperties ------------------------
(***************************************************************************)
(* What the engine of module Dispatcher must do.                           *)
(***************************************************************************)
EXTENDS Dispatcher, FiniteSets

-----------------------------------------------------------------------------
(* Types.                                                                  *)

CacheTypeOK ==
  /\ text \in Seq(Inst)
  /\ tool \in Registration
  /\ program_counter \in Int
  /\ memory \in Seq(Word)
  /\ DOMAIN RailBasicBlocks \subseteq Int
  /\ RailBasicBlocks \in [DOMAIN RailBasicBlocks -> Block]
  /\ currentBB \in Int
  /\ alloc \in [busy : BOOLEAN, railBB : Block, allocatedPrev : Nat]

DispatcherTypeOK ==
  /\ phase \in Phase
  /\ ip \in Int
  /\ regs \in [Reg -> Int]
  /\ slot \in Int
  /\ taken \in BOOLEAN
  /\ frame \in [currentBasicBlock : Block, nextBlockAddr : Int,
                shouldNotExecLast : BOOLEAN]
  /\ edges \subseteq Int \X Int
  /\ served \in Int
  /\ status \in Status

HistoryTypeOK ==
  /\ gpc \in Int
  /\ t6Saved \in BOOLEAN
  /\ leader \in Int
  /\ preCalls \in Seq(Int)
  /\ postCalls \in Seq(Int)
  /\ retired \in [addr : Int, pre : Seq(Int), prev : Int, post : Seq(Int)]
  /\ bbState \in {"fresh", "entered", "inside", "leaving", "broken"}

(* Every variable has its type.                                            *)
TypeOK == CacheTypeOK /\ DispatcherTypeOK /\ HistoryTypeOK

-----------------------------------------------------------------------------
(* The metadata.                                                           *)

EndsBlock(type, op) ==
  CASE type = "DIRECT_BRANCH"   -> op \in {"BRANCH", "JAL"}
    [] type = "INDIRECT_BRANCH" -> op = "JALR"
    [] type = "SYSCALL"         -> op = "SYSTEM"
    [] type = "SEGMENTED"       -> op \notin ControlOp
    [] OTHER                    -> FALSE

(* The block cached for a guest address describes the text from there on:  *)
(* straight-line code up to lastAddr, whose instruction is terminalInst    *)
(* and fits the type.  stub computes every next address from these fields  *)
(* and never looks at the text again.                                      *)
DescribesText(a, b) ==
  /\ b.firstAddr = a
  /\ a <= b.lastAddr
  /\ b.startInst = Fetch(a)
  /\ b.terminalInst = Fetch(b.lastAddr)
  /\ EndsBlock(b.type, b.terminalInst.op)
  /\ \A x \in a..b.lastAddr : Fetch(x).op # "none"
  /\ \A x \in a..(b.lastAddr - 1) : Fetch(x).op \notin ControlOp

BlocksDescribeText ==
  \A a \in DOMAIN RailBasicBlocks : DescribesText(a, RailBasicBlocks[a])

(* Where, in a block's part of the cache, the guest's words are.           *)
GuestWordsOf(b) ==
  {k \in b.startLocationInCache..(b.endLocationInCache - 1) : memory[k].a # 0}

(* The cache holds, between a block's two locations, the instructions of   *)
(* its guest addresses in order and each once (a jump or system call, that *)
(* the dispatcher performs, excepted), and control can only leave it at    *)
(* its end, into the dispatcher.                                           *)
MirrorsBlock(b) ==
  LET mine == GuestWordsOf(b)
      last == b.lastAddr - One(b.terminalInst.op \in {"JAL", "JALR", "SYSTEM"})
  IN  /\ {memory[k].a : k \in mine} = b.firstAddr..last
      /\ \A k, l \in mine : k < l => memory[k].a < memory[l].a
      /\ memory[b.endLocationInCache - 1].k = "jalrT6"
      /\ b.type = "SYSCALL" =>
           memory[b.endLocationInCache] = W("ecall", b.lastAddr, 0)

CacheMirrorsBlocks ==
  \A a \in DOMAIN RailBasicBlocks : MirrorsBlock(RailBasicBlocks[a])

(* stub knows where the guest is only from currentBB: whenever the cache   *)
(* executes, the next word belongs to the block currentBB names, or is the *)
(* ECALL that stub left to run before that block.                          *)
CurrentBBOwnsIp ==
  status = "running" /\ phase = "run" /\ currentBB # 0 =>
    LET b == Lookup(currentBB)
    IN  \/ ip \in b.startLocationInCache..(b.endLocationInCache - 1)
        \/ ip = b.startLocationInCache - 1 /\ At("ecall")

-----------------------------------------------------------------------------
(* The guest's view.                                                       *)

(* No guest instruction runs while T6 holds one of the library's           *)
(* addresses; code_cache.cpp:66 states it of every routine in the cache.   *)
GuestSeesItsT6 ==
  /\ At("guest") \/ At("mem") \/ At("setpc") => ~t6Saved
  /\ At("branch") => regs.t6 = slot

ArchRegs == IF t6Saved THEN [regs EXCEPT !.t6 = slot] ELSE regs

(* The words of a text the allocator can read: all but the last.           *)
Readable(t) == SubSeq(t, 1, Len(t) - 1)

ReadableTexts == {Readable(s.text) : s \in Setups}

(* The bare machine the guest must seem to run on.                         *)
Native ==
  INSTANCE GuestMachine WITH
    Programs <- ReadableTexts,
    text     <- Readable(text),
    pc       <- gpc,
    regs     <- ArchRegs

(* Every behaviour of the engine is one of the bare machine: the same      *)
(* instructions retire in the same order with the same registers and       *)
(* system calls, and the process ends exactly when the guest does.         *)
ImplementsGuestMachine == Native!Spec

(* The same without T6, for guests that leave T6 alone: a typed PRE        *)
(* routine does not preserve it.                                           *)
NativeSansT6 ==
  INSTANCE GuestMachine WITH
    Programs <- ReadableTexts,
    text     <- Readable(text),
    pc       <- gpc,
    regs     <- [regs EXCEPT !.t6 = 0]

ImplementsGuestMachineSansT6 == NativeSansT6!Spec

(* The engine never stops making the guest progress, whatever mixture of   *)
(* cached blocks, allocations and routines lies between two instructions.  *)
GuestKeepsRunning == Native!Fairness

(* When stub leaves an ECALL to the host, what it returns to is that       *)
(* ECALL (dispatcher.cpp:300).                                             *)
ForwardedEcallRuns ==
  [][phase = "stubWait" /\ phase' = "run" /\ ~frame.shouldNotExecLast =>
       /\ ip' \in DOMAIN memory
       /\ memory[ip'] = W("ecall", frame.currentBasicBlock.lastAddr, 0)]_vars

(* The edge stub adds to the control-flow graph starts at the basic block  *)
(* the guest is in, as railBasicBlock.h:39 says of segments.  With         *)
(* routines for instructions the code does not keep to that.               *)
EdgesStartAtLeader ==
  /\ status = "running" /\ phase = "stub"
  /\ ~tool.instPre /\ ~tool.instPost /\ tool.typedPre = {} /\ tool.typedPost = {}
  => Lookup(currentBB).basicBlockAddress = leader

-----------------------------------------------------------------------------
(* The user's view.                                                        *)

Applicable(types, i) ==
  {t \in types : \/ t = getType(i.op)
                 \/ t = "MEM_ACCESS" /\ i.op \in MemoryOp
                 \/ t \in {"SYSTEM", "AMO"} /\ t = i.op}

Wanted(all, types, a) == Times(One(all) + Cardinality(Applicable(types, text[a])), a)

(* rail.h:119-133: an instruction's PRE routines are called once each,     *)
(* after the previous instruction and before this one.                     *)
PreRoutinesRun ==
  retired.addr # 0 => retired.pre = Wanted(tool.instPre, tool.typedPre, retired.addr)

(* ... and its POST routines once each, before the next one.               *)
PostRoutinesRun ==
  retired.prev # 0 => retired.post = Wanted(tool.instPost, tool.typedPost, retired.prev)

(* rail.h:109: a basic block's PRE routine runs before its first           *)
(* instruction and its POST routine after its last.                        *)
BBRoutinesBracket == bbState # "broken"
=============================================================================
