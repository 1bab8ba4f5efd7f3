----------------------------- MODULE CodeCache ------------------------------
(***************************************************************************)
(* The basic-block allocator: CodeCache::allocateRoot, allocateBB and      *)
(* allocateNextInst of the default build (no STUBREGIONS).  allocateBB's   *)
(* loop is one action per instruction it meets; the dispatcher starts it   *)
(* with AllocBegin and waits until it is idle again.                       *)
(***************************************************************************)
EXTENDS CacheWords

CONSTANT
  Setups         (* what a run tries: a text and the routines registered      *)

VARIABLES
  text,             (* ElfReader::textSection, fixed for a behaviour          *)
  tool,             (* Rail's routine vectors, fixed once the guest runs      *)
  program_counter,  (* ElfReader's cursor                                     *)
  memory,           (* the code cache; memoryIndex is its length              *)
  RailBasicBlocks,  (* guest address -> metadata of the block cached for it   *)
  currentBB,        (* guest address of the block control is in               *)
  alloc             (* allocateBB's activation: its railBB and allocatedPrev  *)

cacheVars == <<text, tool, program_counter, memory, RailBasicBlocks, currentBB, alloc>>

Registration == [instPre   : BOOLEAN,           \* addInstrumentInstAll, PRE
                 instPost  : BOOLEAN,
                 typedPre  : SUBSET InstType,   \* addInstrumentInstType, PRE
                 typedPost : SUBSET InstType,
                 bbPre     : BOOLEAN,           \* addInstrumentBBAll, PRE
                 bbPost    : BOOLEAN]

ASSUME SetupsAssumption ==
  \A s \in Setups : s.text \in Seq(Inst) /\ s.tool \in Registration

BlockType == {"INDIRECT_BRANCH", "DIRECT_BRANCH", "SYSCALL", "SEGMENTED", "UNSET"}

Block == [firstAddr : Int, lastAddr : Int,
          startLocationInCache : Nat, endLocationInCache : Nat,
          type : BlockType, startInst : Inst, terminalInst : Inst,
          basicBlockAddress : Int]

(* A value-initialised RailBasicBlock, what operator[] makes of a missing  *)
(* key.                                                                    *)
ZeroBlock == [firstAddr |-> 0, lastAddr |-> 0,
              startLocationInCache |-> 0, endLocationInCache |-> 0,
              type |-> "UNSET", startInst |-> NoInst, terminalInst |-> NoInst,
              basicBlockAddress |-> 0]

Idle == [busy |-> FALSE, railBB |-> ZeroBlock, allocatedPrev |-> 0]

(* ElfReader::getNextInstruction.  Its test stops one word early.          *)
Fetch(a) == IF a \in 1..(Len(text) - 1) THEN text[a] ELSE NoInst

preInstrumentationRoutines  == tool.instPre \/ tool.bbPre \/ tool.typedPre # {}
postInstrumentationRoutines == tool.instPost \/ tool.bbPost \/ tool.typedPost # {}

(* Mutant: memory accesses are matched by their type only.                 *)
NeedsPreBlockPlain(i) == preInstrumentationRoutines /\ getType(i.op) \in tool.typedPre

(* A typed PRE routine wants to see i: i gets a block of its own.          *)
NeedsPreBlock(i) ==
  /\ preInstrumentationRoutines
  /\ \/ getType(i.op) \in tool.typedPre
     \/ i.op \in MemoryOp /\ "MEM_ACCESS" \in tool.typedPre

(* The block ends after i so that a routine can run before the next        *)
(* instruction.                                                            *)
SegmentTypesPlain(op) == {getType(op)}   \* mutant: forgets memory accesses
SegmentTypes(op) == IF op \in MemoryOp THEN {"MEM_ACCESS", "I", "S"} ELSE {getType(op)}

(* Mutant: PRE routines do not split blocks.                               *)
SegmentsAfterPost(i) ==
  tool.instPost \/ tool.typedPost \cap SegmentTypes(i.op) # {}

SegmentsAfter(i) ==
  tool.instPre \/ tool.instPost \/ tool.typedPost \cap SegmentTypes(i.op) # {}

-----------------------------------------------------------------------------

InsertedBB(blocks, bb) ==
  [a \in DOMAIN blocks \cup {bb.firstAddr} |->
     IF a = bb.firstAddr THEN bb ELSE blocks[a]]

EndOfLast(words) == Len(words)   \* mutant: memoryIndex taken one word early
EndOf(words) == Len(words) + 1

(* Mutant: jumps get a type no part of the dispatcher knows.               *)
NextInstTypeCall(op) ==
  IF op \in {"JAL", "JALR", "BRANCH"} THEN "FUNCTION_CALL" ELSE "SEGMENTED"

NextInstType(op) ==
  CASE op \in {"BRANCH", "JAL"} -> "DIRECT_BRANCH"
    [] op = "JALR"              -> "INDIRECT_BRANCH"
    [] op = "SYSTEM"            -> "SYSCALL"
    [] OTHER                    -> "SEGMENTED"

(* Mutants: the block keeps its first address as its last; its type is     *)
(* never set.                                                              *)
ClosedAtStart(type, a, words) ==
  [alloc.railBB EXCEPT !.type = type,
                       !.lastAddr = alloc.railBB.firstAddr,
                       !.terminalInst = Fetch(a),
                       !.endLocationInCache = EndOf(words)]

ClosedUntyped(type, a, words) ==
  [alloc.railBB EXCEPT !.lastAddr = a,
                       !.terminalInst = Fetch(a),
                       !.endLocationInCache = EndOf(words)]

(* railBB, ended by the instruction at address a, its code complete.       *)
Closed(type, a, words) ==
  [alloc.railBB EXCEPT !.type = type,
                       !.lastAddr = a,
                       !.terminalInst = Fetch(a),
                       !.endLocationInCache = EndOf(words)]

(* The loop ends with the current instruction.                             *)
FinishWith(type, words) ==
  /\ memory' = memory \o words
  /\ RailBasicBlocks' =
       InsertedBB(RailBasicBlocks, Closed(type, program_counter, memory \o words))
  /\ alloc' = Idle
  /\ UNCHANGED program_counter

(* The loop goes on to the next instruction.                               *)
ContinueWith(words) ==
  /\ memory' = memory \o words
  /\ program_counter' = program_counter + 1
  /\ alloc' = [alloc EXCEPT !.allocatedPrev = @ + 1]
  /\ UNCHANGED RailBasicBlocks

-----------------------------------------------------------------------------
(* allocateRoot: the first words of the cache enter the host's init.       *)

CacheInit ==
  /\ \E s \in Setups : text = s.text /\ tool = s.tool
  /\ program_counter = 1
  /\ memory = Li(InitSwitch) \o JalrT6
  /\ RailBasicBlocks = [a \in {} |-> ZeroBlock]
  /\ currentBB = 0
  /\ alloc = Idle

(* Mutant: the block is set once and for all.                              *)
setCurrentBBOnce(a) == currentBB' = IF currentBB = 0 THEN a ELSE currentBB

setCurrentBB(a) == currentBB' = a

(* The part of allocateBB before its loop.                                 *)
AllocBegin(a) ==
  /\ program_counter' = a
  /\ setCurrentBB(a)
  /\ memory' = memory \o RestoreScratch
  /\ alloc' = [busy |-> TRUE,
               railBB |-> [ZeroBlock EXCEPT !.firstAddr = a,
                                            !.basicBlockAddress = a,
                                            !.startInst = Fetch(a),
                                            !.startLocationInCache = EndOf(memory)],
               allocatedPrev |-> 0]
  /\ UNCHANGED <<text, tool, RailBasicBlocks>>

(* The instruction the loop is at, when no typed PRE routine wants it.     *)
Regular(i) == alloc.busy /\ i.op # "none" /\ ~NeedsPreBlock(i)

(* Mutant: the jump to the instrument entry is not counted.                *)
PreInstBBShort(i, words) ==
  [firstAddr            |-> program_counter,
   lastAddr             |-> program_counter,
   startLocationInCache |-> EndOf(words),
   endLocationInCache   |-> EndOf(words) + Len(NextInstWords(i, program_counter)),
   type                 |-> NextInstType(i.op),
   startInst            |-> i,
   terminalInst         |-> i,
   basicBlockAddress    |-> alloc.railBB.basicBlockAddress]

(* The block of the instruction at the program counter, reached through    *)
(* the instrument entry.  words is the cache up to it.                     *)
PreInstBB(i, words) ==
  [firstAddr            |-> program_counter,
   lastAddr             |-> program_counter,
   startLocationInCache |-> EndOf(words),
   endLocationInCache   |-> EndOf(words) + InstrumentSkip
                              + Len(NextInstWords(i, program_counter)),
   type                 |-> NextInstType(i.op),
   startInst            |-> i,
   terminalInst         |-> i,
   basicBlockAddress    |-> alloc.railBB.basicBlockAddress]

(* The address of the last instruction laid out, where the cut block ends. *)
LastLaidOutHere == program_counter   \* mutant: the cursor is not moved back
LastLaidOut == program_counter - 1

(* What was laid out before it is closed as a segment, which may turn out  *)
(* to be all there is to do.                                               *)
AllocPreInst ==
  LET i      == Fetch(program_counter)
      cut    == alloc.allocatedPrev > 0
      words  == IF cut THEN memory \o SwitchTo(ContextSwitch) ELSE memory
      blocks == IF cut
                THEN InsertedBB(RailBasicBlocks,
                                Closed("SEGMENTED", LastLaidOut, words))
                ELSE RailBasicBlocks
  IN  /\ alloc.busy /\ i.op # "none" /\ NeedsPreBlock(i)
      /\ IF program_counter \in DOMAIN blocks
         THEN /\ memory' = words
              /\ RailBasicBlocks' = blocks
         ELSE /\ memory' = words \o SwitchTo(ContextSwitchInstrument)
                                 \o NextInstWords(i, program_counter)
              /\ RailBasicBlocks' = InsertedBB(blocks, PreInstBB(i, words))
      /\ alloc' = Idle
      /\ UNCHANGED <<text, tool, program_counter, currentBB>>

AllocBranch ==
  LET i == Fetch(program_counter)
  IN  /\ Regular(i) /\ i.op = "BRANCH"
      /\ FinishWith("DIRECT_BRANCH", BranchExit(program_counter))
      /\ UNCHANGED <<text, tool, currentBB>>

AllocJal ==
  LET i == Fetch(program_counter)
  IN  /\ Regular(i) /\ i.op = "JAL"
      /\ FinishWith("DIRECT_BRANCH", SwitchTo(ContextSwitchTaken))
      /\ UNCHANGED <<text, tool, currentBB>>

AllocJalr ==
  LET i == Fetch(program_counter)
  IN  /\ Regular(i) /\ i.op = "JALR"
      /\ FinishWith("INDIRECT_BRANCH", SwitchTo(ContextSwitchTaken))
      /\ UNCHANGED <<text, tool, currentBB>>

(* The ECALL itself is placed behind the block, where only a jump to the   *)
(* word before the next block reaches it.                                  *)
AllocSystem ==
  LET i == Fetch(program_counter)
      exit == memory \o SwitchTo(ContextSwitch)
  IN  /\ Regular(i) /\ i.op = "SYSTEM"
      /\ memory' = exit \o Ecall(program_counter)
      /\ RailBasicBlocks' =
           InsertedBB(RailBasicBlocks, Closed("SYSCALL", program_counter, exit))
      /\ program_counter' = program_counter + 1
      /\ alloc' = Idle
      /\ UNCHANGED <<text, tool, currentBB>>

(* AUIPC, loads and stores, and the instructions copied as they are.       *)
AllocInLine ==
  LET i == Fetch(program_counter)
  IN  /\ Regular(i) /\ i.op \notin ControlOp \cup {"AMO"}
      /\ IF SegmentsAfter(i)
         THEN FinishWith("SEGMENTED", InLine(i, program_counter)
                                        \o SwitchTo(ContextSwitchTaken))
         ELSE ContinueWith(InLine(i, program_counter))
      /\ UNCHANGED <<text, tool, currentBB>>

(* Atomics never end a block.                                              *)
AllocAmo ==
  LET i == Fetch(program_counter)
  IN  /\ Regular(i) /\ i.op = "AMO"
      /\ ContinueWith(InLine(i, program_counter))
      /\ UNCHANGED <<text, tool, currentBB>>

(* The text ends inside the block: nothing is inserted.                    *)
AllocEnd ==
  /\ alloc.busy /\ Fetch(program_counter).op = "none"
  /\ alloc' = Idle
  /\ UNCHANGED <<text, tool, program_counter, memory, RailBasicBlocks, currentBB>>

AllocStep == \/ AllocPreInst \/ AllocBranch \/ AllocJal \/ AllocJalr \/ AllocSystem
             \/ AllocInLine  \/ AllocAmo    \/ AllocEnd
=============================================================================
