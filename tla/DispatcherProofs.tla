-------------------------- MODULE DispatcherProofs --------------------------
(***************************************************************************)
(* Proofs about the engine: every variable keeps its type, and the block   *)
(* metadata stub steers by describes the text.                             *)
(***************************************************************************)
EXTENDS DispatcherProperties, TLAPS, SequenceTheorems, FiniteSetTheorems

-----------------------------------------------------------------------------
(* Typing needs one more fact: a cache word that stands for an instruction *)
(* names an address inside the text.                                       *)

TextKind == {"branch", "guest", "mem", "setpc", "ecall"}

CodeWord == {w \in Word : w.k \in TextKind => w.a \in DOMAIN text}

TypeInv == TypeOK /\ memory \in Seq(CodeWord)

-----------------------------------------------------------------------------
(* Instructions.                                                           *)

(* The zero word is an instruction as far as types go.                     *)
LEMMA NoInstType == NoInst \in Inst
  BY DEF NoInst, Inst, Opcode, SyscallKind

(* getNextInstruction yields an instruction, and one that is not the zero  *)
(* word comes from the text.                                               *)
LEMMA FetchType ==
  ASSUME text \in Seq(Inst), NEW a
  PROVE  /\ Fetch(a) \in Inst
         /\ Fetch(a).op # "none" => a \in DOMAIN text /\ a \in Int /\ Fetch(a) = text[a]
  <1>1. Len(text) \in Nat /\ DOMAIN text = 1..Len(text)
    OBVIOUS
  <1>2. CASE a \in 1..(Len(text) - 1)
    <2>1. a \in 1..Len(text) /\ Fetch(a) = text[a]
      BY <1>1, <1>2 DEF Fetch
    <2> QED
      BY <1>1, <2>1
  <1>3. CASE a \notin 1..(Len(text) - 1)
    <2>1. Fetch(a) = NoInst
      BY <1>3 DEF Fetch
    <2>2. NoInst.op = "none"
      BY DEF NoInst
    <2> QED
      BY <2>1, <2>2, NoInstType
  <1> QED
    BY <1>2, <1>3

(* Reading a register, or one the model does not keep, yields a number.    *)
LEMMA RegValueType ==
  ASSUME NEW rs \in [Reg -> Int], NEW r
  PROVE  RegValue(rs, r) \in Int
  BY DEF RegValue

(* Executing an instruction leaves numbers in the registers.               *)
LEMMA ExecuteType ==
  ASSUME NEW i \in Inst, NEW a \in Int, NEW rs \in [Reg -> Int]
  PROVE  Execute(i, a, rs) \in [Reg -> Int]
  <1>1. i.imm \in Int
    BY DEF Inst
  <1>2. Result(i, a) \in Int
    BY <1>1 DEF Result
  <1> QED
    BY <1>2 DEF Execute

-----------------------------------------------------------------------------
(* The words the allocator writes.                                         *)

(* A word built from its parts is a well-formed cache word.                *)
LEMMA WordType ==
  ASSUME NEW k \in WordKind, NEW a \in Int, NEW v \in Int,
         k \in TextKind => a \in DOMAIN text
  PROVE  W(k, a, v) \in CodeWord
  BY DEF W, Word, CodeWord

(* The library's own sequences are well-formed whatever address they load. *)
LEMMA LibraryWords ==
  ASSUME NEW v \in Int
  PROVE  /\ Cont \in CodeWord
         /\ RestoreScratch \in Seq(CodeWord)
         /\ InlineSave \in Seq(CodeWord)
         /\ Li(v) \in Seq(CodeWord)
         /\ LiT5(v) \in Seq(CodeWord)
         /\ JalrT6 \in Seq(CodeWord)
         /\ SwitchTo(v) \in Seq(CodeWord)
  <1>1. Cont \in CodeWord
    BY WordType DEF Cont, WordKind, TextKind
  <1>2. RestoreScratch \in Seq(CodeWord)
    BY WordType DEF RestoreScratch, WordKind, TextKind
  <1>3. InlineSave \in Seq(CodeWord)
    <2>1. W("save", 0, 0) \in CodeWord
      BY WordType DEF WordKind, TextKind
    <2> QED
      BY <1>1, <2>1 DEF InlineSave
  <1>4. Li(v) \in Seq(CodeWord)
    <2>1. W("li", 0, v) \in CodeWord
      BY WordType DEF WordKind, TextKind
    <2> QED
      BY <1>1, <2>1 DEF Li
  <1>5. LiT5(v) \in Seq(CodeWord)
    <2>1. W("liT5", 0, v) \in CodeWord
      BY WordType DEF WordKind, TextKind
    <2> QED
      BY <1>1, <2>1 DEF LiT5
  <1>6. JalrT6 \in Seq(CodeWord)
    BY WordType DEF JalrT6, WordKind, TextKind
  <1>7. SwitchTo(v) \in Seq(CodeWord)
    BY <1>3, <1>4, <1>6, ConcatProperties DEF SwitchTo
  <1> QED
    BY <1>1, <1>2, <1>3, <1>4, <1>5, <1>6, <1>7

(* The entry points of the host are addresses.                             *)
LEMMA HostEntries ==
  /\ ContextSwitch \in Int
  /\ ContextSwitchTaken \in Int
  /\ ContextSwitchInstrument \in Int
  /\ InitSwitch \in Int
  BY DEF ContextSwitch, ContextSwitchTaken, ContextSwitchInstrument, InitSwitch

(* What is written for the instruction i at a.                             *)
LEMMA InstWords ==
  ASSUME NEW a \in Int, a \in DOMAIN text, NEW i \in Inst
  PROVE  /\ InLine(i, a) \in Seq(CodeWord)
         /\ BranchExit(a) \in Seq(CodeWord)
         /\ Ecall(a) \in Seq(CodeWord)
         /\ NextInstWords(i, a) \in Seq(CodeWord)
  <1>1. InLine(i, a) \in Seq(CodeWord)
    <2>1. a + i.imm \in Int
      BY DEF Inst
    <2>2. /\ W("setpc", a, a + i.imm) \in CodeWord
          /\ W("mem", a, 0) \in CodeWord
          /\ W("guest", a, 0) \in CodeWord
      BY <2>1, WordType DEF WordKind
    <2>3. Cont \in CodeWord
      BY LibraryWords
    <2> QED
      BY <2>2, <2>3 DEF InLine
  <1>2. BranchExit(a) \in Seq(CodeWord)
    <2>1. <<W("branch", a, 0)>> \in Seq(CodeWord)
      BY WordType DEF WordKind
    <2>2. InlineSave \o <<W("branch", a, 0)>> \in Seq(CodeWord)
      BY <2>1, LibraryWords, ConcatProperties
    <2>3. InlineSave \o <<W("branch", a, 0)>> \o Li(ContextSwitch) \o JalrT6
            \in Seq(CodeWord)
      BY <2>2, LibraryWords, HostEntries, ConcatProperties
    <2> QED
      BY <2>3, LibraryWords, HostEntries, ConcatProperties DEF BranchExit
  <1>3. Ecall(a) \in Seq(CodeWord)
    BY WordType DEF Ecall, WordKind
  <1>4. NextInstWords(i, a) \in Seq(CodeWord)
    <2>1. /\ SwitchTo(ContextSwitchTaken) \in Seq(CodeWord)
          /\ InLine(i, a) \o SwitchTo(ContextSwitchTaken) \in Seq(CodeWord)
      BY <1>1, LibraryWords, HostEntries, ConcatProperties
    <2>2. <<W("jalRoot", 0, 0)>> \o Ecall(a) \in Seq(CodeWord)
      <3>1. <<W("jalRoot", 0, 0)>> \in Seq(CodeWord)
        BY WordType DEF WordKind, TextKind
      <3> QED
        BY <1>3, <3>1, ConcatProperties
    <2>3. InLine(i, a) \o InlineSave \o LiT5(ContextSwitchTaken) \o JalrT6
            \in Seq(CodeWord)
      BY <1>1, LibraryWords, HostEntries, ConcatProperties
    <2>4. <<W("guest", a, 0)>> \o SwitchTo(ContextSwitchTaken) \in Seq(CodeWord)
      <3>1. <<W("guest", a, 0)>> \in Seq(CodeWord)
        BY WordType DEF WordKind
      <3> QED
        BY <2>1, <3>1, ConcatProperties
    <2> QED
      BY <1>2, <2>1, <2>2, <2>3, <2>4 DEF NextInstWords
  <1> QED
    BY <1>1, <1>2, <1>3, <1>4

-----------------------------------------------------------------------------
(* Block metadata.                                                         *)

(* What operator[] makes of a missing key is a block.                      *)
LEMMA ZeroBlockType == ZeroBlock \in Block
  BY NoInstType DEF ZeroBlock, Block, BlockType

(* allocateBB closes its activation into a block.                          *)
LEMMA ClosedType ==
  ASSUME text \in Seq(Inst), alloc.railBB \in Block,
         NEW type \in BlockType, NEW a \in Int, NEW words \in Seq(CodeWord)
  PROVE  Closed(type, a, words) \in Block
  <1>1. Fetch(a) \in Inst
    BY FetchType
  <1>2. EndOf(words) \in Nat
    BY DEF EndOf
  <1> QED
    BY <1>1, <1>2 DEF Closed, Block

(* insertBB keeps the map from addresses to blocks.                        *)
LEMMA InsertedType ==
  ASSUME NEW blocks, DOMAIN blocks \subseteq Int, blocks \in [DOMAIN blocks -> Block],
         NEW bb \in Block
  PROVE  /\ DOMAIN InsertedBB(blocks, bb) \subseteq Int
         /\ InsertedBB(blocks, bb) \in [DOMAIN InsertedBB(blocks, bb) -> Block]
  <1>1. bb.firstAddr \in Int
    BY DEF Block
  <1>2. DOMAIN InsertedBB(blocks, bb) = DOMAIN blocks \cup {bb.firstAddr}
    BY DEF InsertedBB
  <1>3. InsertedBB(blocks, bb) \in [DOMAIN blocks \cup {bb.firstAddr} -> Block]
    BY DEF InsertedBB
  <1> QED
    BY <1>1, <1>2, <1>3

(* Looking up any address yields a block.                                  *)
LEMMA LookupType ==
  ASSUME RailBasicBlocks \in [DOMAIN RailBasicBlocks -> Block], NEW a
  PROVE  Lookup(a) \in Block
  BY ZeroBlockType DEF Lookup

-----------------------------------------------------------------------------
(* The allocator keeps the types of its variables.                         *)

CacheInv == CacheTypeOK /\ memory \in Seq(CodeWord)

(* The part of allocateBB before its loop keeps the types.                 *)
LEMMA AllocBeginType ==
  ASSUME CacheInv, NEW a \in Int, AllocBegin(a)
  PROVE  CacheInv'
  <1> USE DEF CacheInv, CacheTypeOK
  <1>1. CodeWord' = CodeWord
    BY DEF AllocBegin, CodeWord
  <1>2. /\ memory' \in Seq(CodeWord)
        /\ memory' \in Seq(Word)
    <2>1. memory' \in Seq(CodeWord)
      BY LibraryWords, ConcatProperties DEF AllocBegin
    <2>2. CodeWord \subseteq Word
      BY DEF CodeWord
    <2> QED
      BY <2>1, <2>2
  <1>3. alloc' \in [busy : BOOLEAN, railBB : Block, allocatedPrev : Nat]
    <2>1. Fetch(a) \in Inst /\ EndOf(memory) \in Nat
      BY FetchType DEF EndOf
    <2> QED
      BY <2>1, ZeroBlockType DEF AllocBegin, Block
  <1>4. currentBB' = a /\ program_counter' = a
    BY DEF AllocBegin, setCurrentBB
  <1> QED
    BY <1>1, <1>2, <1>3, <1>4 DEF AllocBegin

(* An instruction that ends the block, and one that does not.              *)
LEMMA FinishType ==
  ASSUME CacheInv, NEW type \in BlockType, NEW words \in Seq(CodeWord),
         FinishWith(type, words), UNCHANGED <<text, tool, currentBB>>
  PROVE  CacheInv'
  <1> USE DEF CacheInv, CacheTypeOK
  <1>1. CodeWord' = CodeWord /\ CodeWord \subseteq Word
    BY DEF CodeWord
  <1>2. memory \o words \in Seq(CodeWord)
    BY ConcatProperties
  <1>3. Closed(type, program_counter, memory \o words) \in Block
    BY <1>2, ClosedType
  <1>4. /\ DOMAIN RailBasicBlocks' \subseteq Int
        /\ RailBasicBlocks' \in [DOMAIN RailBasicBlocks' -> Block]
    BY <1>3, InsertedType DEF FinishWith
  <1>5. alloc' \in [busy : BOOLEAN, railBB : Block, allocatedPrev : Nat]
    BY ZeroBlockType DEF FinishWith, Idle
  <1> QED
    BY <1>1, <1>2, <1>4, <1>5 DEF FinishWith

(* So does an instruction after which the loop goes on.                    *)
LEMMA ContinueType ==
  ASSUME CacheInv, NEW words \in Seq(CodeWord),
         ContinueWith(words), UNCHANGED <<text, tool, currentBB>>
  PROVE  CacheInv'
  <1> USE DEF CacheInv, CacheTypeOK
  <1>1. CodeWord' = CodeWord /\ CodeWord \subseteq Word
    BY DEF CodeWord
  <1>2. memory \o words \in Seq(CodeWord)
    BY ConcatProperties
  <1>3. memory' \in Seq(CodeWord) /\ memory' \in Seq(Word)
    BY <1>1, <1>2 DEF ContinueWith
  <1>4. alloc' \in [busy : BOOLEAN, railBB : Block, allocatedPrev : Nat]
    <2>1. alloc.allocatedPrev + 1 \in Nat
      OBVIOUS
    <2>2. alloc' = [alloc EXCEPT !.allocatedPrev = alloc.allocatedPrev + 1]
      BY DEF ContinueWith
    <2>3. alloc \in [busy : BOOLEAN, railBB : Block, allocatedPrev : Nat]
      OBVIOUS
    <2> HIDE DEF CacheInv, CacheTypeOK
    <2> QED
      BY <2>1, <2>2, <2>3
  <1>5. /\ program_counter' \in Int
        /\ RailBasicBlocks' = RailBasicBlocks
    BY DEF ContinueWith
  <1> QED
    BY <1>1, <1>3, <1>4, <1>5

(* So does an instruction with a typed PRE routine, which may insert two   *)
(* blocks.                                                                 *)
LEMMA PreInstType ==
  ASSUME CacheInv, AllocPreInst
  PROVE  CacheInv'
  <1> USE DEF CacheInv, CacheTypeOK
  <1> DEFINE pc     == program_counter
             i      == Fetch(pc)
             cut    == alloc.allocatedPrev > 0
             words  == IF cut THEN memory \o SwitchTo(ContextSwitch) ELSE memory
             blocks == IF cut
                       THEN InsertedBB(RailBasicBlocks, Closed("SEGMENTED", LastLaidOut, words))
                       ELSE RailBasicBlocks
  <1>1. CodeWord' = CodeWord /\ CodeWord \subseteq Word
    BY DEF CodeWord, AllocPreInst
  <1>2. i \in Inst /\ pc \in Int /\ pc \in DOMAIN text
    BY FetchType DEF AllocPreInst
  <1>3. words \in Seq(CodeWord)
    BY LibraryWords, HostEntries, ConcatProperties
  <1>4. DOMAIN blocks \subseteq Int /\ blocks \in [DOMAIN blocks -> Block]
    <2>1. Closed("SEGMENTED", LastLaidOut, words) \in Block
      <3> HIDE DEF words
      <3>1. LastLaidOut \in Int /\ "SEGMENTED" \in BlockType
        BY DEF LastLaidOut, BlockType
      <3>2. text \in Seq(Inst) /\ alloc.railBB \in Block
        OBVIOUS
      <3> QED
        BY <1>3, <3>1, <3>2, ClosedType
    <2> HIDE DEF words
    <2> QED
      BY <2>1, InsertedType
  <1>5. PreInstBB(i, words) \in Block
    <2> HIDE DEF words, i
    <2>1. Len(words) \in Nat /\ Len(NextInstWords(i, pc)) \in Nat
      BY <1>2, <1>3, InstWords
    <2>2. NextInstType(i.op) \in BlockType
      BY DEF NextInstType, BlockType
    <2>3. alloc.railBB.basicBlockAddress \in Int
      BY DEF Block
    <2> QED
      BY <1>2, <2>1, <2>2, <2>3 DEF PreInstBB, Block, EndOf, InstrumentSkip
  <1>6. /\ DOMAIN RailBasicBlocks' \subseteq Int
        /\ RailBasicBlocks' \in [DOMAIN RailBasicBlocks' -> Block]
    <2>1. RailBasicBlocks' = blocks \/ RailBasicBlocks' = InsertedBB(blocks, PreInstBB(i, words))
      BY DEF AllocPreInst
    <2> HIDE DEF blocks, words, i
    <2> QED
      BY <1>4, <1>5, <2>1, InsertedType
  <1>7. memory' \in Seq(CodeWord)
    <2>1. \/ memory' = words
          \/ memory' = words \o SwitchTo(ContextSwitchInstrument) \o NextInstWords(i, pc)
      BY DEF AllocPreInst
    <2> HIDE DEF words, i
    <2>2. /\ SwitchTo(ContextSwitchInstrument) \in Seq(CodeWord)
          /\ NextInstWords(i, pc) \in Seq(CodeWord)
      BY <1>2, LibraryWords, HostEntries, InstWords
    <2>3. words \o SwitchTo(ContextSwitchInstrument) \in Seq(CodeWord)
      BY <1>3, <2>2, ConcatProperties
    <2>4. words \o SwitchTo(ContextSwitchInstrument) \o NextInstWords(i, pc)
            \in Seq(CodeWord)
      BY <2>2, <2>3, ConcatProperties
    <2> QED
      BY <1>3, <2>1, <2>4
  <1>8. alloc' \in [busy : BOOLEAN, railBB : Block, allocatedPrev : Nat]
    BY ZeroBlockType DEF AllocPreInst, Idle
  <1> QED
    BY <1>1, <1>6, <1>7, <1>8 DEF AllocPreInst

(* So does an ECALL, placed behind the block it ends.                      *)
LEMMA SystemType ==
  ASSUME CacheInv, AllocSystem
  PROVE  CacheInv'
  <1> USE DEF CacheInv, CacheTypeOK
  <1> DEFINE exit == memory \o SwitchTo(ContextSwitch)
  <1>1. CodeWord' = CodeWord /\ CodeWord \subseteq Word
    BY DEF CodeWord, AllocSystem
  <1>2. program_counter \in Int /\ program_counter \in DOMAIN text
    BY FetchType DEF AllocSystem, Regular
  <1>3. exit \in Seq(CodeWord)
    BY LibraryWords, HostEntries, ConcatProperties
  <1>4. memory' \in Seq(CodeWord)
    <2>1. memory' = exit \o Ecall(program_counter)
      BY DEF AllocSystem
    <2>2. Ecall(program_counter) \in Seq(CodeWord)
      BY <1>2, NoInstType, InstWords
    <2> HIDE DEF exit
    <2> QED
      BY <1>3, <2>1, <2>2, ConcatProperties
  <1>5. Closed("SYSCALL", program_counter, exit) \in Block
    <2>1. "SYSCALL" \in BlockType
      BY DEF BlockType
    <2>2. text \in Seq(Inst) /\ alloc.railBB \in Block
      OBVIOUS
    <2> HIDE DEF exit
    <2> QED
      BY <1>2, <1>3, <2>1, <2>2, ClosedType
  <1>6. /\ DOMAIN RailBasicBlocks' \subseteq Int
        /\ RailBasicBlocks' \in [DOMAIN RailBasicBlocks' -> Block]
    <2>1. RailBasicBlocks' =
            InsertedBB(RailBasicBlocks, Closed("SYSCALL", program_counter, exit))
      BY DEF AllocSystem
    <2> HIDE DEF exit
    <2> QED
      BY <1>5, <2>1, InsertedType
  <1>7. alloc' \in [busy : BOOLEAN, railBB : Block, allocatedPrev : Nat]
    BY ZeroBlockType DEF AllocSystem, Idle
  <1>8. program_counter' \in Int
    BY DEF AllocSystem
  <1> QED
    BY <1>1, <1>4, <1>6, <1>7, <1>8 DEF AllocSystem

(* So does every step of allocateBB's loop.                                *)
LEMMA AllocStepType ==
  ASSUME CacheInv, AllocStep
  PROVE  CacheInv'
  <1> DEFINE pc == program_counter
             i  == Fetch(pc)
  <1>1. i \in Inst /\ pc \in Int /\ (i.op # "none" => pc \in DOMAIN text)
    BY FetchType DEF CacheInv, CacheTypeOK
  <1>2. SwitchTo(ContextSwitchTaken) \in Seq(CodeWord)
    BY LibraryWords, HostEntries
  <1>3. CASE AllocPreInst
    BY <1>3, PreInstType
  <1>4. CASE AllocBranch
    <2>1. "DIRECT_BRANCH" \in BlockType /\ BranchExit(pc) \in Seq(CodeWord)
      BY <1>1, <1>4, InstWords DEF AllocBranch, Regular, BlockType
    <2> QED
      BY <1>4, <2>1, FinishType DEF AllocBranch
  <1>5. CASE AllocJal
    <2>1. "DIRECT_BRANCH" \in BlockType
      BY DEF BlockType
    <2> QED
      BY <1>2, <1>5, <2>1, FinishType DEF AllocJal
  <1>6. CASE AllocJalr
    <2>1. "INDIRECT_BRANCH" \in BlockType
      BY DEF BlockType
    <2> QED
      BY <1>2, <1>6, <2>1, FinishType DEF AllocJalr
  <1>7. CASE AllocSystem
    BY <1>7, SystemType
  <1>8. CASE AllocInLine
    <2>1. InLine(i, pc) \in Seq(CodeWord)
      BY <1>1, <1>8, InstWords DEF AllocInLine, Regular
    <2>2. InLine(i, pc) \o SwitchTo(ContextSwitchTaken) \in Seq(CodeWord)
      BY <1>2, <2>1, ConcatProperties
    <2>3. "SEGMENTED" \in BlockType
      BY DEF BlockType
    <2>4. CASE SegmentsAfter(i)
      <3>1. FinishWith("SEGMENTED", InLine(i, pc) \o SwitchTo(ContextSwitchTaken))
        BY <1>8, <2>4 DEF AllocInLine
      <3>2. UNCHANGED <<text, tool, currentBB>>
        BY <1>8 DEF AllocInLine
      <3> QED
        BY <2>2, <2>3, <3>1, <3>2, FinishType
    <2>5. CASE ~SegmentsAfter(i)
      <3>1. ContinueWith(InLine(i, pc)) /\ UNCHANGED <<text, tool, currentBB>>
        BY <1>8, <2>5 DEF AllocInLine
      <3> QED
        BY <2>1, <3>1, ContinueType
    <2> QED
      BY <2>4, <2>5
  <1>9. CASE AllocAmo
    <2>1. InLine(i, pc) \in Seq(CodeWord)
      BY <1>1, <1>9, InstWords DEF AllocAmo, Regular
    <2> QED
      BY <1>9, <2>1, ContinueType DEF AllocAmo
  <1>10. CASE AllocEnd
    BY <1>10, ZeroBlockType DEF AllocEnd, CacheInv, CacheTypeOK, CodeWord, Idle
  <1> QED
    BY <1>3, <1>4, <1>5, <1>6, <1>7, <1>8, <1>9, <1>10 DEF AllocStep

(* Steps that leave the allocator's variables alone keep their types.      *)
LEMMA CacheUnchanged ==
  ASSUME CacheInv, UNCHANGED cacheVars
  PROVE  CacheInv'
  BY DEF CacheInv, CacheTypeOK, CodeWord, cacheVars

-----------------------------------------------------------------------------
(* History.                                                                *)

BBState == {"fresh", "entered", "inside", "leaving", "broken"}

(* The basic-block history has its five values only.                       *)
LEMMA BBStepType ==
  ASSUME NEW s \in BBState, NEW event
  PROVE  BBStep(s, event) \in BBState
  BY DEF BBStep, BBState

(* A conditional call counts once or not at all.                           *)
LEMMA OneType == \A b : One(b) \in Nat
  BY DEF One

(* Calls at an address are a sequence of addresses.                        *)
LEMMA TimesType ==
  ASSUME NEW n \in Nat, NEW a \in Int
  PROVE  Times(n, a) \in Seq(Int)
  BY IsASeq DEF Times

(* There are as many as are asked for.                                     *)
LEMMA TimesShape ==
  ASSUME NEW n \in Nat, NEW a \in Int
  PROVE  /\ Times(n, a) \in Seq(Int) /\ Len(Times(n, a)) = n
         /\ \A k \in 1..n : Times(n, a)[k] = a
  BY TimesType DEF Times

(* No call, ...                                                            *)
LEMMA NoTimes == \A a : Times(0, a) = << >>
  <1> TAKE a
  <1>1. 1..0 = {}
    OBVIOUS
  <1>2. Times(0, a) \in Seq({a}) /\ << >> \in Seq({a})
    BY IsASeq DEF Times
  <1>3. Len(Times(0, a)) = 0 /\ Len(<< >>) = 0
    BY <1>1 DEF Times
  <1> QED
    BY <1>1, <1>2, <1>3, SeqEqual

(* ... and calls behind others.                                            *)
LEMMA MoreTimes ==
  ASSUME NEW n \in Nat, NEW m \in Nat, NEW a \in Int
  PROVE  Times(n, a) \o Times(m, a) = Times(n + m, a)
  <1> DEFINE s == Times(n, a)
             t == Times(m, a)
             u == Times(n + m, a)
  <1>1. /\ s \in Seq(Int) /\ Len(s) = n /\ \A k \in 1..n : s[k] = a
        /\ t \in Seq(Int) /\ Len(t) = m /\ \A k \in 1..m : t[k] = a
        /\ u \in Seq(Int) /\ Len(u) = n + m /\ \A k \in 1..(n + m) : u[k] = a
    BY TimesShape
  <1> HIDE DEF s, t, u
  <1>2. /\ s \o t \in Seq(Int) /\ Len(s \o t) = n + m
        /\ \A k \in 1..(n + m) : (s \o t)[k] = IF k <= n THEN s[k] ELSE t[k - n]
    BY <1>1, ConcatProperties
  <1>3. \A k \in 1..(n + m) : (s \o t)[k] = a
    BY <1>1, <1>2
  <1>4. s \o t = u
    BY <1>1, <1>2, <1>3, SeqEqual
  <1> QED
    BY <1>4 DEF s, t, u

(* A set with one element more, if it has that.                            *)
LEMMA CountOne ==
  ASSUME NEW S, IsFiniteSet(S), NEW x, x \notin S, NEW c \in BOOLEAN
  PROVE  LET T == S \cup {y \in {x} : c}
         IN  IsFiniteSet(T) /\ Cardinality(T) = Cardinality(S) + One(c)
  <1>1. CASE c
    <2>1. S \cup {y \in {x} : c} = S \cup {x}
      BY <1>1
    <2> QED
      BY <1>1, <2>1, FS_AddElement DEF One
  <1>2. CASE ~c
    <2>1. S \cup {y \in {x} : c} = S
      BY <1>2
    <2>2. Cardinality(S) \in Nat
      BY FS_CardinalityType
    <2> QED
      BY <1>2, <2>1, <2>2 DEF One
  <1> QED
    BY <1>1, <1>2

(* A retirement records numbers and sequences of numbers.                  *)
LEMMA RetirementType ==
  ASSUME HistoryTypeOK, NEW a \in Int, NEW pre \in Seq(Int)
  PROVE  Retirement(a, pre) \in [addr : Int, pre : Seq(Int), prev : Int, post : Seq(Int)]
  BY DEF HistoryTypeOK, Retirement

(* Retiring an instruction in the cache keeps the types of the history.    *)
LEMMA RetireInCacheType ==
  ASSUME HistoryTypeOK, NEW a \in Int, NEW event, RetireInCache(a, event),
         t6Saved' \in BOOLEAN
  PROVE  HistoryTypeOK'
  <1>1. retired' \in [addr : Int, pre : Seq(Int), prev : Int, post : Seq(Int)]
    BY RetirementType DEF RetireInCache, HistoryTypeOK
  <1>2. bbState' \in BBState
    BY BBStepType DEF RetireInCache, HistoryTypeOK, BBState
  <1>3. /\ gpc' \in Int
        /\ leader' \in Int
        /\ preCalls' \in Seq(Int)
        /\ postCalls' \in Seq(Int)
    BY DEF RetireInCache, HistoryTypeOK
  <1> QED
    BY <1>1, <1>2, <1>3 DEF HistoryTypeOK, BBState

(* So does leaving the history alone.                                      *)
LEMMA HistoryUnchanged ==
  ASSUME HistoryTypeOK, UNCHANGED history
  PROVE  HistoryTypeOK'
  BY DEF HistoryTypeOK, history

-----------------------------------------------------------------------------
(* The processor keeps the types.                                          *)

(* The inductive invariant is the conjunction of the three groups of       *)
(* types.                                                                  *)
LEMMA TypeInvParts == TypeInv <=> CacheInv /\ DispatcherTypeOK /\ HistoryTypeOK
  BY DEF TypeInv, TypeOK, CacheInv

(* The word the processor is at.                                           *)
LEMMA CurrentWord ==
  ASSUME TypeInv, NEW kind, At(kind)
  PROVE  /\ word \in Word
         /\ word.k = kind
         /\ word.a \in Int /\ word.v \in Int
         /\ kind \in TextKind => text[word.a] \in Inst
  <1>1. memory[ip] \in CodeWord
    BY ElementOfSeq DEF TypeInv, At
  <1>2. word \in Word /\ (word.k \in TextKind => word.a \in DOMAIN text)
    BY <1>1 DEF CodeWord, word
  <1>3. text \in Seq(Inst)
    BY DEF TypeInv, TypeOK, CacheTypeOK
  <1> QED
    BY <1>2, <1>3, ElementOfSeq DEF At, Word

(* The sequences the processor steps over have lengths.                    *)
LEMMA LengthTypes ==
  /\ \A v : Len(Li(v)) = 3
  /\ Len(RestoreScratch) = 1
  /\ Len(InlineSave) = 2
  /\ \A i, a : Len(InLine(i, a)) \in Nat
  BY DEF Li, RestoreScratch, InlineSave, InLine

(* A guest instruction that runs in the cache keeps the types: the word it *)
(* stands in names an instruction of the text.                             *)
LEMMA RunGuestWordType ==
  ASSUME TypeInv, RunGuestWord
  PROVE  TypeInv'
  <1> USE TypeInvParts
  <1> DEFINE i == text[word.a]
  <1>1. word.a \in Int /\ i \in Inst
    BY CurrentWord DEF RunGuestWord, TextKind
  <1>2. regs \in [Reg -> Int] /\ slot \in Int /\ ip \in Int
    BY DEF DispatcherTypeOK
  <1>3. regs' \in [Reg -> Int]
    BY <1>1, <1>2, ExecuteType DEF RunGuestWord
  <1>4. slot' \in Int
    BY <1>2 DEF RunGuestWord, Parked, Reg
  <1>5. ip' \in Int
    BY <1>2, LengthTypes DEF RunGuestWord
  <1>6. DispatcherTypeOK'
    BY <1>3, <1>4, <1>5 DEF RunGuestWord, DispatcherTypeOK
  <1>7. HistoryTypeOK'
    <2>1. RetireInCache(word.a, "body") /\ t6Saved' \in BOOLEAN
      BY DEF RunGuestWord, HistoryTypeOK
    <2> QED
      BY <1>1, <2>1, RetireInCacheType
  <1>8. CacheInv'
    BY CacheUnchanged DEF RunGuestWord
  <1> QED
    BY <1>6, <1>7, <1>8, TypeInvParts, PTL

(* So does every step of the processor in the cache.                       *)
LEMMA RunStepType ==
  ASSUME TypeInv, RunStep
  PROVE  TypeInv'
  <1>0. CacheInv /\ DispatcherTypeOK /\ HistoryTypeOK
    BY TypeInvParts
  <1> SUFFICES CacheInv' /\ DispatcherTypeOK' /\ HistoryTypeOK'
    BY TypeInvParts, PTL
  <1>1. CASE RunRestoreScratch
    <2>1. ip' \in Int
      BY <1>0, <1>1, LengthTypes DEF RunRestoreScratch, DispatcherTypeOK
    <2>2. regs' \in [Reg -> Int]
      BY <1>0, <1>1 DEF RunRestoreScratch, DispatcherTypeOK
    <2>3. CacheInv'
      BY <1>0, <1>1, CacheUnchanged DEF RunRestoreScratch
    <2> QED
      BY <1>0, <1>1, <2>1, <2>2, <2>3 DEF RunRestoreScratch, DispatcherTypeOK, HistoryTypeOK
  <1>2. CASE RunInlineSave
    BY <1>0, <1>2, CacheUnchanged, LengthTypes
      DEF RunInlineSave, DispatcherTypeOK, HistoryTypeOK, Reg
  <1>3. CASE RunLi
    <2>1. regs' \in [Reg -> Int]
      BY <1>0, <1>3, CurrentWord DEF RunLi, DispatcherTypeOK
    <2>2. ip' \in Int
      BY <1>0, <1>3, LengthTypes DEF RunLi, DispatcherTypeOK
    <2> QED
      BY <1>0, <1>3, <2>1, <2>2, CacheUnchanged, HistoryUnchanged
        DEF RunLi, DispatcherTypeOK
  <1>4. CASE RunBranch
    BY <1>0, <1>4, CacheUnchanged, HistoryUnchanged
      DEF RunBranch, DispatcherTypeOK, BranchSkip
  <1>5. CASE RunGuestWord
    BY <1>0, <1>5, RunGuestWordType, TypeInvParts, PTL
  <1>6. CASE RunEcall
    <2>1. word.a \in Int
      BY <1>6, CurrentWord DEF RunEcall
    <2>2. HistoryTypeOK'
      BY <1>0, <1>6, <2>1, RetireInCacheType DEF RunEcall, HistoryTypeOK
    <2> QED
      BY <1>0, <1>6, <2>1, <2>2, CacheUnchanged DEF RunEcall, DispatcherTypeOK
  <1>7. CASE RunJumpInCache
    <2>1. ip' \in Int
      BY <1>0, <1>7, CacheAssumption DEF RunJumpInCache, DispatcherTypeOK, Reg
    <2> QED
      BY <1>0, <1>7, <2>1, CacheUnchanged, HistoryUnchanged
        DEF RunJumpInCache, DispatcherTypeOK
  <1>8. CASE RunSwitch
    BY <1>0, <1>8, CacheUnchanged, HistoryUnchanged
      DEF RunSwitch, DispatcherTypeOK, HostPhase, Phase
  <1>9. CASE RunJalRoot
    BY <1>0, <1>9, CacheUnchanged, HistoryUnchanged DEF RunJalRoot, DispatcherTypeOK
  <1>10. CASE RunCrash
    BY <1>0, <1>10, CacheUnchanged, HistoryUnchanged
      DEF RunCrash, DispatcherTypeOK, Status
  <1> QED
    BY <1>1, <1>2, <1>3, <1>4, <1>5, <1>6, <1>7, <1>8, <1>9, <1>10 DEF RunStep

-----------------------------------------------------------------------------
(* The host keeps the types.                                               *)

FrameType == [currentBasicBlock : Block, nextBlockAddr : Int, shouldNotExecLast : BOOLEAN]

(* stub's locals have their types before stub sets them.                   *)
LEMMA EmptyFrameType == EmptyFrame \in FrameType
  BY ZeroBlockType DEF EmptyFrame, FrameType

(* Writing the link of a jump into the trap frame keeps it a register      *)
(* file.                                                                   *)
LEMMA LinkedFrameType ==
  ASSUME DispatcherTypeOK, NEW i \in Inst, NEW a \in Int
  PROVE  /\ TRAPFRAME \in [Reg -> Int]
         /\ LinkedFrame(i, a) \in [Reg -> Int]
         /\ LinkedFrame(i, a).t6 \in Int
  <1>1. TRAPFRAME \in [Reg -> Int]
    BY DEF TRAPFRAME, DispatcherTypeOK
  <1>2. LinkedFrame(i, a) \in [Reg -> Int]
    <2>1. a + 1 \in Int
      OBVIOUS
    <2>2. [TRAPFRAME EXCEPT ![i.rd] = a + 1] \in [Reg -> Int]
      BY <1>1, <2>1
    <2> QED
      BY <1>1, <2>2 DEF LinkedFrame
  <1> QED
    BY <1>1, <1>2 DEF Reg

(* stub computes an address, whatever instruction ended the block.         *)
LEMMA NextBlockAddrType ==
  ASSUME DispatcherTypeOK, NEW i \in Inst, NEW a \in Int
  PROVE  NextBlockAddr(i, a) \in Int
  <1>1. RegValue(TRAPFRAME, i.rs1) \in Int
    BY LinkedFrameType, RegValueType
  <1>2. i.imm \in Int
    BY DEF Inst
  <1> QED
    BY <1>1, <1>2 DEF NextBlockAddr

(* The numbers of routine calls are numbers.                               *)
LEMMA CallsType ==
  /\ \A i : NumPostCalls(i) \in Nat
  /\ \A i : NumTypedPreCalls(i) \in Nat
  /\ \A types : NumSystemCalls(types) \in Nat
  BY OneType DEF NumPostCalls, NumTypedPreCalls, NumSystemCalls

(* Returning into the cache sets the processor to typed values.            *)
LEMMA EnterCacheType ==
  ASSUME NEW k \in Int, NEW rs \in [Reg -> Int], EnterCacheAt(k, rs)
  PROVE  phase' \in Phase /\ ip' \in Int /\ regs' \in [Reg -> Int]
  <1>1. CacheAddr(k) \in Int
    BY CacheAssumption DEF CacheAddr
  <1> QED
    BY <1>1 DEF EnterCacheAt, Phase

(* stub's edge, locals and allocation keep the types.                      *)
LEMMA LeaveForType ==
  ASSUME CacheInv, DispatcherTypeOK, NEW cur \in Block, NEW next \in Int,
         NEW execLast \in BOOLEAN, LeaveFor(cur, next, execLast),
         regs' \in [Reg -> Int], slot' \in Int, served' \in Int
  PROVE  CacheInv' /\ DispatcherTypeOK' /\ t6Saved' = t6Saved
  <1>1. CacheInv'
    BY CacheUnchanged, AllocBeginType DEF LeaveFor, AllocateIfMissing
  <1>2. edges' \subseteq Int \X Int
    <2>1. cur.basicBlockAddress \in Int
      BY DEF Block
    <2> QED
      BY <2>1 DEF LeaveFor, DispatcherTypeOK
  <1>3. frame' \in FrameType
    BY DEF LeaveFor, FrameType
  <1>4. phase' \in Phase
    BY DEF LeaveFor, Phase
  <1>5. DispatcherTypeOK'
    BY <1>2, <1>3, <1>4 DEF LeaveFor, DispatcherTypeOK, FrameType
  <1> QED
    BY <1>1, <1>5 DEF LeaveFor

(* The block stub leaves, its last instruction and that one's address.     *)
LEMMA CurrentBlockType ==
  ASSUME CacheInv
  PROVE  /\ Lookup(currentBB) \in Block
         /\ Lookup(currentBB).terminalInst \in Inst
         /\ Lookup(currentBB).startInst \in Inst
         /\ Lookup(currentBB).lastAddr \in Int
         /\ Lookup(currentBB).firstAddr \in Int
         /\ Lookup(currentBB).basicBlockAddress \in Int
         /\ Lookup(currentBB).startLocationInCache \in Nat
  <1>1. Lookup(currentBB) \in Block
    BY LookupType DEF CacheInv, CacheTypeOK
  <1> QED
    BY <1>1 DEF Block

(* Calling the basic-block POST routine keeps the history typed.           *)
LEMMA BBPostType ==
  ASSUME NEW s \in BBState, NEW b
  PROVE  BBPost(s, b) \in BBState
  BY BBStepType DEF BBPost

(* stub after a branch or jump keeps the types.                            *)
LEMMA StubTransferType ==
  ASSUME CacheInv, DispatcherTypeOK, HistoryTypeOK, Stub_Transfer
  PROVE  CacheInv' /\ DispatcherTypeOK' /\ HistoryTypeOK'
  <1> DEFINE cur  == Lookup(currentBB)
             i    == cur.terminalInst
             a    == cur.lastAddr
             next == NextBlockAddr(i, a)
  <1>1. cur \in Block /\ i \in Inst /\ a \in Int
    BY CurrentBlockType
  <1>2. next \in Int
    BY <1>1, NextBlockAddrType
  <1>3. regs' \in [Reg -> Int] /\ slot' \in Int /\ served' \in Int
    BY <1>1, LinkedFrameType DEF Stub_Transfer, DispatcherTypeOK
  <1>4. LeaveFor(cur, next, FALSE)
    BY DEF Stub_Transfer
  <1>5. CacheInv' /\ DispatcherTypeOK' /\ t6Saved' = t6Saved
    <2> HIDE DEF cur, next
    <2> QED
      BY <1>1, <1>2, <1>3, <1>4, LeaveForType
  <1>6. retired' \in [addr : Int, pre : Seq(Int), prev : Int, post : Seq(Int)]
    BY <1>1, RetirementType DEF Stub_Transfer, HistoryTypeOK
  <1>7. postCalls' \in Seq(Int)
    BY <1>1, CallsType, TimesType DEF Stub_Transfer
  <1>8. bbState' \in BBState
    BY BBStepType, BBPostType DEF Stub_Transfer, HistoryTypeOK, BBState
  <1>9. gpc' \in Int /\ leader' \in Int /\ preCalls' \in Seq(Int)
    BY <1>2 DEF Stub_Transfer
  <1> QED
    BY <1>5, <1>6, <1>7, <1>8, <1>9 DEF HistoryTypeOK, BBState

(* So does stub after a segment,                                           *)
LEMMA StubSegmentType ==
  ASSUME CacheInv, DispatcherTypeOK, HistoryTypeOK, Stub_Segment
  PROVE  CacheInv' /\ DispatcherTypeOK' /\ HistoryTypeOK'
  <1> DEFINE cur == Lookup(currentBB)
             a   == cur.lastAddr
  <1>1. cur \in Block /\ a \in Int
    BY CurrentBlockType
  <1>2. LeaveFor(cur, a + 1, FALSE)
    BY DEF Stub_Segment
  <1>3. regs' \in [Reg -> Int] /\ slot' \in Int /\ served' \in Int
    BY DEF Stub_Segment, DispatcherTypeOK
  <1>4. CacheInv' /\ DispatcherTypeOK' /\ t6Saved' = t6Saved
    <2>1. a + 1 \in Int
      BY <1>1
    <2> HIDE DEF cur, a
    <2> QED
      BY <1>1, <1>2, <1>3, <2>1, LeaveForType
  <1>5. postCalls' \in Seq(Int)
    <2>1. Times(NumPostCalls(cur.terminalInst), a) \in Seq(Int)
      BY <1>1, CallsType, TimesType
    <2> QED
      BY <2>1, ConcatProperties DEF Stub_Segment, HistoryTypeOK
  <1> QED
    BY <1>4, <1>5 DEF Stub_Segment, HistoryTypeOK

(* after an ECALL the library performs,                                    *)
LEMMA StubEmulateType ==
  ASSUME CacheInv, DispatcherTypeOK, HistoryTypeOK, Stub_Emulate
  PROVE  CacheInv' /\ DispatcherTypeOK' /\ HistoryTypeOK'
  <1> DEFINE cur == Lookup(currentBB)
             i   == cur.terminalInst
             a   == cur.lastAddr
  <1>1. cur \in Block /\ i \in Inst /\ a \in Int
    BY CurrentBlockType
  <1>2. LeaveFor(cur, a + 1, FALSE)
    BY DEF Stub_Emulate
  <1>3. regs' \in [Reg -> Int] /\ slot' \in Int /\ served' \in Int
    BY <1>1 DEF Stub_Emulate, DispatcherTypeOK
  <1>4. CacheInv' /\ DispatcherTypeOK' /\ t6Saved' = t6Saved
    <2>1. a + 1 \in Int
      BY <1>1
    <2> HIDE DEF cur, a
    <2> QED
      BY <1>1, <1>2, <1>3, <2>1, LeaveForType
  <1>5. retired' \in [addr : Int, pre : Seq(Int), prev : Int, post : Seq(Int)]
    <2>1. Times(NumSystemCalls(tool.typedPre), a) \in Seq(Int)
      BY <1>1, CallsType, TimesType
    <2>2. preCalls \o Times(NumSystemCalls(tool.typedPre), a) \in Seq(Int)
      BY <2>1, ConcatProperties DEF HistoryTypeOK
    <2> HIDE DEF a
    <2> QED
      BY <1>1, <2>2, RetirementType DEF Stub_Emulate, a
  <1>6. postCalls' \in Seq(Int)
    <2>1. NumSystemCalls(tool.typedPost) + NumPostCalls(i) \in Nat
      BY CallsType
    <2> QED
      BY <1>1, <2>1, TimesType DEF Stub_Emulate
  <1>7. bbState' \in BBState
    BY BBStepType, BBPostType DEF Stub_Emulate, HistoryTypeOK, BBState
  <1>8. gpc' \in Int /\ leader' \in Int /\ preCalls' \in Seq(Int)
    BY <1>1 DEF Stub_Emulate
  <1> QED
    BY <1>4, <1>5, <1>6, <1>7, <1>8 DEF HistoryTypeOK, BBState

(* after an ECALL it leaves to the host,                                   *)
LEMMA StubForwardType ==
  ASSUME CacheInv, DispatcherTypeOK, HistoryTypeOK, Stub_Forward
  PROVE  CacheInv' /\ DispatcherTypeOK' /\ HistoryTypeOK'
  <1> DEFINE cur == Lookup(currentBB)
             i   == cur.terminalInst
             a   == cur.lastAddr
  <1>1. cur \in Block /\ i \in Inst /\ a \in Int
    BY CurrentBlockType
  <1>2. LeaveFor(cur, a + 1, TRUE)
    BY DEF Stub_Forward
  <1>3. regs' \in [Reg -> Int] /\ slot' \in Int /\ served' \in Int
    BY DEF Stub_Forward, DispatcherTypeOK
  <1>4. CacheInv' /\ DispatcherTypeOK' /\ t6Saved' = t6Saved
    <2>1. a + 1 \in Int
      BY <1>1
    <2> HIDE DEF cur, a
    <2> QED
      BY <1>1, <1>2, <1>3, <2>1, LeaveForType
  <1>5. preCalls' \in Seq(Int)
    <2>1. Times(NumSystemCalls(tool.typedPre), a) \in Seq(Int)
      BY <1>1, CallsType, TimesType
    <2> QED
      BY <2>1, ConcatProperties DEF Stub_Forward, HistoryTypeOK
  <1>6. postCalls' \in Seq(Int)
    <2>1. NumSystemCalls(tool.typedPost) + NumPostCalls(i) \in Nat
      BY CallsType
    <2>2. Times(NumSystemCalls(tool.typedPost) + NumPostCalls(i), a) \in Seq(Int)
      BY <1>1, <2>1, TimesType
    <2> QED
      BY <2>2, ConcatProperties DEF Stub_Forward, HistoryTypeOK
  <1>7. bbState' \in BBState
    BY BBPostType DEF Stub_Forward, HistoryTypeOK, BBState
  <1> QED
    BY <1>4, <1>5, <1>6, <1>7 DEF Stub_Forward, HistoryTypeOK, BBState

(* and after one that ends the process.                                    *)
LEMMA StubExitType ==
  ASSUME CacheInv, DispatcherTypeOK, HistoryTypeOK, Stub_Exit
  PROVE  CacheInv' /\ DispatcherTypeOK' /\ HistoryTypeOK'
  <1> DEFINE cur == Lookup(currentBB)
  <1>1. cur.lastAddr \in Int /\ cur.basicBlockAddress \in Int
    BY CurrentBlockType
  <1>2. CacheInv'
    BY CacheUnchanged DEF Stub_Exit
  <1>3. preCalls' \in Seq(Int)
    <2>1. Times(NumSystemCalls(tool.typedPre), cur.lastAddr) \in Seq(Int)
      BY <1>1, CallsType, TimesType
    <2> QED
      BY <2>1, ConcatProperties DEF Stub_Exit, HistoryTypeOK
  <1>4. edges' \subseteq Int \X Int
    BY <1>1 DEF Stub_Exit, DispatcherTypeOK, EndNode
  <1> QED
    BY <1>2, <1>3, <1>4 DEF Stub_Exit, DispatcherTypeOK, HistoryTypeOK, Status

(* So does stub's return into the next block,                              *)
LEMMA StubEnterType ==
  ASSUME CacheInv, DispatcherTypeOK, HistoryTypeOK, Stub_Enter
  PROVE  CacheInv' /\ DispatcherTypeOK' /\ HistoryTypeOK'
  <1> DEFINE key  == frame.nextBlockAddr
             next == Lookup(key)
  <1>1. next \in Block
    BY LookupType DEF CacheInv, CacheTypeOK
  <1>2. next.firstAddr \in Int /\ ReturnVal(next) \in Int
    BY <1>1 DEF ReturnVal, Block
  <1>3. /\ DOMAIN RailBasicBlocks' \subseteq Int
        /\ RailBasicBlocks' \in [DOMAIN RailBasicBlocks' -> Block]
    <2>1. RailBasicBlocks \in [DOMAIN RailBasicBlocks -> Block]
      BY DEF CacheInv, CacheTypeOK
    <2>2. frame.currentBasicBlock.basicBlockAddress \in Int
      BY DEF DispatcherTypeOK, Block
    <2>3. \A b \in Block :
            [b EXCEPT !.basicBlockAddress = frame.currentBasicBlock.basicBlockAddress]
              \in Block
      BY <2>2 DEF Block
    <2>4. [RailBasicBlocks EXCEPT
             ![key].basicBlockAddress = frame.currentBasicBlock.basicBlockAddress]
            \in [DOMAIN RailBasicBlocks -> Block]
      BY <2>1, <2>3
    <2>5. RailBasicBlocks' \in [DOMAIN RailBasicBlocks -> Block]
      BY <2>1, <2>4 DEF Stub_Enter, AdoptSegment
    <2> QED
      BY <2>5 DEF CacheInv, CacheTypeOK
  <1>4. CacheInv'
    <2>1. currentBB' = next.firstAddr
      BY DEF Stub_Enter, setCurrentBB
    <2> QED
      BY <1>2, <1>3, <2>1 DEF Stub_Enter, CacheInv, CacheTypeOK, CodeWord
  <1>5. phase' \in Phase /\ ip' \in Int /\ regs' \in [Reg -> Int]
    <2>1. EnterCacheAt(ReturnVal(next), regs)
      BY DEF Stub_Enter
    <2> HIDE DEF next
    <2> QED
      BY <1>2, <2>1, EnterCacheType DEF DispatcherTypeOK
  <1>6. preCalls' \in Seq(Int)
    <2>1. Times(One(tool.instPre), next.firstAddr) \in Seq(Int)
      BY <1>2, OneType, TimesType
    <2> QED
      BY <2>1, ConcatProperties DEF Stub_Enter, HistoryTypeOK
  <1>7. bbState' \in BBState
    BY BBStepType DEF Stub_Enter, HistoryTypeOK, BBState
  <1>8. frame' \in FrameType
    BY EmptyFrameType DEF Stub_Enter
  <1>9. DispatcherTypeOK'
    BY <1>5, <1>8 DEF Stub_Enter, DispatcherTypeOK, FrameType
  <1> QED
    BY <1>4, <1>6, <1>7, <1>9 DEF Stub_Enter, HistoryTypeOK, BBState

(* init's return into the entry block,                                     *)
LEMMA InitEnterType ==
  ASSUME CacheInv, DispatcherTypeOK, HistoryTypeOK, Init_Enter
  PROVE  CacheInv' /\ DispatcherTypeOK' /\ HistoryTypeOK'
  <1> DEFINE next == Lookup(frame.nextBlockAddr)
  <1>1. next.firstAddr \in Int /\ next.startLocationInCache \in Int
    BY LookupType DEF CacheInv, CacheTypeOK, Block
  <1>2. CacheInv'
    BY CacheUnchanged DEF Init_Enter
  <1>3. phase' \in Phase /\ ip' \in Int /\ regs' \in [Reg -> Int]
    BY <1>1, EnterCacheType DEF Init_Enter, DispatcherTypeOK
  <1>4. edges' \subseteq Int \X Int
    BY DEF Init_Enter, DispatcherTypeOK, StartNode
  <1>5. preCalls' \in Seq(Int)
    <2>1. Times(One(tool.instPre), next.firstAddr) \in Seq(Int)
      BY <1>1, OneType, TimesType
    <2> QED
      BY <2>1, ConcatProperties DEF Init_Enter, HistoryTypeOK
  <1>6. bbState' \in BBState
    BY BBStepType DEF Init_Enter, HistoryTypeOK, BBState
  <1> QED
    BY <1>2, <1>3, <1>4, <1>5, <1>6
      DEF Init_Enter, DispatcherTypeOK, HistoryTypeOK, BBState

(* and instrument's return into a pre-instrumented block.                  *)
LEMMA InstrumentType ==
  ASSUME CacheInv, DispatcherTypeOK, HistoryTypeOK, Instrument
  PROVE  CacheInv' /\ DispatcherTypeOK' /\ HistoryTypeOK'
  <1> DEFINE cur == Lookup(currentBB)
  <1>1. cur.firstAddr \in Int /\ cur.startLocationInCache + InstrumentSkip \in Int
    BY CurrentBlockType DEF InstrumentSkip
  <1>2. CacheInv'
    BY CacheUnchanged DEF Instrument
  <1>3. phase' \in Phase /\ ip' \in Int /\ regs' \in [Reg -> Int]
    BY <1>1, EnterCacheType DEF Instrument, DispatcherTypeOK
  <1>4. preCalls' \in Seq(Int)
    <2>1. Times(NumTypedPreCalls(cur.startInst), cur.firstAddr) \in Seq(Int)
      BY <1>1, CallsType, TimesType
    <2> QED
      BY <2>1, ConcatProperties DEF Instrument, HistoryTypeOK
  <1> QED
    BY <1>2, <1>3, <1>4 DEF Instrument, DispatcherTypeOK, HistoryTypeOK

(* Every step of the host keeps the types.                                 *)
LEMMA HostStepType ==
  ASSUME TypeInv, HostStep
  PROVE  TypeInv'
  <1>0. CacheInv /\ DispatcherTypeOK /\ HistoryTypeOK
    BY TypeInvParts
  <1> SUFFICES CacheInv' /\ DispatcherTypeOK' /\ HistoryTypeOK'
    BY TypeInvParts, PTL
  <1>1. CASE Init_Allocate
    <2>1. CacheInv'
      BY <1>0, <1>1, AllocBeginType DEF Init_Allocate, CacheInv, CacheTypeOK
    <2>2. frame' \in FrameType
      BY <1>0, <1>1, EmptyFrameType
        DEF Init_Allocate, CacheInv, CacheTypeOK, FrameType
    <2> QED
      BY <1>0, <1>1, <2>1, <2>2, HistoryUnchanged
        DEF Init_Allocate, DispatcherTypeOK, FrameType, Phase
  <1>2. CASE Init_Enter
    BY <1>0, <1>2, InitEnterType
  <1>3. CASE Stub_Transfer
    BY <1>0, <1>3, StubTransferType
  <1>4. CASE Stub_Segment
    BY <1>0, <1>4, StubSegmentType
  <1>5. CASE Stub_Emulate
    BY <1>0, <1>5, StubEmulateType
  <1>6. CASE Stub_Forward
    BY <1>0, <1>6, StubForwardType
  <1>7. CASE Stub_Exit
    BY <1>0, <1>7, StubExitType
  <1>8. CASE Stub_Enter
    BY <1>0, <1>8, StubEnterType
  <1>9. CASE Stub_GiveUp
    <2>1. edges' \subseteq Int \X Int
      BY <1>0, <1>9, CurrentBlockType DEF Stub_GiveUp, DispatcherTypeOK, EndNode
    <2> QED
      BY <1>0, <1>9, <2>1, CacheUnchanged, HistoryUnchanged
        DEF Stub_GiveUp, DispatcherTypeOK, Status
  <1>10. CASE Instrument
    BY <1>0, <1>10, InstrumentType
  <1> QED
    BY <1>1, <1>2, <1>3, <1>4, <1>5, <1>6, <1>7, <1>8, <1>9, <1>10 DEF HostStep

-----------------------------------------------------------------------------
(* The type invariant.                                                     *)

(* The initial states have the types.                                      *)
LEMMA InitType == Init => TypeInv
  <1> SUFFICES ASSUME Init PROVE CacheInv /\ DispatcherTypeOK /\ HistoryTypeOK
    BY TypeInvParts
  <1>1. text \in Seq(Inst) /\ tool \in Registration
    BY SetupsAssumption DEF Init, CacheInit
  <1>2. memory \in Seq(CodeWord)
    BY LibraryWords, HostEntries, ConcatProperties DEF Init, CacheInit
  <1>3. memory \in Seq(Word)
    BY <1>2 DEF CodeWord
  <1>4. CacheInv
    BY <1>1, <1>2, <1>3, ZeroBlockType DEF Init, CacheInit, CacheInv, CacheTypeOK, Idle
  <1>5. DispatcherTypeOK
    <2>1. regs \in [Reg -> Int] /\ slot \in Int
      BY InitialRegsAssumption DEF Init
    <2>2. frame \in FrameType
      BY EmptyFrameType DEF Init
    <2>3. /\ phase \in Phase
          /\ status \in Status
          /\ ip \in Int
          /\ served \in Int
          /\ edges \subseteq Int \X Int
      BY DEF Init, Phase, Status
    <2>4. taken \in BOOLEAN
      BY DEF Init
    <2> QED
      BY <2>1, <2>2, <2>3, <2>4 DEF DispatcherTypeOK, FrameType
  <1>6. HistoryTypeOK
    BY DEF Init, HistoryTypeOK
  <1> QED
    BY <1>4, <1>5, <1>6

(* Every step of the engine keeps the types.                               *)
LEMMA NextType ==
  ASSUME TypeInv, [Next]_vars
  PROVE  TypeInv'
  <1>0. CacheInv /\ DispatcherTypeOK /\ HistoryTypeOK
    BY TypeInvParts
  <1>1. CASE RunStep
    BY <1>1, RunStepType
  <1>2. CASE HostStep
    BY <1>2, HostStepType
  <1>3. CASE Allocate
    <2>1. CacheInv'
      BY <1>0, <1>3, AllocStepType DEF Allocate
    <2>2. DispatcherTypeOK' /\ HistoryTypeOK'
      BY <1>0, <1>3, HistoryUnchanged DEF Allocate, DispatcherTypeOK, Status
    <2> QED
      BY <2>1, <2>2, TypeInvParts, PTL
  <1>4. CASE Halted \/ UNCHANGED vars
    <2>1. UNCHANGED cacheVars /\ UNCHANGED dispatcherVars /\ UNCHANGED history
      BY <1>4 DEF Halted, vars
    <2>2. DispatcherTypeOK'
      BY <1>0, <2>1 DEF DispatcherTypeOK, dispatcherVars
    <2> QED
      BY <1>0, <2>1, <2>2, CacheUnchanged, HistoryUnchanged, TypeInvParts, PTL
  <1> QED
    BY <1>1, <1>2, <1>3, <1>4 DEF Next

(* Whatever the guest's text, the registered routines and the sizes, every *)
(* variable of the engine keeps its type, and every word of the cache that *)
(* stands for a guest instruction names one of the text.                   *)
THEOREM TypeCorrect == Spec => []TypeOK
  <1>1. Init => TypeInv
    BY InitType
  <1>2. TypeInv /\ [Next]_vars => TypeInv'
    BY NextType
  <1>3. TypeInv => TypeOK
    BY DEF TypeInv
  <1> QED
    BY <1>1, <1>2, <1>3, PTL DEF Spec

-----------------------------------------------------------------------------
(* The metadata describes the text.  While a block is being laid out its   *)
(* straight-line part must already be right, and allocatedPrev must count  *)
(* it: the cut before a pre-instrumented instruction relies on it.         *)

StraightLine(a, end) == \A x \in a..(end - 1) : Fetch(x).op \notin ControlOp \cup {"none"}

AllocDescribesText ==
  alloc.busy =>
    LET first == alloc.railBB.firstAddr
    IN  /\ first <= program_counter
        /\ alloc.allocatedPrev = program_counter - first
        /\ alloc.railBB.startInst = Fetch(first)
        /\ StraightLine(first, program_counter)

MetadataOK == BlocksDescribeText /\ AllocDescribesText

(* Straight-line code grows by an instruction that does not leave.         *)
LEMMA StraightLineLonger ==
  ASSUME NEW a \in Int, NEW end \in Int, StraightLine(a, end),
         Fetch(end).op \notin ControlOp \cup {"none"}
  PROVE  StraightLine(a, end + 1)
  <1>1. (end + 1) - 1 = end
    OBVIOUS
  <1>2. \A x \in a..end : x = end \/ x \in a..(end - 1)
    OBVIOUS
  <1>3. \A x \in a..end : Fetch(x).op \notin ControlOp \cup {"none"}
    BY <1>2 DEF StraightLine
  <1> QED
    BY <1>1, <1>3 DEF StraightLine

(* The types of the allocator's activation, named apart.                   *)
LEMMA AllocTypes ==
  ASSUME CacheInv
  PROVE  /\ program_counter \in Int
         /\ alloc.railBB \in Block
         /\ alloc.railBB.firstAddr \in Int
         /\ alloc.allocatedPrev \in Nat
  BY DEF CacheInv, CacheTypeOK, Block

(* A block closed at the cursor, or just before it, describes the text.    *)
LEMMA ClosedDescribesText ==
  ASSUME CacheInv, AllocDescribesText, alloc.busy,
         NEW type \in BlockType, NEW a \in Int, NEW words,
         alloc.railBB.firstAddr <= a, a <= program_counter,
         Fetch(a).op # "none", EndsBlock(type, Fetch(a).op)
  PROVE  DescribesText(alloc.railBB.firstAddr, Closed(type, a, words))
  <1> DEFINE bb == Closed(type, a, words)
             first == alloc.railBB.firstAddr
  <1>1. /\ bb.firstAddr = first
        /\ bb.lastAddr = a
        /\ bb.startInst = alloc.railBB.startInst
        /\ bb.terminalInst = Fetch(a)
        /\ bb.type = type
    BY AllocTypes DEF Closed, Block
  <1>2. first \in Int /\ program_counter \in Int
    BY AllocTypes
  <1>3. alloc.railBB.startInst = Fetch(first) /\ StraightLine(first, program_counter)
    BY DEF AllocDescribesText
  <1>4. \A x \in first..(a - 1) : Fetch(x).op \notin ControlOp \cup {"none"}
    BY <1>2, <1>3 DEF StraightLine
  <1>5. \A x \in first..a : x = a \/ x \in first..(a - 1)
    BY <1>2
  <1>6. \A x \in first..a : Fetch(x).op # "none"
    BY <1>4, <1>5
  <1>7. DescribesText(first, bb)
    <2> HIDE DEF bb, first
    <2>1. first <= a /\ \A x \in first..(a - 1) : Fetch(x).op \notin ControlOp
      BY <1>4 DEF first
    <2> QED
      BY <1>1, <1>3, <1>6, <2>1 DEF DescribesText
  <1> QED
    BY <1>7

(* Inserting a block that describes the text leaves only blocks that do.   *)
LEMMA InsertedDescribesText ==
  ASSUME NEW blocks, \A a \in DOMAIN blocks : DescribesText(a, blocks[a]),
         NEW bb, DescribesText(bb.firstAddr, bb)
  PROVE  \A a \in DOMAIN InsertedBB(blocks, bb) :
            DescribesText(a, InsertedBB(blocks, bb)[a])
  BY DEF InsertedBB

(* DescribesText looks at nothing but the text.                            *)
LEMMA SameText ==
  ASSUME text' = text
  PROVE  /\ \A a : Fetch(a)' = Fetch(a)
         /\ \A a, b : DescribesText(a, b)' <=> DescribesText(a, b)
         /\ \A a, b : StraightLine(a, b)' <=> StraightLine(a, b)
  BY DEF Fetch, DescribesText, EndsBlock, StraightLine

(* Steps that leave the allocator's variables alone keep the metadata      *)
(* right.                                                                  *)
LEMMA MetadataUnchanged ==
  ASSUME MetadataOK, UNCHANGED cacheVars
  PROVE  MetadataOK'
  BY DEF MetadataOK, BlocksDescribeText, AllocDescribesText, DescribesText, EndsBlock,
         StraightLine, Fetch, cacheVars

(* allocateBB starts with an activation that describes the empty stretch   *)
(* at its address.                                                         *)
LEMMA AllocBeginMetadata ==
  ASSUME CacheInv, MetadataOK, NEW a \in Int, AllocBegin(a)
  PROVE  MetadataOK'
  <1>1. text' = text /\ RailBasicBlocks' = RailBasicBlocks
    BY DEF AllocBegin
  <1>2. BlocksDescribeText'
    BY <1>1, SameText DEF MetadataOK, BlocksDescribeText
  <1>3. /\ program_counter' = a
        /\ alloc'.railBB.firstAddr = a
        /\ alloc'.allocatedPrev = 0
        /\ alloc'.railBB.startInst = Fetch(a)
    BY DEF AllocBegin, ZeroBlock
  <1>4. StraightLine(a, a)
    BY DEF StraightLine
  <1>5. AllocDescribesText'
    <2>1. Fetch(a)' = Fetch(a) /\ StraightLine(a, a)'
      BY <1>1, <1>4, SameText
    <2> QED
      BY <1>3, <2>1, <1>1 DEF AllocDescribesText, StraightLine, Fetch
  <1> QED
    BY <1>2, <1>5 DEF MetadataOK

(* Inserting a block that describes the text, with the allocator done.     *)
LEMMA InsertMetadata ==
  ASSUME MetadataOK, text' = text, alloc' = Idle,
         NEW bb, DescribesText(bb.firstAddr, bb),
         RailBasicBlocks' = InsertedBB(RailBasicBlocks, bb)
  PROVE  MetadataOK'
  <1>1. \A a \in DOMAIN RailBasicBlocks' : DescribesText(a, RailBasicBlocks'[a])
    BY InsertedDescribesText DEF MetadataOK, BlocksDescribeText
  <1>2. BlocksDescribeText'
    BY <1>1, SameText DEF BlocksDescribeText
  <1>3. AllocDescribesText'
    BY DEF AllocDescribesText, Idle
  <1> QED
    BY <1>2, <1>3 DEF MetadataOK

(* Closing a block keeps its first address.                                *)
LEMMA ClosedFirstAddr ==
  ASSUME CacheInv, NEW type, NEW a, NEW words
  PROVE  Closed(type, a, words).firstAddr = alloc.railBB.firstAddr
  BY AllocTypes DEF Closed, Block

(* An instruction that ends the block inserts a block that describes the   *)
(* text.                                                                   *)
LEMMA FinishMetadata ==
  ASSUME CacheInv, MetadataOK, NEW type \in BlockType, NEW words,
         Regular(Fetch(program_counter)),
         EndsBlock(type, Fetch(program_counter).op),
         FinishWith(type, words), text' = text
  PROVE  MetadataOK'
  <1> DEFINE bb == Closed(type, program_counter, memory \o words)
  <1>1. /\ alloc.busy
        /\ alloc.railBB.firstAddr <= program_counter
        /\ program_counter <= program_counter
        /\ program_counter \in Int
        /\ Fetch(program_counter).op # "none"
    BY AllocTypes DEF MetadataOK, AllocDescribesText, Regular
  <1>2. DescribesText(alloc.railBB.firstAddr, bb)
    BY <1>1, ClosedDescribesText DEF MetadataOK
  <1>3. DescribesText(bb.firstAddr, bb)
    BY <1>2, ClosedFirstAddr
  <1>4. RailBasicBlocks' = InsertedBB(RailBasicBlocks, bb) /\ alloc' = Idle
    BY DEF FinishWith
  <1> HIDE DEF bb
  <1> QED
    BY <1>3, <1>4, InsertMetadata

(* An instruction after which the loop goes on extends the straight line   *)
(* by one.                                                                 *)
LEMMA ContinueMetadata ==
  ASSUME CacheInv, MetadataOK, NEW words, Regular(Fetch(program_counter)),
         Fetch(program_counter).op \notin ControlOp, ContinueWith(words), text' = text
  PROVE  MetadataOK'
  <1> DEFINE first == alloc.railBB.firstAddr
             pc    == program_counter
  <1>1. pc \in Int /\ first \in Int
    BY AllocTypes
  <1>2. /\ alloc.busy
        /\ first <= pc
        /\ alloc.allocatedPrev = pc - first
        /\ alloc.railBB.startInst = Fetch(first)
        /\ StraightLine(first, pc)
        /\ Fetch(pc).op \notin ControlOp \cup {"none"}
    BY DEF MetadataOK, AllocDescribesText, Regular
  <1>3. /\ pc' = pc + 1
        /\ alloc'.railBB = alloc.railBB
        /\ alloc'.busy
        /\ alloc'.allocatedPrev = alloc.allocatedPrev + 1
    BY <1>2 DEF ContinueWith, CacheInv, CacheTypeOK
  <1>4. StraightLine(first, pc + 1)
    BY <1>1, <1>2, StraightLineLonger
  <1>5. AllocDescribesText'
    <2>1. /\ alloc'.railBB.firstAddr = first
          /\ first <= pc'
          /\ alloc'.allocatedPrev = pc' - first
      BY <1>1, <1>2, <1>3
    <2>2. alloc'.railBB.startInst = Fetch(first)
      BY <1>2, <1>3
    <2>3. StraightLine(first, pc')
      BY <1>3, <1>4
    <2> HIDE DEF first, pc
    <2>4. (\A a : Fetch(a)' = Fetch(a)) /\ ControlOp' = ControlOp
      BY SameText
    <2> QED
      BY <2>1, <2>2, <2>3, <2>4 DEF AllocDescribesText, StraightLine, Fetch, pc
  <1>6. BlocksDescribeText'
    <2>1. RailBasicBlocks' = RailBasicBlocks
      BY DEF ContinueWith
    <2> QED
      BY <2>1, SameText DEF MetadataOK, BlocksDescribeText
  <1> QED
    BY <1>5, <1>6 DEF MetadataOK

(* A typed PRE routine cuts the block before its instruction and gives     *)
(* that one a block; both describe the text.                               *)
LEMMA PreInstMetadata ==
  ASSUME CacheInv, MetadataOK, AllocPreInst
  PROVE  MetadataOK'
  <1> DEFINE pc     == program_counter
             i      == Fetch(pc)
             cut    == alloc.allocatedPrev > 0
             words  == IF cut THEN memory \o SwitchTo(ContextSwitch) ELSE memory
             seg    == Closed("SEGMENTED", LastLaidOut, words)
             blocks == IF cut THEN InsertedBB(RailBasicBlocks, seg) ELSE RailBasicBlocks
             bb     == PreInstBB(i, words)
  <1>1. pc \in Int /\ alloc.railBB.firstAddr \in Int /\ alloc.allocatedPrev \in Nat
    BY AllocTypes
  <1>2. alloc.busy /\ i.op # "none" /\ text' = text /\ alloc' = Idle
    BY DEF AllocPreInst
  <1>3. \A a \in DOMAIN blocks : DescribesText(a, blocks[a])
    <2>1. CASE cut
      <3>1. /\ alloc.allocatedPrev = pc - alloc.railBB.firstAddr
            /\ StraightLine(alloc.railBB.firstAddr, pc)
        BY <1>2 DEF MetadataOK, AllocDescribesText
      <3>2. /\ LastLaidOut \in Int
            /\ alloc.railBB.firstAddr <= LastLaidOut
            /\ LastLaidOut <= program_counter
            /\ LastLaidOut \in alloc.railBB.firstAddr..(pc - 1)
        BY <1>1, <2>1, <3>1 DEF LastLaidOut
      <3>3. Fetch(LastLaidOut).op \notin ControlOp \cup {"none"}
        BY <3>1, <3>2 DEF StraightLine
      <3>4. /\ Fetch(LastLaidOut).op # "none"
            /\ EndsBlock("SEGMENTED", Fetch(LastLaidOut).op)
            /\ "SEGMENTED" \in BlockType
        BY <3>3 DEF EndsBlock, BlockType
      <3>5. DescribesText(alloc.railBB.firstAddr, seg)
        <4> HIDE DEF words
        <4> QED
          BY <1>2, <3>2, <3>4, ClosedDescribesText DEF MetadataOK
      <3>6. DescribesText(seg.firstAddr, seg)
        <4> HIDE DEF words
        <4> QED
          BY <3>5, ClosedFirstAddr
      <3> HIDE DEF seg
      <3>7. \A a \in DOMAIN RailBasicBlocks : DescribesText(a, RailBasicBlocks[a])
        BY DEF MetadataOK, BlocksDescribeText
      <3> QED
        BY <2>1, <3>6, <3>7, InsertedDescribesText
    <2>2. CASE ~cut
      BY <2>2 DEF MetadataOK, BlocksDescribeText
    <2> QED
      BY <2>1, <2>2
  <1>4. DescribesText(bb.firstAddr, bb)
    <2> HIDE DEF words
    <2>1. /\ bb.firstAddr = pc
          /\ bb.lastAddr = pc
          /\ bb.startInst = i
          /\ bb.terminalInst = i
          /\ bb.type = NextInstType(i.op)
      BY DEF PreInstBB
    <2>2. i \in Inst
      BY FetchType DEF CacheInv, CacheTypeOK
    <2>3. EndsBlock(NextInstType(i.op), i.op)
      BY <1>2, <2>2 DEF EndsBlock, NextInstType, ControlOp, Inst, Opcode
    <2>4. \A x \in pc..pc : x = pc
      BY <1>1
    <2>5. \A x \in pc..(pc - 1) : FALSE
      BY <1>1
    <2> HIDE DEF bb
    <2> QED
      BY <1>1, <1>2, <2>1, <2>3, <2>4, <2>5 DEF DescribesText
  <1>5. RailBasicBlocks' = blocks \/ RailBasicBlocks' = InsertedBB(blocks, bb)
    BY DEF AllocPreInst
  <1>6. \A a \in DOMAIN RailBasicBlocks' : DescribesText(a, RailBasicBlocks'[a])
    <2> HIDE DEF blocks, bb
    <2> QED
      BY <1>3, <1>4, <1>5, InsertedDescribesText
  <1>7. BlocksDescribeText'
    BY <1>2, <1>6, SameText DEF BlocksDescribeText
  <1>8. AllocDescribesText'
    BY <1>2 DEF AllocDescribesText, Idle
  <1> QED
    BY <1>7, <1>8 DEF MetadataOK

(* An ECALL ends a block that describes the text.                          *)
LEMMA SystemMetadata ==
  ASSUME CacheInv, MetadataOK, AllocSystem
  PROVE  MetadataOK'
  <1> DEFINE exit == memory \o SwitchTo(ContextSwitch)
             bb   == Closed("SYSCALL", program_counter, exit)
  <1>1. /\ alloc.busy
        /\ alloc.railBB.firstAddr <= program_counter
        /\ program_counter <= program_counter
        /\ program_counter \in Int
        /\ Fetch(program_counter).op # "none"
        /\ EndsBlock("SYSCALL", Fetch(program_counter).op)
        /\ "SYSCALL" \in BlockType
    BY AllocTypes DEF AllocSystem, MetadataOK, AllocDescribesText, Regular, EndsBlock,
                      BlockType
  <1>2. DescribesText(alloc.railBB.firstAddr, bb)
    <2> HIDE DEF exit
    <2> QED
      BY <1>1, ClosedDescribesText DEF MetadataOK
  <1>3. DescribesText(bb.firstAddr, bb)
    <2> HIDE DEF exit
    <2> QED
      BY <1>2, ClosedFirstAddr
  <1>4. /\ RailBasicBlocks' = InsertedBB(RailBasicBlocks, bb)
        /\ alloc' = Idle
        /\ text' = text
    BY DEF AllocSystem
  <1> HIDE DEF bb
  <1> QED
    BY <1>3, <1>4, InsertMetadata

(* Every step of allocateBB's loop keeps the metadata right.               *)
LEMMA AllocStepMetadata ==
  ASSUME CacheInv, MetadataOK, AllocStep
  PROVE  MetadataOK'
  <1> DEFINE i == Fetch(program_counter)
  <1>1. CASE AllocPreInst
    BY <1>1, PreInstMetadata
  <1>2. CASE AllocBranch
    <2>1. EndsBlock("DIRECT_BRANCH", i.op) /\ "DIRECT_BRANCH" \in BlockType
      BY <1>2 DEF AllocBranch, EndsBlock, BlockType
    <2> QED
      BY <1>2, <2>1, FinishMetadata DEF AllocBranch
  <1>3. CASE AllocJal
    <2>1. EndsBlock("DIRECT_BRANCH", i.op) /\ "DIRECT_BRANCH" \in BlockType
      BY <1>3 DEF AllocJal, EndsBlock, BlockType
    <2> QED
      BY <1>3, <2>1, FinishMetadata DEF AllocJal
  <1>4. CASE AllocJalr
    <2>1. EndsBlock("INDIRECT_BRANCH", i.op) /\ "INDIRECT_BRANCH" \in BlockType
      BY <1>4 DEF AllocJalr, EndsBlock, BlockType
    <2> QED
      BY <1>4, <2>1, FinishMetadata DEF AllocJalr
  <1>5. CASE AllocSystem
    BY <1>5, SystemMetadata
  <1>6. CASE AllocInLine
    <2>1. /\ Regular(i) /\ i.op \notin ControlOp /\ text' = text
          /\ EndsBlock("SEGMENTED", i.op) /\ "SEGMENTED" \in BlockType
      BY <1>6 DEF AllocInLine, EndsBlock, BlockType
    <2>2. \/ FinishWith("SEGMENTED", InLine(i, program_counter)
                                        \o SwitchTo(ContextSwitchTaken))
          \/ ContinueWith(InLine(i, program_counter))
      BY <1>6 DEF AllocInLine
    <2> QED
      BY <2>1, <2>2, FinishMetadata, ContinueMetadata
  <1>7. CASE AllocAmo
    <2>1. i.op \notin ControlOp
      BY <1>7 DEF AllocAmo, ControlOp
    <2> QED
      BY <1>7, <2>1, ContinueMetadata DEF AllocAmo
  <1>8. CASE AllocEnd
    <2>1. BlocksDescribeText'
      BY <1>8, SameText DEF AllocEnd, MetadataOK, BlocksDescribeText
    <2>2. AllocDescribesText'
      BY <1>8 DEF AllocEnd, AllocDescribesText, Idle
    <2> QED
      BY <2>1, <2>2 DEF MetadataOK
  <1> QED
    BY <1>1, <1>2, <1>3, <1>4, <1>5, <1>6, <1>7, <1>8 DEF AllocStep

(* stub's change of a block's basicBlockAddress.                           *)
LEMMA AdoptMetadata ==
  ASSUME CacheInv, MetadataOK, Stub_Enter
  PROVE  MetadataOK'
  <1> DEFINE key == frame.nextBlockAddr
             bba == frame.currentBasicBlock.basicBlockAddress
  <1>1. /\ text' = text
        /\ program_counter' = program_counter
        /\ alloc' = alloc
    BY DEF Stub_Enter
  <1>2. RailBasicBlocks' \in {RailBasicBlocks,
                              [RailBasicBlocks EXCEPT ![key].basicBlockAddress = bba]}
    BY DEF Stub_Enter, AdoptSegment
  <1>3. DOMAIN RailBasicBlocks' = DOMAIN RailBasicBlocks
    BY <1>2
  <1>4. \A a \in DOMAIN RailBasicBlocks : DescribesText(a, RailBasicBlocks'[a])
    <2> SUFFICES ASSUME NEW a \in DOMAIN RailBasicBlocks
                 PROVE  DescribesText(a, RailBasicBlocks'[a])
      OBVIOUS
    <2>1. RailBasicBlocks[a] \in Block /\ DescribesText(a, RailBasicBlocks[a])
      BY DEF CacheInv, CacheTypeOK, MetadataOK, BlocksDescribeText
    <2>2. \/ RailBasicBlocks'[a] = RailBasicBlocks[a]
          \/ RailBasicBlocks'[a] = [RailBasicBlocks[a] EXCEPT !.basicBlockAddress = bba]
      BY <1>2
    <2>3. DescribesText(a, [RailBasicBlocks[a] EXCEPT !.basicBlockAddress = bba])
      BY <2>1 DEF DescribesText, Block
    <2> QED
      BY <2>1, <2>2, <2>3
  <1>5. BlocksDescribeText'
    BY <1>1, <1>3, <1>4, SameText DEF BlocksDescribeText
  <1>6. AllocDescribesText'
    BY <1>1, SameText DEF MetadataOK, AllocDescribesText
  <1> QED
    BY <1>5, <1>6 DEF MetadataOK

(* stub's edge, locals and allocation keep the metadata right.             *)
LEMMA LeaveForMetadata ==
  ASSUME CacheInv, MetadataOK, NEW cur, NEW next \in Int, NEW execLast,
         LeaveFor(cur, next, execLast)
  PROVE  MetadataOK'
  BY AllocBeginMetadata, MetadataUnchanged DEF LeaveFor, AllocateIfMissing

(* So does every step of the host,                                         *)
LEMMA HostStepMetadata ==
  ASSUME CacheInv, DispatcherTypeOK, MetadataOK, HostStep
  PROVE  MetadataOK'
  <1> DEFINE cur  == Lookup(currentBB)
             a    == cur.lastAddr
             next == NextBlockAddr(cur.terminalInst, a)
  <1>1. a \in Int /\ a + 1 \in Int /\ next \in Int
    BY CurrentBlockType, NextBlockAddrType
  <1>2. CASE Init_Allocate
    BY <1>2, AllocBeginMetadata DEF Init_Allocate, CacheInv, CacheTypeOK
  <1>3. CASE Stub_Transfer
    <2>1. LeaveFor(cur, next, FALSE)
      BY <1>3 DEF Stub_Transfer
    <2> HIDE DEF cur, next
    <2> QED
      BY <1>1, <2>1, LeaveForMetadata
  <1>4. CASE Stub_Segment \/ Stub_Emulate \/ Stub_Forward
    <2>1. \E e \in BOOLEAN : LeaveFor(cur, a + 1, e)
      BY <1>4 DEF Stub_Segment, Stub_Emulate, Stub_Forward
    <2> HIDE DEF cur, a
    <2> QED
      BY <1>1, <2>1, LeaveForMetadata
  <1>5. CASE Stub_Enter
    BY <1>5, AdoptMetadata
  <1>6. CASE Init_Enter \/ Stub_Exit \/ Stub_GiveUp \/ Instrument
    <2>1. UNCHANGED cacheVars
      BY <1>6 DEF Init_Enter, Stub_Exit, Stub_GiveUp, Instrument
    <2> QED
      BY <2>1, MetadataUnchanged
  <1> QED
    BY <1>2, <1>3, <1>4, <1>5, <1>6 DEF HostStep

(* and every step of the engine.                                           *)
LEMMA NextMetadata ==
  ASSUME TypeInv, MetadataOK, [Next]_vars
  PROVE  MetadataOK'
  <1>0. CacheInv /\ DispatcherTypeOK
    BY TypeInvParts
  <1>1. CASE RunStep
    <2>1. UNCHANGED cacheVars
      BY <1>1 DEF RunStep, RunRestoreScratch, RunInlineSave, RunLi, RunBranch,
                  RunGuestWord, RunEcall, RunJumpInCache, RunSwitch, RunJalRoot, RunCrash
    <2> QED
      BY <2>1, MetadataUnchanged
  <1>2. CASE HostStep
    BY <1>0, <1>2, HostStepMetadata
  <1>3. CASE Allocate
    BY <1>0, <1>3, AllocStepMetadata DEF Allocate
  <1>4. CASE Halted \/ UNCHANGED vars
    BY <1>4, MetadataUnchanged DEF Halted, vars
  <1> QED
    BY <1>1, <1>2, <1>3, <1>4 DEF Next

(* For every text and every set of routines, the metadata of every cached  *)
(* block describes the text: stub's next addresses are the guest's.        *)
THEOREM MetadataCorrect == Spec => []BlocksDescribeText
  <1>1. Init => TypeInv /\ MetadataOK
    <2>1. Init => MetadataOK
      BY DEF Init, CacheInit, MetadataOK, BlocksDescribeText, AllocDescribesText, Idle
    <2> QED
      BY <2>1, InitType
  <1>2. TypeInv /\ MetadataOK /\ [Next]_vars => (TypeInv /\ MetadataOK)'
    BY NextType, NextMetadata
  <1>3. TypeInv /\ MetadataOK => BlocksDescribeText
    BY DEF MetadataOK
  <1> QED
    BY <1>1, <1>2, <1>3, PTL DEF Spec
=============================================================================
