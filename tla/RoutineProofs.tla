---------------------------- MODULE RoutineProofs ----------------------------
(***************************************************************************)
(* Proofs about the user's routines: each is called for each instruction   *)
(* it is registered for, once, before or after it; basic-block routines    *)
(* bracket their block; and edges of the control-flow graph start where a  *)
(* basic block does.                                                       *)
(***************************************************************************)
EXTENDS ControlProofs

-----------------------------------------------------------------------------
(* Counting calls.                                                         *)

(* How many of the types registered an instruction is of.                  *)
LEMMA ApplicableCount ==
  ASSUME NEW types, NEW i \in Inst
  PROVE  Cardinality(Applicable(types, i)) =
           One(getType(i.op) \in types)
             + One(i.op \in MemoryOp /\ "MEM_ACCESS" \in types)
             + One(i.op \in {"SYSTEM", "AMO"} /\ i.op \in types)
  <1> DEFINE t == getType(i.op)
             c == t \in types
             d == i.op \in MemoryOp /\ "MEM_ACCESS" \in types
             e == i.op \in {"SYSTEM", "AMO"} /\ i.op \in types
             A == {} \cup {y \in {t} : c}
             B == A \cup {y \in {"MEM_ACCESS"} : d}
             C == B \cup {y \in {i.op} : e}
  <1>1. t \in {"I", "S", "U", "B", "J", "R"}
    BY DEF getType
  <1>2. t # "MEM_ACCESS" /\ t # "SYSTEM" /\ t # "AMO"
    BY <1>1
  <1>3. i.op # "MEM_ACCESS"
    BY DEF Inst, Opcode
  <1>4. t # i.op
    <2>1. i.op \notin {"I", "S", "U", "B", "J", "R"}
      BY DEF Inst, Opcode
    <2> QED
      BY <1>1, <2>1
  <1>5. Applicable(types, i) = C
    BY DEF Applicable
  <1>6. c \in BOOLEAN /\ d \in BOOLEAN /\ e \in BOOLEAN
    OBVIOUS
  <1> HIDE DEF t, c, d, e
  <1>7. IsFiniteSet(A) /\ Cardinality(A) = One(c)
    <2>1. IsFiniteSet(A) /\ Cardinality(A) = Cardinality({}) + One(c)
      BY <1>6, FS_EmptySet, CountOne
    <2> QED
      BY <2>1, FS_EmptySet, OneType
  <1>8. IsFiniteSet(B) /\ Cardinality(B) = Cardinality(A) + One(d)
    <2>1. "MEM_ACCESS" \notin A
      BY <1>2
    <2> HIDE DEF A
    <2> QED
      BY <1>6, <1>7, <2>1, CountOne
  <1>9. Cardinality(C) = Cardinality(B) + One(e)
    <2>1. i.op \notin B
      BY <1>3, <1>4
    <2> HIDE DEF B
    <2> QED
      BY <1>6, <1>8, <2>1, CountOne
  <1>10. Cardinality(C) = One(c) + One(d) + One(e)
    BY <1>7, <1>8, <1>9
  <1> HIDE DEF C
  <1> QED
    BY <1>5, <1>10 DEF t, c, d, e

(* What the routines of an instruction amount to.  No opcode is the type   *)
(* "AMO", and the routines for "SYSTEM" are called apart.                  *)
LEMMA Routineless ==
  ASSUME NoInstRoutines
  PROVE  /\ AtomicsUntouched
         /\ \A i : ~SegmentsAfter(i) /\ ~NeedsPreBlock(i)
  BY DEF NoInstRoutines, AtomicsUntouched, SegmentsAfter, NeedsPreBlock

LEMMA NoTypedPre ==
  ASSUME NEW i, ~NeedsPreBlock(i)
  PROVE  NumTypedPreCalls(i) = 0
  BY DEF NeedsPreBlock, preInstrumentationRoutines, NumTypedPreCalls, One

LEMMA PreWanted ==
  ASSUME text \in Seq(Inst), AtomicsUntouched, NEW a \in TextRange
  PROVE  Wanted(tool.instPre, tool.typedPre, a) =
           Times(One(tool.instPre) + NumTypedPreCalls(text[a])
                   + (IF text[a].op = "SYSTEM" THEN NumSystemCalls(tool.typedPre) ELSE 0), a)
  <1> DEFINE i == text[a]
             c == getType(i.op) \in tool.typedPre
             d == i.op \in MemoryOp /\ "MEM_ACCESS" \in tool.typedPre
             e == i.op \in {"SYSTEM", "AMO"} /\ i.op \in tool.typedPre
             n == IF i.op = "SYSTEM" THEN NumSystemCalls(tool.typedPre) ELSE 0
  <1>1. i \in Inst
    BY DEF TextRange
  <1>2. Cardinality(Applicable(tool.typedPre, i)) = One(c) + One(d) + One(e)
    BY <1>1, ApplicableCount
  <1>3. One(e) = n
    <2>1. i.op = "AMO" => "AMO" \notin tool.typedPre
      BY DEF AtomicsUntouched
    <2> QED
      BY <2>1 DEF NumSystemCalls, One
  <1>4. NumTypedPreCalls(i) = One(c) + One(d)
    BY DEF NumTypedPreCalls
  <1>5. One(tool.instPre) + (One(c) + One(d) + One(e)) = One(tool.instPre) + (One(c) + One(d)) + n
    <2>1. One(c) \in Nat /\ One(d) \in Nat /\ One(e) \in Nat /\ One(tool.instPre) \in Nat
      BY OneType
    <2> HIDE DEF c, d, e, n
    <2> QED
      BY <1>3, <2>1
  <1> HIDE DEF c, d, e
  <1> QED
    BY <1>2, <1>4, <1>5 DEF Wanted

LEMMA PostWanted ==
  ASSUME text \in Seq(Inst), AtomicsUntouched, NEW a \in TextRange
  PROVE  Wanted(tool.instPost, tool.typedPost, a) =
           Times((IF text[a].op = "SYSTEM" THEN NumSystemCalls(tool.typedPost) ELSE 0)
                   + NumPostCalls(text[a]), a)
  <1> DEFINE i == text[a]
             c == getType(i.op) \in tool.typedPost
             d == i.op \in MemoryOp /\ "MEM_ACCESS" \in tool.typedPost
             e == i.op \in {"SYSTEM", "AMO"} /\ i.op \in tool.typedPost
             n == IF i.op = "SYSTEM" THEN NumSystemCalls(tool.typedPost) ELSE 0
  <1>1. i \in Inst
    BY DEF TextRange
  <1>2. Cardinality(Applicable(tool.typedPost, i)) = One(c) + One(d) + One(e)
    BY <1>1, ApplicableCount
  <1>3. One(e) = n
    <2>1. i.op = "AMO" => "AMO" \notin tool.typedPost
      BY DEF AtomicsUntouched
    <2> QED
      BY <2>1 DEF NumSystemCalls, One
  <1>4. NumPostCalls(i) = One(tool.instPost) + One(c) + One(d)
    BY DEF NumPostCalls
  <1>5. One(tool.instPost) + (One(c) + One(d) + One(e)) = n + (One(tool.instPost) + One(c) + One(d))
    <2>1. One(c) \in Nat /\ One(d) \in Nat /\ One(e) \in Nat /\ One(tool.instPost) \in Nat
      BY OneType
    <2> HIDE DEF c, d, e, n
    <2> QED
      BY <1>3, <2>1
  <1> HIDE DEF c, d, e
  <1> QED
    BY <1>2, <1>4, <1>5 DEF Wanted

(* Between two instructions of a block no routine is wanted.               *)
LEMMA NothingBetween ==
  ASSUME text \in Seq(Inst), AtomicsUntouched, NEW a \in TextRange, ~SegmentsAfter(text[a]),
         text[a].op \notin ControlOp
  PROVE  /\ ~tool.instPre
         /\ Wanted(tool.instPost, tool.typedPost, a) = << >>
  <1>1. ~tool.instPre /\ ~tool.instPost /\ tool.typedPost \cap SegmentTypes(text[a].op) = {}
    BY DEF SegmentsAfter
  <1>2. getType(text[a].op) \notin tool.typedPost
    BY <1>1 DEF SegmentTypes, MemoryOp, getType
  <1>3. text[a].op \in MemoryOp => "MEM_ACCESS" \notin tool.typedPost
    BY <1>1 DEF SegmentTypes
  <1>4. NumPostCalls(text[a]) = 0
    BY <1>1, <1>2, <1>3 DEF NumPostCalls, One
  <1>5. text[a].op # "SYSTEM"
    BY DEF ControlOp
  <1>6. Wanted(tool.instPost, tool.typedPost, a) = Times(0, a)
    BY <1>4, <1>5, PostWanted
  <1> QED
    BY <1>1, <1>6, NoTimes

-----------------------------------------------------------------------------
(* Where blocks are cut.                                                   *)

LEMMA SameCalls ==
  ASSUME text' = text, tool' = tool
  PROVE  /\ AtomicsUntouched' <=> AtomicsUntouched
         /\ NoInstRoutines' <=> NoInstRoutines
         /\ RoutinesApart' <=> RoutinesApart
         /\ \A i : SegmentsAfter(i)' <=> SegmentsAfter(i)
         /\ \A i : NeedsPreBlock(i)' <=> NeedsPreBlock(i)
         /\ \A m, blocks : AllWellCut(m, blocks)' <=> AllWellCut(m, blocks)
  <1>1. /\ AtomicsUntouched' <=> AtomicsUntouched
        /\ NoInstRoutines' <=> NoInstRoutines
        /\ RoutinesApart' <=> RoutinesApart
    BY DEF AtomicsUntouched, NoInstRoutines, RoutinesApart, TextRange
  <1>2. /\ \A i : SegmentsAfter(i)' <=> SegmentsAfter(i)
        /\ \A i : NeedsPreBlock(i)' <=> NeedsPreBlock(i)
    BY RigidBlock DEF SegmentsAfter
  <1>3. \A a : Fetch(a)' = Fetch(a)
    BY SameText
  <1>4. \A m, b : WellCut(m, b)' <=> WellCut(m, b)
    BY <1>2, <1>3 DEF WellCut
  <1>5. \A m, blocks : AllWellCut(m, blocks)' <=> AllWellCut(m, blocks)
    BY <1>1, <1>4 DEF AllWellCut, Whole
  <1> QED
    BY <1>1, <1>2, <1>5

(* Code is only added to the cache.                                        *)
Extends(n, m) == \A k \in 1..Len(m) : n[k] = m[k]

LEMMA Added ==
  ASSUME NEW m \in Seq(CodeWord), NEW ws \in Seq(CodeWord)
  PROVE  /\ Extends(m, m) /\ Extends(m \o ws, m)
         /\ \A us \in Seq(CodeWord) : Extends((m \o ws) \o us, m)
  <1>1. Extends(m, m) /\ Extends(m \o ws, m)
    BY Joined DEF Extends
  <1>2. ASSUME NEW us \in Seq(CodeWord)
        PROVE  Extends((m \o ws) \o us, m)
    <2>1. /\ m \o ws \in Seq(CodeWord) /\ Len(m) \in Nat /\ Len(ws) \in Nat
          /\ Len(m \o ws) = Len(m) + Len(ws)
          /\ \A k \in 1..Len(m) : (m \o ws)[k] = m[k]
      BY Joined
    <2>2. \A k \in 1..Len(m \o ws) : ((m \o ws) \o us)[k] = (m \o ws)[k]
      BY <2>1, Joined
    <2> QED
      BY <2>1, <2>2 DEF Extends
  <1> QED
    BY <1>1, <1>2

LEMMA AllCutKept ==
  ASSUME CacheOK, NEW n, Extends(n, memory), AllWellCut(memory, RailBasicBlocks)
  PROVE  AllWellCut(n, RailBasicBlocks)
  <1>1. ASSUME NEW a \in DOMAIN RailBasicBlocks
        PROVE  RailBasicBlocks[a].startLocationInCache \in 1..Len(memory)
    BY DEF CacheOK, LayoutOK, BlocksLaidOut, AllLaidOut, PlainLayout, PreInstLayout, Holds
  <1> QED
    BY <1>1 DEF AllWellCut, WellCut, Extends

LEMMA InsertedCut ==
  ASSUME NEW m, NEW blocks, AllWellCut(m, blocks),
         NEW bb, WellCut(m, bb), NoInstRoutines => Whole(bb)
  PROVE  AllWellCut(m, InsertedBB(blocks, bb))
  BY DEF AllWellCut, InsertedBB

(* The block closed at a is cut where it must be.                          *)
LEMMA ClosedCut ==
  ASSUME CacheInv, AllocWellCut, alloc.busy, NEW type, NEW a \in Int,
         a <= program_counter,
         a = program_counter => ~NeedsPreBlock(Fetch(program_counter)),
         NoInstRoutines => type # "SEGMENTED",
         NEW words, NEW m
  PROVE  /\ WellCut(m, Closed(type, a, words))
         /\ NoInstRoutines => Whole(Closed(type, a, words))
  <1> DEFINE c == Closed(type, a, words)
  <1>1. alloc.railBB \in Block /\ program_counter \in Int /\ alloc.railBB.firstAddr \in Int
    BY AllocTypes
  <1>2. /\ c.type = type /\ c.lastAddr = a
        /\ c.firstAddr = alloc.railBB.firstAddr
        /\ c.basicBlockAddress = alloc.railBB.basicBlockAddress
    BY <1>1 DEF Closed, Block
  <1>3. /\ \A x \in alloc.railBB.firstAddr..(program_counter - 1) :
             ~SegmentsAfter(Fetch(x)) /\ ~NeedsPreBlock(Fetch(x))
        /\ alloc.railBB.basicBlockAddress = alloc.railBB.firstAddr
    BY DEF AllocWellCut
  <1> HIDE DEF c
  <1>4. \A x \in c.firstAddr..(c.lastAddr - 1) : ~SegmentsAfter(Fetch(x))
    BY <1>1, <1>2, <1>3
  <1>5. \A x \in c.firstAddr..c.lastAddr : ~NeedsPreBlock(Fetch(x))
    BY <1>1, <1>2, <1>3
  <1>6. WellCut(m, c) /\ (NoInstRoutines => Whole(c))
    BY <1>2, <1>3, <1>4, <1>5 DEF WellCut, Whole
  <1> QED
    BY <1>6 DEF c

LEMMA CutUnchanged ==
  ASSUME CutInv, UNCHANGED cacheVars
  PROVE  CutInv'
  <1>1. /\ text' = text /\ tool' = tool /\ memory' = memory /\ alloc' = alloc
        /\ RailBasicBlocks' = RailBasicBlocks /\ program_counter' = program_counter
    BY DEF cacheVars
  <1> QED
    BY <1>1, SameCalls, SameText DEF CutInv, AllocWellCut

(* A step that inserts a block.                                            *)
LEMMA InsertCut ==
  ASSUME CacheOK, CutInv, AtomicsUntouched, text' = text, tool' = tool, alloc' = Idle,
         Extends(memory', memory), NEW bb, WellCut(memory', bb),
         NoInstRoutines => Whole(bb),
         RailBasicBlocks' = InsertedBB(RailBasicBlocks, bb)
  PROVE  CutInv'
  <1>1. AllWellCut(memory', RailBasicBlocks')
    BY AllCutKept, InsertedCut DEF CutInv
  <1>2. AllocWellCut'
    BY DEF AllocWellCut, Idle
  <1> QED
    BY <1>1, <1>2, SameCalls DEF CutInv

LEMMA FinishCut ==
  ASSUME CacheOK, CutInv, AtomicsUntouched, NEW type, NEW words \in Seq(CodeWord),
         Regular(Fetch(program_counter)), NoInstRoutines => type # "SEGMENTED",
         FinishWith(type, words), text' = text, tool' = tool
  PROVE  CutInv'
  <1>1. CacheInv /\ memory \in Seq(CodeWord)
    BY TypeInvParts DEF CacheOK, CacheInv
  <1> DEFINE bb == Closed(type, program_counter, memory \o words)
  <1>2. /\ memory' = memory \o words /\ alloc' = Idle
        /\ RailBasicBlocks' = InsertedBB(RailBasicBlocks, bb)
    BY DEF FinishWith
  <1>3. program_counter \in Int /\ alloc.busy /\ ~NeedsPreBlock(Fetch(program_counter))
        /\ AllocWellCut
    BY <1>1, AllocTypes DEF Regular, CutInv
  <1>4. WellCut(memory', bb) /\ (NoInstRoutines => Whole(bb))
    BY <1>1, <1>3, ClosedCut
  <1>5. Extends(memory', memory)
    BY <1>1, <1>2, Added
  <1> HIDE DEF bb
  <1> QED
    BY <1>2, <1>4, <1>5, InsertCut

LEMMA ContinueCut ==
  ASSUME CacheOK, CutInv, AtomicsUntouched, NEW words \in Seq(CodeWord),
         Regular(Fetch(program_counter)), ~SegmentsAfter(Fetch(program_counter)),
         ContinueWith(words), text' = text, tool' = tool
  PROVE  CutInv'
  <1>1. CacheInv /\ memory \in Seq(CodeWord)
    BY TypeInvParts DEF CacheOK, CacheInv
  <1>2. /\ memory' = memory \o words /\ RailBasicBlocks' = RailBasicBlocks
        /\ program_counter' = program_counter + 1
        /\ alloc' = [alloc EXCEPT !.allocatedPrev = @ + 1]
    BY DEF ContinueWith
  <1>3. alloc'.busy = alloc.busy /\ alloc'.railBB = alloc.railBB
    BY <1>1, <1>2 DEF CacheInv, CacheTypeOK
  <1>4. program_counter \in Int /\ alloc.railBB.firstAddr \in Int /\ alloc.busy
    BY <1>1, AllocTypes DEF Regular
  <1>5. AllWellCut(memory', RailBasicBlocks')
    BY <1>1, <1>2, Added, AllCutKept DEF CutInv
  <1>6. \A x \in alloc.railBB.firstAddr..program_counter :
          ~SegmentsAfter(Fetch(x)) /\ ~NeedsPreBlock(Fetch(x))
    <2>1. \A x \in alloc.railBB.firstAddr..(program_counter - 1) :
            ~SegmentsAfter(Fetch(x)) /\ ~NeedsPreBlock(Fetch(x))
      BY <1>4 DEF CutInv, AllocWellCut
    <2>2. \A x \in alloc.railBB.firstAddr..program_counter :
            x = program_counter \/ x \in alloc.railBB.firstAddr..(program_counter - 1)
      BY <1>4
    <2> QED
      BY <2>1, <2>2 DEF Regular
  <1>7. AllocWellCut'
    <2>1. \A x \in alloc.railBB.firstAddr..(program_counter' - 1) :
            ~SegmentsAfter(Fetch(x)) /\ ~NeedsPreBlock(Fetch(x))
      BY <1>2, <1>4, <1>6
    <2>2. alloc.railBB.basicBlockAddress = alloc.railBB.firstAddr
      BY <1>4 DEF CutInv, AllocWellCut
    <2> QED
      BY <1>3, <2>1, <2>2, SameCalls, SameText DEF AllocWellCut
  <1> QED
    BY <1>5, <1>7, SameCalls DEF CutInv

(* The first word of a pre-instrumented block saves T6, that of any other  *)
(* restores it.                                                            *)
LEMMA PreInstFirstWord ==
  ASSUME NEW m, NEW b, PreInstWords(b) \in Seq(CodeWord),
         NextInstWords(b.terminalInst, b.lastAddr) \in Seq(CodeWord),
         PreInstLayout(m, b)
  PROVE  m[b.startLocationInCache].k = "save"
  <1> DEFINE way  == SwitchTo(ContextSwitchInstrument)
             code == NextInstWords(b.terminalInst, b.lastAddr)
  <1>1. way \in Seq(CodeWord) /\ Len(way) = 6 /\ way[1] = W("save", 0, 0)
    BY SwitchToShape, HostEntries
  <1>2. code \in Seq(CodeWord) /\ PreInstWords(b) = way \o code
    BY DEF PreInstWords
  <1> HIDE DEF way, code
  <1>3. Len(way \o code) = 6 + Len(code) /\ Len(code) \in Nat /\ (way \o code)[1] = way[1]
    <2>1. /\ Len(way \o code) = Len(way) + Len(code) /\ Len(code) \in Nat
          /\ \A k \in 1..Len(way) : (way \o code)[k] = way[k]
      BY <1>1, <1>2, Joined
    <2>2. 1 \in 1..Len(way)
      BY <1>1
    <2>3. (way \o code)[1] = way[1]
      BY <2>1, <2>2
    <2> QED
      BY <1>1, <2>1, <2>3
  <1>4. m[b.startLocationInCache + 1 - 1] = (way \o code)[1] /\ b.startLocationInCache \in Int
    BY <1>2, <1>3 DEF PreInstLayout, Holds
  <1> QED
    BY <1>1, <1>3, <1>4, WordFields

LEMMA PreInstCut ==
  ASSUME CacheOK, CutInv, AtomicsUntouched, AllocPreInst
  PROVE  CutInv'
  <1> DEFINE pc     == program_counter
             i      == Fetch(pc)
             cut    == alloc.allocatedPrev > 0
             exit   == SwitchTo(ContextSwitch)
             words  == IF cut THEN memory \o exit ELSE memory
             seg    == Closed("SEGMENTED", LastLaidOut, words)
             blocks == IF cut THEN InsertedBB(RailBasicBlocks, seg) ELSE RailBasicBlocks
             bb     == PreInstBB(i, words)
             way    == SwitchTo(ContextSwitchInstrument)
             code   == NextInstWords(i, pc)
  <1>1. /\ CacheInv /\ pc \in Int /\ memory \in Seq(CodeWord) /\ exit \in Seq(CodeWord)
    BY TypeInvParts, AllocTypes, LibraryWords, HostEntries DEF CacheOK, CacheInv
  <1>2. /\ alloc.busy /\ i.op # "none" /\ NeedsPreBlock(i)
        /\ text' = text /\ tool' = tool /\ alloc' = Idle
    BY DEF AllocPreInst
  <1>3. \/ memory' = words /\ RailBasicBlocks' = blocks
        \/ memory' = (words \o way) \o code /\ RailBasicBlocks' = InsertedBB(blocks, bb)
    BY DEF AllocPreInst
  <1>4. words \in Seq(CodeWord) /\ Extends(words, memory)
        /\ \A ws, us \in Seq(CodeWord) : Extends((words \o ws) \o us, memory)
    <2>1. CASE cut
      <3>1. memory \o exit \in Seq(CodeWord) /\ Extends(memory \o exit, memory)
            /\ Len(memory \o exit) = Len(memory) + Len(exit) /\ Len(memory) \in Nat
            /\ Len(exit) \in Nat
        BY <1>1, Joined, Added
      <3>2. words = memory \o exit
        BY <2>1
      <3> HIDE DEF words, exit
      <3>3. ASSUME NEW ws \in Seq(CodeWord), NEW us \in Seq(CodeWord)
            PROVE  Extends((words \o ws) \o us, memory)
        <4>1. Extends((words \o ws) \o us, words)
          BY <3>1, <3>2, Added
        <4> QED
          BY <3>1, <3>2, <4>1 DEF Extends
      <3> QED
        BY <3>1, <3>2, <3>3
    <2>2. CASE ~cut
      <3>1. words = memory
        BY <2>2
      <3> HIDE DEF words
      <3> QED
        BY <1>1, <3>1, Added
    <2> QED
      BY <2>1, <2>2
  <1>5. /\ way \in Seq(CodeWord) /\ code \in Seq(CodeWord)
        /\ PreInstLayout((words \o way) \o code, bb)
    <2> HIDE DEF words
    <2> QED
      BY <1>1, <1>2, <1>4, PreInstLaidOut
  <1>6. bb.terminalInst = i /\ bb.firstAddr = pc /\ bb.lastAddr = pc
    BY DEF PreInstBB
  <1>7. WellCut((words \o way) \o code, bb)
    <2>1. PreInstWords(bb) = way \o code
      BY <1>6 DEF PreInstWords
    <2>2. code = NextInstWords(bb.terminalInst, bb.lastAddr)
      BY <1>6
    <2> HIDE DEF bb, words, way, code, i, pc
    <2>3. PreInstWords(bb) \in Seq(CodeWord)
      BY <1>5, <2>1, Joined
    <2>4. ((words \o way) \o code)[bb.startLocationInCache].k = "save"
      BY <1>5, <2>2, <2>3, PreInstFirstWord
    <2>5. bb.firstAddr..(bb.lastAddr - 1) = {}
      BY <1>1, <1>6
    <2> QED
      BY <2>4, <2>5 DEF WellCut
  <1>8. ~NoInstRoutines
    BY <1>2, Routineless
  <1>9. cut => \A m : WellCut(m, seg)
    <2> SUFFICES ASSUME cut, NEW m PROVE WellCut(m, seg)
      OBVIOUS
    <2>1. LastLaidOut \in Int /\ LastLaidOut <= pc /\ LastLaidOut # pc
      BY <1>1 DEF LastLaidOut
    <2> HIDE DEF words
    <2> QED
      BY <1>1, <1>2, <1>8, <2>1, ClosedCut DEF CutInv
  <1>10. /\ ~cut => blocks = RailBasicBlocks
         /\ cut => blocks = InsertedBB(RailBasicBlocks, seg)
    OBVIOUS
  <1>11. memory' = words \/ memory' = (words \o way) \o code
    BY <1>3
  <1>12. \/ RailBasicBlocks' = blocks
         \/ RailBasicBlocks' = InsertedBB(blocks, bb) /\ WellCut(memory', bb)
    BY <1>3, <1>7
  <1> HIDE DEF words, seg, blocks, bb, way, code, i, exit, cut
  <1>13. Extends(memory', memory)
    BY <1>4, <1>5, <1>11
  <1>14. AllWellCut(memory', RailBasicBlocks)
    BY <1>13, AllCutKept DEF CutInv
  <1>15. AllWellCut(memory', blocks)
    BY <1>8, <1>9, <1>10, <1>14, InsertedCut
  <1>16. AllWellCut(memory', RailBasicBlocks')
    BY <1>8, <1>12, <1>15, InsertedCut
  <1>17. AllocWellCut'
    BY <1>2 DEF AllocWellCut, Idle
  <1> QED
    BY <1>2, <1>16, <1>17, SameCalls DEF CutInv

LEMMA SystemCut ==
  ASSUME CacheOK, CutInv, AtomicsUntouched, AllocSystem
  PROVE  CutInv'
  <1> DEFINE exit == SwitchTo(ContextSwitch)
             pc   == program_counter
             bb   == Closed("SYSCALL", pc, memory \o exit)
  <1>1. /\ CacheInv /\ pc \in Int /\ memory \in Seq(CodeWord) /\ exit \in Seq(CodeWord)
    BY TypeInvParts, AllocTypes, LibraryWords, HostEntries DEF CacheOK, CacheInv
  <1>2. /\ Regular(Fetch(pc)) /\ memory' = (memory \o exit) \o Ecall(pc) /\ alloc' = Idle
        /\ RailBasicBlocks' = InsertedBB(RailBasicBlocks, bb)
        /\ text' = text /\ tool' = tool
    BY DEF AllocSystem
  <1>3. alloc.busy /\ ~NeedsPreBlock(Fetch(pc)) /\ AllocWellCut
    BY <1>2 DEF Regular, CutInv
  <1>4. WellCut(memory', bb) /\ (NoInstRoutines => Whole(bb))
    BY <1>1, <1>3, ClosedCut
  <1>5. Ecall(pc) \in Seq(CodeWord)
    <2>1. pc \in DOMAIN text
      BY <1>1, <1>2, FetchType DEF Regular, CacheInv, CacheTypeOK
    <2> QED
      BY <1>1, <2>1, InstWords, NoInstType
  <1>6. Extends(memory', memory)
    <2> HIDE DEF exit
    <2> QED
      BY <1>1, <1>2, <1>5, Added
  <1> HIDE DEF bb
  <1> QED
    BY <1>2, <1>4, <1>6, InsertCut

LEMMA AllocStepCut ==
  ASSUME CacheOK, CutInv, AtomicsUntouched, AllocStep
  PROVE  CutInv'
  <1> DEFINE pc == program_counter
             i  == Fetch(pc)
  <1>1. CacheInv /\ text \in Seq(Inst) /\ pc \in Int
    BY TypeInvParts, AllocTypes DEF CacheOK, CacheInv, CacheTypeOK
  <1>2. i.op # "none" => /\ pc \in DOMAIN text /\ i = text[pc] /\ i \in Inst
                         /\ InLine(i, pc) \in Seq(CodeWord)
                         /\ BranchExit(pc) \in Seq(CodeWord)
    <2> SUFFICES ASSUME i.op # "none"
                 PROVE  /\ pc \in DOMAIN text /\ i = text[pc] /\ i \in Inst
                        /\ InLine(i, pc) \in Seq(CodeWord)
                        /\ BranchExit(pc) \in Seq(CodeWord)
      OBVIOUS
    <2>1. pc \in DOMAIN text /\ i = text[pc] /\ i \in Inst
      BY <1>1, FetchType
    <2> QED
      BY <1>1, <2>1, InstWords
  <1>3. \A h \in {ContextSwitch, ContextSwitchTaken} : SwitchTo(h) \in Seq(CodeWord)
    BY LibraryWords, HostEntries
  <1>4. CASE AllocBranch
    BY <1>2, <1>4, FinishCut DEF AllocBranch, Regular
  <1>5. CASE AllocJal \/ AllocJalr
    BY <1>3, <1>5, FinishCut DEF AllocJal, AllocJalr
  <1>6. CASE AllocInLine
    <2>1. Regular(i) /\ text' = text /\ tool' = tool /\ i.op # "none"
      BY <1>6 DEF AllocInLine, Regular
    <2>2. CASE SegmentsAfter(i)
      <3>1. FinishWith("SEGMENTED", InLine(i, pc) \o SwitchTo(ContextSwitchTaken))
        BY <1>6, <2>2 DEF AllocInLine
      <3>2. InLine(i, pc) \o SwitchTo(ContextSwitchTaken) \in Seq(CodeWord)
        BY <1>2, <1>3, <2>1, Joined
      <3>3. ~NoInstRoutines
        BY <2>2, Routineless
      <3> QED
        BY <2>1, <3>1, <3>2, <3>3, FinishCut
    <2>3. CASE ~SegmentsAfter(i)
      BY <1>2, <1>6, <2>1, <2>3, ContinueCut DEF AllocInLine
    <2> QED
      BY <2>2, <2>3
  <1>7. CASE AllocAmo
    <2>1. Regular(i) /\ text' = text /\ tool' = tool /\ i.op = "AMO"
          /\ ContinueWith(InLine(i, pc))
      BY <1>7 DEF AllocAmo
    <2>2. pc \in TextRange /\ i = text[pc]
      BY <2>1 DEF Fetch, NoInst, TextRange
    <2>3. ~SegmentsAfter(i)
      BY <2>1, <2>2 DEF AtomicsUntouched, SegmentsAfter, SegmentTypes, getType, MemoryOp
    <2> QED
      BY <1>2, <2>1, <2>3, ContinueCut
  <1>8. CASE AllocEnd
    <2>1. AllocWellCut'
      BY <1>8 DEF AllocEnd, AllocWellCut, Idle
    <2> QED
      BY <1>8, <2>1, SameCalls DEF AllocEnd, CutInv
  <1> QED
    BY <1>4, <1>5, <1>6, <1>7, <1>8, PreInstCut, SystemCut DEF AllocStep

LEMMA AllocBeginCut ==
  ASSUME CacheOK, CutInv, NEW a \in Int, AllocBegin(a)
  PROVE  CutInv'
  <1>1. CacheInv /\ memory \in Seq(CodeWord)
    BY TypeInvParts DEF CacheOK, CacheInv
  <1>2. /\ text' = text /\ tool' = tool /\ RailBasicBlocks' = RailBasicBlocks
        /\ memory' = memory \o RestoreScratch /\ program_counter' = a
        /\ alloc'.railBB.firstAddr = a /\ alloc'.railBB.basicBlockAddress = a
    BY ZeroBlockType DEF AllocBegin, Block
  <1>3. CutInv => (AtomicsUntouched => AllWellCut(memory', RailBasicBlocks'))
    BY <1>1, <1>2, LibraryWords, HostEntries, Added, AllCutKept DEF CutInv
  <1>4. AllocWellCut'
    <2>1. a..(a - 1) = {}
      OBVIOUS
    <2> QED
      BY <1>2, <2>1 DEF AllocWellCut
  <1> QED
    BY <1>2, <1>3, <1>4, SameCalls DEF CutInv

LEMMA LeaveForCut ==
  ASSUME CacheOK, CutInv, NEW cur, NEW next \in Int, NEW execLast,
         LeaveFor(cur, next, execLast)
  PROVE  CutInv'
  BY AllocBeginCut, CutUnchanged DEF LeaveFor, AllocateIfMissing

(* A block that adopts another's address is a segment, of which there are  *)
(* none without routines for instructions.                                 *)
LEMMA AdoptCut ==
  ASSUME CacheOK, CutInv, Stub_Enter
  PROVE  CutInv'
  <1> DEFINE key == frame.nextBlockAddr
             bba == frame.currentBasicBlock.basicBlockAddress
  <1>1. /\ text' = text /\ tool' = tool /\ memory' = memory
        /\ program_counter' = program_counter /\ alloc' = alloc
    BY DEF Stub_Enter
  <1>2. /\ RailBasicBlocks' \in {RailBasicBlocks,
                                 [RailBasicBlocks EXCEPT ![key].basicBlockAddress = bba]}
        /\ RailBasicBlocks' # RailBasicBlocks => Lookup(key).type = "SEGMENTED"
    BY DEF Stub_Enter, AdoptSegment
  <1>3. DOMAIN RailBasicBlocks' = DOMAIN RailBasicBlocks
    BY <1>2
  <1> SUFFICES ASSUME AtomicsUntouched PROVE CutInv'
    BY <1>1, SameCalls DEF CutInv
  <1>4. ASSUME NEW a \in DOMAIN RailBasicBlocks
        PROVE  /\ WellCut(memory, RailBasicBlocks'[a])
               /\ NoInstRoutines => Whole(RailBasicBlocks'[a])
    <2> DEFINE b == RailBasicBlocks[a]
               c == RailBasicBlocks'[a]
    <2>1. b \in Block
      BY DEF CacheOK, TypeInv, TypeOK, CacheTypeOK
    <2>2. c = b \/ (c = [b EXCEPT !.basicBlockAddress = bba] /\ a = key /\ b.type = "SEGMENTED")
      BY <1>2 DEF Lookup
    <2>3. WellCut(memory, b) /\ (NoInstRoutines => Whole(b))
      BY DEF CutInv, AllWellCut
    <2> HIDE DEF b, c
    <2>4. c # b => ~NoInstRoutines
      BY <2>2, <2>3 DEF Whole
    <2>5. /\ c.startLocationInCache = b.startLocationInCache
          /\ c.firstAddr = b.firstAddr /\ c.lastAddr = b.lastAddr
      BY <2>1, <2>2 DEF Block
    <2>6. WellCut(memory, c)
      BY <2>3, <2>5 DEF WellCut
    <2>7. WellCut(memory, c) /\ (NoInstRoutines => Whole(c))
      BY <2>3, <2>4, <2>6
    <2> QED
      BY <2>7 DEF c
  <1>5. AllWellCut(memory', RailBasicBlocks')
    BY <1>1, <1>3, <1>4 DEF AllWellCut
  <1>6. AllocWellCut'
    BY <1>1, SameCalls, SameText DEF CutInv, AllocWellCut
  <1> QED
    BY <1>1, <1>5, <1>6, SameCalls DEF CutInv

LEMMA HostStepCut ==
  ASSUME CacheOK, CutInv, HostStep
  PROVE  CutInv'
  <1> DEFINE cur  == Lookup(currentBB)
             a    == cur.lastAddr
             next == NextBlockAddr(cur.terminalInst, a)
  <1>1. CacheInv /\ DispatcherTypeOK
    BY TypeInvParts DEF CacheOK
  <1>2. a \in Int /\ a + 1 \in Int /\ next \in Int
    BY <1>1, CurrentBlockType, NextBlockAddrType
  <1>3. CASE Init_Allocate
    BY <1>1, <1>3, AllocBeginCut DEF Init_Allocate, CacheInv, CacheTypeOK
  <1>4. CASE Stub_Transfer
    <2>1. LeaveFor(cur, next, FALSE)
      BY <1>4 DEF Stub_Transfer
    <2> HIDE DEF cur, next
    <2> QED
      BY <1>2, <2>1, LeaveForCut
  <1>5. CASE Stub_Segment \/ Stub_Emulate \/ Stub_Forward
    <2>1. \E e \in BOOLEAN : LeaveFor(cur, a + 1, e)
      BY <1>5 DEF Stub_Segment, Stub_Emulate, Stub_Forward
    <2> HIDE DEF cur, a
    <2> QED
      BY <1>2, <2>1, LeaveForCut
  <1>6. CASE Stub_Enter
    BY <1>6, AdoptCut
  <1>7. CASE Init_Enter \/ Stub_Exit \/ Stub_GiveUp \/ Instrument
    <2>1. UNCHANGED cacheVars
      BY <1>7 DEF Init_Enter, Stub_Exit, Stub_GiveUp, Instrument
    <2> QED
      BY <2>1, CutUnchanged
  <1> QED
    BY <1>3, <1>4, <1>5, <1>6, <1>7 DEF HostStep

LEMMA NextCut ==
  ASSUME CacheOK, CutInv, [Next]_vars
  PROVE  CutInv'
  <1>1. CASE RunStep
    BY <1>1, RunStepCache, CutUnchanged
  <1>2. CASE HostStep
    BY <1>2, HostStepCut
  <1>3. CASE Allocate
    <2>1. text' = text /\ tool' = tool
      BY SameSetup
    <2>2. AtomicsUntouched => CutInv'
      BY <1>3, AllocStepCut DEF Allocate
    <2> QED
      BY <2>1, <2>2, SameCalls DEF CutInv
  <1>4. CASE Halted \/ UNCHANGED vars
    BY <1>4, CutUnchanged DEF Halted, vars
  <1> QED
    BY <1>1, <1>2, <1>3, <1>4 DEF Next

LEMMA CutCorrect == Spec => []CutInv
  <1>1. Init => CutInv
    BY DEF Init, CacheInit, CutInv, AllWellCut, AllocWellCut, Idle
  <1>2. CacheOK /\ CutInv /\ [Next]_vars => CutInv'
    BY NextCut
  <1> QED
    BY <1>1, <1>2, CacheCorrect, PTL DEF Spec

-----------------------------------------------------------------------------
(* The guest in a block.                                                   *)

(* A block of ControlInv is a block of CallsInv.                           *)
LEMMA InsideBlock ==
  ASSUME CacheOK, Tracked
  PROVE  /\ AtBlock => /\ Inside /\ Here = RailBasicBlocks[currentBB]
                       /\ Cached(Here) /\ InBlock(Here) /\ Here.firstAddr = currentBB
                       /\ CutInv /\ AtomicsUntouched => WellCut(memory, Here)
                       /\ CutInv /\ NoInstRoutines => Whole(Here)
         /\ AtRoot \/ AtWait => ~Inside
  <1>1. AtRoot \/ AtWait => ~Inside
    BY DEF AtRoot, AtWait, Inside
  <1>2. ASSUME AtBlock
        PROVE  /\ Inside /\ Here = RailBasicBlocks[currentBB]
               /\ Cached(Here) /\ InBlock(Here) /\ Here.firstAddr = currentBB
               /\ CutInv /\ AtomicsUntouched => WellCut(memory, Here)
               /\ CutInv /\ NoInstRoutines => Whole(Here)
    <2>1. PICK b : b = RailBasicBlocks[currentBB]
      OBVIOUS
    <2>2. /\ currentBB \in DOMAIN RailBasicBlocks /\ InBlock(b) /\ Cached(b)
          /\ b.firstAddr = currentBB /\ Here = b
      BY <1>2, <2>1, BlocksCached DEF AtBlock, Here, Lookup
    <2>3. currentBB # 0
      <3>1. b.firstAddr \in Int /\ 0 < b.firstAddr
        BY <2>2, CachedLast
      <3> QED
        BY <2>2, <3>1
    <2>4. phase \in {"run", "stub", "instrument"}
      BY <2>2 DEF InBlock, AtStub, AtInstrument
    <2>5. /\ CutInv /\ AtomicsUntouched => WellCut(memory, b)
          /\ CutInv /\ NoInstRoutines => Whole(b)
      BY <2>1, <2>2, Routineless DEF CutInv, AllWellCut
    <2> QED
      BY <2>1, <2>2, <2>3, <2>4, <2>5 DEF Inside
  <1> QED
    BY <1>1, <1>2

(* The two layouts exclude each other.                                     *)
LEMMA FirstWord ==
  ASSUME NEW b, Cached(b)
  PROVE  /\ memory[b.startLocationInCache].k = "restore" <=> PlainLayout(memory, b)
         /\ PreInstLayout(memory, b) => ~PlainLayout(memory, b) /\ b.firstAddr = b.lastAddr
  <1>1. PlainLayout(memory, b) => memory[b.startLocationInCache].k = "restore"
    BY WordFields DEF PlainLayout, RestoreScratch
  <1>2. PreInstLayout(memory, b) => memory[b.startLocationInCache].k = "save"
    BY EntryWords
  <1>3. PlainLayout(memory, b) \/ PreInstLayout(memory, b)
    BY DEF Cached
  <1>4. PreInstLayout(memory, b) => b.firstAddr = b.lastAddr
    BY DEF PreInstLayout
  <1> QED
    BY <1>1, <1>2, <1>3, <1>4

(* Copies are those of the block's instructions.                           *)
LEMMA CopyRange ==
  ASSUME NEW b, Cached(b), AtCopy(b)
  PROVE  gpc \in b.firstAddr..b.lastAddr
  <1> DEFINE s == b.startLocationInCache
             e == ExitStart(b)
  <1>1. /\ b.firstAddr \in Int /\ b.lastAddr \in Int /\ b.firstAddr <= b.lastAddr
        /\ ExitAddr(b) = IF EndsInControl(b) THEN b.lastAddr ELSE b.lastAddr + 1
    BY CachedLast
  <1>2. ip \in s + 1 .. e - 1 /\ memory[ip].a = gpc /\ gpc # 0 /\ s \in Nat /\ e \in Nat
    BY CachedEnds DEF AtCopy
  <1>3. CASE PlainLayout(memory, b)
    <2>1. memory[ip].a \in b.firstAddr..(ExitAddr(b) - 1)
      BY <1>2, <1>3 DEF PlainLayout, LaidOut
    <2> QED
      BY <1>1, <1>2, <2>1
  <1>4. CASE PreInstLayout(memory, b)
    <2>1. /\ \A k \in s..(s + 5) : memory[k].a = 0
          /\ e = s + 6 + (IF EndsInControl(b) THEN 0 ELSE Len(Copy(b.lastAddr)))
          /\ ~EndsInControl(b) => /\ memory[s + 6].a = b.lastAddr
                                  /\ \A k \in s + 7 .. e - 1 : memory[k].a = 0
      BY <1>4, EntryWords, PreInstParts
    <2>2. ~EndsInControl(b)
      BY <1>2, <2>1
    <2>3. ip = s + 6
      <3>1. ip \notin s..(s + 5) /\ ip \notin s + 7 .. e - 1
        BY <1>2, <2>1, <2>2
      <3>2. ip \in s + 1 .. e - 1 /\ s \in Nat /\ e \in Nat
        BY <1>2
      <3> HIDE DEF s, e
      <3> QED
        BY <3>1, <3>2
    <2>4. gpc = b.lastAddr
      BY <1>2, <2>1, <2>2, <2>3
    <2>5. b.firstAddr = b.lastAddr
      BY <1>4 DEF PreInstLayout
    <2> QED
      BY <1>1, <2>4, <2>5
  <1> QED
    BY <1>3, <1>4 DEF Cached

(* Only blocks of pre-instrumented instructions have an entry; elsewhere   *)
(* in them the guest has come through instrument.                          *)
LEMMA EntryOnly ==
  ASSUME NEW b, b = Here, Cached(b), InBlock(b), PreInstLayout(memory, b)
  PROVE  Entering <=> (AtEntry(b) /\ phase = "run") \/ AtInstrument(b)
  <1> DEFINE s == b.startLocationInCache
             e == ExitStart(b)
  <1>1. s \in Nat /\ e \in Nat /\ s + 6 <= e
    <2>1. /\ s \in Nat /\ e \in Nat
          /\ e = s + 6 + (IF EndsInControl(b) THEN 0 ELSE Len(Copy(b.lastAddr)))
      BY CachedEnds, PreInstParts
    <2>2. ~EndsInControl(b) => Len(Copy(b.lastAddr)) \in {1, 3}
      BY CachedLast, CopyShape
    <2> QED
      BY <2>1, <2>2
  <1>2. AtInstrument(b) => Entering
    BY DEF AtInstrument, Entering
  <1>3. AtEntry(b) /\ phase = "run" => Entering
    BY <1>1 DEF AtEntry, Entering, InstrumentSkip
  <1>4. AtStub(b) => ~Entering
    BY DEF AtStub, Entering
  <1>5. ~AtRestore(b)
    BY FirstWord DEF AtRestore
  <1>6. ASSUME AtCopy(b), phase = "run"
        PROVE  ~(ip < s + 6)
    <2>1. ip \in s + 1 .. e - 1 /\ memory[ip].a # 0
      BY <1>6 DEF AtCopy
    <2>2. \A k \in s..(s + 5) : memory[k].a = 0
      BY EntryWords
    <2> QED
      BY <1>1, <2>1, <2>2
  <1>7. AtSave(b) \/ AtSwitch(b) \/ AtBranch(b) \/ AtBranchExit(b) => ~(ip < s + 6)
    BY <1>1 DEF AtSave, AtSwitch, AtBranch, AtBranchExit
  <1>8. ~(ip < s + 6) /\ phase = "run" => ~Entering
    BY DEF Entering, InstrumentSkip
  <1> QED
    BY <1>2, <1>3, <1>4, <1>5, <1>6, <1>7, <1>8 DEF InBlock

(* A step that calls no routine and retires no instruction.                *)
Quiet == UNCHANGED <<gpc, leader, preCalls, postCalls, retired, bbState>>

LEMMA QuietSteps ==
  ASSUME RunStep
  PROVE  /\ ~RunGuestWord /\ ~RunEcall => Quiet
         /\ RunLi \/ RunRestoreScratch \/ RunInlineSave \/ RunBranch =>
              phase' = phase /\ Quiet
         /\ RunSwitch => Quiet
  BY DEF RunStep, RunRestoreScratch, RunInlineSave, RunLi, RunBranch, RunJumpInCache,
         RunSwitch, RunJalRoot, RunCrash, Quiet, history

(* The processor in a block: it retires an instruction or does nothing a   *)
(* user could see, and enters a pre-instrumented block only by its entry.  *)
LEMMA RunInBlock ==
  ASSUME NEW b, b = Here, Cached(b), TypeInv, InBlock(b), RunStep
  PROVE  /\ Here' = Here
         /\ \/ /\ Quiet
               /\ PreInstLayout(memory, b) => (Entering' <=> Entering)
            \/ AtCopy(b) /\ RunGuestWord /\ gpc' = gpc + 1
  <1> DEFINE s == b.startLocationInCache
  <1>1. Here' = Here /\ phase = "run"
    BY RunStepKeeps DEF Here, Lookup
  <1>2. /\ ip \in DOMAIN memory /\ ip \in Nat /\ s \in Nat
    <2>1. /\ ip \in s..(b.endLocationInCache - 1) /\ s \in Nat \ {0}
      BY <1>1, InBlockWord, CachedEnds
    <2>2. memory \in Seq(CodeWord) /\ b.endLocationInCache - 1 \in DOMAIN memory
      <3>1. memory \in Seq(CodeWord)
        BY CachedLast
      <3>2. CASE EndsInBranch(b)
        <4>1. b.endLocationInCache = ExitStart(b) + 11 /\ ExitStart(b) \in Nat
              /\ ExitStart(b)..(ExitStart(b) + 10) \subseteq DOMAIN memory
          BY <3>2, BranchExitWords, CachedEnds
        <4> QED
          BY <3>1, <4>1
      <3>3. CASE ~EndsInBranch(b)
        <4>1. b.endLocationInCache = ExitStart(b) + 6 /\ ExitStart(b) \in Nat
              /\ ExitStart(b)..(ExitStart(b) + 5) \subseteq DOMAIN memory
          BY <3>3, SwitchWords, CachedEnds
        <4> QED
          BY <3>1, <4>1
      <3> QED
        BY <3>1, <3>2, <3>3
    <2>3. DOMAIN memory = 1..Len(memory) /\ Len(memory) \in Nat /\ b.endLocationInCache \in Nat
      BY <2>2, CachedLast
    <2> QED
      BY <2>1, <2>2, <2>3
  <1>3. CASE word.k \in {"guest", "mem", "setpc"}
    <2>1. AtCopy(b)
      BY <1>1, <1>3, InBlockWord
    <2> QED
      BY <1>1, <2>1, FromCopy
  <1> DEFINE Lib == word.k \notin {"guest", "mem", "setpc"}
  <1>4. Lib => \/ word.k = "restore" /\ RunRestoreScratch
               \/ word.k = "save" /\ RunInlineSave
               \/ word.k = "li" /\ RunLi
               \/ word.k = "branch" /\ RunBranch
               \/ /\ word.k = "jalrT6" /\ RunSwitch
                  /\ IF AtEntry(b) THEN HostPhase(regs.t6) = "instrument"
                                   ELSE HostPhase(regs.t6) = "stub"
    BY <1>1, <1>2, InBlockWord, StepOfWord
  <1>5. Lib => Quiet
    BY <1>4, QuietSteps
  <1>6. /\ RunRestoreScratch => ip' = ip + 1
        /\ RunInlineSave => ip' = ip + 2
        /\ RunLi => ip' = ip + 3
        /\ RunBranch => ip' = ip + 1 \/ ip' = ip + 5
        /\ RunSwitch => phase' = HostPhase(regs.t6)
    BY LengthTypes DEF RunRestoreScratch, RunInlineSave, RunLi, RunBranch, RunSwitch, BranchSkip
  <1>7. ASSUME Lib, PreInstLayout(memory, b)
        PROVE  Entering' <=> Entering
    <2>1. Entering <=> AtEntry(b)
      BY <1>1, <1>7, EntryOnly DEF AtInstrument
    <2>2. Entering <=> ip < s + 6
      BY <1>1 DEF Entering, InstrumentSkip
    <2>3. Entering' <=> phase' = "instrument" \/ (phase' = "run" /\ ip' < s + 6)
      BY <1>1 DEF Entering, InstrumentSkip
    <2>4. CASE AtEntry(b)
      <3>1. /\ memory[s].k = "save" /\ memory[s + 2].k = "li" /\ memory[s + 5].k = "jalrT6"
        BY <1>7, EntryWords
      <3>2. ip \in {s, s + 2, s + 5}
        BY <2>4 DEF AtEntry
      <3>3. \/ ip = s /\ RunInlineSave
            \/ ip = s + 2 /\ RunLi
            \/ RunSwitch /\ HostPhase(regs.t6) = "instrument"
        BY <1>4, <1>7, <2>4, <3>1, <3>2 DEF word
      <3>4. \/ phase' = "run" /\ ip' = s + 2
            \/ phase' = "run" /\ ip' = s + 5
            \/ phase' = "instrument"
        BY <1>1, <1>2, <1>6, <3>3, QuietSteps
      <3> QED
        BY <1>2, <2>1, <2>3, <2>4, <3>4
    <2>5. CASE ~AtEntry(b)
      <3>1. ip \in Nat /\ ~(ip < s + 6)
        BY <1>2, <2>1, <2>2, <2>5
      <3>2. \/ phase' = "run" /\ ip' \in {ip + 1, ip + 2, ip + 3, ip + 5}
            \/ phase' = "stub"
        BY <1>1, <1>4, <1>6, <1>7, <2>5, QuietSteps
      <3> QED
        BY <1>2, <2>1, <2>3, <2>5, <3>1, <3>2
    <2> QED
      BY <2>4, <2>5
  <1> QED
    BY <1>1, <1>3, <1>5, <1>7

-----------------------------------------------------------------------------
(* What a step of the engine is to a user of the library.                  *)

(* Nothing happens, ...                                                    *)
Stays ==
  /\ Quiet
  /\ Inside' <=> Inside
  /\ Inside => /\ Here' = Here
               /\ PreInstLayout(memory, Here) => (Entering' <=> Entering)

(* ... a copy retires the instruction at gpc, ...                          *)
Copies ==
  /\ AtBlock /\ AtCopy(Here) /\ phase = "run" /\ RunGuestWord
  /\ gpc' = gpc + 1 /\ Inside' /\ Here' = Here

(* ... stub retires the one that ended the block, or leaves a segment, ... *)
Leaves ==
  /\ AtBlock /\ AtStub(Here) /\ ~Inside'
  /\ Stub_Transfer \/ Stub_Segment \/ Stub_Emulate

(* ... or the process, ...                                                 *)
Ends ==
  /\ AtBlock /\ AtStub(Here) /\ Stub_Exit
  /\ Inside' /\ Here' = Here /\ ~Entering'

(* ... control enters a block, ...                                         *)
Goes ==
  /\ ~Inside /\ Inside' /\ Entering'
  /\ gpc' = gpc /\ Here'.firstAddr = gpc
  /\ NoInstRoutines => Here'.type # "SEGMENTED"
  /\ preCalls' = preCalls \o Times(One(tool.instPre), gpc)
  /\ bbState' = IF tool.bbPre /\ Here'.type # "SEGMENTED"
                THEN BBStep(bbState, "pre") ELSE bbState
  /\ UNCHANGED <<leader, postCalls, retired>>

(* ... or goes through instrument.                                         *)
Instruments ==
  /\ AtBlock /\ AtInstrument(Here) /\ Instrument
  /\ Inside' /\ Here' = Here /\ ~Entering'

StepShape == Stays \/ Copies \/ Leaves \/ Ends \/ Goes \/ Instruments

LEMMA RunShape ==
  ASSUME CacheOK, Tracked, AtRoot \/ AtBlock, RunStep
  PROVE  StepShape
  <1>1. TypeInv /\ phase = "run" /\ currentBB' = currentBB
    BY RunStepKeeps DEF CacheOK
  <1>3. CASE AtRoot
    <2>1. memory \in Seq(CodeWord) /\ (ip = 1 \/ ip = 4)
      BY <1>1, <1>3 DEF TypeInv, AtRoot
    <2>2. word.k \in {"li", "jalrT6"}
      BY <1>3, <2>1, RootWords DEF AtRoot, word
    <2>3. ~RunGuestWord /\ ~RunEcall
      BY <2>2 DEF RunGuestWord, RunEcall, At
    <2>4. Quiet
      BY <2>3, QuietSteps
    <2>5. ~Inside /\ ~Inside'
      BY <1>1, <1>3 DEF AtRoot, Inside
    <2> QED
      BY <2>4, <2>5 DEF Stays, StepShape
  <1>4. CASE AtBlock
    <2>1. PICK b : b = Here
      OBVIOUS
    <2>2. Inside /\ Cached(b) /\ InBlock(b)
      BY <1>4, <2>1, InsideBlock
    <2>3. /\ Here' = Here
          /\ \/ /\ Quiet
                /\ PreInstLayout(memory, b) => (Entering' <=> Entering)
             \/ AtCopy(b) /\ RunGuestWord /\ gpc' = gpc + 1
      BY <1>1, <2>1, <2>2, RunInBlock
    <2>4. Inside'
      <3>1. InBlock(b)'
        BY <1>1, <2>2, InBlockStep
      <3>2. phase' \in {"run", "stub", "instrument"}
        BY <3>1 DEF InBlock, AtStub, AtInstrument
      <3> QED
        BY <1>1, <2>2, <3>2 DEF Inside
    <2> QED
      BY <1>1, <1>4, <2>1, <2>2, <2>3, <2>4 DEF Stays, Copies, StepShape
  <1> QED
    BY <1>3, <1>4

LEMMA StubShape ==
  ASSUME CacheOK, Tracked, AtBlock, HostStep
  PROVE  StepShape
  <1>1. PICK b : b = Here
    OBVIOUS
  <1>2. Inside /\ Cached(b) /\ InBlock(b) /\ TypeInv /\ b = Lookup(currentBB)
    BY <1>1, InsideBlock DEF CacheOK, Here
  <1>3. phase # "run"
    BY DEF HostStep, Init_Allocate, Init_Enter, Stub_Transfer, Stub_Segment, Stub_Emulate,
           Stub_Forward, Stub_Exit, Stub_Enter, Stub_GiveUp, InStub, Instrument
  <1>4. CASE AtStub(b)
    <2>1. phase = "stub" /\ ~Stub_Forward
      BY <1>2, <1>4, StubBlock DEF AtStub, Stub_Forward
    <2>2. Stub_Transfer \/ Stub_Segment \/ Stub_Emulate \/ Stub_Exit
      BY <2>1 DEF HostStep, Init_Allocate, Init_Enter, Stub_Enter, Stub_GiveUp, Instrument
    <2>3. CASE Stub_Transfer \/ Stub_Segment \/ Stub_Emulate
      <3>1. phase' = "stubWait"
        BY <2>3 DEF Stub_Transfer, Stub_Segment, Stub_Emulate, LeaveFor
      <3> QED
        BY <1>1, <1>4, <2>3, <3>1 DEF Leaves, Inside, StepShape
    <2>4. CASE Stub_Exit
      <3>1. phase' = phase /\ currentBB' = currentBB /\ RailBasicBlocks' = RailBasicBlocks
        BY <2>4 DEF Stub_Exit, cacheVars
      <3> QED
        BY <1>1, <1>2, <1>4, <2>1, <2>4, <3>1
           DEF Ends, Inside, Entering, Here, Lookup, StepShape
    <2> QED
      BY <2>2, <2>3, <2>4
  <1>5. CASE AtInstrument(b)
    <2>1. phase = "instrument"
      BY <1>5 DEF AtInstrument
    <2>2. Instrument
      BY <2>1 DEF HostStep, Init_Allocate, Init_Enter, Stub_Transfer, Stub_Segment,
             Stub_Emulate, Stub_Forward, Stub_Exit, Stub_Enter, Stub_GiveUp, InStub
    <2>3. /\ phase' = "run" /\ ip' = b.startLocationInCache + InstrumentSkip
          /\ currentBB' = currentBB /\ RailBasicBlocks' = RailBasicBlocks
      BY <1>2, <2>2 DEF Instrument, EnterCacheAt, cacheVars
    <2>4. Here' = Here
      BY <2>3 DEF Here, Lookup
    <2>5. b.startLocationInCache + InstrumentSkip \in Int
      BY <1>2, CachedEnds DEF InstrumentSkip
    <2>6. ~Entering'
      BY <1>1, <2>3, <2>4, <2>5 DEF Entering
    <2> QED
      BY <1>1, <1>2, <1>5, <2>2, <2>3, <2>4, <2>6 DEF Instruments, Inside, StepShape
  <1> QED
    BY <1>2, <1>3, <1>4, <1>5 DEF InBlock

(* The host enters the block it waited for, the one at gpc.                *)
LEMMA WaitShape ==
  ASSUME CacheOK, CutInv, Tracked, AtWait, HostStep
  PROVE  StepShape
  <1>1. ~Inside /\ TypeInv /\ gpc \in Int
    BY InsideBlock DEF CacheOK, TypeInv, TypeOK, HistoryTypeOK
  <1>2. /\ phase \in {"initWait", "stubWait"} /\ frame.nextBlockAddr = gpc
        /\ frame.shouldNotExecLast
        /\ phase = "initWait" => gpc \in TextRange /\ currentBB = gpc
        /\ ~alloc.busy => gpc \in DOMAIN RailBasicBlocks \/ gpc \notin TextRange
    BY DEF AtWait
  <1>3. Init_Enter \/ Stub_Enter \/ Stub_GiveUp
    BY <1>2 DEF HostStep, Init_Allocate, Stub_Transfer, Stub_Segment, Stub_Emulate,
                Stub_Forward, Stub_Exit, InStub, Instrument
  <1>4. CASE Stub_GiveUp
    <2>1. phase' = phase /\ Quiet
      BY <1>4 DEF Stub_GiveUp, Quiet, history
    <2>2. ~Inside'
      BY <1>2, <2>1 DEF Inside
    <2> QED
      BY <1>1, <2>1, <2>2 DEF Stays, StepShape
  <1>5. CASE Init_Enter \/ Stub_Enter
    <2> DEFINE b == RailBasicBlocks[gpc]
    <2>1. gpc \in DOMAIN RailBasicBlocks
      <3>1. CASE Init_Enter
        BY <1>2, <3>1 DEF Init_Enter
      <3>2. CASE Stub_Enter
        <4>1. Lookup(gpc).firstAddr # 0
          BY <1>2, <3>2 DEF Stub_Enter
        <4> QED
          BY <4>1 DEF Lookup, ZeroBlock
      <3> QED
        BY <1>5, <3>1, <3>2
    <2>2. Cached(b) /\ b.firstAddr = gpc /\ b = Lookup(gpc)
      BY <2>1, BlocksCached DEF Lookup
    <2>3. /\ gpc # 0 /\ b.startLocationInCache \in Int /\ b \in Block
      <3>1. 0 < b.firstAddr /\ b.firstAddr \in Int /\ b.startLocationInCache \in Nat
        BY <2>2, CachedLast
      <3> QED
        BY <2>2, <3>1 DEF Cached
    <2>4. NoInstRoutines => b.type # "SEGMENTED"
      BY <2>1, Routineless DEF CutInv, AllWellCut, Whole
    <2>5. /\ currentBB' = gpc /\ phase' = "run" /\ ip' = b.startLocationInCache
          /\ preCalls' = preCalls \o Times(One(tool.instPre), gpc)
          /\ bbState' = IF tool.bbPre /\ b.type # "SEGMENTED"
                        THEN BBStep(bbState, "pre") ELSE bbState
          /\ UNCHANGED <<gpc, leader, postCalls, retired>>
      <3>1. CASE Init_Enter
        <4>1. phase = "initWait"
          BY <3>1 DEF Init_Enter
        <4> QED
          BY <1>2, <2>2, <3>1, <4>1 DEF Init_Enter, EnterCacheAt, cacheVars
      <3>2. CASE Stub_Enter
        BY <1>2, <2>2, <3>2 DEF Stub_Enter, EnterCacheAt, ReturnVal, setCurrentBB
      <3> QED
        BY <1>5, <3>1, <3>2
    <2>6. /\ gpc \in DOMAIN RailBasicBlocks'
          /\ RailBasicBlocks'[gpc].firstAddr = gpc
          /\ RailBasicBlocks'[gpc].startLocationInCache = b.startLocationInCache
          /\ RailBasicBlocks'[gpc].type = b.type
      <3>1. CASE Init_Enter
        BY <2>1, <2>2, <3>1 DEF Init_Enter, cacheVars
      <3>2. CASE Stub_Enter
        <4>1. AdoptSegment(gpc, b)
          BY <1>2, <2>2, <3>2 DEF Stub_Enter
        <4> QED
          BY <2>1, <2>2, <2>3, <4>1 DEF AdoptSegment, Block
      <3> QED
        BY <1>5, <3>1, <3>2
    <2> HIDE DEF b
    <2>7. /\ Here'.firstAddr = gpc /\ Here'.type = b.type
          /\ Here'.startLocationInCache = b.startLocationInCache
      BY <2>5, <2>6 DEF Here, Lookup
    <2>8. Inside' /\ Entering'
      BY <2>3, <2>5, <2>7 DEF Inside, Entering, InstrumentSkip
    <2> QED
      BY <1>1, <2>4, <2>5, <2>7, <2>8 DEF Goes, StepShape
  <1> QED
    BY <1>3, <1>4, <1>5

LEMMA EngineShape ==
  ASSUME CacheOK, CutInv, Tracked, AtRoot \/ AtWait \/ AtBlock, [Next]_vars
  PROVE  StepShape
  <1>1. CASE RunStep
    <2>1. ~AtWait
      BY <1>1, RunStepKeeps DEF AtWait
    <2> QED
      BY <1>1, <2>1, RunShape
  <1>2. CASE HostStep
    <2>1. CASE AtRoot
      <3>1. phase = "init"
        BY <1>2, <2>1 DEF AtRoot, HostStep, Init_Allocate, Init_Enter, Stub_Transfer,
             Stub_Segment, Stub_Emulate, Stub_Forward, Stub_Exit, Stub_Enter, Stub_GiveUp,
             InStub, Instrument
      <3>2. Init_Allocate
        BY <1>2, <3>1 DEF HostStep, Init_Enter, Stub_Transfer, Stub_Segment,
             Stub_Emulate, Stub_Forward, Stub_Exit, Stub_Enter, Stub_GiveUp,
             InStub, Instrument
      <3>3. Quiet /\ ~Inside /\ ~Inside'
        BY <3>1, <3>2 DEF Init_Allocate, Quiet, history, Inside
      <3> QED
        BY <3>3 DEF Stays, StepShape
    <2> QED
      BY <1>2, <2>1, StubShape, WaitShape
  <1>3. CASE Allocate
    <2>1. alloc.busy
      BY <1>3 DEF Allocate, AllocStep, AllocPreInst, AllocBranch, AllocJal, AllocJalr,
             AllocSystem, AllocInLine, AllocAmo, AllocEnd, Regular
    <2>2. AtWait
      BY <2>1 DEF AtRoot, AtBlock
    <2>3. phase' = phase /\ Quiet
      BY <1>3 DEF Allocate, Quiet, history
    <2>4. ~Inside /\ ~Inside'
      BY <2>2, <2>3 DEF AtWait, Inside
    <2> QED
      BY <2>3, <2>4 DEF Stays, StepShape
  <1>4. CASE Halted \/ UNCHANGED vars
    <2>1. UNCHANGED cacheVars /\ UNCHANGED dispatcherVars /\ UNCHANGED history
      BY <1>4 DEF Halted, vars
    <2>2. Here' = Here /\ (Inside' <=> Inside) /\ (Entering' <=> Entering) /\ Quiet
      BY <2>1 DEF Here, Lookup, Inside, Entering, Quiet, cacheVars, dispatcherVars, history
    <2> QED
      BY <2>2 DEF Stays, StepShape
  <1> QED
    BY <1>1, <1>2, <1>3, <1>4 DEF Next

-----------------------------------------------------------------------------
(* The calls of routines for instructions.                                 *)

LEMMA SameWanted ==
  ASSUME text' = text, tool' = tool
  PROVE  /\ \A a : Wanted(tool.instPre, tool.typedPre, a)'
                     = Wanted(tool.instPre, tool.typedPre, a)
         /\ \A a : Wanted(tool.instPost, tool.typedPost, a)'
                     = Wanted(tool.instPost, tool.typedPost, a)
         /\ \A i : NumTypedPreCalls(i)' = NumTypedPreCalls(i)
  BY DEF Wanted, Applicable, NumTypedPreCalls

(* The instructions of a block.                                            *)
LEMMA BlockInsts ==
  ASSUME NEW b, Cached(b), WellCut(memory, b), NEW x \in b.firstAddr..b.lastAddr
  PROVE  /\ x \in TextRange /\ x \in Int
         /\ PlainLayout(memory, b) => NumTypedPreCalls(text[x]) = 0
         /\ x # b.lastAddr => ~SegmentsAfter(text[x]) /\ text[x].op \notin ControlOp
  <1>1. /\ b.firstAddr \in Int /\ b.lastAddr \in Int /\ text \in Seq(Inst)
    BY CachedLast
  <1>2. Fetch(x).op # "none"
    BY DEF Cached, DescribesText
  <1>3. x \in TextRange /\ x \in Int /\ Fetch(x) = text[x]
    BY <1>1, <1>2 DEF Fetch, NoInst, TextRange
  <1>4. PlainLayout(memory, b) => NumTypedPreCalls(text[x]) = 0
    BY <1>3, FirstWord, NoTypedPre DEF WellCut
  <1>5. x # b.lastAddr => ~SegmentsAfter(text[x]) /\ text[x].op \notin ControlOp
    <2>1. x # b.lastAddr => x \in b.firstAddr..(b.lastAddr - 1)
      BY <1>1
    <2> QED
      BY <1>3, <2>1 DEF WellCut, Cached, DescribesText
  <1> QED
    BY <1>3, <1>4, <1>5

(* When an instruction of a block is about to retire, its PRE routines     *)
(* have been called and the POST routines of the one before.               *)
LEMMA Due ==
  ASSUME NEW b, b = Here, Cached(b), WellCut(memory, b), AtomicsUntouched,
         Inside, PreCalled, PostCalled, HistoryTypeOK,
         PreInstLayout(memory, b) => ~Entering,
         gpc \in b.firstAddr..b.lastAddr
  PROVE  /\ preCalls = Times(One(tool.instPre) + NumTypedPreCalls(text[gpc]), gpc)
         /\ retired.addr # 0 =>
              postCalls = Wanted(tool.instPost, tool.typedPost, retired.addr)
  <1>1. /\ b.firstAddr \in Int /\ b.lastAddr \in Int /\ text \in Seq(Inst) /\ gpc \in Int
        /\ PlainLayout(memory, b) \/ PreInstLayout(memory, b)
    BY CachedLast DEF Cached
  <1>2. One(tool.instPre) \in Nat /\ NumTypedPreCalls(text[gpc]) \in Nat
    BY OneType, CallsType
  <1>3. CASE gpc = b.firstAddr
    <2>1. /\ preCalls = Times(One(tool.instPre)
                               + (IF Entering THEN 0 ELSE NumTypedPreCalls(text[gpc])), gpc)
      BY <1>3 DEF PreCalled
    <2>2. Entering => NumTypedPreCalls(text[gpc]) = 0
      BY <1>1, BlockInsts
    <2>3. (IF Entering THEN 0 ELSE NumTypedPreCalls(text[gpc])) = NumTypedPreCalls(text[gpc])
      BY <2>2
    <2>4. retired.addr # 0 => postCalls = Wanted(tool.instPost, tool.typedPost, retired.addr)
      BY <1>3 DEF PostCalled
    <2> QED
      BY <2>1, <2>3, <2>4
  <1>4. CASE gpc # b.firstAddr
    <2>1. gpc - 1 \in b.firstAddr..b.lastAddr /\ gpc - 1 # b.lastAddr
      BY <1>1, <1>4
    <2>2. /\ gpc - 1 \in TextRange /\ ~SegmentsAfter(text[gpc - 1])
          /\ text[gpc - 1].op \notin ControlOp
      BY <2>1, BlockInsts
    <2>3. ~tool.instPre /\ Wanted(tool.instPost, tool.typedPost, gpc - 1) = << >>
      BY <1>1, <2>2, NothingBetween
    <2>4. PlainLayout(memory, b)
      BY <1>1, <1>4, FirstWord
    <2>5. NumTypedPreCalls(text[gpc]) = 0
      BY <2>4, BlockInsts
    <2>6. preCalls = << >> /\ retired.addr = gpc - 1 /\ postCalls = << >>
      BY <1>4 DEF PreCalled, PostCalled
    <2>7. Times(One(tool.instPre) + NumTypedPreCalls(text[gpc]), gpc) = << >>
      <3>1. One(tool.instPre) + NumTypedPreCalls(text[gpc]) = 0
        BY <2>3, <2>5 DEF One
      <3> QED
        BY <3>1, NoTimes
    <2> QED
      BY <2>3, <2>6, <2>7
  <1> QED
    BY <1>3, <1>4

(* What every lemma about a step assumes.                                  *)
StepFacts ==
  /\ CacheOK /\ CutInv /\ Tracked
  /\ text' = text /\ tool' = tool
  /\ status' = "running" => status = "running"

LEMMA StaysCalls ==
  ASSUME StepFacts, AtRoot \/ AtWait \/ AtBlock, AtomicsUntouched, InstCalls, Stays
  PROVE  InstCalls'
  <1>1. /\ gpc' = gpc /\ preCalls' = preCalls /\ postCalls' = postCalls
        /\ retired' = retired /\ text' = text /\ tool' = tool
        /\ (Inside' <=> Inside) /\ (Inside => Here' = Here)
    BY DEF Stays, Quiet, StepFacts
  <1>2. ASSUME status' = "running"
        PROVE  PreCalled'
    <2>1. PreCalled
      BY <1>2 DEF StepFacts, InstCalls
    <2>2. CASE Inside /\ gpc = Here.firstAddr
      <3>1. PICK b : b = Here
        OBVIOUS
      <3>2. Cached(b) /\ WellCut(memory, b)
        BY <2>2, <3>1, InsideBlock DEF StepFacts
      <3>3. b.firstAddr \in b.firstAddr..b.lastAddr
        BY <3>2, CachedLast
      <3>4. (Entering' <=> Entering) \/ NumTypedPreCalls(text[gpc]) = 0
        BY <2>2, <3>1, <3>2, <3>3, BlockInsts DEF Stays, Cached
      <3>5. preCalls = Times(One(tool.instPre)
                               + (IF Entering' THEN 0 ELSE NumTypedPreCalls(text[gpc])), gpc)
        BY <2>1, <2>2, <3>4 DEF PreCalled
      <3>6. NumTypedPreCalls(text[gpc])' = NumTypedPreCalls(text[gpc])
        BY <1>1, SameWanted
      <3> QED
        BY <1>1, <2>2, <3>5, <3>6 DEF PreCalled
    <2>3. CASE ~(Inside /\ gpc = Here.firstAddr)
      BY <1>1, <2>1, <2>3 DEF PreCalled
    <2> QED
      BY <2>2, <2>3
  <1>3. PostCalled' /\ PreRoutinesRun' /\ PostRoutinesRun'
    BY <1>1, SameWanted DEF InstCalls, PostCalled, PreRoutinesRun, PostRoutinesRun
  <1> QED
    BY <1>2, <1>3 DEF InstCalls

(* A step that retires the instruction at gpc with the calls it is due.    *)
LEMMA Retires ==
  ASSUME text' = text, tool' = tool, InstCalls,
         retired' = [addr |-> gpc, pre |-> Wanted(tool.instPre, tool.typedPre, gpc),
                     prev |-> retired.addr, post |-> postCalls],
         retired.addr # 0 => postCalls = Wanted(tool.instPost, tool.typedPost, retired.addr)
  PROVE  PreRoutinesRun' /\ PostRoutinesRun'
  BY SameWanted DEF PreRoutinesRun, PostRoutinesRun

LEMMA CopiesCalls ==
  ASSUME StepFacts, AtomicsUntouched, InstCalls, Copies
  PROVE  InstCalls'
  <1>1. PICK b : b = Here
    OBVIOUS
  <1>2. /\ Inside /\ Cached(b) /\ WellCut(memory, b) /\ InBlock(b) /\ AtCopy(b)
        /\ text \in Seq(Inst) /\ HistoryTypeOK /\ b.firstAddr \in Int /\ phase = "run"
    <2>1. Cached(b) /\ AtCopy(b)
      BY <1>1, InsideBlock DEF StepFacts, Copies
    <2>2. HistoryTypeOK
      BY TypeInvParts DEF StepFacts, CacheOK
    <2> QED
      BY <1>1, <2>1, <2>2, InsideBlock, CachedLast DEF StepFacts, Copies
  <1>3. /\ word.a = gpc /\ gpc \in TextRange /\ text[gpc].op \notin ControlOp
        /\ gpc \in b.firstAddr..b.lastAddr /\ gpc \in Int
    BY <1>2, CopyWord, CopyRange
  <1>4. PreInstLayout(memory, b) => ~Entering
    <2>1. ASSUME PreInstLayout(memory, b), Entering PROVE FALSE
      <3>1. AtEntry(b)
        BY <1>1, <1>2, <2>1, EntryOnly DEF AtInstrument
      <3>2. /\ ip \in {b.startLocationInCache, b.startLocationInCache + 2,
                       b.startLocationInCache + 5}
            /\ b.startLocationInCache \in Nat
        BY <1>2, <3>1, CachedLast DEF AtEntry
      <3>3. memory[ip].a = 0
        BY <1>2, <2>1, <3>2, EntryWords
      <3> QED
        BY <1>2, <3>3 DEF AtCopy
    <2> QED
      BY <2>1
  <1>5. status = "running" /\ PreCalled /\ PostCalled
    BY DEF Copies, RunGuestWord, At, InstCalls
  <1>6. /\ preCalls = Times(One(tool.instPre) + NumTypedPreCalls(text[gpc]), gpc)
        /\ retired.addr # 0 =>
             postCalls = Wanted(tool.instPost, tool.typedPost, retired.addr)
    BY <1>1, <1>2, <1>3, <1>4, <1>5, Due
  <1>7. preCalls = Wanted(tool.instPre, tool.typedPre, gpc)
    <2>1. One(tool.instPre) + NumTypedPreCalls(text[gpc]) \in Nat
      BY OneType, CallsType
    <2>2. text[gpc].op # "SYSTEM"
      BY <1>3 DEF ControlOp
    <2> QED
      BY <1>2, <1>3, <1>6, <2>1, <2>2, PreWanted
  <1>8. /\ retired' = [addr |-> gpc, pre |-> preCalls, prev |-> retired.addr,
                       post |-> postCalls]
        /\ preCalls' = << >> /\ postCalls' = << >>
    BY <1>3 DEF Copies, RunGuestWord, RetireInCache, Retirement
  <1>9. PreRoutinesRun' /\ PostRoutinesRun'
    BY <1>6, <1>7, <1>8, Retires DEF StepFacts
  <1>10. Inside' /\ Here' = b /\ gpc' = gpc + 1 /\ gpc' # b.firstAddr
    BY <1>1, <1>2, <1>3 DEF Copies
  <1>11. PreCalled' /\ PostCalled'
    BY <1>3, <1>8, <1>10 DEF PreCalled, PostCalled
  <1> QED
    BY <1>9, <1>11 DEF InstCalls

(* stub at the end of a block.                                             *)
LEMMA LeavesCalls ==
  ASSUME StepFacts, AtomicsUntouched, InstCalls, Leaves
  PROVE  InstCalls'
  <1>1. PICK b : b = Here
    OBVIOUS
  <1>2. /\ Inside /\ Cached(b) /\ WellCut(memory, b) /\ b = Lookup(currentBB)
        /\ TypeInv /\ HistoryTypeOK /\ AtStub(b)
    <2>1. TypeInv /\ HistoryTypeOK
      BY TypeInvParts DEF StepFacts, CacheOK
    <2> QED
      BY <1>1, <2>1, InsideBlock DEF StepFacts, Leaves, Here
  <1> DEFINE a == b.lastAddr
             i == b.terminalInst
  <1>3. /\ text \in Seq(Inst) /\ a \in TextRange /\ a \in Int /\ i = text[a] /\ i.op # "none"
        /\ b.firstAddr \in Int /\ b.firstAddr <= a /\ EndsBlock(b.type, i.op)
    BY <1>2, CachedLast
  <1>4. status = "running" /\ PreCalled /\ PostCalled
    BY DEF Leaves, Stub_Transfer, Stub_Segment, Stub_Emulate, InStub, InstCalls
  <1>5. ~Entering
    BY <1>2 DEF AtStub, Entering
  <1>6. ~Inside'
    BY DEF Leaves
  <1>7. One(tool.instPre) + NumTypedPreCalls(i) \in Nat /\ NumSystemCalls(tool.typedPre) \in Nat
        /\ NumPostCalls(i) \in Nat /\ NumSystemCalls(tool.typedPost) \in Nat
    BY OneType, CallsType
  <1>8. gpc = a =>
          /\ preCalls = Times(One(tool.instPre) + NumTypedPreCalls(i), a)
          /\ retired.addr # 0 =>
               postCalls = Wanted(tool.instPost, tool.typedPost, retired.addr)
    <2>1. a \in b.firstAddr..a
      BY <1>3
    <2> QED
      BY <1>1, <1>2, <1>3, <1>4, <1>5, <2>1, Due
  <1>9. CASE Stub_Transfer
    <2>1. i.op # "SYSTEM" /\ gpc = a
      BY <1>2, <1>9, StubBlock DEF Stub_Transfer
    <2>2. preCalls = Wanted(tool.instPre, tool.typedPre, a)
      BY <1>3, <1>7, <1>8, <2>1, PreWanted
    <2>3. Times(NumPostCalls(i), a) = Wanted(tool.instPost, tool.typedPost, a)
      BY <1>3, <1>7, <2>1, PostWanted
    <2>4. /\ retired' = [addr |-> a, pre |-> preCalls, prev |-> retired.addr,
                         post |-> postCalls]
          /\ preCalls' = << >> /\ postCalls' = Times(NumPostCalls(i), a)
      BY <1>2, <1>9 DEF Stub_Transfer, Retirement
    <2>5. PreRoutinesRun' /\ PostRoutinesRun'
      BY <1>8, <2>1, <2>2, <2>4, Retires DEF StepFacts
    <2>6. PreCalled' /\ PostCalled'
      BY <1>6, <2>3, <2>4, SameWanted DEF PreCalled, PostCalled, StepFacts
    <2> QED
      BY <2>5, <2>6 DEF InstCalls
  <1>10. CASE Stub_Emulate
    <2>1. i.op = "SYSTEM" /\ gpc = a
      BY <1>2, <1>10, StubBlock DEF Stub_Emulate
    <2>2. preCalls \o Times(NumSystemCalls(tool.typedPre), a)
            = Wanted(tool.instPre, tool.typedPre, a)
      <3>1. preCalls \o Times(NumSystemCalls(tool.typedPre), a)
              = Times(One(tool.instPre) + NumTypedPreCalls(i)
                        + NumSystemCalls(tool.typedPre), a)
        <4>1. preCalls = Times(One(tool.instPre) + NumTypedPreCalls(i), a)
          BY <1>8, <2>1
        <4> HIDE DEF a, i
        <4> QED
          BY <1>3, <1>7, <4>1, MoreTimes
      <3> QED
        BY <1>3, <2>1, <3>1, PreWanted
    <2>3. Times(NumSystemCalls(tool.typedPost) + NumPostCalls(i), a)
            = Wanted(tool.instPost, tool.typedPost, a)
      BY <1>3, <1>7, <2>1, PostWanted
    <2>4. /\ retired' = [addr |-> a,
                         pre |-> preCalls \o Times(NumSystemCalls(tool.typedPre), a),
                         prev |-> retired.addr, post |-> postCalls]
          /\ preCalls' = << >>
          /\ postCalls' = Times(NumSystemCalls(tool.typedPost) + NumPostCalls(i), a)
      BY <1>2, <1>10 DEF Stub_Emulate, Retirement
    <2>5. PreRoutinesRun' /\ PostRoutinesRun'
      BY <1>8, <2>1, <2>2, <2>4, Retires DEF StepFacts
    <2>6. PreCalled' /\ PostCalled'
      BY <1>6, <2>3, <2>4, SameWanted DEF PreCalled, PostCalled, StepFacts
    <2> QED
      BY <2>5, <2>6 DEF InstCalls
  <1>11. CASE Stub_Segment
    <2>1. b.type = "SEGMENTED" /\ gpc = a + 1 /\ gpc # b.firstAddr
      <3>1. b.type = "SEGMENTED" /\ gpc = a + 1
        BY <1>2, <1>11, StubBlock DEF Stub_Segment
      <3> QED
        BY <1>3, <3>1
    <2>2. i.op # "SYSTEM"
      BY <1>3, <2>1 DEF EndsBlock, ControlOp
    <2>3. preCalls = << >> /\ postCalls = << >> /\ retired.addr = a
      <3>1. preCalls = << >> /\ postCalls = << >> /\ retired.addr = gpc - 1
        BY <1>1, <1>2, <1>4, <2>1 DEF PreCalled, PostCalled
      <3> QED
        BY <1>3, <2>1, <3>1
    <2>4. postCalls' = Wanted(tool.instPost, tool.typedPost, a)
      <3>1. postCalls' = << >> \o Times(NumPostCalls(i), a)
        BY <1>2, <1>11, <2>3 DEF Stub_Segment
      <3>2. Times(NumPostCalls(i), a) \in Seq(Int)
        BY <1>3, <1>7, TimesShape
      <3>3. postCalls' = Times(NumPostCalls(i), a)
        BY <3>1, <3>2, ConcatEmptySeq
      <3> QED
        BY <1>3, <1>7, <2>2, <3>3, PostWanted
    <2>5. preCalls' = preCalls /\ retired' = retired
      BY <1>11 DEF Stub_Segment
    <2>6. PreCalled' /\ PostCalled'
      BY <1>6, <2>3, <2>4, <2>5, SameWanted DEF PreCalled, PostCalled, StepFacts
    <2>7. PreRoutinesRun' /\ PostRoutinesRun'
      BY <2>5, SameWanted DEF PreRoutinesRun, PostRoutinesRun, InstCalls, StepFacts
    <2> QED
      BY <2>6, <2>7 DEF InstCalls
  <1> QED
    BY <1>9, <1>10, <1>11 DEF Leaves

LEMMA EndsCalls ==
  ASSUME StepFacts, InstCalls, Ends
  PROVE  InstCalls'
  <1>1. /\ status' = "exited" /\ gpc' = gpc /\ postCalls' = postCalls /\ retired' = retired
    BY DEF Ends, Stub_Exit
  <1>2. Inside /\ Inside' /\ Here' = Here
    BY InsideBlock DEF Ends, StepFacts
  <1>3. PostCalled' /\ PreRoutinesRun' /\ PostRoutinesRun'
    BY <1>1, <1>2, SameWanted
       DEF InstCalls, PostCalled, PreRoutinesRun, PostRoutinesRun, StepFacts
  <1> QED
    BY <1>1, <1>3 DEF InstCalls

LEMMA GoesCalls ==
  ASSUME StepFacts, InstCalls, Goes
  PROVE  InstCalls'
  <1>1. /\ gpc' = gpc /\ postCalls' = postCalls /\ retired' = retired
        /\ ~Inside /\ Inside' /\ Entering' /\ Here'.firstAddr = gpc
    BY DEF Goes
  <1>2. PostCalled' /\ PreRoutinesRun' /\ PostRoutinesRun'
    BY <1>1, SameWanted DEF InstCalls, PostCalled, PreRoutinesRun, PostRoutinesRun, StepFacts
  <1>3. ASSUME status' = "running" PROVE PreCalled'
    <2>1. preCalls = << >>
      BY <1>1, <1>3 DEF InstCalls, PreCalled, StepFacts
    <2>2. gpc \in Int /\ One(tool.instPre) \in Nat
      BY OneType DEF StepFacts, CacheOK, TypeInv, TypeOK, HistoryTypeOK
    <2>3. preCalls' = Times(One(tool.instPre), gpc)
      <3>1. preCalls' = << >> \o Times(One(tool.instPre), gpc)
        BY <2>1 DEF Goes
      <3>2. Times(One(tool.instPre), gpc) \in Seq(Int)
        BY <2>2, TimesShape
      <3> QED
        BY <3>1, <3>2, ConcatEmptySeq
    <2>4. One(tool.instPre) + 0 = One(tool.instPre)
      BY <2>2
    <2> QED
      BY <1>1, <2>3, <2>4 DEF PreCalled, StepFacts
  <1> QED
    BY <1>2, <1>3 DEF InstCalls

LEMMA InstrumentsCalls ==
  ASSUME StepFacts, InstCalls, Instruments
  PROVE  InstCalls'
  <1>1. PICK b : b = Here
    OBVIOUS
  <1>2. Inside /\ Cached(b) /\ b = Lookup(currentBB) /\ AtInstrument(b)
    BY <1>1, InsideBlock DEF StepFacts, Instruments, Here
  <1>3. /\ gpc = b.firstAddr /\ Entering /\ gpc \in Int
        /\ text \in Seq(Inst) /\ b.startInst = Fetch(b.firstAddr)
        /\ Fetch(b.firstAddr) = text[gpc]
    <2>1. gpc = b.firstAddr /\ Entering
      BY <1>2 DEF AtInstrument, Entering
    <2>2. /\ text \in Seq(Inst) /\ b.firstAddr \in Int /\ b.firstAddr \in b.firstAddr..b.lastAddr
      BY <1>2, CachedLast
    <2>3. b.startInst = Fetch(b.firstAddr) /\ Fetch(b.firstAddr).op # "none"
      BY <1>2, <2>2 DEF Cached, DescribesText
    <2> QED
      BY <2>1, <2>2, <2>3, FetchType
  <1>4. /\ status = "running" /\ gpc' = gpc /\ postCalls' = postCalls /\ retired' = retired
        /\ Inside' /\ ~Entering' /\ Here' = b
        /\ preCalls' = preCalls \o Times(NumTypedPreCalls(b.startInst), b.firstAddr)
    BY <1>1, <1>2 DEF Instruments, Instrument
  <1>5. PostCalled' /\ PreRoutinesRun' /\ PostRoutinesRun'
    BY <1>1, <1>2, <1>4, SameWanted
       DEF InstCalls, PostCalled, PreRoutinesRun, PostRoutinesRun, StepFacts
  <1>6. PreCalled'
    <2>1. One(tool.instPre) \in Nat /\ NumTypedPreCalls(text[gpc]) \in Nat
      BY OneType, CallsType
    <2>2. preCalls = Times(One(tool.instPre), gpc)
      <3>1. preCalls = Times(One(tool.instPre) + 0, gpc)
        BY <1>1, <1>2, <1>3, <1>4 DEF InstCalls, PreCalled
      <3>2. One(tool.instPre) + 0 = One(tool.instPre)
        BY <2>1
      <3> QED
        BY <3>1, <3>2
    <2>3. preCalls' = Times(One(tool.instPre) + NumTypedPreCalls(text[gpc]), gpc)
      <3>1. preCalls' = Times(One(tool.instPre), gpc)
                          \o Times(NumTypedPreCalls(text[gpc]), gpc)
        BY <1>3, <1>4, <2>2
      <3> QED
        BY <1>3, <2>1, <3>1, MoreTimes
    <2>4. NumTypedPreCalls(text[gpc])' = NumTypedPreCalls(text[gpc])
      BY <1>4, SameWanted DEF StepFacts
    <2> QED
      BY <1>3, <1>4, <2>3, <2>4 DEF PreCalled, StepFacts
  <1> QED
    BY <1>5, <1>6 DEF InstCalls

-----------------------------------------------------------------------------
(* The calls of routines for basic blocks.                                 *)

LEMMA Bracketed ==
  ASSUME tool.bbPre /\ tool.bbPost
  PROVE  /\ BBStep("fresh", "pre") = "entered"
         /\ \A s \in {"entered", "inside"} : /\ BBStep(s, "body") = "inside"
                                             /\ BBStep(s, "transfer") = "leaving"
         /\ BBStep("leaving", "post") = "fresh"
  BY DEF BBStep

LEMMA BBCalls ==
  ASSUME StepFacts, RoutinesApart, BBCalled, StepShape
  PROVE  BBCalled'
  <1>1. text' = text /\ tool' = tool
    BY DEF StepFacts
  <1>2. CASE ~(tool.bbPre /\ tool.bbPost)
    <2>1. bbState = "fresh"
      BY <1>2 DEF BBCalled
    <2>2. \A s, event : BBStep(s, event) = s
      BY <1>2 DEF BBStep
    <2>3. \A s, b : BBPost(s, b) = s
      BY <2>2 DEF BBPost
    <2>4. bbState' = bbState
      <3>1. Stays => bbState' = bbState
        BY DEF Stays, Quiet
      <3>2. Copies => bbState' = bbState
        BY <2>2 DEF Copies, RunGuestWord, RetireInCache
      <3>3. Leaves => bbState' = bbState
        BY <2>2, <2>3 DEF Leaves, Stub_Transfer, Stub_Segment, Stub_Emulate
      <3>4. Ends \/ Instruments => bbState' = bbState
        BY DEF Ends, Instruments, Stub_Exit, Instrument
      <3>5. Goes => bbState' = bbState
        BY <2>2 DEF Goes
      <3> QED
        BY <3>1, <3>2, <3>3, <3>4, <3>5 DEF StepShape
    <2> QED
      BY <1>1, <1>2, <2>1, <2>4 DEF BBCalled
  <1>3. CASE tool.bbPre /\ tool.bbPost
    <2>1. NoInstRoutines
      BY <1>3 DEF RoutinesApart
    <2>2. IF Inside THEN bbState \in {"entered", "inside"} ELSE bbState = "fresh"
      BY <1>3 DEF BBCalled
    <2>3. SUFFICES IF Inside' THEN bbState' \in {"entered", "inside"} ELSE bbState' = "fresh"
      BY <1>1, <1>3 DEF BBCalled
    <2>4. AtBlock => Inside /\ Cached(Here) /\ Here.type # "SEGMENTED"
      BY <2>1, InsideBlock DEF StepFacts, Whole
    <2>5. CASE Stays
      BY <2>2, <2>5 DEF Stays, Quiet
    <2>6. CASE Copies
      <3>1. AtBlock /\ Inside' /\ bbState' = BBStep(bbState, "body")
        BY <2>6 DEF Copies, RunGuestWord, RetireInCache
      <3> QED
        BY <1>3, <2>2, <2>4, <3>1, Bracketed
    <2>7. CASE Leaves
      <3>1. AtBlock /\ ~Inside'
        BY <2>7 DEF Leaves
      <3>2. ~Stub_Segment
        BY <2>4, <3>1 DEF Stub_Segment, Here
      <3>3. bbState' = BBPost(BBStep(bbState, "transfer"), Here)
        BY <2>7, <3>2 DEF Leaves, Stub_Transfer, Stub_Emulate, Here
      <3>4. BBStep(bbState, "transfer") = "leaving"
        BY <1>3, <2>2, <2>4, <3>1, Bracketed
      <3> QED
        BY <1>3, <2>4, <3>1, <3>3, <3>4, Bracketed DEF BBPost
    <2>8. CASE Ends \/ Instruments
      BY <2>2, <2>4, <2>8 DEF Ends, Instruments, Stub_Exit, Instrument
    <2>9. CASE Goes
      <3>1. ~Inside /\ Inside' /\ bbState' = BBStep(bbState, "pre")
        BY <1>3, <2>1, <2>9 DEF Goes
      <3> QED
        BY <1>3, <2>2, <3>1, Bracketed
    <2> QED
      BY <2>5, <2>6, <2>7, <2>8, <2>9 DEF StepShape
  <1> QED
    BY <1>2, <1>3

-----------------------------------------------------------------------------
(* Where the guest's basic block began.                                    *)

LEMMA LeaderStep ==
  ASSUME StepFacts, NoInstRoutines, LeaderKnown, StepShape
  PROVE  LeaderKnown'
  <1>1. AtBlock => Inside /\ Here.type # "SEGMENTED"
    BY InsideBlock DEF StepFacts, Whole
  <1>2. CASE Stays
    BY <1>2 DEF Stays, Quiet, LeaderKnown
  <1>3. CASE Copies
    <2>1. leader' = leader
      BY <1>3 DEF Copies, RunGuestWord, RetireInCache
    <2> QED
      BY <1>1, <1>3, <2>1 DEF Copies, LeaderKnown
  <1>4. CASE Leaves
    <2>1. ~Stub_Segment
      BY <1>1, <1>4 DEF Leaves, Stub_Segment, Here
    <2>2. leader' = gpc' /\ ~Inside'
      BY <1>4, <2>1 DEF Leaves, Stub_Transfer, Stub_Emulate
    <2> QED
      BY <2>2 DEF LeaderKnown
  <1>5. CASE Ends \/ Instruments
    BY <1>1, <1>5 DEF Ends, Instruments, Stub_Exit, Instrument, LeaderKnown
  <1>6. CASE Goes
    BY <1>6 DEF Goes, LeaderKnown
  <1> QED
    BY <1>2, <1>3, <1>4, <1>5, <1>6 DEF StepShape

-----------------------------------------------------------------------------
(* The invariant.                                                          *)

LEMMA InitCalls == Init => CallsInv
  <1> SUFFICES ASSUME Init PROVE InstCalls /\ BBCalled /\ LeaderKnown
    BY DEF CallsInv
  <1>1. ~Inside
    BY DEF Init, CacheInit, Inside
  <1>2. InstCalls
    BY <1>1 DEF Init, InstCalls, PreCalled, PostCalled, PreRoutinesRun, PostRoutinesRun
  <1>3. BBCalled /\ LeaderKnown
    BY <1>1 DEF Init, BBCalled, LeaderKnown
  <1> QED
    BY <1>2, <1>3

LEMMA NextCalls ==
  ASSUME EngineInv, CutInv, CallsInv, [Next]_vars
  PROVE  CallsInv'
  <1>1. text' = text /\ tool' = tool
    BY SameSetup
  <1>2. (Tracked' <=> Tracked) /\ (AtomicsUntouched' <=> AtomicsUntouched)
        /\ (NoInstRoutines' <=> NoInstRoutines) /\ (RoutinesApart' <=> RoutinesApart)
    BY <1>1, SameTracked, SameCalls
  <1> SUFFICES ASSUME Tracked
               PROVE  /\ AtomicsUntouched => InstCalls'
                      /\ RoutinesApart => BBCalled'
                      /\ NoInstRoutines => LeaderKnown'
    BY <1>2 DEF CallsInv
  <1>3. AtRoot \/ AtWait \/ AtBlock
    BY DEF EngineInv, ControlInv
  <1>4. StepShape
    BY <1>3, EngineShape DEF EngineInv
  <1>5. status' = "running" => status = "running"
    <2>1. status # "running" => status' = status
      BY EndedStays DEF vars, dispatcherVars
    <2> QED
      BY <2>1
  <1>6. StepFacts
    BY <1>1, <1>5 DEF StepFacts, EngineInv
  <1>7. AtomicsUntouched => InstCalls'
    BY <1>3, <1>4, <1>6, StaysCalls, CopiesCalls, LeavesCalls, EndsCalls, GoesCalls,
       InstrumentsCalls DEF CallsInv, StepShape
  <1>8. RoutinesApart => BBCalled'
    BY <1>4, <1>6, BBCalls DEF CallsInv
  <1>9. NoInstRoutines => LeaderKnown'
    BY <1>4, <1>6, LeaderStep DEF CallsInv
  <1> QED
    BY <1>7, <1>8, <1>9

LEMMA CallsCorrect == Spec => [](EngineInv /\ CutInv /\ CallsInv)
  <1>1. EngineInv /\ CutInv /\ CallsInv /\ [Next]_vars => CallsInv'
    BY NextCalls
  <1> QED
    BY <1>1, InitCalls, EngineCorrect, CutCorrect, PTL DEF Spec

-----------------------------------------------------------------------------
(* Where stub always knows the guest's block, and no atomic stands where a *)
(* routine would need it to end a block, every instruction the guest       *)
(* retires has had its PRE routines called once each since the one before  *)
(* it (rail.h:119), through whatever blocks, segments, adopted code and    *)
(* detours through instrument the guest came to it.                        *)
THEOREM PreCallsCorrect == Spec => [](Tracked /\ AtomicsUntouched => PreRoutinesRun)
  <1>1. CallsInv => (Tracked /\ AtomicsUntouched => PreRoutinesRun)
    BY DEF CallsInv, InstCalls
  <1> QED
    BY <1>1, CallsCorrect, PTL

(* ... and its POST routines once each before the next one retires         *)
(* (rail.h:126), however its block was left.                               *)
THEOREM PostCallsCorrect == Spec => [](Tracked /\ AtomicsUntouched => PostRoutinesRun)
  <1>1. CallsInv => (Tracked /\ AtomicsUntouched => PostRoutinesRun)
    BY DEF CallsInv, InstCalls
  <1> QED
    BY <1>1, CallsCorrect, PTL

(* A tool that has routines for basic blocks alone sees the PRE routine    *)
(* before the first instruction of every basic block and the POST routine  *)
(* behind its last, never one of them twice (rail.h:109).  With routines   *)
(* for instructions as well the blocks are in pieces and dispatcher.cpp:269 *)
(* does not keep to that.                                                  *)
THEOREM BlocksBracketed == Spec => [](Tracked /\ RoutinesApart => BBRoutinesBracket)
  <1>1. CallsInv => (Tracked /\ RoutinesApart => BBRoutinesBracket)
    BY DEF CallsInv, BBCalled, BBRoutinesBracket
  <1> QED
    BY <1>1, CallsCorrect, PTL

(* The edge stub adds to the control-flow graph starts at the basic block  *)
(* in which the guest is, for every text that closes and every graph of    *)
(* its blocks.                                                             *)
THEOREM EdgesTracked == Spec => [](Tracked => EdgesStartAtLeader)
  <1>1. EngineInv /\ CutInv /\ CallsInv => (Tracked => EdgesStartAtLeader)
    <2> SUFFICES ASSUME EngineInv, CutInv, CallsInv, Tracked, phase = "stub", NoInstRoutines
                 PROVE  Lookup(currentBB).basicBlockAddress = leader
      BY DEF EdgesStartAtLeader, NoInstRoutines
    <2>1. AtBlock /\ CacheOK
      BY DEF EngineInv, ControlInv, AtRoot, AtWait
    <2>2. Inside /\ Whole(Here)
      BY <2>1, InsideBlock
    <2>3. leader = Here.firstAddr
      BY <2>2 DEF CallsInv, LeaderKnown
    <2> QED
      BY <2>2, <2>3 DEF Whole, Here
  <1> QED
    BY <1>1, CallsCorrect, PTL
=============================================================================
