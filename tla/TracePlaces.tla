----------------------------- MODULE TracePlaces -----------------------------
(***************************************************************************)
(* Where the guest is, whichever word of a trace control is at.  This is   *)
(* what the engine with trace linking implements GuestMachine by, and what *)
(* it calls routines for, where its links do as they should.               *)
(***************************************************************************)
EXTENDS TraceInvariants

-----------------------------------------------------------------------------
(* What is asked of text and tool ...                                      *)

(* Every word but the last is an instruction.                              *)
NoHoles == \A a \in DOMAIN text : InText(a) => text[a].op # "none"

(* No load loses its result to the address adjustment around it.           *)
NoLostLoads == \A a \in DOMAIN text : text[a].op = "LOAD" => ~LostToScratch(text[a])

PlainText == NoForwardedEcalls /\ NoHoles /\ NoLostLoads

Plain(i) == i.op \notin ControlOp \cup {"none"}

(* Some instruction ends a segment.                                        *)
Segmented ==
  \E a \in DOMAIN text : InText(a) /\ Plain(text[a]) /\ TraceSegmentsAfter(text[a])

(* ... and of the links: that they keep T6, and that no segment ends       *)
(* behind one, where stub would take it for one of currentBB's.            *)
SegmentsUnlinked == Segmented => Links = {}

TracesFit == Len(memory) <= CacheSize

LinksAsMeant == OnlyBranchesLinked /\ SegmentsUnlinked /\ TracesFit

-----------------------------------------------------------------------------
(* The words of a trace.                                                   *)

(* Words of the exit whose save is at n.                                   *)
ExitLength(m, n) ==
  IF m[n + 2].k = "traceBranch" THEN 19 ELSE IF m[n + 2].k = "lui" THEN 10 ELSE 6

PlainWord == {"guest", "mem", "setpc"}

(* Each word carries an instruction of its kind.                           *)
Carries(w) ==
  /\ w.k = "liRd" => text[w.a].op = "JAL" /\ text[w.a].rd # "zero"
  /\ w.k \in PlainWord => Plain(text[w.a])
  /\ w.k = "mem" => text[w.a].op \in MemoryOp

SegmentExit(m, n) == n \in DOMAIN m /\ m[n].k = "save" /\ m[n + 2].k = "li"

WordsCarry(m) ==
  \A n \in DOMAIN m : Carries(m[n]) /\ (SegmentExit(m, n) => Segmented)

(* The instruction the sequence at n is for; behind the last word, the one *)
(* the reader's cursor is at.                                              *)
AddrAt(m, pc, n) ==
  IF n \notin DOMAIN m THEN pc
  ELSE IF m[n].k # "save" THEN m[n].a
  ELSE IF m[n + 2].k = "traceBranch" THEN m[n + 2].a ELSE m[n + 2].v

(* The guest's address when control is at n and p followed jumps are done. *)
PlaceAt(m, pc, f, n, p) ==
  IF n \in DOMAIN f /\ p < Len(f[n]) THEN f[n][p + 1] ELSE AddrAt(m, pc, n)

Follows(m, pc, f, n, p) ==
  LET a == f[n][p]
  IN  /\ InText(a) /\ text[a].op = "JAL" /\ text[a].rd = "zero"
      /\ PlaceAt(m, pc, f, n, p) = a + text[a].imm

(* The jumps followed before n lead one to the other and to n.             *)
JumpsLead(m, pc, f, n) ==
  /\ n \in 1..(Len(m) + 1)
  /\ n \in DOMAIN m => /\ m[n].k \in (StepKind \ {"restore"}) \cup {"save"}
                       /\ ~SegmentExit(m, n)
  /\ \A p \in 1..Len(f[n]) : Follows(m, pc, f, n, p)

(* Where the guest is behind the instruction of w.                         *)
NextAddr(w) == IF w.k = "liRd" THEN w.a + text[w.a].imm ELSE w.a + 1

(* What follows the word w of a trace, at q, is for the instruction that   *)
(* follows its.                                                            *)
Leads(m, pc, f, w, q) ==
  /\ q \in DOMAIN m => m[q].k \notin {"restore", "ecall"}
  /\ IF SegmentExit(m, q) THEN w.k \in PlainWord
     ELSE w.k # "restore" =>
            /\ PlaceAt(m, pc, f, q, 0) = NextAddr(w)
            /\ w.k \in PlainWord => ~TraceSegmentsAfter(text[w.a])

(* A trace begins with its first instruction, and as a segment ends with   *)
(* its last.                                                               *)
BeginsWith(m, pc, f, b) == PlaceAt(m, pc, f, b.startLocationInCache + 1, 0) = b.firstAddr

EndsWith(m, b) ==
  \A n \in Within(b) :
    m[n].k \in StepKind /\ NextOf(m, n) \in Within(b) /\ SegmentExit(m, NextOf(m, n)) =>
      b.type = "SEGMENTED" /\ b.lastAddr = m[n].a

PathsOf(m, pc, f, blocks) ==
  /\ WordsCarry(m)
  /\ \A n \in DOMAIN f : JumpsLead(m, pc, f, n)
  /\ \A n \in DOMAIN m : m[n].k \in StepKind => Leads(m, pc, f, m[n], NextOf(m, n))
  /\ \A a \in DOMAIN blocks : BeginsWith(m, pc, f, blocks[a]) /\ EndsWith(m, blocks[a])

(* A word of a trace has nothing behind it yet.                            *)
OpenEnd(m) == \E n \in DOMAIN m : m[n].k \in StepKind /\ NextOf(m, n) = Len(m) + 1

(* Of the words before s none leads to s or behind.                        *)
ClosedBefore(m, s) == \A n \in DOMAIN m : n < s /\ m[n].k \in StepKind => NextOf(m, n) < s

OpenOf(m, pc, f, blocks, t) ==
  /\ Len(m) + 1 \in DOMAIN f => OpenEnd(m)
  /\ t.busy =>
       /\ BeginsWith(m, pc, f, t.railBB) /\ OpenEnd(m)
       /\ ClosedBefore(m, t.railBB.startLocationInCache)
  /\ OpenEnd(m) /\ ~t.busy =>
       /\ Fetch(pc).op = "none"
       /\ \E a \in DOMAIN blocks : ~Ended(m, blocks[a])

PathInv ==
  status = "running" =>
    /\ PathsOf(memory, program_counter, followed, RailBasicBlocks)
    /\ OpenOf(memory, program_counter, followed, RailBasicBlocks, trace)

-----------------------------------------------------------------------------
(* Where the guest is.                                                     *)

(* Before the first block.                                                 *)
AtEntry == DOMAIN RailBasicBlocks = {} /\ gpc = 1 /\ program_counter = 1

(* At the end of a segment, which stub knows by currentBB.                 *)
AtSegmentEnd ==
  /\ ~linked /\ currentBB \in DOMAIN RailBasicBlocks
  /\ RailBasicBlocks[currentBB].type = "SEGMENTED"
  /\ gpc = RailBasicBlocks[currentBB].lastAddr + 1

(* At the restore_scratch a trace begins with.                             *)
AtTraceStart ==
  /\ t6Saved /\ ~linked /\ gpc = currentBB /\ currentBB \in DOMAIN RailBasicBlocks
  /\ ip = RailBasicBlocks[currentBB].startLocationInCache

SequencePlace ==
  CASE ip \in DOMAIN memory /\ memory[ip].k = "restore" -> AtTraceStart
    [] SegmentExit(memory, ip) -> AtSegmentEnd
    [] OTHER -> /\ gpc = PlaceAt(memory, program_counter, followed, ip, passed)
                /\ IF ip \in DOMAIN memory THEN memory[ip].k # "ecall" ELSE OpenEnd(memory)

(* The branch at a goes this way.                                          *)
Decided(a, way) == BranchTaken(text[a], TraceArchRegs) <=> way

(* Behind the first words of the exit at n.                                *)
ExitPlace(n) ==
  CASE memory[n + 2].k = "traceBranch" ->
         /\ gpc = memory[n + 2].a
         /\ ip \in (n + 3)..(n + 10)  => Decided(gpc, FALSE)
         /\ ip \in (n + 11)..(n + 18) => Decided(gpc, TRUE)
    [] memory[n + 2].k = "lui" -> gpc = memory[n + 2].v
    [] OTHER -> AtSegmentEnd

InsideExit(n) ==
  memory[n].k = "save" /\ ip \in (n + 1)..(n + ExitLength(memory, n) - 1)

CachePlace ==
  /\ sp = -16 => t6Saved
  /\ IF DOMAIN RailBasicBlocks = {} THEN AtRoot /\ t6Saved /\ AtEntry
     ELSE /\ Begins(memory, ip) => SequencePlace
          /\ \A n \in DOMAIN memory : InsideExit(n) => ExitPlace(n)

(* stub is told of the instruction the guest is at.                        *)
StubPlace ==
  IF lastInstAddress = 0 THEN AtSegmentEnd
  ELSE gpc = lastInstAddress /\ (text[gpc].op = "BRANCH" => Decided(gpc, taken))

HostPlace ==
  /\ t6Saved /\ regs.t6 = slot
  /\ phase = "init" => AtEntry
  /\ phase = "stub" => StubPlace
  /\ phase \in {"initWait", "stubWait"} => gpc = frame.nextBlockAddr

PlaceInv ==
  status = "running" =>
    /\ linked => ~Segmented
    /\ IF phase = "run" THEN CachePlace ELSE HostPlace

-----------------------------------------------------------------------------
(* What has been called.                                                   *)

NoRoutines == ~tool.instPre /\ ~tool.instPost /\ tool.typedPost = {}

(* What stub calls for an instruction is what a trace was cut for, and no  *)
(* jump or branch it would be called for goes without stub.                *)
RoutinesServed ==
  /\ \A a \in DOMAIN text :
       text[a].op \in MemoryOp \cup {"SYSTEM"} => getType(text[a].op) \notin tool.typedPost
  /\ "SYSTEM" \in tool.typedPre => \A a \in DOMAIN text : text[a].op # "SYSTEM"
  /\ NoRoutines \/ \A a \in DOMAIN text : text[a].op \notin {"BRANCH", "JAL"}

PreDue == Times(One(tool.instPre), gpc)
PostDue ==
  IF retired.addr = 0 THEN << >>
  ELSE TraceWanted(tool.instPost, tool.typedPost, retired.addr)

InSegmentExit(m, i) == \E n \in DOMAIN m : SegmentExit(m, n) /\ i \in n..(n + 5)

(* An instruction that ends a segment has retired, and stub is not through *)
(* with it.                                                                *)
LeavingSegment ==
  \/ phase = "stub" /\ lastInstAddress = 0
  \/ phase = "run" /\ InSegmentExit(memory, ip)

(* What precedes the next instruction has not been called.                 *)
NotYetEntered ==
  \/ phase \in {"init", "initWait", "stubWait"}
  \/ phase = "run" /\ DOMAIN RailBasicBlocks = {}

CallsPlace ==
  /\ retired.addr # 0 => InText(retired.addr)
  /\ IF LeavingSegment
     THEN /\ preCalls = << >> /\ postCalls = << >>
          /\ retired.addr # 0 /\ Plain(text[retired.addr]) /\ gpc = retired.addr + 1
     ELSE /\ postCalls = PostDue
          /\ preCalls = IF NotYetEntered THEN << >> ELSE PreDue

TraceCallsInv == TraceRoutinesRun /\ (status = "running" => CallsPlace)
=============================================================================
