--------------------------- MODULE TraceInvariants ---------------------------
(***************************************************************************)
(* What every state of the engine with trace linking has that its          *)
(* properties follow from: how exits and links lie in the cache, whatever  *)
(* links have been made, and where control, SP and T6 are between any two  *)
(* steps.                                                                  *)
(***************************************************************************)
EXTENDS TraceProperties

-----------------------------------------------------------------------------
(* The words.                                                              *)

InText(a) == a \in 1..(Len(text) - 1)

(* Words that go on to the one behind them.                                *)
StraightKind == {"restore", "guest", "mem", "setpc", "liRd", "ecall"}

StraightLength(k) == IF k \in {"setpc", "liRd"} THEN 3 ELSE 1

(* Words of exits, of allocateRoot, and behind the first of a sequence.    *)
ExitKind == {"cont", "traceBranch", "lui", "addi", "addiEnd", "sdPc", "popSp", "jal",
             "li", "jalrT6"}

InstKind == {"guest", "mem", "setpc", "liRd", "ecall", "traceBranch", "jal"}

TraceCodeWord ==
  {w \in TraceWord :
     /\ w.k \in StraightKind \cup ExitKind \cup {"save"}
     /\ w.k \in InstKind => InText(w.a)
     /\ w.k \in {"guest", "mem", "setpc"} =>
          Len(InLine(text[w.a], w.a)) = StraightLength(w.k)}

(* A sequence begins at n, or the cache ends there.                        *)
Begins(m, n) ==
  n = Len(m) + 1 \/ (n \in DOMAIN m /\ m[n].k \in StraightKind \cup {"save"})

StraightLaid(m) ==
  \A n \in DOMAIN m : m[n].k \in StraightKind => Begins(m, n + StraightLength(m[n].k))

-----------------------------------------------------------------------------
(* The exits.                                                              *)

(* The words at n and n + 1 are a link from a.                             *)
LinkAt(m, n, a) ==
  m[n] = W("popSp", 0, 0) /\ m[n + 1].k = "jal" /\ m[n + 1].a = a

(* The eight words that report a to h, or two of them a link.              *)
ReportAt(m, n, a, h) ==
  /\ (m[n] = W("lui", 0, a) /\ m[n + 1] = W("addi", 0, a)) \/ LinkAt(m, n, a)
  /\ m[n + 2] = W("addiEnd", 0, a) /\ m[n + 3] = W("sdPc", 0, 0)
  /\ m[n + 4] = W("lui", 0, h) /\ m[n + 5] = W("addi", 0, h)
  /\ \/ m[n + 6] = W("addiEnd", 0, h) /\ m[n + 7] = W("jalrT6", 0, 0)
     \/ LinkAt(m, n + 6, a)

(* A branch's exit is linked at the beginning of its sides ...             *)
BranchExitAt(m, n) ==
  LET a == m[n + 2].a
  IN  /\ n + 18 \in DOMAIN m
      /\ InText(a) /\ text[a].op = "BRANCH"
      /\ m[n + 2] = W("traceBranch", a, 0)
      /\ ReportAt(m, n + 3, a, ContextSwitchTraceExit)      /\ m[n + 9].k = "addiEnd"
      /\ ReportAt(m, n + 11, a, ContextSwitchTraceExitTaken) /\ m[n + 17].k = "addiEnd"

HostOf(a) ==
  IF text[a].op = "SYSTEM" THEN ContextSwitchTraceExit ELSE ContextSwitchTraceExitTaken

(* ... a direct jump's at its end, and no other is.                        *)
JumpExitAt(m, n) ==
  LET a == m[n + 2].v
  IN  /\ n + 9 \in DOMAIN m
      /\ InText(a) /\ text[a].op \in {"JAL", "JALR", "SYSTEM"}
      /\ m[n + 2].k = "lui"
      /\ ReportAt(m, n + 2, a, HostOf(a))
      /\ m[n + 8].k = "popSp" => text[a].op = "JAL"

(* The exit of a segment.                                                  *)
SwitchAt(m, n) ==
  /\ n + 5 \in DOMAIN m
  /\ m[n + 2] = W("li", 0, ContextSwitchTaken) /\ m[n + 3] = Cont /\ m[n + 4] = Cont
  /\ m[n + 5] = W("jalrT6", 0, 0)

ExitAt(m, n) ==
  m[n + 1] = Cont /\ (BranchExitAt(m, n) \/ JumpExitAt(m, n) \/ SwitchAt(m, n))

ExitsLaid(m) == \A n \in DOMAIN m : m[n].k = "save" => ExitAt(m, n)

(* What a cache, or a piece of one, is made of.                            *)
Laid(m) == m \in Seq(TraceCodeWord) /\ StraightLaid(m) /\ ExitsLaid(m)

(* Every instruction an exit reports is one of as.                         *)
ReportsOnly(m, as) ==
  \A n \in DOMAIN m :
    /\ m[n].k = "traceBranch" => m[n].a \in as
    /\ m[n].k = "save" /\ m[n + 2].k = "lui" => m[n + 2].v \in as

(* The save an exit begins with, which exits knows by the word e.          *)
SaveOf(a, e) == IF text[a].op = "BRANCH" THEN e - 2 ELSE e + 1

ExitKnown(m, a, e) ==
  LET n == SaveOf(a, e)
  IN  /\ InText(a) /\ text[a].op \in ControlOp
      /\ n \in DOMAIN m /\ m[n].k = "save"
      /\ m[n + 2] = IF text[a].op = "BRANCH" THEN W("traceBranch", a, 0) ELSE W("lui", 0, a)

ExitsKnown(m, es) == \A a \in DOMAIN es : ExitKnown(m, a, es[a])

-----------------------------------------------------------------------------
(* The traces.                                                             *)

(* What may stand before the start of a trace.                             *)
LastKind == {"restore", "guest", "mem", "ecall", "cont", "jalrT6", "jal"}

EndsAt(m, n) ==
  /\ n \in DOMAIN m /\ m[n].k \in LastKind
  /\ m[n].k = "jal" => text[m[n].a].op = "JAL"

StartsAt(m, n) == n \in DOMAIN m /\ m[n].k = "restore" /\ EndsAt(m, n - 1)

TraceLaid(m, a, b) ==
  /\ b.firstAddr = a /\ b.terminalInst = Fetch(b.lastAddr)
  /\ StartsAt(m, b.startLocationInCache)

TracesLaid(m, blocks) == \A a \in DOMAIN blocks : TraceLaid(m, a, blocks[a])

TraceBegun(m, blocks, t) ==
  t.busy => /\ t.railBB.firstAddr \notin DOMAIN blocks
            /\ StartsAt(m, t.railBB.startLocationInCache)

LinkGoal(m, n) ==
  IF m[n - 2].k = "traceBranch" THEN m[n].a + 1 ELSE m[n].a + text[m[n].a].imm

LinkLaid(m, n, blocks) ==
  /\ n - 1 \in DOMAIN m /\ m[n - 1].k = "popSp"
  /\ n - 2 \in DOMAIN m
  /\ LinkGoal(m, n) \in DOMAIN blocks
  /\ m[n].v = blocks[LinkGoal(m, n)].startLocationInCache + 1

LinksLaid(m, blocks) == \A n \in DOMAIN m : m[n].k = "jal" => LinkLaid(m, n, blocks)

LayoutOf(m, es, blocks, t) ==
  /\ Laid(m) /\ EndsAt(m, Len(m))
  /\ ReportsOnly(m, DOMAIN es) /\ ExitsKnown(m, es)
  /\ TracesLaid(m, blocks) /\ TraceBegun(m, blocks, t) /\ LinksLaid(m, blocks)

LayoutInv == LayoutOf(memory, exits, RailBasicBlocks, trace)

-----------------------------------------------------------------------------
(* The jumps that were followed.                                           *)

FollowedInv ==
  /\ followed \in [DOMAIN followed -> Seq({a \in DOMAIN text : text[a].op = "JAL"})]
  /\ passed \in Nat
  /\ passed # 0 => ip \in DOMAIN followed /\ passed <= Len(followed[ip])
  /\ phase # "run" => passed = 0

-----------------------------------------------------------------------------
(* Control.                                                                *)

(* stub returns to the word before a trace for these only.                 *)
NoForwardedEcalls == \A a \in DOMAIN text : text[a].sys # "forwarded"

OnlyBranchesLinked == \A n \in Links : text[memory[n].a].op = "BRANCH"

AtRoot ==
  /\ memory = Li(InitSwitch) \o JalrT6 /\ DOMAIN RailBasicBlocks = {}
  /\ ip = 1 \/ (ip = 4 /\ regs.t6 = InitSwitch)
  /\ sp = 0

AtSequence ==
  /\ Begins(memory, ip) /\ sp = 0
  /\ NoForwardedEcalls /\ t6Saved => ip \in DOMAIN memory /\ memory[ip].k = "restore"

(* On the last word of a sequence, by its own address.                     *)
AtTail ==
  /\ ~NoForwardedEcalls
  /\ EndsAt(memory, ip) /\ memory[ip].k \in {"cont", "jalrT6", "jal"}
  /\ regs.t6 = CacheAddr(ip) /\ sp = 0

Lowered == sp = -16

OnSide(n, a, h) ==
  \/ ip = n     /\ Lowered /\ regs.t6 = slot
  \/ ip = n + 1 /\ IF memory[n].k = "popSp" THEN sp = 0 /\ ~t6Saved /\ regs.t6 = slot
                                            ELSE Lowered
  \/ ip = n + 2 /\ Lowered
  \/ ip = n + 3 /\ Lowered /\ regs.t6 = a
  \/ ip \in (n + 4)..(n + 6) /\ Lowered /\ lastInst = a
  \/ ip = n + 7 /\ lastInst = a
       /\ IF memory[n + 6].k = "popSp" THEN sp = 0 /\ ~t6Saved
                                       ELSE Lowered /\ regs.t6 = h

InExit(n) ==
  /\ memory[n].k = "save"
  /\ \/ memory[n + 2].k = "traceBranch" /\
          LET a == memory[n + 2].a
          IN  \/ ip = n + 2 /\ Lowered /\ regs.t6 = slot
              \/ OnSide(n + 3, a, ContextSwitchTraceExit)
              \/ OnSide(n + 11, a, ContextSwitchTraceExitTaken)
     \/ memory[n + 2].k = "lui" /\
          LET a == memory[n + 2].v IN OnSide(n + 2, a, HostOf(a))
     \/ memory[n + 2].k = "li" /\ Lowered
          /\ (ip = n + 2 \/ (ip = n + 5 /\ regs.t6 = ContextSwitchTaken))

InCache ==
  \/ AtRoot \/ AtSequence \/ AtTail
  \/ \E n \in DOMAIN memory : InExit(n)

(* A reported jump came through the only side its exit has.                *)
ReportOK ==
  lastInstAddress # 0 =>
    /\ lastInstAddress \in DOMAIN exits
    /\ text[lastInstAddress].op = "JAL" => taken

InHost ==
  /\ sp = 0
  /\ phase = "init" => DOMAIN RailBasicBlocks = {} /\ ~trace.busy
  /\ phase = "stub" => ReportOK /\ ~trace.busy
  /\ phase \in {"initWait", "stubWait"} =>
       /\ IF trace.busy THEN frame.nextBlockAddr = trace.railBB.firstAddr
                        ELSE frame.nextBlockAddr \in DOMAIN RailBasicBlocks
       /\ NoForwardedEcalls => frame.shouldNotExecLast
  /\ phase = "stubWait" =>
       /\ ReportOK
       /\ Reported /\ ExitType = "DIRECT_BRANCH" =>
            frame.nextBlockAddr = NextBlockAddr(LastInst, LastAddr)

TraceControlInv ==
  /\ status = "running" /\ phase = "run" => InCache /\ ~trace.busy
  /\ status = "running" /\ phase # "run" => InHost
  /\ sp \in {0, -16}

TraceInv == TraceTypeOK /\ LayoutInv /\ FollowedInv /\ TraceControlInv

-----------------------------------------------------------------------------
(* The extents of the traces.  In one of these control goes from word to   *)
(* word; the ECALL behind the exit of a system call is not among them.     *)

StepKind == StraightKind \ {"ecall"}

Within(b) == b.startLocationInCache..(b.endLocationInCache - 1)

NextOf(m, n) == n + StraightLength(m[n].k)

Extent(m, b) ==
  LET end == b.endLocationInCache
  IN  /\ b.startLocationInCache < end /\ Begins(m, end)
      /\ \A n \in Within(b) : m[n].k \in StepKind =>
           NextOf(m, n) <= end /\ (NextOf(m, n) < end => m[NextOf(m, n)].k # "ecall")

ExtentsLaid(m, blocks) == \A a \in DOMAIN blocks : Extent(m, blocks[a])

(* Control does not run off the end of a trace,                            *)
Ended(m, b) ==
  \A n \in Within(b) : m[n].k \in StepKind => NextOf(m, n) # b.endLocationInCache

(* but for one the text ended in.  It is then the last, without an exit,   *)
(* and control is there already.                                           *)
PlainFrom(m, s) == \A n \in DOMAIN m : n >= s => m[n].k \notin {"save", "ecall"}

OpenAt(a) ==
  LET b == RailBasicBlocks[a]
  IN  /\ b.endLocationInCache = Len(memory) + 1
      /\ PlainFrom(memory, b.startLocationInCache)
      /\ ~linked
      /\ IF phase = "run" THEN currentBB = a
         ELSE phase \in {"initWait", "stubWait"} /\ frame.nextBlockAddr = a

AllEnded == \A a \in DOMAIN RailBasicBlocks :
              Ended(memory, RailBasicBlocks[a]) \/ OpenAt(a)

(* Until control takes a link it is in the trace currentBB names.          *)
InCurrent ==
  phase = "run" /\ ~linked =>
    IF DOMAIN RailBasicBlocks = {} THEN currentBB = 0
    ELSE /\ currentBB \in DOMAIN RailBasicBlocks
         /\ LET b == RailBasicBlocks[currentBB]
            IN  \/ ip \in Within(b) /\ memory[ip].k # "ecall"
                \/ ip = b.endLocationInCache /\ ~Ended(memory, b)

InPlainTrace ==
  /\ phase \in {"initWait", "stubWait"}
  /\ PlainFrom(memory, trace.railBB.startLocationInCache)

ExtentInv ==
  status = "running" =>
    /\ ExtentsLaid(memory, RailBasicBlocks)
    /\ AllEnded /\ InCurrent
    /\ trace.busy => InPlainTrace
    /\ phase # "run" => ~linked
    /\ phase = "initWait" => currentBB = frame.nextBlockAddr
=============================================================================
