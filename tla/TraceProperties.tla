-------------------------- MODULE TraceProperties --------------------------
(***************************************************************************)
(* What the engine with trace linking is for.                              *)
(***************************************************************************)
EXTENDS TraceLinking, FiniteSets

(* The state of the engine is of the shapes the code declares.             *)
TraceTypeOK ==
  /\ text \in Seq(Inst) /\ tool \in Registration
  /\ memory \in Seq(TraceWord)
  /\ RailBasicBlocks \in [DOMAIN RailBasicBlocks -> Block]
  /\ DOMAIN RailBasicBlocks \subseteq Int
  /\ program_counter \in Int /\ currentBB \in Int /\ alloc = Idle
  /\ exits \in [DOMAIN exits -> Nat] /\ DOMAIN exits \subseteq Int
  /\ trace \in [busy : BOOLEAN, railBB : Block, count : Nat]
  /\ phase \in Phase /\ ip \in Int /\ regs \in [Reg -> Int] /\ slot \in Int
  /\ taken \in BOOLEAN /\ sp \in {0, -16}
  /\ lastInst \in Int /\ lastInstAddress \in Int
  /\ frame \in [currentBasicBlock : Block, nextBlockAddr : Int,
                shouldNotExecLast : BOOLEAN]
  /\ edges \subseteq Int \X Int /\ served \in Int /\ status \in Status
  /\ gpc \in Int /\ t6Saved \in BOOLEAN /\ leader \in Int
  /\ preCalls \in Seq(Int) /\ postCalls \in Seq(Int)
  /\ retired \in [addr : Int, pre : Seq(Int), prev : Int, post : Seq(Int)]
  /\ bbState \in {"fresh", "entered", "inside", "leaving", "broken"}
  /\ followed \in [DOMAIN followed -> Seq(Int)] /\ passed \in Nat
  /\ linked \in BOOLEAN

-----------------------------------------------------------------------------
(* Exits and links.                                                        *)

(* exits leads from the address an exit reports to the exit itself, in the *)
(* newest trace that ends there, however the cache grew since: a branch's  *)
(* word, or the save, the constant and the store of another exit.          *)
ExitsMirrorText ==
  \A a \in DOMAIN exits :
    LET e == exits[a]
    IN  IF Fetch(a).op = "BRANCH"
        THEN memory[e] = W("traceBranch", a, 0)
        ELSE /\ memory[e + 1].k = "save"
             /\ memory[e + 3] = W("lui", 0, a)
             /\ memory[e + 6].k = "sdPc"

Links == {n \in DOMAIN memory : memory[n].k = "jal"}

(* Where the guest goes when control passes the link at n: from a branch,  *)
(* straight on unless the link lies on its taken side.                     *)
LinkedFrom(n) ==
  LET a == memory[n].a
  IN  IF memory[n - 2].k = "traceBranch" THEN a + 1 ELSE a + text[a].imm

(* A link enters the trace of the address the guest goes to, behind the    *)
(* restore_scratch whose work its own first word does; and still does when *)
(* other traces and links have been made since.                            *)
LinksAgree ==
  \A n \in Links :
    LET next == Lookup(LinkedFrom(n))
    IN  /\ memory[n - 1].k = "popSp"
        /\ next.firstAddr = LinkedFrom(n)
        /\ memory[n].v = next.startLocationInCache + 1
        /\ memory[next.startLocationInCache].k = "restore"

(* T6 is the guest's when a link leaves a trace, since the word that would *)
(* restore it is skipped: "Before every routine starts, we must restore    *)
(* the value of T6 that we used to jump to the block"                      *)
(* (code_cache.cpp:1008).                                                  *)
LinksPreserveT6 == At("jal") => regs.t6 = slot

(* Wherever an instruction of the guest runs or its branch is decided, T6  *)
(* is the guest's, and SP, which every exit lowers and every entry, link   *)
(* or routine raises again, is where the guest left it.                    *)
TraceGuestSeesItsT6 ==
  /\ At("guest") \/ At("mem") \/ At("setpc") \/ At("liRd") => ~t6Saved /\ sp = 0
  /\ At("traceBranch") => regs.t6 = slot

(* Until control takes a link, currentBB is the trace control is in: that  *)
(* is where stub takes the last instruction from when an exit does not     *)
(* report itself.                                                          *)
CurrentTraceOwnsIp ==
  status = "running" /\ phase = "run" /\ currentBB # 0 /\ ~linked /\ ip \in DOMAIN memory
  => LET bb == Lookup(currentBB)
     IN  \/ ip \in bb.startLocationInCache..(bb.endLocationInCache - 1)
         \/ ip = bb.startLocationInCache - 1 /\ At("ecall")

-----------------------------------------------------------------------------
(* The guest.                                                              *)

(* A register in use by an exit has its value in slot.                     *)
TraceArchRegs == IF t6Saved THEN [regs EXCEPT !.t6 = slot] ELSE regs

(* The words behind the text are no instructions.                          *)
LeftText == gpc \notin 1..(Len(text) - 1)
TraceReadable(t) == SubSeq(t, 1, Len(t) - 1)

TraceNative ==
  INSTANCE GuestMachine
    WITH Programs <- {TraceReadable(s.text) : s \in Setups},
         text   <- TraceReadable(text),
         pc     <- gpc,
         regs   <- TraceArchRegs,
         status <- IF status = "crashed" /\ LeftText THEN "faulted" ELSE status

(* Through joined blocks, exits and links, with or without stub between    *)
(* them, the guest takes exactly the steps it would take natively.         *)
TracesImplementGuestMachine == TraceNative!Spec

(* ... and goes on taking them: no chain of links loops without retiring.  *)
GuestKeepsRunningInTraces == TraceNative!Fairness

(* The types the allocator of traces matches an instruction with.          *)
TraceApplicable(types, i) ==
  types \cap (IF i.op \in MemoryOp THEN {"MEM_ACCESS"}
              ELSE IF i.op = "SYSTEM" THEN {"SYSTEM"} ELSE {getType(i.op)})

TraceWanted(all, types, a) ==
  Times(One(all) + Cardinality(TraceApplicable(types, text[a])), a)

(* The routines that run for an instruction are those registered for it,   *)
(* each once, before and after it; typed PRE routines are not to be had    *)
(* with traces.                                                            *)
TraceRoutinesRun ==
  /\ retired.addr # 0 => retired.pre = TraceWanted(tool.instPre, {}, retired.addr)
  /\ retired.prev # 0 =>
       retired.post = TraceWanted(tool.instPost, tool.typedPost, retired.prev)
=============================================================================
