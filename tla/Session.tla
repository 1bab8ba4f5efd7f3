------------------------------ MODULE Session -------------------------------
(***************************************************************************)
(* A tool's whole use of the library: its API calls, runInstrument, init,  *)
(* the guest from block to block, and the exit.  Here a block is no more   *)
(* than its metadata, where the guest goes after a branch is anybody's     *)
(* guess, and what counts is which routines are called for which           *)
(* addresses, with their bounds, and the graph with its counts.  Trace     *)
(* linking is off.                                                         *)
(***************************************************************************)
EXTENDS RailApi, CfgGenerator, InitStack

CONSTANT
  MaxVisits    (* how many blocks of the guest a behaviour goes through       *)

ASSUME MaxVisitsAssumption == MaxVisits \in Nat

ASSUME StackHoldsArguments == \A s \in Sessions : StackHolds(s.args)

VARIABLES
  args,             (* what the process was started with                      *)
  stack,            (* the stack from TRAPFRAME upwards, when init runs       *)
  RailBasicBlocks,
  currentBB,
  entries,          (* CFGGenerator::entries                                  *)
  phase,            (* what executes                                          *)
  status

(* History.                                                                *)
VARIABLES
  visits,   (* blocks the guest has left                                      *)
  preCalls, (* routines called, with the address, since the guest left one    *)
  visit     (* the last block it left, with the routines called for it        *)

walkVars == <<args, stack, RailBasicBlocks, currentBB, entries, phase, status,
              visits, preCalls, visit>>
vars == <<apiVars, walkVars>>

Phase  == {"setup", "init", "instrument", "run"}
Status == {"running", "exited", "faulted", "crashed", "lost"}

BlockType == {"INDIRECT_BRANCH", "DIRECT_BRANCH", "SYSCALL", "SEGMENTED", "UNSET"}
Block == [firstAddr : Int, lastAddr : Int, type : BlockType, basicBlockAddress : Int,
          instrument : BOOLEAN]

ZeroBlock == [firstAddr |-> 0, lastAddr |-> 0, type |-> "UNSET", basicBlockAddress |-> 0,
              instrument |-> FALSE]

NoVisit == [block |-> ZeroBlock, pre |-> {}, post |-> {}]

Lookup(blocks, a) == IF a \in DOMAIN blocks THEN blocks[a] ELSE ZeroBlock

Fetch(a) == getNextInstruction(target, a)
Op(a)    == Fetch(a).op

-----------------------------------------------------------------------------
(* Which routines want an instruction, and what that does to blocks.       *)

(* The types an instruction's routines are looked up under.                *)
Kinds(op) ==
  {getType(op)} \cup (IF op \in MemoryOp THEN {"MEM_ACCESS"}
                      ELSE IF op = "SYSTEM" THEN {"SYSTEM"} ELSE {})

SomeFor(point, whats) == \E r \in Registered(point) : r.what \in whats

(* The address is outside the range of all instruction routines, were the  *)
(* AND an OR.                                                              *)
shouldInstrumentOnInst(a) ==
  ~(a < instructionRoutinesStart /\ a > instructionRoutinesEnd)

(* allocateBB gives the instruction a block of its own ...                 *)
NeedsPreBlock(a) ==
  /\ shouldInstrumentOnInst(a)
  /\ SomeFor("PRE", Kinds(Op(a)) \ {"SYSTEM"})

(* ... or ends its block behind it, unless it is an atomic.                *)
SegmentsAfter(a) ==
  /\ shouldInstrumentOnInst(a) /\ Op(a) # "AMO"
  /\ \/ SomeFor("PRE", {"ALL"}) \/ SomeFor("POST", {"ALL"})
     \/ SomeFor("POST", IF Op(a) \in MemoryOp THEN {"I", "S", "MEM_ACCESS"}
                                              ELSE {getType(Op(a))})

TypeAfter(op) ==
  CASE op \in {"BRANCH", "JAL"} -> "DIRECT_BRANCH"
    [] op = "JALR"              -> "INDIRECT_BRANCH"
    [] op = "SYSTEM"            -> "SYSCALL"
    [] OTHER                    -> "SEGMENTED"

EndsBlock(a) == Op(a) \in ControlOp \/ SegmentsAfter(a)

NewBlock(a, last, type) ==
  [firstAddr |-> a, lastAddr |-> last, type |-> type, basicBlockAddress |-> a,
   instrument |-> FALSE]

PreInstBB(a, leader) ==
  [firstAddr |-> a, lastAddr |-> a, type |-> TypeAfter(Op(a)),
   basicBlockAddress |-> leader, instrument |-> TRUE]

With(blocks, b) ==
  [a \in DOMAIN blocks \cup {b.firstAddr} |-> IF a = b.firstAddr THEN b ELSE blocks[a]]

WithMissing(blocks, b) == IF b.firstAddr \in DOMAIN blocks THEN blocks ELSE With(blocks, b)

(* The instructions from a up to e go on without a block's end, and none   *)
(* of them is zero.                                                        *)
RunsThrough(a, e) ==
  \A x \in a..e : Op(x) # "none" /\ ~NeedsPreBlock(x) /\ (x < e => ~EndsBlock(x))

TextAddresses == 0..(Len(target.text) + 8)

(* What allocateBB inserts when started at a.  A block cut before an       *)
(* instruction that needs its own comes with that one; when the text ends  *)
(* first, there is none.                                                   *)
Allocated(blocks, a) ==
  CASE Op(a) # "none" /\ NeedsPreBlock(a) -> WithMissing(blocks, PreInstBB(a, a))
    [] \E e \in TextAddresses : a <= e /\ RunsThrough(a, e) /\ EndsBlock(e) ->
         LET e == CHOOSE x \in TextAddresses : a <= x /\ RunsThrough(a, x) /\ EndsBlock(x)
         IN  With(blocks, NewBlock(a, e, TypeAfter(Op(e))))
    [] \E e \in TextAddresses : /\ a <= e /\ RunsThrough(a, e) /\ ~EndsBlock(e)
                                /\ Op(e + 1) # "none" /\ NeedsPreBlock(e + 1) ->
         LET e == CHOOSE x \in TextAddresses :
                    /\ a <= x /\ RunsThrough(a, x) /\ ~EndsBlock(x)
                    /\ Op(x + 1) # "none" /\ NeedsPreBlock(x + 1)
         IN  WithMissing(With(blocks, NewBlock(a, e, "SEGMENTED")), PreInstBB(e + 1, a))
    [] OTHER -> blocks

AllocateIfMissing(blocks, a) == IF a \in DOMAIN blocks THEN blocks ELSE Allocated(blocks, a)

-----------------------------------------------------------------------------
(* The calls.  Addresses are unsigned: a lower bound below zero becomes a  *)
(* huge address.                                                           *)

Within(r, first, last) ==
  r.lowerBound >= 0 /\ r.lowerBound <= first /\ last <= r.upperBound

InBounds(r, a) == Within(r, a, a)

CallsAt(rs, a) == {<<r, a>> : r \in rs}

For(point, whats) == {r \in Registered(point) : r.what \in whats}

CallsFor(point, whats, a) ==
  CallsAt({r \in For(point, whats) : InBounds(r, a)}, a)

(* In init a block must lie within the bounds as a whole, in stub it need  *)
(* not.                                                                    *)
BBPreCalls(b, bounded) ==
  IF b.type = "SEGMENTED" THEN {}
  ELSE CallsAt({r \in For("PRE", {"BB"}) :
                  bounded => Within(r, b.firstAddr, b.lastAddr)}, b.firstAddr)

BBPostCalls(b) ==
  IF b.type = "SEGMENTED" THEN {}
  ELSE CallsAt({r \in For("POST", {"BB"}) : Within(r, b.firstAddr, b.lastAddr)}, b.lastAddr)

(* instrument: of the type's routines all, of those for memory accesses    *)
(* all or none, as the range has it; a range that starts below zero is     *)
(* empty here.                                                             *)
InRange(a) == a \in instructionRoutinesStart..instructionRoutinesEnd
                /\ instructionRoutinesStart >= 0

InstrumentCalls(a) ==
  CallsAt(For("PRE", {getType(Op(a))}), a)
    \cup (IF Op(a) \in MemoryOp /\ InRange(a)
          THEN CallsAt(For("PRE", {"MEM_ACCESS"}), a) ELSE {})

EnterCalls(b, bounded) ==
  BBPreCalls(b, bounded) \cup CallsFor("PRE", {"ALL"}, b.firstAddr)

SystemCalls(point, b) ==
  IF b.type = "SYSCALL" THEN CallsFor(point, {"SYSTEM"}, b.lastAddr) ELSE {}

(* Mutant: memory accesses have no POST routines of their own.             *)
LeaveCallsByType(b) ==
  SystemCalls("POST", b) \cup BBPostCalls(b)
    \cup CallsFor("POST", {"ALL", getType(Op(b.lastAddr))}, b.lastAddr)

LeaveCalls(b) ==
  SystemCalls("POST", b) \cup BBPostCalls(b)
    \cup CallsFor("POST", {"ALL"} \cup (Kinds(Op(b.lastAddr)) \ {"SYSTEM"}), b.lastAddr)

-----------------------------------------------------------------------------
(* Steps.                                                                  *)

Fails(how) ==
  /\ status' = how
  /\ UNCHANGED <<apiVars, args, stack, RailBasicBlocks, currentBB, entries, phase,
                 visits, preCalls, visit>>

Setup == status = "running" /\ phase = "setup" /\ ApiStep /\ UNCHANGED walkVars

(* allocateRoot moves the reader's cursor to the entry, where init takes   *)
(* it from; without a target there is no reader.                           *)
runInstrument ==
  /\ status = "running" /\ phase = "setup" /\ target # NoFile
  /\ phase' = "init"
  /\ UNCHANGED <<apiVars, args, stack, RailBasicBlocks, currentBB, entries, status,
                 visits, preCalls, visit>>

runInstrument_NoTarget ==
  status = "running" /\ phase = "setup" /\ target = NoFile /\ Fails("crashed")

AddEdge(from, to) ==
  entries' = IF rail.cfg THEN addEdge(entries, from, to) ELSE entries

(* Control enters the block b.                                             *)
EnterBlock(b) == phase' = IF b.instrument THEN "instrument" ELSE "run"

(* init: the first block, its routines and the process arguments.  When    *)
(* nothing could be allocated it enters the cache at address 0.            *)
Init_Guest ==
  LET blocks == Allocated(RailBasicBlocks, target.entry)
      first  == Lookup(blocks, target.entry)
  IN  /\ status = "running" /\ phase = "init" /\ rail.env /\ first # ZeroBlock
      /\ RailBasicBlocks' = blocks
      /\ currentBB' = target.entry
      /\ AddEdge(StartNode, target.entry)
      /\ preCalls' = EnterCalls(first, TRUE)
      /\ stack' = Copied(args, stack)
      /\ EnterBlock(first)
      /\ UNCHANGED <<apiVars, args, status, visits, visit>>

Init_Crash ==
  /\ status = "running" /\ phase = "init"
  /\ rail.env => Lookup(Allocated(RailBasicBlocks, target.entry), target.entry)
                   = ZeroBlock
  /\ Fails("crashed")

Current == Lookup(RailBasicBlocks, currentBB)

InInstrument == status = "running" /\ phase = "instrument"

Instrument ==
  /\ InInstrument /\ Current.type # "SYSCALL"
  /\ preCalls' = preCalls \cup InstrumentCalls(currentBB)
  /\ phase' = "run"
  /\ UNCHANGED <<apiVars, args, stack, RailBasicBlocks, currentBB, entries, status,
                 visits, visit>>

(* Behind its routines an ECALL's block jumps to a stub region no default  *)
(* build has; what becomes of it is Dispatcher's RunJalRoot.               *)
Instrument_Lost ==
  /\ InInstrument /\ Current.type = "SYSCALL"
  /\ preCalls' = preCalls \cup InstrumentCalls(currentBB)
  /\ status' = "lost"
  /\ UNCHANGED <<apiVars, args, stack, RailBasicBlocks, currentBB, entries, phase,
                 visits, visit>>

InBlock == status = "running" /\ phase = "run" /\ visits < MaxVisits

(* Where the guest may go behind the instruction at a.                     *)
NextAddrs(a) ==
  LET i == Fetch(a)
  IN  CASE i.op = "BRANCH" -> {a + 1, a + i.imm}
        [] i.op = "JAL"    -> {a + i.imm}
        [] i.op = "JALR"   -> 1..Len(target.text)
        [] OTHER           -> {a + 1}

LeaveBlock(post) ==
  /\ visit' = [block |-> Current, pre |-> preCalls \cup SystemCalls("PRE", Current),
               post |-> post]
  /\ visits' = visits + 1

(* A segment takes over the basic block control comes from.                *)
Adopted(blocks, a, from) ==
  IF Lookup(blocks, a).type = "SEGMENTED"
  THEN [blocks EXCEPT ![a].basicBlockAddress = from.basicBlockAddress]
  ELSE blocks

(* stub, up to the next block ...                                          *)
Stub_Enter ==
  InBlock /\ \E next \in NextAddrs(Current.lastAddr) :
    LET blocks == AllocateIfMissing(RailBasicBlocks, next)
        block  == Lookup(blocks, next)
    IN  /\ block # ZeroBlock
        /\ LeaveBlock(LeaveCalls(Current))
        /\ AddEdge(Current.basicBlockAddress, next)
        /\ RailBasicBlocks' = Adopted(blocks, next, Current)
        /\ currentBB' = next
        /\ preCalls' = EnterCalls(block, FALSE)
        /\ EnterBlock(block)
        /\ UNCHANGED <<apiVars, args, stack, status>>

(* ... or, when there is none, through exit_binary, with currentBB already *)
(* moved.                                                                  *)
Stub_GiveUp ==
  InBlock /\ \E next \in NextAddrs(Current.lastAddr) :
    /\ Lookup(AllocateIfMissing(RailBasicBlocks, next), next) = ZeroBlock
    /\ LeaveBlock(LeaveCalls(Current))
    /\ entries' = IF rail.cfg
                  THEN addEdge(addEdge(entries, Current.basicBlockAddress, next), 0, EndNode)
                  ELSE entries
    /\ currentBB' = next
    /\ status' = "faulted"
    /\ UNCHANGED <<apiVars, args, stack, RailBasicBlocks, phase, preCalls>>

(* A system call that exits does not return to stub.                       *)
Stub_Exit ==
  /\ InBlock /\ Current.type = "SYSCALL"
  /\ LeaveBlock({})
  /\ AddEdge(Current.basicBlockAddress, EndNode)
  /\ status' = "exited"
  /\ UNCHANGED <<apiVars, args, stack, RailBasicBlocks, currentBB, phase, preCalls>>

Rest == (status # "running" \/ visits = MaxVisits) /\ UNCHANGED vars

-----------------------------------------------------------------------------

Init ==
  /\ \E s \in Sessions : ApiInit(s) /\ args = s.args /\ stack = InitialStack(s.args)
  /\ RailBasicBlocks = [a \in {} |-> ZeroBlock]
  /\ currentBB = 0
  /\ entries = NoEdges
  /\ phase = "setup"
  /\ status = "running"
  /\ visits = 0
  /\ preCalls = {}
  /\ visit = NoVisit

Next == \/ Setup      \/ runInstrument \/ runInstrument_NoTarget
        \/ Init_Guest \/ Init_Crash    \/ Instrument \/ Instrument_Lost
        \/ Stub_Enter \/ Stub_GiveUp   \/ Stub_Exit \/ Rest

Spec == Init /\ [][Next]_vars
=============================================================================
