# A TLA+ model of CatCutifier (RAIL)

CatCutifier is a dynamic binary instrumentation library for RISC-V, in C++ and
assembly (`src/CatCutifier`). A tool links with it, names a guest binary,
registers C++ routines to be called before or after instructions, instruction
types or basic blocks, and calls `Rail::runInstrument`. The library copies the
guest's code, one basic block at a time, into a code cache and lets the
processor run it there. Each copied block ends in a context switch to the
dispatcher, which calls the routines, works out where the guest goes next,
copies that block if it is new and returns into the cache.

The promise is simple to say: *the guest behaves as if it ran on the bare
machine, and each routine is called when it was asked for.* Everything here is
built around that promise.

## 1. The system

| Part | Files | State it keeps | Operations |
|---|---|---|---|
| API | `rail.cpp/.h` | routine vectors with bounds, `pre/postInstrumentationRoutines`, arguments, exit routine | `addInstrument*`, `setTarget`, `registerArgs`, `enableTraceLinking`, `runInstrument` |
| Code cache | `code_cache.cpp/.h`, `railBasicBlock.h` | `memory`, `memoryIndex`, `RailBasicBlocks`, `currentBB`, `exits`, stub-region counters | `allocateRoot`, `allocateBB`, `allocateNextInst`, `allocateTrace(Block)`, `insertStubRegion`, `insertBB`, `setCurrentBB` |
| Dispatcher | `dispatcher.cpp/.h` | locals only; works on the cache's statics | `init`, `stub`, `instrument`, `exit_binary` |
| Context switches | `util.S` | the frame below the guest's stack pointer | save and restore around the calls of the dispatcher; the copied snippets `inline_save`, `inline_load`, `restore_scratch` |
| ELF reader | `elf_reader.cpp/.h` | `textSection`, `program_counter`, headers | `getTextSection`, `getDataSections`, `getNextInstruction`, cursor moves |
| Decoder, encoder | `decode.cpp`, `encode.cpp`, `instructions.*` | none | fields to and from instruction words |
| System calls | `system_calls.cpp/.h` | none | `handle_syscalls` |
| Control-flow graph | `cfg_gen.cpp/.h` | `entries` (edge to count) | `addEdge`, `end` |
| Printing, logging | `printUtils.*`, `logger.h` | output file | debug output |

**How they interact.** There is one thread. Control alternates between the
cache (code that the library generated) and the host (compiled C++). The parts
communicate through static variables: `stub` learns which block the guest was
in only from `CodeCache::currentBB`, which `allocateBB` sets too; it learns
where a block ended only from the metadata in `RailBasicBlocks`; `allocateBB`
walks the text with the single cursor of `ElfReader`; and the registration
vectors decide how blocks are cut. Into the cache, the only way is a jump
through T6, and the guest's T6 travels through a stack word meanwhile.

**What is hard.** Nothing runs in parallel, so the hazards are those of a
protocol between two programs that share registers and statics: stale
`currentBB`; block metadata one instruction off; fixed offsets (one word before
a block, six words into one, five words over an exit) that must equal the
lengths of sequences written elsewhere; T6 saved and restored along every path;
routines called twice, too early or never because blocks are cut differently
for each kind of routine; a cache that is filled in one order and executed in
another. `PROJECT.json` lists each at its line.

## 2. Modules

```
GuestIsa            instructions, and what the hardware does with them
  GuestMachine      abstract specification: the guest on the bare machine
  CacheWords        the words and sequences the allocator writes
    CodeCache       allocateRoot, allocateBB, allocateNextInst
      Dispatcher    the whole engine: processor, context switches, dispatcher
        DispatcherProperties   properties, refinement of GuestMachine
          MCDispatcher         instances for TLC
          DispatcherProofs     theorems: types and metadata
          DispatcherInvariants layout, control, cuts and calls: what is invariant
            ControlProofs      theorems about the cache's words, control, T6 and the refinement
              RoutineProofs    theorems about routines and edges
        TraceLinking           the engine with linked traces
          TraceProperties      properties, refinement of GuestMachine
            MCTraceLinking     instances for TLC
            TraceInvariants    how exits and links lie, where control is: what is invariant
              TracePlaces      where the guest is, whichever word control is at: what is invariant
                TraceProofs    theorems about types, links and extents (they use DispatcherProofs' lemmas too)
                  PlaceProofs  theorems about the refinement and routines

ElfReader           what is loaded from the file, where
  RailApi           the calls of a tool before runInstrument
CfgGenerator        the graph with its counts
InitStack           what init writes to the guest's stack
    Session         all three: a tool's use of the library, to the exit
      SessionProperties        properties
        MCSession              instances for TLC
        SessionProofs          theorems

ContextSwitch       the frames of util.S, between guest, stub and routines
  SwitchProperties  properties
    MCContextSwitch            an instance for TLC
    SwitchProofs               theorems

RvCodec             decoder and encoder over the groups of bits of a word
  RvHardware        what the processor reads out of a word and does
    MemAccess       the sequences around accesses, AUIPC and branches, executed
      MemAccessProperties      properties
        MemAccessInvariants    what holds before each word of a sequence
          MCMemAccess          instances for TLC
          MemAccessProofs      theorems
```

* **GuestIsa.** An instruction is a record of the fields the library looks at.
  Addresses count instruction words from 1; 0 is the library's "no block". Data
  is abstracted to what decides control: a branch is taken when `rs1` is not 0,
  loads, atomics and arithmetic write their immediate, stores write nothing. Two
  registers are kept, T6, which the library borrows, and RA, which stands for
  all it does not; SP occurs as a base only, since translation depends on it.
* **GuestMachine.** Four actions: an instruction retires, a system call
  returns, a system call ends the process, control leaves the text.
* **CacheWords.** A cache word has a kind, the guest address whose instruction
  it carries and the constant it loads. Sequences have their real lengths,
  with one exception: the address adjustment around a memory access or an
  atomic, entered and left at its ends only, stands as one word, `mem`. A
  sequence entered only at its start is executed in one step and its other
  words, `cont`, cannot be entered.
* **CodeCache.** The loop of `allocateBB` is one action per kind of
  instruction. `alloc` is its activation (`railBB`, `allocatedPrev`);
  `AllocBegin` is what precedes the loop. `AllocPreInst` is the whole treatment
  of an instruction with a typed PRE routine: close what was laid out as a
  segment, return if the instruction has a block, or else write one through
  `allocateNextInst`. It is the default build: no `STUBREGIONS`.
* **Dispatcher.** The processor (`Run*`) executes words of the cache. `RunSwitch`
  is the save half of the context switches, `EnterCacheAt` the other half.
  `stub` has two steps, since the allocation comes between them: `Stub_Transfer`,
  `Stub_Segment`, `Stub_Emulate`, `Stub_Forward` and `Stub_Exit`, by the type of the
  block and the kind of call, each with the link write, the POST routines, the
  edge and the start of the allocation; then `Stub_Enter` or `Stub_GiveUp`.
  `init` is split in the same way. Its `slot` is the stack word below the
  guest's SP that `inline_save` stores T6 to; the T6 word of the frame is that
  same word. A set of `history` variables records what the guest and the tool
  observe; no action reads them but to write them.

* **RvCodec.** A word is a record of its six groups of bits (6:0, 11:7, 14:12,
  19:15, 24:20, 31:25), which every mask and shift of `decode.cpp` and `encode.cpp`
  respects; the operators are those functions, bit for bit, without mnemonics.
* **RvHardware.** The immediates as the RISC-V manual defines them, independently of
  the decoder, and the effect of the instructions a sequence contains. Memory
  cells hold values that tell addresses and widths apart.
* **MemAccess.** What `mem`, `li` and the branch exits of CacheWords abbreviate.
  `Allocate` lays out, through the encoder, what `allocateBB` (`single` false) or
  `allocateNextInst` (`single` true) writes for one instruction; the `Run*` actions
  execute it word by word. The guest's data lies `dataOffset` above the addresses
  the guest uses; `Translated` says which addresses are meant. The exit
  behind the single instruction is in CacheWords.

* **TraceLinking.** `Dispatcher` with `Rail::enableTraceLinking`: `allocateTrace` and
  `allocateTraceBlock` are one action per kind of instruction (`TraceBranch`, `TraceJump`
  for a jump that is followed, `TraceLastJump`, ...), with `trace` as their activation;
  `exits` is the map of that name. An exit reports the address of its instruction
  (`sdPc`), and `TraceStub_*`, the actions of `stub`, find the exit by it and overwrite
  two of its words (`popSp`, `jal`). Since a link lands in the middle of the sequences that
  load constants, these are executed word by word here. `sp` counts from the guest's
  stack pointer: every exit lowers it and every way in must raise it again. A jump
  that is followed has no word of its own; the history variable `followed` retires it
  in a step (`RunFollowed`) before the word laid out next.
* **ElfReader.** The stream's position and failbit are kept through `getTextSection` and
  `getDataSections`, which read the sections one after another into the image. A word of
  the file is known by its offset.
* **RailApi.** The tool holds a set of calls and makes any of them in any order. A
  routine is what it was registered for: basic blocks, all instructions or a type,
  before or after, with bounds. `instructionRoutinesStart` and `...End` are the one range
  the code keeps for all of them.
* **CfgGenerator, InitStack.** The edges with their counts; the copy of argc, argv, envp
  and the auxiliary vector onto the stack that also holds what it copies from.
* **Session.** `Setup` (the API calls), `runInstrument`, `Init_Guest`, then `Instrument` and
  `Stub_*` block by block. A block is its metadata here and `Allocated` is the
  whole of `allocateBB` as a function, since the order inside it is `CodeCache`'s subject;
  where a branch goes is open. So the two views are complementary: `Dispatcher`
  follows the guest's values through every word of the cache with at most one
  routine of a kind, `Session` has any routines with any bounds, and no values.

* **ContextSwitch.** All 31 registers and the stack around the guest's SP, word by word.
  `Leave` is an exit: `inline_save`, the constants and, in a trace, the word with the
  instruction's address. `Save` is the save half of the five switches and
  `Loaded` the load half, in the order of its words: RA, SP, then the others from where SP now points;
  T6 comes back in `Enter`, the next block's first word. In between
  `stub` and `instrument` read and write `TRAPFRAME`, and so do routines. The cache is not
  there: which exit control takes is open, but for a branch, which compares a register
  after `inline_save` has lowered SP. An exit knows its instruction's address and `lastAddr`
  of the block `currentBB` names; that they agree where no trace reports is
  `CurrentBBOwnsIp` and `CurrentTraceOwnsIp`. `guest` is the registers the guest should have,
  `moved` says that a link or a routine has written SP in the frame.

The processor, and the observation of the guest and the routines, are not code
of the repository; the map marks them external.

## 3. Properties

| Property | Says |
|---|---|
| `ImplementsGuestMachine` | refinement: the same instructions retire in the same order with the same registers and system calls, and the process ends exactly when the guest does |
| `ImplementsGuestMachineSansT6` | the same, T6 left out, for guests that leave it alone |
| `GuestKeepsRunning` | the refinement's fairness: the guest gets on for ever or ends |
| `CurrentBBOwnsIp` | while the cache runs, the next word lies in the block `currentBB` names, or is the system call before it |
| `CacheMirrorsBlocks` | a block's part of the cache holds its instructions once each, in order, and leaves at its end |
| `BlocksDescribeText` | metadata describes straight-line code ended by the terminal instruction, of a type that fits |
| `GuestSeesItsT6` | no guest instruction runs while T6 is borrowed |
| `EdgesStartAtLeader` | edges of the control-flow graph start at the guest's basic block |
| `ForwardedEcallRuns` | what `stub` returns to for a forwarded system call is that ECALL |
| `PreRoutinesRun`, `PostRoutinesRun` | each wanted routine is called once, on its side of the instruction |
| `BBRoutinesBracket` | basic-block routines come before the first and after the last instruction of a block |
| `ResultMatchesGuest` | the words laid out for a load, store, atomic or AUIPC leave all registers, the borrowed ones and SP included, and all memory above the stack pointer as the one instruction would |
| `ExitMatchesGuest` | a copied branch leaves for the routine of the way the guest's branch goes, with T6 where the routine looks for it and no other register changed |
| `SequenceEnds` | the processor gets out of every sequence |
| `CodecIsExact` | for the guest's word and every word laid out the decoder's immediate is the processor's, and encoding undoes decoding |
| `ReservedReachMemory` | an LR loads and an SC stores |
| `TracesImplementGuestMachine`, `GuestKeepsRunningInTraces` | the refinement and its fairness, through followed jumps, exits and links |
| `ExitsMirrorText` | `exits` leads to the exit of the instruction it is asked for, however the cache grew since |
| `LinksAgree` | a link enters the trace of the address the guest goes to, right behind the word whose work it does itself |
| `LinksPreserveT6` | T6 is the guest's when a link leaves a trace |
| `TraceGuestSeesItsT6` | T6 and SP are the guest's wherever one of its instructions runs |
| `CurrentTraceOwnsIp` | until the first link is taken, `currentBB` is the trace control is in |
| `TraceRoutinesRun` | each wanted routine is called once, on its side of the instruction |
| `ImageMatchesFile` | the guest finds the sections behind its text where it was linked to have them, whatever was loaded before and however the stream was left |
| `NoCallMissed` | for every instruction the guest has been through, the routines registered for it and its address were called |
| `GraphIsAWalk` | the counts of the graph are those of one walk from START to where control is: every other node is left as often as entered |
| `GuestFindsItsArgs` | count, arguments, environment, their ends and the program's name are on the stack when the guest starts |
| `RegistersSurvive` | after any switch the guest has the registers it had, but for link, result of a call and what routines set |
| `FrameShowsGuest` | what `stub`, a routine and the exit routine find under a register's number is the guest's, T6 included; SP is 32 words lower |
| `StackAboveKept` | no word at or above the guest's SP is touched |
| `NextIsNative` | `stub` sends the guest where it would go by the registers it had, from the instruction a trace reported or the block's |
| `TypeOK`, `TraceTypeOK`, `SessionTypeOK`, `SwitchTypeOK` | types (one in each state machine) |

The refinement map of both engines is `pc <- gpc`, `regs <-` the registers with T6 taken from
`slot` while it is saved, and `text <-` all of the text but its last word, which
`getNextInstruction` cannot read (`elf_reader.cpp:437`).

## 4. Runs

Constants: `Setups` (pairs of a text and a registration), `InitialRegs` = {0, 3} (so
that a branch goes either way and an indirect jump leads out of the text or into it),
`CacheBase`, an address no guest address equals, and `CacheSize`.

| Run | Setups | Shows |
|---|---|---|
| `Core` | 638 texts without routines; the texts without atomics and forwarded calls with routines for all instructions (PRE, POST, both), POST routines for seven sets of types, or basic-block routines | refinement, progress, the invariants of plain execution, and that every routine is called |
| `TypedPre` | texts without T6, PRE routines for seven sets of types | cutting of blocks, `instrument`, refinement without T6 |
| `AnyTool` | T6, atomics, forwarded and pre-instrumented calls with mixtures of all kinds of routine; a cache of 120 words, which overflows | types and metadata, wherever execution leads |
| `ForwardedReentry` | a loop entered behind a forwarded call | **violation** of `ForwardedEcallRuns` |
| `BorrowedT6` | a typed PRE routine, a guest using T6 | **violation** of `GuestSeesItsT6` |
| `UninstrumentedAtomic` | a PRE routine for all instructions and two atomics in a row | **violation** of `PreRoutinesRun` |
| `MemAccess` | loads, stores, atomics, AUIPC and branches, by both allocators; 54 register files | the sequences do what the instruction does; the codec |
| `ReservedAtomics` | LR and SC | **violation** of `ReservedReachMemory` |
| `Traces` | texts with trace linking and no routines; texts without direct exits with routines for single instructions | refinement and progress through traces, exits and links |
| `PatchedJump` | a loop longer than a trace | **violation** of `LinksPreserveT6` |
| `Switches` | one register file of 31 distinct values, four steps of guest and routines, an exit of each kind by each switch | registers, frame, stack and next address through every switch |
| `Session` | loading (two files, whole or cut short, and one that is refused), arguments (one to three, with up to three variables), tools (six texts, any two of fifteen registrations) | image, routines with bounds, graph and arguments |

**Why the bounds are enough.** A text has four words, the last unreadable. Three
instructions allow a block of one, two or three instructions, two overlapping
blocks (a jump into the middle of a cached one), a loop, a block reached both by
falling through and by a jump, and a cut with something before and after
it; the engine's decisions look at one block, its successor and whether that is
cached, so longer texts repeat these cases. Every behaviour is finite: guest values
are a few, the cache grows only by blocks not yet cached (and, when a
pre-instrumented ECALL restarts `init`, until it is full). No bound is put on
steps, counters or the number of blocks. Deadlock is checked: a process that
ended stutters in `Halted`, nothing else may stop.

For `MemAccess` the constants are `Cases` (a word and the function that lays it out),
`InitialRegs`, `PC` and `dataOffset`. Operands range over A0, A1, T5, T6, SP and
register 0: the two scratch registers, the stack pointer, register 0, and two that
the library treats alike. A register that may be a base is below `dataOffset`,
equal to it or above, the three outcomes of the BLT. Offsets and immediates are
zero, one, -1, the most negative and some with bit 11 set, the bit
the formats scatter; `dataOffset` and one exit address have it too, since
`insertLi` adds half of the low twelve bits twice on its account. A sequence has at
most fourteen words and no backward jump, so the runs are exhaustive.

`Traces` uses texts of four words too, and `TraceBlocks` = 3 where `dispatcher.cpp` has 10: a
trace then joins two jumps, and with three instructions a loop is longer than
a trace or shorter, which is what the counter decides. Its cache of 1000 words never
fills: that case is `AnyTool`'s.

`Session` has an image of 16 words, in which the files' sections, the header, a `.tbss`
with the address of what follows it and the sections ahead of the text
all find room, and files cut in the middle of a section. `HostWords` = 9 is less than the
longest argument list needs (with 48 words of stack), so that the copy overwrites its
source in some sessions and not in others. Two registrations suffice for the range
to be widened by one and narrowed by the other; `MaxVisits` = 5 blocks let the guest go around
each loop twice. After that a behaviour rests; nothing else is cut off.

`Switches` writes one value to RA, SP, GP, A0 and T6, on either side, moves SP by two words either
way and pushes. Since all registers differ, one that comes back as another is
seen. `MaxSteps` = 4 lets the guest move SP and write, leave, have a routine write, and enter through
`instrument`; `StackAddrs` (46 words) holds the frame for each SP that
can come of it. Its branch, BLT with zero, is on a register both sides write, on
SP or on T6. After the steps a behaviour rests in the guest.

**Fairness.** `FairSpec` is weak fairness of `Next`: one thread that the operating
system keeps running. It chooses no branch; progress of the guest is a
consequence, not an assumption. `FairTraceSpec` is the same of the engine with
traces. In `MemAccess` it is weak fairness of `Step`, the
same for the processor inside a sequence; `Finish`, the end, stutters.

**Exclusions.** Three passing runs leave out inputs on which the code is known
to fail, and the violation runs show them: texts where a forwarded call's
continuation may be cached before it; guests using T6 under typed PRE routines;
atomics under instruction routines. Also left out of the refinement runs:
loads into T6 that go through T6 as scratch (the load is undone,
`code_cache.cpp:379`), forwarded calls with POST routines (called before the
call), pre-instrumented ECALLs (the stub-region jump of `code_cache.cpp:876`), and
texts that end without a transfer of control. `AnyTool` runs through all but the
last of them.

`Traces` leaves out texts in which a trace that ends in a jump is left through it twice
(`NoJumpExitTwice`; `PatchedJump` shows why), forwarded calls that can be
reentered, and routines on texts with direct exits: behind a link `currentBB` is
stale (`dispatcher.cpp:223`), so routines of the blocks skipped do not run.

`Session`: `NoCallMissed` excepts blocks with an atomic (finding 3), and memory-access PRE routines
once a negative lower bound was registered; `GraphIsAWalk` excepts instruction routines, whose
segments take over the node they continue even when they start one, and a
guest that left its text; `ImageMatchesFile` speaks of files that hold all they
list (`ReadsWhole`). A pre-instrumented ECALL ends the behaviour (`Instrument_Lost`):
what its jump does is in `Dispatcher`.

`Switches`: a guest whose SP was written in the frame (by a link to SP or by a routine) rests when it is entered,
and its registers are not asked for, since the load half takes all but RA
from where that SP points; T6 is excused while `instrument` has cost the guest its value
(finding 2); `NextIsNative` excepts branches and jumps that go by SP and a jump by register 0, for which `stub` reads
the word before the frame. What lies below its SP the guest does not rely on.

`MemAccess` leaves out the instructions `Disturbed` names, each of which goes wrong
for some registers (but a pre-instrumented load from register 0 into
register 0): the scratch register or SP as the
operand of an adjusted access, since the one holds the offset and the other is
moved by 16 meanwhile; where the base register is moved in place, an atomic or a
pre-instrumented store whose operand is the base, and register 0 as base; and
pre-instrumented atomics, whose address is not translated at all. LR and SC are
in `ReservedAtomics`.

## 5. Findings

1. **A forwarded system call can be lost.** `stub` returns to the word before the next
   block, taken to be the ECALL (`dispatcher.cpp:300`). If that block was cached
   earlier, the word is another block's `jalr x0, 0(t6)`, T6 holds its own
   address, and the guest spins.
2. **A pre-instrumented block does not restore T6**, against the comment at
   `code_cache.cpp:66`.
3. **Atomics are not instrumented**, against `rail.h:119`: the AMO branch of `allocateBB`
   never ends a segment, so what follows an atomic lies in its block and has no PRE call, another atomic included.
4. **LR and SC become comparisons.** The words meant as plain loads and stores
   (`code_cache.cpp:502`, `508`) are encoded with opcode `OP` (`478`, `483`).
5. **A link in a jump's exit loses T6.** `stub` writes a link at the offsets of a branch's
   second sequence (`dispatcher.cpp:226`); the exit of a jump is a single one and reports
   as taken, so the link is reached with half an address in T6, and the
   next trace's `restore_scratch`, which would repair it (`code_cache.cpp:1008`), is skipped.

Behaviour the modules contain that no line of the repository promises otherwise:

* the test for instructions outside the instrumented range uses AND and never
  holds (`code_cache.cpp:77`): no routine is lost by it, and no block is spared;
* typed PRE routines ignore their bounds in `instrument`, basic-block PRE routines ignore
  them in `stub` but not in `init`;
* a routine with a lower bound below zero is never called where bounds are
  compared, since the comparison is unsigned, and empties the range for others;
* sections ahead of `.text` are read from where the stream happens to stand, behind it
  (`elf_reader.cpp:192`), and when that runs off the file nothing behind it is read either;
* `init` ends the environment with five zeros, so that a reader of the stack finds an empty
  auxiliary vector there before the one `init` writes, and AT_EXECFN is read from
  `argv` after a long copy has overwritten it;
* SP in the frame is 32 words below the guest's, so that is what routines see and what a link
  or a jump by SP goes by; a branch that compares SP sees it two words too low
  (`code_cache.cpp:206`), and a routine that sets SP moves where all registers but RA are
  loaded from (`util.S:250`);
* in `init`, routines get the host's stack for registers (`dispatcher.cpp:375`) and what they set
  is overwritten by the arguments; the guest starts with RA, GP, TP and T6 as the
  host left them;
* JALR with `rs1` zero reads the word before the frame (`dispatcher.cpp:105`);
* without `registerArgs`, or without its environment, `init` dereferences null.

## 6. Proofs

`DispatcherProofs` proves, for every text, registration, initial register set and
cache size, from `SetupsAssumption` (texts are sequences of instructions),
`InitialRegsAssumption` (registers hold integers) and `CacheAssumption`:

* `TypeCorrect == Spec => []TypeOK`. Types alone are not inductive: the processor
  executes `text[word.a]`, so a cache word that stands for a guest instruction must
  name an address of the text. `TypeInv` adds that (`memory \in Seq(CodeWord)`).
* `MetadataCorrect == Spec => []BlocksDescribeText`. Every next address `stub`
  computes comes from the metadata of a block, so this is what its correctness
  rests on. A block appears complete in one step, so the invariant needs the
  allocation in progress: `AllocDescribesText` says that `railBB` starts at or before
  the cursor, that `allocatedPrev` counts the instructions between, that
  `startInst` is the first and that they are straight-line code. Without the second
  the cut before a pre-instrumented instruction could close a block of no
  instructions.

Both are proved from lemmas about each action (a block closed at the cursor or
just before it describes the text; inserting a good block keeps all good), and
both strengthened invariants were first checked with TLC.

`ControlProofs` and `RoutineProofs` go on from there, one on top of the other. What is
invariant is stated in `DispatcherInvariants`, apart from the proofs; `LayoutOK`, `ControlInv`,
`CutInv` and `CallsInv` were checked with TLC on the instances of `Core`, `TypedPre` and
`AnyTool` before they were proved.

* `ControlProofs`, the layout: `CacheMirrorsText == Spec => [](NoPreRoutineForEcalls => CacheMirrorsBlocks)`. The
  property counts guest words between two indices; the invariant `LayoutOK` says
  word for word what stands there. `PlainLayout` is a block of `allocateBB`: the word that restores T6,
  the copies of its instructions one behind the other (`LaidOut`), the exit. `PreInstLayout`
  is one of `allocateNextInst`. `AllocLaidOut` is the block being allocated as far as the cursor.
  That an insertion leaves all other blocks as they are rests on one fact: the cache only grows.
* `ControlProofs`, control: between any two steps the engine is in one of three
  situations (`ControlInv`). `AtRoot`: in the words of `allocateRoot` or in `init`. `AtWait`: in
  the host, with the frame of `stub` and the allocation agreeing on where the guest goes.
  `AtBlock`: in the block `currentBB` names, at one of nine kinds of place (`InBlock`), each
  with the guest's address and the whereabouts of its T6. From it follow
  `CurrentBBTracked`, `T6IsTheGuests`, `CrashOnlyByOverflow` and the refinements. For those each
  step is shown to be one the guest does not see (`Unseen`) or the
  very step of `GuestMachine` (`ImplementsNative`; `ImplementsNativeSansT6` with T6 left out).
* `RoutineProofs`: `PreCallsCorrect`, `PostCallsCorrect`, `BlocksBracketed` and `EdgesTracked`. `CutInv` says
  that no block goes on behind an instruction that a POST routine wants to follow nor
  reaches one that a typed PRE routine wants to precede, unless through
  `instrument`. `CallsInv` says what has been called so far: inside a block,
  the PRE routines of its first instruction and nothing else; behind it, the POST
  routines of its last. `StepShape` sorts the steps of the engine into six kinds by what
  the tool sees of them, so that each conjunct of `CallsInv` is proved
  of six steps and not of thirty. The counts of calls agree with the number of
  routines because no opcode has two types (`ApplicableCount`).

`TraceProofs` is the same for the engine with trace linking. `TraceInvariant == TraceSpec => []TraceInv`
rests on the three assumptions of `DispatcherProofs` alone; `TraceInv` (`TraceInvariants`) was checked with TLC
on the instances of `Traces` before it was proved. Two things are hard about it. The
cache no longer only grows: `stub` overwrites two words of an exit, possibly of an exit that
was overwritten before, and finds it by an index it kept since the exit was laid.
And control enters and leaves an exit in its middle.

* `LayoutInv` says what a cache is made of, whatever links it has: sequences, and exits of one
  of three shapes (`ExitAt`), each word of which is what was laid there or part of a link
  (`ReportAt`). Code is laid in pieces (`Piece`), and laying a piece behind a cache
  leaves a cache (`PieceGlued`). For the link, `LinkPlaceIs` says which words of
  which exit the index of `exits` leads to, `ExitsApart` that exits do not overlap, and
  `LinkLayout` that what is left is a cache in which the new link and all old ones lead where the guest goes.
  An exit that has no second side is linked at the end of its only one, so `JumpExitAt` must say that this
  happens to a direct jump's exit only and that a direct jump always reports as taken: otherwise the link of a
  fall-through would be written behind the exit.
* `TraceControlInv` says where control is (`InCache`, `InHost`). In an exit, `OnSide` gives, before each word, the
  whereabouts of SP and T6 and what has been reported. `AtTail` is the one place outside of it: a
  forwarded ECALL makes `stub` return to the word before a trace (finding 1), which may be any
  last word of an exit; the invariant covers that too, since that word jumps back to itself, or
  along a link.
* From it follow `TraceTypeCorrect`, `ExitsLeadToText`, `LinksGoWhereTheGuestGoes`, `TracesRunWithTheGuestsT6` and
  `BranchLinksPreserveT6`, the first three without any hypothesis.
* `TracesOwnTheirWords` needs more: which words are a trace's. `ExtentInvariant` adds `ExtentInv` to the induction. A
  trace ends where a sequence begins, none of its words goes on past that (`Extent`), and only an exit goes there
  (`Ended`): so control that came in at the first word (`InCurrent`) stays until it leaves through
  the exit. Exceptions are a trace the text ended in, which has no exit: `OpenAt` says that it is the
  last one and that control is in it already, so that no other trace is ever laid behind it; and
  the ECALL behind the exit of a system call, a word of the trace that no word of it leads to.
  Links do not disturb this, since what they overwrite is no sequence (`LinkedMemoryFlow`).

`PlaceProofs` proves that the engine with traces implements the bare machine,
`TracesImplementNative == TraceSpec /\ PlainText /\ []LinksAsMeant => TracesImplementGuestMachine`. For the
blocks of `ControlProofs` it was enough to know the instructions of one block, the one control is in. Here a
trace goes on through jumps it has followed, its exits are entered in the middle, and a link leads from
one trace into another without a word to the host. So the invariant speaks of every word in the cache, not
only of the ones control is near (`TracePlaces`, checked with TLC on all 113 704 states of `Traces` first):

* `PathInv` says which instruction each word is for and that words lead on as the guest does. A sequence is for
  the instruction it carries, an exit for the one it reports, and behind the last word comes the one the
  reader's cursor is at (`AddrAt`); but where jumps were followed the guest has to go through those first, since
  they retire and leave no word (`PlaceAt`, `JumpsLead`). `Leads`: what
  follows a word is for the instruction behind its own, or is a segment's exit. `BeginsWith` and `EndsWith`
  tie this to the metadata. `OpenOf` is what an allocation in progress has left without a successor.
* `PlaceInv` says where the guest is by where control is: at a sequence, at the instruction it is for; within an
  exit, at the one it reports, with the branch decided by the side control is on (`ExitPlace`); in the host,
  at what `stub` was told, or at the block that `stub` decided on.

Laying words behind a cache changes what no earlier word is for, as the word after the last was for the
instruction at the cursor already (`Alike`, `Carried`); writing a link changes no word that something is looked up by. With
that, each step is one that the guest does not see or the step of `GuestMachine` (`TraceNextPlaces`).

On the same invariant rests `TraceCallsCorrect == TraceSpec /\ PlainText /\ RoutinesServed /\ []LinksAsMeant =>
[]TraceRoutinesRun`. `TraceRoutinesRun` looks back at an instruction when it has retired, so `CallsPlace` says
at every moment between two retirements what of the due calls has been made: all behind the last instruction and all before the
next (`PostDue`, `PreDue`) while control is in a trace or at an exit; nothing yet from the end of a segment until `stub` is through with it
(`LeavingSegment`), for the instruction retired in the trace; only what follows the last one while `stub`
waits for the next trace (`NotYetEntered`). An instruction that does not end a segment must then want no
call (`NoneWanted`), which is why `allocateTraceBlock` has to cut at exactly the instructions that `stub` calls for;
`SegmentInside` and `ExitsApart` tell a segment's exit from all others at each of its words.

The theorems hold of every text, set of routines, register set and cache size, under
hypotheses about the text and the tool. Each leaves out inputs
on which the code does not do what the theorem says:

| Hypothesis | Leaves out | Because |
|---|---|---|
| `NoPreRoutineForEcalls` | typed PRE routines for a text's ECALLs | `allocateNextInst` writes a jump to a stub region for them, which leads nowhere (`code_cache.cpp:876`) |
| `Tracked` | texts that end in straight-line code | the rest of the text is never inserted (`code_cache.cpp:571`) |
| | ECALLs left to the host | finding 1 |
| | typed PRE routines for ECALLs or for accesses through T6 | as above; the exit behind such an access jumps through T6 while the address is in T5 (`code_cache.cpp:856`) |
| `KeepsT6` | typed PRE routines | finding 2 |
| `Supported` | typed PRE routines, and accesses through T6 whose result goes to T6 | finding 2; the result is undone (`code_cache.cpp:379`) |
| `LeavesT6Alone` | texts that name T6 | finding 2: what is left of the refinement is that without T6 |
| `[]CacheFits` | caches that overflow | nothing checks it (`code_cache.cpp:576`); `CrashOnlyByOverflow` says that no other crash is possible |
| `0 \in InitialRegs` | | the refinement without T6 maps that register to 0, which must be a value the guest can start with |
| `NoForwardedEcalls` (traces) | ECALLs left to the host | finding 1: control may come to rest where T6 is not the guest's, and in another trace than `currentBB` |
| `OnlyBranchesLinked` (traces) | links of direct jumps | finding 5 |
| `PlainText` (traces) | ECALLs left to the host | finding 1 |
| | words that are no instruction, but for the last | a trace ends there without an exit (`code_cache.cpp:1694`): control runs on into what is laid next |
| | loads to the register that their address is computed in | the result is undone (`code_cache.cpp:379`) |
| `SegmentsUnlinked` (traces) | links together with routines that end segments | the exit of a segment reports nothing: `stub` takes the last instruction of `currentBB`, which is stale behind a link (`dispatcher.cpp:14`) |
| `TracesFit` (traces) | caches that overflow | nothing checks it (`code_cache.cpp:576`) |
| `RoutinesServed` (traces) | routines together with branches or direct jumps | what is followed while a trace is built, or linked, does not pass `stub`, which makes all calls (`dispatcher.cpp:155`) |
| | POST routines for the format of a text's accesses or ECALLs | `stub` calls those too (`dispatcher.cpp:174`), though a trace is not cut behind such an access (`code_cache.cpp:1528`) |
| | typed PRE routines for ECALLs | `stub` calls them (`dispatcher.cpp:125`); all other typed PRE routines are ignored |
| `Undisturbed` (MemAccess) | accesses whose operands are registers the sequence moves, or pre-instrumented atomics | `Disturbed`, section 4: the result is undone, or the address is not translated |
| | LR and SC | `ReservedAtomics` |
| | an access to the word below the stack | the scratch register is saved there meanwhile |
| | an AUIPC whose result leaves 32 bits; a branch that compares SP | registers hold unbounded integers here; SP is two words too low (`code_cache.cpp:206`) |
| `AtomicsUntouched` | atomics together with a routine one of them would need a block end for | finding 3 |
| `RoutinesApart` | routines for basic blocks together with routines for instructions | the pieces of a block each get some of the calls (`dispatcher.cpp:269`) |

All setups of `TypedPre` satisfy `Tracked` and `LeavesT6Alone`, those of `Core` without a
forwarded ECALL, nearly all, `Tracked` and `Supported`, all of both `AtomicsUntouched` and
`RoutinesApart`, all of `Traces` `RoutinesServed`, and all instructions of `MemAccess` `Undisturbed`: the runs check the same formulas on states the hypotheses admit.
`EdgesStartAtLeader` has its own condition, no routines for instructions, in its antecedent.

`SessionProofs` proves `NoRoutineMissed == Spec => []NoCallMissed` for every file, every set of
registrations in any order, with any bounds, and any way the guest takes, from
`SessionsAssumption` (what the tool calls are calls of the API, files that open have a text). `NoCallMissed`
looks at the block just left, so the invariant `SessionInv` must say what made its calls
complete. `AllFit`: no cached block goes on behind an instruction at which a
routine wants control (`Fits`), which needs that the range never
excludes an address (`RangeExcludesNothing`). `ToolInv`: the range
contains zero and every upper bound, so `instrument`, which does test it, drops nobody.
`CalledInv`: what has been called when control is in a block includes what entering it calls for,
even with the bounds `stub` ignores. From these, `PreCallsComplete`, `PostCallsComplete` and `BBCallsComplete`
show that the lookups made, by type, find every routine that is due.

The other properties of a session are about folds: the sums of the graph's counts, the image, which is a
fold of reads over the file's sections, the copy of the arguments. The library's induction theorems cannot be
instantiated, so `SessionProofs` proves induction on the subsets of a finite set (`SetInduction`) from the well-foundedness
of strict inclusion: of any set of subsets some are smallest (`MinimalSet`). With it, a fold has one value, whatever its `CHOOSE`s
pick (`FoldUnique`, `FoldExists`); a sum may be taken in any order (`SumTakeOut`, whence what one more edge does to it), and a fold over
a sequence is a row of stages, one for each element (`FoldStages`). Then:

* `GraphCountsAWalk == Spec => []GraphIsAWalk`. `WalkInv`: entries less exits of each node are those of a walk from START to
  `currentBB`, or to END. It needs that without instruction routines a block is whole (`Plain`),
  so that the node `stub` leaves is the one it entered last.
* `TargetIsLoaded == Spec => []ImageMatchesFile`. `ImageInv` says that the image is what loading this file made of some other image;
  the rest is about that fold: if all reads are within the file, each section behind the text replaces exactly the words it
  covers (`SectionLoads`), so that the last one to cover a word decides, whatever was in the image and
  wherever the stream stood.
* `ArgumentsArrive == Spec => []GuestFindsItsArgs`. `init` reads the kernel's words and writes the guest's into one stack, which may
  overlap. The proof goes through the copy word by word; that no word is read after it was overwritten (`argv` and `envp`; AT_EXECFN
  is read from behind, as section 5 says) comes from one inequality: the copy never stands above the word it reads, since
  the kernel's words start at least one above (`HostWords`). From `StackHoldsArguments`: the stack modelled holds what is read and written.
* `SessionTypeCorrect == Spec => []SessionTypeOK`, from the conjunction of all these invariants (`WholeInv`).

`MemAccessProofs` proves, for every guest word and register file, every `PC` and
`dataOffset`, from `CasesAssumption` (what is laid out is a word), `InitialRegsAssumption`,
`AddressAssumption` and `AlignmentAssumption` (instructions and data
lie at even addresses below 2^31, `rail.cpp:208`):

* `CodecCorrect == Spec => []CodecIsExact`. The bit arithmetic is in lemmas about numbers, one per format
  and direction (`TwelveBits`, `BranchBits`, `UpperBits`, `JumpBits` and their `...Back`);
  from them `DecodedImmediate` and `Reencoded` hold of any word. The
  invariant adds that only words are laid out (`WordsInv`), from a lemma for each
  encoder (no field leaves its range, whatever the immediate) and for each sequence.
* `AccessesCorrect`, `BranchesCorrect`, `SequenceTypes`: `ResultMatchesGuest`, `ExitMatchesGuest` and
  `TypeOK` of every instruction that is `Undisturbed`. The properties speak of the
  end of a sequence; `SequenceInv` (`MemAccessInvariants`) says before each of its words which
  registers and cells still or already are the guest's, and what the borrowed register, the base
  register and the word below the stack hold instead. A lemma for each shape of
  sequence lists its words, with the immediates the processor reads out of them
  (`WordsAround`), and one for each group of words shows what running them leaves (`AroundOpens`,
  `AroundAdds`, ...); that a sequence's three words load their constant is the
  arithmetic of `insertLi`, where an odd value would lose its last bit. The invariant was not inductive
  when it was first stated: before an access whose base register is moved in place it must
  also say that the guest's base was below the data offset, or the offset taken off
  again behind the access would not be one that was added. Every state TLC reaches has it.

`SwitchProofs` proves all of `ContextSwitch`'s properties, for every
set of exits, every memory and every value, from `SwitchAssumption` (registers are integers, exits
have their fields, a frame fits below the first SP): `SwitchTyped`, `RegistersKept`,
`FrameIsGuests`, `StackKept` and `StubKnowsNext`. Each property speaks of one moment of a round trip; the
invariant `SwitchInv` says what every moment leaves for the next. `AtSwitch`: T6 is two words below the guest's SP
and, in a trace, the address one word below. `AtHost`: the frame's words are the
registers, SP's is the frame itself. `AtEntry`: all registers are back but T6, whose word
of the frame is the word `restore_scratch` fetches. `ReportInv`: `stub` knows
the address its exit stood for, and a branch came out of the exit its register asks for. `LeaveKeeps` and
`FrameWriteKeeps` are the two lemmas that carry the others: any exit, and any write to the frame.

Model-checked only, and why:

* everything about progress (`GuestKeepsRunning`, `GuestKeepsRunningInTraces`, `SequenceEnds`): liveness
  under fairness is out of the prover's reach;
* `ForwardedEcallRuns`: it holds only where no continuation was cached before (finding 1), which
  is a property of a text's paths.

## 7. What remains

The properties of section 6 that are only model-checked, which the provers cannot reach, and what is not modelled.

**Not modelled, and why:**

* *The rest of `util.S`*: `init_switch` clears most registers before the first block
  (`ContextSwitch` begins with a guest that has run for a while);
  nothing reaches `exit_context_switch`, `run_instrument` and `restore_ra`. (The T5 snippets are in `MemAccess`.)
* *Stub regions*: compiled only with `STUBREGIONS`, which no build file defines. The default build's
  one jump to such a region is in `Dispatcher` (`RunJalRoot`).
* *Inline routines* (`addInline*`): their words are the tool's; what they do to the guest
  is the tool's affair.
* *Arguments of system calls* (`system_calls.cpp`): the data offset is added to buffer
  addresses, which the engine's abstraction of data does not have.
* *The typed PRE code of the trace allocator*: behind `if(0)`.
* *What printing, logging and the written graph look like*: nothing reads it.
* *Build files and documentation*: no behaviour.
