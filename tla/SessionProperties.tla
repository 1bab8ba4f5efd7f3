------------------------- MODULE SessionProperties --------------------------
(***************************************************************************)
(* What a tool relies on from the first API call to the exit.              *)
(***************************************************************************)
EXTENDS Session

(* The state is of the shapes the code declares.                           *)
SessionTypeOK ==
  /\ calls \subseteq ApiCall /\ routines \subseteq Routine
  /\ instructionRoutinesStart \in Int /\ instructionRoutinesEnd \in Nat
  /\ target \in File /\ data \in [Addresses -> Nat]
  /\ rail \in [args : BOOLEAN, env : BOOLEAN, cfg : BOOLEAN, exit : BOOLEAN]
  /\ args \in Arguments /\ stack \in [0..(StackWords - 1) -> Int]
  /\ DOMAIN RailBasicBlocks \subseteq Int
  /\ RailBasicBlocks \in [DOMAIN RailBasicBlocks -> Block]
  /\ currentBB \in Int
  /\ DOMAIN entries \subseteq Int \X Int /\ entries \in [DOMAIN entries -> Nat]
  /\ phase \in Phase /\ status \in Status /\ visits \in 0..MaxVisits
  /\ preCalls \subseteq Routine \X Int
  /\ visit \in [block : Block, pre : SUBSET (Routine \X Int), post : SUBSET (Routine \X Int)]

-----------------------------------------------------------------------------
(* The image.                                                              *)

Covers(section, a) ==
  section.addr # 0 /\ a \in section.addr..(section.addr + section.size - 1)

(* What the file says of the word at a: the last section that has it.      *)
LastCovering(f, a) ==
  CHOOSE s \in {SectionsBehind(f)[k] : k \in DOMAIN SectionsBehind(f)} :
    /\ Covers(s, a)
    /\ \A k \in DOMAIN SectionsBehind(f) :
         Covers(SectionsBehind(f)[k], a) =>
           \E m \in k..Len(SectionsBehind(f)) : SectionsBehind(f)[m] = s

FileWord(f, a) ==
  LET s == LastCovering(f, a)
  IN  IF s.name \in ZeroedSections THEN Zero ELSE Word(s.offset + a - s.addr)

(* The file holds every section it lists, and behind its text as many      *)
(* words as the sections ahead of it are read from there.                  *)
ReadsWhole(f) ==
  LET text == f.sections[TextIndex(f)]
      ahead == SubSeq(f.sections, 1, TextIndex(f) - 1)
  IN  /\ \A k \in DOMAIN f.sections :
           f.sections[k].name \notin ZeroedSections =>
             f.sections[k].offset + f.sections[k].size <= f.size
      /\ text.offset + text.size + FoldLeft(LAMBDA n, s : n + s.size, 0, ahead) <= f.size
      /\ HeaderSize <= f.size

(* The guest finds the sections behind its text where it was linked to     *)
(* have them, whatever target was loaded before, whatever lies on top of   *)
(* a .tbss, and however the stream was left by the reads before.           *)
ImageMatchesFile ==
  target # NoFile /\ ReadsWhole(target) =>
    \A a \in Addresses :
      (\E k \in DOMAIN SectionsBehind(target) : Covers(SectionsBehind(target)[k], a))
        => data[a] = FileWord(target, a)

-----------------------------------------------------------------------------
(* The routines.                                                           *)

Due(r, a) == /\ r.what = "ALL" \/ r.what \in Kinds(Op(a))
             /\ InBounds(r, a)

DueBB(r, b) == /\ r.what = "BB" /\ b.type # "SEGMENTED"
               /\ Within(r, b.firstAddr, b.lastAddr)

CalledIn(v, r, before, after) ==
  IF r.point = "PRE" THEN <<r, before>> \in v.pre ELSE <<r, after>> \in v.post

(* The instruction that exits has no after, and instrument takes a range   *)
(* that starts below zero for an empty one.                                *)
Expected ==
  {r \in routines :
     /\ status = "exited" => r.point = "PRE"
     /\ r.what = "MEM_ACCESS" /\ r.point = "PRE" => instructionRoutinesStart >= 0}

(* For every instruction the guest has been through, the routines that     *)
(* were registered for it and its address have been called, before or      *)
(* after it: neither the blocks it was put into nor the range of all       *)
(* routines lose one.  Blocks with an atomic are excepted.                 *)
NoCallMissed ==
  /\ visit # NoVisit
  /\ \A a \in visit.block.firstAddr..visit.block.lastAddr : Op(a) # "AMO"
  =>
    \A r \in Expected :
      /\ \A a \in visit.block.firstAddr..visit.block.lastAddr :
           Due(r, a) => CalledIn(visit, r, a, a)
      /\ DueBB(r, visit.block) =>
           CalledIn(visit, r, visit.block.firstAddr, visit.block.lastAddr)

-----------------------------------------------------------------------------
(* The graph.                                                              *)

Nodes == UNION {{e[1], e[2]} : e \in DOMAIN entries}

(* How often control came to a node, and how often it left it.             *)
Inflow(n)  == MapThenSumSet(LAMBDA e : entries[e], {e \in DOMAIN entries : e[2] = n})
Outflow(n) == MapThenSumSet(LAMBDA e : entries[e], {e \in DOMAIN entries : e[1] = n})

Excess(n) == Inflow(n) - Outflow(n)

(* Where control is: the guest's block or, once it has exited, "END".      *)
Here == IF status = "exited" THEN EndNode ELSE Current.basicBlockAddress

(* The labels of the graph are those of one walk from "START" to where     *)
(* control is: every other node is left as often as it is entered.         *)
(* Instruction routines, which split blocks, and a guest that leaves its   *)
(* text are excepted.                                                      *)
GraphIsAWalk ==
  /\ rail.cfg /\ phase = "run" /\ status # "faulted"
  /\ \A r \in routines : r.what = "BB"
  => \A n \in Nodes : Excess(n) = CASE n = StartNode -> -1 [] n = Here -> 1 [] OTHER -> 0

-----------------------------------------------------------------------------
(* The arguments.                                                          *)

(* The guest starts with its argument count, its arguments and its         *)
(* environment on the stack, each list with its end, and the name it was   *)
(* started under in the auxiliary vector, unless the copy was so long that *)
(* it has overwritten the caller's.                                        *)
GuestFindsItsArgs ==
  phase \in {"run", "instrument"} =>
    LET argc  == Len(args.argv)
        envc  == Len(args.envp)
        auxv  == argc + envc + 7
    IN  /\ stack[0] = argc
        /\ \A i \in 1..argc : stack[i] = args.argv[i]
        /\ stack[argc + 1] = NULL
        /\ \A i \in 1..envc : stack[argc + 1 + i] = args.envp[i]
        /\ stack[argc + envc + 2] = NULL
        /\ argc > 0 /\ ArgvAt >= auxv =>
             \E k \in 0..(Len(AuxTypes) - 1) :
               /\ stack[auxv + 2 * k] = AT_EXECFN
               /\ stack[auxv + 2 * k + 1] = args.argv[1]
=============================================================================
