------------------------------ MODULE RailApi -------------------------------
(***************************************************************************)
(* rail.cpp: the calls a tool makes before it hands control over with      *)
(* runInstrument, in whatever order it likes.  A routine is known by what  *)
(* it was registered for.                                                  *)
(***************************************************************************)
EXTENDS ElfReader

CONSTANT
  Sessions     (* what a tool may do: calls, files and the process arguments  *)

VARIABLES
  calls,                     (* API calls the tool may still make             *)
  routines,                  (* all routine vectors                           *)
  instructionRoutinesStart,
  instructionRoutinesEnd,
  target,                    (* elfReaderPtr: the file, or NoFile             *)
  data,                      (* the data image, CodeCache::data               *)
  rail                       (* railArgc, railArgv, railEnvp, cfgGenerator,   *)
                             (* exitRoutine                                   *)

apiVars == <<calls, routines, instructionRoutinesStart, instructionRoutinesEnd,
             target, data, rail>>

MaxInt == 2147483647   (* of an int *)

InsertPoint == {"PRE", "POST"}

(* A routine for basic blocks, for all instructions, or for a type.  An    *)
(* upper bound below zero, which addresses are compared with as if it were *)
(* a huge one, is not considered.                                          *)
Routine == [what : {"BB", "ALL"} \cup InstType, point : InsertPoint,
            lowerBound : (-MaxInt - 1)..MaxInt, upperBound : 0..MaxInt]

(* A call of addInstrument...; "bounded" tells the overloads apart.        *)
Registering == [call : {"addInstrument"}, routine : Routine, bounded : BOOLEAN]

RegisterArgs == [call : {"registerArgs"}, env : BOOLEAN]
SetTarget    == [call : {"setTarget"}, file : File]
OtherCall    == [call : {"addCFGGeneration", "setExitRoutine"}]

(* The overloads without bounds register for every address.                *)
ApiCall == {c \in Registering : c.bounded \/ (c.routine.lowerBound = 0
                                                /\ c.routine.upperBound = MaxInt)}
           \cup RegisterArgs \cup SetTarget \cup OtherCall

Arguments == [argv : Seq(Nat \ {0}), envp : Seq(Nat \ {0})]

ASSUME SessionsAssumption ==
  \A s \in Sessions :
    /\ \A c \in s.calls : c \in ApiCall
    /\ \A c \in s.calls : c.call = "setTarget" => WellFormed(c.file)
    /\ s.args \in Arguments

NoFile == [kind |-> "missing", size |-> 0, entry |-> 0, text |-> << >>, sections |-> << >>]

ApiInit(s) ==
  /\ calls = s.calls
  /\ routines = {}
  /\ instructionRoutinesStart = 0
  /\ instructionRoutinesEnd = 0
  /\ target = NoFile
  /\ data = EmptyImage
  /\ rail = [args |-> FALSE, env |-> FALSE, cfg |-> FALSE, exit |-> FALSE]

-----------------------------------------------------------------------------

Making(c, name) == c \in calls /\ c.call = name /\ calls' = calls \ {c}

(* preInstrumentationRoutines and its twin say which vectors are in use.   *)
Registered(point) == {r \in routines : r.point = point}

RegisterRoutine(r) == routines' = routines \cup {r}

addInstrumentBB(c) ==
  /\ Making(c, "addInstrument") /\ c.routine.what = "BB"
  /\ RegisterRoutine(c.routine)
  /\ UNCHANGED <<instructionRoutinesStart, instructionRoutinesEnd, target, data, rail>>

(* addInstrumentInstAll and addInstrumentInstType.                         *)
addInstrumentInst(c) ==
  /\ Making(c, "addInstrument") /\ c.routine.what # "BB" /\ ~c.bounded
  /\ RegisterRoutine(c.routine)
  /\ instructionRoutinesStart' = 0
  /\ instructionRoutinesEnd' = MaxInt
  /\ UNCHANGED <<target, data, rail>>

(* Mutant: the range is that of the last routine.                          *)
UpperOfLast(r) == r.upperBound

LowerOf(r) == IF r.lowerBound < instructionRoutinesStart
              THEN r.lowerBound ELSE instructionRoutinesStart
UpperOf(r) == IF r.upperBound > instructionRoutinesEnd
              THEN r.upperBound ELSE instructionRoutinesEnd

addInstrumentInstBounded(c) ==
  /\ Making(c, "addInstrument") /\ c.routine.what # "BB" /\ c.bounded
  /\ RegisterRoutine(c.routine)
  /\ instructionRoutinesStart' = LowerOf(c.routine)
  /\ instructionRoutinesEnd' = UpperOf(c.routine)
  /\ UNCHANGED <<target, data, rail>>

(* The overload without envp leaves what an earlier call registered.       *)
registerArgs(c) ==
  /\ Making(c, "registerArgs")
  /\ rail' = [rail EXCEPT !.args = TRUE, !.env = @ \/ c.env]
  /\ UNCHANGED <<routines, instructionRoutinesStart, instructionRoutinesEnd, target, data>>

(* The image of an earlier target is read over, not cleared.               *)
setTarget(c) ==
  /\ Making(c, "setTarget") /\ Opens(c.file)
  /\ target' = c.file
  /\ data' = getDataSections(c.file, getTextSection(c.file, data)).data
  /\ UNCHANGED <<routines, instructionRoutinesStart, instructionRoutinesEnd, rail>>

(* The constructor throws: nothing has changed if the tool catches it.     *)
setTarget_Throws(c) ==
  /\ Making(c, "setTarget") /\ ~Opens(c.file)
  /\ UNCHANGED <<routines, instructionRoutinesStart, instructionRoutinesEnd, target,
                 data, rail>>

addCFGGeneration(c) ==
  /\ Making(c, "addCFGGeneration")
  /\ rail' = [rail EXCEPT !.cfg = TRUE]
  /\ UNCHANGED <<routines, instructionRoutinesStart, instructionRoutinesEnd, target, data>>

setExitRoutine(c) ==
  /\ Making(c, "setExitRoutine")
  /\ rail' = [rail EXCEPT !.exit = TRUE]
  /\ UNCHANGED <<routines, instructionRoutinesStart, instructionRoutinesEnd, target, data>>

ApiStep ==
  \E c \in calls :
    \/ addInstrumentBB(c)  \/ addInstrumentInst(c) \/ addInstrumentInstBounded(c)
    \/ registerArgs(c)     \/ setTarget(c)         \/ setTarget_Throws(c)
    \/ addCFGGeneration(c) \/ setExitRoutine(c)
=============================================================================
