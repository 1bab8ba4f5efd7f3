---------------------------- MODULE CfgGenerator ----------------------------
(***************************************************************************)
(* cfg_gen.cpp: the control-flow graph, an edge's label being how often it *)
(* was taken.                                                              *)
(***************************************************************************)
EXTENDS Integers

(* The labels "START" and "END".                                           *)
StartNode == -1
EndNode   == -2

NoEdges == [e \in {} |-> 0]

(* Mutant: an edge already there is not counted.                           *)
addEdgeOnce(entries, from, to) ==
  [e \in DOMAIN entries \cup {<<from, to>>} |->
     IF e \in DOMAIN entries THEN entries[e] ELSE 1]

addEdge(entries, from, to) ==
  [e \in DOMAIN entries \cup {<<from, to>>} |->
     IF e \notin DOMAIN entries THEN 1
     ELSE IF e = <<from, to>> THEN entries[e] + 1 ELSE entries[e]]
=============================================================================
