----------------------------- MODULE TraceProofs -----------------------------
(***************************************************************************)
(* Proofs about the engine with trace linking: however traces, exits and   *)
(* links come to lie in the cache, exits lead to the newest code for their *)
(* address and links where the guest goes.                                 *)
(***************************************************************************)
EXTENDS TracePlaces, DispatcherProofs

-----------------------------------------------------------------------------
(* The invariant in parts.                                                 *)

TraceTypes ==
  /\ text \in Seq(Inst) /\ tool \in Registration
  /\ memory \in Seq(TraceCodeWord)
  /\ RailBasicBlocks \in [DOMAIN RailBasicBlocks -> Block]
  /\ DOMAIN RailBasicBlocks \subseteq Int
  /\ program_counter \in Int /\ currentBB \in Int /\ alloc = Idle
  /\ exits \in [DOMAIN exits -> Nat]
  /\ trace \in [busy : BOOLEAN, railBB : Block, count : Nat]
  /\ lastInst \in Int /\ lastInstAddress \in Int /\ linked \in BOOLEAN

(* The same invariant, with the words of the cache typed as                *)
(* TraceInvariants has them.                                               *)
LEMMA TraceInvParts ==
  TraceInv <=> /\ TraceTypes /\ DispatcherTypeOK /\ HistoryTypeOK
               /\ LayoutInv /\ FollowedInv /\ TraceControlInv
<1>1. TraceInv => /\ TraceTypes /\ DispatcherTypeOK /\ HistoryTypeOK
                  /\ LayoutInv /\ FollowedInv /\ TraceControlInv
  BY DEF TraceInv, TraceTypeOK, TraceTypes, DispatcherTypeOK, HistoryTypeOK, LayoutInv,
         LayoutOf, Laid
<1>2. ASSUME TraceTypes, DispatcherTypeOK, HistoryTypeOK,
             LayoutInv, FollowedInv, TraceControlInv
      PROVE  TraceInv
  <2>1. memory \in Seq(TraceWord)
    BY <1>2 DEF TraceTypes, TraceCodeWord
  <2>2. DOMAIN exits \subseteq Int
    BY <1>2 DEF LayoutInv, LayoutOf, ExitsKnown, ExitKnown, InText
  <2>3. followed \in [DOMAIN followed -> Seq(Int)] /\ passed \in Nat
    <3>1. {a \in DOMAIN text : text[a].op = "JAL"} \subseteq Int
      BY <1>2 DEF TraceTypes
    <3>2. ASSUME NEW n \in DOMAIN followed
          PROVE  followed[n] \in Seq(Int)
      <4>1. followed[n] \in Seq({a \in DOMAIN text : text[a].op = "JAL"})
        BY <1>2 DEF FollowedInv
      <4> HIDE <1>2
      <4> QED BY <3>1, <4>1
    <3> QED BY <1>2, <3>2 DEF FollowedInv
  <2>4. TraceTypeOK
    BY <1>2, <2>1, <2>2, <2>3
      DEF TraceTypeOK, TraceTypes, DispatcherTypeOK, HistoryTypeOK, TraceControlInv
  <2> QED BY <1>2, <2>4 DEF TraceInv, TraceTypes
<1> QED BY <1>1, <1>2

-----------------------------------------------------------------------------
(* Words.                                                                  *)

(* The fields of a word.                                                   *)
LEMMA TraceWordFields ==
  ASSUME NEW k, NEW a, NEW v
  PROVE  W(k, a, v).k = k /\ W(k, a, v).a = a /\ W(k, a, v).v = v
  BY DEF W

(* Cont is a word.                                                         *)
LEMMA ContWord == Cont.k = "cont" /\ Cont = W("cont", 0, 0)
  BY DEF Cont, W

(* Which of the three an exit is, and its words by kind.                   *)
LEMMA ReportKinds ==
  ASSUME NEW m, NEW n \in Int, NEW a, NEW h, ReportAt(m, n, a, h)
  PROVE  \A k \in n..(n + 7) : m[k].k \in ExitKind \ {"traceBranch", "li", "cont"}
<1>1. /\ m[n].k \in {"lui", "popSp"} /\ m[n + 1].k \in {"addi", "jal"}
      /\ m[n + 2].k = "addiEnd" /\ m[n + 3].k = "sdPc" /\ m[n + 4].k = "lui"
      /\ m[n + 5].k = "addi" /\ m[n + 6].k \in {"addiEnd", "popSp"}
      /\ m[n + 7].k \in {"jalrT6", "jal"}
  BY TraceWordFields DEF ReportAt, LinkAt
<1> QED BY <1>1 DEF ExitKind

(* An exit is told by its third word.                                      *)
LEMMA ExitShape ==
  ASSUME NEW m, NEW n \in Int, ExitAt(m, n), DOMAIN m = 1..Len(m), Len(m) \in Nat,
         n \in DOMAIN m
  PROVE  /\ m[n + 1].k = "cont"
         /\ \/ m[n + 2].k = "traceBranch" /\ BranchExitAt(m, n) /\ ExitLength(m, n) = 19
            \/ m[n + 2].k = "lui" /\ JumpExitAt(m, n) /\ ExitLength(m, n) = 10
            \/ m[n + 2].k = "li" /\ SwitchAt(m, n) /\ ExitLength(m, n) = 6
         /\ \A k \in (n + 1)..(n + ExitLength(m, n) - 1) : k \in DOMAIN m /\ m[k].k \in ExitKind
<1>1. m[n + 1].k = "cont"
  BY ContWord DEF ExitAt
<1>2. CASE BranchExitAt(m, n)
  <2>1. m[n + 2].k = "traceBranch" /\ n + 18 \in DOMAIN m
    BY <1>2, TraceWordFields DEF BranchExitAt
  <2>2. /\ \A k \in (n + 3)..(n + 3 + 7) : m[k].k \in ExitKind
        /\ \A k \in (n + 11)..(n + 11 + 7) : m[k].k \in ExitKind
    BY <1>2, ReportKinds, SMT DEF BranchExitAt
  <2>3. \A k \in (n + 1)..(n + 18) : m[k].k \in ExitKind
    BY <1>1, <2>1, <2>2 DEF ExitKind
  <2> QED BY <1>1, <1>2, <2>1, <2>3 DEF ExitLength
<1>3. CASE JumpExitAt(m, n)
  <2>1. m[n + 2].k = "lui" /\ n + 9 \in DOMAIN m
    BY <1>3 DEF JumpExitAt
  <2>2. \A k \in (n + 2)..(n + 2 + 7) : m[k].k \in ExitKind
    BY <1>3, ReportKinds, SMT DEF JumpExitAt
  <2>3. \A k \in (n + 1)..(n + 9) : m[k].k \in ExitKind
    BY <1>1, <2>2 DEF ExitKind
  <2> QED BY <1>1, <1>3, <2>1, <2>3 DEF ExitLength
<1>4. CASE SwitchAt(m, n)
  <2>1. /\ m[n + 2].k = "li" /\ m[n + 3].k = "cont" /\ m[n + 4].k = "cont"
        /\ m[n + 5].k = "jalrT6" /\ n + 5 \in DOMAIN m
    BY <1>4, TraceWordFields, ContWord DEF SwitchAt
  <2>2. \A k \in (n + 1)..(n + 5) : m[k].k \in ExitKind
    BY <1>1, <2>1 DEF ExitKind
  <2> QED BY <1>1, <1>4, <2>1, <2>2 DEF ExitLength
<1> QED BY <1>2, <1>3, <1>4 DEF ExitAt

(* The eight words at p and those at q are the same.                       *)
SameReport(m, p, mm, q) == \A i \in 0..7 : mm[q + i] = m[p + i]

(* A report is where its words are,                                        *)
LEMMA ReportKept ==
  ASSUME NEW m, NEW mm, NEW p \in Int, NEW q \in Int, NEW a, NEW h,
         SameReport(m, p, mm, q), ReportAt(m, p, a, h)
  PROVE  ReportAt(mm, q, a, h)
<1> DEFINE Same(i) == mm[q + i] = m[p + i]
<1>1. \A i \in 0..7 : Same(i)
  BY DEF SameReport
<1> HIDE DEF Same
<1>2. Same(0) /\ Same(1) /\ Same(2) /\ Same(3) /\ Same(4) /\ Same(5) /\ Same(6) /\ Same(7)
  BY <1>1
<1>3. /\ mm[q] = m[p] /\ mm[q + 1] = m[p + 1] /\ mm[q + 2] = m[p + 2] /\ mm[q + 3] = m[p + 3]
      /\ mm[q + 4] = m[p + 4] /\ mm[q + 5] = m[p + 5] /\ mm[q + 6] = m[p + 6]
      /\ mm[q + 7] = m[p + 7] /\ mm[q + 6 + 1] = m[p + 6 + 1]
  BY <1>2 DEF Same
<1> QED BY <1>3 DEF ReportAt, LinkAt

(* The words behind the save at n and those behind r are the same.         *)
SameExit(m, n, mm, r) ==
  \A i \in 1..(ExitLength(m, n) - 1) : r + i \in DOMAIN mm /\ mm[r + i] = m[n + i]

(* and so is an exit.                                                      *)
LEMMA ExitKept ==
  ASSUME NEW m, NEW mm, NEW n \in Int, NEW r \in Int,
         ExitAt(m, n), DOMAIN m = 1..Len(m), Len(m) \in Nat, n \in DOMAIN m,
         SameExit(m, n, mm, r)
  PROVE  ExitAt(mm, r) /\ mm[r + 2] = m[n + 2]
<1> DEFINE Same(i) == r + i \in DOMAIN mm /\ mm[r + i] = m[n + i]
<1>0. \A i \in 1..(ExitLength(m, n) - 1) : Same(i)
  BY DEF SameExit
<1> HIDE DEF Same
<1>1. ExitLength(m, n) \in {6, 10, 19}
  BY DEF ExitLength
<1>2. Same(1) /\ Same(2) /\ Same(3) /\ Same(4) /\ Same(5)
  BY <1>0, <1>1
<1>3. mm[r + 1] = m[n + 1] /\ mm[r + 2] = m[n + 2]
  BY <1>2 DEF Same
<1>4. CASE BranchExitAt(m, n) /\ ExitLength(m, n) = 19
  <2>0. 1..(ExitLength(m, n) - 1) = 1..18
    BY <1>4
  <2>1. \A i \in 1..18 : Same(i)
    BY <1>0, <2>0
  <2>2. SameReport(m, n + 3, mm, r + 3) /\ SameReport(m, n + 11, mm, r + 11)
    <3>1. ASSUME NEW i \in 0..7
          PROVE  mm[(r + 3) + i] = m[(n + 3) + i] /\ mm[(r + 11) + i] = m[(n + 11) + i]
      <4>1. Same(i + 3) /\ Same(i + 11)
        BY <2>1
      <4>2. /\ r + (i + 3) = (r + 3) + i /\ n + (i + 3) = (n + 3) + i
            /\ r + (i + 11) = (r + 11) + i /\ n + (i + 11) = (n + 11) + i
        OBVIOUS
      <4> QED BY <4>1, <4>2 DEF Same
    <3> QED BY <3>1 DEF SameReport
  <2>3. /\ \A a, h : ReportAt(m, n + 3, a, h) => ReportAt(mm, r + 3, a, h)
        /\ \A a, h : ReportAt(m, n + 11, a, h) => ReportAt(mm, r + 11, a, h)
    <3>1. /\ n + 3 \in Int /\ r + 3 \in Int /\ n + 11 \in Int /\ r + 11 \in Int
      OBVIOUS
    <3>2. ASSUME NEW a, NEW h, ReportAt(m, n + 3, a, h)
          PROVE  ReportAt(mm, r + 3, a, h)
      BY <2>2, <3>1, <3>2, ReportKept
    <3>3. ASSUME NEW a, NEW h, ReportAt(m, n + 11, a, h)
          PROVE  ReportAt(mm, r + 11, a, h)
      BY <2>2, <3>1, <3>3, ReportKept
    <3> QED BY <3>2, <3>3
  <2>4. Same(9) /\ Same(17) /\ Same(18)
    BY <2>1
  <2>5. r + 18 \in DOMAIN mm /\ mm[r + 9] = m[n + 9] /\ mm[r + 17] = m[n + 17]
    BY <2>4 DEF Same
  <2>6. BranchExitAt(mm, r)
    BY <1>3, <1>4, <2>3, <2>5 DEF BranchExitAt
  <2> QED BY <1>3, <2>6 DEF ExitAt
<1>5. CASE JumpExitAt(m, n) /\ ExitLength(m, n) = 10
  <2>0. 1..(ExitLength(m, n) - 1) = 1..9
    BY <1>5
  <2>1. \A i \in 1..9 : Same(i)
    BY <1>0, <2>0
  <2>2. SameReport(m, n + 2, mm, r + 2)
    <3>1. ASSUME NEW i \in 0..7
          PROVE  mm[(r + 2) + i] = m[(n + 2) + i]
      <4>1. Same(i + 2)
        BY <2>1
      <4>2. r + (i + 2) = (r + 2) + i /\ n + (i + 2) = (n + 2) + i
        OBVIOUS
      <4> QED BY <4>1, <4>2 DEF Same
    <3> QED BY <3>1 DEF SameReport
  <2>3. \A a, h : ReportAt(m, n + 2, a, h) => ReportAt(mm, r + 2, a, h)
    <3>1. n + 2 \in Int /\ r + 2 \in Int
      OBVIOUS
    <3>2. ASSUME NEW a, NEW h, ReportAt(m, n + 2, a, h)
          PROVE  ReportAt(mm, r + 2, a, h)
      BY <2>2, <3>1, <3>2, ReportKept
    <3> QED BY <3>2
  <2>4. Same(8) /\ Same(9)
    BY <2>1
  <2>5. r + 9 \in DOMAIN mm /\ mm[r + 8] = m[n + 8]
    BY <2>4 DEF Same
  <2>6. JumpExitAt(mm, r)
    BY <1>3, <1>5, <2>3, <2>5 DEF JumpExitAt
  <2> QED BY <1>3, <2>6 DEF ExitAt
<1>6. CASE SwitchAt(m, n)
  <2>1. SwitchAt(mm, r)
    BY <1>2, <1>3, <1>6 DEF SwitchAt, Same
  <2> QED BY <1>3, <2>1 DEF ExitAt
<1> QED BY <1>4, <1>5, <1>6, ExitShape

-----------------------------------------------------------------------------
(* Pieces of the cache.                                                    *)

(* Where the words of two pieces stand when one is laid behind the other.  *)
LEMMA Glued ==
  ASSUME NEW S, NEW m \in Seq(S), NEW w \in Seq(S)
  PROVE  /\ m \o w \in Seq(S) /\ Len(m) \in Nat /\ Len(w) \in Nat
         /\ Len(m \o w) = Len(m) + Len(w)
         /\ DOMAIN m = 1..Len(m) /\ DOMAIN w = 1..Len(w)
         /\ DOMAIN (m \o w) = 1..(Len(m) + Len(w))
         /\ \A k \in DOMAIN m : k \in DOMAIN (m \o w) /\ (m \o w)[k] = m[k]
         /\ \A k \in DOMAIN w : k + Len(m) \in DOMAIN (m \o w) /\ (m \o w)[k + Len(m)] = w[k]
         /\ \A k \in DOMAIN (m \o w) : k \in DOMAIN m \/ k - Len(m) \in DOMAIN w
  OBVIOUS

(* A word of a cache has one of its kinds.                                 *)
LEMMA WordOfLaid ==
  ASSUME NEW m, Laid(m)
  PROVE  /\ m \in Seq(TraceCodeWord) /\ Len(m) \in Nat /\ DOMAIN m = 1..Len(m)
         /\ \A n \in DOMAIN m : /\ m[n] \in TraceCodeWord
                                /\ m[n].k \in StraightKind \cup ExitKind \cup {"save"}
  BY DEF Laid, TraceCodeWord

(* Behind a cache another piece may be laid that begins with a sequence.   *)
LEMMA LaidGlued ==
  ASSUME NEW m, NEW w, Laid(m), Laid(w), Begins(w, 1)
  PROVE  Laid(m \o w)
<1> DEFINE mw == m \o w
<1>0. m \in Seq(TraceCodeWord) /\ w \in Seq(TraceCodeWord)
  BY DEF Laid
<1>1. /\ mw \in Seq(TraceCodeWord) /\ Len(m) \in Nat /\ Len(w) \in Nat
      /\ Len(mw) = Len(m) + Len(w)
      /\ DOMAIN m = 1..Len(m) /\ DOMAIN w = 1..Len(w)
      /\ DOMAIN mw = 1..(Len(m) + Len(w))
      /\ \A k \in DOMAIN m : k \in DOMAIN mw /\ mw[k] = m[k]
      /\ \A k \in DOMAIN w : k + Len(m) \in DOMAIN mw /\ mw[k + Len(m)] = w[k]
      /\ \A k \in DOMAIN mw : k \in DOMAIN m \/ k - Len(m) \in DOMAIN w
  BY <1>0, Glued
<1> HIDE DEF mw
<1>2. ASSUME NEW n \in Int, Begins(m, n)
      PROVE  Begins(mw, n)
  <2>1. CASE n \in DOMAIN m
    BY <1>1, <1>2, <2>1 DEF Begins
  <2>2. CASE n = Len(m) + 1
    <3>1. Len(w) = 0 => n = Len(mw) + 1
      BY <1>1, <2>2
    <3>2. ASSUME Len(w) # 0
          PROVE  n \in DOMAIN mw /\ mw[n].k \in StraightKind \cup {"save"}
      <4>1. 1 \in DOMAIN w /\ 1 # Len(w) + 1
        BY <1>1, <3>2
      <4>2. w[1].k \in StraightKind \cup {"save"}
        BY <4>1 DEF Begins
      <4>3. 1 + Len(m) \in DOMAIN mw /\ mw[1 + Len(m)] = w[1]
        BY <1>1, <4>1
      <4>4. 1 + Len(m) = n
        BY <1>1, <2>2
      <4> QED BY <4>2, <4>3, <4>4
    <3> QED BY <3>1, <3>2 DEF Begins
  <2> QED BY <1>2, <2>1, <2>2 DEF Begins
<1>3. ASSUME NEW n \in Int, Begins(w, n)
      PROVE  Begins(mw, n + Len(m))
  <2>1. CASE n \in DOMAIN w
    BY <1>1, <1>3, <2>1 DEF Begins
  <2>2. CASE n = Len(w) + 1
    <3>1. n + Len(m) = Len(mw) + 1
      BY <1>1, <2>2
    <3> QED BY <3>1 DEF Begins
  <2> QED BY <1>3, <2>1, <2>2 DEF Begins
<1>4. \A k : StraightLength(k) \in Nat
  BY DEF StraightLength
<1>5. StraightLaid(mw)
  <2> SUFFICES ASSUME NEW n \in DOMAIN mw, mw[n].k \in StraightKind
               PROVE  Begins(mw, n + StraightLength(mw[n].k))
    BY DEF StraightLaid
  <2>0. n \in Int /\ StraightLength(mw[n].k) \in Nat
    BY <1>1, <1>4
  <2>1. CASE n \in DOMAIN m
    <3>1. mw[n] = m[n]
      BY <1>1, <2>1
    <3>2. Begins(m, n + StraightLength(m[n].k))
      BY <2>1, <3>1 DEF Laid, StraightLaid
    <3> QED BY <1>2, <2>0, <3>1, <3>2
  <2>2. CASE n - Len(m) \in DOMAIN w
    <3>1. mw[n] = w[n - Len(m)]
      <4>1. (n - Len(m)) + Len(m) = n
        BY <1>1, <2>0
      <4> QED BY <1>1, <2>2, <4>1
    <3>2. Begins(w, (n - Len(m)) + StraightLength(w[n - Len(m)].k))
      BY <2>2, <3>1 DEF Laid, StraightLaid
    <3>3. (n - Len(m)) + StraightLength(w[n - Len(m)].k) \in Int
      BY <1>1, <2>0, <3>1
    <3>4. Begins(mw, ((n - Len(m)) + StraightLength(w[n - Len(m)].k)) + Len(m))
      BY <1>3, <3>2, <3>3
    <3>5. ((n - Len(m)) + StraightLength(w[n - Len(m)].k)) + Len(m)
            = n + StraightLength(mw[n].k)
      BY <1>1, <2>0, <3>1
    <3> QED BY <3>4, <3>5
  <2> QED BY <1>1, <2>1, <2>2
<1>6. ExitsLaid(mw)
  <2> SUFFICES ASSUME NEW n \in DOMAIN mw, mw[n].k = "save"
               PROVE  ExitAt(mw, n)
    BY DEF ExitsLaid
  <2>0. n \in Int
    BY <1>1
  <2>1. CASE n \in DOMAIN m
    <3>1. ExitAt(m, n)
      BY <1>1, <2>1 DEF Laid, ExitsLaid
    <3>2. \A k \in (n + 1)..(n + ExitLength(m, n) - 1) : k \in DOMAIN m
      BY <1>1, <2>0, <2>1, <3>1, ExitShape
    <3>3. ASSUME NEW i \in 1..(ExitLength(m, n) - 1)
          PROVE  n + i \in DOMAIN mw /\ mw[n + i] = m[n + i]
      <4>1. n + i \in DOMAIN m
        BY <2>0, <3>2 DEF ExitLength
      <4> QED BY <1>1, <4>1
    <3>4. SameExit(m, n, mw, n)
      BY <3>3 DEF SameExit
    <3> QED BY <1>1, <2>0, <2>1, <3>1, <3>4, ExitKept
  <2>2. CASE n - Len(m) \in DOMAIN w
    <3> DEFINE p == n - Len(m)
    <3>0. p \in Int /\ p \in DOMAIN w /\ p + Len(m) = n
      BY <1>1, <2>0, <2>2
    <3> HIDE DEF p
    <3>1. ExitAt(w, p)
      BY <1>1, <3>0 DEF Laid, ExitsLaid
    <3>2. \A k \in (p + 1)..(p + ExitLength(w, p) - 1) : k \in DOMAIN w
      BY <1>1, <3>0, <3>1, ExitShape
    <3>3. ASSUME NEW i \in 1..(ExitLength(w, p) - 1)
          PROVE  n + i \in DOMAIN mw /\ mw[n + i] = w[p + i]
      <4>1. p + i \in DOMAIN w
        BY <3>0, <3>2 DEF ExitLength
      <4>2. (p + i) + Len(m) = n + i
        BY <1>1, <3>0
      <4> QED BY <1>1, <4>1, <4>2
    <3>4. SameExit(w, p, mw, n)
      BY <3>3 DEF SameExit
    <3> QED BY <1>1, <2>0, <3>0, <3>1, <3>4, ExitKept
  <2> QED BY <1>1, <2>1, <2>2
<1> QED BY <1>1, <1>5, <1>6 DEF Laid, mw

(* What a step of the allocator lays out: a piece without links that may   *)
(* stand behind a sequence and before a trace.                             *)
Piece(w) ==
  /\ Laid(w) /\ Begins(w, 1)
  /\ \A n \in DOMAIN w : w[n].k # "jal"
  /\ w # << >> => EndsAt(w, Len(w))

(* Two pieces, one behind the other, are a piece.                          *)
LEMMA PieceGlued ==
  ASSUME NEW m, NEW w, Laid(m), Piece(w)
  PROVE  /\ Laid(m \o w)
         /\ m # << >> /\ EndsAt(m, Len(m)) => EndsAt(m \o w, Len(m \o w))
         /\ Piece(m) => Piece(m \o w)
<1> DEFINE mw == m \o w
<1>0. m \in Seq(TraceCodeWord) /\ w \in Seq(TraceCodeWord) /\ Laid(w) /\ Begins(w, 1)
  BY DEF Laid, Piece
<1>1. /\ mw \in Seq(TraceCodeWord) /\ Len(m) \in Nat /\ Len(w) \in Nat
      /\ Len(mw) = Len(m) + Len(w)
      /\ DOMAIN m = 1..Len(m) /\ DOMAIN w = 1..Len(w)
      /\ DOMAIN mw = 1..(Len(m) + Len(w))
      /\ \A k \in DOMAIN m : k \in DOMAIN mw /\ mw[k] = m[k]
      /\ \A k \in DOMAIN w : k + Len(m) \in DOMAIN mw /\ mw[k + Len(m)] = w[k]
      /\ \A k \in DOMAIN mw : k \in DOMAIN m \/ k - Len(m) \in DOMAIN w
  BY <1>0, Glued
<1>2. Laid(mw)
  BY <1>0, LaidGlued
<1>3. w = << >> => mw = m
  BY <1>0
<1>4. m = << >> => mw = w
  BY <1>0
<1>5. ASSUME w # << >>
      PROVE  EndsAt(mw, Len(mw))
  <2>1. EndsAt(w, Len(w))
    BY <1>5 DEF Piece
  <2>2. Len(w) \in DOMAIN w
    BY <2>1 DEF EndsAt
  <2>3. Len(w) + Len(m) = Len(mw) /\ Len(w) + Len(m) \in DOMAIN mw
    BY <1>1, <2>2
  <2>4. mw[Len(mw)] = w[Len(w)]
    BY <1>1, <2>2, <2>3
  <2> HIDE DEF mw
  <2> QED BY <2>1, <2>3, <2>4 DEF EndsAt
<1>6. m # << >> /\ EndsAt(m, Len(m)) => EndsAt(mw, Len(mw))
  BY <1>3, <1>5
<1>7. ASSUME Piece(m)
      PROVE  Piece(mw)
  <2>1. Begins(mw, 1)
    <3>1. CASE m = << >>
      BY <1>0, <1>4, <3>1
    <3>2. CASE m # << >>
      <4>1. 1 \in DOMAIN m /\ 1 # Len(m) + 1
        BY <1>0, <1>1, <3>2
      <4>2. m[1].k \in StraightKind \cup {"save"}
        BY <1>7, <4>1 DEF Piece, Begins
      <4> QED BY <1>1, <4>1, <4>2 DEF Begins
    <3> QED BY <3>1, <3>2
  <2>2. ASSUME NEW n \in DOMAIN mw
        PROVE  mw[n].k # "jal"
    <3>1. CASE n \in DOMAIN m
      BY <1>1, <1>7, <3>1 DEF Piece
    <3>2. CASE n - Len(m) \in DOMAIN w
      <4>1. (n - Len(m)) + Len(m) = n
        BY <1>1
      <4> QED BY <1>1, <3>2, <4>1 DEF Piece
    <3> QED BY <1>1, <3>1, <3>2
  <2>3. mw # << >> => EndsAt(mw, Len(mw))
    BY <1>3, <1>5, <1>7 DEF Piece
  <2> QED BY <1>2, <2>1, <2>2, <2>3 DEF Piece
<1> QED BY <1>2, <1>6, <1>7

(* What pieces report, their whole reports.                                *)
LEMMA ReportsGlued ==
  ASSUME NEW m, NEW w, Laid(m), Laid(w), NEW as, ReportsOnly(m, as), ReportsOnly(w, as)
  PROVE  ReportsOnly(m \o w, as)
<1> DEFINE mw == m \o w
<1>0. m \in Seq(TraceCodeWord) /\ w \in Seq(TraceCodeWord)
  BY DEF Laid
<1>1. /\ Len(m) \in Nat /\ Len(w) \in Nat
      /\ DOMAIN m = 1..Len(m) /\ DOMAIN w = 1..Len(w)
      /\ DOMAIN mw = 1..(Len(m) + Len(w))
      /\ \A k \in DOMAIN m : mw[k] = m[k]
      /\ \A k \in DOMAIN w : mw[k + Len(m)] = w[k]
      /\ \A k \in DOMAIN mw : k \in DOMAIN m \/ k - Len(m) \in DOMAIN w
  BY <1>0, Glued
<1> HIDE DEF mw
<1> SUFFICES ASSUME NEW n \in DOMAIN mw
             PROVE  /\ mw[n].k = "traceBranch" => mw[n].a \in as
                    /\ mw[n].k = "save" /\ mw[n + 2].k = "lui" => mw[n + 2].v \in as
  BY DEF ReportsOnly, mw
<1>2. n \in Int
  BY <1>1
<1>3. CASE n \in DOMAIN m
  <2>1. m[n].k = "save" => mw[n + 2] = m[n + 2]
    <3>1. m[n].k = "save" => ExitAt(m, n)
      BY <1>3 DEF Laid, ExitsLaid
    <3>2. m[n].k = "save" => n + 2 \in DOMAIN m
      BY <1>1, <1>2, <1>3, <3>1, ExitShape DEF ExitLength
    <3> QED BY <1>1, <3>2
  <2> QED BY <1>1, <1>3, <2>1 DEF ReportsOnly
<1>4. CASE n - Len(m) \in DOMAIN w
  <2> DEFINE p == n - Len(m)
  <2>0. p \in Int /\ p \in DOMAIN w /\ p + Len(m) = n
    BY <1>1, <1>2, <1>4
  <2> HIDE DEF p
  <2>1. mw[n] = w[p]
    BY <1>1, <2>0
  <2>2. w[p].k = "save" => mw[n + 2] = w[p + 2]
    <3>1. w[p].k = "save" => ExitAt(w, p)
      BY <2>0 DEF Laid, ExitsLaid
    <3>2. w[p].k = "save" => p + 2 \in DOMAIN w
      BY <1>1, <2>0, <3>1, ExitShape DEF ExitLength
    <3>3. (p + 2) + Len(m) = n + 2
      BY <1>1, <2>0
    <3> QED BY <1>1, <3>2, <3>3
  <2> QED BY <2>0, <2>1, <2>2 DEF ReportsOnly
<1> QED BY <1>1, <1>3, <1>4

-----------------------------------------------------------------------------
(* The pieces allocateTrace lays out.                                      *)

(* A word with an address of the text where its kind needs one may be      *)
(* laid.                                                                   *)
LEMMA TraceWordType ==
  ASSUME NEW k \in StraightKind \cup ExitKind \cup {"save"}, NEW a \in Int, NEW v \in Int,
         k \in InstKind => InText(a),
         k \in {"guest", "mem", "setpc"} => Len(InLine(text[a], a)) = StraightLength(k)
  PROVE  W(k, a, v) \in TraceCodeWord
<1>1. StraightKind \cup ExitKind \cup {"save"} \subseteq TraceWordKind
  BY DEF StraightKind, ExitKind, TraceWordKind, WordKind
<1>2. W(k, a, v) \in TraceWord
  BY <1>1 DEF W, TraceWord
<1> QED BY <1>2, TraceWordFields DEF TraceCodeWord

(* Words that stand for no instruction always may.                         *)
LEMMA LibraryWordType ==
  ASSUME NEW v \in Int
  PROVE  \A k \in (ExitKind \ InstKind) \cup {"save"} : W(k, 0, v) \in TraceCodeWord
<1> SUFFICES ASSUME NEW k \in (ExitKind \ InstKind) \cup {"save"}
             PROVE  W(k, 0, v) \in TraceCodeWord
  OBVIOUS
<1>1. k \in StraightKind \cup ExitKind \cup {"save"} /\ k \notin InstKind
  BY DEF InstKind
<1>2. k \notin {"guest", "mem", "setpc"}
  BY <1>1 DEF InstKind
<1> QED BY <1>1, <1>2, TraceWordType

LEMMA SaveType == W("save", 0, 0) \in TraceCodeWord
  BY LibraryWordType

LEMMA ContType == Cont \in TraceCodeWord
<1>1. W("cont", 0, 0) \in TraceCodeWord
  BY TraceWordType DEF ExitKind, InstKind
<1> QED BY <1>1, ContWord

(* Nothing is a piece, and so is one word that goes on to the next,        *)
LEMMA EmptyPiece == Piece(<< >>) /\ \A as : ReportsOnly(<< >>, as)
<1>1. << >> \in Seq(TraceCodeWord) /\ DOMAIN << >> = {} /\ Len(<< >>) = 0
  OBVIOUS
<1> QED BY <1>1 DEF Piece, Laid, StraightLaid, ExitsLaid, ReportsOnly, Begins

(* One word that goes on to the next is a piece.                           *)
LEMMA WordPiece ==
  ASSUME NEW x \in TraceCodeWord, x.k \in {"restore", "guest", "mem", "ecall"},
         NEW w, w = <<x>>
  PROVE  Piece(w) /\ Len(w) = 1 /\ \A as : ReportsOnly(w, as)
<1>1. w \in Seq(TraceCodeWord) /\ Len(w) = 1 /\ DOMAIN w = {1} /\ w[1] = x
  OBVIOUS
<1>2. Begins(w, 1) /\ Begins(w, 2)
  BY <1>1 DEF Begins, StraightKind
<1>3. EndsAt(w, 1)
  BY <1>1 DEF EndsAt, LastKind
<1>4. StraightLaid(w)
  BY <1>1, <1>2 DEF StraightLaid, StraightLength
<1>5. ExitsLaid(w) /\ \A as : ReportsOnly(w, as)
  BY <1>1 DEF ExitsLaid, ReportsOnly
<1> QED BY <1>1, <1>2, <1>3, <1>4, <1>5 DEF Piece, Laid

(* or a sequence of three;                                                 *)
LEMMA SequencePiece ==
  ASSUME NEW x \in TraceCodeWord, x.k \in {"setpc", "liRd"},
         NEW w, w = <<x, Cont, Cont>>
  PROVE  Piece(w) /\ Len(w) = 3 /\ \A as : ReportsOnly(w, as)
<1>1. /\ w \in Seq(TraceCodeWord) /\ Len(w) = 3 /\ DOMAIN w = {1, 2, 3}
      /\ w[1] = x /\ w[2] = Cont /\ w[3] = Cont
  BY ContType
<1>2. Begins(w, 1) /\ Begins(w, 4)
  BY <1>1 DEF Begins, StraightKind
<1>3. EndsAt(w, 3)
  BY <1>1, ContWord DEF EndsAt, LastKind
<1>4. StraightLaid(w)
  <2> SUFFICES ASSUME NEW n \in DOMAIN w, w[n].k \in StraightKind
               PROVE  Begins(w, n + StraightLength(w[n].k))
    BY DEF StraightLaid
  <2>1. n = 1
    BY <1>1, ContWord DEF StraightKind
  <2> QED BY <1>1, <1>2, <2>1 DEF StraightLength
<1>5. ExitsLaid(w) /\ \A as : ReportsOnly(w, as)
  <2>1. \A n \in DOMAIN w : w[n].k \notin {"save", "traceBranch"}
    BY <1>1, ContWord
  <2> QED BY <2>1 DEF ExitsLaid, ReportsOnly
<1>6. \A n \in DOMAIN w : w[n].k # "jal"
  BY <1>1, ContWord
<1> QED BY <1>1, <1>2, <1>3, <1>4, <1>5, <1>6 DEF Piece, Laid

(* and so is an exit: a save, and words of exits behind it.                *)
LEMMA ExitPiece ==
  ASSUME NEW w \in Seq(TraceCodeWord), Len(w) > 2, w[1] = W("save", 0, 0), ExitAt(w, 1),
         \A n \in 2..Len(w) : w[n].k \notin StraightKind \cup {"save", "jal"},
         w[Len(w)].k = "jalrT6", NEW a,
         \A n \in 2..Len(w) : w[n].k = "traceBranch" => w[n].a = a,
         w[3].k = "lui" => w[3].v = a
  PROVE  Piece(w) /\ ReportsOnly(w, {a})
<1>1. Len(w) \in Nat /\ DOMAIN w = 1..Len(w) /\ w[1].k = "save"
  BY TraceWordFields
<1>2. \A n \in DOMAIN w : n = 1 \/ n \in 2..Len(w)
  BY <1>1
<1>3. Begins(w, 1)
  BY <1>1 DEF Begins
<1>4. StraightLaid(w)
  <2>1. \A n \in DOMAIN w : w[n].k \notin StraightKind
    BY <1>1, <1>2 DEF StraightKind
  <2> QED BY <2>1 DEF StraightLaid
<1>5. ExitsLaid(w)
  BY <1>1, <1>2 DEF ExitsLaid
<1>6. EndsAt(w, Len(w))
  BY <1>1 DEF EndsAt, LastKind
<1>7. \A n \in DOMAIN w : w[n].k # "jal"
  BY <1>1, <1>2
<1>8. ReportsOnly(w, {a})
  <2>1. \A n \in DOMAIN w : w[n].k = "save" => n = 1
    BY <1>2
  <2>2. \A n \in DOMAIN w : w[n].k = "traceBranch" => w[n].a = a
    BY <1>1, <1>2
  <2> QED BY <2>1, <2>2 DEF ReportsOnly
<1> QED BY <1>3, <1>4, <1>5, <1>6, <1>7, <1>8 DEF Piece, Laid

(* So is the beginning of a trace,                                         *)
LEMMA RestorePiece == Piece(RestoreScratch) /\ ReportsOnly(RestoreScratch, {})
                        /\ RestoreScratch[1].k = "restore" /\ Len(RestoreScratch) = 1
<1>1. W("restore", 0, 0) \in TraceCodeWord
  BY TraceWordType DEF StraightKind, InstKind
<1>2. RestoreScratch = <<W("restore", 0, 0)>> /\ W("restore", 0, 0).k = "restore"
  BY TraceWordFields DEF RestoreScratch
<1>3. RestoreScratch[1] = W("restore", 0, 0)
  BY <1>2
<1> QED BY <1>1, <1>2, <1>3, WordPiece

(* An address of the text has an instruction.                              *)
LEMMA InTextType ==
  ASSUME text \in Seq(Inst), NEW a, InText(a)
  PROVE  /\ a \in Int /\ a \in DOMAIN text /\ Fetch(a) = text[a]
         /\ text[a] \in Inst /\ text[a].imm \in Int
<1>1. a \in Int /\ a \in DOMAIN text /\ Fetch(a) = text[a]
  BY DEF InText, Fetch
<1>2. text[a] \in Inst
  BY <1>1
<1> QED BY <1>1, <1>2 DEF Inst

(* The instructions that stay in line, jumps that are followed, ECALLs.    *)
LEMMA InLinePiece ==
  ASSUME text \in Seq(Inst), NEW a, InText(a), text[a].op \notin ControlOp
  PROVE  Piece(TraceInLine(text[a], a)) /\ ReportsOnly(TraceInLine(text[a], a), {})
<1> DEFINE i == text[a]
<1>1. a \in Int /\ i \in Inst /\ i.imm \in Int /\ a + i.imm \in Int
  BY InTextType
<1> HIDE DEF i
<1>2. CASE i.op = "AUIPC"
  <2>1. /\ InLine(i, a) = <<W("setpc", a, a + i.imm), Cont, Cont>>
        /\ TraceInLine(i, a) = InLine(i, a)
    BY <1>2 DEF InLine, TraceInLine, MemoryOp
  <2>2. Len(InLine(i, a)) = 3
    BY <2>1
  <2>3. W("setpc", a, a + i.imm) \in TraceCodeWord
    BY <1>1, <2>2, TraceWordType DEF StraightKind, StraightLength, i
  <2>4. W("setpc", a, a + i.imm).k = "setpc"
    BY TraceWordFields
  <2> QED BY <2>1, <2>3, <2>4, SequencePiece DEF i
<1>3. CASE i.op \in MemoryOp
  <2>1. InLine(i, a) = <<W("mem", a, 0)>> /\ TraceInLine(i, a) = InLine(i, a)
    BY <1>3 DEF InLine, TraceInLine, MemoryOp
  <2>2. Len(InLine(i, a)) = 1
    BY <2>1
  <2>3. W("mem", a, 0) \in TraceCodeWord
    <3>1. "mem" \in StraightKind \cup ExitKind \cup {"save"} /\ StraightLength("mem") = 1
      BY DEF StraightKind, StraightLength
    <3>2. Len(InLine(text[a], a)) = StraightLength("mem")
      BY <2>2, <3>1 DEF i
    <3>3. a \in Int /\ 0 \in Int /\ InText(a)
      BY <1>1
    <3> HIDE DEF i
    <3> QED BY ONLY <3>1, <3>2, <3>3, TraceWordType
  <2>4. W("mem", a, 0).k = "mem"
    BY TraceWordFields
  <2> QED BY <2>1, <2>3, <2>4, WordPiece DEF i
<1>4. CASE i.op \notin MemoryOp \cup {"AUIPC"}
  <2>1. Len(InLine(i, a)) = 1 /\ TraceInLine(i, a) = <<W("guest", a, 0)>>
    BY <1>4 DEF InLine, TraceInLine
  <2>3. W("guest", a, 0) \in TraceCodeWord
    <3>1. "guest" \in StraightKind \cup ExitKind \cup {"save"} /\ StraightLength("guest") = 1
      BY DEF StraightKind, StraightLength
    <3>2. Len(InLine(text[a], a)) = StraightLength("guest")
      BY <2>1, <3>1 DEF i
    <3>3. a \in Int /\ 0 \in Int /\ InText(a)
      BY <1>1
    <3> HIDE DEF i
    <3> QED BY ONLY <3>1, <3>2, <3>3, TraceWordType
  <2>4. W("guest", a, 0).k = "guest"
    BY TraceWordFields
  <2> QED BY <2>1, <2>3, <2>4, WordPiece DEF i
<1> QED BY <1>2, <1>3, <1>4

(* A followed jump is laid out as the load of its link, or as nothing.     *)
LEMMA FollowedPiece ==
  ASSUME text \in Seq(Inst), NEW a, InText(a)
  PROVE  Piece(FollowedJump(text[a], a)) /\ ReportsOnly(FollowedJump(text[a], a), {})
<1>1. CASE text[a].rd = "zero"
  BY <1>1, EmptyPiece DEF FollowedJump
<1>2. CASE text[a].rd # "zero"
  <2>1. W("liRd", a, a + 1) \in TraceCodeWord /\ W("liRd", a, a + 1).k = "liRd"
    <3>1. "liRd" \in StraightKind \cup ExitKind \cup {"save"} /\ a + 1 \in Int
      BY InTextType DEF StraightKind
    <3> QED BY <3>1, InTextType, TraceWordType, TraceWordFields
  <2>2. FollowedJump(text[a], a) = <<W("liRd", a, a + 1), Cont, Cont>>
    BY <1>2 DEF FollowedJump
  <2> QED BY <2>1, <2>2, SequencePiece
<1> QED BY <1>1, <1>2

(* An ECALL within a trace is its own word.                                *)
LEMMA EcallPiece ==
  ASSUME NEW a, InText(a)
  PROVE  Piece(Ecall(a)) /\ ReportsOnly(Ecall(a), {}) /\ Len(Ecall(a)) = 1
<1>1. W("ecall", a, 0) \in TraceCodeWord /\ W("ecall", a, 0).k = "ecall"
  BY TraceWordType, TraceWordFields DEF StraightKind, InText
<1> QED BY <1>1, WordPiece DEF Ecall

(* The exit of a segment is a piece.                                       *)
LEMMA SwitchPiece ==
  Piece(SwitchTo(ContextSwitchTaken)) /\ ReportsOnly(SwitchTo(ContextSwitchTaken), {})
<1> DEFINE h == ContextSwitchTaken
           w == SwitchTo(h)
<1>0. h \in Int
  BY DEF ContextSwitchTaken
<1> HIDE DEF h
<1>1. w = <<W("save", 0, 0), Cont>> \o <<W("li", 0, h), Cont, Cont>> \o <<W("jalrT6", 0, 0)>>
  BY DEF SwitchTo, InlineSave, Li, JalrT6
<1>2. /\ W("save", 0, 0) \in TraceCodeWord /\ W("li", 0, h) \in TraceCodeWord
      /\ W("jalrT6", 0, 0) \in TraceCodeWord
  <2>1. {"save", "li", "jalrT6"} \subseteq (ExitKind \ InstKind) \cup {"save"}
    BY DEF ExitKind, InstKind
  <2> QED BY <1>0, <2>1, LibraryWordType
<1> HIDE DEF w
<1>3. /\ w \in Seq(TraceCodeWord) /\ Len(w) = 6
      /\ w[1] = W("save", 0, 0) /\ w[2] = Cont /\ w[3] = W("li", 0, h)
      /\ w[4] = Cont /\ w[5] = Cont /\ w[6] = W("jalrT6", 0, 0)
  BY <1>1, <1>2, ContType
<1>4. ExitAt(w, 1)
  BY <1>3 DEF ExitAt, SwitchAt, h
<1>5. /\ w[2].k = "cont" /\ w[3].k = "li" /\ w[4].k = "cont" /\ w[5].k = "cont"
      /\ w[6].k = "jalrT6"
  BY <1>3, TraceWordFields, ContWord
<1>6. \A n \in 2..Len(w) : w[n].k \in {"cont", "li", "jalrT6"}
  BY <1>3, <1>5
<1>7. Piece(w)
  <2>1. \A n \in 2..Len(w) : /\ w[n].k \notin StraightKind \cup {"save", "jal"}
                             /\ w[n].k # "traceBranch"
    BY <1>6 DEF StraightKind
  <2>2. Len(w) > 2 /\ w[Len(w)].k = "jalrT6" /\ w[3].k # "lui"
    BY <1>3, <1>5
  <2> QED BY <1>3, <1>4, <2>1, <2>2, ExitPiece
<1>8. ReportsOnly(w, {})
  <2>1. \A n \in DOMAIN w : w[n].k \in {"save", "cont", "li", "jalrT6"}
    BY <1>3, <1>6, TraceWordFields
  <2>2. \A n \in DOMAIN w : w[n].k = "save" => n = 1
    BY <1>3, <1>6
  <2> QED BY <1>5, <2>1, <2>2 DEF ReportsOnly
<1> QED BY <1>7, <1>8 DEF w, h

(* The eight words of a report, wherever they begin, are one.              *)
LEMMA ReportWords ==
  ASSUME NEW a \in Int, NEW h \in Int
  PROVE  /\ ReportTo(a, h) \in Seq(TraceCodeWord)
         /\ ReportTo(a, h) = << W("lui", 0, a), W("addi", 0, a), W("addiEnd", 0, a),
                                W("sdPc", 0, 0), W("lui", 0, h), W("addi", 0, h),
                                W("addiEnd", 0, h), W("jalrT6", 0, 0) >>
<1> DEFINE w == << W("lui", 0, a), W("addi", 0, a), W("addiEnd", 0, a), W("sdPc", 0, 0),
                   W("lui", 0, h), W("addi", 0, h), W("addiEnd", 0, h), W("jalrT6", 0, 0) >>
<1>1. {"lui", "addi", "addiEnd", "sdPc", "jalrT6"} \subseteq (ExitKind \ InstKind) \cup {"save"}
  BY DEF ExitKind, InstKind
<1>2. \A v \in Int : \A k \in {"lui", "addi", "addiEnd", "sdPc", "jalrT6"} :
        W(k, 0, v) \in TraceCodeWord
  BY <1>1, LibraryWordType
<1>3. w \in Seq(TraceCodeWord)
  BY <1>2
<1>4. ReportTo(a, h) = w
  <2> DEFINE r == ReportTo(a, h)
  <2>1. r = <<W("lui", 0, a), W("addi", 0, a), W("addiEnd", 0, a)>> \o <<W("sdPc", 0, 0)>>
              \o <<W("lui", 0, h), W("addi", 0, h), W("addiEnd", 0, h)>> \o <<W("jalrT6", 0, 0)>>
    BY DEF ReportTo, TraceLi, JalrT6
  <2> HIDE DEF r
  <2>2. /\ r \in Seq(TraceCodeWord) /\ Len(r) = 8
        /\ r[1] = w[1] /\ r[2] = w[2] /\ r[3] = w[3] /\ r[4] = w[4]
        /\ r[5] = w[5] /\ r[6] = w[6] /\ r[7] = w[7] /\ r[8] = w[8]
    BY <1>2, <2>1
  <2>3. \A i \in 1..8 : r[i] = w[i]
    BY <2>2
  <2>4. Len(w) = 8
    OBVIOUS
  <2> HIDE DEF w
  <2>5. r = w
    BY <1>3, <2>2, <2>3, <2>4, SeqEqual
  <2> QED BY <2>5 DEF r
<1> QED BY <1>3, <1>4

(* Eight words with these constants are a report.                          *)
LEMMA ReportIsAt ==
  ASSUME NEW m, NEW n, NEW a, NEW h,
         m[n] = W("lui", 0, a), m[n + 1] = W("addi", 0, a), m[n + 2] = W("addiEnd", 0, a),
         m[n + 3] = W("sdPc", 0, 0), m[n + 4] = W("lui", 0, h), m[n + 5] = W("addi", 0, h),
         m[n + 6] = W("addiEnd", 0, h), m[n + 7] = W("jalrT6", 0, 0)
  PROVE  ReportAt(m, n, a, h)
  BY DEF ReportAt

LEMMA HostOfType ==
  /\ \A a : HostOf(a) \in Int
  /\ ContextSwitchTraceExit \in Int /\ ContextSwitchTraceExitTaken \in Int
  BY DEF HostOf, ContextSwitchTraceExit, ContextSwitchTraceExitTaken

(* A report behind a save is an exit.                                      *)
LEMMA ExitWordPiece ==
  ASSUME text \in Seq(Inst), NEW a, InText(a), text[a].op \in {"JAL", "JALR", "SYSTEM"},
         NEW w, w = TraceExit(a, HostOf(a))
  PROVE  /\ Piece(w) /\ ReportsOnly(w, {a})
         /\ Len(w) = 10 /\ w[1].k = "save" /\ w[3] = W("lui", 0, a)
<1> DEFINE h == HostOf(a)
<1>0. a \in Int /\ h \in Int
  BY InTextType, HostOfType
<1> HIDE DEF h
<1>1. w = <<W("save", 0, 0), Cont>> \o
          << W("lui", 0, a), W("addi", 0, a), W("addiEnd", 0, a), W("sdPc", 0, 0),
             W("lui", 0, h), W("addi", 0, h), W("addiEnd", 0, h), W("jalrT6", 0, 0) >>
  BY <1>0, ReportWords DEF TraceExit, InlineSave, h
<1>2. w \in Seq(TraceCodeWord)
  <2>1. W("save", 0, 0) \in TraceCodeWord
    BY SaveType
  <2>2. <<W("save", 0, 0), Cont>> \in Seq(TraceCodeWord)
    BY <2>1, ContType
  <2>3. ReportTo(a, h) \in Seq(TraceCodeWord)
    BY <1>0, ReportWords
  <2> QED BY <2>2, <2>3, Glued DEF TraceExit, InlineSave, h
<1>3. /\ Len(w) = 10
      /\ w[1] = W("save", 0, 0) /\ w[2] = Cont
      /\ w[3] = W("lui", 0, a) /\ w[4] = W("addi", 0, a) /\ w[5] = W("addiEnd", 0, a)
      /\ w[6] = W("sdPc", 0, 0) /\ w[7] = W("lui", 0, h) /\ w[8] = W("addi", 0, h)
      /\ w[9] = W("addiEnd", 0, h) /\ w[10] = W("jalrT6", 0, 0)
  BY <1>1
<1> HIDE <1>1
<1>4. /\ w[2].k = "cont" /\ w[3].k = "lui" /\ w[4].k = "addi" /\ w[5].k = "addiEnd"
      /\ w[6].k = "sdPc" /\ w[7].k = "lui" /\ w[8].k = "addi" /\ w[9].k = "addiEnd"
      /\ w[10].k = "jalrT6" /\ w[3].v = a
  BY <1>3, TraceWordFields, ContWord
<1>5. ReportAt(w, 3, a, h)
  BY <1>3, ReportIsAt
<1>6. DOMAIN w = 1..10
  BY <1>2, <1>3
<1>7. JumpExitAt(w, 1)
  BY <1>4, <1>5, <1>6 DEF JumpExitAt, h
<1>8. ExitAt(w, 1)
  BY <1>3, <1>7 DEF ExitAt
<1>9. \A n \in 2..Len(w) : w[n].k \in {"cont", "lui", "addi", "addiEnd", "sdPc", "jalrT6"}
  BY <1>3, <1>4
<1>10. Piece(w) /\ ReportsOnly(w, {a})
  <2>1. \A n \in 2..Len(w) : /\ w[n].k \notin StraightKind \cup {"save", "jal"}
                             /\ w[n].k # "traceBranch"
    BY <1>9 DEF StraightKind
  <2>2. Len(w) > 2 /\ w[Len(w)].k = "jalrT6" /\ w[3].v = a
    BY <1>3, <1>4
  <2> QED BY <1>2, <1>3, <1>8, <2>1, <2>2, ExitPiece
<1> QED BY <1>3, <1>10, TraceWordFields

(* The exit of a branch is one.                                            *)
LEMMA BranchExitPiece ==
  ASSUME text \in Seq(Inst), NEW a, InText(a), text[a].op = "BRANCH",
         NEW w, w = TraceBranchExit(a)
  PROVE  /\ Piece(w) /\ ReportsOnly(w, {a})
         /\ Len(w) = 19 /\ w[1].k = "save" /\ w[3] = W("traceBranch", a, 0)
<1> DEFINE g == ContextSwitchTraceExit
           h == ContextSwitchTraceExitTaken
           b == W("traceBranch", a, 0)
<1>0. a \in Int /\ g \in Int /\ h \in Int
  BY InTextType, HostOfType
<1>b. b \in TraceCodeWord /\ b.k = "traceBranch" /\ b.a = a
  <2>1. "traceBranch" \in StraightKind \cup ExitKind \cup {"save"}
    BY DEF ExitKind
  <2> QED BY <1>0, <2>1, TraceWordType, TraceWordFields
<1> HIDE DEF g, h, b
<1>1. w = (<<W("save", 0, 0), Cont>> \o <<b>>) \o
          << W("lui", 0, a), W("addi", 0, a), W("addiEnd", 0, a), W("sdPc", 0, 0),
             W("lui", 0, g), W("addi", 0, g), W("addiEnd", 0, g), W("jalrT6", 0, 0) >> \o
          << W("lui", 0, a), W("addi", 0, a), W("addiEnd", 0, a), W("sdPc", 0, 0),
             W("lui", 0, h), W("addi", 0, h), W("addiEnd", 0, h), W("jalrT6", 0, 0) >>
  BY <1>0, ReportWords DEF TraceBranchExit, InlineSave, g, h, b
<1>2. w \in Seq(TraceCodeWord)
  <2>1. W("save", 0, 0) \in TraceCodeWord
    BY SaveType
  <2>2. <<W("save", 0, 0), Cont>> \in Seq(TraceCodeWord) /\ <<b>> \in Seq(TraceCodeWord)
    BY <1>b, <2>1, ContType
  <2>3. ReportTo(a, g) \in Seq(TraceCodeWord) /\ ReportTo(a, h) \in Seq(TraceCodeWord)
    BY <1>0, ReportWords
  <2>4. <<W("save", 0, 0), Cont>> \o <<b>> \in Seq(TraceCodeWord)
    BY <2>2, Glued
  <2>5. <<W("save", 0, 0), Cont>> \o <<b>> \o ReportTo(a, g) \in Seq(TraceCodeWord)
    BY <2>3, <2>4, Glued
  <2>6. <<W("save", 0, 0), Cont>> \o <<b>> \o ReportTo(a, g) \o ReportTo(a, h)
          \in Seq(TraceCodeWord)
    BY <2>3, <2>5, Glued
  <2> QED BY <2>6 DEF TraceBranchExit, InlineSave, g, h, b
<1>3. /\ Len(w) = 19
      /\ w[1] = W("save", 0, 0) /\ w[2] = Cont /\ w[3] = b
      /\ w[4] = W("lui", 0, a) /\ w[5] = W("addi", 0, a) /\ w[6] = W("addiEnd", 0, a)
      /\ w[7] = W("sdPc", 0, 0) /\ w[8] = W("lui", 0, g) /\ w[9] = W("addi", 0, g)
      /\ w[10] = W("addiEnd", 0, g) /\ w[11] = W("jalrT6", 0, 0)
      /\ w[12] = W("lui", 0, a) /\ w[13] = W("addi", 0, a) /\ w[14] = W("addiEnd", 0, a)
      /\ w[15] = W("sdPc", 0, 0) /\ w[16] = W("lui", 0, h) /\ w[17] = W("addi", 0, h)
      /\ w[18] = W("addiEnd", 0, h) /\ w[19] = W("jalrT6", 0, 0)
  BY <1>1
<1> HIDE <1>1
<1>4. /\ w[2].k = "cont" /\ w[3].k = "traceBranch"
      /\ w[4].k = "lui" /\ w[5].k = "addi" /\ w[6].k = "addiEnd"
      /\ w[7].k = "sdPc" /\ w[8].k = "lui" /\ w[9].k = "addi" /\ w[10].k = "addiEnd"
      /\ w[11].k = "jalrT6"
      /\ w[12].k = "lui" /\ w[13].k = "addi" /\ w[14].k = "addiEnd"
      /\ w[15].k = "sdPc" /\ w[16].k = "lui" /\ w[17].k = "addi" /\ w[18].k = "addiEnd"
      /\ w[19].k = "jalrT6"
  <2>1. /\ w[2].k = "cont" /\ w[3].k = "traceBranch"
        /\ w[4].k = "lui" /\ w[5].k = "addi" /\ w[6].k = "addiEnd"
        /\ w[7].k = "sdPc" /\ w[8].k = "lui" /\ w[9].k = "addi" /\ w[10].k = "addiEnd"
        /\ w[11].k = "jalrT6"
    BY ONLY <1>3, <1>b, TraceWordFields, ContWord
  <2>2. /\ w[12].k = "lui" /\ w[13].k = "addi" /\ w[14].k = "addiEnd"
        /\ w[15].k = "sdPc" /\ w[16].k = "lui" /\ w[17].k = "addi" /\ w[18].k = "addiEnd"
        /\ w[19].k = "jalrT6"
    BY ONLY <1>3, TraceWordFields
  <2> QED BY <2>1, <2>2
<1>5. ReportAt(w, 4, a, g) /\ ReportAt(w, 12, a, h)
  <2>1. ReportAt(w, 4, a, g)
    BY ONLY <1>3, ReportIsAt
  <2>2. ReportAt(w, 12, a, h)
    BY ONLY <1>3, ReportIsAt
  <2> QED BY <2>1, <2>2
<1>6. DOMAIN w = 1..19
  BY <1>2, <1>3
<1>7. BranchExitAt(w, 1)
  BY <1>b, <1>3, <1>4, <1>5, <1>6 DEF BranchExitAt, g, h, b
<1>8. ExitAt(w, 1)
  BY <1>3, <1>7 DEF ExitAt
<1>9. \A n \in 2..Len(w) : \/ n = 3
                           \/ w[n].k \in {"cont", "lui", "addi", "addiEnd", "sdPc", "jalrT6"}
  <2> SUFFICES ASSUME NEW n \in 2..19, n # 3
               PROVE  w[n].k \in {"cont", "lui", "addi", "addiEnd", "sdPc", "jalrT6"}
    BY <1>3
  <2>1. n \in {2, 4, 5, 6, 7, 8, 9, 10} \/ n \in {11, 12, 13, 14, 15, 16, 17, 18, 19}
    OBVIOUS
  <2> QED BY ONLY <1>4, <2>1, n # 3, n \in 2..19
<1>10. Piece(w) /\ ReportsOnly(w, {a})
  <2>1. \A n \in 2..Len(w) : /\ w[n].k \notin StraightKind \cup {"save", "jal"}
                             /\ w[n].k = "traceBranch" => w[n].a = a
    BY ONLY <1>b, <1>3, <1>9 DEF StraightKind
  <2>2. Len(w) > 2 /\ w[Len(w)].k = "jalrT6" /\ w[3].k # "lui"
    BY <1>3, <1>4
  <2> QED BY <1>2, <1>3, <1>8, <2>1, <2>2, ExitPiece
<1> QED BY <1>3, <1>10, TraceWordFields DEF b

-----------------------------------------------------------------------------
(* The layout as the cache grows.                                          *)

(* What has been laid stays, whatever is laid behind it.                   *)
LEMMA StaysBehind ==
  ASSUME NEW m, NEW w, Laid(m), Piece(w)
  PROVE  /\ \A n : EndsAt(m, n) => EndsAt(m \o w, n)
         /\ \A n : StartsAt(m, n) => StartsAt(m \o w, n)
         /\ \A a, e : ExitKnown(m, a, e) => ExitKnown(m \o w, a, e)
         /\ \A blocks : LinksLaid(m, blocks) => LinksLaid(m \o w, blocks)
<1> DEFINE mw == m \o w
<1>0. m \in Seq(TraceCodeWord) /\ w \in Seq(TraceCodeWord)
  BY DEF Laid, Piece
<1>1. /\ Len(m) \in Nat /\ Len(w) \in Nat
      /\ DOMAIN m = 1..Len(m) /\ DOMAIN w = 1..Len(w)
      /\ DOMAIN mw = 1..(Len(m) + Len(w))
      /\ \A k \in DOMAIN m : k \in DOMAIN mw /\ mw[k] = m[k]
      /\ \A k \in DOMAIN w : mw[k + Len(m)] = w[k]
      /\ \A k \in DOMAIN mw : k \in DOMAIN m \/ k - Len(m) \in DOMAIN w
  BY <1>0, Glued
<1> HIDE DEF mw
<1>2. \A n : EndsAt(m, n) => EndsAt(mw, n)
  BY <1>1 DEF EndsAt
<1>3. \A n : StartsAt(m, n) => StartsAt(mw, n)
  BY <1>1, <1>2 DEF StartsAt
<1>4. ASSUME NEW a, NEW e, ExitKnown(m, a, e)
      PROVE  ExitKnown(mw, a, e)
  <2> DEFINE n == SaveOf(a, e)
  <2>1. n \in DOMAIN m /\ m[n].k = "save"
    BY <1>4 DEF ExitKnown
  <2>2. ExitAt(m, n)
    BY <2>1 DEF Laid, ExitsLaid
  <2> HIDE DEF n
  <2>3. n + 2 \in DOMAIN m
    BY <1>1, <2>1, <2>2, ExitShape DEF ExitLength
  <2>4. mw[n] = m[n] /\ mw[n + 2] = m[n + 2] /\ n \in DOMAIN mw
    BY <1>1, <2>1, <2>3
  <2> QED BY <1>4, <2>4 DEF ExitKnown, n
<1>5. ASSUME NEW blocks, LinksLaid(m, blocks)
      PROVE  LinksLaid(mw, blocks)
  <2> SUFFICES ASSUME NEW n \in DOMAIN mw, mw[n].k = "jal"
               PROVE  LinkLaid(mw, n, blocks)
    BY DEF LinksLaid
  <2>1. n \in DOMAIN m
    <3>1. ASSUME n - Len(m) \in DOMAIN w
          PROVE  FALSE
      <4>1. (n - Len(m)) + Len(m) = n
        BY <1>1
      <4> QED BY <1>1, <3>1, <4>1 DEF Piece
    <3> QED BY <1>1, <3>1
  <2>2. LinkLaid(m, n, blocks)
    BY <1>1, <1>5, <2>1 DEF LinksLaid
  <2>3. mw[n] = m[n] /\ mw[n - 1] = m[n - 1] /\ mw[n - 2] = m[n - 2]
    BY <1>1, <2>1, <2>2 DEF LinkLaid
  <2>4. LinkGoal(mw, n) = LinkGoal(m, n)
    BY <2>3 DEF LinkGoal
  <2> QED BY <1>1, <2>2, <2>3, <2>4 DEF LinkLaid
<1> QED BY <1>2, <1>3, <1>4, <1>5 DEF mw

(* The exit at the head of what is laid out now is one that exits knows.   *)
LEMMA NewExitKnown ==
  ASSUME NEW m, NEW w, Laid(m), Piece(w), NEW a, InText(a), text[a].op \in ControlOp,
         Len(w) > 2, w[1].k = "save",
         w[3] = IF text[a].op = "BRANCH" THEN W("traceBranch", a, 0) ELSE W("lui", 0, a)
  PROVE  ExitKnown(m \o w, a, ExitWord(text[a], m))
<1> DEFINE mw == m \o w
<1>0. m \in Seq(TraceCodeWord) /\ w \in Seq(TraceCodeWord)
  BY DEF Laid, Piece
<1>1. /\ Len(m) \in Nat /\ Len(w) \in Nat
      /\ DOMAIN w = 1..Len(w)
      /\ \A k \in DOMAIN w : k + Len(m) \in DOMAIN mw /\ mw[k + Len(m)] = w[k]
  BY <1>0, Glued
<1> HIDE DEF mw
<1>2. 1 \in DOMAIN w /\ 3 \in DOMAIN w
  BY <1>1
<1>3. /\ 1 + Len(m) \in DOMAIN mw /\ mw[1 + Len(m)] = w[1] /\ mw[3 + Len(m)] = w[3]
  BY <1>1, <1>2
<1>4. SaveOf(a, ExitWord(text[a], m)) = 1 + Len(m) /\ (1 + Len(m)) + 2 = 3 + Len(m)
  BY <1>1 DEF SaveOf, ExitWord
<1> QED BY <1>3, <1>4 DEF ExitKnown, mw

(* The layout, part by part.                                               *)
LEMMA LayoutParts ==
  ASSUME NEW m, NEW es, NEW blocks, NEW t, LayoutOf(m, es, blocks, t)
  PROVE  /\ Laid(m) /\ EndsAt(m, Len(m)) /\ m # << >>
         /\ ReportsOnly(m, DOMAIN es) /\ ExitsKnown(m, es)
         /\ TracesLaid(m, blocks) /\ TraceBegun(m, blocks, t) /\ LinksLaid(m, blocks)
<1>1. EndsAt(m, Len(m)) => m # << >>
  BY DEF EndsAt
<1> QED BY <1>1 DEF LayoutOf

(* More addresses may be reported.                                         *)
LEMMA ReportsMore ==
  ASSUME NEW m, NEW as, NEW bs, as \subseteq bs, ReportsOnly(m, as)
  PROVE  ReportsOnly(m, bs)
  BY DEF ReportsOnly

(* Behind the trace that is being laid out comes another of its pieces.    *)
LEMMA GoesOnLayout ==
  ASSUME NEW m, NEW es, NEW blocks, NEW t, LayoutOf(m, es, blocks, t),
         NEW w, Piece(w), ReportsOnly(w, {}),
         NEW u, u.busy => t.busy, u.railBB.firstAddr = t.railBB.firstAddr,
         u.railBB.startLocationInCache = t.railBB.startLocationInCache
  PROVE  LayoutOf(m \o w, es, blocks, u)
<1>1. /\ Laid(m) /\ EndsAt(m, Len(m)) /\ m # << >>
      /\ ReportsOnly(m, DOMAIN es) /\ ExitsKnown(m, es)
      /\ TracesLaid(m, blocks) /\ TraceBegun(m, blocks, t) /\ LinksLaid(m, blocks)
  BY LayoutParts
<1>2. Laid(m \o w) /\ EndsAt(m \o w, Len(m \o w))
  BY <1>1, PieceGlued
<1>3. ReportsOnly(m \o w, DOMAIN es)
  <2>1. ReportsOnly(w, DOMAIN es) /\ Laid(w)
    BY ReportsMore DEF Piece
  <2> QED BY <1>1, <2>1, ReportsGlued
<1>4. /\ \A n : StartsAt(m, n) => StartsAt(m \o w, n)
      /\ \A a, e : ExitKnown(m, a, e) => ExitKnown(m \o w, a, e)
      /\ LinksLaid(m \o w, blocks)
  BY <1>1, StaysBehind
<1>5. ExitsKnown(m \o w, es)
  BY <1>1, <1>4 DEF ExitsKnown
<1>6. TracesLaid(m \o w, blocks)
  BY <1>1, <1>4 DEF TracesLaid, TraceLaid
<1>7. TraceBegun(m \o w, blocks, u)
  BY <1>1, <1>4 DEF TraceBegun
<1> QED BY <1>2, <1>3, <1>4, <1>5, <1>6, <1>7 DEF LayoutOf

(* A trace begins behind everything that has been laid.                    *)
LEMMA BeginLayout ==
  ASSUME NEW m, NEW es, NEW blocks, NEW t, LayoutOf(m, es, blocks, t),
         NEW u, u.railBB.firstAddr \notin DOMAIN blocks,
         u.railBB.startLocationInCache = Len(m) + 1
  PROVE  LayoutOf(m \o RestoreScratch, es, blocks, u)
<1> DEFINE w == RestoreScratch
           z == [busy |-> FALSE, railBB |-> u.railBB]
           mw == m \o w
<1>1. /\ Laid(m) /\ EndsAt(m, Len(m)) /\ m # << >>
      /\ ReportsOnly(m, DOMAIN es) /\ ExitsKnown(m, es)
      /\ TracesLaid(m, blocks) /\ TraceBegun(m, blocks, t) /\ LinksLaid(m, blocks)
  BY LayoutParts
<1>2. Piece(w) /\ ReportsOnly(w, {}) /\ w[1].k = "restore" /\ Len(w) = 1
  BY RestorePiece
<1> HIDE DEF w
<1>3. LayoutOf(m, es, blocks, z)
  <2>1. TraceBegun(m, blocks, z)
    BY DEF TraceBegun
  <2> QED BY <1>1, <2>1 DEF LayoutOf
<1>4. LayoutOf(mw, es, blocks, z)
  BY <1>2, <1>3, GoesOnLayout
<1>5. StartsAt(mw, Len(m) + 1)
  <2>1. m \in Seq(TraceCodeWord) /\ w \in Seq(TraceCodeWord)
    BY <1>1, <1>2 DEF Laid, Piece
  <2>2. /\ Len(m) \in Nat /\ DOMAIN w = 1..Len(w)
        /\ \A k \in DOMAIN w : k + Len(m) \in DOMAIN mw /\ mw[k + Len(m)] = w[k]
    BY <2>1, Glued
  <2>3. EndsAt(mw, Len(m))
    BY <1>1, <1>2, StaysBehind
  <2> HIDE DEF mw
  <2>4. 1 \in DOMAIN w
    BY <1>2, <2>2
  <2>5. 1 + Len(m) \in DOMAIN mw /\ mw[1 + Len(m)] = w[1]
    BY <2>2, <2>4
  <2>6. 1 + Len(m) = Len(m) + 1 /\ (Len(m) + 1) - 1 = Len(m)
    BY <2>2
  <2> QED BY <1>2, <2>3, <2>5, <2>6 DEF StartsAt
<1>6. TraceBegun(mw, blocks, u)
  BY <1>5 DEF TraceBegun
<1> HIDE DEF mw
<1>7. LayoutOf(mw, es, blocks, u)
  BY <1>4, <1>6 DEF LayoutOf
<1> QED BY <1>7 DEF mw, w

(* A trace ends and is inserted.                                           *)
LEMMA EndLayout ==
  ASSUME NEW m, NEW es, NEW blocks, NEW t, LayoutOf(m, es, blocks, t), t.busy,
         NEW w, Piece(w), NEW fs, DOMAIN es \subseteq DOMAIN fs,
         ReportsOnly(w, DOMAIN fs), ExitsKnown(m \o w, fs),
         NEW b, b.firstAddr = t.railBB.firstAddr, b.terminalInst = Fetch(b.lastAddr),
         b.startLocationInCache = t.railBB.startLocationInCache
  PROVE  LayoutOf(m \o w, fs, InsertedBB(blocks, b), IdleTrace)
<1> DEFINE mw == m \o w
           new == InsertedBB(blocks, b)
<1>1. /\ Laid(m) /\ EndsAt(m, Len(m)) /\ m # << >>
      /\ ReportsOnly(m, DOMAIN es) /\ ExitsKnown(m, es)
      /\ TracesLaid(m, blocks) /\ TraceBegun(m, blocks, t) /\ LinksLaid(m, blocks)
  BY LayoutParts
<1>2. Laid(mw) /\ EndsAt(mw, Len(mw))
  BY <1>1, PieceGlued
<1>3. ReportsOnly(mw, DOMAIN fs)
  <2>1. ReportsOnly(m, DOMAIN fs) /\ Laid(w)
    BY <1>1, ReportsMore DEF Piece
  <2> QED BY <1>1, <2>1, ReportsGlued
<1>4. /\ \A n : StartsAt(m, n) => StartsAt(mw, n)
      /\ LinksLaid(mw, blocks)
  BY <1>1, StaysBehind
<1>5. /\ b.firstAddr \notin DOMAIN blocks /\ StartsAt(mw, b.startLocationInCache)
  BY <1>1, <1>4 DEF TraceBegun
<1>6. /\ DOMAIN new = DOMAIN blocks \cup {b.firstAddr}
      /\ new[b.firstAddr] = b /\ \A a \in DOMAIN blocks : new[a] = blocks[a]
  BY <1>5 DEF InsertedBB
<1> HIDE DEF mw, new
<1>7. TracesLaid(mw, new)
  <2> SUFFICES ASSUME NEW a \in DOMAIN new
               PROVE  TraceLaid(mw, a, new[a])
    BY DEF TracesLaid
  <2>1. CASE a = b.firstAddr
    BY <1>5, <1>6, <2>1 DEF TraceLaid
  <2>2. CASE a \in DOMAIN blocks
    BY <1>1, <1>4, <1>6, <2>2 DEF TracesLaid, TraceLaid
  <2> QED BY <1>6, <2>1, <2>2
<1>8. TraceBegun(mw, new, IdleTrace)
  BY DEF TraceBegun, IdleTrace
<1>9. LinksLaid(mw, new)
  BY <1>4, <1>6 DEF LinksLaid, LinkLaid
<1>10. LayoutOf(mw, fs, new, IdleTrace)
  BY <1>2, <1>3, <1>7, <1>8, <1>9 DEF LayoutOf, mw
<1> QED BY <1>10 DEF mw, new

(* stub may change which basic block a trace belongs to.                   *)
LEMMA AdoptLayout ==
  ASSUME NEW m, NEW es, NEW blocks, NEW t, LayoutOf(m, es, blocks, t),
         NEW new, DOMAIN new = DOMAIN blocks,
         \A a \in DOMAIN blocks :
           /\ new[a].firstAddr = blocks[a].firstAddr /\ new[a].lastAddr = blocks[a].lastAddr
           /\ new[a].terminalInst = blocks[a].terminalInst
           /\ new[a].startLocationInCache = blocks[a].startLocationInCache
  PROVE  LayoutOf(m, es, new, t)
<1>1. TracesLaid(m, new)
  BY DEF LayoutOf, TracesLaid, TraceLaid
<1>2. LinksLaid(m, new)
  BY DEF LayoutOf, LinksLaid, LinkLaid
<1>3. TraceBegun(m, new, t)
  BY DEF LayoutOf, TraceBegun
<1> QED BY <1>1, <1>2, <1>3 DEF LayoutOf

-----------------------------------------------------------------------------
(* The layout when an exit is linked.                                      *)

(* Exits do not overlap: a save is never inside another exit.              *)
LEMMA ExitsApart ==
  ASSUME NEW m, Laid(m), NEW n \in DOMAIN m, m[n].k = "save",
         NEW k \in DOMAIN m, m[k].k = "save", k # n,
         NEW q \in (n + 1)..(n + ExitLength(m, n) - 1)
  PROVE  q \notin k..(k + ExitLength(m, k) - 1)
<1>1. Len(m) \in Nat /\ DOMAIN m = 1..Len(m)
  BY WordOfLaid
<1>2. ExitAt(m, n) /\ ExitAt(m, k)
  BY DEF Laid, ExitsLaid
<1>3. /\ \A i \in (n + 1)..(n + ExitLength(m, n) - 1) : m[i].k \in ExitKind
      /\ \A i \in (k + 1)..(k + ExitLength(m, k) - 1) : m[i].k \in ExitKind
  <2>1. \A i \in (n + 1)..(n + ExitLength(m, n) - 1) : m[i].k \in ExitKind
    BY <1>1, <1>2, ExitShape
  <2>2. \A i \in (k + 1)..(k + ExitLength(m, k) - 1) : m[i].k \in ExitKind
    BY <1>1, <1>2, ExitShape
  <2> QED BY <2>1, <2>2
<1>4. "save" \notin ExitKind
  BY DEF ExitKind
<1>5. n \notin (k + 1)..(k + ExitLength(m, k) - 1) /\ k \notin (n + 1)..(n + ExitLength(m, n) - 1)
  BY <1>3, <1>4
<1>6. ExitLength(m, n) \in Int /\ ExitLength(m, k) \in Int /\ n \in Int /\ k \in Int
  BY <1>1 DEF ExitLength
<1> QED BY <1>5, <1>6

(* Where the two words of a link go, in an exit that has them, and what    *)
(* they replace.                                                           *)
LinkPlace(a, e, tk) == e + (IF tk THEN 9 ELSE 1)

(* A link is made at the beginning of a side or at the end of the only     *)
(* one.                                                                    *)
LEMMA LinkPlaceIs ==
  ASSUME NEW m, Laid(m), NEW a, NEW e \in Int, ExitKnown(m, a, e),
         text[a].op \in {"BRANCH", "JAL"}, NEW tk \in BOOLEAN, text[a].op = "JAL" => tk,
         NEW n, n = SaveOf(a, e), NEW p, p = LinkPlace(a, e, tk)
  PROVE  /\ n \in DOMAIN m /\ m[n].k = "save" /\ ExitAt(m, n) /\ p \in Int /\ n \in Int
         /\ IF text[a].op = "BRANCH"
            THEN /\ BranchExitAt(m, n) /\ m[n + 2] = W("traceBranch", a, 0)
                 /\ ExitLength(m, n) = 19 /\ p = IF tk THEN n + 11 ELSE n + 3
            ELSE /\ JumpExitAt(m, n) /\ m[n + 2] = W("lui", 0, a)
                 /\ ExitLength(m, n) = 10 /\ p = n + 8
<1>1. n \in DOMAIN m /\ m[n].k = "save" /\ ExitAt(m, n)
  BY DEF ExitKnown, Laid, ExitsLaid
<1>2. n \in Int
  BY <1>1, WordOfLaid
<1>3. CASE text[a].op = "BRANCH"
  <2>1. m[n + 2] = W("traceBranch", a, 0)
    BY <1>3 DEF ExitKnown
  <2>2. m[n + 2].k = "traceBranch"
    BY <2>1, TraceWordFields
  <2>3. BranchExitAt(m, n) /\ ExitLength(m, n) = 19
    BY <1>1, <1>2, <2>2, WordOfLaid, ExitShape
  <2>4. p = IF tk THEN n + 11 ELSE n + 3
    BY <1>3 DEF SaveOf, LinkPlace
  <2> QED BY <1>1, <1>2, <1>3, <2>1, <2>3, <2>4
<1>4. CASE text[a].op = "JAL"
  <2>1. m[n + 2] = W("lui", 0, a)
    BY <1>4 DEF ExitKnown
  <2>2. m[n + 2].k = "lui"
    BY <2>1, TraceWordFields
  <2>3. JumpExitAt(m, n) /\ ExitLength(m, n) = 10
    BY <1>1, <1>2, <2>2, WordOfLaid, ExitShape
  <2>4. p = n + 8
    BY <1>4 DEF SaveOf, LinkPlace
  <2> QED BY <1>1, <1>2, <1>4, <2>1, <2>3, <2>4
<1> QED BY <1>3, <1>4

(* The kinds of a report's words.                                          *)
LEMMA ReportWordKinds ==
  ASSUME NEW m, NEW n \in Int, NEW a, NEW h, ReportAt(m, n, a, h)
  PROVE  /\ m[n].k \in {"lui", "popSp"} /\ m[n + 1].k \in {"addi", "jal"}
         /\ m[n + 1].k = "jal" => m[n + 1].a = a
         /\ m[n + 2].k = "addiEnd" /\ m[n + 3].k = "sdPc" /\ m[n + 4].k = "lui"
         /\ m[n + 5].k = "addi" /\ m[n + 6].k \in {"addiEnd", "popSp"}
         /\ m[n + 7].k \in {"jalrT6", "jal"}
         /\ m[n + 7].k = "jal" => m[n + 7].a = a /\ m[n + 6].k = "popSp"
<1>1. m[n + 6 + 1] = m[n + 7]
  OBVIOUS
<1> QED BY <1>1, TraceWordFields DEF ReportAt, LinkAt

(* A link replaces two words and leaves all others.                        *)
LEMMA LinkReplaces ==
  ASSUME NEW m, Laid(m), NEW a, NEW e \in Int, ExitKnown(m, a, e),
         text[a].op \in {"BRANCH", "JAL"}, NEW tk \in BOOLEAN, text[a].op = "JAL" => tk,
         NEW n, n = SaveOf(a, e), NEW p, p = LinkPlace(a, e, tk)
  PROVE  /\ p \in DOMAIN m /\ p + 1 \in DOMAIN m /\ p - 1 \in DOMAIN m
         /\ p \in (n + 1)..(n + ExitLength(m, n) - 1)
         /\ p + 1 \in (n + 1)..(n + ExitLength(m, n) - 1) /\ p # n + 2 /\ p + 1 # n + 2
         /\ m[p].k \in {"lui", "addiEnd", "popSp"}
         /\ m[p + 1].k \in {"addi", "jalrT6", "jal"}
         /\ text[a].op = "BRANCH" => /\ m[p + 1].k # "jalrT6"
                                     /\ m[p + 1].k = "jal" => m[p + 1].a = a
         /\ m[p - 1].k = "traceBranch" <=> text[a].op = "BRANCH" /\ ~tk
<1>1. /\ n \in DOMAIN m /\ m[n].k = "save" /\ ExitAt(m, n) /\ p \in Int /\ n \in Int
      /\ IF text[a].op = "BRANCH"
         THEN /\ BranchExitAt(m, n) /\ m[n + 2] = W("traceBranch", a, 0)
              /\ ExitLength(m, n) = 19 /\ p = IF tk THEN n + 11 ELSE n + 3
         ELSE /\ JumpExitAt(m, n) /\ m[n + 2] = W("lui", 0, a)
              /\ ExitLength(m, n) = 10 /\ p = n + 8
  BY LinkPlaceIs
<1>2. Len(m) \in Nat /\ DOMAIN m = 1..Len(m)
  BY WordOfLaid
<1>3. \A k \in (n + 1)..(n + ExitLength(m, n) - 1) : k \in DOMAIN m
  BY <1>1, <1>2, ExitShape
<1>4. CASE text[a].op = "BRANCH" /\ ~tk
  <2>1. ReportAt(m, n + 3, a, ContextSwitchTraceExit) /\ p = n + 3
    BY <1>1, <1>4, TraceWordFields DEF BranchExitAt
  <2>2. /\ m[p].k \in {"lui", "popSp"} /\ m[p + 1].k \in {"addi", "jal"}
        /\ m[p + 1].k = "jal" => m[p + 1].a = a
    BY <1>1, <2>1, ReportWordKinds
  <2>3. m[p - 1].k = "traceBranch"
    <3>1. p - 1 = n + 2
      BY <1>1, <2>1
    <3> QED BY <1>1, <1>4, <3>1, TraceWordFields
  <2>4. /\ p \in (n + 1)..(n + ExitLength(m, n) - 1) /\ p # n + 2 /\ p + 1 # n + 2
        /\ p + 1 \in (n + 1)..(n + ExitLength(m, n) - 1)
        /\ p - 1 \in (n + 1)..(n + ExitLength(m, n) - 1)
    BY <1>1, <1>4, <2>1
  <2> QED BY <1>3, <1>4, <2>2, <2>3, <2>4
<1>5. CASE text[a].op = "BRANCH" /\ tk
  <2>1. /\ ReportAt(m, n + 11, a, ContextSwitchTraceExitTaken) /\ p = n + 11
        /\ ReportAt(m, n + 3, a, ContextSwitchTraceExit)
    BY ONLY <1>1, <1>5, TraceWordFields DEF BranchExitAt
  <2>2. /\ m[p].k \in {"lui", "popSp"} /\ m[p + 1].k \in {"addi", "jal"}
        /\ m[p + 1].k = "jal" => m[p + 1].a = a
    BY <1>1, <2>1, ReportWordKinds
  <2>3. m[p - 1].k # "traceBranch"
    <3>1. p - 1 = (n + 3) + 7 /\ n + 3 \in Int
      BY <1>1, <2>1
    <3>2. m[(n + 3) + 7].k \in {"jalrT6", "jal"}
      BY <2>1, <3>1, ReportWordKinds
    <3> QED BY <3>1, <3>2
  <2>4. /\ p \in (n + 1)..(n + ExitLength(m, n) - 1) /\ p # n + 2 /\ p + 1 # n + 2
        /\ p + 1 \in (n + 1)..(n + ExitLength(m, n) - 1)
        /\ p - 1 \in (n + 1)..(n + ExitLength(m, n) - 1)
    BY ONLY <1>1, <1>5, <2>1
  <2> QED BY <1>3, <1>5, <2>2, <2>3, <2>4
<1>6. CASE text[a].op = "JAL"
  <2>1. p = n + 8 /\ ReportAt(m, n + 2, a, HostOf(a)) /\ ExitLength(m, n) = 10
    BY ONLY <1>1, <1>6, TraceWordFields DEF JumpExitAt
  <2>2. /\ p = (n + 2) + 6 /\ p + 1 = (n + 2) + 7 /\ p - 1 = (n + 2) + 5 /\ n + 2 \in Int
    BY <1>1, <2>1
  <2>3. /\ m[(n + 2) + 6].k \in {"addiEnd", "popSp"} /\ m[(n + 2) + 7].k \in {"jalrT6", "jal"}
        /\ m[(n + 2) + 5].k = "addi"
    BY <2>1, <2>2, ReportWordKinds
  <2>4. m[p].k \in {"addiEnd", "popSp"} /\ m[p + 1].k \in {"jalrT6", "jal"} /\ m[p - 1].k = "addi"
    BY <2>2, <2>3
  <2>5. /\ p \in (n + 1)..(n + ExitLength(m, n) - 1) /\ p # n + 2 /\ p + 1 # n + 2
        /\ p + 1 \in (n + 1)..(n + ExitLength(m, n) - 1)
        /\ p - 1 \in (n + 1)..(n + ExitLength(m, n) - 1)
    BY <1>1, <2>1
  <2> QED BY <1>3, <1>6, <2>4, <2>5
<1> QED BY <1>4, <1>5, <1>6

(* A linked report is one all the same: at its beginning, and, for a jump, *)
(* at its end.                                                             *)
LEMMA ReportLinked ==
  ASSUME NEW m, NEW mm, NEW n \in Int, NEW a, NEW h, ReportAt(m, n, a, h),
         NEW o \in {0, 6}, LinkAt(mm, n + o, a),
         \A i \in 0..7 : i # o /\ i # o + 1 => mm[n + i] = m[n + i]
  PROVE  ReportAt(mm, n, a, h)
<1> DEFINE Same(i) == i # o /\ i # o + 1 => mm[n + i] = m[n + i]
<1>1. \A i \in 0..7 : Same(i)
  OBVIOUS
<1> HIDE DEF Same
<1>2. Same(0) /\ Same(1) /\ Same(2) /\ Same(3) /\ Same(4) /\ Same(5) /\ Same(6) /\ Same(7)
  BY <1>1
<1>3. /\ mm[n + 2] = m[n + 2] /\ mm[n + 3] = m[n + 3] /\ mm[n + 4] = m[n + 4]
      /\ mm[n + 5] = m[n + 5]
  BY <1>2 DEF Same
<1>4. CASE o = 0
  <2>1. mm[n + 6] = m[n + 6] /\ mm[n + 7] = m[n + 7] /\ mm[n + 6 + 1] = m[n + 6 + 1]
    BY <1>2, <1>4 DEF Same
  <2>2. LinkAt(mm, n, a)
    BY <1>4
  <2>3. LinkAt(m, n + 6, a) => LinkAt(mm, n + 6, a)
    BY <2>1 DEF LinkAt
  <2> QED BY <1>3, <2>1, <2>2, <2>3 DEF ReportAt
<1>5. CASE o = 6
  <2>1. mm[n] = m[n] /\ mm[n + 1] = m[n + 1]
    BY <1>2, <1>5 DEF Same
  <2>2. LinkAt(mm, n + 6, a)
    BY <1>5
  <2>3. LinkAt(m, n, a) => LinkAt(mm, n, a)
    BY <2>1 DEF LinkAt
  <2> QED BY <1>3, <2>1, <2>2, <2>3 DEF ReportAt
<1> QED BY <1>4, <1>5

(* mm is m with a link from a at p.                                        *)
LinkedOnly(m, mm, p, a) ==
  /\ DOMAIN mm = DOMAIN m /\ LinkAt(mm, p, a)
  /\ \A i \in DOMAIN m : i # p /\ i # p + 1 => mm[i] = m[i]

(* So the exit that gets the link is still an exit.                        *)
LEMMA LinkedExit ==
  ASSUME NEW m, Laid(m), NEW a, NEW e \in Int, ExitKnown(m, a, e),
         text[a].op \in {"BRANCH", "JAL"}, NEW tk \in BOOLEAN, text[a].op = "JAL" => tk,
         NEW n, n = SaveOf(a, e), NEW p, p = LinkPlace(a, e, tk),
         NEW mm, LinkedOnly(m, mm, p, a)
  PROVE  ExitAt(mm, n) /\ mm[n + 2] = m[n + 2]
<1> USE DEF LinkedOnly
<1>1. /\ n \in DOMAIN m /\ m[n].k = "save" /\ ExitAt(m, n) /\ p \in Int /\ n \in Int
      /\ IF text[a].op = "BRANCH"
         THEN /\ BranchExitAt(m, n) /\ m[n + 2] = W("traceBranch", a, 0)
              /\ ExitLength(m, n) = 19 /\ p = IF tk THEN n + 11 ELSE n + 3
         ELSE /\ JumpExitAt(m, n) /\ m[n + 2] = W("lui", 0, a)
              /\ ExitLength(m, n) = 10 /\ p = n + 8
  BY LinkPlaceIs
<1>2. Len(m) \in Nat /\ DOMAIN m = 1..Len(m)
  BY WordOfLaid
<1>3. \A k \in (n + 1)..(n + ExitLength(m, n) - 1) : k \in DOMAIN m
  BY <1>1, <1>2, ExitShape
<1>4. p \in {n + 3, n + 8, n + 11} /\ ExitLength(m, n) \in {10, 19}
  BY <1>1
<1>5. mm[n + 1] = m[n + 1] /\ mm[n + 2] = m[n + 2]
  <2>1. n + 1 \in DOMAIN m /\ n + 2 \in DOMAIN m
    BY <1>1, <1>3, <1>4
  <2> QED BY <1>1, <1>4, <2>1
<1>6. CASE text[a].op = "BRANCH"
  <2>1. /\ ExitLength(m, n) = 19 /\ m[n + 2].a = a
        /\ ReportAt(m, n + 3, a, ContextSwitchTraceExit)
        /\ ReportAt(m, n + 11, a, ContextSwitchTraceExitTaken)
        /\ n + 18 \in DOMAIN m /\ InText(a)
        /\ m[n + 9].k = "addiEnd" /\ m[n + 17].k = "addiEnd"
    BY <1>1, <1>6, TraceWordFields DEF BranchExitAt
  <2>2. \A k \in (n + 1)..(n + 18) : k # p /\ k # p + 1 => mm[k] = m[k]
    BY <1>3, <2>1
  <2>3. n + 3 \in Int /\ n + 11 \in Int /\ (p = n + 3 \/ p = n + 11)
    BY <1>1, <1>6
  <2>4. mm[n + 9] = m[n + 9] /\ mm[n + 17] = m[n + 17]
    BY <1>1, <2>2, <2>3
  <2>5. ReportAt(mm, n + 3, a, ContextSwitchTraceExit)
    <3>1. CASE p = n + 3
      <4>1. LinkAt(mm, (n + 3) + 0, a)
        BY <2>3, <3>1
      <4>2. \A i \in 0..7 : i # 0 /\ i # 0 + 1 => mm[(n + 3) + i] = m[(n + 3) + i]
        <5> SUFFICES ASSUME NEW i \in 0..7, i # 0, i # 1
                     PROVE  mm[(n + 3) + i] = m[(n + 3) + i]
          OBVIOUS
        <5>1. (n + 3) + i \in (n + 1)..(n + 18) /\ (n + 3) + i # p /\ (n + 3) + i # p + 1
          BY <1>1, <3>1
        <5> QED BY <2>2, <5>1
      <4> QED BY <2>1, <2>3, <4>1, <4>2, ReportLinked
    <3>2. CASE p = n + 11
      <4>1. SameReport(m, n + 3, mm, n + 3)
        <5> SUFFICES ASSUME NEW i \in 0..7
                     PROVE  mm[(n + 3) + i] = m[(n + 3) + i]
          BY DEF SameReport
        <5>1. (n + 3) + i \in (n + 1)..(n + 18) /\ (n + 3) + i # p /\ (n + 3) + i # p + 1
          BY <1>1, <3>2
        <5> QED BY <2>2, <5>1
      <4> QED BY <2>1, <2>3, <4>1, ReportKept
    <3> QED BY <2>3, <3>1, <3>2
  <2>6. ReportAt(mm, n + 11, a, ContextSwitchTraceExitTaken)
    <3>1. CASE p = n + 11
      <4>1. LinkAt(mm, (n + 11) + 0, a)
        BY <2>3, <3>1
      <4>2. \A i \in 0..7 : i # 0 /\ i # 0 + 1 => mm[(n + 11) + i] = m[(n + 11) + i]
        <5> SUFFICES ASSUME NEW i \in 0..7, i # 0, i # 1
                     PROVE  mm[(n + 11) + i] = m[(n + 11) + i]
          OBVIOUS
        <5>1. (n + 11) + i \in (n + 1)..(n + 18) /\ (n + 11) + i # p /\ (n + 11) + i # p + 1
          BY <1>1, <3>1
        <5> QED BY <2>2, <5>1
      <4> QED BY <2>1, <2>3, <4>1, <4>2, ReportLinked
    <3>2. CASE p = n + 3
      <4>1. SameReport(m, n + 11, mm, n + 11)
        <5> SUFFICES ASSUME NEW i \in 0..7
                     PROVE  mm[(n + 11) + i] = m[(n + 11) + i]
          BY DEF SameReport
        <5>1. (n + 11) + i \in (n + 1)..(n + 18) /\ (n + 11) + i # p /\ (n + 11) + i # p + 1
          BY <1>1, <3>2
        <5> QED BY <2>2, <5>1
      <4> QED BY <2>1, <2>3, <4>1, ReportKept
    <3> QED BY <2>3, <3>1, <3>2
  <2>7. BranchExitAt(mm, n)
    BY <1>1, <1>5, <1>6, <2>1, <2>4, <2>5, <2>6 DEF BranchExitAt
  <2> QED BY <1>1, <1>5, <2>7 DEF ExitAt
<1>7. CASE text[a].op = "JAL"
  <2>1. /\ ExitLength(m, n) = 10 /\ m[n + 2].v = a /\ m[n + 2].k = "lui" /\ p = n + 8
        /\ ReportAt(m, n + 2, a, HostOf(a))
        /\ n + 9 \in DOMAIN m /\ InText(a)
    BY ONLY <1>1, <1>7, TraceWordFields DEF JumpExitAt
  <2>2. ReportAt(mm, n + 2, a, HostOf(a))
    <3>1. LinkAt(mm, (n + 2) + 6, a) /\ n + 2 \in Int
      <4>1. (n + 2) + 6 = p
        BY <1>1, <2>1
      <4> QED BY <1>1, <4>1
    <3>2. \A i \in 0..7 : i # 6 /\ i # 6 + 1 => mm[(n + 2) + i] = m[(n + 2) + i]
      <4> SUFFICES ASSUME NEW i \in 0..7, i # 6, i # 7
                   PROVE  mm[(n + 2) + i] = m[(n + 2) + i]
        OBVIOUS
      <4>1. /\ (n + 2) + i \in (n + 1)..(n + ExitLength(m, n) - 1)
            /\ (n + 2) + i # p /\ (n + 2) + i # p + 1
        BY <1>1, <2>1
      <4> QED BY <1>3, <4>1
    <3> QED BY <2>1, <3>1, <3>2, ReportLinked
  <2>3. JumpExitAt(mm, n)
    BY <1>1, <1>5, <1>7, <2>1, <2>2 DEF JumpExitAt
  <2> QED BY <1>1, <1>5, <2>3 DEF ExitAt
<1> QED BY <1>6, <1>7

(* Where the guest goes from the exit of a, taken or not.                  *)
GoalOf(a, tk) ==
  IF text[a].op = "BRANCH" /\ ~tk THEN a + 1 ELSE a + text[a].imm

(* A link leaves the layout what it is.                                    *)
LEMMA LinkLayout ==
  ASSUME text \in Seq(Inst),
         NEW m, NEW es, NEW blocks, NEW t, LayoutOf(m, es, blocks, t),
         NEW a \in DOMAIN es, es[a] \in Int, text[a].op \in {"BRANCH", "JAL"},
         NEW tk \in BOOLEAN, text[a].op = "JAL" => tk,
         GoalOf(a, tk) \in DOMAIN blocks,
         NEW v \in Int, v = blocks[GoalOf(a, tk)].startLocationInCache + 1,
         NEW p, p = LinkPlace(a, es[a], tk),
         NEW mm, mm = [m EXCEPT ![p] = W("popSp", 0, 0), ![p + 1] = W("jal", a, v)]
  PROVE  LayoutOf(mm, es, blocks, t)
<1> DEFINE n == SaveOf(a, es[a])
<1>1. /\ Laid(m) /\ EndsAt(m, Len(m))
      /\ ReportsOnly(m, DOMAIN es) /\ ExitsKnown(m, es)
      /\ TracesLaid(m, blocks) /\ TraceBegun(m, blocks, t) /\ LinksLaid(m, blocks)
  BY LayoutParts
<1>2. ExitKnown(m, a, es[a]) /\ InText(a) /\ a \in Int
  BY <1>1, InTextType DEF ExitsKnown, ExitKnown
<1>3. /\ m \in Seq(TraceCodeWord) /\ Len(m) \in Nat /\ DOMAIN m = 1..Len(m)
      /\ \A k \in DOMAIN m : /\ m[k] \in TraceCodeWord
                             /\ m[k].k \in StraightKind \cup ExitKind \cup {"save"}
  BY <1>1, WordOfLaid
<1>4. /\ p \in DOMAIN m /\ p + 1 \in DOMAIN m /\ p - 1 \in DOMAIN m
      /\ p \in (n + 1)..(n + ExitLength(m, n) - 1)
      /\ p + 1 \in (n + 1)..(n + ExitLength(m, n) - 1) /\ p # n + 2 /\ p + 1 # n + 2
      /\ m[p].k \in {"lui", "addiEnd", "popSp"}
      /\ m[p + 1].k \in {"addi", "jalrT6", "jal"}
      /\ text[a].op = "BRANCH" => /\ m[p + 1].k # "jalrT6"
                                  /\ m[p + 1].k = "jal" => m[p + 1].a = a
      /\ m[p - 1].k = "traceBranch" <=> text[a].op = "BRANCH" /\ ~tk
  BY <1>1, <1>2, LinkReplaces
<1>5. /\ n \in DOMAIN m /\ m[n].k = "save" /\ ExitAt(m, n) /\ n \in Int
  BY <1>1, <1>2, <1>3 DEF ExitKnown, Laid, ExitsLaid
<1>6. /\ W("popSp", 0, 0) \in TraceCodeWord /\ W("jal", a, v) \in TraceCodeWord
      /\ W("popSp", 0, 0).k = "popSp" /\ W("jal", a, v).k = "jal"
      /\ W("jal", a, v).a = a /\ W("jal", a, v).v = v
  <2>1. /\ "popSp" \in (ExitKind \ InstKind) \cup {"save"}
        /\ "jal" \in StraightKind \cup ExitKind \cup {"save"}
        /\ "jal" \notin {"guest", "mem", "setpc"}
    BY DEF ExitKind, InstKind
  <2>2. W("popSp", 0, 0) \in TraceCodeWord
    BY <2>1, LibraryWordType
  <2>3. W("jal", a, v) \in TraceCodeWord
    BY <1>2, <2>1, TraceWordType
  <2> QED BY <2>2, <2>3, TraceWordFields
<1>7. /\ DOMAIN mm = DOMAIN m /\ mm \in Seq(TraceCodeWord) /\ Len(mm) = Len(m)
      /\ mm[p] = W("popSp", 0, 0) /\ mm[p + 1] = W("jal", a, v)
      /\ \A i \in DOMAIN m : i # p /\ i # p + 1 => mm[i] = m[i]
  BY <1>3, <1>4, <1>6
<1>8. LinkAt(mm, p, a)
  BY <1>6, <1>7 DEF LinkAt
<1>9. ExitAt(mm, n) /\ mm[n + 2] = m[n + 2]
  <2>1. /\ Laid(m) /\ ExitKnown(m, a, es[a]) /\ es[a] \in Int
        /\ text[a].op \in {"BRANCH", "JAL"} /\ tk \in BOOLEAN
        /\ text[a].op = "JAL" => tk
        /\ n = SaveOf(a, es[a]) /\ p = LinkPlace(a, es[a], tk)
    BY <1>1, <1>2
  <2> HIDE DEF n
  <2>2. LinkedOnly(m, mm, p, a)
    BY ONLY <1>7, <1>8 DEF LinkedOnly
  <2> QED BY ONLY <2>1, <2>2, LinkedExit
<1> HIDE DEF n
<1>10. /\ mm[p].k = "popSp" /\ mm[p + 1].k = "jal" /\ mm[p + 1].a = a /\ mm[p + 1].v = v
       /\ p \in Int /\ p # p + 1
  BY <1>3, <1>4, <1>6, <1>7
(* No sequence and no exit begins where the link goes.                     *)
<1>11. \A k \in DOMAIN m : m[k].k \in StraightKind \cup {"save", "traceBranch", "restore"}
         => mm[k] = m[k]
  BY <1>4, <1>7 DEF StraightKind
<1>12. \A k \in DOMAIN m : mm[k].k \in StraightKind \cup {"save", "traceBranch"}
         => mm[k] = m[k]
  BY <1>7, <1>10 DEF StraightKind
<1>13. StraightLaid(mm)
  <2>1. ASSUME NEW k, Begins(m, k)
        PROVE  Begins(mm, k)
    BY <1>7, <1>11, <2>1 DEF Begins
  <2>2. \A k \in DOMAIN m : mm[k].k \in StraightKind =>
          Begins(m, k + StraightLength(mm[k].k))
    BY <1>1, <1>12 DEF Laid, StraightLaid
  <2> QED BY <1>7, <2>1, <2>2 DEF StraightLaid
(* Another exit keeps its words.                                           *)
<1>14. ASSUME NEW k \in DOMAIN m, m[k].k = "save"
       PROVE  ExitAt(mm, k) /\ mm[k + 2] = m[k + 2]
  <2>1. CASE k = n
    BY <1>9, <2>1
  <2>2. CASE k # n
    <3>1. p \notin k..(k + ExitLength(m, k) - 1) /\ p + 1 \notin k..(k + ExitLength(m, k) - 1)
      BY <1>1, <1>4, <1>5, <1>14, <2>2, ExitsApart
    <3>2. ExitAt(m, k) /\ k \in Int
      BY <1>1, <1>3, <1>14 DEF Laid, ExitsLaid
    <3>3. \A i \in (k + 1)..(k + ExitLength(m, k) - 1) : i \in DOMAIN m
      BY <1>3, <3>2, ExitShape
    <3>4. ASSUME NEW i \in 1..(ExitLength(m, k) - 1)
          PROVE  k + i \in DOMAIN mm /\ mm[k + i] = m[k + i]
      <4>1. ExitLength(m, k) \in Int
        BY DEF ExitLength
      <4>2. /\ k + i \in (k + 1)..(k + ExitLength(m, k) - 1)
            /\ k + i \in k..(k + ExitLength(m, k) - 1)
        BY <3>2, <4>1
      <4>3. k + i \in DOMAIN m /\ k + i # p /\ k + i # p + 1
        BY <3>1, <3>3, <4>2
      <4> QED BY <1>7, <4>3
    <3>5. SameExit(m, k, mm, k)
      BY <3>4 DEF SameExit
    <3>6. k \in Int /\ k \in DOMAIN m /\ DOMAIN m = 1..Len(m) /\ Len(m) \in Nat
      BY <1>3, <3>2
    <3> QED BY ONLY <3>2, <3>5, <3>6, ExitKept
  <2> QED BY <2>1, <2>2
<1>15. ExitsLaid(mm)
  BY <1>7, <1>12, <1>14 DEF ExitsLaid
<1>16. Laid(mm)
  BY <1>7, <1>13, <1>15 DEF Laid
<1>17. ReportsOnly(mm, DOMAIN es)
  <2> SUFFICES ASSUME NEW k \in DOMAIN m
               PROVE  /\ mm[k].k = "traceBranch" => mm[k].a \in DOMAIN es
                      /\ mm[k].k = "save" /\ mm[k + 2].k = "lui" => mm[k + 2].v \in DOMAIN es
    BY <1>7 DEF ReportsOnly
  <2>1. mm[k].k = "traceBranch" => mm[k].a \in DOMAIN es
    BY <1>1, <1>12 DEF ReportsOnly
  <2>2. mm[k].k = "save" => m[k].k = "save" /\ mm[k + 2] = m[k + 2]
    BY <1>12, <1>14
  <2> QED BY <1>1, <2>1, <2>2 DEF ReportsOnly
<1>18. ExitsKnown(mm, es)
  <2> SUFFICES ASSUME NEW x \in DOMAIN es
               PROVE  ExitKnown(mm, x, es[x])
    BY DEF ExitsKnown
  <2> DEFINE k == SaveOf(x, es[x])
  <2>1. ExitKnown(m, x, es[x]) /\ k \in DOMAIN m /\ m[k].k = "save"
    BY <1>1 DEF ExitsKnown, ExitKnown
  <2>2. mm[k + 2] = m[k + 2] /\ mm[k] = m[k]
    BY <1>11, <1>14, <2>1
  <2> QED BY <1>7, <2>1, <2>2 DEF ExitKnown
(* Nor does a trace end where the link's first word goes; where its second *)
(* goes, only one that ends in a jump.                                     *)
<1>19. ASSUME NEW k, EndsAt(m, k)
       PROVE  EndsAt(mm, k)
  <2>1. k \in DOMAIN m /\ k # p
    BY <1>4, <1>19 DEF EndsAt, LastKind
  <2>2. CASE k = p + 1
    <3>1. text[a].op = "JAL"
      <4>1. ASSUME text[a].op = "BRANCH"
            PROVE  FALSE
        <5>1. m[p + 1].k = "jal"
          BY <1>4, <1>19, <2>2, <4>1 DEF EndsAt, LastKind
        <5>2. m[p + 1].a = a /\ text[m[p + 1].a].op = "JAL"
          BY <1>4, <1>19, <2>2, <4>1, <5>1 DEF EndsAt
        <5> QED BY <4>1, <5>2
      <4> QED BY <4>1
    <3> QED BY <1>7, <1>10, <2>1, <2>2, <3>1 DEF EndsAt, LastKind
  <2>3. CASE k # p + 1
    BY <1>7, <1>19, <2>1, <2>3 DEF EndsAt
  <2> QED BY <2>2, <2>3
<1>20. \A k : StartsAt(m, k) => StartsAt(mm, k)
  BY <1>7, <1>11, <1>19 DEF StartsAt
<1>21. TracesLaid(mm, blocks) /\ TraceBegun(mm, blocks, t)
  BY <1>1, <1>20 DEF TracesLaid, TraceLaid, TraceBegun
<1>22. LinksLaid(mm, blocks)
  <2> SUFFICES ASSUME NEW k \in DOMAIN m, mm[k].k = "jal"
               PROVE  LinkLaid(mm, k, blocks)
    BY <1>7 DEF LinksLaid
  <2>1. CASE k = p + 1
    <3>1. k - 1 = p /\ k - 2 = p - 1 /\ p - 1 \in DOMAIN mm /\ p \in DOMAIN mm
      BY <1>4, <1>7, <1>10, <2>1
    <3>2. mm[p - 1] = m[p - 1]
      BY <1>4, <1>7, <1>10
    <3>3. LinkGoal(mm, k) = GoalOf(a, tk)
      BY <1>4, <1>10, <2>1, <3>1, <3>2 DEF LinkGoal, GoalOf
    <3> QED BY <1>10, <2>1, <3>1, <3>3 DEF LinkLaid
  <2>2. CASE k # p + 1
    <3>1. k # p /\ mm[k] = m[k] /\ m[k].k = "jal"
      BY <1>7, <1>10, <2>2
    <3>2. LinkLaid(m, k, blocks)
      BY <1>1, <3>1 DEF LinksLaid
    <3>3. k - 1 \in DOMAIN m /\ m[k - 1].k = "popSp" /\ k - 2 \in DOMAIN m
      BY <3>2 DEF LinkLaid
    <3>4. k - 1 # p + 1
      BY <1>4, <3>3
    <3>5. k \in Int /\ k - 1 # p
      BY <1>3, <1>10, <2>2
    <3>6. mm[k - 1] = m[k - 1]
      BY <1>7, <3>3, <3>4, <3>5
    <3>7. mm[k - 2].k = "traceBranch" <=> m[k - 2].k = "traceBranch"
      BY <1>11, <1>12, <3>3
    <3>8. LinkGoal(mm, k) = LinkGoal(m, k)
      BY <3>1, <3>7 DEF LinkGoal
    <3> QED BY <1>7, <3>1, <3>2, <3>6, <3>8 DEF LinkLaid
  <2> QED BY <2>1, <2>2
<1>23. EndsAt(mm, Len(mm))
  BY <1>1, <1>7, <1>19
<1> QED BY <1>16, <1>17, <1>18, <1>21, <1>22, <1>23 DEF LayoutOf

-----------------------------------------------------------------------------
(* Every step keeps the layout.                                            *)

(* What is said of the text alone stays while the text does.               *)
LEMMA SameTraceText ==
  ASSUME text' = text
  PROVE  /\ \A a : (InText(a)' <=> InText(a)) /\ Fetch(a)' = Fetch(a)
         /\ TraceCodeWord' = TraceCodeWord
         /\ \A m, n : EndsAt(m, n)' <=> EndsAt(m, n)
         /\ \A m, n : StartsAt(m, n)' <=> StartsAt(m, n)
         /\ \A a : HostOf(a)' = HostOf(a)
         /\ \A m, es, blocks, t :
              LayoutOf(m, es, blocks, t)' <=> LayoutOf(m, es, blocks, t)
<1>1. \A a : (InText(a)' <=> InText(a)) /\ Fetch(a)' = Fetch(a) /\ HostOf(a)' = HostOf(a)
  BY DEF InText, Fetch, HostOf
<1>2. TraceCodeWord' = TraceCodeWord
  BY <1>1 DEF TraceCodeWord
<1>3. \A m, n : EndsAt(m, n)' <=> EndsAt(m, n)
  BY DEF EndsAt
<1>4. \A m, n : StartsAt(m, n)' <=> StartsAt(m, n)
  BY <1>3 DEF StartsAt
<1>5. \A m, n : BranchExitAt(m, n)' <=> BranchExitAt(m, n)
  BY <1>1 DEF BranchExitAt
<1>6. \A m, n : JumpExitAt(m, n)' <=> JumpExitAt(m, n)
  BY <1>1 DEF JumpExitAt
<1>7. \A m, n : ExitAt(m, n)' <=> ExitAt(m, n)
  BY <1>5, <1>6 DEF ExitAt
<1>8. \A m : Laid(m)' <=> Laid(m)
  BY <1>2, <1>7 DEF Laid, ExitsLaid
<1>9. \A m, a, e : ExitKnown(m, a, e)' <=> ExitKnown(m, a, e)
  BY <1>1 DEF ExitKnown, SaveOf
<1>10. \A m, es : ExitsKnown(m, es)' <=> ExitsKnown(m, es)
  BY <1>9 DEF ExitsKnown
<1>11. \A m, blocks : TracesLaid(m, blocks)' <=> TracesLaid(m, blocks)
  <2>1. \A m, a, b : TraceLaid(m, a, b)' <=> TraceLaid(m, a, b)
    BY <1>1, <1>4 DEF TraceLaid
  <2> QED BY <2>1 DEF TracesLaid
<1>12. \A m, blocks, t : TraceBegun(m, blocks, t)' <=> TraceBegun(m, blocks, t)
  BY <1>4 DEF TraceBegun
<1>13. \A m, blocks : LinksLaid(m, blocks)' <=> LinksLaid(m, blocks)
  <2>1. \A m, n : LinkGoal(m, n)' = LinkGoal(m, n)
    BY DEF LinkGoal
  <2>2. \A m, n, blocks : LinkLaid(m, n, blocks)' <=> LinkLaid(m, n, blocks)
    BY <2>1 DEF LinkLaid
  <2> QED BY <2>2 DEF LinksLaid
<1>14. \A m, es, blocks, t : LayoutOf(m, es, blocks, t)' <=> LayoutOf(m, es, blocks, t)
  BY <1>3, <1>8, <1>10, <1>11, <1>12, <1>13 DEF LayoutOf
<1> QED BY <1>1, <1>2, <1>3, <1>4, <1>14

(* The layout of the next state, by its own variables.                     *)
LEMMA LayoutNext ==
  ASSUME text' = text, LayoutOf(memory', exits', RailBasicBlocks', trace')
  PROVE  LayoutInv'
  BY SameTraceText DEF LayoutInv

(* The end of a trace keeps the types and the layout.                      *)
LEMMA TraceEndKeeps ==
  ASSUME TraceTypes, LayoutInv, trace.busy, NEW type \in BlockType,
         NEW w, Piece(w), NEW fs, fs \in [DOMAIN fs -> Nat], DOMAIN exits \subseteq DOMAIN fs,
         ReportsOnly(w, DOMAIN fs), ExitsKnown(memory \o w, fs),
         TraceEnd(type, w), exits' = fs,
         UNCHANGED <<text, tool, currentBB, alloc, lastInst, lastInstAddress, linked>>
  PROVE  TraceTypes' /\ LayoutInv'
<1> DEFINE b == [trace.railBB EXCEPT !.type = type,
                                     !.lastAddr = program_counter,
                                     !.terminalInst = Fetch(program_counter),
                                     !.endLocationInCache = EndOf(memory \o w)]
<1>1. LayoutOf(memory, exits, RailBasicBlocks, trace)
  BY DEF LayoutInv
<1>2. /\ Laid(memory) /\ Laid(memory \o w)
  BY <1>1, LayoutParts, PieceGlued
<1>3. EndOf(memory \o w) \in Nat /\ Fetch(program_counter) \in Inst
      /\ program_counter \in Int /\ trace.railBB \in Block
  <2>1. Len(memory \o w) \in Nat
    BY <1>2, WordOfLaid
  <2> QED BY <2>1, FetchType DEF EndOf, TraceTypes
<1>4. /\ b \in Block /\ b.firstAddr = trace.railBB.firstAddr
      /\ b.terminalInst = Fetch(b.lastAddr)
      /\ b.startLocationInCache = trace.railBB.startLocationInCache
  BY <1>3 DEF Block
<1>5. /\ memory' = memory \o w /\ RailBasicBlocks' = InsertedBB(RailBasicBlocks, b)
      /\ trace' = IdleTrace /\ program_counter' = program_counter
  BY DEF TraceEnd
<1> HIDE DEF b
<1>6. LayoutOf(memory \o w, fs, InsertedBB(RailBasicBlocks, b), IdleTrace)
  BY <1>1, <1>4, EndLayout
<1>7. LayoutInv'
  BY <1>5, <1>6, LayoutNext
<1>8. TraceTypes'
  <2>1. memory' \in Seq(TraceCodeWord')
    BY <1>2, <1>5, WordOfLaid, SameTraceText
  <2>2. /\ DOMAIN RailBasicBlocks' \subseteq Int
        /\ RailBasicBlocks' \in [DOMAIN RailBasicBlocks' -> Block]
    BY <1>4, <1>5, InsertedType DEF TraceTypes
  <2>3. trace' \in [busy : BOOLEAN, railBB : Block, count : Nat]
    BY <1>5, ZeroBlockType DEF IdleTrace
  <2>4. exits' \in [DOMAIN exits' -> Nat]
    OBVIOUS
  <2>5. text' \in Seq(Inst) /\ tool' \in Registration /\ currentBB' \in Int /\ alloc' = Idle
        /\ lastInst' \in Int /\ lastInstAddress' \in Int /\ linked' \in BOOLEAN
        /\ program_counter' \in Int
    BY <1>5 DEF TraceTypes
  <2> QED BY <2>1, <2>2, <2>3, <2>4, <2>5 DEF TraceTypes
<1> QED BY <1>7, <1>8

(* So does its end with an exit.                                           *)
LEMMA TraceExitsKeeps ==
  ASSUME TraceTypes, LayoutInv, trace.busy, NEW type \in BlockType,
         InText(program_counter), text[program_counter].op \in ControlOp,
         NEW w, Piece(w), ReportsOnly(w, {program_counter}), Len(w) > 2, w[1].k = "save",
         w[3] = IF text[program_counter].op = "BRANCH"
                THEN W("traceBranch", program_counter, 0) ELSE W("lui", 0, program_counter),
         TraceExits(Fetch(program_counter), type, w),
         UNCHANGED <<text, tool, currentBB, alloc, lastInst, lastInstAddress, linked>>
  PROVE  TraceTypes' /\ LayoutInv'
<1> DEFINE pc == program_counter
           i  == text[pc]
           fs == ExitsWith(pc, ExitWord(i, memory))
<1>1. LayoutOf(memory, exits, RailBasicBlocks, trace)
  BY DEF LayoutInv
<1>2. Laid(memory) /\ ExitsKnown(memory, exits)
  BY <1>1, LayoutParts
<1>3. Fetch(pc) = i /\ exits' = fs /\ TraceEnd(type, w)
  BY InTextType DEF TraceExits, TraceTypes
<1>4. /\ DOMAIN fs = DOMAIN exits \cup {pc} /\ fs[pc] = ExitWord(i, memory)
      /\ \A a \in DOMAIN exits : a # pc => fs[a] = exits[a]
  BY DEF ExitsWith
<1>5. fs \in [DOMAIN fs -> Nat]
  <2>1. ExitWord(i, memory) \in Nat
    BY <1>2, WordOfLaid DEF ExitWord
  <2> QED BY <1>4, <2>1 DEF TraceTypes, ExitsWith
<1>6. ExitsKnown(memory \o w, fs)
  <2>1. ExitKnown(memory \o w, pc, fs[pc])
    BY <1>2, <1>4, NewExitKnown
  <2>2. ASSUME NEW a \in DOMAIN exits, a # pc
        PROVE  ExitKnown(memory \o w, a, fs[a])
    <3>1. ExitKnown(memory, a, exits[a])
      BY <1>2 DEF ExitsKnown
    <3> QED BY <1>2, <1>4, <2>2, <3>1, StaysBehind
  <2> QED BY <1>4, <2>1, <2>2 DEF ExitsKnown
<1>7. ReportsOnly(w, DOMAIN fs)
  BY <1>4, ReportsMore
<1> HIDE DEF fs
<1> QED BY <1>3, <1>4, <1>5, <1>6, <1>7, TraceEndKeeps

(* A step after which the trace goes on keeps them as well.                *)
LEMMA TraceGoesOnKeeps ==
  ASSUME TraceTypes, LayoutInv, NEW w, Piece(w), ReportsOnly(w, {}),
         NEW next \in Int, TraceGoesOn(next, w), exits' = exits,
         NEW u \in [busy : BOOLEAN, railBB : Block, count : Nat], trace' = u,
         u.busy => trace.busy, u.railBB.firstAddr = trace.railBB.firstAddr,
         u.railBB.startLocationInCache = trace.railBB.startLocationInCache,
         UNCHANGED <<text, tool, currentBB, alloc, lastInst, lastInstAddress, linked>>
  PROVE  TraceTypes' /\ LayoutInv'
<1>1. LayoutOf(memory, exits, RailBasicBlocks, trace)
  BY DEF LayoutInv
<1>2. /\ memory' = memory \o w /\ RailBasicBlocks' = RailBasicBlocks
      /\ program_counter' = next
  BY DEF TraceGoesOn
<1>3. LayoutOf(memory \o w, exits, RailBasicBlocks, u)
  BY <1>1, GoesOnLayout
<1>4. LayoutInv'
  BY <1>2, <1>3, LayoutNext
<1>5. memory' \in Seq(TraceCodeWord')
  <2>1. Laid(memory \o w)
    BY <1>3, LayoutParts
  <2> QED BY <1>2, <2>1, WordOfLaid, SameTraceText
<1> QED BY <1>2, <1>4, <1>5 DEF TraceTypes

(* The cursor is at an instruction of the text.                            *)
LEMMA CursorInText ==
  ASSUME text \in Seq(Inst), Fetch(program_counter).op # "none"
  PROVE  InText(program_counter) /\ Fetch(program_counter) = text[program_counter]
<1>1. NoInst.op = "none"
  BY DEF NoInst
<1> QED BY <1>1 DEF Fetch, InText

(* So every step of allocateTrace keeps the types and the layout.          *)
LEMMA TraceStepKeeps ==
  ASSUME TraceTypes, LayoutInv, TraceStep,
         UNCHANGED <<text, tool, currentBB, alloc, lastInst, lastInstAddress, linked>>
  PROVE  TraceTypes' /\ LayoutInv'
<1> DEFINE pc == program_counter
           i  == text[pc]
<1>0. text \in Seq(Inst) /\ pc \in Int
      /\ trace \in [busy : BOOLEAN, railBB : Block, count : Nat]
  BY DEF TraceTypes
<1>1. CASE TraceBranch
  <2>1. trace.busy /\ Fetch(pc).op = "BRANCH"
    BY <1>1 DEF TraceBranch, TraceAt
  <2>2. InText(pc) /\ Fetch(pc) = i
    BY <1>0, <2>1, CursorInText
  <2>3. i.op = "BRANCH" /\ i.op \in ControlOp /\ "DIRECT_BRANCH" \in BlockType
    BY <2>1, <2>2 DEF ControlOp, BlockType
  <2> PICK w : w = TraceBranchExit(pc)
    OBVIOUS
  <2>4. /\ Piece(w) /\ ReportsOnly(w, {pc}) /\ Len(w) = 19 /\ w[1].k = "save"
        /\ w[3] = W("traceBranch", pc, 0)
    BY <1>0, <2>2, <2>3, BranchExitPiece
  <2>5. TraceExits(Fetch(pc), "DIRECT_BRANCH", w) /\ Len(w) > 2
    BY <1>1, <2>4 DEF TraceBranch
  <2> QED BY <2>1, <2>2, <2>3, <2>4, <2>5, TraceExitsKeeps
<1>2. CASE TraceJump
  <2>1. trace.busy /\ trace.count > 0 /\ Fetch(pc).op = "JAL" /\ exits' = exits
    BY <1>2 DEF TraceJump, TraceAt
  <2>2. InText(pc) /\ Fetch(pc) = i /\ i.imm \in Int
    BY <1>0, <2>1, CursorInText, InTextType
  <2> DEFINE u == [busy |-> trace.busy, count |-> trace.count - 1,
                   railBB |-> [trace.railBB EXCEPT !.type = "DIRECT_BRANCH"]]
  <2>3. trace' = u /\ TraceGoesOn(pc + i.imm, FollowedJump(i, pc))
    BY <1>0, <1>2, <2>2 DEF TraceJump
  <2>4. /\ u \in [busy : BOOLEAN, railBB : Block, count : Nat]
        /\ u.busy = trace.busy /\ u.railBB.firstAddr = trace.railBB.firstAddr
        /\ u.railBB.startLocationInCache = trace.railBB.startLocationInCache
    <3>1. trace.railBB \in Block /\ "DIRECT_BRANCH" \in BlockType
          /\ trace.count - 1 \in Nat
      BY <1>0, <2>1 DEF BlockType
    <3>2. u.busy = trace.busy /\ u.count = trace.count - 1
          /\ u.railBB = [trace.railBB EXCEPT !.type = "DIRECT_BRANCH"]
      BY <1>0
    <3>4. /\ u.railBB \in Block /\ u.railBB.firstAddr = trace.railBB.firstAddr
          /\ u.railBB.startLocationInCache = trace.railBB.startLocationInCache
      BY <3>1, <3>2 DEF Block
    <3> QED BY <1>0, <3>1, <3>2, <3>4
  <2>5. Piece(FollowedJump(i, pc)) /\ ReportsOnly(FollowedJump(i, pc), {})
    BY <1>0, <2>2, FollowedPiece
  <2>6. pc + i.imm \in Int
    BY <1>0, <2>2
  <2> HIDE DEF u, i
  <2> QED BY <2>1, <2>3, <2>4, <2>5, <2>6, TraceGoesOnKeeps
<1>3. CASE TraceLastJump \/ TraceJalr
  <2>1. trace.busy /\ Fetch(pc).op \in {"JAL", "JALR"}
    BY <1>3 DEF TraceLastJump, TraceJalr, TraceAt
  <2>2. InText(pc) /\ Fetch(pc) = i
    BY <1>0, <2>1, CursorInText
  <2>3. i.op \in {"JAL", "JALR", "SYSTEM"} /\ i.op \in ControlOp
        /\ HostOf(pc) = ContextSwitchTraceExitTaken
    BY <2>1, <2>2 DEF ControlOp, HostOf
  <2> PICK w : w = TraceExit(pc, HostOf(pc))
    OBVIOUS
  <2>4. /\ Piece(w) /\ ReportsOnly(w, {pc}) /\ Len(w) = 10 /\ w[1].k = "save"
        /\ w[3] = W("lui", 0, pc)
    BY <1>0, <2>2, <2>3, ExitWordPiece
  <2>5. PICK type \in {"DIRECT_BRANCH", "INDIRECT_BRANCH"} : TraceExits(Fetch(pc), type, w)
    BY <1>3, <2>3 DEF TraceLastJump, TraceJalr
  <2>6. type \in BlockType /\ i.op # "BRANCH" /\ Len(w) > 2
    BY <2>1, <2>2, <2>4 DEF BlockType
  <2> QED BY <2>1, <2>2, <2>3, <2>4, <2>5, <2>6, TraceExitsKeeps
<1>4. CASE TraceSystem
  <2>1. trace.busy /\ Fetch(pc).op = "SYSTEM"
    BY <1>4 DEF TraceSystem, TraceAt
  <2>2. InText(pc) /\ Fetch(pc) = i
    BY <1>0, <2>1, CursorInText
  <2>3. i.op = "SYSTEM" /\ i.op \in ControlOp /\ "SYSCALL" \in BlockType
        /\ HostOf(pc) = ContextSwitchTraceExit
    BY <2>1, <2>2 DEF ControlOp, HostOf, BlockType
  <2> PICK x : x = TraceExit(pc, HostOf(pc))
    OBVIOUS
  <2> PICK e : e = Ecall(pc)
    OBVIOUS
  <2> DEFINE w == x \o e
  <2>4. /\ Piece(x) /\ ReportsOnly(x, {pc}) /\ Len(x) = 10 /\ x[1].k = "save"
        /\ x[3] = W("lui", 0, pc)
    BY <1>0, <2>2, <2>3, ExitWordPiece
  <2>5. TraceExits(Fetch(pc), "SYSCALL", w)
    BY <1>4, <2>3 DEF TraceSystem
  <2>6. Piece(e) /\ ReportsOnly(e, {}) /\ Len(e) = 1
    BY <2>2, EcallPiece
  <2>7. Piece(w) /\ ReportsOnly(w, {pc})
    <3>1. ReportsOnly(e, {pc})
      BY <2>6, ReportsMore
    <3>2. Laid(x) /\ Laid(e)
      BY <2>4, <2>6 DEF Piece
    <3> QED BY <2>4, <2>6, <3>1, <3>2, PieceGlued, ReportsGlued
  <2>8. Len(w) > 2 /\ w[1] = x[1] /\ w[3] = x[3]
    <3>1. x \in Seq(TraceCodeWord) /\ e \in Seq(TraceCodeWord)
      BY <2>4, <2>6, WordOfLaid DEF Piece
    <3>2. /\ Len(w) = Len(x) + Len(e) /\ DOMAIN x = 1..Len(x)
          /\ \A k \in DOMAIN x : w[k] = x[k]
      BY <3>1, Glued
    <3>3. \A k \in 1..10 : w[k] = x[k]
      BY <2>4, <3>2
    <3>4. Len(w) = 11
      BY <2>4, <2>6, <3>2
    <3> HIDE DEF w
    <3> QED BY <3>3, <3>4
  <2> HIDE DEF w
  <2> QED BY <2>1, <2>2, <2>3, <2>4, <2>5, <2>7, <2>8, TraceExitsKeeps
<1>5. CASE TraceInstruction
  <2>1. trace.busy /\ Fetch(pc).op \in Opcode \ ControlOp /\ exits' = exits
    BY <1>5 DEF TraceInstruction, TraceAt
  <2>2. Fetch(pc).op # "none"
    BY <2>1 DEF Opcode
  <2>3. InText(pc) /\ Fetch(pc) = i
    BY <1>0, <2>2, CursorInText
  <2> DEFINE x == TraceInLine(i, pc)
             w == x \o SwitchTo(ContextSwitchTaken)
  <2>4. Piece(x) /\ ReportsOnly(x, {})
    BY <1>0, <2>1, <2>3, InLinePiece
  <2>5. \/ TraceEnd("SEGMENTED", w)
        \/ /\ TraceGoesOn(pc + 1, x) /\ UNCHANGED <<trace, followed>>
    BY <1>5, <2>3 DEF TraceInstruction
  <2> HIDE DEF x
  <2>6. CASE TraceEnd("SEGMENTED", w)
    <3>1. Piece(w) /\ ReportsOnly(w, {})
      <4>1. Laid(x) /\ Laid(SwitchTo(ContextSwitchTaken))
        BY <2>4, SwitchPiece DEF Piece
      <4> QED BY <2>4, <4>1, SwitchPiece, PieceGlued, ReportsGlued
    <3>2. ReportsOnly(w, DOMAIN exits)
      BY <3>1, ReportsMore
    <3>3. LayoutOf(memory, exits, RailBasicBlocks, trace)
      BY DEF LayoutInv
    <3>4. Laid(memory) /\ ExitsKnown(memory, exits)
      BY <3>3, LayoutParts
    <3>5. ExitsKnown(memory \o w, exits)
      BY <3>1, <3>4, StaysBehind DEF ExitsKnown
    <3>6. "SEGMENTED" \in BlockType /\ exits \in [DOMAIN exits -> Nat]
      BY DEF BlockType, TraceTypes
    <3> HIDE DEF w
    <3> QED BY <2>1, <2>6, <3>1, <3>2, <3>5, <3>6, TraceEndKeeps
  <2>7. CASE TraceGoesOn(pc + 1, x) /\ UNCHANGED <<trace, followed>>
    <3>1. pc + 1 \in Int
      BY <1>0
    <3>2. trace' = trace
      BY <2>7
    <3> QED BY <1>0, <2>1, <2>4, <2>7, <3>1, <3>2, TraceGoesOnKeeps
  <2> QED BY <2>5, <2>6, <2>7
<1>6. CASE TraceTextEnd
  <2>1. trace.busy /\ exits' = exits
    BY <1>6 DEF TraceTextEnd, TraceAt
  <2>2. PICK type \in BlockType : TraceEnd(type, << >>)
    <3>1. trace.railBB.type \in BlockType
      BY <1>0 DEF Block
    <3> QED BY <1>6, <3>1 DEF TraceTextEnd
  <2>3. Piece(<< >>) /\ ReportsOnly(<< >>, DOMAIN exits)
    BY EmptyPiece
  <2>4. LayoutOf(memory, exits, RailBasicBlocks, trace)
    BY DEF LayoutInv
  <2>5. Laid(memory) /\ ExitsKnown(memory, exits)
    BY <2>4, LayoutParts
  <2>6. ExitsKnown(memory \o << >>, exits)
    BY <2>3, <2>5, StaysBehind DEF ExitsKnown
  <2>7. exits \in [DOMAIN exits -> Nat]
    BY DEF TraceTypes
  <2> QED BY <2>1, <2>2, <2>3, <2>6, <2>7, TraceEndKeeps
<1> QED BY <1>1, <1>2, <1>3, <1>4, <1>5, <1>6 DEF TraceStep

(* The beginning of a trace keeps them.                                    *)
LEMMA TraceBeginKeeps ==
  ASSUME TraceTypes, LayoutInv, NEW cursor \in Int, NEW a \in Int, NEW count \in Nat \ {0},
         a \notin DOMAIN RailBasicBlocks, TraceBegin(cursor, a, count),
         UNCHANGED <<lastInst, lastInstAddress, linked>>
  PROVE  TraceTypes' /\ LayoutInv'
<1>1. LayoutOf(memory, exits, RailBasicBlocks, trace)
  BY DEF LayoutInv
<1>2. /\ memory' = memory \o RestoreScratch /\ RailBasicBlocks' = RailBasicBlocks
      /\ exits' = exits /\ program_counter' = a /\ currentBB' = a
      /\ UNCHANGED <<text, tool, alloc>>
  BY DEF TraceBegin, setCurrentBB
<1>3. Len(memory) \in Nat /\ Fetch(cursor) \in Inst /\ ZeroBlock \in Block
  <2>1. Laid(memory) /\ text \in Seq(Inst)
    BY <1>1, LayoutParts DEF TraceTypes
  <2> QED BY <2>1, WordOfLaid, FetchType, ZeroBlockType
<1>4. PICK u : /\ u = trace' /\ u.railBB.firstAddr = a
               /\ u.railBB.startLocationInCache = Len(memory) + 1
               /\ u \in [busy : BOOLEAN, railBB : Block, count : Nat]
  <2>1. PICK i : i = Fetch(cursor)
    OBVIOUS
  <2>2. PICK n : n = Len(memory) + 1
    OBVIOUS
  <2>3. PICK z : z = ZeroBlock
    OBVIOUS
  <2>4. PICK b : b = [z EXCEPT !.firstAddr = a, !.basicBlockAddress = a,
                               !.startInst = i, !.startLocationInCache = n]
    OBVIOUS
  <2>5. trace' = [busy |-> TRUE, railBB |-> b, count |-> count - 1]
    BY <2>1, <2>2, <2>3, <2>4 DEF TraceBegin, EndOf
  <2>6. b \in Block /\ b.firstAddr = a /\ b.startLocationInCache = n
    <3>1. z \in Block /\ i \in Inst /\ n \in Nat
      BY <1>3, <2>1, <2>2, <2>3
    <3> QED BY <2>4, <3>1 DEF Block
  <2>7. count - 1 \in Nat
    OBVIOUS
  <2>8. trace' \in [busy : BOOLEAN, railBB : Block, count : Nat]
    BY <2>5, <2>6, <2>7
  <2>9. /\ trace'.railBB.firstAddr = a
        /\ trace'.railBB.startLocationInCache = Len(memory) + 1
    BY <2>2, <2>5, <2>6
  <2> QED BY <2>8, <2>9
<1>5. LayoutOf(memory \o RestoreScratch, exits, RailBasicBlocks, u)
  BY <1>1, <1>4, BeginLayout
<1>6. LayoutInv'
  BY <1>2, <1>4, <1>5, LayoutNext
<1>7. memory' \in Seq(TraceCodeWord')
  <2>1. Laid(memory \o RestoreScratch)
    BY <1>5, LayoutParts
  <2> QED BY <1>2, <2>1, WordOfLaid, SameTraceText
<1> QED BY <1>2, <1>4, <1>6, <1>7 DEF TraceTypes

(* A reported exit is one exits knows.                                     *)
LEMMA ReportedExit ==
  ASSUME TraceTypes, LayoutInv, Reported
  PROVE  /\ lastInstAddress \in DOMAIN exits
         /\ ExitKnown(memory, lastInstAddress, exits[lastInstAddress])
         /\ InText(lastInstAddress) /\ text[lastInstAddress].op \in ControlOp
         /\ LastInst = text[lastInstAddress] /\ LastAddr = lastInstAddress
         /\ lastInstAddress \in Int /\ text[lastInstAddress] \in Inst
<1>1. LayoutOf(memory, exits, RailBasicBlocks, trace) /\ text \in Seq(Inst)
  BY DEF LayoutInv, TraceTypes
<1>2. ExitsKnown(memory, exits)
  BY <1>1, LayoutParts
<1>3. /\ lastInstAddress \in DOMAIN exits
      /\ ExitKnown(memory, lastInstAddress, exits[lastInstAddress])
  BY <1>2 DEF Reported, ExitsKnown
<1>4. InText(lastInstAddress) /\ text[lastInstAddress].op \in ControlOp
  BY <1>3 DEF ExitKnown
<1> QED BY <1>1, <1>3, <1>4, InTextType DEF LastInst, LastAddr

(* What stub overwrites is what a link is made of.                         *)
LEMMA LinkedMemoryLaid ==
  ASSUME TraceTypes, DispatcherTypeOK, LayoutInv, ReportOK,
         NEW key \in DOMAIN RailBasicBlocks,
         Reported /\ ExitType = "DIRECT_BRANCH" => key = NextBlockAddr(LastInst, LastAddr)
  PROVE  /\ LayoutOf(LinkedMemory(Lookup(key)), exits, RailBasicBlocks, trace)
         /\ LinkedMemory(Lookup(key)) \in Seq(TraceCodeWord)
<1> DEFINE next == Lookup(key)
           a    == lastInstAddress
<1>1. LayoutOf(memory, exits, RailBasicBlocks, trace) /\ text \in Seq(Inst)
  BY DEF LayoutInv, TraceTypes
<1>2. CASE Reported /\ ExitType = "DIRECT_BRANCH"
  <2>1. /\ a \in DOMAIN exits /\ a # 0 /\ InText(a) /\ a \in Int
        /\ LastInst = text[a] /\ LastAddr = a /\ text[a].op \in ControlOp /\ text[a] \in Inst
    BY <1>2, ReportedExit DEF Reported
  <2>2. text[a].op \in {"BRANCH", "JAL"}
    BY <1>2, <2>1 DEF ExitType, NextInstType, ControlOp
  <2>3. text[a].op = "JAL" => taken
    BY <2>1 DEF ReportOK
  <2>4. key = GoalOf(a, taken)
    BY <1>2, <2>1, <2>2 DEF NextBlockAddr, GoalOf
  <2>5. /\ exits[a] \in Int /\ taken \in BOOLEAN /\ RailBasicBlocks[key] \in Block
        /\ next = RailBasicBlocks[key]
    BY <2>1 DEF TraceTypes, DispatcherTypeOK, Lookup
  <2>6. PICK v : v = LinkTarget(next)
    OBVIOUS
  <2>7. v \in Int /\ v = RailBasicBlocks[key].startLocationInCache + 1
    BY <2>5, <2>6 DEF LinkTarget, Block
  <2>8. PICK p : p = LinkPlace(a, exits[a], taken)
    OBVIOUS
  <2>9. PICK mm : mm = [memory EXCEPT ![p] = W("popSp", 0, 0), ![p + 1] = W("jal", a, v)]
    OBVIOUS
  <2>10. LinkedMemory(next) = mm
    <3>1. /\ LinkWords(a, next)[1] = W("popSp", 0, 0) /\ LinkWords(a, next)[2] = W("jal", a, v)
          /\ exits[a] + LinkOffset = p
      BY <2>6, <2>8 DEF LinkWords, LinkOffset, LinkPlace
    <3> QED BY <1>2, <2>9, <3>1 DEF LinkedMemory
  <2>11. LayoutOf(mm, exits, RailBasicBlocks, trace)
    <3> HIDE DEF next, a
    <3> QED BY <1>1, <2>1, <2>2, <2>3, <2>4, <2>5, <2>7, <2>8, <2>9, LinkLayout DEF a
  <2>12. mm \in Seq(TraceCodeWord)
    BY <2>11, LayoutParts, WordOfLaid
  <2> QED BY <2>10, <2>11, <2>12
<1>3. CASE ~(Reported /\ ExitType = "DIRECT_BRANCH")
  <2>1. LinkedMemory(next) = memory
    BY <1>3 DEF LinkedMemory
  <2> QED BY <1>1, <2>1 DEF TraceTypes
<1> QED BY <1>2, <1>3

(* stub's second half keeps the types and the layout, whether it enters    *)
(* the next trace or gives up.                                             *)
LEMMA LinkKeeps ==
  ASSUME TraceTypes, DispatcherTypeOK, LayoutInv, ReportOK,
         frame.nextBlockAddr \in DOMAIN RailBasicBlocks,
         Reported /\ ExitType = "DIRECT_BRANCH" =>
           frame.nextBlockAddr = NextBlockAddr(LastInst, LastAddr),
         TraceStub_Enter \/ TraceStub_GiveUp
  PROVE  TraceTypes' /\ LayoutInv'
<1> DEFINE key == frame.nextBlockAddr
           bba == frame.currentBasicBlock.basicBlockAddress
<1>1. PICK mm : mm = LinkedMemory(Lookup(key))
  OBVIOUS
<1>2. LayoutOf(mm, exits, RailBasicBlocks, trace) /\ mm \in Seq(TraceCodeWord)
  BY <1>1, LinkedMemoryLaid
<1>3. memory' = mm /\ UNCHANGED <<text, tool, program_counter, alloc, exits, trace>>
      /\ currentBB' \in {currentBB, Lookup(key).firstAddr}
      /\ UNCHANGED <<lastInst, lastInstAddress, linked>>
  BY <1>1 DEF TraceStub_Enter, TraceStub_GiveUp, setCurrentBB, NoTraceStep
<1>4. PICK new : new = RailBasicBlocks'
  OBVIOUS
<1>5. new \in {RailBasicBlocks, [RailBasicBlocks EXCEPT ![key].basicBlockAddress = bba]}
  BY <1>4 DEF TraceStub_Enter, TraceStub_GiveUp, AdoptSegment
<1>6. DOMAIN new = DOMAIN RailBasicBlocks
  BY <1>5
<1>7. bba \in Int /\ RailBasicBlocks \in [DOMAIN RailBasicBlocks -> Block]
  BY DEF DispatcherTypeOK, Block, TraceTypes
<1>8. ASSUME NEW a \in DOMAIN RailBasicBlocks
      PROVE  /\ new[a] \in Block
             /\ new[a].firstAddr = RailBasicBlocks[a].firstAddr
             /\ new[a].lastAddr = RailBasicBlocks[a].lastAddr
             /\ new[a].terminalInst = RailBasicBlocks[a].terminalInst
             /\ new[a].startLocationInCache = RailBasicBlocks[a].startLocationInCache
  <2>1. \/ new[a] = RailBasicBlocks[a]
        \/ new[a] = [RailBasicBlocks[a] EXCEPT !.basicBlockAddress = bba]
    BY <1>5
  <2>2. RailBasicBlocks[a] \in Block
    BY <1>7
  <2> HIDE DEF bba
  <2> QED BY <1>7, <2>1, <2>2 DEF Block
<1>9. LayoutOf(mm, exits, new, trace)
  BY <1>2, <1>6, <1>8, AdoptLayout
<1>10. LayoutInv'
  BY <1>3, <1>4, <1>9, LayoutNext
<1>11. TraceTypes'
  <2>1. new \in [DOMAIN new -> Block]
    <3>1. new = [a \in DOMAIN new |-> new[a]]
      BY <1>5, <1>7
    <3> QED BY <1>6, <1>8, <3>1
  <2>2. currentBB' \in Int
    <3>1. Lookup(key) \in Block
      BY <1>7, LookupType
    <3> QED BY <1>3, <3>1 DEF TraceTypes, Block
  <2>3. TraceCodeWord' = TraceCodeWord
    BY <1>3, SameTraceText
  <2> QED BY <1>2, <1>3, <1>4, <1>6, <2>1, <2>2, <2>3 DEF TraceTypes
<1> QED BY <1>10, <1>11

-----------------------------------------------------------------------------
(* Where the processor is, by the word it is at.                           *)

(* A side of the exit at n: its report begins at s and gives a to h.       *)
SideOf(n, s, a, h) ==
  /\ n \in DOMAIN memory /\ memory[n].k = "save"
  /\ \/ /\ memory[n + 2].k = "traceBranch" /\ a = memory[n + 2].a
        /\ \/ s = n + 3 /\ h = ContextSwitchTraceExit
           \/ s = n + 11 /\ h = ContextSwitchTraceExitTaken
     \/ /\ memory[n + 2].k = "lui" /\ a = memory[n + 2].v
        /\ s = n + 2 /\ h = HostOf(a)

(* At the branch before the two sides, or in the exit of a segment.        *)
AtDecision(n) ==
  /\ n \in DOMAIN memory /\ memory[n].k = "save" /\ memory[n + 2].k = "traceBranch"
  /\ ip = n + 2 /\ Lowered /\ regs.t6 = slot

InSwitch(n) ==
  /\ n \in DOMAIN memory /\ memory[n].k = "save" /\ memory[n + 2].k = "li" /\ Lowered
  /\ ip = n + 2 \/ (ip = n + 5 /\ regs.t6 = ContextSwitchTaken)

(* A place in an exit is the decision, a side, or the exit of a segment.   *)
LEMMA ExitCases ==
  ASSUME NEW n \in DOMAIN memory
  PROVE  InExit(n) <=> \/ AtDecision(n) \/ InSwitch(n)
                       \/ \E s, a, h : SideOf(n, s, a, h) /\ OnSide(s, a, h)
<1>1. ASSUME InExit(n)
      PROVE  \/ AtDecision(n) \/ InSwitch(n)
             \/ \E s, a, h : SideOf(n, s, a, h) /\ OnSide(s, a, h)
  <2>1. CASE memory[n + 2].k = "traceBranch"
    <3> DEFINE a == memory[n + 2].a
    <3>1. \/ ip = n + 2 /\ Lowered /\ regs.t6 = slot
          \/ OnSide(n + 3, a, ContextSwitchTraceExit)
          \/ OnSide(n + 11, a, ContextSwitchTraceExitTaken)
      BY <1>1, <2>1 DEF InExit
    <3>2. /\ SideOf(n, n + 3, a, ContextSwitchTraceExit)
          /\ SideOf(n, n + 11, a, ContextSwitchTraceExitTaken)
      BY <1>1, <2>1 DEF InExit, SideOf
    <3>3. CASE ip = n + 2 /\ Lowered /\ regs.t6 = slot
      BY <1>1, <2>1, <3>3 DEF InExit, AtDecision
    <3> QED BY <3>1, <3>2, <3>3
  <2>2. CASE memory[n + 2].k = "lui"
    <3> DEFINE a == memory[n + 2].v
    <3>1. OnSide(n + 2, a, HostOf(a))
      BY <1>1, <2>2 DEF InExit
    <3>2. SideOf(n, n + 2, a, HostOf(a))
      BY <1>1, <2>2 DEF InExit, SideOf
    <3> QED BY <3>1, <3>2
  <2>3. CASE memory[n + 2].k = "li"
    BY <1>1, <2>3 DEF InExit, InSwitch
  <2> QED BY <1>1, <2>1, <2>2, <2>3 DEF InExit
<1>2. AtDecision(n) => InExit(n)
  BY DEF AtDecision, InExit
<1>3. InSwitch(n) => InExit(n)
  BY DEF InSwitch, InExit
<1>4. ASSUME NEW s, NEW a, NEW h, SideOf(n, s, a, h), OnSide(s, a, h)
      PROVE  InExit(n)
  BY <1>4 DEF SideOf, InExit
<1> QED BY <1>1, <1>2, <1>3, <1>4

(* The words of a side.                                                    *)
LEMMA SideWords ==
  ASSUME TraceTypes, LayoutInv, NEW n, NEW s, NEW a, NEW h, SideOf(n, s, a, h)
  PROVE  /\ n \in Int /\ s \in Int /\ ReportAt(memory, s, a, h)
         /\ n + 2 < s + 1 /\ s + 7 \in DOMAIN memory
         /\ a \in DOMAIN exits /\ InText(a) /\ a \in Int
         /\ h \in TraceEntry /\ (text[a].op = "JAL" => h = ContextSwitchTraceExitTaken)
         /\ memory[s + 6].k = "popSp" => text[a].op = "JAL"
<1>1. LayoutOf(memory, exits, RailBasicBlocks, trace) /\ text \in Seq(Inst)
  BY DEF LayoutInv, TraceTypes
<1>2. Laid(memory) /\ ReportsOnly(memory, DOMAIN exits)
  BY <1>1, LayoutParts
<1>3. /\ DOMAIN memory = 1..Len(memory) /\ Len(memory) \in Nat /\ n \in Int
      /\ n \in DOMAIN memory /\ memory[n].k = "save" /\ ExitAt(memory, n)
  BY <1>2, WordOfLaid DEF SideOf, Laid, ExitsLaid
<1>4. CASE memory[n + 2].k = "traceBranch"
  <2>1. BranchExitAt(memory, n)
    BY <1>3, <1>4, ExitShape
  <2>2. /\ a = memory[n + 2].a
        /\ \/ s = n + 3 /\ h = ContextSwitchTraceExit
           \/ s = n + 11 /\ h = ContextSwitchTraceExitTaken
    BY <1>4 DEF SideOf
  <2>3. n + 2 \in DOMAIN memory /\ n + 18 \in DOMAIN memory
    BY <1>3, <2>1 DEF BranchExitAt
  <2>4. a \in DOMAIN exits
    BY <1>2, <1>4, <2>2, <2>3 DEF ReportsOnly
  <2>5. InText(a) /\ text[a].op = "BRANCH" /\ ReportAt(memory, s, a, h)
        /\ memory[s + 6].k = "addiEnd"
    <3>1. /\ ReportAt(memory, n + 3, a, ContextSwitchTraceExit)
          /\ ReportAt(memory, n + 11, a, ContextSwitchTraceExitTaken)
          /\ InText(a) /\ text[a].op = "BRANCH"
          /\ memory[n + 9].k = "addiEnd" /\ memory[n + 17].k = "addiEnd"
      BY <2>1, <2>2 DEF BranchExitAt
    <3>2. n + 3 + 6 = n + 9 /\ n + 11 + 6 = n + 17
      BY <1>3
    <3> QED BY <2>2, <3>1, <3>2
  <2>6. s \in Int /\ s + 7 \in DOMAIN memory /\ n + 2 < s + 1
    BY <1>3, <2>2, <2>3
  <2> QED BY <1>1, <1>3, <2>2, <2>4, <2>5, <2>6, InTextType DEF TraceEntry
<1>5. CASE memory[n + 2].k = "lui"
  <2>1. JumpExitAt(memory, n)
    BY <1>3, <1>5, ExitShape
  <2>2. a = memory[n + 2].v /\ s = n + 2 /\ h = HostOf(a)
    BY <1>5 DEF SideOf
  <2>3. n + 9 \in DOMAIN memory
    BY <2>1 DEF JumpExitAt
  <2>4. a \in DOMAIN exits
    BY <1>2, <1>3, <1>5, <2>2 DEF ReportsOnly
  <2>5. /\ InText(a) /\ ReportAt(memory, s, a, h)
        /\ memory[n + 8].k = "popSp" => text[a].op = "JAL"
    BY <2>1, <2>2 DEF JumpExitAt
  <2>6. s \in Int /\ s + 7 \in DOMAIN memory /\ n + 2 < s + 1 /\ s + 6 = n + 8
    BY <1>3, <2>2, <2>3
  <2>7. h \in TraceEntry /\ (text[a].op = "JAL" => h = ContextSwitchTraceExitTaken)
    BY <2>2 DEF HostOf, TraceEntry
  <2> QED BY <1>1, <1>3, <2>4, <2>5, <2>6, <2>7, InTextType
<1> QED BY <1>4, <1>5 DEF SideOf

SideKind == {"lui", "addi", "addiEnd", "sdPc", "popSp"}

(* The word a side is at.                                                  *)
LEMMA SideWord ==
  ASSUME TraceTypes, LayoutInv, NEW n, NEW s, NEW a, NEW h, SideOf(n, s, a, h),
         OnSide(s, a, h)
  PROVE  /\ ip \in s..(s + 7)
         /\ word.k \in SideKind \cup {"jal", "jalrT6"}
         /\ word.k = "jal" => ip = s + 1 \/ ip = s + 7
         /\ word.k = "jalrT6" => ip = s + 7
<1>1. s \in Int /\ ReportAt(memory, s, a, h)
  BY SideWords
<1>2. ip \in s..(s + 7) /\ ip \in Int
  BY <1>1 DEF OnSide
<1>3. /\ memory[s].k \in {"lui", "popSp"} /\ memory[s + 1].k \in {"addi", "jal"}
      /\ memory[s + 2].k = "addiEnd" /\ memory[s + 3].k = "sdPc" /\ memory[s + 4].k = "lui"
      /\ memory[s + 5].k = "addi" /\ memory[s + 6].k \in {"addiEnd", "popSp"}
      /\ memory[s + 7].k \in {"jalrT6", "jal"}
  BY <1>1, ReportWordKinds
<1>4. \/ ip = s \/ ip = s + 1 \/ ip = s + 2 \/ ip = s + 3 \/ ip = s + 4 \/ ip = s + 5
      \/ ip = s + 6 \/ ip = s + 7
  BY <1>1, <1>2
<1> QED BY <1>2, <1>3, <1>4 DEF SideKind, word

(* The words of allocateRoot.                                              *)
LEMMA RootWords ==
  ASSUME memory = Li(InitSwitch) \o JalrT6
  PROVE  memory[1] = W("li", 0, InitSwitch) /\ memory[4] = W("jalrT6", 0, 0)
  BY DEF Li, JalrT6

(* Which word the processor is at tells where it is.                       *)
LEMMA WhereWord ==
  ASSUME TraceTypes, LayoutInv, InCache, ip \in DOMAIN memory
  PROVE  /\ word \in TraceCodeWord
         /\ word.k \in StraightKind \cup ExitKind \cup {"save"}
         /\ word.k \in StraightKind \cup {"save"} => AtSequence
         /\ word.k \in SideKind =>
              \E n, s, a, h : SideOf(n, s, a, h) /\ OnSide(s, a, h)
         /\ word.k = "traceBranch" => \E n : AtDecision(n)
         /\ word.k = "li" => (AtRoot /\ ip = 1) \/ \E n : InSwitch(n) /\ ip = n + 2
         /\ word.k = "jalrT6" =>
              \/ AtRoot /\ ip = 4
              \/ AtTail
              \/ \E n : InSwitch(n) /\ ip = n + 5
              \/ \E n, s, a, h : SideOf(n, s, a, h) /\ OnSide(s, a, h) /\ ip = s + 7
         /\ word.k = "jal" =>
              AtTail \/ \E n, s, a, h : SideOf(n, s, a, h) /\ OnSide(s, a, h)
         /\ word.k = "cont" => AtTail
<1>1. LayoutOf(memory, exits, RailBasicBlocks, trace)
  BY DEF LayoutInv
<1>2. Laid(memory)
  BY <1>1, LayoutParts
<1>3. /\ DOMAIN memory = 1..Len(memory) /\ Len(memory) \in Nat
      /\ word \in TraceCodeWord /\ word.k \in StraightKind \cup ExitKind \cup {"save"}
  BY <1>2, WordOfLaid DEF word
<1>4. CASE AtRoot
  <2>1. (ip = 1 /\ word.k = "li") \/ (ip = 4 /\ word.k = "jalrT6")
    BY <1>4, RootWords, TraceWordFields DEF AtRoot, word
  <2> QED BY <1>3, <1>4, <2>1 DEF StraightKind, SideKind
<1>5. CASE AtSequence
  <2>1. word.k \in StraightKind \cup {"save"}
    BY <1>3, <1>5 DEF AtSequence, Begins, word
  <2> QED BY <1>3, <1>5, <2>1 DEF StraightKind, SideKind
<1>6. CASE AtTail
  <2>1. word.k \in {"cont", "jalrT6", "jal"}
    BY <1>6 DEF AtTail, word
  <2> QED BY <1>3, <1>6, <2>1 DEF StraightKind, SideKind
<1>7. ASSUME NEW n, AtDecision(n)
      PROVE  word.k = "traceBranch"
  BY <1>7 DEF AtDecision, word
<1>8. ASSUME NEW n, InSwitch(n)
      PROVE  (ip = n + 2 /\ word.k = "li") \/ (ip = n + 5 /\ word.k = "jalrT6")
  <2>1. SwitchAt(memory, n)
    <3>1. n \in DOMAIN memory /\ ExitAt(memory, n) /\ n \in Int /\ memory[n + 2].k = "li"
      BY <1>2, <1>3, <1>8 DEF InSwitch, Laid, ExitsLaid
    <3> QED BY <1>3, <3>1, ExitShape
  <2> QED BY <1>8, <2>1, TraceWordFields DEF InSwitch, SwitchAt, word
<1>9. ASSUME NEW n, NEW s, NEW a, NEW h, SideOf(n, s, a, h), OnSide(s, a, h)
      PROVE  /\ word.k \in SideKind \cup {"jal", "jalrT6"}
             /\ word.k = "jalrT6" => ip = s + 7
  BY <1>9, SideWord
<1>10. CASE \E n \in DOMAIN memory : InExit(n)
  <2>1. PICK n \in DOMAIN memory : InExit(n)
    BY <1>10
  <2>2. CASE AtDecision(n)
    BY <1>3, <1>7, <2>2 DEF StraightKind, SideKind
  <2>3. CASE InSwitch(n)
    <3>1. (ip = n + 2 /\ word.k = "li") \/ (ip = n + 5 /\ word.k = "jalrT6")
      BY <1>8, <2>3
    <3> QED BY <1>3, <2>3, <3>1 DEF StraightKind, SideKind
  <2>4. ASSUME NEW s, NEW a, NEW h, SideOf(n, s, a, h), OnSide(s, a, h)
        PROVE  /\ word.k \in SideKind =>
                    \E nn, ss, aa, hh : SideOf(nn, ss, aa, hh) /\ OnSide(ss, aa, hh)
               /\ word.k \in SideKind \cup {"jal", "jalrT6"}
               /\ word.k = "jalrT6" =>
                    \E nn, ss, aa, hh : /\ SideOf(nn, ss, aa, hh) /\ OnSide(ss, aa, hh)
                                        /\ ip = ss + 7
               /\ word.k = "jal" =>
                    \E nn, ss, aa, hh : SideOf(nn, ss, aa, hh) /\ OnSide(ss, aa, hh)
    BY <1>9, <2>4
  <2>5. AtDecision(n) \/ InSwitch(n) \/ \E s, a, h : SideOf(n, s, a, h) /\ OnSide(s, a, h)
    BY <2>1, ExitCases
  <2>6. CASE \E s, a, h : SideOf(n, s, a, h) /\ OnSide(s, a, h)
    <3>1. PICK s, a, h : SideOf(n, s, a, h) /\ OnSide(s, a, h)
      BY <2>6
    <3> QED BY <1>3, <2>4, <3>1 DEF StraightKind, SideKind
  <2> QED BY <2>2, <2>3, <2>5, <2>6
<1> QED BY <1>4, <1>5, <1>6, <1>10 DEF InCache

-----------------------------------------------------------------------------
(* Every step of the processor keeps the invariant.                        *)

(* The cache and what is known of it stay.                                 *)
LEMMA CacheStays ==
  ASSUME TraceTypes, LayoutInv, UNCHANGED <<cacheVars, exits, trace>>,
         lastInst' \in Int, lastInstAddress' \in Int, linked' \in BOOLEAN
  PROVE  TraceTypes' /\ LayoutInv'
<1>1. UNCHANGED <<text, tool, program_counter, memory, RailBasicBlocks, currentBB, alloc>>
  BY DEF cacheVars
<1>2. LayoutInv'
  BY <1>1, LayoutNext DEF LayoutInv
<1>3. TraceCodeWord' = TraceCodeWord
  BY <1>1, SameTraceText
<1> QED BY <1>1, <1>2, <1>3 DEF TraceTypes

(* A word is executed when the jumps before it have retired.               *)
LEMMA MovesFollowed ==
  ASSUME FollowedInv, Moves, text' = text
  PROVE  FollowedInv'
  BY DEF FollowedInv, Moves

(* or a followed jump retires, one of those recorded.                      *)
LEMMA RunFollowedKeeps ==
  ASSUME FollowedInv, RunFollowed
  PROVE  FollowedInv'
<1>1. UNCHANGED <<text, followed, ip, phase>> /\ passed' = passed + 1 /\ phase = "run"
      /\ ~Arrived
  BY DEF RunFollowed, cacheVars
<1>2. ip \in DOMAIN followed /\ passed # Len(followed[ip]) /\ passed \in Nat
  BY <1>1 DEF Arrived, FollowedInv
<1>3. Len(followed[ip]) \in Nat
  BY <1>2 DEF FollowedInv
<1>4. passed + 1 <= Len(followed[ip]) /\ passed + 1 \in Nat
  BY <1>2, <1>3 DEF FollowedInv
<1> QED BY <1>1, <1>2, <1>4 DEF FollowedInv

(* Steps within the cache.                                                 *)
CacheFixed == UNCHANGED <<memory, text, RailBasicBlocks, trace, status, phase>>

(* A step that ends in the cache keeps control where it should be,         *)
LEMMA ToControl ==
  ASSUME TraceControlInv, status = "running", phase = "run", CacheFixed, InCache',
         sp' \in {0, -16}
  PROVE  TraceControlInv'
  BY DEF TraceControlInv, CacheFixed

(* on a side of an exit,                                                   *)
LEMMA ToSide ==
  ASSUME CacheFixed, NEW n, NEW s, NEW a, NEW h, SideOf(n, s, a, h), OnSide(s, a, h)'
  PROVE  InCache'
<1>1. memory' = memory /\ text' = text
  BY DEF CacheFixed
<1>2. HostOf(a)' = HostOf(a)
  BY <1>1, SameTraceText
<1>3. n \in DOMAIN memory' /\ InExit(n)'
  BY <1>1, <1>2 DEF SideOf, InExit
<1> QED BY <1>3 DEF InCache

(* or at the beginning of a sequence.                                      *)
LEMMA ToSequence ==
  ASSUME CacheFixed, Begins(memory, ip'), sp' = 0,
         NoForwardedEcalls /\ t6Saved' => ip' \in DOMAIN memory /\ memory[ip'].k = "restore"
  PROVE  InCache'
<1>1. memory' = memory /\ text' = text
  BY DEF CacheFixed
<1> QED BY <1>1 DEF InCache, AtSequence, Begins, NoForwardedEcalls

(* Behind a word that goes on comes another sequence.                      *)
LEMMA NextSequence ==
  ASSUME LayoutInv, ip \in DOMAIN memory, word.k \in StraightKind, sp = 0, CacheFixed,
         ip' = ip + StraightLength(word.k), sp' = sp, NoForwardedEcalls => ~t6Saved'
  PROVE  InCache'
<1>1. LayoutOf(memory, exits, RailBasicBlocks, trace)
  BY DEF LayoutInv
<1>2. StraightLaid(memory)
  BY <1>1, LayoutParts DEF Laid
<1>3. Begins(memory, ip')
  BY <1>2 DEF StraightLaid, word
<1> QED BY <1>3, ToSequence

(* Where control is while the processor runs.                              *)
LEMMA RunningInCache ==
  ASSUME TraceControlInv, status = "running", phase = "run"
  PROVE  InCache /\ ~trace.busy /\ sp \in {0, -16}
  BY DEF TraceControlInv

(* A jump within the cache is to the word it is at.                        *)
LEMMA JumpInCacheStays ==
  ASSUME TraceTypes, DispatcherTypeOK, LayoutInv, InCache, RunJumpInCache
  PROVE  AtTail /\ ip' = ip /\ regs' = regs
<1>0. ip \in DOMAIN memory
  BY DEF RunJumpInCache, At
<1>1. /\ word.k = "jalrT6" /\ regs.t6 - CacheBase \in DOMAIN memory
      /\ ip' = regs.t6 - CacheBase /\ regs' = regs
  BY DEF RunJumpInCache, At
<1>2. regs.t6 > 0
  <2>1. memory \in Seq(TraceCodeWord) /\ CacheBase \in Nat /\ regs.t6 \in Int
    BY CacheAssumption DEF TraceTypes, DispatcherTypeOK, Reg
  <2> QED BY <1>1, <2>1
<1>3. \/ AtRoot /\ ip = 4
      \/ AtTail
      \/ \E n : InSwitch(n) /\ ip = n + 5
      \/ \E n, s, a, h : SideOf(n, s, a, h) /\ OnSide(s, a, h) /\ ip = s + 7
  BY <1>0, <1>1, WhereWord
<1>4. ~(AtRoot /\ ip = 4)
  BY <1>2 DEF AtRoot, InitSwitch
<1>5. ~\E n : InSwitch(n) /\ ip = n + 5
  <2> SUFFICES ASSUME NEW n, InSwitch(n), ip = n + 5 PROVE FALSE
    OBVIOUS
  <2>1. n \in Int
    BY DEF InSwitch, TraceTypes
  <2> QED BY <1>2, <2>1 DEF InSwitch, ContextSwitchTaken
<1>6. ~\E n, s, a, h : SideOf(n, s, a, h) /\ OnSide(s, a, h) /\ ip = s + 7
  <2> SUFFICES ASSUME NEW n, NEW s, NEW a, NEW h, SideOf(n, s, a, h), OnSide(s, a, h),
                      ip = s + 7
               PROVE  FALSE
    OBVIOUS
  <2>1. s \in Int /\ ReportAt(memory, s, a, h) /\ h \in TraceEntry
    BY SideWords
  <2>2. memory[s + 6].k # "popSp"
    BY <1>1, <2>1, TraceWordFields DEF word, ReportAt, LinkAt
  <2>3. regs.t6 = h
    BY <2>1, <2>2 DEF OnSide
  <2> QED BY <1>2, <2>1, <2>3 DEF TraceEntry, ContextSwitchTraceExit,
                                  ContextSwitchTraceExitTaken
<1>7. AtTail
  BY <1>3, <1>4, <1>5, <1>6
<1>8. ip' = ip
  <2>1. CacheBase \in Nat /\ ip \in Int
    BY CacheAssumption DEF DispatcherTypeOK
  <2> QED BY <1>1, <1>7, <2>1 DEF AtTail, CacheAddr
<1> QED BY <1>1, <1>7, <1>8

(* In line,                                                                *)
LEMMA RunOldWordControl ==
  ASSUME TraceTypes, DispatcherTypeOK, LayoutInv, TraceControlInv, RunOldWord
  PROVE  TraceControlInv'
<1>1. /\ status = "running" /\ phase = "run" /\ ip \in DOMAIN memory /\ CacheFixed
      /\ sp' = sp
  BY DEF RunOldWord, RunRestoreScratch, RunLi, RunGuestWord, RunEcall, RunJumpInCache, At,
         cacheVars, CacheFixed, traceVars
<1>2. InCache /\ sp \in {0, -16}
  BY <1>1, RunningInCache
<1> SUFFICES InCache'
  BY <1>1, <1>2, ToControl
<1>3. CASE RunRestoreScratch
  <2>1. word.k = "restore" /\ ip' = ip + 1 /\ t6Saved' = FALSE
    BY <1>3, LengthTypes DEF RunRestoreScratch, At
  <2>2. word.k \in StraightKind /\ StraightLength(word.k) = 1
    BY <2>1 DEF StraightKind, StraightLength
  <2>3. sp = 0
    BY <1>1, <1>2, <2>2, WhereWord DEF AtSequence
  <2> QED BY <1>1, <2>1, <2>2, <2>3, NextSequence
<1>4. CASE RunGuestWord
  <2>1. /\ word.k \in {"guest", "mem", "setpc"} /\ t6Saved' = t6Saved
        /\ ip' = ip + Len(InLine(text[word.a], word.a))
    BY <1>4 DEF RunGuestWord, At
  <2>2. word \in TraceCodeWord /\ word.k \in StraightKind
    BY <1>1, <1>2, <2>1, WhereWord DEF StraightKind
  <2>3. Len(InLine(text[word.a], word.a)) = StraightLength(word.k)
    BY <2>1, <2>2 DEF TraceCodeWord
  <2>4. AtSequence
    BY <1>1, <1>2, <2>2, WhereWord
  <2>5. sp = 0 /\ (NoForwardedEcalls => ~t6Saved)
    BY <2>1, <2>4 DEF AtSequence, word
  <2> QED BY <1>1, <2>1, <2>2, <2>3, <2>5, NextSequence
<1>5. CASE RunEcall
  <2>1. word.k = "ecall" /\ ip' = ip + 1 /\ t6Saved' = t6Saved
    BY <1>5 DEF RunEcall, At
  <2>2. word.k \in StraightKind /\ StraightLength(word.k) = 1
    BY <2>1 DEF StraightKind, StraightLength
  <2>3. AtSequence
    BY <1>1, <1>2, <2>2, WhereWord
  <2>4. sp = 0 /\ (NoForwardedEcalls => ~t6Saved)
    BY <2>1, <2>3 DEF AtSequence, word
  <2> QED BY <1>1, <2>1, <2>2, <2>4, NextSequence
<1>6. CASE RunLi
  <2>1. word.k = "li" /\ ip' = ip + 3 /\ regs' = [regs EXCEPT !.t6 = word.v]
    <3>1. word.k # "liT5"
      BY <1>1, <1>2, WhereWord DEF StraightKind, ExitKind
    <3> QED BY <1>6, <3>1, LengthTypes DEF RunLi, At
  <2>2. regs'.t6 = word.v
    BY <2>1 DEF DispatcherTypeOK, Reg
  <2>3. (AtRoot /\ ip = 1) \/ \E n : InSwitch(n) /\ ip = n + 2
    BY <1>1, <1>2, <2>1, WhereWord
  <2>4. CASE AtRoot /\ ip = 1
    <3>1. word.v = InitSwitch
      <4>1. memory[1] = W("li", 0, InitSwitch)
        BY <2>4, RootWords DEF AtRoot
      <4> QED BY ONLY <2>4, <4>1 DEF word, W
    <3>2. AtRoot'
      BY <1>1, <2>1, <2>2, <2>4, <3>1 DEF AtRoot, CacheFixed
    <3> QED BY <3>2 DEF InCache
  <2>5. CASE \E n : InSwitch(n) /\ ip = n + 2
    <3>1. PICK n : InSwitch(n) /\ ip = n + 2
      BY <2>5
    <3>2. n \in DOMAIN memory /\ n \in Int /\ SwitchAt(memory, n)
      <4>1. LayoutOf(memory, exits, RailBasicBlocks, trace)
        BY DEF LayoutInv
      <4>2. /\ n \in DOMAIN memory /\ memory[n + 2].k = "li" /\ ExitAt(memory, n)
            /\ DOMAIN memory = 1..Len(memory) /\ Len(memory) \in Nat
        BY <3>1, <4>1, LayoutParts, WordOfLaid DEF InSwitch, Laid, ExitsLaid
      <4> QED BY <4>2, ExitShape
    <3>3. word.v = ContextSwitchTaken
      BY <3>1, <3>2, TraceWordFields DEF SwitchAt, word
    <3>4. ip' = n + 5
      BY <2>1, <3>1, <3>2
    <3>5. InExit(n)'
      BY <1>1, <2>2, <3>1, <3>3, <3>4 DEF InExit, InSwitch, Lowered, CacheFixed
    <3> QED BY <1>1, <3>2, <3>5 DEF InCache, CacheFixed
  <2> QED BY <2>3, <2>4, <2>5
<1>7. CASE RunJumpInCache
  <2>1. AtTail /\ ip' = ip /\ regs' = regs
    BY <1>2, <1>7, JumpInCacheStays
  <2>2. AtTail'
    BY <1>1, <2>1 DEF AtTail, CacheFixed, EndsAt, NoForwardedEcalls, CacheAddr
  <2> QED BY <2>2 DEF InCache
<1> QED BY <1>3, <1>4, <1>5, <1>6, <1>7 DEF RunOldWord

(* into an exit,                                                           *)
LEMMA RunSaveControl ==
  ASSUME TraceTypes, DispatcherTypeOK, LayoutInv, TraceControlInv, RunSave
  PROVE  TraceControlInv'
<1>1. /\ status = "running" /\ phase = "run" /\ ip \in DOMAIN memory /\ CacheFixed
      /\ sp' = sp - 16 /\ word.k = "save" /\ ip' = ip + 2 /\ regs' = regs /\ slot' = regs.t6
  BY LengthTypes DEF RunSave, RunInlineSave, At, cacheVars, CacheFixed, traceVars
<1>2. InCache /\ sp \in {0, -16}
  BY <1>1, RunningInCache
<1>3. AtSequence
  BY <1>1, <1>2, WhereWord
<1>4. sp' = -16
  BY <1>1, <1>3 DEF AtSequence
<1>5. LayoutOf(memory, exits, RailBasicBlocks, trace)
  BY DEF LayoutInv
<1>6. /\ memory[ip].k = "save" /\ ExitAt(memory, ip) /\ ip \in Int
      /\ DOMAIN memory = 1..Len(memory) /\ Len(memory) \in Nat
  BY <1>1, <1>5, LayoutParts, WordOfLaid DEF Laid, ExitsLaid, word
<1>7. memory[ip + 2].k \in {"traceBranch", "lui", "li"}
  BY <1>1, <1>6, ExitShape
<1>8. CASE memory[ip + 2].k = "lui"
  <2> DEFINE a == memory[ip + 2].v
  <2>1. SideOf(ip, ip + 2, a, HostOf(a))
    BY <1>1, <1>6, <1>8 DEF SideOf
  <2>2. PICK n, s, b, h : /\ n = ip /\ s = ip + 2 /\ b = a /\ h = HostOf(a)
                          /\ SideOf(n, s, b, h)
    BY <2>1
  <2>3. OnSide(s, b, h)'
    BY <1>1, <1>4, <2>2 DEF OnSide, Lowered
  <2>4. InCache'
    BY <1>1, <2>2, <2>3, ToSide
  <2> QED BY <1>1, <1>4, <2>4, ToControl
<1>9. CASE memory[ip + 2].k \in {"traceBranch", "li"}
  <2>1. PICK n : n = ip
    OBVIOUS
  <2>2. InExit(n)'
    BY <1>1, <1>4, <1>6, <1>9, <2>1 DEF InExit, Lowered, CacheFixed
  <2>3. InCache'
    BY <1>1, <2>1, <2>2 DEF InCache, CacheFixed
  <2> QED BY <1>1, <1>4, <2>3, ToControl
<1> QED BY <1>7, <1>8, <1>9

(* to one of its sides,                                                    *)
LEMMA RunTraceBranchControl ==
  ASSUME TraceTypes, DispatcherTypeOK, LayoutInv, TraceControlInv, RunTraceBranch
  PROVE  TraceControlInv'
<1>1. /\ status = "running" /\ phase = "run" /\ ip \in DOMAIN memory /\ CacheFixed
      /\ sp' = sp /\ word.k = "traceBranch" /\ ip' \in {ip + 1, ip + 9} /\ regs' = regs
      /\ slot' = slot
  BY DEF RunTraceBranch, At, cacheVars, CacheFixed, traceVars, TraceBranchSkip
<1>2. InCache /\ sp \in {0, -16}
  BY <1>1, RunningInCache
<1>3. PICK n : AtDecision(n)
  BY <1>1, <1>2, WhereWord
<1>4. n \in Int /\ ip = n + 2
  BY <1>3 DEF AtDecision, TraceTypes
<1>5. PICK s, h : /\ s = ip'
                  /\ \/ s = n + 3 /\ h = ContextSwitchTraceExit
                     \/ s = n + 11 /\ h = ContextSwitchTraceExitTaken
  BY <1>1, <1>4
<1>6. PICK a : a = memory[n + 2].a
  OBVIOUS
<1>7. SideOf(n, s, a, h)
  BY <1>3, <1>5, <1>6 DEF AtDecision, SideOf
<1>8. OnSide(s, a, h)'
  BY <1>1, <1>3, <1>5 DEF AtDecision, OnSide, Lowered
<1>9. InCache'
  BY <1>1, <1>7, <1>8, ToSide
<1> QED BY <1>1, <1>2, <1>9, ToControl

(* along it,                                                               *)
LEMMA RunTraceLiControl ==
  ASSUME TraceTypes, DispatcherTypeOK, LayoutInv, TraceControlInv, RunTraceLi
  PROVE  TraceControlInv'
<1>1. /\ status = "running" /\ phase = "run" /\ ip \in DOMAIN memory /\ CacheFixed
      /\ sp' = sp /\ word.k \in {"lui", "addi", "addiEnd"} /\ ip' = ip + 1
      /\ lastInst' = lastInst /\ t6Saved' = t6Saved
      /\ regs' = [regs EXCEPT !.t6 = IF word.k = "addiEnd" THEN word.v ELSE Unfinished]
  BY DEF RunTraceLi, At, cacheVars, CacheFixed, traceVars, history
<1>2. InCache /\ sp \in {0, -16}
  BY <1>1, RunningInCache
<1>3. regs'.t6 = IF word.k = "addiEnd" THEN word.v ELSE Unfinished
  BY <1>1 DEF DispatcherTypeOK, Reg
<1>4. PICK n, s, a, h : SideOf(n, s, a, h) /\ OnSide(s, a, h)
  BY <1>1, <1>2, WhereWord DEF SideKind
<1>5. s \in Int /\ ReportAt(memory, s, a, h)
  BY <1>4, SideWords
<1>6. /\ memory[s].k \in {"lui", "popSp"} /\ memory[s + 1].k \in {"addi", "jal"}
      /\ memory[s + 3].k = "sdPc"
      /\ memory[s + 6].k \in {"addiEnd", "popSp"}
      /\ memory[s + 7].k \in {"jalrT6", "jal"}
  BY <1>5, ReportWordKinds
<1>7. /\ memory[s + 1].k = "addi" => memory[s].k # "popSp"
      /\ memory[s + 2].v = a
      /\ memory[s + 6].k = "addiEnd" => memory[s + 6].v = h
  BY <1>5, <1>6, TraceWordFields DEF ReportAt, LinkAt
<1>8. memory' = memory
  BY <1>1 DEF CacheFixed
<1>9. OnSide(s, a, h)'
  <2>1. CASE ip = s
    <3>1. Lowered
      BY <1>5, <2>1, <1>4 DEF OnSide
    <3>2. memory[s].k # "popSp"
      BY <1>1, <2>1 DEF word
    <3> QED BY <1>1, <1>8, <2>1, <3>1, <3>2 DEF OnSide, Lowered
  <2>2. CASE ip = s + 1
    <3>1. memory[s].k # "popSp"
      BY <1>1, <1>6, <1>7, <2>2 DEF word
    <3>2. Lowered
      BY <1>5, <2>2, <1>4, <3>1 DEF OnSide
    <3>3. ip' = s + 2
      BY <1>1, <1>5, <2>2
    <3> QED BY <1>1, <3>2, <3>3 DEF OnSide, Lowered
  <2>3. CASE ip = s + 2
    <3>1. Lowered
      BY <1>5, <2>3, <1>4 DEF OnSide
    <3>2. word.k = "addiEnd" /\ word.v = a
      <4>1. memory[s + 2].k = "addiEnd"
        BY <1>5, ReportWordKinds
      <4> QED BY <1>7, <2>3, <4>1 DEF word
    <3>3. ip' = s + 3 /\ regs'.t6 = a
      BY <1>1, <1>3, <1>5, <2>3, <3>2
    <3> QED BY <1>1, <3>1, <3>3 DEF OnSide, Lowered
  <2>4. CASE ip = s + 4 \/ ip = s + 5
    <3>1. Lowered /\ lastInst = a
      BY <1>5, <2>4, <1>4 DEF OnSide
    <3>2. ip' \in (s + 4)..(s + 6)
      BY <1>1, <1>5, <2>4
    <3> QED BY <1>1, <3>1, <3>2 DEF OnSide, Lowered
  <2>5. CASE ip = s + 6
    <3>1. Lowered /\ lastInst = a
      BY <1>5, <2>5, <1>4 DEF OnSide
    <3>2. word.k = "addiEnd" /\ memory[s + 6].k = "addiEnd" /\ word.v = h
      BY <1>1, <1>6, <1>7, <2>5 DEF word
    <3>3. ip' = s + 7 /\ regs'.t6 = h
      BY <1>1, <1>3, <1>5, <2>5, <3>2
    <3> QED BY <1>1, <1>8, <3>1, <3>2, <3>3 DEF OnSide, Lowered
  <2>6. CASE ip = s + 3 \/ ip = s + 7
    BY <1>1, <1>6, <2>6 DEF word
  <2>7. \/ ip = s \/ ip = s + 1 \/ ip = s + 2 \/ ip = s + 3 \/ ip = s + 4 \/ ip = s + 5
        \/ ip = s + 6 \/ ip = s + 7
    <3>1. ip \in s..(s + 7)
      BY <1>4, SideWord
    <3> QED BY <1>5, <3>1
  <2> QED BY <2>1, <2>2, <2>3, <2>4, <2>5, <2>6, <2>7
<1>10. InCache'
  BY <1>1, <1>4, <1>9, ToSide
<1> QED BY <1>1, <1>2, <1>10, ToControl


(* The instruction's address is stored,                                    *)
LEMMA RunSdPcControl ==
  ASSUME TraceTypes, DispatcherTypeOK, LayoutInv, TraceControlInv, RunSdPc
  PROVE  TraceControlInv'
<1>1. /\ status = "running" /\ phase = "run" /\ ip \in DOMAIN memory /\ CacheFixed
      /\ sp' = sp /\ word.k = "sdPc" /\ ip' = ip + 1 /\ lastInst' = regs.t6
  BY DEF RunSdPc, At, cacheVars, CacheFixed
<1>2. InCache /\ sp \in {0, -16}
  BY <1>1, RunningInCache
<1>3. PICK n, s, a, h : SideOf(n, s, a, h) /\ OnSide(s, a, h)
  BY <1>1, <1>2, WhereWord DEF SideKind
<1>4. s \in Int /\ ReportAt(memory, s, a, h)
  BY <1>3, SideWords
<1>5. /\ memory[s].k # "sdPc" /\ memory[s + 1].k # "sdPc" /\ memory[s + 2].k # "sdPc"
      /\ memory[s + 4].k # "sdPc" /\ memory[s + 5].k # "sdPc" /\ memory[s + 6].k # "sdPc"
      /\ memory[s + 7].k # "sdPc"
  BY <1>4, ReportWordKinds
<1>6. ip \in s..(s + 7) /\ memory[ip].k = "sdPc"
  BY <1>1, <1>3, SideWord DEF word
<1>7. ip = s + 3
  BY <1>4, <1>5, <1>6
<1>8. Lowered /\ regs.t6 = a
  BY <1>3, <1>4, <1>7 DEF OnSide
<1>9. ip' = s + 4 /\ ip' \in (s + 4)..(s + 6)
  BY <1>1, <1>4, <1>7
<1>10. OnSide(s, a, h)'
  BY <1>1, <1>8, <1>9 DEF OnSide, Lowered
<1>11. InCache'
  BY <1>1, <1>3, <1>10, ToSide
<1> QED BY <1>1, <1>2, <1>11, ToControl

(* through a link: its first word                                          *)
LEMMA RunPopSpControl ==
  ASSUME TraceTypes, DispatcherTypeOK, LayoutInv, TraceControlInv, RunPopSp
  PROVE  TraceControlInv'
<1>1. /\ status = "running" /\ phase = "run" /\ ip \in DOMAIN memory /\ CacheFixed
      /\ sp' = sp + 16 /\ word.k = "popSp" /\ ip' = ip + 1 /\ lastInst' = lastInst
      /\ regs' = regs /\ slot' = slot /\ t6Saved' = FALSE
  BY DEF RunPopSp, At, cacheVars, CacheFixed, traceVars
<1>2. InCache
  BY <1>1, RunningInCache
<1>3. PICK n, s, a, h : SideOf(n, s, a, h) /\ OnSide(s, a, h)
  BY <1>1, <1>2, WhereWord DEF SideKind
<1>4. s \in Int /\ ReportAt(memory, s, a, h)
  BY <1>3, SideWords
<1>5. /\ memory[s + 1].k # "popSp" /\ memory[s + 2].k # "popSp" /\ memory[s + 3].k # "popSp"
      /\ memory[s + 4].k # "popSp" /\ memory[s + 5].k # "popSp" /\ memory[s + 7].k # "popSp"
  BY <1>4, ReportWordKinds
<1>6. ip \in s..(s + 7) /\ memory[ip].k = "popSp"
  BY <1>1, <1>3, SideWord DEF word
<1>7. ip = s \/ ip = s + 6
  BY <1>4, <1>5, <1>6
<1>8. memory' = memory
  BY <1>1 DEF CacheFixed
<1>9. CASE ip = s
  <2>1. Lowered /\ regs.t6 = slot
    BY <1>3, <1>4, <1>9 DEF OnSide
  <2>2. ip' = s + 1 /\ sp' = 0 /\ memory[s].k = "popSp"
    BY <1>1, <1>6, <1>9, <2>1 DEF Lowered
  <2> QED
    <3>1. OnSide(s, a, h)'
      BY <1>1, <1>8, <2>1, <2>2 DEF OnSide
    <3>2. InCache'
      BY <1>1, <1>3, <3>1, ToSide
    <3> QED BY <1>1, <2>2, <3>2, ToControl
<1>10. CASE ip = s + 6
  <2>1. Lowered /\ lastInst = a
    BY <1>3, <1>4, <1>10 DEF OnSide
  <2>2. ip' = s + 7 /\ sp' = 0 /\ memory[s + 6].k = "popSp"
    BY <1>1, <1>4, <1>6, <1>10, <2>1 DEF Lowered
  <2> QED
    <3>1. OnSide(s, a, h)'
      BY <1>1, <1>8, <2>1, <2>2 DEF OnSide
    <3>2. InCache'
      BY <1>1, <1>3, <3>1, ToSide
    <3> QED BY <1>1, <2>2, <3>2, ToControl
<1> QED BY <1>7, <1>9, <1>10

(* and its second, behind the first word of a trace;                       *)
LEMMA RunLinkControl ==
  ASSUME TraceTypes, DispatcherTypeOK, LayoutInv, TraceControlInv, RunLink
  PROVE  TraceControlInv'
<1>1. /\ status = "running" /\ phase = "run" /\ ip \in DOMAIN memory /\ CacheFixed
      /\ sp' = sp /\ word.k = "jal" /\ ip' = word.v /\ t6Saved' = t6Saved
  BY DEF RunLink, At, cacheVars, CacheFixed, traceVars
<1>2. InCache
  BY <1>1, RunningInCache
<1>3. LayoutOf(memory, exits, RailBasicBlocks, trace)
  BY DEF LayoutInv
<1>4. Laid(memory) /\ LinksLaid(memory, RailBasicBlocks) /\ TracesLaid(memory, RailBasicBlocks)
  BY <1>3, LayoutParts
<1>5. LinkLaid(memory, ip, RailBasicBlocks)
  BY <1>1, <1>4 DEF LinksLaid, word
<1>6. PICK goal : goal = LinkGoal(memory, ip)
  OBVIOUS
<1>7. /\ goal \in DOMAIN RailBasicBlocks /\ memory[ip - 1].k = "popSp"
      /\ ip' = RailBasicBlocks[goal].startLocationInCache + 1
  BY <1>1, <1>5, <1>6 DEF LinkLaid, word
<1>8. PICK start : start = RailBasicBlocks[goal].startLocationInCache
  OBVIOUS
<1>9. start \in DOMAIN memory /\ memory[start].k = "restore"
  BY <1>4, <1>7, <1>8 DEF TracesLaid, TraceLaid, StartsAt
<1>10. Begins(memory, start + 1)
  <2>1. memory[start].k \in StraightKind /\ StraightLength(memory[start].k) = 1
    BY <1>9 DEF StraightKind, StraightLength
  <2> QED BY <1>4, <1>9, <2>1 DEF Laid, StraightLaid
<1>11. sp = 0 /\ ~(NoForwardedEcalls /\ t6Saved)
  <2>1. CASE AtTail
    BY <2>1 DEF AtTail
  <2>2. CASE \E n, s, a, h : SideOf(n, s, a, h) /\ OnSide(s, a, h)
    <3>1. PICK n, s, a, h : SideOf(n, s, a, h) /\ OnSide(s, a, h)
      BY <2>2
    <3>2. s \in Int /\ (ip = s + 1 \/ ip = s + 7)
      BY <1>1, <3>1, SideWords, SideWord
    <3>3. CASE ip = s + 1
      <4>1. memory[s].k = "popSp"
        BY <1>7, <3>2, <3>3
      <4> QED BY <3>1, <3>2, <3>3, <4>1 DEF OnSide
    <3>4. CASE ip = s + 7
      <4>1. memory[s + 6].k = "popSp"
        BY <1>7, <3>2, <3>4
      <4> QED BY <3>1, <3>2, <3>4, <4>1 DEF OnSide
    <3> QED BY <3>2, <3>3, <3>4
  <2> QED BY <1>1, <1>2, <2>1, <2>2, WhereWord
<1>12. Begins(memory, ip')
  BY <1>7, <1>8, <1>10
<1>13. InCache'
  BY <1>1, <1>11, <1>12, ToSequence
<1> QED BY <1>1, <1>11, <1>13, ToControl

(* past a jump that was followed.                                          *)
LEMMA RunLiRdControl ==
  ASSUME TraceTypes, DispatcherTypeOK, LayoutInv, TraceControlInv, RunLiRd
  PROVE  TraceControlInv'
<1>1. /\ status = "running" /\ phase = "run" /\ ip \in DOMAIN memory /\ CacheFixed
      /\ sp' = sp /\ word.k = "liRd" /\ ip' = ip + 3 /\ t6Saved' = t6Saved
  BY DEF RunLiRd, At, cacheVars, CacheFixed, traceVars
<1>2. InCache
  BY <1>1, RunningInCache
<1>3. word.k \in StraightKind /\ StraightLength(word.k) = 3
  BY <1>1 DEF StraightKind, StraightLength
<1>4. AtSequence
  BY <1>1, <1>2, <1>3, WhereWord
<1>5. sp = 0 /\ (NoForwardedEcalls => ~t6Saved)
  BY <1>1, <1>4 DEF AtSequence, word
<1>6. InCache'
  BY <1>1, <1>3, <1>5, NextSequence
<1> QED BY <1>1, <1>5, <1>6, ToControl

(* A followed jump retires without leaving its place,                      *)
LEMMA RunFollowedControl ==
  ASSUME TraceControlInv, RunFollowed
  PROVE  TraceControlInv'
<1>1. /\ status = "running" /\ phase = "run" /\ CacheFixed
      /\ UNCHANGED <<memory, text, RailBasicBlocks, ip, regs, slot, sp, t6Saved, lastInst>>
  BY DEF RunFollowed, cacheVars, CacheFixed, traceVars
<1>2. InCache /\ sp \in {0, -16}
  BY <1>1, RunningInCache
<1>3. InCache'
  BY <1>1, <1>2 DEF InCache, AtRoot, AtSequence, Begins, NoForwardedEcalls, AtTail, EndsAt,
                    InExit, OnSide, Lowered, HostOf, CacheAddr
<1> QED BY <1>1, <1>2, <1>3, ToControl

(* The processor leaves the cache from allocateRoot or from the exit of a  *)
(* segment                                                                 *)
LEMMA OldSwitchFrom ==
  ASSUME TraceTypes, LayoutInv, InCache, RunOldSwitch
  PROVE  \/ AtRoot /\ regs.t6 = InitSwitch /\ phase' = "init"
         \/ /\ \E n : InSwitch(n) /\ ip = n + 5
            /\ regs.t6 = ContextSwitchTaken /\ sp = -16 /\ phase' = "stub"
<1>1. /\ ip \in DOMAIN memory /\ word.k = "jalrT6"
      /\ regs.t6 \in -4..-1 /\ phase' = HostPhase(regs.t6)
  BY DEF RunOldSwitch, RunSwitch, At, HostEntry, InitSwitch, ContextSwitch
<1>2. ~AtTail
  <2>1. memory \in Seq(TraceCodeWord) /\ CacheBase \in Nat
    BY CacheAssumption DEF TraceTypes
  <2> QED BY <1>1, <2>1 DEF AtTail, CacheAddr
<1>3. ~\E n, s, a, h : SideOf(n, s, a, h) /\ OnSide(s, a, h) /\ ip = s + 7
  <2> SUFFICES ASSUME NEW n, NEW s, NEW a, NEW h, SideOf(n, s, a, h), OnSide(s, a, h),
                      ip = s + 7
               PROVE  FALSE
    OBVIOUS
  <2>1. s \in Int /\ ReportAt(memory, s, a, h) /\ h \in TraceEntry
    BY SideWords
  <2>2. memory[s + 6].k # "popSp"
    BY <1>1, <2>1, TraceWordFields DEF word, ReportAt, LinkAt
  <2>3. regs.t6 = h
    BY <2>1, <2>2 DEF OnSide
  <2> QED BY <1>1, <2>1, <2>3 DEF TraceEntry, ContextSwitchTraceExit,
                                  ContextSwitchTraceExitTaken
<1>4. CASE AtRoot /\ ip = 4
  <2>1. regs.t6 = InitSwitch
    BY <1>4 DEF AtRoot
  <2> QED BY <1>1, <1>4, <2>1 DEF HostPhase, InitSwitch, ContextSwitchInstrument
<1>5. CASE \E n : InSwitch(n) /\ ip = n + 5
  <2>1. regs.t6 = ContextSwitchTaken /\ sp = -16
    <3>1. PICK n : InSwitch(n) /\ ip = n + 5
      BY <1>5
    <3>2. n \in Int
      BY <3>1 DEF InSwitch, TraceTypes
    <3> QED BY <3>1, <3>2 DEF InSwitch, Lowered
  <2>2. phase' = "stub"
    BY <1>1, <2>1 DEF HostPhase, ContextSwitchTaken, InitSwitch, ContextSwitchInstrument
  <2> QED BY <1>5, <2>1, <2>2
<1> QED BY <1>1, <1>2, <1>3, <1>4, <1>5, WhereWord

LEMMA RunOldSwitchControl ==
  ASSUME TraceTypes, DispatcherTypeOK, LayoutInv, TraceControlInv, RunOldSwitch
  PROVE  TraceControlInv'
<1>1. /\ status = "running" /\ phase = "run" /\ status' = status
      /\ sp' = (IF regs.t6 = InitSwitch THEN sp ELSE sp + 16) /\ lastInstAddress' = 0
      /\ UNCHANGED <<RailBasicBlocks, trace>>
  BY DEF RunOldSwitch, RunSwitch, At, cacheVars
<1>2. InCache /\ ~trace.busy
  BY <1>1, RunningInCache
<1>3. CASE AtRoot /\ regs.t6 = InitSwitch /\ phase' = "init"
  <2>1. sp = 0 /\ DOMAIN RailBasicBlocks = {}
    BY <1>3 DEF AtRoot
  <2>2. sp' = 0
    BY <1>1, <1>3, <2>1
  <2> QED BY <1>1, <1>2, <1>3, <2>1, <2>2 DEF TraceControlInv, InHost
<1>4. CASE regs.t6 = ContextSwitchTaken /\ sp = -16 /\ phase' = "stub"
  <2>1. sp' = 0
    BY <1>1, <1>4 DEF ContextSwitchTaken, InitSwitch
  <2>2. ReportOK'
    BY <1>1 DEF ReportOK
  <2> QED BY <1>1, <1>2, <1>4, <2>1, <2>2 DEF TraceControlInv, InHost
<1> QED BY <1>2, <1>3, <1>4, OldSwitchFrom

(* and from the exit of a trace, which reports itself.                     *)
LEMMA RunTraceSwitchControl ==
  ASSUME TraceTypes, DispatcherTypeOK, LayoutInv, TraceControlInv, RunTraceSwitch
  PROVE  TraceControlInv'
<1>1. /\ status = "running" /\ phase = "run" /\ ip \in DOMAIN memory /\ word.k = "jalrT6"
      /\ regs.t6 \in {-5, -6} /\ phase' = "stub" /\ sp' = sp + 16
      /\ lastInstAddress' = lastInst /\ taken' = (regs.t6 = ContextSwitchTraceExitTaken)
      /\ UNCHANGED <<text, RailBasicBlocks, trace, exits>>
  BY DEF RunTraceSwitch, At, cacheVars, TraceEntry, ContextSwitchTraceExit,
         ContextSwitchTraceExitTaken
<1>2. InCache /\ ~trace.busy
  BY <1>1, RunningInCache
<1>3. ~AtTail
  <2>1. memory \in Seq(TraceCodeWord) /\ CacheBase \in Nat
    BY CacheAssumption DEF TraceTypes
  <2> QED BY <1>1, <2>1 DEF AtTail, CacheAddr
<1>4. ~(AtRoot /\ ip = 4)
  BY <1>1 DEF AtRoot, InitSwitch
<1>5. ~\E n : InSwitch(n) /\ ip = n + 5
  <2> SUFFICES ASSUME NEW n, InSwitch(n), ip = n + 5 PROVE FALSE
    OBVIOUS
  <2>1. n \in Int
    BY DEF InSwitch, TraceTypes
  <2> QED BY <1>1, <2>1 DEF InSwitch, ContextSwitchTaken
<1>6. PICK n, s, a, h : SideOf(n, s, a, h) /\ OnSide(s, a, h) /\ ip = s + 7
  BY <1>1, <1>2, <1>3, <1>4, <1>5, WhereWord
<1>7. /\ s \in Int /\ ReportAt(memory, s, a, h) /\ a \in DOMAIN exits
      /\ text[a].op = "JAL" => h = ContextSwitchTraceExitTaken
  BY <1>6, SideWords
<1>8. memory[s + 6].k # "popSp"
  BY <1>1, <1>6, <1>7, TraceWordFields DEF word, ReportAt, LinkAt
<1>9. lastInst = a /\ sp = -16 /\ regs.t6 = h
  BY <1>6, <1>7, <1>8 DEF OnSide, Lowered
<1>10. ReportOK'
  BY <1>1, <1>7, <1>9 DEF ReportOK
<1>11. sp' = 0
  BY <1>1, <1>9
<1> QED BY <1>1, <1>2, <1>10, <1>11 DEF TraceControlInv, InHost

(* and a crash ends it all.                                                *)
LEMMA RunOldCrashControl ==
  ASSUME TraceControlInv, RunOldCrash
  PROVE  TraceControlInv'
  BY DEF TraceControlInv, RunOldCrash, RunCrash


-----------------------------------------------------------------------------
(* A step of allocateTrace.                                                *)

TraceEnded ==
  /\ ~trace'.busy
  /\ DOMAIN RailBasicBlocks' = DOMAIN RailBasicBlocks \cup {trace.railBB.firstAddr}
  /\ followed' = followed

JumpsFollowed(f) == f \in [DOMAIN f -> Seq({a \in DOMAIN text : text[a].op = "JAL"})]

(* The end of a trace files it and leaves the rest.                        *)
LEMMA TraceEndEffect ==
  ASSUME TraceTypes, NEW type, NEW w, TraceEnd(type, w)
  PROVE  TraceEnded
<1> DEFINE bb == [trace.railBB EXCEPT !.type = type,
                                     !.lastAddr = program_counter,
                                     !.terminalInst = Fetch(program_counter),
                                     !.endLocationInCache = EndOf(memory \o w)]
<1>1. trace.railBB \in Block
  BY DEF TraceTypes
<1>2. bb.firstAddr = trace.railBB.firstAddr
  BY <1>1 DEF Block
<1>3. RailBasicBlocks' = InsertedBB(RailBasicBlocks, bb) /\ trace' = IdleTrace
      /\ followed' = followed
  BY DEF TraceEnd
<1>4. DOMAIN InsertedBB(RailBasicBlocks, bb) = DOMAIN RailBasicBlocks \cup {bb.firstAddr}
  BY DEF InsertedBB
<1>5. ~IdleTrace.busy
  BY DEF IdleTrace
<1> HIDE DEF bb
<1> QED BY <1>2, <1>3, <1>4, <1>5 DEF TraceEnded

(* What is recorded as followed are direct jumps.                          *)
LEMMA FollowedWithType ==
  ASSUME JumpsFollowed(followed), NEW n, NEW a, a \in DOMAIN text, text[a].op = "JAL"
  PROVE  JumpsFollowed(FollowedWith(n, a))
<1> DEFINE S == {x \in DOMAIN text : text[x].op = "JAL"}
           f == FollowedWith(n, a)
<1>1. a \in S
  OBVIOUS
<1>2. followed \in [DOMAIN followed -> Seq(S)]
  BY DEF JumpsFollowed
<1>3. f = [x \in DOMAIN followed \cup {n} |->
             IF x # n THEN followed[x]
             ELSE IF n \in DOMAIN followed THEN Append(followed[n], a) ELSE <<a>>]
  BY DEF FollowedWith
<1>4. DOMAIN f = DOMAIN followed \cup {n}
  BY <1>3
<1> HIDE DEF S, f
<1>5. <<a>> \in Seq(S) /\ (n \in DOMAIN followed => Append(followed[n], a) \in Seq(S))
  BY <1>1, <1>2
<1>6. f \in [DOMAIN f -> Seq(S)]
  BY <1>2, <1>3, <1>4, <1>5
<1> QED BY <1>6 DEF JumpsFollowed, S, f

(* It leaves the trace unfinished or in RailBasicBlocks, and every exit    *)
(* known before is still known.                                            *)
LEMMA TraceStepEffect ==
  ASSUME TraceTypes, JumpsFollowed(followed), TraceStep
  PROVE  /\ trace.busy /\ DOMAIN exits \subseteq DOMAIN exits'
         /\ JumpsFollowed(followed')
         /\ \/ /\ trace'.busy /\ RailBasicBlocks' = RailBasicBlocks
               /\ trace'.railBB.firstAddr = trace.railBB.firstAddr
            \/ TraceEnded
<1>1. ASSUME NEW i, NEW type, NEW w, TraceExits(i, type, w)
      PROVE  DOMAIN exits \subseteq DOMAIN exits' /\ TraceEnded
  <2>1. TraceEnded
    BY <1>1, TraceEndEffect DEF TraceExits
  <2> QED BY <1>1, <2>1 DEF TraceExits, ExitsWith
<1>2. CASE TraceBranch \/ TraceLastJump \/ TraceJalr \/ TraceSystem
  <2>1. trace.busy
    BY <1>2 DEF TraceBranch, TraceLastJump, TraceJalr, TraceSystem, TraceAt
  <2>2. DOMAIN exits \subseteq DOMAIN exits' /\ TraceEnded
    BY <1>1, <1>2 DEF TraceBranch, TraceLastJump, TraceJalr, TraceSystem
  <2> QED BY <2>1, <2>2 DEF TraceEnded
<1>3. CASE TraceInstruction
  <2>1. trace.busy /\ exits' = exits
    BY <1>3 DEF TraceInstruction, TraceAt
  <2>2. CASE TraceSegmentsAfter(Fetch(program_counter))
    <3>1. TraceEnded
      BY <1>3, <2>2, TraceEndEffect DEF TraceInstruction
    <3> QED BY <2>1, <3>1 DEF TraceEnded
  <2>3. CASE ~TraceSegmentsAfter(Fetch(program_counter))
    <3>1. trace' = trace /\ followed' = followed /\ RailBasicBlocks' = RailBasicBlocks
      BY <1>3, <2>3 DEF TraceInstruction, TraceGoesOn
    <3> QED BY <2>1, <3>1
  <2> QED BY <2>2, <2>3
<1>4. CASE TraceTextEnd
  <2>1. trace.busy /\ exits' = exits
    BY <1>4 DEF TraceTextEnd, TraceAt
  <2>2. TraceEnded
    BY <1>4, TraceEndEffect DEF TraceTextEnd
  <2> QED BY <2>1, <2>2 DEF TraceEnded
<1>5. CASE TraceJump
  <2>1. /\ trace.busy /\ exits' = exits /\ RailBasicBlocks' = RailBasicBlocks
        /\ trace' = [trace EXCEPT !.count = @ - 1, !.railBB.type = "DIRECT_BRANCH"]
        /\ Fetch(program_counter).op = "JAL"
        /\ \/ followed' = followed
           \/ followed' = FollowedWith(EndOf(memory), program_counter)
    BY <1>5 DEF TraceJump, TraceAt, TraceGoesOn
  <2>2. trace \in [busy : BOOLEAN, railBB : Block, count : Nat]
    BY DEF TraceTypes
  <2>3. trace'.busy /\ trace'.railBB.firstAddr = trace.railBB.firstAddr
    BY <2>1, <2>2 DEF Block
  <2>4. InText(program_counter) /\ Fetch(program_counter) = text[program_counter]
    BY <2>1, CursorInText DEF TraceTypes
  <2>5. program_counter \in DOMAIN text
    BY <2>4, InTextType DEF TraceTypes
  <2>6. JumpsFollowed(FollowedWith(EndOf(memory), program_counter))
    BY <2>1, <2>4, <2>5, FollowedWithType
  <2> QED BY <2>1, <2>3, <2>6
<1> QED BY <1>2, <1>3, <1>4, <1>5 DEF TraceStep

(* What stub has been told, and where it goes, stands while it allocates.  *)
LEMMA AllocateKeepsReport ==
  ASSUME ReportOK, DOMAIN exits \subseteq DOMAIN exits',
         UNCHANGED <<text, lastInstAddress, taken, regs, slot, frame>>,
         Reported /\ ExitType = "DIRECT_BRANCH" =>
           frame.nextBlockAddr = NextBlockAddr(LastInst, LastAddr)
  PROVE  /\ ReportOK'
         /\ Reported' /\ ExitType' = "DIRECT_BRANCH" =>
              frame'.nextBlockAddr = NextBlockAddr(LastInst, LastAddr)'
<1>1. ReportOK'
  BY DEF ReportOK
<1>2. ASSUME Reported', ExitType' = "DIRECT_BRANCH"
      PROVE  frame'.nextBlockAddr = NextBlockAddr(LastInst, LastAddr)'
  <2>1. Reported
    BY <1>2 DEF Reported, ReportOK
  <2>2. /\ LastInst' = LastInst /\ LastAddr' = LastAddr
        /\ LastInst = Fetch(lastInstAddress)
    BY <1>2, <2>1, SameText DEF LastInst, LastAddr
  <2>3. ExitType = "DIRECT_BRANCH"
    BY <1>2, <2>1, <2>2 DEF ExitType
  <2>4. PICK i, a : i = LastInst /\ a = LastAddr
    OBVIOUS
  <2>5. NextBlockAddr(i, a)' = NextBlockAddr(i, a)
    BY DEF NextBlockAddr, TRAPFRAME, RegValue
  <2>6. NextBlockAddr(LastInst, LastAddr)' = NextBlockAddr(i, a)'
    <3>1. LastInst' = i /\ LastAddr' = a
      BY <2>2, <2>4
    <3> QED BY <3>1 DEF NextBlockAddr
  <2> QED BY <2>1, <2>3, <2>4, <2>5, <2>6
<1> QED BY <1>1, <1>2

(* A step of the allocator keeps the invariant.                            *)
LEMMA AllocateTraceKeeps ==
  ASSUME TraceTypes, DispatcherTypeOK, HistoryTypeOK, LayoutInv, FollowedInv,
         TraceControlInv, AllocateTraceStep
  PROVE  /\ TraceTypes' /\ DispatcherTypeOK' /\ HistoryTypeOK'
         /\ LayoutInv' /\ FollowedInv' /\ TraceControlInv'
<1>1. /\ status = "running" /\ TraceStep /\ status' \in {"crashed", "running"}
      /\ UNCHANGED <<text, tool, currentBB, alloc, phase, ip, regs, slot, taken, frame,
                     edges, served, history, lastInst, lastInstAddress, sp, passed, linked>>
  BY DEF AllocateTraceStep
<1>2. TraceTypes' /\ LayoutInv'
  BY <1>1, TraceStepKeeps
<1>3. JumpsFollowed(followed)
  BY DEF JumpsFollowed, FollowedInv
<1>4. /\ trace.busy /\ DOMAIN exits \subseteq DOMAIN exits' /\ JumpsFollowed(followed')
      /\ \/ /\ trace'.busy /\ RailBasicBlocks' = RailBasicBlocks
            /\ trace'.railBB.firstAddr = trace.railBB.firstAddr
         \/ TraceEnded
  BY <1>1, <1>3, TraceStepEffect
<1>5. phase # "run" /\ passed = 0 /\ InHost
  BY <1>1, <1>4 DEF TraceControlInv, FollowedInv
<1>6. DispatcherTypeOK'
  BY <1>1 DEF DispatcherTypeOK, Status
<1>7. HistoryTypeOK'
  BY <1>1, HistoryUnchanged
<1>8. FollowedInv'
  BY <1>1, <1>4, <1>5 DEF FollowedInv, JumpsFollowed
<1>9. InHost'
  <2>1. phase \notin {"init", "stub"} /\ phase' = phase /\ sp' = 0
    BY <1>1, <1>4, <1>5 DEF InHost
  <2>2. phase \in {"initWait", "stubWait"} =>
          /\ IF trace'.busy THEN frame'.nextBlockAddr = trace'.railBB.firstAddr
                            ELSE frame'.nextBlockAddr \in DOMAIN RailBasicBlocks'
          /\ NoForwardedEcalls' => frame'.shouldNotExecLast
    BY <1>1, <1>4, <1>5 DEF InHost, NoForwardedEcalls, TraceEnded
  <2>3. phase = "stubWait" =>
          /\ ReportOK'
          /\ Reported' /\ ExitType' = "DIRECT_BRANCH" =>
               frame'.nextBlockAddr = NextBlockAddr(LastInst, LastAddr)'
    <3> SUFFICES ASSUME phase = "stubWait"
                 PROVE  /\ ReportOK'
                        /\ Reported' /\ ExitType' = "DIRECT_BRANCH" =>
                             frame'.nextBlockAddr = NextBlockAddr(LastInst, LastAddr)'
      OBVIOUS
    <3>1. /\ ReportOK
          /\ Reported /\ ExitType = "DIRECT_BRANCH" =>
               frame.nextBlockAddr = NextBlockAddr(LastInst, LastAddr)
      BY <1>5 DEF InHost
    <3> QED BY <1>1, <1>4, <3>1, AllocateKeepsReport
  <2> QED BY <2>1, <2>2, <2>3 DEF InHost
<1>10. TraceControlInv'
  BY <1>1, <1>5, <1>9 DEF TraceControlInv, InHost
<1> QED BY <1>2, <1>6, <1>7, <1>8, <1>10


-----------------------------------------------------------------------------
(* The types of the processor and of the history.                          *)

(* The word the processor is at has the types of one.                      *)
LEMMA CurrentTraceWord ==
  ASSUME TraceTypes, ip \in DOMAIN memory
  PROVE  /\ word \in TraceCodeWord /\ word.a \in Int /\ word.v \in Int
         /\ word.k \in InstKind => text[word.a] \in Inst
<1>1. word \in TraceCodeWord
  BY DEF TraceTypes, word
<1>2. word.k \in InstKind => InText(word.a)
  BY <1>1 DEF TraceCodeWord
<1>3. word.a \in Int /\ word.v \in Int
  BY <1>1 DEF TraceCodeWord, TraceWord
<1> QED BY <1>1, <1>2, <1>3, InTextType DEF TraceTypes

(* Where a jump goes is an address.                                        *)
LEMMA TargetType ==
  ASSUME NEW i \in Inst, NEW a \in Int, NEW rs \in [Reg -> Int]
  PROVE  Target(i, a, rs) \in Int
<1>1. RegValue(rs, i.rs1) \in Int /\ i.imm \in Int
  BY RegValueType DEF Inst
<1> QED BY <1>1 DEF Target

(* An instruction that retires at a is told of to nobody but the routines. *)
LEMMA RetireTransferType ==
  ASSUME HistoryTypeOK, DispatcherTypeOK, NEW a \in Int, text[a] \in Inst,
         RetireTransfer(a, Target(text[a], a, regs)), t6Saved' \in BOOLEAN
  PROVE  HistoryTypeOK'
<1>1. Target(text[a], a, regs) \in Int
  BY TargetType DEF DispatcherTypeOK
<1>2. retired' \in [addr : Int, pre : Seq(Int), prev : Int, post : Seq(Int)]
  BY RetirementType DEF RetireTransfer, HistoryTypeOK
<1>3. bbState' \in BBState
  BY BBStepType DEF RetireTransfer, HistoryTypeOK, BBState
<1> QED BY <1>1, <1>2, <1>3 DEF RetireTransfer, HistoryTypeOK, BBState

(* The types, for the words of module CacheWords,                          *)
LEMMA RunOldWordTypes ==
  ASSUME TraceTypes, DispatcherTypeOK, HistoryTypeOK, RunOldWord
  PROVE  DispatcherTypeOK' /\ HistoryTypeOK'
<1>0. regs \in [Reg -> Int] /\ slot \in Int /\ ip \in Int
  BY DEF DispatcherTypeOK
<1>1. CASE RunRestoreScratch
  <2>1. ip' \in Int /\ regs' \in [Reg -> Int]
    BY <1>0, <1>1, LengthTypes DEF RunRestoreScratch
  <2> QED BY <1>1, <2>1 DEF RunRestoreScratch, DispatcherTypeOK, HistoryTypeOK
<1>2. CASE RunLi
  <2>1. word.v \in Int
    BY <1>2, CurrentTraceWord DEF RunLi, At
  <2>2. regs' \in [Reg -> Int] /\ ip' \in Int
    BY <1>0, <1>2, <2>1, LengthTypes DEF RunLi
  <2> QED BY <1>2, <2>2, HistoryUnchanged DEF RunLi, DispatcherTypeOK
<1>3. CASE RunGuestWord
  <2>1. word.a \in Int /\ text[word.a] \in Inst
    <3>1. ip \in DOMAIN memory /\ word.k \in InstKind
      BY <1>3 DEF RunGuestWord, At, InstKind
    <3> QED BY <3>1, CurrentTraceWord
  <2>2. regs' \in [Reg -> Int]
    BY <1>0, <1>3, <2>1, ExecuteType DEF RunGuestWord
  <2>3. slot' \in Int
    BY <1>0, <1>3 DEF RunGuestWord, Parked, Reg
  <2>4. ip' \in Int
    BY <1>0, <1>3, LengthTypes DEF RunGuestWord
  <2>5. RetireInCache(word.a, "body") /\ t6Saved' \in BOOLEAN
    BY <1>3 DEF RunGuestWord, HistoryTypeOK
  <2>6. HistoryTypeOK'
    BY <2>1, <2>5, RetireInCacheType
  <2> QED BY <1>3, <2>2, <2>3, <2>4, <2>6 DEF RunGuestWord, DispatcherTypeOK
<1>4. CASE RunEcall
  <2>1. word.a \in Int
    BY <1>4, CurrentTraceWord DEF RunEcall, At
  <2>2. RetireInCache(word.a, "transfer") /\ t6Saved' \in BOOLEAN
    BY <1>4 DEF RunEcall, HistoryTypeOK
  <2>3. HistoryTypeOK'
    BY <2>1, <2>2, RetireInCacheType
  <2> QED BY <1>4, <2>1, <2>3 DEF RunEcall, DispatcherTypeOK
<1>5. CASE RunJumpInCache
  <2>1. ip' \in Int
    BY <1>0, <1>5, CacheAssumption DEF RunJumpInCache, Reg
  <2> QED BY <1>5, <2>1, HistoryUnchanged DEF RunJumpInCache, DispatcherTypeOK
<1> QED BY <1>1, <1>2, <1>3, <1>4, <1>5 DEF RunOldWord

(* and for all.                                                            *)
LEMMA RunTraceStepTypes ==
  ASSUME TraceTypes, DispatcherTypeOK, HistoryTypeOK, FollowedInv, RunTraceStep
  PROVE  DispatcherTypeOK' /\ HistoryTypeOK'
<1>0. regs \in [Reg -> Int] /\ slot \in Int /\ ip \in Int
  BY DEF DispatcherTypeOK
<1>1. CASE RunOldWord
  BY <1>1, RunOldWordTypes
<1>2. CASE RunOldCrash
  BY <1>2, HistoryUnchanged DEF RunOldCrash, RunCrash, DispatcherTypeOK, Status
<1>3. CASE RunSave
  BY <1>0, <1>3, LengthTypes DEF RunSave, RunInlineSave, DispatcherTypeOK, HistoryTypeOK, Reg
<1>4. CASE RunOldSwitch
  BY <1>4, HistoryUnchanged DEF RunOldSwitch, RunSwitch, DispatcherTypeOK, HostPhase, Phase
<1>5. CASE RunTraceSwitch
  BY <1>5, HistoryUnchanged DEF RunTraceSwitch, DispatcherTypeOK, Phase
<1>6. CASE RunTraceLi
  <2>1. word.v \in Int
    BY <1>6, CurrentTraceWord DEF RunTraceLi, At
  <2>2. regs' \in [Reg -> Int] /\ ip' \in Int
    BY <1>0, <1>6, <2>1 DEF RunTraceLi, Unfinished
  <2> QED BY <1>6, <2>2, HistoryUnchanged DEF RunTraceLi, DispatcherTypeOK
<1>7. CASE RunSdPc
  BY <1>0, <1>7, HistoryUnchanged DEF RunSdPc, DispatcherTypeOK
<1>8. CASE RunTraceBranch
  BY <1>0, <1>8, HistoryUnchanged DEF RunTraceBranch, DispatcherTypeOK, TraceBranchSkip
<1>9. CASE RunPopSp
  <2>1. /\ ip' = ip + 1 /\ t6Saved' = FALSE
        /\ UNCHANGED <<phase, regs, slot, taken, frame, edges, served, status>>
        /\ UNCHANGED <<gpc, leader, preCalls, postCalls, retired, bbState>>
    BY <1>9 DEF RunPopSp
  <2>2. ip' \in Int
    BY <1>0, <2>1
  <2>3. DispatcherTypeOK'
    BY <2>1, <2>2 DEF DispatcherTypeOK
  <2>4. HistoryTypeOK'
    BY <2>1 DEF HistoryTypeOK
  <2> QED BY <2>3, <2>4
<1>10. CASE RunLink
  <2>1. word.a \in Int /\ word.v \in Int /\ text[word.a] \in Inst
    BY <1>10, CurrentTraceWord DEF RunLink, At, InstKind
  <2>2. RetireTransfer(word.a, Target(text[word.a], word.a, regs)) /\ t6Saved' \in BOOLEAN
    BY <1>10 DEF RunLink, HistoryTypeOK
  <2>3. HistoryTypeOK'
    BY <2>1, <2>2, RetireTransferType
  <2> QED BY <1>10, <2>1, <2>3 DEF RunLink, DispatcherTypeOK
<1>11. CASE RunLiRd
  <2>1. word.a \in Int /\ text[word.a] \in Inst
    BY <1>11, CurrentTraceWord DEF RunLiRd, At, InstKind
  <2>2. RetireTransfer(word.a, Target(text[word.a], word.a, regs)) /\ t6Saved' \in BOOLEAN
    BY <1>11 DEF RunLiRd, HistoryTypeOK
  <2>3. HistoryTypeOK'
    BY <2>1, <2>2, RetireTransferType
  <2>4. regs' \in [Reg -> Int] /\ ip' \in Int
    BY <1>0, <1>11, <2>1, ExecuteType DEF RunLiRd
  <2> QED BY <1>11, <2>3, <2>4 DEF RunLiRd, DispatcherTypeOK
<1>12. CASE RunFollowed
  <2>1. /\ ip \in DOMAIN followed /\ passed + 1 \in 1..Len(followed[ip])
        /\ followed[ip] \in Seq({a \in DOMAIN text : text[a].op = "JAL"})
    <3>1. ip \in DOMAIN followed /\ passed # Len(followed[ip]) /\ passed \in Nat
      BY <1>12 DEF RunFollowed, Arrived, FollowedInv
    <3>2. followed[ip] \in Seq({a \in DOMAIN text : text[a].op = "JAL"})
      BY <3>1 DEF FollowedInv
    <3>3. Len(followed[ip]) \in Nat /\ (passed # 0 => passed <= Len(followed[ip]))
      BY <3>2 DEF FollowedInv
    <3> QED BY <3>1, <3>2, <3>3
  <2>2. PICK a : a = followed[ip][passed + 1]
    OBVIOUS
  <2>3. a \in DOMAIN text
    BY <2>1, <2>2
  <2>4. a \in Int /\ text[a] \in Inst
    BY <2>3 DEF TraceTypes
  <2>5. RetireTransfer(a, Target(text[a], a, regs)) /\ t6Saved' \in BOOLEAN
    BY <1>12, <2>2 DEF RunFollowed, HistoryTypeOK
  <2>6. HistoryTypeOK'
    BY <2>4, <2>5, RetireTransferType
  <2> QED BY <1>12, <2>6 DEF RunFollowed, DispatcherTypeOK
<1> QED BY <1>1, <1>2, <1>3, <1>4, <1>5, <1>6, <1>7, <1>8, <1>9, <1>10, <1>11, <1>12
        DEF RunTraceStep

(* Every step of the processor keeps the invariant.                        *)
LEMMA RunTraceStepKeeps ==
  ASSUME TraceTypes, DispatcherTypeOK, HistoryTypeOK, LayoutInv, FollowedInv,
         TraceControlInv, RunTraceStep
  PROVE  /\ TraceTypes' /\ DispatcherTypeOK' /\ HistoryTypeOK'
         /\ LayoutInv' /\ FollowedInv' /\ TraceControlInv'
<1>1. DispatcherTypeOK' /\ HistoryTypeOK'
  BY RunTraceStepTypes
<1>2. /\ UNCHANGED <<cacheVars, exits, trace>>
      /\ lastInst' \in Int /\ lastInstAddress' \in Int /\ linked' \in BOOLEAN
  <2>1. linked \in BOOLEAN /\ lastInst \in Int /\ lastInstAddress \in Int /\ regs.t6 \in Int
    BY DEF TraceTypes, DispatcherTypeOK, Reg
  <2>2. CASE RunOldWord
    BY <2>1, <2>2 DEF RunOldWord, RunRestoreScratch, RunLi, RunGuestWord, RunEcall,
                      RunJumpInCache, traceVars
  <2>3. CASE RunOldCrash
    BY <2>1, <2>3 DEF RunOldCrash, RunCrash, traceVars
  <2>4. CASE RunSave
    BY <2>1, <2>4 DEF RunSave, RunInlineSave, traceVars
  <2>5. CASE RunOldSwitch
    <3>1. /\ UNCHANGED <<cacheVars, exits, trace>>
          /\ lastInst' = lastInst /\ lastInstAddress' = 0 /\ linked' = FALSE
      BY <2>5 DEF RunOldSwitch, RunSwitch
    <3>2. linked' \in BOOLEAN
      BY <3>1
    <3>3. lastInst' \in Int /\ lastInstAddress' \in Int
      BY <2>1, <3>1
    <3> QED BY <3>1, <3>2, <3>3
  <2>6. CASE RunTraceSwitch
    BY <2>1, <2>6 DEF RunTraceSwitch
  <2>7. CASE RunTraceLi \/ RunTraceBranch \/ RunPopSp \/ RunLink \/ RunLiRd \/ RunFollowed
    BY <2>1, <2>7 DEF RunTraceLi, RunTraceBranch, RunPopSp, RunLink, RunLiRd, RunFollowed,
                      traceVars
  <2>8. CASE RunSdPc
    BY <2>1, <2>8 DEF RunSdPc
  <2> QED BY <2>2, <2>3, <2>4, <2>5, <2>6, <2>7, <2>8 DEF RunTraceStep
<1>3. TraceTypes' /\ LayoutInv'
  BY <1>2, CacheStays
<1>4. FollowedInv'
  <2>1. text' = text
    BY <1>2 DEF cacheVars
  <2>2. RunFollowed \/ Moves
    BY DEF RunTraceStep, RunOldWord, RunOldCrash, RunSave, RunOldSwitch, RunTraceSwitch,
           RunTraceLi, RunSdPc, RunTraceBranch, RunPopSp, RunLink, RunLiRd
  <2> QED BY <2>1, <2>2, MovesFollowed, RunFollowedKeeps
<1>5. TraceControlInv'
  BY RunOldWordControl, RunOldCrashControl, RunSaveControl, RunOldSwitchControl,
     RunTraceSwitchControl, RunTraceLiControl, RunSdPcControl, RunTraceBranchControl,
     RunPopSpControl, RunLinkControl, RunLiRdControl, RunFollowedControl DEF RunTraceStep
<1> QED BY <1>1, <1>3, <1>4, <1>5


-----------------------------------------------------------------------------
(* Every step of the host keeps the invariant.                             *)

(* Where control is while the host runs.                                   *)
LEMMA HostParts ==
  ASSUME TraceControlInv, status = "running", phase # "run"
  PROVE  InHost /\ sp = 0
  BY DEF TraceControlInv, InHost

(* The cache is entered at a trace, or at the word before it.              *)
LEMMA EnterControl ==
  ASSUME NEW m, Laid(m), NEW st, StartsAt(m, st), memory' = m, text' = text,
         phase' = "run", status' = "running", ~trace'.busy, sp' = 0,
         \/ ip' = st
         \/ ip' = st - 1 /\ ~NoForwardedEcalls /\ regs'.t6 = CacheAddr(ip')
  PROVE  TraceControlInv'
<1>1. StraightLaid(m) /\ st \in DOMAIN m /\ m[st].k = "restore" /\ EndsAt(m, st - 1)
  BY DEF Laid, StartsAt
<1>2. InCache'
  <2>1. CASE ip' = st
    <3>1. Begins(m, ip') /\ m[ip'].k = "restore" /\ ip' \in DOMAIN m
      BY <1>1, <2>1 DEF Begins, StraightKind
    <3>2. AtSequence'
      BY <3>1 DEF AtSequence, Begins
    <3> QED BY <3>2 DEF InCache
  <2>2. CASE ip' = st - 1 /\ ~NoForwardedEcalls /\ regs'.t6 = CacheAddr(ip')
    <3>1. ip' \in DOMAIN m /\ m[ip'].k \in LastKind /\ EndsAt(m, ip')
      BY <1>1, <2>2 DEF EndsAt
    <3>2. ~NoForwardedEcalls'
      BY <2>2 DEF NoForwardedEcalls
    <3>3. CASE m[ip'].k \in {"cont", "jalrT6", "jal"}
      <4>1. EndsAt(memory, ip)'
        BY <3>1 DEF EndsAt
      <4>2. regs'.t6 = CacheAddr(ip)'
        BY <2>2 DEF CacheAddr
      <4>3. AtTail'
        BY <3>2, <3>3, <4>1, <4>2 DEF AtTail
      <4> QED BY <4>3 DEF InCache
    <3>4. CASE m[ip'].k \in {"restore", "guest", "mem", "ecall"}
      <4>1. Begins(m, ip')
        BY <3>1, <3>4 DEF Begins, StraightKind
      <4>2. AtSequence'
        BY <3>2, <4>1 DEF AtSequence, Begins
      <4> QED BY <4>2 DEF InCache
    <3> QED BY <3>1, <3>3, <3>4 DEF LastKind
  <2> QED BY <2>1, <2>2
<1> QED BY <1>2 DEF TraceControlInv

(* init allocates the entry trace                                          *)
LEMMA TraceInitAllocateKeeps ==
  ASSUME TraceTypes, DispatcherTypeOK, HistoryTypeOK, LayoutInv, FollowedInv,
         TraceControlInv, TraceInit_Allocate
  PROVE  /\ TraceTypes' /\ DispatcherTypeOK' /\ HistoryTypeOK'
         /\ LayoutInv' /\ FollowedInv' /\ TraceControlInv'
<1>1. /\ status = "running" /\ phase = "init" /\ phase' = "initWait"
      /\ TraceBegin(program_counter, program_counter, 1)
      /\ frame' = [EmptyFrame EXCEPT !.nextBlockAddr = program_counter]
      /\ UNCHANGED <<ip, regs, slot, taken, edges, served, status, lastInst,
                     lastInstAddress, linked, sp, followed, passed>>
      /\ UNCHANGED history
  BY DEF TraceInit_Allocate, NoTraceStep
<1>2. InHost /\ sp = 0
  BY <1>1, HostParts
<1>3. program_counter \in Int /\ 1 \in Nat \ {0} /\ program_counter \notin DOMAIN RailBasicBlocks
  BY <1>1, <1>2 DEF TraceTypes, InHost
<1>4. TraceTypes' /\ LayoutInv'
  BY <1>1, <1>3, TraceBeginKeeps
<1>5. PICK f : f = EmptyFrame
  OBVIOUS
<1>6. f \in FrameType /\ f.shouldNotExecLast = TRUE
  BY <1>5, EmptyFrameType DEF EmptyFrame
<1>7. /\ frame' \in FrameType /\ frame'.nextBlockAddr = program_counter
      /\ frame'.shouldNotExecLast = TRUE
  BY <1>1, <1>3, <1>5, <1>6 DEF FrameType
<1>8. DispatcherTypeOK'
  BY <1>1, <1>7 DEF DispatcherTypeOK, FrameType, Phase
<1>9. HistoryTypeOK'
  BY <1>1, HistoryUnchanged
<1>10. text' = text /\ trace'.busy /\ trace'.railBB.firstAddr = program_counter
  <2>1. PICK z : z = ZeroBlock
    OBVIOUS
  <2>2. PICK i : i = Fetch(program_counter)
    OBVIOUS
  <2>3. z \in Block
    BY <2>1, ZeroBlockType
  <2>4. trace'.busy /\ text' = text
        /\ trace'.railBB = [z EXCEPT !.firstAddr = program_counter,
                                     !.basicBlockAddress = program_counter,
                                     !.startInst = i,
                                     !.startLocationInCache = EndOf(memory)]
    BY <1>1, <2>1, <2>2 DEF TraceBegin
  <2> QED BY <2>3, <2>4 DEF Block
<1>11. FollowedInv'
  BY <1>1, <1>10 DEF FollowedInv
<1>12. TraceControlInv'
  BY <1>1, <1>2, <1>7, <1>10 DEF TraceControlInv, InHost
<1> QED BY <1>4, <1>8, <1>9, <1>11, <1>12

(* and enters it.                                                          *)
LEMMA TraceInitEnterKeeps ==
  ASSUME TraceTypes, DispatcherTypeOK, HistoryTypeOK, LayoutInv, FollowedInv,
         TraceControlInv, TraceInit_Enter
  PROVE  /\ TraceTypes' /\ DispatcherTypeOK' /\ HistoryTypeOK'
         /\ LayoutInv' /\ FollowedInv' /\ TraceControlInv'
<1> DEFINE key  == frame.nextBlockAddr
           next == Lookup(key)
<1>1. /\ status = "running" /\ phase = "initWait" /\ ~trace.busy
      /\ edges' = edges \cup {<<StartNode, key>>}
      /\ preCalls' = preCalls \o Times(One(tool.instPre), next.firstAddr)
      /\ bbState' = (IF tool.bbPre /\ next.type # "SEGMENTED"
                     THEN BBStep(bbState, "pre") ELSE bbState)
      /\ EnterCacheAt(next.startLocationInCache, regs)
      /\ UNCHANGED <<cacheVars, slot, taken, frame, served, status,
                     gpc, t6Saved, leader, postCalls, retired>>
      /\ UNCHANGED <<exits, trace, lastInst, lastInstAddress, linked, sp, followed, passed>>
  BY DEF TraceInit_Enter, Init_Enter, NoTraceStep
<1>2. InHost /\ sp = 0
  BY <1>1, HostParts
<1>3. key \in DOMAIN RailBasicBlocks /\ key \in Int
  BY <1>1, <1>2 DEF InHost, DispatcherTypeOK
<1>4. next \in Block /\ next = RailBasicBlocks[key]
  <2>1. Lookup(key) \in Block
    BY LookupType DEF TraceTypes
  <2> QED BY <1>3, <2>1 DEF Lookup
<1>5. next.firstAddr \in Int /\ next.startLocationInCache \in Int
  BY <1>4 DEF Block
<1> HIDE DEF next
<1>6. TraceTypes' /\ LayoutInv'
  <2>1. lastInst' \in Int /\ lastInstAddress' \in Int /\ linked' \in BOOLEAN
    BY <1>1 DEF TraceTypes
  <2> QED BY <1>1, <2>1, CacheStays
<1>7. phase' \in Phase /\ ip' \in Int /\ regs' \in [Reg -> Int]
  BY <1>1, <1>5, EnterCacheType DEF DispatcherTypeOK
<1>8. edges' \subseteq Int \X Int
  BY <1>1, <1>3 DEF DispatcherTypeOK, StartNode
<1>9. DispatcherTypeOK'
  BY <1>1, <1>7, <1>8 DEF DispatcherTypeOK
<1>10. preCalls' \in Seq(Int)
  <2>1. Times(One(tool.instPre), next.firstAddr) \in Seq(Int)
    BY <1>5, OneType, TimesType
  <2> QED BY <1>1, <2>1, ConcatProperties DEF HistoryTypeOK
<1>11. bbState' \in BBState
  BY <1>1, BBStepType DEF HistoryTypeOK, BBState
<1>12. HistoryTypeOK'
  BY <1>1, <1>10, <1>11 DEF HistoryTypeOK, BBState
<1>13. phase' = "run" /\ ip' = next.startLocationInCache
  BY <1>1 DEF EnterCacheAt
<1>14. FollowedInv'
  BY <1>1, <1>13 DEF FollowedInv, cacheVars
<1>15. TraceControlInv'
  <2>1. LayoutOf(memory, exits, RailBasicBlocks, trace)
    BY DEF LayoutInv
  <2>2. Laid(memory) /\ TracesLaid(memory, RailBasicBlocks)
    BY <2>1, LayoutParts
  <2>3. StartsAt(memory, next.startLocationInCache)
    BY <1>3, <1>4, <2>2 DEF TracesLaid, TraceLaid
  <2>4. PICK st : st = next.startLocationInCache
    OBVIOUS
  <2>5. PICK m : m = memory
    OBVIOUS
  <2>6. /\ Laid(m) /\ StartsAt(m, st) /\ memory' = m /\ text' = text
        /\ status' = "running" /\ ~trace'.busy /\ sp' = 0
    BY <1>1, <1>2, <2>2, <2>3, <2>4, <2>5 DEF cacheVars
  <2> QED BY <1>13, <2>4, <2>6, EnterControl
<1> QED BY <1>6, <1>9, <1>12, <1>14, <1>15

(* stub's last instruction and its address.                                *)
LEMMA LastTypes ==
  ASSUME TraceTypes
  PROVE  /\ LastInst \in Inst /\ LastAddr \in Int /\ Cursor \in Int
         /\ Lookup(currentBB) \in Block /\ Lookup(currentBB).basicBlockAddress \in Int
<1>1. Lookup(currentBB) \in Block
  BY LookupType DEF TraceTypes
<1>2. Fetch(lastInstAddress) \in Inst
  BY FetchType DEF TraceTypes
<1> QED BY <1>1, <1>2 DEF LastInst, LastAddr, Cursor, TraceTypes, Block

(* An ECALL that is forwarded stands in the text.                          *)
LEMMA ForwardedInText ==
  ASSUME TraceTypes, LayoutInv, LastInst.sys = "forwarded"
  PROVE  ~NoForwardedEcalls
<1>1. \A a : Fetch(a).sys = "forwarded" => a \in DOMAIN text /\ text[a].sys = "forwarded"
  BY DEF Fetch, NoInst, TraceTypes
<1>2. \E a : LastInst = Fetch(a) \/ LastInst = NoInst
  <2>1. CASE Reported
    BY <2>1 DEF LastInst
  <2>2. CASE ~Reported /\ currentBB \in DOMAIN RailBasicBlocks
    <3>1. LayoutOf(memory, exits, RailBasicBlocks, trace)
      BY DEF LayoutInv
    <3>2. TracesLaid(memory, RailBasicBlocks)
      BY <3>1, LayoutParts
    <3>3. LastInst = RailBasicBlocks[currentBB].terminalInst
      BY <2>2 DEF LastInst, Lookup
    <3> QED BY <2>2, <3>2, <3>3 DEF TracesLaid, TraceLaid
  <2>3. CASE ~Reported /\ currentBB \notin DOMAIN RailBasicBlocks
    BY <2>3 DEF LastInst, Lookup, ZeroBlock
  <2> QED BY <2>1, <2>2, <2>3
<1>3. NoInst.sys # "forwarded"
  BY DEF NoInst
<1> QED BY <1>1, <1>2, <1>3 DEF NoForwardedEcalls

(* stub's first half: the edge, and the next trace or the beginning of it. *)
LEMMA TraceLeaveKeeps ==
  ASSUME TraceTypes, DispatcherTypeOK, LayoutInv, FollowedInv, TraceControlInv, InStub,
         NEW next \in Int, NEW execLast \in BOOLEAN, TraceLeaveFor(next, execLast),
         regs' \in [Reg -> Int], slot' \in Int, served' \in Int,
         execLast => ~NoForwardedEcalls,
         Reported /\ ExitType = "DIRECT_BRANCH" => next = NextBlockAddr(LastInst, LastAddr)
  PROVE  /\ TraceTypes' /\ DispatcherTypeOK' /\ LayoutInv' /\ FollowedInv' /\ TraceControlInv'
         /\ t6Saved' = t6Saved
<1>1. /\ status = "running" /\ phase = "stub" /\ phase' = "stubWait"
      /\ edges' = edges \cup {<<Lookup(currentBB).basicBlockAddress, next>>}
      /\ frame' = [currentBasicBlock |-> Lookup(currentBB), nextBlockAddr |-> next,
                   shouldNotExecLast |-> ~execLast]
      /\ UNCHANGED <<ip, taken, status, t6Saved, lastInst, lastInstAddress, linked, sp,
                     followed, passed>>
  BY DEF TraceLeaveFor, InStub, NoTraceStep
<1>2. InHost /\ sp = 0 /\ ~trace.busy /\ ReportOK
  BY <1>1, HostParts DEF InHost
<1>3. /\ Cursor \in Int /\ Lookup(currentBB) \in Block
      /\ Lookup(currentBB).basicBlockAddress \in Int
  BY LastTypes
<1>4. /\ TraceTypes' /\ LayoutInv' /\ text' = text /\ exits' = exits
      /\ IF trace'.busy THEN next = trace'.railBB.firstAddr ELSE next \in DOMAIN RailBasicBlocks'
  <2>1. CASE next \in DOMAIN RailBasicBlocks
    <3>1. /\ program_counter' = Cursor
          /\ UNCHANGED <<text, tool, memory, RailBasicBlocks, currentBB, alloc, exits, trace>>
      BY <2>1 DEF TraceLeaveFor
    <3>2. LayoutInv'
      BY <3>1, LayoutNext DEF LayoutInv
    <3>3. TraceCodeWord' = TraceCodeWord
      BY <3>1, SameTraceText
    <3>4. TraceTypes'
      BY <1>1, <1>3, <3>1, <3>3 DEF TraceTypes
    <3> QED BY <1>2, <2>1, <3>1, <3>2, <3>4
  <2>2. CASE next \notin DOMAIN RailBasicBlocks
    <3>1. TraceBegin(Cursor, next, TraceBlocks)
      BY <2>2 DEF TraceLeaveFor
    <3>2. PICK c \in Int : c = Cursor
      BY <1>3
    <3>3. TraceBegin(c, next, TraceBlocks) /\ TraceBlocks \in Nat \ {0}
      BY <3>1, <3>2, TraceBlocksAssumption
    <3>4. TraceTypes' /\ LayoutInv'
      BY <1>1, <2>2, <3>3, TraceBeginKeeps
    <3>5. text' = text /\ exits' = exits /\ trace'.busy /\ trace'.railBB.firstAddr = next
      <4>1. PICK z : z = ZeroBlock
        OBVIOUS
      <4>2. PICK i : i = Fetch(c)
        OBVIOUS
      <4>3. z \in Block
        BY <4>1, ZeroBlockType
      <4>4. trace'.busy /\ text' = text /\ exits' = exits
            /\ trace'.railBB = [z EXCEPT !.firstAddr = next,
                                         !.basicBlockAddress = next,
                                         !.startInst = i,
                                         !.startLocationInCache = EndOf(memory)]
        BY <3>3, <4>1, <4>2 DEF TraceBegin
      <4> QED BY <4>3, <4>4 DEF Block
    <3> QED BY <3>4, <3>5
  <2> QED BY <2>1, <2>2
<1>5. /\ frame' \in FrameType /\ frame'.nextBlockAddr = next
      /\ frame'.shouldNotExecLast = ~execLast
  BY <1>1, <1>3 DEF FrameType
<1>6. edges' \subseteq Int \X Int
  BY <1>1, <1>3 DEF DispatcherTypeOK
<1>7. DispatcherTypeOK'
  BY <1>1, <1>5, <1>6 DEF DispatcherTypeOK, FrameType, Phase
<1>8. FollowedInv'
  BY <1>1, <1>4 DEF FollowedInv
<1>9. ReportOK'
  BY <1>1, <1>2, <1>4 DEF ReportOK
<1>10. ASSUME Reported', ExitType' = "DIRECT_BRANCH"
       PROVE  next = NextBlockAddr(LastInst, LastAddr)'
  <2>1. Reported
    BY <1>1, <1>4, <1>10 DEF Reported
  <2>2. /\ LastInst' = LastInst /\ LastAddr' = LastAddr
        /\ ExitType = NextInstType(LastInst.op) /\ ExitType' = NextInstType(LastInst.op)
    <3>1. Fetch(lastInstAddress)' = Fetch(lastInstAddress)
      BY <1>1, <1>4 DEF Fetch
    <3> QED BY <1>1, <1>10, <2>1, <3>1 DEF LastInst, LastAddr, ExitType
  <2>3. LastInst.op \in {"BRANCH", "JAL"}
    BY <1>10, <2>2 DEF NextInstType
  <2>4. PICK i, a : i = LastInst /\ a = LastAddr
    OBVIOUS
  <2>5. NextBlockAddr(i, a)' = NextBlockAddr(i, a)
    BY <1>1, <2>3, <2>4 DEF NextBlockAddr
  <2>6. NextBlockAddr(LastInst, LastAddr)' = NextBlockAddr(i, a)'
    <3>1. LastInst' = i /\ LastAddr' = a
      BY <2>2, <2>4
    <3> QED BY <3>1 DEF NextBlockAddr
  <2> QED BY <1>10, <2>1, <2>2, <2>4, <2>5, <2>6
<1>11. NoForwardedEcalls' => frame'.shouldNotExecLast
  BY <1>4, <1>5 DEF NoForwardedEcalls
<1>12. TraceControlInv'
  BY <1>1, <1>2, <1>4, <1>5, <1>9, <1>10, <1>11 DEF TraceControlInv, InHost
<1> QED BY <1>1, <1>4, <1>7, <1>8, <1>12


(* After a branch or a jump,                                               *)
LEMMA TraceStubTransferKeeps ==
  ASSUME TraceTypes, DispatcherTypeOK, HistoryTypeOK, LayoutInv, FollowedInv,
         TraceControlInv, TraceStub_Transfer
  PROVE  /\ TraceTypes' /\ DispatcherTypeOK' /\ HistoryTypeOK'
         /\ LayoutInv' /\ FollowedInv' /\ TraceControlInv'
<1>1. PICK i \in Inst, a \in Int, b \in Block :
        i = LastInst /\ a = LastAddr /\ b = Lookup(currentBB)
  BY LastTypes
<1>2. PICK next \in Int : next = NextBlockAddr(i, a)
  BY NextBlockAddrType
<1>3. /\ InStub /\ regs' = LinkedFrame(i, a) /\ slot' = LinkedFrame(i, a).t6
      /\ gpc' = next /\ leader' = next /\ retired' = Retirement(a, preCalls)
      /\ preCalls' = << >> /\ postCalls' = Times(NumPostCalls(i), a)
      /\ bbState' = BBPost(BBStep(bbState, "transfer"), b)
      /\ TraceLeaveFor(next, FALSE) /\ served' = served
  BY <1>1, <1>2 DEF TraceStub_Transfer
<1>4. regs' \in [Reg -> Int] /\ slot' \in Int /\ served' \in Int
  BY <1>3, LinkedFrameType DEF DispatcherTypeOK
<1>5. Reported /\ ExitType = "DIRECT_BRANCH" => next = NextBlockAddr(LastInst, LastAddr)
  BY <1>1, <1>2
<1>6. /\ TraceTypes' /\ DispatcherTypeOK' /\ LayoutInv' /\ FollowedInv' /\ TraceControlInv'
      /\ t6Saved' = t6Saved
  BY <1>3, <1>4, <1>5, TraceLeaveKeeps
<1>7. retired' \in [addr : Int, pre : Seq(Int), prev : Int, post : Seq(Int)]
  BY <1>3, RetirementType DEF HistoryTypeOK
<1>8. postCalls' \in Seq(Int)
  BY <1>3, CallsType, TimesType
<1>9. bbState' \in BBState
  BY <1>3, BBStepType, BBPostType DEF HistoryTypeOK, BBState
<1>10. HistoryTypeOK'
  BY <1>2, <1>3, <1>6, <1>7, <1>8, <1>9 DEF HistoryTypeOK, BBState
<1> QED BY <1>6, <1>10

(* after a segment,                                                        *)
LEMMA TraceStubSegmentKeeps ==
  ASSUME TraceTypes, DispatcherTypeOK, HistoryTypeOK, LayoutInv, FollowedInv,
         TraceControlInv, TraceStub_Segment
  PROVE  /\ TraceTypes' /\ DispatcherTypeOK' /\ HistoryTypeOK'
         /\ LayoutInv' /\ FollowedInv' /\ TraceControlInv'
<1>1. PICK i \in Inst, a \in Int : i = LastInst /\ a = LastAddr
  BY LastTypes
<1>2. PICK next \in Int : next = a + 1
  OBVIOUS
<1>3. /\ InStub /\ ExitType = "SEGMENTED"
      /\ postCalls' = postCalls \o Times(NumPostCalls(i), a)
      /\ TraceLeaveFor(next, FALSE)
      /\ UNCHANGED <<regs, slot, served, gpc, leader, preCalls, retired, bbState>>
  BY <1>1, <1>2 DEF TraceStub_Segment
<1>4. regs' \in [Reg -> Int] /\ slot' \in Int /\ served' \in Int
  BY <1>3 DEF DispatcherTypeOK
<1>5. /\ TraceTypes' /\ DispatcherTypeOK' /\ LayoutInv' /\ FollowedInv' /\ TraceControlInv'
      /\ t6Saved' = t6Saved
  BY <1>3, <1>4, TraceLeaveKeeps
<1>6. postCalls' \in Seq(Int)
  <2>1. Times(NumPostCalls(i), a) \in Seq(Int)
    BY CallsType, TimesType
  <2> QED BY <1>3, <2>1, ConcatProperties DEF HistoryTypeOK
<1>7. HistoryTypeOK'
  BY <1>3, <1>5, <1>6 DEF HistoryTypeOK
<1> QED BY <1>5, <1>7

(* after an ECALL the library performs                                     *)
LEMMA TraceStubEmulateKeeps ==
  ASSUME TraceTypes, DispatcherTypeOK, HistoryTypeOK, LayoutInv, FollowedInv,
         TraceControlInv, TraceStub_Emulate
  PROVE  /\ TraceTypes' /\ DispatcherTypeOK' /\ HistoryTypeOK'
         /\ LayoutInv' /\ FollowedInv' /\ TraceControlInv'
<1>1. PICK i \in Inst, a \in Int, b \in Block :
        i = LastInst /\ a = LastAddr /\ b = Lookup(currentBB)
  BY LastTypes
<1>2. PICK next \in Int : next = a + 1
  OBVIOUS
<1>3. /\ InStub /\ ExitType = "SYSCALL" /\ served' = a
      /\ gpc' = a + 1 /\ leader' = a + 1
      /\ retired' = Retirement(a, preCalls \o Times(NumSystemCalls(tool.typedPre), a))
      /\ preCalls' = << >>
      /\ postCalls' = Times(NumSystemCalls(tool.typedPost) + NumPostCalls(i), a)
      /\ bbState' = BBPost(BBStep(bbState, "transfer"), b)
      /\ TraceLeaveFor(next, FALSE) /\ UNCHANGED <<regs, slot>>
  BY <1>1, <1>2 DEF TraceStub_Emulate
<1>4. regs' \in [Reg -> Int] /\ slot' \in Int /\ served' \in Int
  BY <1>3 DEF DispatcherTypeOK
<1>5. /\ TraceTypes' /\ DispatcherTypeOK' /\ LayoutInv' /\ FollowedInv' /\ TraceControlInv'
      /\ t6Saved' = t6Saved
  BY <1>3, <1>4, TraceLeaveKeeps
<1>6. retired' \in [addr : Int, pre : Seq(Int), prev : Int, post : Seq(Int)]
  <2>1. Times(NumSystemCalls(tool.typedPre), a) \in Seq(Int) /\ preCalls \in Seq(Int)
    BY CallsType, TimesType DEF HistoryTypeOK
  <2>2. PICK pre \in Seq(Int) : pre = preCalls \o Times(NumSystemCalls(tool.typedPre), a)
    BY <2>1, ConcatProperties
  <2> QED BY <1>3, <2>2, RetirementType
<1>7. postCalls' \in Seq(Int)
  <2>1. NumSystemCalls(tool.typedPost) + NumPostCalls(i) \in Nat
    BY CallsType
  <2> QED BY <1>3, <2>1, TimesType
<1>8. bbState' \in BBState
  BY <1>3, BBStepType, BBPostType DEF HistoryTypeOK, BBState
<1>9. HistoryTypeOK'
  BY <1>3, <1>5, <1>6, <1>7, <1>8 DEF HistoryTypeOK, BBState
<1> QED BY <1>5, <1>9

(* and before one it leaves to the host.                                   *)
LEMMA TraceStubForwardKeeps ==
  ASSUME TraceTypes, DispatcherTypeOK, HistoryTypeOK, LayoutInv, FollowedInv,
         TraceControlInv, TraceStub_Forward
  PROVE  /\ TraceTypes' /\ DispatcherTypeOK' /\ HistoryTypeOK'
         /\ LayoutInv' /\ FollowedInv' /\ TraceControlInv'
<1>1. PICK i \in Inst, a \in Int, b \in Block :
        i = LastInst /\ a = LastAddr /\ b = Lookup(currentBB)
  BY LastTypes
<1>2. PICK next \in Int : next = a + 1
  OBVIOUS
<1>3. /\ InStub /\ ExitType = "SYSCALL" /\ LastInst.sys = "forwarded"
      /\ preCalls' = preCalls \o Times(NumSystemCalls(tool.typedPre), a)
      /\ postCalls' =
           postCalls \o Times(NumSystemCalls(tool.typedPost) + NumPostCalls(i), a)
      /\ bbState' = BBPost(bbState, b)
      /\ TraceLeaveFor(next, TRUE)
      /\ UNCHANGED <<regs, slot, served, gpc, leader, retired>>
  BY <1>1, <1>2 DEF TraceStub_Forward
<1>4. regs' \in [Reg -> Int] /\ slot' \in Int /\ served' \in Int
  BY <1>3 DEF DispatcherTypeOK
<1>5. ~NoForwardedEcalls
  BY <1>3, ForwardedInText
<1>6. /\ TraceTypes' /\ DispatcherTypeOK' /\ LayoutInv' /\ FollowedInv' /\ TraceControlInv'
      /\ t6Saved' = t6Saved
  BY <1>3, <1>4, <1>5, TraceLeaveKeeps
<1>7. preCalls' \in Seq(Int) /\ postCalls' \in Seq(Int)
  <2>1. NumSystemCalls(tool.typedPost) + NumPostCalls(i) \in Nat
    BY CallsType
  <2>2. /\ Times(NumSystemCalls(tool.typedPre), a) \in Seq(Int)
        /\ Times(NumSystemCalls(tool.typedPost) + NumPostCalls(i), a) \in Seq(Int)
    BY <2>1, CallsType, TimesType
  <2> QED BY <1>3, <2>2, ConcatProperties DEF HistoryTypeOK
<1>8. bbState' \in BBState
  BY <1>3, BBPostType DEF HistoryTypeOK, BBState
<1>9. HistoryTypeOK'
  BY <1>3, <1>6, <1>7, <1>8 DEF HistoryTypeOK, BBState
<1> QED BY <1>6, <1>9

(* An exit ends the process.                                               *)
LEMMA TraceStubExitKeeps ==
  ASSUME TraceTypes, DispatcherTypeOK, HistoryTypeOK, LayoutInv, FollowedInv,
         TraceControlInv, TraceStub_Exit
  PROVE  /\ TraceTypes' /\ DispatcherTypeOK' /\ HistoryTypeOK'
         /\ LayoutInv' /\ FollowedInv' /\ TraceControlInv'
<1>1. PICK a \in Int : a = LastAddr
  BY LastTypes
<1>2. /\ preCalls' = preCalls \o Times(NumSystemCalls(tool.typedPre), a)
      /\ edges' = edges \cup {<<Lookup(currentBB).basicBlockAddress, EndNode>>}
      /\ program_counter' = Cursor /\ status' = "exited"
      /\ UNCHANGED <<text, tool, memory, RailBasicBlocks, currentBB, alloc, phase, ip, regs,
                     slot, taken, frame, served>>
      /\ UNCHANGED <<gpc, t6Saved, leader, postCalls, retired, bbState>>
      /\ UNCHANGED <<exits, trace, lastInst, lastInstAddress, linked, sp, followed, passed>>
  BY <1>1 DEF TraceStub_Exit, NoTraceStep
<1>3. Cursor \in Int /\ Lookup(currentBB).basicBlockAddress \in Int
  BY LastTypes
<1>4. LayoutInv'
  BY <1>2, LayoutNext DEF LayoutInv
<1>5. TraceCodeWord' = TraceCodeWord
  BY <1>2, SameTraceText
<1>6. TraceTypes'
  BY <1>2, <1>3, <1>5 DEF TraceTypes
<1>7. edges' \subseteq Int \X Int
  BY <1>2, <1>3 DEF DispatcherTypeOK, EndNode
<1>8. DispatcherTypeOK'
  BY <1>2, <1>7 DEF DispatcherTypeOK, Status
<1>9. preCalls' \in Seq(Int)
  <2>1. Times(NumSystemCalls(tool.typedPre), a) \in Seq(Int)
    BY CallsType, TimesType
  <2> QED BY <1>2, <2>1, ConcatProperties DEF HistoryTypeOK
<1>10. HistoryTypeOK'
  BY <1>2, <1>9 DEF HistoryTypeOK
<1>11. FollowedInv'
  BY <1>2 DEF FollowedInv
<1>12. TraceControlInv'
  BY <1>2 DEF TraceControlInv
<1> QED BY <1>4, <1>6, <1>8, <1>10, <1>11, <1>12

(* What stub knows when the next trace is there.                           *)
LEMMA StubWaitFacts ==
  ASSUME TraceTypes, DispatcherTypeOK, TraceControlInv, status = "running",
         phase = "stubWait", ~trace.busy
  PROVE  /\ ReportOK /\ sp = 0
         /\ frame.nextBlockAddr \in DOMAIN RailBasicBlocks
         /\ NoForwardedEcalls => frame.shouldNotExecLast
         /\ Reported /\ ExitType = "DIRECT_BRANCH" =>
              frame.nextBlockAddr = NextBlockAddr(LastInst, LastAddr)
<1>1. InHost /\ sp = 0
  BY HostParts
<1> QED BY <1>1 DEF InHost

(* stub's second half: the link, and the next trace.                       *)
LEMMA TraceStubEnterKeeps ==
  ASSUME TraceTypes, DispatcherTypeOK, HistoryTypeOK, LayoutInv, FollowedInv,
         TraceControlInv, TraceStub_Enter
  PROVE  /\ TraceTypes' /\ DispatcherTypeOK' /\ HistoryTypeOK'
         /\ LayoutInv' /\ FollowedInv' /\ TraceControlInv'
<1>1. PICK key : key = frame.nextBlockAddr
  OBVIOUS
<1>2. PICK next : next = Lookup(key)
  OBVIOUS
<1>3. /\ status = "running" /\ phase = "stubWait" /\ ~trace.busy
      /\ memory' = LinkedMemory(next)
      /\ preCalls' = preCalls \o Times(One(tool.instPre), next.firstAddr)
      /\ bbState' = (IF tool.bbPre /\ next.type # "SEGMENTED"
                     THEN BBStep(bbState, "pre") ELSE bbState)
      /\ EnterCacheAt(ReturnVal(next), regs)
      /\ frame' = EmptyFrame
      /\ UNCHANGED <<text, slot, taken, edges, served, status>>
      /\ UNCHANGED <<gpc, t6Saved, leader, postCalls, retired>>
      /\ UNCHANGED <<trace, sp, followed, passed>>
  BY <1>1, <1>2 DEF TraceStub_Enter, NoTraceStep
<1>4. /\ ReportOK /\ sp = 0 /\ key \in DOMAIN RailBasicBlocks
      /\ frame.nextBlockAddr \in DOMAIN RailBasicBlocks
      /\ NoForwardedEcalls => frame.shouldNotExecLast
      /\ Reported /\ ExitType = "DIRECT_BRANCH" =>
           frame.nextBlockAddr = NextBlockAddr(LastInst, LastAddr)
  BY <1>1, <1>3, StubWaitFacts
<1>5. TraceTypes' /\ LayoutInv'
  BY <1>4, LinkKeeps
<1>6. next \in Block /\ next = RailBasicBlocks[key]
  <2>1. Lookup(key) \in Block
    BY LookupType DEF TraceTypes
  <2> QED BY <1>2, <1>4, <2>1 DEF Lookup
<1>7. PICK st \in Int : st = next.startLocationInCache
  BY <1>6 DEF Block
<1>8. ReturnVal(next) = IF frame.shouldNotExecLast THEN st ELSE st - 1
  BY <1>7 DEF ReturnVal
<1>9. PICK r \in Int : r = ReturnVal(next) /\ r = IF frame.shouldNotExecLast THEN st ELSE st - 1
  <2>1. ReturnVal(next) \in Int
    BY <1>7, <1>8
  <2> QED BY <1>8, <2>1
<1>10. phase' = "run" /\ ip' = r /\ regs' = [regs EXCEPT !.t6 = CacheAddr(r)]
  BY <1>3, <1>9 DEF EnterCacheAt
<1>11. phase' \in Phase /\ ip' \in Int /\ regs' \in [Reg -> Int]
  <2>1. EnterCacheAt(r, regs)
    BY <1>3, <1>9
  <2> QED BY <2>1, EnterCacheType DEF DispatcherTypeOK
<1>12. frame' \in FrameType
  BY <1>3, EmptyFrameType
<1>13. DispatcherTypeOK'
  BY <1>3, <1>11, <1>12 DEF DispatcherTypeOK, FrameType
<1>14. preCalls' \in Seq(Int)
  <2>1. Times(One(tool.instPre), next.firstAddr) \in Seq(Int)
    BY <1>6, OneType, TimesType DEF Block
  <2> QED BY <1>3, <2>1, ConcatProperties DEF HistoryTypeOK
<1>15. bbState' \in BBState
  BY <1>3, BBStepType DEF HistoryTypeOK, BBState
<1>16. HistoryTypeOK'
  BY <1>3, <1>14, <1>15 DEF HistoryTypeOK, BBState
<1>17. FollowedInv'
  BY <1>3, <1>10 DEF FollowedInv
<1>18. TraceControlInv'
  <2>1. LayoutOf(LinkedMemory(Lookup(key)), exits, RailBasicBlocks, trace)
    BY <1>1, <1>4, LinkedMemoryLaid
  <2>2. PICK m : m = LinkedMemory(next)
    OBVIOUS
  <2>3. LayoutOf(m, exits, RailBasicBlocks, trace)
    BY <1>2, <2>1, <2>2
  <2>4. Laid(m) /\ TracesLaid(m, RailBasicBlocks)
    BY <2>3, LayoutParts
  <2>5. StartsAt(m, st)
    BY <1>4, <1>6, <1>7, <2>4 DEF TracesLaid, TraceLaid
  <2>6. regs'.t6 = CacheAddr(r)
    BY <1>10 DEF DispatcherTypeOK, Reg
  <2>7. \/ ip' = st
        \/ ip' = st - 1 /\ ~NoForwardedEcalls /\ regs'.t6 = CacheAddr(ip')
    BY <1>4, <1>9, <1>10, <2>6
  <2>8. /\ memory' = m /\ text' = text /\ phase' = "run" /\ status' = "running"
        /\ ~trace'.busy /\ sp' = 0
    BY <1>3, <1>4, <1>10, <2>2
  <2> QED BY <2>4, <2>5, <2>7, <2>8, EnterControl
<1> QED BY <1>5, <1>13, <1>16, <1>17, <1>18

(* Or the end of the process.                                              *)
LEMMA TraceStubGiveUpKeeps ==
  ASSUME TraceTypes, DispatcherTypeOK, HistoryTypeOK, LayoutInv, FollowedInv,
         TraceControlInv, TraceStub_GiveUp
  PROVE  /\ TraceTypes' /\ DispatcherTypeOK' /\ HistoryTypeOK'
         /\ LayoutInv' /\ FollowedInv' /\ TraceControlInv'
<1>1. /\ status = "running" /\ phase = "stubWait" /\ ~trace.busy /\ status' = "faulted"
      /\ edges' = edges \cup {<<Lookup(currentBB).basicBlockAddress, EndNode>>}
      /\ UNCHANGED <<text, phase, ip, regs, slot, taken, frame, served, history, sp, followed,
                     passed>>
  BY DEF TraceStub_GiveUp, NoTraceStep
<1>2. TraceTypes' /\ LayoutInv'
  BY <1>1, StubWaitFacts, LinkKeeps
<1>3. edges' \subseteq Int \X Int
  BY <1>1, LastTypes DEF DispatcherTypeOK, EndNode
<1>4. DispatcherTypeOK'
  BY <1>1, <1>3 DEF DispatcherTypeOK, Status
<1>5. HistoryTypeOK'
  BY <1>1, HistoryUnchanged
<1>6. FollowedInv'
  BY <1>1 DEF FollowedInv
<1>7. TraceControlInv'
  BY <1>1 DEF TraceControlInv
<1> QED BY <1>2, <1>4, <1>5, <1>6, <1>7


(* All steps of the host.                                                  *)
LEMMA TraceHostStepKeeps ==
  ASSUME TraceTypes, DispatcherTypeOK, HistoryTypeOK, LayoutInv, FollowedInv,
         TraceControlInv, TraceHostStep
  PROVE  /\ TraceTypes' /\ DispatcherTypeOK' /\ HistoryTypeOK'
         /\ LayoutInv' /\ FollowedInv' /\ TraceControlInv'
  BY TraceInitAllocateKeeps, TraceInitEnterKeeps, TraceStubTransferKeeps,
     TraceStubSegmentKeeps, TraceStubEmulateKeeps, TraceStubForwardKeeps,
     TraceStubExitKeeps, TraceStubEnterKeeps, TraceStubGiveUpKeeps DEF TraceHostStep

(* Nothing happens any more.                                               *)
LEMMA TraceStutterKeeps ==
  ASSUME TraceTypes, DispatcherTypeOK, HistoryTypeOK, LayoutInv, FollowedInv,
         TraceControlInv, UNCHANGED allVars
  PROVE  /\ TraceTypes' /\ DispatcherTypeOK' /\ HistoryTypeOK'
         /\ LayoutInv' /\ FollowedInv' /\ TraceControlInv'
<1>1. UNCHANGED <<cacheVars, dispatcherVars, history, traceVars, sp, traceHistory>>
  BY DEF allVars, vars
<1>2. /\ UNCHANGED <<text, memory, RailBasicBlocks, phase, ip, regs, slot, taken, frame,
                     served, status, edges, t6Saved, exits, trace, lastInst,
                     lastInstAddress, followed, passed, linked>>
  BY <1>1 DEF cacheVars, dispatcherVars, history, traceVars, traceHistory
<1>3. TraceTypes' /\ LayoutInv'
  <2>1. lastInst' \in Int /\ lastInstAddress' \in Int
    BY <1>2 DEF TraceTypes
  <2>2. linked' \in BOOLEAN
    BY <1>2 DEF TraceTypes
  <2> QED BY <1>1, <1>2, <2>1, <2>2, CacheStays
<1>4. DispatcherTypeOK'
  BY <1>2 DEF DispatcherTypeOK
<1>5. HistoryTypeOK'
  BY <1>1, HistoryUnchanged
<1>6. FollowedInv'
  BY <1>2 DEF FollowedInv
<1>7. TraceControlInv'
  <2>1. NoForwardedEcalls' <=> NoForwardedEcalls
    BY <1>2 DEF NoForwardedEcalls
  <2>2. InCache => InCache'
    <3>1. AtRoot => AtRoot'
      BY <1>1, <1>2 DEF AtRoot
    <3>2. AtSequence => AtSequence'
      BY <1>1, <1>2, <2>1 DEF AtSequence, Begins
    <3>3. AtTail => AtTail'
      BY <1>1, <1>2, <2>1, SameTraceText DEF AtTail
    <3>4. ASSUME NEW n \in DOMAIN memory, InExit(n)
          PROVE  InExit(n)'
      <4>1. \A a : HostOf(a)' = HostOf(a)
        BY <1>2, SameTraceText
      <4>2. \A s, a, h : OnSide(s, a, h) <=> OnSide(s, a, h)'
        BY <1>1, <1>2 DEF OnSide, Lowered
      <4> QED BY <1>1, <1>2, <3>4, <4>1, <4>2 DEF InExit, Lowered
    <3> QED BY <1>2, <3>1, <3>2, <3>3, <3>4 DEF InCache
  <2>3. InHost => InHost'
    <3>1. ReportOK' <=> ReportOK
      BY <1>2 DEF ReportOK
    <3>2. /\ (Reported' <=> Reported) /\ ExitType' = ExitType
          /\ NextBlockAddr(LastInst, LastAddr)' = NextBlockAddr(LastInst, LastAddr)
      BY <1>1, <1>2 DEF Reported, ExitType, NextBlockAddr, LastInst, LastAddr, Lookup,
                        Fetch, TRAPFRAME, RegValue, cacheVars
    <3> QED BY <1>1, <1>2, <2>1, <3>1, <3>2 DEF InHost
  <2> QED BY <1>1, <1>2, <2>2, <2>3 DEF TraceControlInv
<1> QED BY <1>3, <1>4, <1>5, <1>6, <1>7

(* Every step keeps the invariant.                                         *)
LEMMA TraceNextKeeps ==
  ASSUME TraceInv, [TraceNext]_allVars
  PROVE  TraceInv'
<1>1. /\ TraceTypes /\ DispatcherTypeOK /\ HistoryTypeOK
      /\ LayoutInv /\ FollowedInv /\ TraceControlInv
  BY TraceInvParts
<1>2. TraceHalted => UNCHANGED allVars
  BY DEF TraceHalted, Halted, allVars
<1>3. /\ TraceTypes' /\ DispatcherTypeOK' /\ HistoryTypeOK'
      /\ LayoutInv' /\ FollowedInv' /\ TraceControlInv'
  BY <1>1, <1>2, RunTraceStepKeeps, TraceHostStepKeeps, AllocateTraceKeeps,
     TraceStutterKeeps DEF TraceNext
<1> QED BY <1>3, TraceInvParts, PTL


-----------------------------------------------------------------------------
(* The cache init finds: the root, and no trace.                           *)

(* allocateRoot's words are a cache without exits, traces and links.       *)
LEMMA RootLaid ==
  ASSUME memory = Li(InitSwitch) \o JalrT6
  PROVE  /\ Laid(memory) /\ EndsAt(memory, Len(memory))
         /\ ReportsOnly(memory, {}) /\ \A blocks : LinksLaid(memory, blocks)
<1>1. PICK li, cont, jalr : li = W("li", 0, InitSwitch) /\ cont = Cont /\ jalr = W("jalrT6", 0, 0)
  OBVIOUS
<1>2. li \in TraceCodeWord /\ jalr \in TraceCodeWord /\ cont \in TraceCodeWord
  <2>1. InitSwitch \in Int /\ 0 \in Int
    BY HostEntries
  <2>2. {"li", "jalrT6"} \subseteq (ExitKind \ InstKind) \cup {"save"}
    BY DEF ExitKind, InstKind
  <2> QED BY <1>1, <2>1, <2>2, LibraryWordType, ContType
<1>3. memory = <<li, cont, cont>> \o <<jalr>>
  BY <1>1 DEF Li, JalrT6
<1>4. /\ memory \in Seq(TraceCodeWord) /\ Len(memory) = 4 /\ DOMAIN memory = 1..4
      /\ memory[1] = W("li", 0, InitSwitch) /\ memory[2] = Cont /\ memory[3] = Cont
      /\ memory[4] = W("jalrT6", 0, 0)
  <2>1. /\ memory \in Seq(TraceCodeWord) /\ Len(memory) = 4 /\ DOMAIN memory = 1..4
        /\ memory[1] = li /\ memory[2] = cont /\ memory[3] = cont /\ memory[4] = jalr
    BY <1>2, <1>3
  <2> QED BY ONLY <1>1, <2>1
<1>5. \A n \in DOMAIN memory : memory[n].k \in {"li", "cont", "jalrT6"}
  <2>1. /\ memory[1].k = "li" /\ memory[2].k = "cont" /\ memory[3].k = "cont"
        /\ memory[4].k = "jalrT6"
    BY <1>4, TraceWordFields, ContWord
  <2> QED BY ONLY <1>4, <2>1
<1>6. Laid(memory)
  BY <1>4, <1>5 DEF Laid, StraightLaid, ExitsLaid, StraightKind
<1>7. EndsAt(memory, Len(memory))
  BY <1>4, TraceWordFields DEF EndsAt, LastKind
<1>8. ReportsOnly(memory, {}) /\ \A blocks : LinksLaid(memory, blocks)
  BY <1>5 DEF ReportsOnly, LinksLaid
<1> QED BY <1>6, <1>7, <1>8

(* The invariant holds before the guest's first instruction.               *)
LEMMA TraceInitKeeps == TraceInit => TraceInv
<1> SUFFICES ASSUME TraceInit
             PROVE  /\ TraceTypes /\ DispatcherTypeOK /\ HistoryTypeOK
                    /\ LayoutInv /\ FollowedInv /\ TraceControlInv
  BY TraceInvParts
<1>1. /\ Init /\ CacheInit /\ exits = [a \in {} |-> 0] /\ trace = IdleTrace /\ sp = 0
      /\ lastInst = 0 /\ lastInstAddress = 0 /\ followed = [n \in {} |-> << >>]
      /\ passed = 0 /\ linked = FALSE
  BY DEF TraceInit, Init
<1>2. /\ memory = Li(InitSwitch) \o JalrT6 /\ RailBasicBlocks = [a \in {} |-> ZeroBlock]
      /\ program_counter = 1 /\ currentBB = 0 /\ alloc = Idle
      /\ \E s \in Setups : text = s.text /\ tool = s.tool
  BY <1>1 DEF CacheInit
<1>3. DispatcherTypeOK /\ HistoryTypeOK
  BY <1>1, InitType, TypeInvParts
<1>4. Laid(memory) /\ EndsAt(memory, Len(memory))
      /\ ReportsOnly(memory, {}) /\ \A blocks : LinksLaid(memory, blocks)
  BY <1>2, RootLaid
<1>5. TraceTypes
  <2>1. text \in Seq(Inst) /\ tool \in Registration
    BY <1>2, SetupsAssumption
  <2>2. memory \in Seq(TraceCodeWord)
    BY <1>4 DEF Laid
  <2>3. trace \in [busy : BOOLEAN, railBB : Block, count : Nat]
    BY <1>1, ZeroBlockType DEF IdleTrace
  <2>4. linked \in BOOLEAN
    BY <1>1
  <2> QED BY <1>1, <1>2, <2>1, <2>2, <2>3, <2>4 DEF TraceTypes
<1>6. LayoutInv
  <2>1. DOMAIN exits = {} /\ DOMAIN RailBasicBlocks = {} /\ ~trace.busy
    BY <1>1, <1>2 DEF IdleTrace
  <2>2. /\ ExitsKnown(memory, exits) /\ TracesLaid(memory, RailBasicBlocks)
        /\ TraceBegun(memory, RailBasicBlocks, trace)
    BY <2>1 DEF ExitsKnown, TracesLaid, TraceBegun
  <2> QED BY <1>4, <2>1, <2>2 DEF LayoutInv, LayoutOf
<1>7. FollowedInv
  BY <1>1 DEF FollowedInv
<1>8. TraceControlInv
  <2>1. status = "running" /\ phase = "run" /\ ip = 1 /\ ~trace.busy
    BY <1>1 DEF Init, IdleTrace
  <2>2. AtRoot
    BY <1>1, <1>2, <2>1 DEF AtRoot
  <2> QED BY <1>1, <2>1, <2>2 DEF TraceControlInv, InCache
<1> QED BY <1>3, <1>5, <1>6, <1>7, <1>8

(* However traces are begun, followed over jumps, ended, linked and left,  *)
(* the cache stays laid out in sequences and exits, exits and              *)
(* RailBasicBlocks lead to what they are said to lead to, and between any  *)
(* two steps control, SP, T6 and the report stub will read are where the   *)
(* word at ip needs them.                                                  *)
THEOREM TraceInvariant == TraceSpec => []TraceInv
<1>1. TraceInit => TraceInv
  BY TraceInitKeeps
<1>2. TraceInv /\ [TraceNext]_allVars => TraceInv'
  BY TraceNextKeeps
<1> QED BY <1>1, <1>2, PTL DEF TraceSpec

-----------------------------------------------------------------------------
(* What follows from it.                                                   *)

(* Every variable of the engine with trace linking keeps its type: in      *)
(* particular SP is at most one save below the guest's, whatever chain of  *)
(* exits, links and entries ran.                                           *)
THEOREM TraceTypeCorrect == TraceSpec => []TraceTypeOK
<1>1. TraceInv => TraceTypeOK
  BY DEF TraceInv
<1> QED BY <1>1, TraceInvariant, PTL

(* exits leads from a reported address to that address's exit, with its    *)
(* save, its constant and its store in place, however many traces were     *)
(* laid behind it and whichever of its words were overwritten by links.    *)
THEOREM ExitsLeadToText == TraceSpec => []ExitsMirrorText
<1>1. ASSUME TraceInv
      PROVE  ExitsMirrorText
  <2>1. LayoutOf(memory, exits, RailBasicBlocks, trace)
    BY <1>1 DEF TraceInv, LayoutInv
  <2>2. Laid(memory) /\ ExitsKnown(memory, exits)
    BY <2>1, LayoutParts
  <2>3. DOMAIN memory = 1..Len(memory) /\ Len(memory) \in Nat
    BY <2>2, WordOfLaid
  <2>4. exits \in [DOMAIN exits -> Nat]
    BY <1>1, TraceInvParts DEF TraceTypes
  <2> SUFFICES ASSUME NEW a \in DOMAIN exits, NEW e, e = exits[a]
               PROVE  IF Fetch(a).op = "BRANCH"
                      THEN memory[e] = W("traceBranch", a, 0)
                      ELSE /\ memory[e + 1].k = "save"
                           /\ memory[e + 3] = W("lui", 0, a)
                           /\ memory[e + 6].k = "sdPc"
    BY DEF ExitsMirrorText
  <2>5. ExitKnown(memory, a, e) /\ e \in Nat
    BY <2>2, <2>4 DEF ExitsKnown
  <2>6. InText(a) /\ Fetch(a) = text[a]
    BY <2>5 DEF ExitKnown, Fetch, InText
  <2>7. CASE text[a].op = "BRANCH"
    <3>1. memory[(e - 2) + 2] = W("traceBranch", a, 0)
      BY <2>5, <2>7 DEF ExitKnown, SaveOf
    <3>2. (e - 2) + 2 = e
      BY <2>5
    <3> QED BY <2>6, <2>7, <3>1, <3>2
  <2>8. CASE text[a].op # "BRANCH"
    <3>1. /\ e + 1 \in DOMAIN memory /\ memory[e + 1].k = "save"
          /\ memory[(e + 1) + 2] = W("lui", 0, a)
      BY <2>5, <2>8 DEF ExitKnown, SaveOf
    <3>2. ExitAt(memory, e + 1)
      BY <2>2, <3>1 DEF Laid, ExitsLaid
    <3>3. JumpExitAt(memory, e + 1)
      BY <2>3, <2>5, <3>1, <3>2, ExitShape, TraceWordFields
    <3>4. memory[((e + 1) + 2) + 3] = W("sdPc", 0, 0)
      BY <3>3 DEF JumpExitAt, ReportAt
    <3>5. (e + 1) + 2 = e + 3 /\ ((e + 1) + 2) + 3 = e + 6
      BY <2>5
    <3> QED BY <2>6, <2>8, <3>1, <3>4, <3>5, TraceWordFields
  <2> QED BY <2>7, <2>8
<1> QED BY <1>1, TraceInvariant, PTL

(* Every link in the cache enters the trace of the address the guest goes  *)
(* to from there, one word behind its restore_scratch, for every text and  *)
(* every order in which stub made the links.                               *)
THEOREM LinksGoWhereTheGuestGoes == TraceSpec => []LinksAgree
<1>1. ASSUME TraceInv
      PROVE  LinksAgree
  <2>1. LayoutOf(memory, exits, RailBasicBlocks, trace)
    BY <1>1 DEF TraceInv, LayoutInv
  <2>2. TracesLaid(memory, RailBasicBlocks) /\ LinksLaid(memory, RailBasicBlocks)
    BY <2>1, LayoutParts
  <2> SUFFICES ASSUME NEW n \in Links
               PROVE  LET next == Lookup(LinkedFrom(n))
                      IN  /\ memory[n - 1].k = "popSp"
                          /\ next.firstAddr = LinkedFrom(n)
                          /\ memory[n].v = next.startLocationInCache + 1
                          /\ memory[next.startLocationInCache].k = "restore"
    BY DEF LinksAgree
  <2>3. LinkLaid(memory, n, RailBasicBlocks)
    BY <2>2 DEF Links, LinksLaid
  <2>4. LinkedFrom(n) = LinkGoal(memory, n)
    BY DEF LinkedFrom, LinkGoal
  <2>5. PICK g : g = LinkGoal(memory, n)
    OBVIOUS
  <2>6. /\ memory[n - 1].k = "popSp" /\ g \in DOMAIN RailBasicBlocks
        /\ memory[n].v = RailBasicBlocks[g].startLocationInCache + 1
    BY <2>3, <2>5 DEF LinkLaid
  <2>7. TraceLaid(memory, g, RailBasicBlocks[g])
    BY <2>2, <2>6 DEF TracesLaid
  <2>8. Lookup(g) = RailBasicBlocks[g]
    BY <2>6 DEF Lookup
  <2> QED BY <2>4, <2>5, <2>6, <2>7, <2>8 DEF TraceLaid, StartsAt
<1> QED BY <1>1, TraceInvariant, PTL


(* Unless an ECALL is left to the kernel - stub returns to such a block's  *)
(* exit, in front of the next trace (run ForwardedReentry) - every         *)
(* instruction runs with the guest's T6 and SP, and a branch is decided    *)
(* with the guest's T6, whether control came by an entry or by a link.     *)
THEOREM TracesRunWithTheGuestsT6 ==
  TraceSpec => [](NoForwardedEcalls => TraceGuestSeesItsT6)
<1>1. ASSUME TraceInv, NoForwardedEcalls
      PROVE  TraceGuestSeesItsT6
  <2>1. TraceTypes /\ LayoutInv /\ TraceControlInv
    BY <1>1, TraceInvParts
  <2>2. ASSUME At("guest") \/ At("mem") \/ At("setpc") \/ At("liRd")
        PROVE  ~t6Saved /\ sp = 0
    <3>1. /\ status = "running" /\ phase = "run" /\ ip \in DOMAIN memory
          /\ word.k \in StraightKind /\ word.k # "restore"
      BY <2>2 DEF At, StraightKind
    <3>2. AtSequence
      BY <2>1, <3>1, RunningInCache, WhereWord
    <3> QED BY <1>1, <3>1, <3>2 DEF AtSequence, word
  <2>3. ASSUME At("traceBranch")
        PROVE  regs.t6 = slot
    <3>1. /\ status = "running" /\ phase = "run" /\ ip \in DOMAIN memory
          /\ word.k = "traceBranch"
      BY <2>3 DEF At
    <3>2. \E n : AtDecision(n)
      BY <2>1, <3>1, RunningInCache, WhereWord
    <3> QED BY <3>2 DEF AtDecision
  <2> QED BY <2>2, <2>3 DEF TraceGuestSeesItsT6
<1> QED BY <1>1, TraceInvariant, PTL

(* A link made for a branch leaves its trace with the guest's T6: only     *)
(* those that are made at the end of a jump's exit, behind the words that  *)
(* load T6, do not (run PatchedJump).                                      *)
THEOREM BranchLinksPreserveT6 ==
  TraceSpec => [](OnlyBranchesLinked => LinksPreserveT6)
<1>1. ASSUME TraceInv, OnlyBranchesLinked
      PROVE  LinksPreserveT6
  <2>1. TraceTypes /\ LayoutInv /\ TraceControlInv
    BY <1>1, TraceInvParts
  <2> SUFFICES ASSUME At("jal")
               PROVE  regs.t6 = slot
    BY DEF LinksPreserveT6
  <2>2. status = "running" /\ phase = "run" /\ ip \in DOMAIN memory /\ word.k = "jal"
    BY DEF At
  <2>3. text[memory[ip].a].op = "BRANCH"
    BY <1>1, <2>2 DEF OnlyBranchesLinked, Links, word
  <2>4. ~AtTail
    BY <2>2, <2>3 DEF AtTail, EndsAt, word
  <2>5. PICK n, s, a, h : SideOf(n, s, a, h) /\ OnSide(s, a, h)
    BY <2>1, <2>2, <2>4, RunningInCache, WhereWord
  <2>6. /\ s \in Int /\ ReportAt(memory, s, a, h)
        /\ memory[s + 6].k = "popSp" => text[a].op = "JAL"
    BY <2>1, <2>5, SideWords
  <2>7. ip = s + 1 \/ ip = s + 7
    BY <2>1, <2>2, <2>5, SideWord
  <2>8. CASE ip = s + 1
    <3>1. memory[s + 1].k = "jal"
      BY <2>2, <2>8 DEF word
    <3>2. memory[s].k = "popSp"
      BY <2>6, <3>1, TraceWordFields DEF ReportAt, LinkAt
    <3> QED BY <2>5, <2>6, <2>8, <3>2 DEF OnSide
  <2>9. CASE ip = s + 7
    <3>1. memory[s + 7].k = "jal"
      BY <2>2, <2>9 DEF word
    <3>2. LinkAt(memory, s + 6, a)
      BY <2>6, <3>1, TraceWordFields DEF ReportAt
    <3>3. memory[s + 6].k = "popSp" /\ memory[(s + 6) + 1].a = a
      BY <3>2, TraceWordFields DEF LinkAt
    <3>4. (s + 6) + 1 = ip
      BY <2>6, <2>9
    <3> QED BY <2>3, <2>6, <3>3, <3>4
  <2> QED BY <2>7, <2>8, <2>9
<1> QED BY <1>1, TraceInvariant, PTL

-----------------------------------------------------------------------------
(* Control stays in its trace: the cache.                                  *)

(* mm has the sequences of m where m has them, and one may follow.         *)
FlowAt(m, mm, n) ==
  /\ n \in DOMAIN mm
  /\ \/ mm[n] = m[n]
     \/ /\ m[n].k \notin StraightKind \cup {"save"}
        /\ mm[n].k \notin StraightKind \cup {"save"}

SameFlow(m, mm) ==
  Begins(mm, Len(m) + 1) /\ \A n \in DOMAIN m : FlowAt(m, mm, n)

(* A trace ends where a sequence begins.                                   *)
LEMMA ExtentBounds ==
  ASSUME NEW m, Laid(m), NEW b \in Block, Extent(m, b),
         b.startLocationInCache \in DOMAIN m
  PROVE  /\ b.startLocationInCache \in Int /\ b.endLocationInCache \in Int
         /\ b.endLocationInCache <= Len(m) + 1
         /\ \A n \in Within(b) : n \in DOMAIN m /\ n \in Int
<1>1. Len(m) \in Nat /\ DOMAIN m = 1..Len(m)
  BY WordOfLaid
<1>2. b.startLocationInCache \in Nat /\ b.endLocationInCache \in Nat
  BY DEF Block
<1>3. b.endLocationInCache <= Len(m) + 1
  BY <1>1 DEF Extent, Begins
<1> QED BY <1>1, <1>2, <1>3 DEF Within

(* What has been laid is run through as before if the sequences stay.      *)
LEMMA FlowKept ==
  ASSUME NEW m, NEW mm, Laid(m), SameFlow(m, mm), NEW b \in Block, Extent(m, b),
         b.startLocationInCache \in DOMAIN m
  PROVE  Extent(mm, b) /\ (Ended(m, b) => Ended(mm, b))
<1>1. PICK s, e : s = b.startLocationInCache /\ e = b.endLocationInCache
  OBVIOUS
<1>2. /\ s \in Int /\ e \in Int /\ e <= Len(m) + 1 /\ Len(m) \in Nat
      /\ DOMAIN m = 1..Len(m)
      /\ \A n \in Within(b) : n \in DOMAIN m /\ n \in Int
  BY <1>1, ExtentBounds, WordOfLaid
<1>3. StepKind \subseteq StraightKind /\ "ecall" \in StraightKind
  BY DEF StepKind, StraightKind
<1>4. s < e /\ Begins(mm, e)
  <2>1. s < e /\ Begins(m, e)
    BY <1>1 DEF Extent
  <2>2. CASE e = Len(m) + 1
    BY <2>1, <2>2 DEF SameFlow
  <2>3. CASE e \in DOMAIN m /\ m[e].k \in StraightKind \cup {"save"}
    <3>1. e \in DOMAIN mm /\ mm[e] = m[e]
      BY <2>3 DEF SameFlow, FlowAt
    <3> QED BY <2>1, <2>3, <3>1 DEF Begins
  <2> QED BY <2>1, <2>2, <2>3 DEF Begins
<1>5. ASSUME NEW n \in Within(b), mm[n].k \in StepKind
      PROVE  /\ m[n].k \in StepKind /\ NextOf(mm, n) = NextOf(m, n)
             /\ NextOf(m, n) <= e
             /\ NextOf(m, n) < e => mm[NextOf(m, n)].k # "ecall"
  <2>1. n \in DOMAIN m /\ n \in Int /\ mm[n] = m[n]
    BY <1>2, <1>3, <1>5 DEF SameFlow, FlowAt
  <2>2. m[n].k \in StepKind /\ NextOf(mm, n) = NextOf(m, n)
    BY <1>5, <2>1 DEF NextOf
  <2>3. NextOf(m, n) <= e /\ (NextOf(m, n) < e => m[NextOf(m, n)].k # "ecall")
    BY <1>1, <2>2 DEF Extent
  <2>4. ASSUME NextOf(m, n) < e
        PROVE  mm[NextOf(m, n)].k # "ecall"
    <3>1. NextOf(m, n) \in Int /\ NextOf(m, n) > n
      BY <2>1 DEF NextOf, StraightLength
    <3>2. NextOf(m, n) \in DOMAIN m
      BY <1>2, <2>1, <2>4, <3>1
    <3> QED BY <1>3, <2>3, <2>4, <3>2 DEF SameFlow, FlowAt
  <2> QED BY <2>2, <2>3, <2>4
<1>6. Extent(mm, b)
  BY <1>1, <1>4, <1>5 DEF Extent
<1>7. ASSUME Ended(m, b)
      PROVE  Ended(mm, b)
  BY <1>5, <1>7 DEF Ended
<1> QED BY <1>6, <1>7

(* They stay when more is laid,                                            *)
LEMMA FlowGlued ==
  ASSUME NEW m, NEW w, Laid(m), Piece(w)
  PROVE  SameFlow(m, m \o w)
<1>0. m \in Seq(TraceCodeWord) /\ w \in Seq(TraceCodeWord) /\ Begins(w, 1)
  BY DEF Laid, Piece
<1>1. PICK mw : mw = m \o w
  OBVIOUS
<1>2. /\ Len(m) \in Nat /\ Len(w) \in Nat /\ Len(mw) = Len(m) + Len(w)
      /\ \A k \in DOMAIN m : k \in DOMAIN mw /\ mw[k] = m[k]
      /\ \A k \in DOMAIN w : k + Len(m) \in DOMAIN mw /\ mw[k + Len(m)] = w[k]
  BY <1>0, <1>1, Glued
<1>3. Begins(mw, Len(m) + 1)
  <2>1. CASE 1 = Len(w) + 1
    <3>1. Len(m) + 1 = Len(mw) + 1
      BY <1>2, <2>1
    <3> QED BY <3>1 DEF Begins
  <2>2. CASE 1 \in DOMAIN w /\ w[1].k \in StraightKind \cup {"save"}
    <3>1. 1 + Len(m) \in DOMAIN mw /\ mw[1 + Len(m)] = w[1] /\ 1 + Len(m) = Len(m) + 1
      BY <1>2, <2>2
    <3> QED BY <2>2, <3>1 DEF Begins
  <2> QED BY <1>0, <2>1, <2>2 DEF Begins
<1> QED BY <1>1, <1>2, <1>3 DEF SameFlow, FlowAt

(* and when an exit is linked.                                             *)
LEMMA FlowLinked ==
  ASSUME NEW m, Laid(m), NEW mm, DOMAIN mm = DOMAIN m, Len(mm) = Len(m),
         \A n \in DOMAIN m : FlowAt(m, mm, n)
  PROVE  /\ SameFlow(m, mm)
         /\ \A s : PlainFrom(m, s) => PlainFrom(mm, s)
<1>1. SameFlow(m, mm)
  BY DEF SameFlow, Begins
<1>2. {"save", "ecall"} \subseteq StraightKind \cup {"save"}
  BY DEF StraightKind
<1>3. \A n \in DOMAIN m : mm[n].k \in {"save", "ecall"} => mm[n] = m[n]
  BY <1>2 DEF FlowAt
<1> QED BY <1>1, <1>3 DEF PlainFrom

(* An exit that begins in a trace lies in it, and so does one that control *)
(* is in.                                                                  *)
LEMMA ExitWithin ==
  ASSUME NEW m, Laid(m), NEW b \in Block, Extent(m, b), StartsAt(m, b.startLocationInCache),
         NEW n \in DOMAIN m, m[n].k = "save",
         NEW i \in n..(n + ExitLength(m, n) - 1), i \in Within(b)
  PROVE  /\ n >= b.startLocationInCache
         /\ \A j \in (n + 1)..(n + ExitLength(m, n) - 1) :
              j \in DOMAIN m /\ j \in Within(b) /\ m[j].k # "ecall"
<1>1. PICK s, e : s = b.startLocationInCache /\ e = b.endLocationInCache
  OBVIOUS
<1>2. /\ s \in Int /\ e \in Int /\ Len(m) \in Nat /\ DOMAIN m = 1..Len(m) /\ n \in Int
      /\ ExitLength(m, n) \in Int /\ i \in Int /\ s <= i /\ i < e /\ Begins(m, e)
  BY <1>1, ExtentBounds, WordOfLaid DEF ExitLength, Within, StartsAt, Extent
<1>3. \A j \in (n + 1)..(n + ExitLength(m, n) - 1) : j \in DOMAIN m /\ m[j].k \in ExitKind
  <2>1. ExitAt(m, n)
    BY DEF Laid, ExitsLaid
  <2> QED BY <1>2, <2>1, ExitShape
<1>4. s \notin (n + 1)..(n + ExitLength(m, n) - 1)
  <2>1. m[s].k \notin ExitKind
    BY <1>1 DEF StartsAt, ExitKind
  <2> QED BY <1>3, <2>1
<1>5. e \notin (n + 1)..(n + ExitLength(m, n) - 1)
  <2>1. e = Len(m) + 1 => e \notin DOMAIN m
    BY <1>2
  <2>2. e \in DOMAIN m => m[e].k \in StraightKind \cup {"save"}
    BY <1>2, <2>1 DEF Begins
  <2>3. (StraightKind \cup {"save"}) \cap ExitKind = {}
    BY DEF StraightKind, ExitKind
  <2> QED BY <1>3, <2>2, <2>3
<1>6. n >= s /\ n + ExitLength(m, n) <= e
  BY <1>2, <1>4, <1>5
<1>7. "ecall" \notin ExitKind
  BY DEF ExitKind
<1> QED BY <1>1, <1>2, <1>3, <1>6, <1>7 DEF Within

(* What may end a trace: its words go on within it, to no ECALL.           *)
EndPiece(w) ==
  w # << >> => /\ w[1].k # "ecall"
               /\ \A k \in DOMAIN w : w[k].k \in StepKind =>
                    NextOf(w, k) \in DOMAIN w /\ w[NextOf(w, k)].k # "ecall"

(* The extent of a trace that ends now.                                    *)
LEMMA ExtentOfEnd ==
  ASSUME NEW m, NEW w, Laid(m), Piece(w), EndPiece(w), NEW b \in Block,
         b.startLocationInCache \in DOMAIN m, PlainFrom(m, b.startLocationInCache),
         b.endLocationInCache = Len(m \o w) + 1
  PROVE  Extent(m \o w, b) /\ (w # << >> => Ended(m \o w, b))
<1>0. m \in Seq(TraceCodeWord) /\ w \in Seq(TraceCodeWord)
  BY DEF Laid, Piece
<1>1. PICK mw : mw = m \o w
  OBVIOUS
<1>2. PICK s, e : s = b.startLocationInCache /\ e = b.endLocationInCache
  OBVIOUS
<1>3. /\ Len(m) \in Nat /\ Len(w) \in Nat /\ e = Len(m) + Len(w) + 1
      /\ DOMAIN m = 1..Len(m) /\ DOMAIN w = 1..Len(w)
      /\ DOMAIN mw = 1..(Len(m) + Len(w)) /\ Len(mw) = Len(m) + Len(w)
      /\ \A k \in DOMAIN m : mw[k] = m[k]
      /\ \A k \in DOMAIN w : mw[k + Len(m)] = w[k]
      /\ s \in Int /\ s \in DOMAIN m
  BY <1>0, <1>1, <1>2, Glued
<1>4. StepKind \subseteq StraightKind /\ \A k : StraightLength(k) \in Nat \ {0}
  BY DEF StepKind, StraightLength
<1>5. ASSUME NEW n \in Within(b), mw[n].k \in StepKind
      PROVE  /\ NextOf(mw, n) <= e
             /\ NextOf(mw, n) < e => mw[NextOf(mw, n)].k # "ecall"
             /\ w # << >> => NextOf(mw, n) # e
  <2>1. n \in Int /\ s <= n /\ n < e /\ n \in DOMAIN mw
    BY <1>2, <1>3 DEF Within
  <2>2. CASE n \in DOMAIN m
    <3>1. PICK r : r = NextOf(m, n)
      OBVIOUS
    <3>2. mw[n] = m[n] /\ NextOf(mw, n) = r /\ r \in Int /\ n < r
      BY <1>3, <1>4, <2>1, <2>2, <3>1 DEF NextOf
    <3>3. Begins(m, r)
      BY <1>4, <1>5, <2>2, <3>1, <3>2 DEF Laid, StraightLaid, NextOf
    <3>4. CASE r = Len(m) + 1
      <4>1. w = << >> => r = e
        BY <1>3, <3>4
      <4>2. ASSUME w # << >>
            PROVE  r < e /\ mw[r].k # "ecall"
        <5>1. 1 \in DOMAIN w
          BY <1>0, <1>3, <4>2
        <5>2. mw[1 + Len(m)] = w[1] /\ w[1].k # "ecall" /\ 1 + Len(m) = r
          BY <1>3, <3>4, <4>2, <5>1 DEF EndPiece
        <5>3. r < e
          BY <1>3, <3>4, <5>1
        <5> QED BY <5>2, <5>3
      <4> QED BY <1>3, <3>2, <4>1, <4>2
    <3>5. CASE r \in DOMAIN m
      <4>1. m[r].k # "ecall"
        BY <1>2, <1>3, <2>1, <3>2, <3>5 DEF PlainFrom
      <4>2. r < e
        BY <1>3, <3>5
      <4> QED BY <1>3, <3>2, <3>5, <4>1, <4>2
    <3> QED BY <3>3, <3>4, <3>5 DEF Begins
  <2>3. CASE n \notin DOMAIN m
    <3>1. PICK k : k = n - Len(m)
      OBVIOUS
    <3>2. k \in DOMAIN w /\ k \in Int /\ k + Len(m) = n /\ mw[n] = w[k]
      <4>1. k \in DOMAIN w /\ k \in Int /\ k + Len(m) = n
        BY <1>3, <2>1, <2>3, <3>1
      <4> QED BY <1>3, <4>1
    <3>3. PICK r : r = NextOf(w, k)
      OBVIOUS
    <3>4. w # << >>
      BY <3>2
    <3>5. r \in DOMAIN w /\ w[r].k # "ecall"
      BY <1>5, <3>2, <3>3, <3>4 DEF EndPiece
    <3>6. NextOf(mw, n) = r + Len(m)
      BY <1>3, <1>4, <3>2, <3>3 DEF NextOf
    <3>7. mw[r + Len(m)] = w[r] /\ r + Len(m) < e /\ r + Len(m) \in Int
      BY <1>3, <3>5
    <3> HIDE <3>3
    <3> QED BY <1>3, <3>5, <3>6, <3>7
  <2> QED BY <2>2, <2>3
<1>6. s < e /\ Begins(mw, e)
  BY <1>3 DEF Begins
<1>7. Extent(mw, b)
  BY <1>2, <1>5, <1>6 DEF Extent
<1>8. w # << >> => Ended(mw, b)
  BY <1>2, <1>5 DEF Ended
<1> QED BY <1>1, <1>7, <1>8

(* An exit, with or without an ECALL behind it, ends a trace;              *)
LEMMA NoSteps ==
  ASSUME NEW w, Piece(w), w[1].k = "save", Len(w) = ExitLength(w, 1)
  PROVE  (\A n \in DOMAIN w : w[n].k \notin StraightKind) /\ EndPiece(w)
<1>1. w \in Seq(TraceCodeWord) /\ Laid(w) /\ Len(w) \in Nat /\ DOMAIN w = 1..Len(w)
  BY WordOfLaid DEF Piece
<1>2. 1 \in DOMAIN w /\ 1 \in Int
  BY <1>1 DEF ExitLength
<1>3. ExitAt(w, 1)
  BY <1>1, <1>2 DEF Laid, ExitsLaid
<1>4. \A n \in (1 + 1)..(1 + ExitLength(w, 1) - 1) : w[n].k \in ExitKind
  BY <1>1, <1>2, <1>3, ExitShape
<1>5. \A n \in DOMAIN w : n = 1 \/ n \in (1 + 1)..(1 + ExitLength(w, 1) - 1)
  BY <1>1
<1>6. ExitKind \cap StraightKind = {} /\ "save" \notin StraightKind
  BY DEF ExitKind, StraightKind
<1>7. \A n \in DOMAIN w : w[n].k \notin StraightKind
  BY <1>4, <1>5, <1>6
<1> QED BY <1>7 DEF EndPiece, StepKind

LEMMA EcallTail ==
  ASSUME NEW w, Piece(w), w[1].k = "save", Len(w) = ExitLength(w, 1), NEW a
  PROVE  EndPiece(w \o Ecall(a))
<1>1. w \in Seq(TraceCodeWord) /\ (\A n \in DOMAIN w : w[n].k \notin StraightKind)
  BY NoSteps DEF Piece, Laid
<1>2. Len(w) \in Nat /\ DOMAIN w = 1..Len(w) /\ 1 \in DOMAIN w
  <2>1. Len(w) \in Nat /\ DOMAIN w = 1..Len(w)
    BY <1>1
  <2>2. ExitLength(w, 1) > 0
    BY DEF ExitLength
  <2> QED BY <2>1, <2>2
<1>3. PICK v : v = w \o Ecall(a)
  OBVIOUS
<1>4. /\ v[1] = w[1] /\ DOMAIN v = 1..(Len(w) + 1)
      /\ \A n \in DOMAIN w : v[n] = w[n]
      /\ v[Len(w) + 1] = W("ecall", a, 0)
  BY <1>1, <1>2, <1>3 DEF Ecall
<1>5. StepKind \subseteq StraightKind /\ "ecall" \notin StepKind
  BY DEF StepKind
<1>6. v[Len(w) + 1].k = "ecall"
  BY <1>4, TraceWordFields
<1>7. \A n \in DOMAIN v : v[n].k \notin StepKind
  BY <1>1, <1>2, <1>4, <1>5, <1>6
<1> QED BY <1>3, <1>4, <1>7 DEF EndPiece

(* so does one behind words without one.                                   *)
LEMMA PlainTail ==
  ASSUME NEW x, NEW w, Piece(x), PlainFrom(x, 1), Piece(w), w[1].k = "save",
         Len(w) = ExitLength(w, 1)
  PROVE  EndPiece(x \o w) /\ x \o w # << >>
<1>0. /\ x \in Seq(TraceCodeWord) /\ w \in Seq(TraceCodeWord) /\ Laid(x)
      /\ \A n \in DOMAIN w : w[n].k \notin StraightKind
  BY NoSteps DEF Piece, Laid
<1>1. PICK v : v = x \o w
  OBVIOUS
<1>2. /\ Len(x) \in Nat /\ Len(w) \in Nat
      /\ DOMAIN x = 1..Len(x) /\ DOMAIN w = 1..Len(w) /\ DOMAIN v = 1..(Len(x) + Len(w))
      /\ \A k \in DOMAIN x : v[k] = x[k]
      /\ \A k \in DOMAIN w : v[k + Len(x)] = w[k]
      /\ \A k \in DOMAIN v : k \in DOMAIN x \/ k - Len(x) \in DOMAIN w
  BY <1>0, <1>1, Glued
<1>3. Len(w) > 0 /\ 1 \in DOMAIN w
  BY <1>2 DEF ExitLength
<1>4. StepKind \subseteq StraightKind /\ \A k : StraightLength(k) \in Nat
  BY DEF StepKind, StraightLength
<1>5. v[Len(x) + 1].k = "save" /\ Len(x) + 1 \in DOMAIN v
  <2>1. v[1 + Len(x)] = w[1] /\ 1 + Len(x) = Len(x) + 1
    BY <1>2, <1>3
  <2> QED BY <1>2, <1>3, <2>1
<1>6. \A n \in DOMAIN x : v[n].k # "ecall"
  BY <1>2 DEF PlainFrom
<1>7. ASSUME NEW n \in DOMAIN v, v[n].k \in StepKind
      PROVE  NextOf(v, n) \in DOMAIN v /\ v[NextOf(v, n)].k # "ecall"
  <2>1. n \in DOMAIN x /\ v[n] = x[n]
    <3>1. ASSUME n - Len(x) \in DOMAIN w
          PROVE  FALSE
      <4>1. (n - Len(x)) + Len(x) = n
        BY <1>2
      <4> QED BY <1>0, <1>2, <1>4, <1>7, <3>1, <4>1
    <3> QED BY <1>2, <3>1
  <2>2. Begins(x, NextOf(x, n)) /\ NextOf(v, n) = NextOf(x, n)
    BY <1>0, <1>4, <1>7, <2>1 DEF Laid, StraightLaid, NextOf
  <2>3. NextOf(x, n) = Len(x) + 1 \/ NextOf(x, n) \in DOMAIN x
    BY <2>2 DEF Begins
  <2> QED BY <1>2, <1>5, <1>6, <2>2, <2>3
<1>8. v[1].k # "ecall"
  <2>1. CASE Len(x) = 0
    BY <1>5, <2>1
  <2>2. CASE Len(x) # 0
    BY <1>2, <1>6, <2>2
  <2> QED BY <2>1, <2>2
<1> QED BY <1>1, <1>5, <1>7, <1>8 DEF EndPiece

(* What the steps of allocateTrace lay out is without exits                *)
LEMMA InLinePlain ==
  ASSUME NEW i, NEW a
  PROVE  PlainFrom(TraceInLine(i, a), 1) /\ PlainFrom(FollowedJump(i, a), 1)
<1>1. ASSUME NEW k, NEW v, k \notin {"save", "ecall"}
      PROVE  /\ PlainFrom(<<W(k, a, v)>>, 1)
             /\ PlainFrom(<<W(k, a, v), Cont, Cont>>, 1)
  <2>1. PICK x : x = W(k, a, v)
    OBVIOUS
  <2>2. PICK y : y = Cont
    OBVIOUS
  <2>3. x.k \notin {"save", "ecall"} /\ y.k \notin {"save", "ecall"}
    BY <1>1, <2>1, <2>2, TraceWordFields, ContWord
  <2>4. PlainFrom(<<x>>, 1)
    BY <2>3 DEF PlainFrom
  <2>5. PlainFrom(<<x, y, y>>, 1)
    <3>1. \A n \in DOMAIN <<x, y, y>> : <<x, y, y>>[n] \in {x, y}
      OBVIOUS
    <3> QED BY <2>3, <3>1 DEF PlainFrom
  <2> QED BY <2>1, <2>2, <2>4, <2>5
<1>2. PlainFrom(TraceInLine(i, a), 1)
  BY <1>1 DEF TraceInLine, InLine
<1>3. PlainFrom(<< >>, 1)
  BY DEF PlainFrom
<1>4. PlainFrom(FollowedJump(i, a), 1)
  BY <1>1, <1>3 DEF FollowedJump
<1> QED BY <1>2, <1>4

LEMMA SwitchLength ==
  /\ SwitchTo(ContextSwitchTaken)[1].k = "save"
  /\ SwitchTo(ContextSwitchTaken)[1 + 2].k = "li"
  /\ Len(SwitchTo(ContextSwitchTaken)) = ExitLength(SwitchTo(ContextSwitchTaken), 1)
<1>1. PICK h : h = ContextSwitchTaken
  OBVIOUS
<1>2. PICK w : w = SwitchTo(h)
  OBVIOUS
<1>3. w = <<W("save", 0, 0), Cont>> \o <<W("li", 0, h), Cont, Cont>> \o <<W("jalrT6", 0, 0)>>
  BY <1>2 DEF SwitchTo, InlineSave, Li, JalrT6
<1>4. Len(w) = 6 /\ w[1] = W("save", 0, 0) /\ w[3] = W("li", 0, h)
  BY <1>3
<1>5. w[1].k = "save" /\ w[1 + 2].k = "li"
  BY <1>4, TraceWordFields
<1> QED BY <1>1, <1>2, <1>4, <1>5 DEF ExitLength

(* A trace without exits goes on without exits.                            *)
LEMMA PlainGlued ==
  ASSUME NEW m \in Seq(TraceCodeWord), NEW w \in Seq(TraceCodeWord), NEW s \in Int,
         PlainFrom(m, s), PlainFrom(w, 1)
  PROVE  PlainFrom(m \o w, s)
<1>1. PICK mw : mw = m \o w
  OBVIOUS
<1>2. /\ Len(m) \in Nat /\ DOMAIN w = 1..Len(w) /\ Len(w) \in Nat
      /\ DOMAIN mw = 1..(Len(m) + Len(w))
      /\ \A k \in DOMAIN m : mw[k] = m[k]
      /\ \A k \in DOMAIN w : mw[k + Len(m)] = w[k]
      /\ \A k \in DOMAIN mw : k \in DOMAIN m \/ k - Len(m) \in DOMAIN w
  BY <1>1, Glued
<1>3. ASSUME NEW n \in DOMAIN mw, n >= s
      PROVE  mw[n].k \notin {"save", "ecall"}
  <2>1. CASE n \in DOMAIN m
    BY <1>2, <1>3, <2>1 DEF PlainFrom
  <2>2. CASE n - Len(m) \in DOMAIN w
    <3>1. PICK k : k = n - Len(m)
      OBVIOUS
    <3>2. k \in DOMAIN w /\ k >= 1 /\ k + Len(m) = n
      BY <1>2, <2>2, <3>1
    <3> QED BY <1>2, <3>2 DEF PlainFrom
  <2> QED BY <1>2, <2>1, <2>2
<1> QED BY <1>1, <1>3 DEF PlainFrom


-----------------------------------------------------------------------------
(* Control stays in its trace: the processor.                              *)

ExtentParts ==
  /\ ExtentsLaid(memory, RailBasicBlocks)
  /\ AllEnded /\ InCurrent
  /\ trace.busy => InPlainTrace
  /\ phase # "run" => ~linked
  /\ phase = "initWait" => currentBB = frame.nextBlockAddr

LEMMA ExtentInvParts == ExtentInv <=> (status = "running" => ExtentParts)
  BY DEF ExtentInv, ExtentParts

(* Where a trace lies.                                                     *)
LEMMA BlockLaid ==
  ASSUME TraceTypes, LayoutInv, ExtentsLaid(memory, RailBasicBlocks),
         NEW a \in DOMAIN RailBasicBlocks, NEW b, b = RailBasicBlocks[a]
  PROVE  /\ Laid(memory) /\ b \in Block /\ Extent(memory, b) /\ b.firstAddr = a
         /\ StartsAt(memory, b.startLocationInCache)
         /\ b.startLocationInCache \in DOMAIN memory
         /\ b.startLocationInCache \in Within(b)
<1>1. LayoutOf(memory, exits, RailBasicBlocks, trace)
  BY DEF LayoutInv
<1>2. Laid(memory) /\ TracesLaid(memory, RailBasicBlocks)
  BY <1>1, LayoutParts
<1>3. b \in Block /\ Extent(memory, b)
  BY DEF TraceTypes, ExtentsLaid
<1>4. b.firstAddr = a /\ StartsAt(memory, b.startLocationInCache)
  BY <1>2 DEF TracesLaid, TraceLaid
<1>5. b.startLocationInCache \in DOMAIN memory
  BY <1>4 DEF StartsAt
<1>6. b.startLocationInCache \in Int /\ b.endLocationInCache \in Int
  BY <1>2, <1>3, <1>5, ExtentBounds
<1>7. b.startLocationInCache < b.endLocationInCache
  BY <1>3 DEF Extent
<1>8. b.startLocationInCache \in Within(b)
  BY <1>6, <1>7 DEF Within
<1> QED BY <1>2, <1>3, <1>4, <1>5, <1>8

(* Without a link behind it, the processor is at a word of its trace.      *)
LEMMA WithinItsTrace ==
  ASSUME TraceTypes, LayoutInv, ExtentParts, phase = "run", ~linked,
         DOMAIN RailBasicBlocks # {}, ip \in DOMAIN memory
  PROVE  /\ currentBB \in DOMAIN RailBasicBlocks
         /\ ip \in Within(RailBasicBlocks[currentBB]) /\ memory[ip].k # "ecall"
<1>1. currentBB \in DOMAIN RailBasicBlocks
  BY DEF ExtentParts, InCurrent
<1>2. PICK b : b = RailBasicBlocks[currentBB]
  OBVIOUS
<1>3. \/ ip \in Within(b) /\ memory[ip].k # "ecall"
      \/ ip = b.endLocationInCache /\ ~Ended(memory, b)
  BY <1>2 DEF ExtentParts, InCurrent
<1>4. ~(ip = b.endLocationInCache /\ ~Ended(memory, b))
  <2> SUFFICES ASSUME ip = b.endLocationInCache, ~Ended(memory, b) PROVE FALSE
    OBVIOUS
  <2>1. OpenAt(currentBB)
    BY <1>1, <1>2 DEF ExtentParts, AllEnded
  <2>2. ip = Len(memory) + 1
    BY <1>2, <2>1 DEF OpenAt
  <2>3. memory \in Seq(TraceCodeWord)
    BY DEF TraceTypes
  <2> QED BY <2>2, <2>3
<1> QED BY <1>1, <1>2, <1>3, <1>4

EveryEnded == \A a \in DOMAIN RailBasicBlocks : Ended(memory, RailBasicBlocks[a])

(* In an exit it is in no trace that has none.                             *)
LEMMA ExitEnded ==
  ASSUME TraceTypes, LayoutInv, ExtentParts, phase = "run", ip \in DOMAIN memory,
         NEW n \in DOMAIN memory, memory[n].k = "save",
         ip \in n..(n + ExitLength(memory, n) - 1)
  PROVE  EveryEnded
<1> SUFFICES ASSUME NEW a \in DOMAIN RailBasicBlocks, OpenAt(a) PROVE FALSE
  BY DEF EveryEnded, ExtentParts, AllEnded
<1>1. PICK b : b = RailBasicBlocks[a]
  OBVIOUS
<1>2. ~linked /\ currentBB = a /\ PlainFrom(memory, b.startLocationInCache)
  BY <1>1 DEF OpenAt
<1>3. ip \in Within(b)
  BY <1>1, <1>2, WithinItsTrace
<1>4. /\ Laid(memory) /\ b \in Block /\ Extent(memory, b)
      /\ StartsAt(memory, b.startLocationInCache)
  BY <1>1, BlockLaid DEF ExtentParts
<1>5. n >= b.startLocationInCache
  BY <1>3, <1>4, ExitWithin
<1> QED BY <1>2, <1>5 DEF PlainFrom

(* A step within a trace: to the next word, along an exit, or none.        *)
CacheStands ==
  UNCHANGED <<memory, RailBasicBlocks, trace, status, phase, frame, currentBB, linked>>

ExitStep(n) ==
  /\ memory[n].k = "save" /\ ip \in n..(n + ExitLength(memory, n) - 1)
  /\ ip' \in (n + 1)..(n + ExitLength(memory, n) - 1)

StepWithin ==
  \/ ip' = ip
  \/ /\ ip \in DOMAIN memory
     /\ \/ word.k \in StepKind /\ ip' = ip + StraightLength(word.k)
        \/ \E n \in DOMAIN memory : ExitStep(n)

LEMMA WithinKept ==
  ASSUME TraceTypes, LayoutInv, ExtentInv, status = "running", phase = "run",
         CacheStands, StepWithin
  PROVE  ExtentInv'
<1>1. ExtentParts
  BY ExtentInvParts
<1>2. /\ UNCHANGED <<memory, RailBasicBlocks, trace, status, phase, frame, currentBB>>
      /\ linked' = linked
  BY DEF CacheStands
<1>3. ExtentsLaid(memory, RailBasicBlocks)' /\ AllEnded' /\ (trace'.busy => InPlainTrace')
  BY <1>1, <1>2 DEF ExtentParts, ExtentsLaid, AllEnded, OpenAt, InPlainTrace
<1>4. ASSUME ~linked, DOMAIN RailBasicBlocks # {}, ip \in DOMAIN memory, ip' # ip
      PROVE  LET b == RailBasicBlocks[currentBB]
             IN  \/ ip' \in Within(b) /\ memory[ip'].k # "ecall"
                 \/ ip' = b.endLocationInCache /\ ~Ended(memory, b)
  <2>1. PICK a, b : a = currentBB /\ b = RailBasicBlocks[a]
    OBVIOUS
  <2>2. a \in DOMAIN RailBasicBlocks /\ ip \in Within(b)
    BY <1>1, <1>4, <2>1, WithinItsTrace
  <2>3. /\ Laid(memory) /\ b \in Block /\ Extent(memory, b)
        /\ StartsAt(memory, b.startLocationInCache)
        /\ b.startLocationInCache \in DOMAIN memory
    BY <1>1, <2>1, <2>2, BlockLaid DEF ExtentParts
  <2>4. CASE word.k \in StepKind /\ ip' = ip + StraightLength(word.k)
    <3>1. PICK r : r = ip'
      OBVIOUS
    <3>2. memory[ip].k \in StepKind /\ r = NextOf(memory, ip)
      BY <2>4, <3>1 DEF word, NextOf
    <3>3. r <= b.endLocationInCache
          /\ (r < b.endLocationInCache => memory[r].k # "ecall")
      BY <2>2, <2>3, <3>2 DEF Extent
    <3>4. /\ b.startLocationInCache \in Int /\ b.endLocationInCache \in Int /\ ip \in Int
          /\ b.startLocationInCache <= ip
      BY <2>2, <2>3, ExtentBounds DEF Within
    <3>5. r \in Int /\ r > ip
      BY <3>2, <3>4 DEF NextOf, StraightLength
    <3>6. CASE r < b.endLocationInCache
      <4>1. r \in Within(b)
        BY <3>4, <3>5, <3>6 DEF Within
      <4> QED BY <2>1, <3>1, <3>3, <3>6, <4>1
    <3>7. CASE r = b.endLocationInCache
      <4>1. ~Ended(memory, b)
        BY <2>2, <3>2, <3>7 DEF Ended
      <4> QED BY <2>1, <3>1, <3>7, <4>1
    <3> QED BY <3>3, <3>4, <3>5, <3>6, <3>7
  <2>5. CASE \E n \in DOMAIN memory : ExitStep(n)
    <3>1. PICK n \in DOMAIN memory : ExitStep(n)
      BY <2>5
    <3>2. PICK r : r = ip'
      OBVIOUS
    <3>3. r \in Within(b) /\ memory[r].k # "ecall"
      BY <2>2, <2>3, <3>1, <3>2, ExitWithin DEF ExitStep
    <3> QED BY <2>1, <3>2, <3>3
  <2> QED BY <1>4, <2>4, <2>5 DEF StepWithin
<1>5. InCurrent'
  <2>1. CASE ip' = ip
    BY <1>1, <1>2, <2>1 DEF ExtentParts, InCurrent
  <2>2. CASE ip' # ip
    <3>1. ip \in DOMAIN memory
      BY <2>2 DEF StepWithin
    <3>2. ~linked => IF DOMAIN RailBasicBlocks = {} THEN currentBB = 0
                     ELSE currentBB \in DOMAIN RailBasicBlocks
      BY <1>1 DEF ExtentParts, InCurrent
    <3> QED BY <1>2, <1>4, <2>2, <3>1, <3>2 DEF InCurrent
  <2> QED BY <2>1, <2>2
<1>6. ExtentParts'
  BY <1>2, <1>3, <1>5 DEF ExtentParts
<1> QED BY <1>6, ExtentInvParts DEF ExtentInv, ExtentParts

(* A step out of the trace, to the host or through a link.                 *)
LEMMA LeavingKept ==
  ASSUME ExtentParts, EveryEnded, ~trace.busy,
         UNCHANGED <<memory, RailBasicBlocks, trace, status>>,
         \/ phase' \in {"init", "stub"} /\ ~linked'
         \/ phase' = "run" /\ linked'
  PROVE  ExtentInv'
<1>1. ExtentsLaid(memory, RailBasicBlocks)' /\ AllEnded'
  BY DEF ExtentParts, ExtentsLaid, AllEnded, EveryEnded
<1>2. InCurrent'
  BY DEF InCurrent
<1> QED BY <1>1, <1>2 DEF ExtentInv


(* What the words of exits are, from the exit's save on.                   *)
LEMMA SideInExit ==
  ASSUME TraceTypes, LayoutInv, NEW n, NEW s, NEW a, NEW h, SideOf(n, s, a, h)
  PROVE  /\ n \in DOMAIN memory /\ n \in Int /\ s \in Int /\ memory[n].k = "save"
         /\ \A k \in 0..7 : s + k \in (n + 1)..(n + ExitLength(memory, n) - 1)
<1>1. /\ n \in DOMAIN memory /\ n \in Int /\ s \in Int /\ memory[n].k = "save"
  BY SideWords DEF SideOf
<1>2. \/ memory[n + 2].k = "traceBranch" /\ s \in {n + 3, n + 11}
      \/ memory[n + 2].k = "lui" /\ s = n + 2
  BY DEF SideOf
<1>3. CASE memory[n + 2].k = "traceBranch" /\ s \in {n + 3, n + 11}
  <2>1. ExitLength(memory, n) = 19
    BY <1>3 DEF ExitLength
  <2> QED BY <1>1, <1>3, <2>1
<1>4. CASE memory[n + 2].k = "lui" /\ s = n + 2
  <2>1. ExitLength(memory, n) = 10
    BY <1>4 DEF ExitLength
  <2> QED BY <1>1, <1>4, <2>1
<1> QED BY <1>1, <1>2, <1>3, <1>4

(* Along a side of an exit,                                                *)
LEMMA AlongSide ==
  ASSUME TraceTypes, LayoutInv, InCache, ip \in DOMAIN memory, word.k \in SideKind,
         ip' = ip + 1
  PROVE  \E n \in DOMAIN memory : ExitStep(n)
<1>1. PICK n, s, a, h : SideOf(n, s, a, h) /\ OnSide(s, a, h)
  BY WhereWord
<1>2. s \in Int /\ n \in Int /\ ReportAt(memory, s, a, h) /\ ip \in s..(s + 7)
  BY <1>1, SideWords, SideWord
<1>3. ip # s + 7
  <2>1. memory[s + 7].k \in {"jalrT6", "jal"}
    BY <1>2, ReportWordKinds
  <2> QED BY <2>1 DEF word, SideKind
<1>4. PICK k : k = ip - s
  OBVIOUS
<1>5. k \in 0..7 /\ k + 1 \in 0..7 /\ ip = s + k /\ ip' = s + (k + 1)
  BY <1>2, <1>3, <1>4
<1>6. /\ n \in DOMAIN memory /\ memory[n].k = "save"
      /\ ip \in (n + 1)..(n + ExitLength(memory, n) - 1)
      /\ ip' \in (n + 1)..(n + ExitLength(memory, n) - 1)
  BY <1>1, <1>5, SideInExit
<1>7. ExitLength(memory, n) \in Int
  BY DEF ExitLength
<1>8. ip \in n..(n + ExitLength(memory, n) - 1)
  BY <1>2, <1>6, <1>7
<1> QED BY <1>6, <1>8 DEF ExitStep

(* in line,                                                                *)
LEMMA RunOldWordWithin ==
  ASSUME TraceTypes, DispatcherTypeOK, LayoutInv, TraceControlInv, NoForwardedEcalls,
         ExtentInv, RunOldWord
  PROVE  ExtentInv'
<1>1. /\ status = "running" /\ phase = "run" /\ ip \in DOMAIN memory /\ CacheStands
  BY DEF RunOldWord, RunRestoreScratch, RunLi, RunGuestWord, RunEcall, RunJumpInCache, At,
         cacheVars, CacheStands, traceVars
<1>2. InCache /\ ExtentParts
  BY <1>1, RunningInCache, ExtentInvParts
<1>3. CASE RunRestoreScratch
  <2>1. word.k = "restore" /\ ip' = ip + 1
    BY <1>3, LengthTypes DEF RunRestoreScratch, At
  <2>2. word.k \in StepKind /\ StraightLength(word.k) = 1
    BY <2>1 DEF StepKind, StraightKind, StraightLength
  <2> QED BY <1>1, <2>1, <2>2, WithinKept DEF StepWithin
<1>4. CASE RunGuestWord
  <2>1. /\ word.k \in {"guest", "mem", "setpc"}
        /\ ip' = ip + Len(InLine(text[word.a], word.a))
    BY <1>4 DEF RunGuestWord, At
  <2>2. word \in TraceCodeWord /\ word.k \in StepKind
    BY <1>1, <1>2, <2>1, WhereWord DEF StepKind, StraightKind
  <2>3. Len(InLine(text[word.a], word.a)) = StraightLength(word.k)
    BY <2>1, <2>2 DEF TraceCodeWord
  <2> QED BY <1>1, <2>1, <2>2, <2>3, WithinKept DEF StepWithin
<1>5. CASE RunEcall
  <2>1. word.k = "ecall" /\ ip' = ip + 1
    BY <1>5 DEF RunEcall, At
  <2>2. DOMAIN RailBasicBlocks = {} \/ linked
    BY <1>1, <1>2, <2>1, WithinItsTrace DEF word
  <2>3. InCurrent'
    BY <1>1, <1>2, <2>2 DEF ExtentParts, InCurrent, CacheStands
  <2>4. ExtentParts'
    BY <1>1, <1>2, <2>3 DEF ExtentParts, CacheStands, ExtentsLaid, AllEnded, OpenAt,
                            InPlainTrace
  <2> QED BY <2>4 DEF ExtentInv, ExtentParts
<1>6. CASE RunLi
  <2>1. word.k = "li" /\ ip' = ip + 3
    <3>1. word.k # "liT5"
      BY <1>1, <1>2, WhereWord DEF StraightKind, ExitKind
    <3> QED BY <1>6, <3>1, LengthTypes DEF RunLi, At
  <2>2. (AtRoot /\ ip = 1) \/ \E n : InSwitch(n) /\ ip = n + 2
    BY <1>1, <1>2, <2>1, WhereWord
  <2>3. CASE AtRoot /\ ip = 1
    <3>1. DOMAIN RailBasicBlocks = {}
      BY <2>3 DEF AtRoot
    <3>2. InCurrent'
      BY <1>1, <1>2, <3>1 DEF ExtentParts, InCurrent, CacheStands
    <3>3. ExtentParts'
      BY <1>1, <1>2, <3>2 DEF ExtentParts, CacheStands, ExtentsLaid, AllEnded, OpenAt,
                              InPlainTrace
    <3> QED BY <3>3 DEF ExtentInv, ExtentParts
  <2>4. CASE \E n : InSwitch(n) /\ ip = n + 2
    <3>1. PICK n : InSwitch(n) /\ ip = n + 2
      BY <2>4
    <3>2. n \in DOMAIN memory /\ n \in Int /\ memory[n].k = "save" /\ memory[n + 2].k = "li"
      BY <3>1 DEF InSwitch, TraceTypes
    <3>3. ExitLength(memory, n) = 6
      BY <3>2 DEF ExitLength
    <3>4. ip \in n..(n + 6 - 1) /\ ip' \in (n + 1)..(n + 6 - 1)
      BY <2>1, <3>1, <3>2
    <3>5. ExitStep(n)
      BY <3>2, <3>3, <3>4 DEF ExitStep
    <3> QED BY <1>1, <3>2, <3>5, WithinKept DEF StepWithin
  <2> QED BY <2>2, <2>3, <2>4
<1>7. CASE RunJumpInCache
  <2>1. AtTail
    BY <1>2, <1>7, JumpInCacheStays
  <2> QED BY <2>1 DEF AtTail
<1> QED BY <1>3, <1>4, <1>5, <1>6, <1>7 DEF RunOldWord

(* into an exit,                                                           *)
LEMMA RunSaveWithin ==
  ASSUME TraceTypes, LayoutInv, ExtentInv, RunSave
  PROVE  ExtentInv'
<1>1. /\ status = "running" /\ phase = "run" /\ ip \in DOMAIN memory /\ CacheStands
      /\ word.k = "save" /\ ip' = ip + 2
  BY LengthTypes DEF RunSave, RunInlineSave, At, cacheVars, CacheStands, traceVars
<1>2. ExitLength(memory, ip) \in {19, 10, 6} /\ ip \in Int /\ memory[ip].k = "save"
  BY <1>1 DEF ExitLength, TraceTypes, word
<1>3. /\ ip \in ip..(ip + ExitLength(memory, ip) - 1)
      /\ ip' \in (ip + 1)..(ip + ExitLength(memory, ip) - 1)
  BY <1>1, <1>2
<1>4. \E n \in DOMAIN memory : ExitStep(n)
  <2>1. PICK n : n = ip
    OBVIOUS
  <2>2. memory[n].k = "save" /\ ip \in n..(n + ExitLength(memory, n) - 1)
        /\ ip' \in (n + 1)..(n + ExitLength(memory, n) - 1)
    BY <1>2, <1>3, <2>1
  <2> QED BY <1>1, <2>1, <2>2 DEF ExitStep
<1> QED BY <1>1, <1>4, WithinKept DEF StepWithin

(* to one of its sides,                                                    *)
LEMMA RunTraceBranchWithin ==
  ASSUME TraceTypes, LayoutInv, TraceControlInv, ExtentInv, RunTraceBranch
  PROVE  ExtentInv'
<1>1. /\ status = "running" /\ phase = "run" /\ ip \in DOMAIN memory /\ CacheStands
      /\ word.k = "traceBranch" /\ ip' \in {ip + 1, ip + 9}
  BY DEF RunTraceBranch, At, cacheVars, CacheStands, traceVars, TraceBranchSkip
<1>2. InCache
  BY <1>1, RunningInCache
<1>3. PICK n : AtDecision(n)
  BY <1>1, <1>2, WhereWord
<1>4. /\ n \in DOMAIN memory /\ n \in Int /\ ip = n + 2 /\ memory[n].k = "save"
      /\ memory[n + 2].k = "traceBranch"
  BY <1>3 DEF AtDecision, TraceTypes
<1>5. ExitLength(memory, n) = 19
  BY <1>4 DEF ExitLength
<1>6. ExitStep(n)
  BY <1>1, <1>4, <1>5 DEF ExitStep
<1> QED BY <1>1, <1>4, <1>6, WithinKept DEF StepWithin

(* along it                                                                *)
LEMMA RunSideWithin ==
  ASSUME TraceTypes, LayoutInv, TraceControlInv, ExtentInv,
         RunTraceLi \/ RunSdPc \/ RunPopSp
  PROVE  ExtentInv'
<1>1. /\ status = "running" /\ phase = "run" /\ ip \in DOMAIN memory /\ CacheStands
      /\ word.k \in SideKind /\ ip' = ip + 1
  BY DEF RunTraceLi, RunSdPc, RunPopSp, At, cacheVars, CacheStands, traceVars, SideKind
<1>2. InCache
  BY <1>1, RunningInCache
<1>3. \E n \in DOMAIN memory : ExitStep(n)
  BY <1>1, <1>2, AlongSide
<1> QED BY <1>1, <1>3, WithinKept DEF StepWithin

(* and past a jump that was followed control stays in its trace.           *)
LEMMA RunPastWithin ==
  ASSUME TraceTypes, LayoutInv, ExtentInv, RunLiRd \/ RunFollowed
  PROVE  ExtentInv'
<1>1. status = "running" /\ phase = "run" /\ CacheStands
  BY DEF RunLiRd, RunFollowed, At, cacheVars, CacheStands, traceVars
<1>2. CASE RunFollowed
  <2>1. ip' = ip
    BY <1>2 DEF RunFollowed
  <2> QED BY <1>1, <2>1, WithinKept DEF StepWithin
<1>3. CASE RunLiRd
  <2>1. ip \in DOMAIN memory /\ word.k = "liRd" /\ ip' = ip + 3
    BY <1>3 DEF RunLiRd, At
  <2>2. word.k \in StepKind /\ StraightLength(word.k) = 3
    BY <2>1 DEF StepKind, StraightKind, StraightLength
  <2> QED BY <1>1, <2>1, <2>2, WithinKept DEF StepWithin
<1> QED BY <1>2, <1>3


LEMMA SideEnded ==
  ASSUME TraceTypes, LayoutInv, ExtentParts, phase = "run", ip \in DOMAIN memory,
         NEW n, NEW s, NEW a, NEW h, SideOf(n, s, a, h), OnSide(s, a, h)
  PROVE  EveryEnded
<1>1. s \in Int /\ n \in Int /\ ip \in s..(s + 7)
  BY SideWords, SideWord
<1>2. PICK k : k = ip - s
  OBVIOUS
<1>3. k \in 0..7 /\ ip = s + k
  BY <1>1, <1>2
<1>4. /\ n \in DOMAIN memory /\ memory[n].k = "save"
      /\ ip \in (n + 1)..(n + ExitLength(memory, n) - 1)
  BY <1>3, SideInExit
<1>5. ExitLength(memory, n) \in Int
  BY DEF ExitLength
<1>6. ip \in n..(n + ExitLength(memory, n) - 1)
  BY <1>1, <1>4, <1>5
<1> QED BY <1>4, <1>6, ExitEnded

(* Through a link control goes on elsewhere;                               *)
LEMMA RunLinkLeaves ==
  ASSUME TraceTypes, DispatcherTypeOK, LayoutInv, TraceControlInv, NoForwardedEcalls,
         ExtentInv, RunLink
  PROVE  ExtentInv'
<1>1. /\ status = "running" /\ phase = "run" /\ ip \in DOMAIN memory /\ word.k = "jal"
      /\ UNCHANGED <<memory, RailBasicBlocks, trace, status>> /\ phase' = "run" /\ linked'
  BY DEF RunLink, At, cacheVars, traceVars
<1>2. InCache /\ ~trace.busy /\ ExtentParts
  BY <1>1, RunningInCache, ExtentInvParts
<1>3. PICK n, s, a, h : SideOf(n, s, a, h) /\ OnSide(s, a, h)
  BY <1>1, <1>2, WhereWord DEF AtTail
<1>4. EveryEnded
  BY <1>1, <1>2, <1>3, SideEnded
<1> QED BY <1>1, <1>2, <1>4, LeavingKept

(* from allocateRoot and from exits it goes to the host.                   *)
LEMMA RunSwitchLeaves ==
  ASSUME TraceTypes, DispatcherTypeOK, LayoutInv, TraceControlInv, NoForwardedEcalls,
         ExtentInv, RunOldSwitch \/ RunTraceSwitch
  PROVE  ExtentInv'
<1>1. /\ status = "running" /\ phase = "run" /\ ip \in DOMAIN memory /\ word.k = "jalrT6"
      /\ UNCHANGED <<memory, RailBasicBlocks, trace, status>> /\ linked' = FALSE
  BY DEF RunOldSwitch, RunSwitch, RunTraceSwitch, At, cacheVars
<1>2. InCache /\ ~trace.busy /\ ExtentParts
  BY <1>1, RunningInCache, ExtentInvParts
<1>3. phase' \in {"init", "stub"}
  <2>1. CASE RunOldSwitch
    BY <1>2, <2>1, OldSwitchFrom
  <2>2. CASE RunTraceSwitch
    BY <2>2 DEF RunTraceSwitch
  <2> QED BY <2>1, <2>2
<1>4. EveryEnded
  <2>1. CASE AtRoot
    BY <2>1 DEF AtRoot, EveryEnded
  <2>2. ASSUME NEW n, InSwitch(n), ip = n + 5
        PROVE  EveryEnded
    <3>1. n \in DOMAIN memory /\ n \in Int /\ memory[n].k = "save" /\ memory[n + 2].k = "li"
      BY <2>2 DEF InSwitch, TraceTypes
    <3>2. ExitLength(memory, n) = 6
      BY <3>1 DEF ExitLength
    <3>3. ip \in n..(n + 6 - 1)
      BY <2>2, <3>1
    <3> QED BY <1>1, <1>2, <3>1, <3>2, <3>3, ExitEnded
  <2>3. ASSUME NEW n, NEW s, NEW a, NEW h, SideOf(n, s, a, h), OnSide(s, a, h)
        PROVE  EveryEnded
    BY <1>1, <1>2, <2>3, SideEnded
  <2>4. ~AtTail
    BY DEF AtTail
  <2> QED BY <1>1, <1>2, <2>1, <2>2, <2>3, <2>4, WhereWord
<1> QED BY <1>1, <1>2, <1>3, <1>4, LeavingKept

(* No step of the processor takes control out of its trace otherwise.      *)
LEMMA RunTraceStepWithin ==
  ASSUME TraceTypes, DispatcherTypeOK, LayoutInv, TraceControlInv, NoForwardedEcalls,
         ExtentInv, RunTraceStep
  PROVE  ExtentInv'
<1>1. CASE RunOldCrash
  <2>1. status' = "crashed"
    BY <1>1 DEF RunOldCrash, RunCrash
  <2> QED BY <2>1 DEF ExtentInv
<1> QED BY <1>1, RunOldWordWithin, RunSaveWithin, RunTraceBranchWithin, RunSideWithin,
           RunPastWithin, RunLinkLeaves, RunSwitchLeaves DEF RunTraceStep


-----------------------------------------------------------------------------
(* Control stays in its trace: the host.                                   *)

(* A trace begins: those that are there end before it.                     *)
LEMMA TraceBeginWithin ==
  ASSUME TraceTypes, LayoutInv, ExtentsLaid(memory, RailBasicBlocks), EveryEnded,
         NEW cursor, NEW a, NEW count, TraceBegin(cursor, a, count)
  PROVE  /\ ExtentsLaid(memory, RailBasicBlocks)' /\ EveryEnded'
         /\ PlainFrom(memory', trace'.railBB.startLocationInCache)
         /\ currentBB' = a /\ RailBasicBlocks' = RailBasicBlocks
<1>1. LayoutOf(memory, exits, RailBasicBlocks, trace)
  BY DEF LayoutInv
<1>2. Laid(memory) /\ memory \in Seq(TraceCodeWord)
  BY <1>1, LayoutParts, WordOfLaid
<1>3. /\ memory' = memory \o RestoreScratch /\ RailBasicBlocks' = RailBasicBlocks
      /\ currentBB' = a
  BY DEF TraceBegin, setCurrentBB
<1>4. SameFlow(memory, memory \o RestoreScratch)
  BY <1>2, RestorePiece, FlowGlued
<1>5. PICK m, mm : m = memory /\ mm = memory \o RestoreScratch
  OBVIOUS
<1>6. ASSUME NEW x \in DOMAIN RailBasicBlocks
      PROVE  Extent(mm, RailBasicBlocks[x]) /\ Ended(mm, RailBasicBlocks[x])
  <2>1. PICK b : b = RailBasicBlocks[x]
    OBVIOUS
  <2>2. /\ Laid(m) /\ b \in Block /\ Extent(m, b)
        /\ b.startLocationInCache \in DOMAIN m /\ Ended(m, b)
    BY <1>5, <2>1, BlockLaid DEF EveryEnded
  <2> QED BY <1>4, <1>5, <2>1, <2>2, FlowKept
<1>7. ExtentsLaid(memory, RailBasicBlocks)' /\ EveryEnded'
  BY <1>3, <1>5, <1>6 DEF ExtentsLaid, EveryEnded
<1>8. trace'.railBB.startLocationInCache = Len(m) + 1
  <2>1. PICK i : i = Fetch(cursor)
    OBVIOUS
  <2>2. PICK n : n = Len(m) + 1
    OBVIOUS
  <2>3. PICK z : z = ZeroBlock
    OBVIOUS
  <2>4. PICK b : b = [z EXCEPT !.firstAddr = a, !.basicBlockAddress = a,
                               !.startInst = i, !.startLocationInCache = n]
    OBVIOUS
  <2>5. trace' = [busy |-> TRUE, railBB |-> b, count |-> count - 1]
    BY <1>5, <2>1, <2>2, <2>3, <2>4 DEF TraceBegin, EndOf
  <2>6. z \in Block
    BY <2>3, ZeroBlockType
  <2>7. b.startLocationInCache = n
    BY <2>4, <2>6 DEF Block
  <2> QED BY <2>2, <2>5, <2>7
<1>9. PlainFrom(mm, Len(m) + 1)
  <2>1. PICK r : r = W("restore", 0, 0)
    OBVIOUS
  <2>2. mm = m \o <<r>> /\ r.k = "restore"
    BY <1>5, <2>1, TraceWordFields DEF RestoreScratch
  <2>3. Len(m) \in Nat /\ DOMAIN mm = 1..(Len(m) + 1) /\ mm[Len(m) + 1] = r
    BY <1>2, <1>5, <2>2
  <2> QED BY <2>2, <2>3 DEF PlainFrom
<1> QED BY <1>3, <1>5, <1>7, <1>8, <1>9

(* init allocates the first trace                                          *)
LEMMA TraceInitAllocateWithin ==
  ASSUME TraceTypes, LayoutInv, TraceControlInv, ExtentInv, TraceInit_Allocate
  PROVE  ExtentInv'
<1>1. /\ status = "running" /\ phase = "init" /\ phase' = "initWait" /\ status' = status
      /\ TraceBegin(program_counter, program_counter, 1) /\ linked' = linked
      /\ frame' = [EmptyFrame EXCEPT !.nextBlockAddr = program_counter]
  BY DEF TraceInit_Allocate
<1>2. DOMAIN RailBasicBlocks = {} /\ ExtentParts
  BY <1>1, HostParts, ExtentInvParts DEF InHost
<1>3. EveryEnded
  BY <1>2 DEF EveryEnded
<1>4. /\ ExtentsLaid(memory, RailBasicBlocks)' /\ EveryEnded'
      /\ PlainFrom(memory', trace'.railBB.startLocationInCache)
      /\ currentBB' = program_counter
  BY <1>1, <1>2, <1>3, TraceBeginWithin DEF ExtentParts
<1>5. frame'.nextBlockAddr = program_counter
  <2>1. PICK f : f = EmptyFrame
    OBVIOUS
  <2>2. f \in FrameType
    BY <2>1, EmptyFrameType
  <2> QED BY <1>1, <2>1, <2>2 DEF FrameType
<1>6. ~linked'
  BY <1>1, <1>2 DEF ExtentParts
<1> QED BY <1>1, <1>4, <1>5, <1>6 DEF ExtentInv, EveryEnded, AllEnded, InCurrent, InPlainTrace

(* and enters it.                                                          *)
LEMMA TraceInitEnterWithin ==
  ASSUME TraceTypes, DispatcherTypeOK, LayoutInv, TraceControlInv, ExtentInv,
         TraceInit_Enter
  PROVE  ExtentInv'
<1>1. /\ status = "running" /\ phase = "initWait" /\ ~trace.busy /\ phase' = "run"
      /\ ip' = Lookup(frame.nextBlockAddr).startLocationInCache
      /\ UNCHANGED <<memory, RailBasicBlocks, currentBB, trace, frame, status, linked>>
  BY DEF TraceInit_Enter, Init_Enter, EnterCacheAt, cacheVars
<1>2. ExtentParts /\ InHost
  BY <1>1, HostParts, ExtentInvParts
<1>3. PICK a : a = frame.nextBlockAddr
  OBVIOUS
<1>4. currentBB = a /\ a \in DOMAIN RailBasicBlocks /\ ~linked
  BY <1>1, <1>2, <1>3 DEF ExtentParts, InHost
<1>5. PICK b : b = RailBasicBlocks[a]
  OBVIOUS
<1>6. ip' = b.startLocationInCache
  BY <1>1, <1>3, <1>4, <1>5 DEF Lookup
<1>7. ip' \in Within(b) /\ memory[ip'].k # "ecall"
  BY <1>2, <1>4, <1>5, <1>6, BlockLaid DEF ExtentParts, StartsAt
<1>8. ExtentsLaid(memory, RailBasicBlocks)' /\ AllEnded'
  BY <1>1, <1>2, <1>3, <1>4 DEF ExtentParts, ExtentsLaid, AllEnded, OpenAt
<1>9. InCurrent'
  BY <1>1, <1>4, <1>5, <1>7 DEF InCurrent
<1> QED BY <1>1, <1>8, <1>9 DEF ExtentInv

(* stub goes on to a trace or begins one.                                  *)
LEMMA TraceLeaveWithin ==
  ASSUME TraceTypes, LayoutInv, TraceControlInv, ExtentInv, InStub,
         NEW next, NEW execLast, TraceLeaveFor(next, execLast)
  PROVE  ExtentInv'
<1>1. /\ status = "running" /\ phase = "stub" /\ phase' = "stubWait"
      /\ UNCHANGED <<status, linked>>
  BY DEF TraceLeaveFor, InStub
<1>2. ExtentParts /\ ~trace.busy
  BY <1>1, HostParts, ExtentInvParts DEF InHost
<1>3. EveryEnded /\ ~linked
  BY <1>1, <1>2 DEF EveryEnded, ExtentParts, AllEnded, OpenAt
<1>4. /\ ExtentsLaid(memory, RailBasicBlocks)' /\ EveryEnded'
      /\ trace'.busy => PlainFrom(memory', trace'.railBB.startLocationInCache)
  <2>1. CASE next \in DOMAIN RailBasicBlocks
    <3>1. UNCHANGED <<memory, RailBasicBlocks, trace>>
      BY <2>1 DEF TraceLeaveFor
    <3> QED BY <1>2, <1>3, <3>1 DEF ExtentParts, ExtentsLaid, EveryEnded
  <2>2. CASE next \notin DOMAIN RailBasicBlocks
    <3>1. TraceBegin(Cursor, next, TraceBlocks)
      BY <2>2 DEF TraceLeaveFor
    <3> QED BY <1>2, <1>3, <3>1, TraceBeginWithin DEF ExtentParts
  <2> QED BY <2>1, <2>2
<1> QED BY <1>1, <1>3, <1>4 DEF ExtentInv, EveryEnded, AllEnded, InCurrent, InPlainTrace


(* What stub overwrites is no sequence, so that the traces stay.           *)
LEMMA LinkedMemoryFlow ==
  ASSUME TraceTypes, DispatcherTypeOK, LayoutInv, ReportOK, NEW next,
         NEW mm, mm = LinkedMemory(next)
  PROVE  /\ SameFlow(memory, mm) /\ Len(mm) = Len(memory)
         /\ \A s : PlainFrom(memory, s) => PlainFrom(mm, s)
         /\ DOMAIN mm = DOMAIN memory
         /\ \A k \in DOMAIN memory : memory[k].k = "save" => mm[k + 2] = memory[k + 2]
<1>1. LayoutOf(memory, exits, RailBasicBlocks, trace) /\ text \in Seq(Inst)
  BY DEF LayoutInv, TraceTypes
<1>2. Laid(memory) /\ ExitsKnown(memory, exits) /\ memory \in Seq(TraceCodeWord)
  BY <1>1, LayoutParts, WordOfLaid
<1>3. CASE Reported /\ ExitType = "DIRECT_BRANCH"
  <2>1. PICK a : a = lastInstAddress
    OBVIOUS
  <2>2. /\ a \in DOMAIN exits /\ LastInst = text[a] /\ text[a].op \in ControlOp
    BY <1>3, <2>1, ReportedExit DEF Reported
  <2>3. text[a].op \in {"BRANCH", "JAL"}
    BY <1>3, <2>2 DEF ExitType, NextInstType, ControlOp
  <2>4. text[a].op = "JAL" => taken
    BY <1>3, <2>1, <2>2 DEF ReportOK, Reported
  <2>5. exits[a] \in Int /\ taken \in BOOLEAN /\ ExitKnown(memory, a, exits[a])
    BY <1>2, <2>2 DEF TraceTypes, DispatcherTypeOK, ExitsKnown
  <2>6. PICK p, v : p = LinkPlace(a, exits[a], taken) /\ v = LinkTarget(next)
    OBVIOUS
  <2>7. PICK x, y : x = W("popSp", 0, 0) /\ y = W("jal", a, v)
    OBVIOUS
  <2>8. mm = [memory EXCEPT ![p] = x, ![p + 1] = y]
    <3>1. /\ LinkWords(a, next)[1] = x /\ LinkWords(a, next)[2] = y
          /\ exits[a] + LinkOffset = p
      BY <2>6, <2>7 DEF LinkWords, LinkOffset, LinkPlace
    <3> QED BY <1>3, <2>1, <3>1 DEF LinkedMemory
  <2>9. PICK n : n = SaveOf(a, exits[a])
    OBVIOUS
  <2>10. PICK e, tk : e = exits[a] /\ tk = taken
    OBVIOUS
  <2>11. /\ p \in DOMAIN memory /\ p + 1 \in DOMAIN memory
         /\ memory[p].k \in {"lui", "addiEnd", "popSp"}
         /\ memory[p + 1].k \in {"addi", "jalrT6", "jal"}
         /\ p \in (n + 1)..(n + ExitLength(memory, n) - 1) /\ p # n + 2 /\ p + 1 # n + 2
         /\ p + 1 \in (n + 1)..(n + ExitLength(memory, n) - 1)
         /\ n \in DOMAIN memory /\ memory[n].k = "save"
    <3>1. /\ e \in Int /\ tk \in BOOLEAN /\ ExitKnown(memory, a, e)
          /\ text[a].op = "JAL" => tk
          /\ n = SaveOf(a, e) /\ p = LinkPlace(a, e, tk)
      BY <2>4, <2>5, <2>6, <2>9, <2>10
    <3>2. n \in DOMAIN memory /\ memory[n].k = "save"
      BY <2>5, <2>9 DEF ExitKnown
    <3> QED BY <1>2, <2>3, <3>1, <3>2, LinkReplaces
  <2>12. x.k = "popSp" /\ y.k = "jal"
    BY <2>7, TraceWordFields
  <2>13. {"lui", "addiEnd", "popSp", "addi", "jalrT6", "jal"}
           \cap (StraightKind \cup {"save"}) = {}
    BY DEF StraightKind
  <2>14. DOMAIN mm = DOMAIN memory /\ Len(mm) = Len(memory)
    BY <1>2, <2>8
  <2>15. ASSUME NEW k \in DOMAIN memory
         PROVE  FlowAt(memory, mm, k)
    <3>1. CASE k = p \/ k = p + 1
      <4>1. mm[k] \in {x, y}
        BY <1>2, <2>8, <3>1
      <4>2. memory[k].k \notin StraightKind \cup {"save"}
        BY <2>11, <2>13, <3>1
      <4>3. mm[k].k \notin StraightKind \cup {"save"}
        BY <2>12, <2>13, <4>1
      <4> QED BY <2>14, <4>2, <4>3 DEF FlowAt
    <3>2. CASE k # p /\ k # p + 1
      <4>1. mm[k] = memory[k]
        BY <1>2, <2>8, <3>2
      <4> QED BY <2>14, <4>1 DEF FlowAt
    <3> QED BY <3>1, <3>2
  <2>16. ASSUME NEW k \in DOMAIN memory, memory[k].k = "save"
         PROVE  mm[k + 2] = memory[k + 2]
    <3>1. k + 2 # p /\ k + 2 # p + 1
      <4>1. CASE k = n
        BY <2>11, <4>1
      <4>2. CASE k # n
        <5>1. \A q \in (n + 1)..(n + ExitLength(memory, n) - 1) :
                q \notin k..(k + ExitLength(memory, k) - 1)
          BY <1>2, <2>11, <2>16, <4>2, ExitsApart
        <5>2. k \in Int
          BY <1>2
        <5>3. k + 2 \in k..(k + ExitLength(memory, k) - 1)
          BY <5>2 DEF ExitLength
        <5> QED BY <2>11, <5>1, <5>3
      <4> QED BY <4>1, <4>2
    <3>2. ExitAt(memory, k) /\ k \in Int /\ DOMAIN memory = 1..Len(memory)
          /\ Len(memory) \in Nat
      BY <1>2, <2>16 DEF Laid, ExitsLaid
    <3>3. \A q \in (k + 1)..(k + ExitLength(memory, k) - 1) : q \in DOMAIN memory
      BY <3>2, ExitShape
    <3>4. k + 2 \in DOMAIN memory
      BY <3>2, <3>3 DEF ExitLength
    <3> QED BY <1>2, <2>8, <3>1, <3>4
  <2> QED BY <1>2, <2>14, <2>15, <2>16, FlowLinked
<1>4. CASE ~(Reported /\ ExitType = "DIRECT_BRANCH")
  <2>1. mm = memory
    BY <1>4 DEF LinkedMemory
  <2>2. \A k \in DOMAIN memory : FlowAt(memory, mm, k)
    BY <2>1 DEF FlowAt
  <2> QED BY <1>2, <2>1, <2>2, FlowLinked
<1> QED BY <1>3, <1>4

(* Another block of the same extent.                                       *)
LEMMA SameExtent ==
  ASSUME NEW m, NEW b, NEW c, c.startLocationInCache = b.startLocationInCache,
         c.endLocationInCache = b.endLocationInCache
  PROVE  /\ Extent(m, b) => Extent(m, c)
         /\ Ended(m, b) => Ended(m, c)
         /\ Within(c) = Within(b)
  BY DEF Extent, Ended, Within

(* stub enters the trace.                                                  *)
LEMMA TraceStubEnterWithin ==
  ASSUME TraceTypes, DispatcherTypeOK, LayoutInv, TraceControlInv, NoForwardedEcalls,
         ExtentInv, TraceStub_Enter
  PROVE  ExtentInv'
<1>1. PICK key : key = frame.nextBlockAddr
  OBVIOUS
<1>2. PICK next : next = Lookup(key)
  OBVIOUS
<1>3. /\ status = "running" /\ phase = "stubWait" /\ ~trace.busy
      /\ memory' = LinkedMemory(next) /\ currentBB' = next.firstAddr
      /\ phase' = "run" /\ ip' = ReturnVal(next)
      /\ UNCHANGED <<trace, status, linked>>
  BY <1>1, <1>2 DEF TraceStub_Enter, setCurrentBB, EnterCacheAt
<1>4. /\ ReportOK /\ key \in DOMAIN RailBasicBlocks /\ frame.shouldNotExecLast
  BY <1>1, <1>3, StubWaitFacts
<1>5. ExtentParts /\ ~linked
  BY <1>3, ExtentInvParts DEF ExtentParts
<1>6. PICK mm : mm = LinkedMemory(next)
  OBVIOUS
<1>7. PICK m : m = memory
  OBVIOUS
<1>8. /\ SameFlow(m, mm) /\ Len(mm) = Len(m) /\ memory' = mm
      /\ \A s : PlainFrom(m, s) => PlainFrom(mm, s)
  BY <1>3, <1>4, <1>6, <1>7, LinkedMemoryFlow
<1>9. PICK new : new = RailBasicBlocks'
  OBVIOUS
<1>10. PICK bba : bba = frame.currentBasicBlock.basicBlockAddress
  OBVIOUS
<1>11. new \in {RailBasicBlocks, [RailBasicBlocks EXCEPT ![key].basicBlockAddress = bba]}
  BY <1>1, <1>2, <1>9, <1>10 DEF TraceStub_Enter, AdoptSegment
<1>12. DOMAIN new = DOMAIN RailBasicBlocks
  BY <1>11
<1>13. ASSUME NEW a \in DOMAIN RailBasicBlocks
       PROVE  /\ new[a].startLocationInCache = RailBasicBlocks[a].startLocationInCache
              /\ new[a].endLocationInCache = RailBasicBlocks[a].endLocationInCache
  <2>1. \/ new[a] = RailBasicBlocks[a]
        \/ new[a] = [RailBasicBlocks[a] EXCEPT !.basicBlockAddress = bba]
    BY <1>11
  <2>2. RailBasicBlocks[a] \in Block
    BY DEF TraceTypes
  <2> QED BY <2>1, <2>2 DEF Block
<1>14. next = RailBasicBlocks[key] /\ next.firstAddr = key
  <2>1. next = RailBasicBlocks[key]
    BY <1>2, <1>4 DEF Lookup
  <2> QED BY <1>4, <1>5, <2>1, BlockLaid DEF ExtentParts
<1>15. /\ phase' = "run" /\ ~linked' /\ currentBB' = key
       /\ ip' = new[key].startLocationInCache
  <2>1. ip' = next.startLocationInCache
    BY <1>3, <1>4 DEF ReturnVal
  <2> QED BY <1>3, <1>4, <1>5, <1>13, <1>14, <2>1
<1>16. ASSUME NEW a \in DOMAIN new
       PROVE  /\ Extent(mm, new[a]) /\ new[a].startLocationInCache \in Within(new[a])
              /\ mm[new[a].startLocationInCache].k # "ecall"
              /\ Ended(mm, new[a]) \/ OpenAt(a)'
  <2>1. PICK b : b = RailBasicBlocks[a]
    OBVIOUS
  <2>2. /\ Laid(m) /\ b \in Block /\ Extent(m, b) /\ b.startLocationInCache \in Within(b)
        /\ b.startLocationInCache \in DOMAIN m /\ StartsAt(m, b.startLocationInCache)
    BY <1>5, <1>7, <1>12, <2>1, BlockLaid DEF ExtentParts
  <2>3. Extent(mm, b) /\ (Ended(m, b) => Ended(mm, b))
    BY <1>8, <2>2, FlowKept
  <2>4. PICK c : c = new[a]
    OBVIOUS
  <2>5. /\ c.startLocationInCache = b.startLocationInCache
        /\ c.endLocationInCache = b.endLocationInCache
    BY <1>12, <1>13, <2>1, <2>4
  <2>6. mm[c.startLocationInCache].k # "ecall"
    <3>1. m[b.startLocationInCache].k = "restore"
      BY <2>2 DEF StartsAt
    <3>2. FlowAt(m, mm, b.startLocationInCache)
      BY <1>8, <2>2 DEF SameFlow
    <3> QED BY <2>5, <3>1, <3>2 DEF FlowAt, StraightKind
  <2>7. ASSUME ~Ended(m, b)
        PROVE  OpenAt(a)'
    <3>1. OpenAt(a)
      BY <1>5, <1>7, <1>12, <2>1, <2>7 DEF ExtentParts, AllEnded
    <3>2. /\ b.endLocationInCache = Len(m) + 1 /\ PlainFrom(m, b.startLocationInCache)
          /\ a = key
      BY <1>1, <1>3, <1>7, <2>1, <3>1 DEF OpenAt
    <3>3. /\ c.endLocationInCache = Len(mm) + 1 /\ PlainFrom(mm, c.startLocationInCache)
      BY <1>8, <2>5, <3>2
    <3> QED BY <1>8, <1>9, <1>15, <2>4, <3>2, <3>3 DEF OpenAt
  <2> QED BY <2>2, <2>3, <2>4, <2>5, <2>6, <2>7, SameExtent
<1>17. ExtentsLaid(memory, RailBasicBlocks)' /\ AllEnded'
  BY <1>8, <1>9, <1>16 DEF ExtentsLaid, AllEnded
<1>18. InCurrent'
  BY <1>4, <1>8, <1>9, <1>12, <1>15, <1>16 DEF InCurrent
<1> QED BY <1>3, <1>15, <1>17, <1>18 DEF ExtentInv

(* A step of allocateTrace lays out words without exits and goes on, or    *)
(* words that end the trace.                                               *)
Lengthened ==
  /\ trace'.busy /\ RailBasicBlocks' = RailBasicBlocks
  /\ trace'.railBB.startLocationInCache = trace.railBB.startLocationInCache
  /\ \E w : Piece(w) /\ PlainFrom(w, 1) /\ memory' = memory \o w

Completed ==
  \E type \in BlockType : \E w : Piece(w) /\ EndPiece(w) /\ TraceEnd(type, w)

LEMMA TraceStepLays ==
  ASSUME TraceTypes, TraceStep
  PROVE  trace.busy /\ (Lengthened \/ Completed)
<1> DEFINE pc == program_counter
           i  == text[pc]
<1>0. text \in Seq(Inst) /\ pc \in Int
      /\ trace \in [busy : BOOLEAN, railBB : Block, count : Nat]
  BY DEF TraceTypes
<1>1. CASE TraceBranch
  <2>1. trace.busy /\ Fetch(pc).op = "BRANCH"
    BY <1>1 DEF TraceBranch, TraceAt
  <2>2. InText(pc) /\ i.op = "BRANCH" /\ "DIRECT_BRANCH" \in BlockType
    BY <1>0, <2>1, CursorInText DEF BlockType
  <2>3. PICK w : w = TraceBranchExit(pc)
    OBVIOUS
  <2>4. Piece(w) /\ Len(w) = 19 /\ w[1].k = "save" /\ w[3] = W("traceBranch", pc, 0)
    BY <1>0, <2>2, <2>3, BranchExitPiece
  <2>5. w[1 + 2].k = "traceBranch"
    BY <2>4, TraceWordFields
  <2>6. Len(w) = ExitLength(w, 1)
    BY <2>4, <2>5 DEF ExitLength
  <2>7. EndPiece(w)
    BY <2>4, <2>6, NoSteps
  <2>8. TraceEnd("DIRECT_BRANCH", w)
    BY <1>1, <2>3 DEF TraceBranch, TraceExits
  <2> QED BY <2>1, <2>2, <2>4, <2>7, <2>8 DEF Completed
<1>2. CASE TraceJump
  <2>1. trace.busy /\ trace.count > 0 /\ Fetch(pc).op = "JAL"
    BY <1>2 DEF TraceJump, TraceAt
  <2>2. InText(pc) /\ Fetch(pc) = i
    BY <1>0, <2>1, CursorInText
  <2>3. PICK w : w = FollowedJump(i, pc)
    OBVIOUS
  <2>4. memory' = memory \o w /\ RailBasicBlocks' = RailBasicBlocks
        /\ trace' = [trace EXCEPT !.count = @ - 1, !.railBB.type = "DIRECT_BRANCH"]
    BY <1>2, <2>2, <2>3 DEF TraceJump, TraceGoesOn
  <2>5. /\ trace'.busy
        /\ trace'.railBB.startLocationInCache = trace.railBB.startLocationInCache
    BY <1>0, <2>1, <2>4 DEF Block
  <2>6. Piece(w)
    BY <1>0, <2>2, <2>3, FollowedPiece
  <2>7. PlainFrom(w, 1)
    BY <2>3, InLinePlain
  <2> QED BY <2>1, <2>4, <2>5, <2>6, <2>7 DEF Lengthened
<1>3. CASE TraceLastJump \/ TraceJalr
  <2>1. trace.busy /\ Fetch(pc).op \in {"JAL", "JALR"}
    BY <1>3 DEF TraceLastJump, TraceJalr, TraceAt
  <2>2. InText(pc) /\ i.op \in {"JAL", "JALR"}
    BY <1>0, <2>1, CursorInText
  <2>3. HostOf(pc) = ContextSwitchTraceExitTaken
    BY <2>2 DEF HostOf
  <2>4. PICK w : w = TraceExit(pc, HostOf(pc))
    OBVIOUS
  <2>5. Piece(w) /\ Len(w) = 10 /\ w[1].k = "save" /\ w[3] = W("lui", 0, pc)
    BY <1>0, <2>2, <2>4, ExitWordPiece
  <2>6. w[1 + 2].k = "lui"
    BY <2>5, TraceWordFields
  <2>7. Len(w) = ExitLength(w, 1)
    BY <2>5, <2>6 DEF ExitLength
  <2>8. EndPiece(w)
    BY <2>5, <2>7, NoSteps
  <2>9. PICK type \in {"DIRECT_BRANCH", "INDIRECT_BRANCH"} : TraceEnd(type, w)
    BY <1>3, <2>3, <2>4 DEF TraceLastJump, TraceJalr, TraceExits
  <2>10. type \in BlockType
    BY DEF BlockType
  <2> QED BY <2>1, <2>5, <2>8, <2>9, <2>10 DEF Completed
<1>4. CASE TraceSystem
  <2>1. trace.busy /\ Fetch(pc).op = "SYSTEM"
    BY <1>4 DEF TraceSystem, TraceAt
  <2>2. InText(pc) /\ i.op = "SYSTEM" /\ "SYSCALL" \in BlockType
    BY <1>0, <2>1, CursorInText DEF BlockType
  <2>3. HostOf(pc) = ContextSwitchTraceExit
    BY <2>2 DEF HostOf
  <2>4. PICK x : x = TraceExit(pc, HostOf(pc))
    OBVIOUS
  <2>5. Piece(x) /\ Len(x) = 10 /\ x[1].k = "save" /\ x[3] = W("lui", 0, pc)
    BY <1>0, <2>2, <2>4, ExitWordPiece
  <2>6. x[1 + 2].k = "lui"
    BY <2>5, TraceWordFields
  <2>7. Len(x) = ExitLength(x, 1)
    BY <2>5, <2>6 DEF ExitLength
  <2>8. EndPiece(x \o Ecall(pc))
    BY <2>5, <2>7, EcallTail
  <2>9. Piece(x \o Ecall(pc))
    <3>1. Piece(Ecall(pc))
      BY <2>2, EcallPiece
    <3> QED BY <2>5, <3>1, PieceGlued DEF Piece
  <2>10. TraceEnd("SYSCALL", x \o Ecall(pc))
    BY <1>4, <2>3, <2>4 DEF TraceSystem, TraceExits
  <2> QED BY <2>1, <2>2, <2>8, <2>9, <2>10 DEF Completed
<1>5. CASE TraceInstruction
  <2>1. trace.busy /\ Fetch(pc).op \in Opcode \ ControlOp
    BY <1>5 DEF TraceInstruction, TraceAt
  <2>2. Fetch(pc).op # "none"
    BY <2>1 DEF Opcode
  <2>3. InText(pc) /\ Fetch(pc) = i
    BY <1>0, <2>2, CursorInText
  <2>4. PICK x : x = TraceInLine(i, pc)
    OBVIOUS
  <2>5. Piece(x)
    BY <1>0, <2>1, <2>3, <2>4, InLinePiece
  <2>6. PlainFrom(x, 1)
    BY <2>4, InLinePlain
  <2>7. CASE TraceSegmentsAfter(Fetch(pc))
    <3>1. PICK y : y = SwitchTo(ContextSwitchTaken)
      OBVIOUS
    <3>2. TraceEnd("SEGMENTED", x \o y) /\ "SEGMENTED" \in BlockType
      BY <1>5, <2>3, <2>4, <2>7, <3>1 DEF TraceInstruction, BlockType
    <3>3. Piece(y) /\ y[1].k = "save" /\ Len(y) = ExitLength(y, 1)
      BY <3>1, SwitchPiece, SwitchLength
    <3>4. EndPiece(x \o y)
      BY <2>5, <2>6, <3>3, PlainTail
    <3>5. Piece(x \o y)
      BY <2>5, <3>3, PieceGlued DEF Piece
    <3> QED BY <2>1, <3>2, <3>4, <3>5 DEF Completed
  <2>8. CASE ~TraceSegmentsAfter(Fetch(pc))
    <3>1. memory' = memory \o x /\ RailBasicBlocks' = RailBasicBlocks /\ trace' = trace
      BY <1>5, <2>3, <2>4, <2>8 DEF TraceInstruction, TraceGoesOn
    <3> QED BY <2>1, <2>5, <2>6, <3>1 DEF Lengthened
  <2> QED BY <2>7, <2>8
<1>6. CASE TraceTextEnd
  <2>1. trace.busy
    BY <1>6 DEF TraceTextEnd, TraceAt
  <2>2. PICK type \in BlockType : TraceEnd(type, << >>)
    <3>1. trace.railBB.type \in BlockType
      BY <1>0 DEF Block
    <3> QED BY <1>6, <3>1 DEF TraceTextEnd
  <2>3. Piece(<< >>) /\ EndPiece(<< >>)
    BY EmptyPiece DEF EndPiece
  <2> QED BY <2>1, <2>2, <2>3 DEF Completed
<1> QED BY <1>1, <1>2, <1>3, <1>4, <1>5, <1>6 DEF TraceStep

(* While a trace is allocated every other one has its exit, and stub waits *)
(* for the address of this one.                                            *)
LEMMA WhileAllocating ==
  ASSUME TraceTypes, LayoutInv, TraceControlInv, ExtentInv, status = "running", trace.busy
  PROVE  /\ ExtentParts /\ EveryEnded /\ ~linked
         /\ phase \in {"initWait", "stubWait"}
         /\ frame.nextBlockAddr = trace.railBB.firstAddr
         /\ StartsAt(memory, trace.railBB.startLocationInCache)
         /\ PlainFrom(memory, trace.railBB.startLocationInCache)
         /\ Laid(memory) /\ memory \in Seq(TraceCodeWord) /\ trace.railBB \in Block
<1>1. ExtentParts
  BY ExtentInvParts
<1>2. /\ phase \in {"initWait", "stubWait"} /\ ~linked
      /\ PlainFrom(memory, trace.railBB.startLocationInCache)
  BY <1>1 DEF ExtentParts, InPlainTrace
<1>3. frame.nextBlockAddr = trace.railBB.firstAddr
  BY <1>2, HostParts DEF InHost
<1>4. LayoutOf(memory, exits, RailBasicBlocks, trace)
  BY DEF LayoutInv
<1>5. Laid(memory) /\ TraceBegun(memory, RailBasicBlocks, trace)
  BY <1>4, LayoutParts
<1>6. /\ trace.railBB.firstAddr \notin DOMAIN RailBasicBlocks
      /\ StartsAt(memory, trace.railBB.startLocationInCache)
  BY <1>5 DEF TraceBegun
<1>7. EveryEnded
  BY <1>1, <1>2, <1>3, <1>6 DEF EveryEnded, ExtentParts, AllEnded, OpenAt
<1>8. memory \in Seq(TraceCodeWord) /\ trace.railBB \in Block
  BY DEF TraceTypes
<1> QED BY <1>1, <1>2, <1>3, <1>5, <1>6, <1>7, <1>8

(* The traces that are there stay what they are when more is laid out.     *)
LEMMA TracesBefore ==
  ASSUME TraceTypes, LayoutInv, ExtentsLaid(memory, RailBasicBlocks), EveryEnded,
         NEW w, Piece(w), NEW a \in DOMAIN RailBasicBlocks
  PROVE  /\ Extent(memory \o w, RailBasicBlocks[a])
         /\ Ended(memory \o w, RailBasicBlocks[a])
<1>1. PICK b : b = RailBasicBlocks[a]
  OBVIOUS
<1>2. PICK m, mm : m = memory /\ mm = memory \o w
  OBVIOUS
<1>3. /\ Laid(m) /\ b \in Block /\ Extent(m, b)
      /\ b.startLocationInCache \in DOMAIN m /\ Ended(m, b)
  BY <1>1, <1>2, BlockLaid DEF EveryEnded
<1>4. SameFlow(m, mm)
  BY <1>2, <1>3, FlowGlued
<1> QED BY <1>1, <1>2, <1>3, <1>4, FlowKept

(* The trace that is complete is not open unless the text ended in it.     *)
LEMMA TraceEndWithin ==
  ASSUME TraceTypes, LayoutInv, TraceControlInv, ExtentInv, status = "running", trace.busy,
         NEW type \in BlockType, NEW w, Piece(w), EndPiece(w), TraceEnd(type, w),
         UNCHANGED <<phase, frame, currentBB, linked>>
  PROVE  ExtentInv'
<1>1. /\ ExtentParts /\ EveryEnded /\ ~linked
      /\ phase \in {"initWait", "stubWait"}
      /\ frame.nextBlockAddr = trace.railBB.firstAddr
      /\ StartsAt(memory, trace.railBB.startLocationInCache)
      /\ PlainFrom(memory, trace.railBB.startLocationInCache)
      /\ Laid(memory) /\ memory \in Seq(TraceCodeWord) /\ trace.railBB \in Block
  BY WhileAllocating
<1>2. PICK r : r = trace.railBB
  OBVIOUS
<1>3. PICK m, mm : m = memory /\ mm = memory \o w
  OBVIOUS
<1>4. PICK pc, i : pc = program_counter /\ i = Fetch(program_counter)
  OBVIOUS
<1>5. PICK b : b = [r EXCEPT !.type = type, !.lastAddr = pc, !.terminalInst = i,
                             !.endLocationInCache = EndOf(mm)]
  OBVIOUS
<1>6. /\ memory' = mm /\ RailBasicBlocks' = InsertedBB(RailBasicBlocks, b)
      /\ trace' = IdleTrace
  BY <1>2, <1>3, <1>4, <1>5 DEF TraceEnd
<1>7. /\ b \in Block /\ b.firstAddr = r.firstAddr
      /\ b.startLocationInCache = r.startLocationInCache
      /\ b.endLocationInCache = Len(mm) + 1
  <2>1. Laid(mm)
    BY <1>1, <1>3, PieceGlued
  <2>2. EndOf(mm) \in Nat /\ EndOf(mm) = Len(mm) + 1
    BY <2>1, WordOfLaid DEF EndOf
  <2>3. pc \in Int /\ i \in Inst
    BY <1>4, FetchType DEF TraceTypes
  <2> QED BY <1>1, <1>2, <1>5, <2>2, <2>3 DEF Block
<1>8. Extent(mm, b) /\ (w # << >> => Ended(mm, b))
  <2>1. b.startLocationInCache \in DOMAIN m /\ PlainFrom(m, b.startLocationInCache)
    BY <1>1, <1>2, <1>3, <1>7 DEF StartsAt
  <2> QED BY <1>1, <1>3, <1>7, <2>1, ExtentOfEnd
<1>9. PICK new, old : new = InsertedBB(RailBasicBlocks, b) /\ old = RailBasicBlocks
  OBVIOUS
<1>10. /\ DOMAIN new = DOMAIN old \cup {r.firstAddr} /\ new[r.firstAddr] = b
       /\ \A a \in DOMAIN old : new[a] \in {b, old[a]}
  BY <1>7, <1>9 DEF InsertedBB
<1>11. ASSUME w = << >>
       PROVE  OpenAt(r.firstAddr)'
  <2>1. mm = m
    BY <1>1, <1>3, <1>11
  <2>2. PlainFrom(mm, b.startLocationInCache)
    BY <1>1, <1>2, <1>3, <1>7, <2>1
  <2> QED BY <1>1, <1>2, <1>6, <1>7, <1>9, <1>10, <2>2 DEF OpenAt
<1>12. ASSUME NEW a \in DOMAIN new
       PROVE  Extent(mm, new[a]) /\ (Ended(mm, new[a]) \/ OpenAt(a)')
  <2>1. CASE a = r.firstAddr
    BY <1>8, <1>10, <1>11, <2>1
  <2>2. CASE a # r.firstAddr
    <3>1. a \in DOMAIN old /\ new[a] = old[a]
      BY <1>7, <1>9, <1>10, <2>2 DEF InsertedBB
    <3> QED BY <1>1, <1>3, <1>9, <3>1, TracesBefore DEF ExtentParts
  <2> QED BY <2>1, <2>2
<1>13. ExtentsLaid(memory, RailBasicBlocks)' /\ AllEnded'
  BY <1>6, <1>9, <1>12 DEF ExtentsLaid, AllEnded
<1>14. ~trace'.busy
  BY <1>6 DEF IdleTrace
<1>15. phase = "initWait" => currentBB = frame.nextBlockAddr
  BY <1>1 DEF ExtentParts
<1> QED BY <1>1, <1>13, <1>14, <1>15 DEF ExtentInv, InCurrent

(* So a step of the allocator leaves control where it will be.             *)
LEMMA AllocateTraceWithin ==
  ASSUME TraceTypes, LayoutInv, TraceControlInv, ExtentInv, AllocateTraceStep
  PROVE  ExtentInv'
<1>1. /\ status = "running" /\ TraceStep
      /\ UNCHANGED <<phase, frame, currentBB, linked>>
  BY DEF AllocateTraceStep
<1>2. trace.busy /\ (Lengthened \/ Completed)
  BY <1>1, TraceStepLays
<1>3. CASE Completed
  BY <1>1, <1>2, <1>3, TraceEndWithin DEF Completed
<1>4. CASE Lengthened
  <2>1. /\ ExtentParts /\ EveryEnded /\ ~linked
        /\ phase \in {"initWait", "stubWait"}
        /\ StartsAt(memory, trace.railBB.startLocationInCache)
        /\ PlainFrom(memory, trace.railBB.startLocationInCache)
        /\ memory \in Seq(TraceCodeWord) /\ trace.railBB \in Block
    BY <1>1, <1>2, WhileAllocating
  <2>2. PICK w : Piece(w) /\ PlainFrom(w, 1) /\ memory' = memory \o w
    BY <1>4 DEF Lengthened
  <2>3. RailBasicBlocks' = RailBasicBlocks
        /\ trace'.railBB.startLocationInCache = trace.railBB.startLocationInCache
    BY <1>4 DEF Lengthened
  <2>4. \A a \in DOMAIN RailBasicBlocks : /\ Extent(memory', RailBasicBlocks[a])
                                          /\ Ended(memory', RailBasicBlocks[a])
    BY <2>1, <2>2, TracesBefore DEF ExtentParts
  <2>5. ExtentsLaid(memory, RailBasicBlocks)' /\ AllEnded'
    BY <2>3, <2>4 DEF ExtentsLaid, AllEnded
  <2>6. InPlainTrace'
    <3>1. PICK s : s = trace.railBB.startLocationInCache
      OBVIOUS
    <3>2. s \in Int
      BY <2>1, <3>1 DEF Block
    <3>3. w \in Seq(TraceCodeWord)
      BY <2>2 DEF Piece, Laid
    <3>4. PlainFrom(memory \o w, s)
      BY <2>1, <2>2, <3>1, <3>2, <3>3, PlainGlued
    <3> QED BY <1>1, <2>1, <2>2, <2>3, <3>1, <3>4 DEF InPlainTrace
  <2>7. phase = "initWait" => currentBB = frame.nextBlockAddr
    BY <2>1 DEF ExtentParts
  <2> QED BY <1>1, <2>1, <2>5, <2>6, <2>7 DEF ExtentInv, InCurrent
<1> QED BY <1>2, <1>3, <1>4

(* A step of the host.                                                     *)
LEMMA TraceHostStepWithin ==
  ASSUME TraceTypes, DispatcherTypeOK, LayoutInv, TraceControlInv, NoForwardedEcalls,
         ExtentInv, TraceHostStep
  PROVE  ExtentInv'
<1>1. CASE TraceStub_Transfer \/ TraceStub_Segment \/ TraceStub_Emulate \/ TraceStub_Forward
  <2>1. InStub /\ \E next, execLast : TraceLeaveFor(next, execLast)
    BY <1>1 DEF TraceStub_Transfer, TraceStub_Segment, TraceStub_Emulate, TraceStub_Forward
  <2> QED BY <2>1, TraceLeaveWithin
<1>2. CASE TraceStub_Exit \/ TraceStub_GiveUp
  <2>1. status' # "running"
    BY <1>2 DEF TraceStub_Exit, TraceStub_GiveUp
  <2> QED BY <2>1 DEF ExtentInv
<1>3. CASE TraceInit_Allocate \/ TraceInit_Enter \/ TraceStub_Enter
  BY <1>3, TraceInitAllocateWithin, TraceInitEnterWithin, TraceStubEnterWithin
<1> QED BY <1>1, <1>2, <1>3 DEF TraceHostStep

(* Nothing happens.                                                        *)
LEMMA TraceStutterWithin ==
  ASSUME ExtentInv, UNCHANGED allVars
  PROVE  ExtentInv'
<1>1. UNCHANGED <<memory, RailBasicBlocks, currentBB, trace, status, phase, frame, ip, linked>>
  BY DEF allVars, vars, cacheVars, dispatcherVars, traceVars, traceHistory
<1>2. ExtentsLaid(memory, RailBasicBlocks)' <=> ExtentsLaid(memory, RailBasicBlocks)
  BY <1>1 DEF ExtentsLaid
<1>3. AllEnded => AllEnded'
  BY <1>1 DEF AllEnded, OpenAt
<1>4. InCurrent => InCurrent'
  BY <1>1 DEF InCurrent
<1>5. InPlainTrace => InPlainTrace'
  BY <1>1 DEF InPlainTrace
<1> QED BY <1>1, <1>2, <1>3, <1>4, <1>5 DEF ExtentInv

(* Text and tool are never written.                                        *)
LEMMA TraceTextStays ==
  ASSUME [TraceNext]_allVars
  PROVE  text' = text /\ tool' = tool
<1>1. ASSUME NEW cursor, NEW a, NEW count, TraceBegin(cursor, a, count)
      PROVE  text' = text /\ tool' = tool
  BY <1>1 DEF TraceBegin
<1>2. CASE RunTraceStep
  BY <1>2 DEF RunTraceStep, RunOldWord, RunOldCrash, RunSave, RunOldSwitch, RunTraceSwitch,
     RunTraceLi, RunSdPc, RunTraceBranch, RunPopSp, RunLink, RunLiRd, RunFollowed,
     RunRestoreScratch, RunLi, RunGuestWord, RunEcall, RunJumpInCache, RunCrash,
     RunInlineSave, RunSwitch, cacheVars
<1>3. CASE TraceHostStep
  <2>1. ASSUME NEW next, NEW execLast, TraceLeaveFor(next, execLast)
        PROVE  text' = text /\ tool' = tool
    BY <1>1, <2>1 DEF TraceLeaveFor
  <2> QED BY <1>1, <1>3, <2>1
     DEF TraceHostStep, TraceInit_Allocate, TraceInit_Enter, Init_Enter, TraceStub_Transfer,
         TraceStub_Segment, TraceStub_Emulate, TraceStub_Forward, TraceStub_Exit,
         TraceStub_Enter, TraceStub_GiveUp, cacheVars
<1>4. CASE AllocateTraceStep
  BY <1>4 DEF AllocateTraceStep
<1>5. CASE TraceHalted \/ UNCHANGED allVars
  BY <1>5 DEF TraceHalted, Halted, allVars, vars, cacheVars
<1> QED BY <1>2, <1>3, <1>4, <1>5 DEF TraceNext

(* Every step keeps the extents.                                           *)
LEMMA TraceNextWithin ==
  ASSUME TraceInv, NoForwardedEcalls, ExtentInv, [TraceNext]_allVars
  PROVE  ExtentInv'
<1>1. TraceTypes /\ DispatcherTypeOK /\ LayoutInv /\ TraceControlInv
  BY TraceInvParts
<1>2. TraceHalted => UNCHANGED allVars
  BY DEF TraceHalted, Halted, allVars
<1> QED BY <1>1, <1>2, RunTraceStepWithin, TraceHostStepWithin, AllocateTraceWithin,
           TraceStutterWithin DEF TraceNext

(* At first there is no trace.                                             *)
LEMMA TraceInitWithin == TraceInit => ExtentInv
<1> SUFFICES ASSUME TraceInit PROVE ExtentInv
  OBVIOUS
<1>1. /\ DOMAIN RailBasicBlocks = {} /\ currentBB = 0 /\ phase = "run" /\ ~linked
      /\ ~trace.busy
  BY DEF TraceInit, Init, CacheInit, IdleTrace
<1> QED BY <1>1 DEF ExtentInv, ExtentsLaid, AllEnded, InCurrent

(* While no ECALL is left to the host, control runs through the words of a *)
(* trace from its first to its exit, and off its end only if the text      *)
(* ended in it.                                                            *)
THEOREM ExtentInvariant == TraceSpec => [](NoForwardedEcalls => ExtentInv)
<1> DEFINE I == TraceInv /\ (NoForwardedEcalls => ExtentInv)
<1>1. TraceInit => I
  BY TraceInitKeeps, TraceInitWithin
<1>2. I /\ [TraceNext]_allVars => I'
  <2> SUFFICES ASSUME I, [TraceNext]_allVars
               PROVE  I'
    OBVIOUS
  <2>1. TraceInv'
    BY TraceNextKeeps
  <2>2. NoForwardedEcalls' => NoForwardedEcalls
    BY TraceTextStays DEF NoForwardedEcalls
  <2>3. NoForwardedEcalls => ExtentInv'
    BY TraceNextWithin
  <2> QED BY <2>1, <2>2, <2>3
<1>3. I => (NoForwardedEcalls => ExtentInv)
  OBVIOUS
<1> QED BY <1>1, <1>2, <1>3, PTL DEF TraceSpec

(* Until control takes a link, currentBB is the trace control is in        *)
(* (setCurrentBB in TraceBegin and TraceStub_Enter), so that stub takes    *)
(* the last instruction from the right trace when an exit does not report  *)
(* itself.  Without forwarded ECALLs: behind one, stub returns to the word *)
(* before the next trace, which may be any.                                *)
THEOREM TracesOwnTheirWords ==
  TraceSpec => [](NoForwardedEcalls => CurrentTraceOwnsIp)
<1>1. ASSUME TraceInv, ExtentInv
      PROVE  CurrentTraceOwnsIp
  <2> SUFFICES ASSUME status = "running", phase = "run", currentBB # 0, ~linked,
                      ip \in DOMAIN memory
               PROVE  LET bb == Lookup(currentBB)
                      IN  ip \in bb.startLocationInCache..(bb.endLocationInCache - 1)
    BY DEF CurrentTraceOwnsIp
  <2>1. TraceTypes /\ LayoutInv /\ ExtentParts
    BY <1>1, TraceInvParts, ExtentInvParts
  <2>2. DOMAIN RailBasicBlocks # {}
    BY <2>1 DEF ExtentParts, InCurrent
  <2>3. currentBB \in DOMAIN RailBasicBlocks /\ ip \in Within(RailBasicBlocks[currentBB])
    BY <2>1, <2>2, WithinItsTrace
  <2> QED BY <2>3 DEF Lookup, Within
<1> QED BY <1>1, TraceInvariant, ExtentInvariant, PTL
=============================================================================
