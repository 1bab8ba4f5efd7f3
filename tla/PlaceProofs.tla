---------------------------- MODULE PlaceProofs ----------------------------
(***************************************************************************)
(* Proofs about where the guest is while control is in linked traces: each *)
(* word of a trace is for the instruction the guest is at, however traces  *)
(* grow and their exits are patched, so that with trace linking too every  *)
(* step of the engine is one of the bare machine or none, and what is      *)
(* called is called at the instruction it was registered for.              *)
(***************************************************************************)
EXTENDS TraceProofs

-----------------------------------------------------------------------------
(* The paths through a cache that grows or is linked.                      *)

(* In mm, with the cursor at qc, n is for the instruction it was for in m. *)
Alike(m, pc, mm, qc, n) ==
  /\ n \in DOMAIN m => n \in DOMAIN mm /\ mm[n] = m[n]
  /\ n \notin DOMAIN m /\ n \in DOMAIN mm =>
       mm[n].k \in (StepKind \ {"restore"}) \cup {"save"}
  /\ SegmentExit(mm, n) <=> SegmentExit(m, n)
  /\ AddrAt(mm, qc, n) = AddrAt(m, pc, n)

(* Every sequence is, and what follows the last if a word leads there.     *)
Carried(m, pc, mm, qc, f) ==
  /\ Len(m) <= Len(mm) /\ Len(mm) \in Nat
  /\ \A n \in DOMAIN m : FlowAt(m, mm, n)
  /\ \A n : /\ Begins(m, n)
            /\ n = Len(m) + 1 => OpenEnd(m) \/ n \in DOMAIN f
            => Alike(m, pc, mm, qc, n)

LEMMA AlikePlace ==
  ASSUME NEW m, NEW pc, NEW mm, NEW qc, NEW n, Alike(m, pc, mm, qc, n), NEW f, NEW p
  PROVE  PlaceAt(mm, qc, f, n, p) = PlaceAt(m, pc, f, n, p)
BY DEF Alike, PlaceAt

(* A word of a trace and what follows it.                                  *)
LEMMA StepsAlike ==
  ASSUME NEW m, Laid(m), NEW pc, NEW mm, NEW qc, NEW f, Carried(m, pc, mm, qc, f),
         NEW n \in DOMAIN m, m[n].k \in StepKind
  PROVE  /\ n \in DOMAIN mm /\ mm[n] = m[n] /\ NextOf(mm, n) = NextOf(m, n)
         /\ Alike(m, pc, mm, qc, NextOf(m, n))
         /\ Begins(m, NextOf(m, n))
<1>1. Len(m) \in Nat /\ DOMAIN m = 1..Len(m)
  BY WordOfLaid
<1>2. m[n].k \in StraightKind /\ n # Len(m) + 1
  BY <1>1 DEF StepKind
<1>3. Begins(m, n)
  BY <1>2 DEF Begins
<1>4. Alike(m, pc, mm, qc, n)
  BY <1>2, <1>3 DEF Carried
<1>5. Begins(m, NextOf(m, n))
  BY <1>2 DEF Laid, StraightLaid, NextOf
<1>6. NextOf(m, n) = Len(m) + 1 => OpenEnd(m)
  BY DEF OpenEnd
<1>7. Alike(m, pc, mm, qc, NextOf(m, n))
  BY <1>5, <1>6 DEF Carried
<1> QED BY <1>4, <1>5, <1>7 DEF Alike, NextOf

LEMMA LeadsCarried ==
  ASSUME NEW m, Laid(m), NEW pc, NEW mm, NEW qc, NEW f, Carried(m, pc, mm, qc, f),
         NEW n \in DOMAIN m, m[n].k \in StepKind, Leads(m, pc, f, m[n], NextOf(m, n))
  PROVE  Leads(mm, qc, f, mm[n], NextOf(mm, n))
<1>1. PICK q : q = NextOf(m, n)
  OBVIOUS
<1>2. mm[n] = m[n] /\ NextOf(mm, n) = q /\ Alike(m, pc, mm, qc, q)
  BY <1>1, StepsAlike
<1>3. PlaceAt(mm, qc, f, q, 0) = PlaceAt(m, pc, f, q, 0)
  BY <1>2, AlikePlace
<1>4. q \in DOMAIN mm => mm[q].k \notin {"restore", "ecall"}
  BY <1>1, <1>2 DEF Alike, Leads, StepKind, StraightKind
<1> QED BY <1>1, <1>2, <1>3, <1>4 DEF Leads, Alike

LEMMA JumpsCarried ==
  ASSUME NEW m, Laid(m), NEW pc, NEW mm, NEW qc, NEW f, Carried(m, pc, mm, qc, f),
         NEW n \in DOMAIN f, JumpsLead(m, pc, f, n)
  PROVE  JumpsLead(mm, qc, f, n)
<1>1. Len(m) \in Nat /\ DOMAIN m = 1..Len(m) /\ Len(mm) \in Nat /\ Len(m) <= Len(mm)
  BY WordOfLaid DEF Carried
<1>2. n \in 1..(Len(m) + 1)
  BY DEF JumpsLead
<1>3. Begins(m, n)
  <2>1. CASE n \in DOMAIN m
    BY <2>1 DEF JumpsLead, Begins, StepKind
  <2>2. CASE n \notin DOMAIN m
    BY <1>1, <1>2, <2>2 DEF Begins
  <2> QED BY <2>1, <2>2
<1>4. Alike(m, pc, mm, qc, n)
  BY <1>3 DEF Carried
<1>5. n \in DOMAIN mm => /\ mm[n].k \in (StepKind \ {"restore"}) \cup {"save"}
                         /\ ~SegmentExit(mm, n)
  BY <1>4 DEF Alike, JumpsLead, SegmentExit
<1>6. ASSUME NEW p \in 1..Len(f[n])
      PROVE  Follows(mm, qc, f, n, p)
  BY <1>4, AlikePlace DEF JumpsLead, Follows
<1>7. n \in 1..(Len(mm) + 1)
  BY <1>1, <1>2
<1> QED BY <1>5, <1>6, <1>7 DEF JumpsLead

LEMMA BeginCarried ==
  ASSUME NEW m, Laid(m), NEW pc, NEW mm, NEW qc, NEW f, Carried(m, pc, mm, qc, f),
         NEW b, StartsAt(m, b.startLocationInCache), BeginsWith(m, pc, f, b)
  PROVE  BeginsWith(mm, qc, f, b)
<1>1. PICK s : s = b.startLocationInCache
  OBVIOUS
<1>2. s \in DOMAIN m /\ m[s].k = "restore"
  BY <1>1 DEF StartsAt
<1>3. m[s].k \in StepKind /\ NextOf(m, s) = s + 1
  BY <1>2 DEF StepKind, StraightKind, NextOf, StraightLength
<1>4. Alike(m, pc, mm, qc, s + 1)
  BY <1>2, <1>3, StepsAlike
<1> QED BY <1>1, <1>4, AlikePlace DEF BeginsWith

LEMMA EndCarried ==
  ASSUME NEW m, Laid(m), NEW pc, NEW mm, NEW qc, NEW f, Carried(m, pc, mm, qc, f),
         NEW b \in Block, Extent(m, b), b.startLocationInCache \in DOMAIN m, EndsWith(m, b)
  PROVE  EndsWith(mm, b)
<1> SUFFICES ASSUME NEW n \in Within(b), mm[n].k \in StepKind, NextOf(mm, n) \in Within(b),
                    SegmentExit(mm, NextOf(mm, n))
             PROVE  b.type = "SEGMENTED" /\ b.lastAddr = mm[n].a
  BY DEF EndsWith
<1>1. n \in DOMAIN m
  BY ExtentBounds
<1>2. m[n].k \in StepKind
  BY <1>1 DEF Carried, FlowAt, StepKind
<1>3. /\ mm[n] = m[n] /\ NextOf(mm, n) = NextOf(m, n)
      /\ Alike(m, pc, mm, qc, NextOf(m, n))
  BY <1>1, <1>2, StepsAlike
<1> QED BY <1>2, <1>3 DEF EndsWith, Alike

(* What a piece of a trace leads through, with the cursor at qc behind it. *)
NoJumps == [n \in {} |-> << >>]

PieceLeads(w, qc) ==
  /\ WordsCarry(w)
  /\ \A k \in DOMAIN w : w[k].k \in StepKind => Leads(w, qc, NoJumps, w[k], NextOf(w, k))

(* It begins with what is for the instruction at pc.                       *)
Heads(w, pc, qc) ==
  IF w = << >> THEN qc = pc
  ELSE /\ w[1].k \notin {"restore", "ecall"} /\ ~SegmentExit(w, 1)
       /\ AddrAt(w, qc, 1) = pc

LEMMA SaveInside ==
  ASSUME NEW m, Laid(m), NEW n \in DOMAIN m, m[n].k = "save"
  PROVE  n + 2 \in DOMAIN m /\ n \in Int
<1>1. Len(m) \in Nat /\ DOMAIN m = 1..Len(m)
  BY WordOfLaid
<1>2. ExitAt(m, n)
  BY DEF Laid, ExitsLaid
<1>3. \A k \in (n + 1)..(n + ExitLength(m, n) - 1) : k \in DOMAIN m
  BY <1>1, <1>2, ExitShape
<1>4. ExitLength(m, n) \in {19, 10, 6}
  BY DEF ExitLength
<1> QED BY <1>1, <1>3, <1>4

(* Words of a cache that a piece is appended to.                           *)
LEMMA GluedBefore ==
  ASSUME NEW m, Laid(m), NEW w, Laid(w), NEW n \in DOMAIN m, NEW pc, NEW qc
  PROVE  /\ n \in DOMAIN (m \o w) /\ (m \o w)[n] = m[n]
         /\ SegmentExit(m \o w, n) <=> SegmentExit(m, n)
         /\ AddrAt(m \o w, qc, n) = AddrAt(m, pc, n)
<1>1. m \in Seq(TraceCodeWord) /\ w \in Seq(TraceCodeWord)
  BY WordOfLaid
<1>2. \A k \in DOMAIN m : k \in DOMAIN (m \o w) /\ (m \o w)[k] = m[k]
  BY <1>1, Glued
<1>3. m[n].k = "save" => n + 2 \in DOMAIN m
  BY SaveInside
<1> QED BY <1>2, <1>3 DEF SegmentExit, AddrAt

LEMMA GluedBehind ==
  ASSUME NEW m, Laid(m), NEW w, Laid(w), NEW k \in 1..(Len(w) + 1), NEW qc
  PROVE  /\ k \in DOMAIN w <=> Len(m) + k \in DOMAIN (m \o w)
         /\ k \in DOMAIN w => (m \o w)[Len(m) + k] = w[k]
         /\ SegmentExit(m \o w, Len(m) + k) <=> SegmentExit(w, k)
         /\ AddrAt(m \o w, qc, Len(m) + k) = AddrAt(w, qc, k)
<1>1. m \in Seq(TraceCodeWord) /\ w \in Seq(TraceCodeWord)
  BY WordOfLaid
<1>2. /\ Len(m) \in Nat /\ Len(w) \in Nat /\ DOMAIN w = 1..Len(w)
      /\ DOMAIN (m \o w) = 1..(Len(m) + Len(w))
      /\ \A i \in DOMAIN w : (m \o w)[i + Len(m)] = w[i]
  BY <1>1, Glued
<1>3. PICK l : l = Len(m) + k
  OBVIOUS
<1>4. l \in Int /\ l = k + Len(m) /\ (k \in DOMAIN w <=> l \in DOMAIN (m \o w))
  BY <1>2, <1>3
<1>5. k \in DOMAIN w => (m \o w)[l] = w[k]
  BY <1>2, <1>4
<1>6. ASSUME k \in DOMAIN w, w[k].k = "save"
      PROVE  (m \o w)[l + 2] = w[k + 2]
  <2>1. k + 2 \in DOMAIN w
    BY <1>6, SaveInside
  <2>2. (k + 2) + Len(m) = l + 2
    BY <1>2, <1>4
  <2> QED BY <1>2, <2>1, <2>2
<1> QED BY <1>3, <1>4, <1>5, <1>6 DEF SegmentExit, AddrAt

LEMMA GluedCarried ==
  ASSUME NEW m, Laid(m), NEW w, Piece(w), NEW pc, NEW qc, NEW f,
         OpenEnd(m) \/ Len(m) + 1 \in DOMAIN f => Heads(w, pc, qc)
  PROVE  Carried(m, pc, m \o w, qc, f)
<1>1. Laid(w) /\ Begins(w, 1)
  BY DEF Piece
<1>2. m \in Seq(TraceCodeWord) /\ w \in Seq(TraceCodeWord)
  BY <1>1, WordOfLaid
<1>3. /\ Len(m) \in Nat /\ Len(w) \in Nat /\ DOMAIN w = 1..Len(w) /\ DOMAIN m = 1..Len(m)
      /\ Len(m \o w) = Len(m) + Len(w)
  BY <1>2, Glued
<1>4. \A n \in DOMAIN m : FlowAt(m, m \o w, n)
  BY <1>1, GluedBefore DEF FlowAt
<1>5. ASSUME NEW n \in DOMAIN m
      PROVE  Alike(m, pc, m \o w, qc, n)
  BY <1>1, GluedBefore DEF Alike
<1>6. ASSUME NEW n, n = Len(m) + 1, Heads(w, pc, qc)
      PROVE  Alike(m, pc, m \o w, qc, n)
  <2>1. n \notin DOMAIN m
    BY <1>3, <1>6
  <2>2. AddrAt(m, pc, n) = pc /\ ~SegmentExit(m, n)
    BY <2>1 DEF AddrAt, SegmentExit
  <2>3. 1 \in 1..(Len(w) + 1)
    BY <1>3
  <2>4. /\ 1 \in DOMAIN w <=> n \in DOMAIN (m \o w)
        /\ 1 \in DOMAIN w => (m \o w)[n] = w[1]
        /\ SegmentExit(m \o w, n) <=> SegmentExit(w, 1)
        /\ AddrAt(m \o w, qc, n) = AddrAt(w, qc, 1)
    BY <1>1, <1>6, <2>3, GluedBehind
  <2>5. CASE w = << >>
    <3>1. 1 \notin DOMAIN w
      BY <2>5
    <3> QED BY <1>6, <2>1, <2>2, <2>4, <2>5, <3>1 DEF Alike, Heads, AddrAt, SegmentExit
  <2>6. CASE w # << >>
    <3>1. Len(w) # 0
      BY <1>2, <2>6, EmptySeq
    <3>2. 1 \in DOMAIN w
      BY <1>3, <3>1
    <3>3. w[1].k \in StraightKind \cup {"save"}
      BY <1>1, <1>3, <3>2 DEF Begins
    <3>4. w[1].k \in (StepKind \ {"restore"}) \cup {"save"}
      BY <1>6, <2>6, <3>3 DEF Heads, StepKind
    <3> QED BY <1>6, <2>1, <2>2, <2>4, <2>6, <3>2, <3>4 DEF Alike, Heads
  <2> QED BY <2>5, <2>6
<1>7. ASSUME NEW n, Begins(m, n), n = Len(m) + 1 => OpenEnd(m) \/ n \in DOMAIN f
      PROVE  Alike(m, pc, m \o w, qc, n)
  BY <1>5, <1>6, <1>7 DEF Begins
<1>8. Len(m) <= Len(m \o w) /\ Len(m \o w) \in Nat
  BY <1>3
<1> QED BY <1>4, <1>7, <1>8 DEF Carried

(* The traces that are there.                                              *)
TracesStand(m, blocks) ==
  \A a \in DOMAIN blocks :
    /\ blocks[a] \in Block /\ Extent(m, blocks[a])
    /\ StartsAt(m, blocks[a].startLocationInCache)

(* Paths go on through a cache a piece is appended to,                     *)
LEMMA GluedLeads ==
  ASSUME NEW m, Laid(m), NEW w, Piece(w), NEW qc, PieceLeads(w, qc), NEW f,
         DOMAIN f \subseteq 1..(Len(m) + 1),
         NEW k \in DOMAIN w, w[k].k \in StepKind
  PROVE  Leads(m \o w, qc, f, w[k], Len(m) + NextOf(w, k))
<1>1. Laid(w) /\ Leads(w, qc, NoJumps, w[k], NextOf(w, k))
  BY DEF Piece, PieceLeads
<1>2. PICK q : q = NextOf(w, k)
  OBVIOUS
<1>3. PICK l : l = Len(m) + q
  OBVIOUS
<1>4. Len(m) \in Nat /\ Len(w) \in Nat /\ DOMAIN w = 1..Len(w)
  BY <1>1, WordOfLaid
<1>5. Begins(w, q)
  BY <1>1, <1>2 DEF Laid, StraightLaid, NextOf, StepKind
<1>6. q \in 1..(Len(w) + 1)
  BY <1>4, <1>5 DEF Begins
<1>7. q > k /\ k >= 1
  BY <1>2, <1>4 DEF NextOf, StraightLength
<1>8. l \notin DOMAIN f
  BY <1>3, <1>4, <1>6, <1>7
<1>9. /\ q \in DOMAIN w <=> l \in DOMAIN (m \o w)
      /\ q \in DOMAIN w => (m \o w)[l] = w[q]
      /\ SegmentExit(m \o w, l) <=> SegmentExit(w, q)
      /\ AddrAt(m \o w, qc, l) = AddrAt(w, qc, q)
  BY <1>1, <1>3, <1>6, GluedBehind
<1>10. PlaceAt(m \o w, qc, f, l, 0) = PlaceAt(w, qc, NoJumps, q, 0)
  BY <1>8, <1>9 DEF PlaceAt, NoJumps
<1> QED BY <1>1, <1>2, <1>3, <1>9, <1>10 DEF Leads

LEMMA PathsCarried ==
  ASSUME NEW m, Laid(m), NEW pc, NEW mm, NEW qc, NEW f, Carried(m, pc, mm, qc, f),
         NEW blocks, TracesStand(m, blocks), PathsOf(m, pc, f, blocks), WordsCarry(mm),
         \A n \in DOMAIN mm \ DOMAIN m : mm[n].k \in StepKind =>
            Leads(mm, qc, f, mm[n], NextOf(mm, n))
  PROVE  PathsOf(mm, qc, f, blocks)
<1>1. ASSUME NEW n \in DOMAIN f
      PROVE  JumpsLead(mm, qc, f, n)
  BY JumpsCarried DEF PathsOf
<1>2. ASSUME NEW n \in DOMAIN mm, mm[n].k \in StepKind
      PROVE  Leads(mm, qc, f, mm[n], NextOf(mm, n))
  <2>1. CASE n \in DOMAIN m
    <3>1. m[n].k \in StepKind
      BY <1>2, <2>1 DEF Carried, FlowAt, StepKind
    <3>2. Leads(m, pc, f, m[n], NextOf(m, n))
      BY <2>1, <3>1 DEF PathsOf
    <3> QED BY <2>1, <3>1, <3>2, LeadsCarried
  <2> QED BY <1>2, <2>1
<1>3. ASSUME NEW a \in DOMAIN blocks, NEW b, b = blocks[a]
      PROVE  BeginsWith(mm, qc, f, b) /\ EndsWith(mm, b)
  <2>1. /\ b \in Block /\ Extent(m, b) /\ StartsAt(m, b.startLocationInCache)
        /\ BeginsWith(m, pc, f, b) /\ EndsWith(m, b)
    BY <1>3 DEF TracesStand, PathsOf
  <2>2. b.startLocationInCache \in DOMAIN m
    BY <2>1 DEF StartsAt
  <2> QED BY <2>1, <2>2, BeginCarried, EndCarried
<1> QED BY <1>1, <1>2, <1>3 DEF PathsOf

LEMMA GluedPaths ==
  ASSUME NEW m, Laid(m), NEW w, Piece(w), NEW pc, NEW qc, PieceLeads(w, qc), NEW f,
         OpenEnd(m) \/ Len(m) + 1 \in DOMAIN f => Heads(w, pc, qc),
         NEW blocks, TracesStand(m, blocks), PathsOf(m, pc, f, blocks)
  PROVE  PathsOf(m \o w, qc, f, blocks)
<1>1. Laid(w) /\ m \in Seq(TraceCodeWord) /\ w \in Seq(TraceCodeWord)
  BY WordOfLaid DEF Piece
<1>2. /\ Len(m) \in Nat /\ Len(w) \in Nat /\ DOMAIN w = 1..Len(w) /\ DOMAIN m = 1..Len(m)
      /\ DOMAIN (m \o w) = 1..(Len(m) + Len(w))
  BY <1>1, Glued
<1>3. Carried(m, pc, m \o w, qc, f)
  BY GluedCarried
<1>4. ASSUME NEW n \in DOMAIN (m \o w) \ DOMAIN m
      PROVE  \E k \in DOMAIN w : n = Len(m) + k
  <2>1. PICK k : k = n - Len(m)
    OBVIOUS
  <2>2. n \in 1..(Len(m) + Len(w)) /\ n \notin 1..Len(m)
    BY <1>2, <1>4
  <2>3. k \in 1..Len(w) /\ n = Len(m) + k
    BY <1>2, <2>1, <2>2
  <2> QED BY <1>2, <2>3
<1>5. ASSUME NEW k \in DOMAIN w
      PROVE  /\ (m \o w)[Len(m) + k] = w[k]
             /\ SegmentExit(m \o w, Len(m) + k) <=> SegmentExit(w, k)
  <2>1. k \in 1..(Len(w) + 1)
    BY <1>2
  <2> QED BY <1>1, <2>1, GluedBehind
<1>6. WordsCarry(m \o w)
  <2> SUFFICES ASSUME NEW n \in DOMAIN (m \o w)
               PROVE  /\ Carries((m \o w)[n])
                      /\ SegmentExit(m \o w, n) => Segmented
    BY DEF WordsCarry
  <2>1. CASE n \in DOMAIN m
    BY <1>1, <2>1, GluedBefore DEF PathsOf, WordsCarry
  <2>2. CASE n \notin DOMAIN m
    <3>1. PICK k \in DOMAIN w : n = Len(m) + k
      BY <1>4, <2>2
    <3> QED BY <1>5, <3>1 DEF PieceLeads, WordsCarry
  <2> QED BY <2>1, <2>2
<1>7. DOMAIN f \subseteq 1..(Len(m) + 1)
  BY DEF PathsOf, JumpsLead
<1>8. ASSUME NEW n \in DOMAIN (m \o w) \ DOMAIN m, (m \o w)[n].k \in StepKind
      PROVE  Leads(m \o w, qc, f, (m \o w)[n], NextOf(m \o w, n))
  <2>1. PICK k \in DOMAIN w : n = Len(m) + k
    BY <1>4, <1>8
  <2>2. (m \o w)[n] = w[k]
    BY <1>5, <2>1
  <2>3. StraightLength(w[k].k) \in Nat
    BY DEF StraightLength
  <2>4. NextOf(m \o w, n) = Len(m) + NextOf(w, k)
    BY <1>2, <2>1, <2>2, <2>3 DEF NextOf
  <2>5. Leads(m \o w, qc, f, w[k], Len(m) + NextOf(w, k))
    BY <1>7, <1>8, <2>2, GluedLeads
  <2> QED BY <2>2, <2>4, <2>5
<1> QED BY <1>3, <1>6, <1>8, PathsCarried

(* and through one with a link.                                            *)
LEMMA LinkedPaths ==
  ASSUME NEW m, Laid(m), NEW mm, SameFlow(m, mm), Len(mm) = Len(m), DOMAIN mm = DOMAIN m,
         \A n \in DOMAIN m : m[n].k = "save" => mm[n + 2] = m[n + 2],
         NEW pc, NEW f, NEW blocks, TracesStand(m, blocks), PathsOf(m, pc, f, blocks)
  PROVE  PathsOf(mm, pc, f, blocks)
<1>1. Len(m) \in Nat
  BY WordOfLaid
<1>2. \A n \in DOMAIN m : FlowAt(m, mm, n)
  BY DEF SameFlow
<1>3. ASSUME NEW n
      PROVE  SegmentExit(mm, n) <=> SegmentExit(m, n)
  BY <1>2 DEF SegmentExit, FlowAt
<1>4. ASSUME NEW n, Begins(m, n)
      PROVE  Alike(m, pc, mm, pc, n)
  <2>1. n \in DOMAIN m => mm[n] = m[n]
    <3>1. n \in DOMAIN m => m[n].k \in StraightKind \cup {"save"} \/ n = Len(m) + 1
      BY <1>4 DEF Begins
    <3>2. n \in DOMAIN m => n # Len(m) + 1
      BY <1>1, WordOfLaid
    <3> QED BY <1>2, <3>1, <3>2 DEF FlowAt
  <2> QED BY <1>3, <2>1 DEF Alike, AddrAt
<1>5. Carried(m, pc, mm, pc, f)
  BY <1>1, <1>2, <1>4 DEF Carried
<1>6. WordsCarry(mm)
  <2> SUFFICES ASSUME NEW n \in DOMAIN m
               PROVE  Carries(mm[n]) /\ (SegmentExit(mm, n) => Segmented)
    BY DEF WordsCarry
  <2>1. Carries(m[n]) /\ (SegmentExit(m, n) => Segmented)
    BY DEF PathsOf, WordsCarry
  <2>2. CASE mm[n] = m[n]
    BY <1>3, <2>1, <2>2
  <2>3. CASE mm[n].k \notin StraightKind \cup {"save"}
    BY <1>3, <2>1, <2>3 DEF Carries, StraightKind, PlainWord
  <2> QED BY <1>2, <2>2, <2>3 DEF FlowAt
<1> QED BY <1>5, <1>6, PathsCarried

-----------------------------------------------------------------------------
(* The pieces the allocator appends.                                       *)

Sequence(v) == IF StraightLength(v.k) = 3 THEN <<v, Cont, Cont>> ELSE <<v>>

IsSequence(w, v) ==
  /\ Len(w) = StraightLength(v.k) /\ DOMAIN w = 1..Len(w) /\ Len(w) \in {1, 3}
  /\ w[1] = v /\ \A k \in DOMAIN w : k # 1 => w[k].k = "cont"

LEMMA SequenceWords == ASSUME NEW v PROVE IsSequence(Sequence(v), v)
<1> SUFFICES ASSUME NEW w, w = Sequence(v)
             PROVE  /\ Len(w) = StraightLength(v.k) /\ DOMAIN w = 1..Len(w)
                    /\ Len(w) \in {1, 3} /\ w[1] = v
                    /\ \A k \in DOMAIN w : k # 1 => w[k].k = "cont"
  BY DEF IsSequence
<1>1. PICK y : y = Cont
  OBVIOUS
<1>2. y.k = "cont"
  BY <1>1, ContWord
<1>3. CASE StraightLength(v.k) = 3
  <2>1. w = <<v, y, y>>
    BY <1>1, <1>3 DEF Sequence
  <2>2. Len(w) = 3 /\ DOMAIN w = 1..3 /\ w[1] = v /\ w[2] = y /\ w[3] = y
    BY <2>1
  <2> QED BY <1>2, <1>3, <2>2
<1>4. CASE StraightLength(v.k) # 3
  <2>1. w = <<v>>
    BY <1>4 DEF Sequence
  <2>2. Len(w) = 1 /\ DOMAIN w = 1..1 /\ w[1] = v
    BY <2>1
  <2>3. StraightLength(v.k) = 1
    BY <1>4 DEF StraightLength
  <2> QED BY <2>2, <2>3
<1> QED BY <1>3, <1>4

LEMMA InLineWord ==
  ASSUME NEW a, text[a].op \notin ControlOp
  PROVE  \E v : /\ TraceInLine(text[a], a) = Sequence(v)
                /\ v.k \in PlainWord /\ v.a = a
                /\ v.k = "mem" => text[a].op \in MemoryOp
<1>1. PICK i : i = text[a]
  OBVIOUS
<1>2. CASE i.op = "AUIPC"
  <2>1. PICK v : v = W("setpc", a, a + i.imm)
    OBVIOUS
  <2>2. v.k = "setpc" /\ v.a = a
    BY <2>1, TraceWordFields
  <2>3. TraceInLine(i, a) = <<v, Cont, Cont>>
    BY <1>2, <2>1 DEF TraceInLine, InLine, MemoryOp
  <2>4. TraceInLine(i, a) = Sequence(v)
    BY <2>2, <2>3 DEF Sequence, StraightLength
  <2> QED BY <1>1, <2>2, <2>4 DEF PlainWord
<1>3. CASE i.op \in MemoryOp
  <2>1. PICK v : v = W("mem", a, 0)
    OBVIOUS
  <2>2. v.k = "mem" /\ v.a = a
    BY <2>1, TraceWordFields
  <2>3. TraceInLine(i, a) = <<v>>
    BY <1>3, <2>1 DEF TraceInLine, InLine, MemoryOp
  <2>4. TraceInLine(i, a) = Sequence(v)
    BY <2>2, <2>3 DEF Sequence, StraightLength
  <2> QED BY <1>1, <1>3, <2>2, <2>4 DEF PlainWord
<1>4. CASE i.op \notin MemoryOp \cup {"AUIPC"}
  <2>1. PICK v : v = W("guest", a, 0)
    OBVIOUS
  <2>2. v.k = "guest" /\ v.a = a
    BY <2>1, TraceWordFields
  <2>3. TraceInLine(i, a) = <<v>>
    BY <1>4, <2>1 DEF TraceInLine, InLine
  <2>4. TraceInLine(i, a) = Sequence(v)
    BY <2>2, <2>3 DEF Sequence, StraightLength
  <2> QED BY <1>1, <2>2, <2>4 DEF PlainWord
<1> QED BY <1>2, <1>3, <1>4

(* An instruction in line, or the link of a jump, leads on.                *)
LEMMA SequenceLeads ==
  ASSUME NEW v, v.k \in PlainWord \cup {"liRd"}, Carries(v), NEW w, w = Sequence(v),
         v.k \in PlainWord => ~TraceSegmentsAfter(text[v.a]),
         NEW qc, qc = NextAddr(v)
  PROVE  PieceLeads(w, qc) /\ Heads(w, v.a, qc) /\ OpenEnd(w) /\ w # << >>
<1>1. /\ Len(w) = StraightLength(v.k) /\ DOMAIN w = 1..Len(w) /\ Len(w) \in {1, 3}
      /\ w[1] = v /\ \A k \in DOMAIN w : k # 1 => w[k].k = "cont"
  BY SequenceWords DEF IsSequence
<1>2. v.k \in StepKind \ {"restore"} /\ v.k # "save"
  BY DEF StepKind, StraightKind, PlainWord
<1>3. \A k : ~SegmentExit(w, k)
  BY <1>1, <1>2 DEF SegmentExit
<1>4. WordsCarry(w)
  BY <1>1, <1>3 DEF WordsCarry, Carries, PlainWord
<1>5. 1 \in DOMAIN w /\ NextOf(w, 1) = Len(w) + 1 /\ Len(w) + 1 \notin DOMAIN w
  BY <1>1 DEF NextOf
<1>6. PlaceAt(w, qc, NoJumps, Len(w) + 1, 0) = qc
  BY <1>5 DEF PlaceAt, NoJumps, AddrAt
<1>7. Leads(w, qc, NoJumps, w[1], NextOf(w, 1))
  BY <1>1, <1>2, <1>3, <1>5, <1>6 DEF Leads
<1>8. \A k \in DOMAIN w : w[k].k \in StepKind => k = 1
  BY <1>1 DEF StepKind, StraightKind
<1>9. PieceLeads(w, qc)
  BY <1>4, <1>7, <1>8 DEF PieceLeads
<1>10. OpenEnd(w)
  BY <1>1, <1>2, <1>5 DEF OpenEnd
<1>11. w # << >>
  BY <1>5
<1>12. AddrAt(w, qc, 1) = v.a
  BY <1>1, <1>2, <1>5 DEF AddrAt
<1> QED BY <1>1, <1>2, <1>3, <1>9, <1>10, <1>11, <1>12 DEF Heads, StepKind

(* The words of an exit on its own.                                        *)
LEMMA ExitWords ==
  ASSUME NEW w, Piece(w), w[1].k = "save", Len(w) = ExitLength(w, 1)
  PROVE  /\ Len(w) \in {19, 10, 6} /\ DOMAIN w = 1..Len(w) /\ w # << >>
         /\ \A k \in DOMAIN w : k # 1 => w[k].k \notin StraightKind \cup {"save"}
<1>1. Laid(w)
  BY DEF Piece
<1>2. Len(w) \in {19, 10, 6} /\ DOMAIN w = 1..Len(w) /\ Len(w) \in Nat
  BY <1>1, WordOfLaid DEF ExitLength
<1>3. 1 \in DOMAIN w
  BY <1>2
<1>4. ExitAt(w, 1)
  BY <1>1, <1>3 DEF Laid, ExitsLaid
<1>5. \A k \in (1 + 1)..(1 + ExitLength(w, 1) - 1) : w[k].k \in ExitKind
  BY <1>2, <1>3, <1>4, ExitShape
<1>6. \A k \in DOMAIN w : k # 1 => k \in (1 + 1)..(1 + ExitLength(w, 1) - 1)
  BY <1>2
<1>7. \A k \in DOMAIN w : k # 1 => w[k].k \notin StraightKind \cup {"save"}
  BY <1>5, <1>6 DEF ExitKind, StraightKind
<1> QED BY <1>2, <1>3, <1>7

(* What a piece that ends a trace has besides.                             *)
PieceEnds(w, type, pc) ==
  \A k \in DOMAIN w : w[k].k \in StepKind /\ SegmentExit(w, NextOf(w, k)) =>
    type = "SEGMENTED" /\ w[k].a = pc

(* The exit of the instruction at a leads nowhere.                         *)
LEMMA ExitLeads ==
  ASSUME NEW w, Piece(w), w[1].k = "save", Len(w) = ExitLength(w, 1),
         NEW a, w[3] = W("traceBranch", a, 0) \/ w[3] = W("lui", 0, a), NEW qc, NEW type
  PROVE  PieceLeads(w, qc) /\ Heads(w, a, qc) /\ PieceEnds(w, type, a)
<1>1. /\ Len(w) \in {19, 10, 6} /\ DOMAIN w = 1..Len(w) /\ w # << >>
      /\ \A k \in DOMAIN w : k # 1 => w[k].k \notin StraightKind \cup {"save"}
  BY ExitWords
<1>2. /\ w[1 + 2].k \in {"traceBranch", "lui"}
      /\ w[1 + 2].k = "traceBranch" => w[1 + 2].a = a
      /\ w[1 + 2].k = "lui" => w[1 + 2].v = a
  BY TraceWordFields
<1>3. \A k \in DOMAIN w : w[k].k \notin StraightKind /\ ~SegmentExit(w, k)
  BY <1>1, <1>2 DEF SegmentExit, StraightKind
<1>4. WordsCarry(w)
  BY <1>3 DEF WordsCarry, Carries, StraightKind, PlainWord
<1>5. PieceLeads(w, qc) /\ PieceEnds(w, type, a)
  BY <1>3, <1>4 DEF PieceLeads, PieceEnds, StepKind
<1>6. 1 \in DOMAIN w
  BY <1>1
<1>7. AddrAt(w, qc, 1) = a
  BY <1>2, <1>6 DEF AddrAt
<1> QED BY <1>1, <1>3, <1>5, <1>6, <1>7 DEF Heads

(* Every word of two pieces is one of theirs.                              *)
LEMMA GluedWord ==
  ASSUME NEW x, Laid(x), NEW y, Laid(y), NEW k \in DOMAIN (x \o y)
  PROVE  k \in DOMAIN x \/ \E j \in DOMAIN y : k = Len(x) + j
<1>1. x \in Seq(TraceCodeWord) /\ y \in Seq(TraceCodeWord)
  BY WordOfLaid
<1>2. /\ Len(x) \in Nat /\ Len(y) \in Nat /\ DOMAIN y = 1..Len(y) /\ DOMAIN x = 1..Len(x)
      /\ DOMAIN (x \o y) = 1..(Len(x) + Len(y))
  BY <1>1, Glued
<1>3. PICK j : j = k - Len(x)
  OBVIOUS
<1>4. k \in 1..(Len(x) + Len(y))
  BY <1>2
<1>5. CASE k \in 1..Len(x)
  BY <1>2, <1>5
<1>6. CASE k \notin 1..Len(x)
  <2>1. j \in 1..Len(y) /\ k = Len(x) + j
    BY <1>2, <1>3, <1>4, <1>6
  <2> QED BY <1>2, <2>1
<1> QED BY <1>5, <1>6

(* ... with the ECALL it is kept behind.                                   *)
LEMMA ExitEcallLeads ==
  ASSUME NEW x, Piece(x), x[1].k = "save", Len(x) = ExitLength(x, 1),
         NEW a, x[3] = W("lui", 0, a), InText(a), NEW qc, NEW type,
         NEW w, w = x \o Ecall(a)
  PROVE  PieceLeads(w, qc) /\ Heads(w, a, qc) /\ PieceEnds(w, type, a) /\ w # << >>
<1>1. /\ Len(x) \in {19, 10, 6} /\ DOMAIN x = 1..Len(x)
      /\ \A k \in DOMAIN x : k # 1 => x[k].k \notin StraightKind \cup {"save"}
  BY ExitWords
<1>2. PICK e : e = Ecall(a)
  OBVIOUS
<1>3. Piece(e) /\ Len(e) = 1
  BY <1>2, EcallPiece
<1>4. Laid(x) /\ Laid(e)
  BY <1>3 DEF Piece
<1>5. DOMAIN e = 1..1 /\ e[1].k = "ecall"
  BY <1>2, TraceWordFields DEF Ecall
<1>6. PieceLeads(x, qc) /\ Heads(x, a, qc)
  BY ExitLeads
<1>7. /\ x[1 + 2].k = "lui" /\ 1 \in DOMAIN x
  BY <1>1, TraceWordFields
<1>8. \A k \in DOMAIN x : x[k].k \notin StraightKind /\ ~SegmentExit(x, k)
  BY <1>1, <1>7 DEF SegmentExit, StraightKind
<1>9. ASSUME NEW k \in DOMAIN x
      PROVE  w[k] = x[k] /\ ~SegmentExit(w, k) /\ AddrAt(w, qc, k) = AddrAt(x, qc, k)
             /\ k \in DOMAIN w
  BY <1>2, <1>4, <1>8, GluedBefore
<1>10. w[Len(x) + 1].k = "ecall" /\ ~SegmentExit(w, Len(x) + 1)
  <2>1. 1 \in 1..(Len(e) + 1) /\ 1 \in DOMAIN e
    BY <1>3, <1>5
  <2>2. w[Len(x) + 1] = e[1]
    BY <1>2, <1>4, <2>1, GluedBehind
  <2> QED BY <1>5, <2>2 DEF SegmentExit
<1>11. ASSUME NEW k \in DOMAIN w
       PROVE  k \in DOMAIN x \/ k = Len(x) + 1
  <2>1. k \in DOMAIN x \/ \E j \in DOMAIN e : k = Len(x) + j
    BY <1>2, <1>4, GluedWord
  <2> QED BY <1>5, <2>1
<1>12. \A k \in DOMAIN w : w[k].k \notin StepKind /\ ~SegmentExit(w, k)
  BY <1>8, <1>9, <1>10, <1>11 DEF StepKind
<1>13. WordsCarry(w)
  BY <1>12 DEF WordsCarry, Carries, StepKind, StraightKind, PlainWord
<1>14. PieceLeads(w, qc) /\ PieceEnds(w, type, a)
  BY <1>12, <1>13 DEF PieceLeads, PieceEnds
<1>15. w # << >>
  BY <1>7, <1>9
<1>16. x # << >>
  BY <1>7
<1>17. Heads(w, a, qc)
  BY <1>6, <1>7, <1>9, <1>15, <1>16 DEF Heads
<1> QED BY <1>14, <1>15, <1>17

(* The last instruction of a segment leads to its exit.                    *)
LEMMA SegmentLeads ==
  ASSUME NEW v, v.k \in PlainWord, Carries(v), Segmented,
         NEW x, IsSequence(x, v), Piece(x),
         NEW y, Piece(y), y[1].k = "save", y[1 + 2].k = "li", Len(y) = ExitLength(y, 1),
         NEW w, w = x \o y, NEW qc
  PROVE  PieceLeads(w, qc) /\ Heads(w, v.a, qc) /\ PieceEnds(w, "SEGMENTED", v.a) /\ w # << >>
<1>1. /\ Len(x) = StraightLength(v.k) /\ DOMAIN x = 1..Len(x) /\ Len(x) \in {1, 3}
      /\ x[1] = v /\ \A k \in DOMAIN x : k # 1 => x[k].k = "cont"
  BY DEF IsSequence
<1>2. /\ Len(y) \in {19, 10, 6} /\ DOMAIN y = 1..Len(y)
      /\ \A k \in DOMAIN y : k # 1 => y[k].k \notin StraightKind \cup {"save"}
  BY ExitWords
<1>3. Laid(x) /\ Laid(y)
  BY DEF Piece
<1>0. w = x \o y
  OBVIOUS
<1>4. v.k \notin {"save", "restore", "ecall"}
  BY DEF PlainWord
<1>5. ASSUME NEW k \in DOMAIN x
      PROVE  /\ k \in DOMAIN w /\ w[k] = x[k] /\ ~SegmentExit(w, k)
             /\ AddrAt(w, qc, k) = AddrAt(x, qc, k)
  <2>1. /\ k \in DOMAIN w /\ w[k] = x[k] /\ (SegmentExit(w, k) <=> SegmentExit(x, k))
        /\ AddrAt(w, qc, k) = AddrAt(x, qc, k)
    BY <1>3, GluedBefore
  <2> QED BY <1>1, <1>4, <2>1 DEF SegmentExit
<1>6. ASSUME NEW j \in DOMAIN y
      PROVE  /\ Len(x) + j \in DOMAIN w /\ w[Len(x) + j] = y[j]
             /\ SegmentExit(w, Len(x) + j) <=> SegmentExit(y, j)
  <2>1. j \in 1..(Len(y) + 1)
    BY <1>2
  <2>2. /\ j \in DOMAIN y <=> Len(x) + j \in DOMAIN (x \o y)
        /\ j \in DOMAIN y => (x \o y)[Len(x) + j] = y[j]
        /\ SegmentExit(x \o y, Len(x) + j) <=> SegmentExit(y, j)
    BY ONLY <1>3, <2>1, GluedBehind
  <2> QED BY ONLY <1>0, <1>6, <2>2
<1>7. 1 \in DOMAIN x /\ 1 \in DOMAIN y
  BY <1>1, <1>2
<1>8. SegmentExit(y, 1)
  BY <1>7 DEF SegmentExit
<1>9. ASSUME NEW k \in DOMAIN w
      PROVE  k \in DOMAIN x \/ \E j \in DOMAIN y : k = Len(x) + j
  <2>1. k \in DOMAIN (x \o y)
    BY ONLY <1>0, <1>9
  <2> QED BY ONLY <1>3, <2>1, GluedWord
<1>10. ASSUME NEW k \in DOMAIN w, w[k].k \in StraightKind
       PROVE  k = 1
  <2>1. CASE k \in DOMAIN x
    BY <1>1, <1>5, <1>10, <2>1 DEF StraightKind
  <2>2. ASSUME NEW j \in DOMAIN y, k = Len(x) + j
        PROVE  FALSE
    BY <1>2, <1>6, <1>10, <2>2 DEF StraightKind
  <2> QED BY <1>9, <2>1, <2>2
<1>11. w[1] = v /\ 1 \in DOMAIN w /\ NextOf(w, 1) = Len(x) + 1
  <2>1. w[1] = v /\ 1 \in DOMAIN w
    BY <1>1, <1>5, <1>7
  <2> QED BY <1>1, <2>1 DEF NextOf
<1>12. SegmentExit(w, Len(x) + 1)
  BY <1>6, <1>7, <1>8
<1>13. WordsCarry(w)
  <2>1. ASSUME NEW k \in DOMAIN w
        PROVE  Carries(w[k])
    <3>1. CASE w[k].k \in StraightKind
      BY <1>10, <1>11, <3>1
    <3>2. CASE w[k].k \notin StraightKind
      BY <3>2 DEF Carries, StraightKind, PlainWord
    <3> QED BY <3>1, <3>2
  <2> QED BY <2>1 DEF WordsCarry
<1>14. Leads(w, qc, NoJumps, w[1], NextOf(w, 1))
  BY <1>11, <1>12 DEF Leads, SegmentExit
<1>15. PieceLeads(w, qc)
  BY <1>10, <1>13, <1>14 DEF PieceLeads, StepKind
<1>16. PieceEnds(w, "SEGMENTED", v.a)
  BY <1>10, <1>11 DEF PieceEnds, StepKind
<1>17. w # << >>
  BY <1>11
<1>18. AddrAt(w, qc, 1) = v.a /\ ~SegmentExit(w, 1)
  BY <1>4, <1>5, <1>7, <1>11 DEF AddrAt
<1> QED BY <1>4, <1>11, <1>15, <1>16, <1>17, <1>18 DEF Heads

(* The paths of the next state, by its own variables.                      *)
LEMMA SamePaths ==
  ASSUME text' = text, tool' = tool
  PROVE  /\ \A m, pc, f, blocks : PathsOf(m, pc, f, blocks)' <=> PathsOf(m, pc, f, blocks)
         /\ \A m, pc, f, blocks, t : OpenOf(m, pc, f, blocks, t)' <=> OpenOf(m, pc, f, blocks, t)
<1>1. \A a : (InText(a)' <=> InText(a)) /\ Fetch(a)' = Fetch(a)
  BY DEF InText, Fetch
<1>2. \A i : TraceSegmentsAfter(i)' <=> TraceSegmentsAfter(i)
  BY DEF TraceSegmentsAfter
<1>3. Segmented' <=> Segmented
  BY <1>1, <1>2 DEF Segmented
<1>4. \A w : Carries(w)' <=> Carries(w)
  BY DEF Carries
<1>5. \A m : WordsCarry(m)' <=> WordsCarry(m)
  BY <1>3, <1>4 DEF WordsCarry
<1>6. \A m, pc, f, n : JumpsLead(m, pc, f, n)' <=> JumpsLead(m, pc, f, n)
  <2>1. \A m, pc, f, n, p : Follows(m, pc, f, n, p)' <=> Follows(m, pc, f, n, p)
    BY <1>1 DEF Follows
  <2> QED BY <2>1 DEF JumpsLead
<1>7. \A m, pc, f, w, q : Leads(m, pc, f, w, q)' <=> Leads(m, pc, f, w, q)
  <2>1. \A w : NextAddr(w)' = NextAddr(w)
    BY DEF NextAddr
  <2> QED BY <1>2, <2>1 DEF Leads
<1>8. \A m, pc, f, blocks : PathsOf(m, pc, f, blocks)' <=> PathsOf(m, pc, f, blocks)
  BY <1>5, <1>6, <1>7 DEF PathsOf
<1>9. \A m, pc, f, blocks, t : OpenOf(m, pc, f, blocks, t)' <=> OpenOf(m, pc, f, blocks, t)
  BY <1>1 DEF OpenOf
<1> QED BY <1>8, <1>9

LEMMA PathNext ==
  ASSUME text' = text, tool' = tool,
         PathsOf(memory', program_counter', followed', RailBasicBlocks'),
         OpenOf(memory', program_counter', followed', RailBasicBlocks', trace')
  PROVE  PathInv'
  BY SamePaths DEF PathInv

(* All traces stand in the cache.                                          *)
LEMMA TracesStandHere ==
  ASSUME TraceTypes, LayoutInv, ExtentsLaid(memory, RailBasicBlocks)
  PROVE  TracesStand(memory, RailBasicBlocks) /\ Laid(memory)
<1>1. LayoutOf(memory, exits, RailBasicBlocks, trace)
  BY DEF LayoutInv
<1> QED BY <1>1, LayoutParts, BlockLaid DEF TracesStand

(* Where words end each in the cache.                                      *)
LEMMA StepBounds ==
  ASSUME NEW m, Laid(m), NEW n \in DOMAIN m, m[n].k \in StepKind
  PROVE  NextOf(m, n) \in 1..(Len(m) + 1) /\ n \in 1..Len(m) /\ n < NextOf(m, n)
         /\ NextOf(m, n) \in Int /\ Begins(m, NextOf(m, n))
<1>1. Len(m) \in Nat /\ DOMAIN m = 1..Len(m)
  BY WordOfLaid
<1>2. Begins(m, n + StraightLength(m[n].k))
  BY DEF Laid, StraightLaid, StepKind
<1>3. StraightLength(m[n].k) \in {1, 3}
  BY DEF StraightLength
<1> QED BY <1>1, <1>2, <1>3 DEF NextOf, Begins

(* A trace begins behind the others.                                       *)
LEMMA TraceBeginPaths ==
  ASSUME TraceTypes, LayoutInv, ExtentsLaid(memory, RailBasicBlocks), EveryEnded, PathInv,
         status = "running", ~trace.busy, tool' = tool,
         NEW cursor, NEW a, NEW count, TraceBegin(cursor, a, count), followed' = followed
  PROVE  PathInv'
<1>1. PICK m, f, blocks, w : /\ m = memory /\ f = followed /\ blocks = RailBasicBlocks
                             /\ w = RestoreScratch
  OBVIOUS
<1>2. PICK pc : pc = program_counter
  OBVIOUS
<1>3. TracesStand(m, blocks) /\ Laid(m) /\ Len(m) \in Nat /\ DOMAIN m = 1..Len(m)
  BY <1>1, TracesStandHere, WordOfLaid
<1>4. PathsOf(m, pc, f, blocks) /\ OpenOf(m, pc, f, blocks, trace)
  BY <1>1, <1>2 DEF PathInv
<1>5. ~OpenEnd(m) /\ Len(m) + 1 \notin DOMAIN f
  BY <1>1, <1>4 DEF OpenOf, EveryEnded
<1>6. Piece(w) /\ Len(w) = 1 /\ w[1].k = "restore" /\ DOMAIN w = 1..1
  BY <1>1, RestorePiece, TraceWordFields DEF RestoreScratch
<1>7. PieceLeads(w, a)
  BY <1>6 DEF PieceLeads, WordsCarry, Carries, PlainWord, SegmentExit, Leads, NextOf,
              StraightLength
<1>8. PICK mm : mm = m \o w
  OBVIOUS
<1>9. PathsOf(mm, a, f, blocks)
  BY <1>3, <1>4, <1>5, <1>6, <1>7, <1>8, GluedPaths
<1>10. /\ Len(mm) = Len(m) + 1 /\ DOMAIN mm = 1..(Len(m) + 1) /\ mm[Len(m) + 1] = w[1]
       /\ \A n \in DOMAIN m : mm[n] = m[n]
  <2>1. m \in Seq(TraceCodeWord) /\ w \in Seq(TraceCodeWord)
    BY <1>3, <1>6 DEF Laid, Piece
  <2>2. /\ Len(m \o w) = Len(m) + Len(w) /\ DOMAIN (m \o w) = 1..(Len(m) + Len(w))
        /\ \A k \in DOMAIN m : (m \o w)[k] = m[k]
        /\ \A k \in DOMAIN w : (m \o w)[k + Len(m)] = w[k]
    BY <2>1, Glued
  <2>3. (m \o w)[1 + Len(m)] = w[1] /\ 1 + Len(m) = Len(m) + 1
    BY <1>3, <1>6, <2>2
  <2> QED BY <1>6, <1>8, <2>2, <2>3
<1>11. PICK t : t = trace'
  OBVIOUS
<1>12. t.busy /\ t.railBB.startLocationInCache = Len(m) + 1 /\ t.railBB.firstAddr = a
  <2>1. PICK i : i = Fetch(cursor)
    OBVIOUS
  <2>2. PICK n : n = Len(m) + 1
    OBVIOUS
  <2>3. PICK z : z = ZeroBlock
    OBVIOUS
  <2>4. PICK b : b = [z EXCEPT !.firstAddr = a, !.basicBlockAddress = a,
                               !.startInst = i, !.startLocationInCache = n]
    OBVIOUS
  <2>5. trace' = [busy |-> TRUE, railBB |-> b, count |-> count - 1]
    BY <1>1, <2>1, <2>2, <2>3, <2>4 DEF TraceBegin, EndOf
  <2>6. z \in Block
    BY <2>3, ZeroBlockType
  <2>7. b.startLocationInCache = n /\ b.firstAddr = a
    BY <2>4, <2>6 DEF Block
  <2> QED BY <1>11, <2>2, <2>5, <2>7
<1>13. OpenEnd(mm)
  BY <1>3, <1>6, <1>10 DEF OpenEnd, NextOf, StraightLength, StepKind, StraightKind
<1>14. ClosedBefore(mm, Len(m) + 1)
  <2> SUFFICES ASSUME NEW n \in DOMAIN mm, n < Len(m) + 1, mm[n].k \in StepKind
               PROVE  NextOf(mm, n) < Len(m) + 1
    BY DEF ClosedBefore
  <2>1. n \in DOMAIN m /\ mm[n] = m[n]
    BY <1>3, <1>10
  <2>2. NextOf(m, n) \in 1..(Len(m) + 1) /\ NextOf(m, n) = NextOf(mm, n)
    BY <1>3, <2>1, StepBounds DEF NextOf
  <2>3. NextOf(m, n) # Len(m) + 1
    BY <1>5, <2>1 DEF OpenEnd
  <2> QED BY <1>3, <2>2, <2>3
<1>15. Len(m) + 2 \notin DOMAIN f /\ Len(m) + 2 \notin DOMAIN mm
  BY <1>3, <1>4, <1>10 DEF PathsOf, JumpsLead
<1>16. BeginsWith(mm, a, f, t.railBB)
  <2>1. Len(m) + 1 + 1 = Len(m) + 2
    BY <1>3
  <2> QED BY <1>12, <1>15, <2>1 DEF BeginsWith, PlaceAt, AddrAt
<1>17. OpenOf(mm, a, f, blocks, t)
  BY <1>12, <1>13, <1>14, <1>16 DEF OpenOf
<1>18. /\ memory' = mm /\ program_counter' = a /\ followed' = f /\ text' = text
       /\ RailBasicBlocks' = blocks
  BY <1>1, <1>8 DEF TraceBegin
<1> QED BY <1>9, <1>11, <1>17, <1>18, PathNext

(* The trace goes on.                                                      *)
LEMMA GoesOnPaths ==
  ASSUME NEW m, Laid(m), NEW w, Piece(w), NEW pc, NEW qc, PieceLeads(w, qc), Heads(w, pc, qc),
         OpenEnd(w), NEW f, NEW blocks, TracesStand(m, blocks), PathsOf(m, pc, f, blocks),
         NEW t, OpenOf(m, pc, f, blocks, t), t.busy,
         StartsAt(m, t.railBB.startLocationInCache),
         NEW u, u.railBB.startLocationInCache = t.railBB.startLocationInCache,
         u.railBB.firstAddr = t.railBB.firstAddr, u.busy
  PROVE  PathsOf(m \o w, qc, f, blocks) /\ OpenOf(m \o w, qc, f, blocks, u)
<1>1. PICK mm : mm = m \o w
  OBVIOUS
<1>2. PathsOf(mm, qc, f, blocks) /\ Carried(m, pc, mm, qc, f)
  BY <1>1, GluedPaths, GluedCarried
<1>3. m \in Seq(TraceCodeWord) /\ w \in Seq(TraceCodeWord)
  BY DEF Laid, Piece
<1>4. /\ Len(m) \in Nat /\ Len(w) \in Nat /\ DOMAIN m = 1..Len(m) /\ DOMAIN w = 1..Len(w)
      /\ Len(mm) = Len(m) + Len(w) /\ DOMAIN mm = 1..(Len(m) + Len(w))
      /\ \A k \in DOMAIN m : mm[k] = m[k]
      /\ \A k \in DOMAIN w : mm[k + Len(m)] = w[k]
  BY <1>1, <1>3, Glued
<1>5. OpenEnd(mm)
  <2>1. PICK k \in DOMAIN w : w[k].k \in StepKind /\ NextOf(w, k) = Len(w) + 1
    BY DEF OpenEnd
  <2>2. k + Len(m) \in DOMAIN mm /\ mm[k + Len(m)] = w[k] /\ k \in Int
    BY <1>4
  <2>3. PICK z : z = StraightLength(w[k].k)
    OBVIOUS
  <2>4. NextOf(mm, k + Len(m)) = Len(mm) + 1
    <3>1. k + z = Len(w) + 1 /\ z \in {1, 3}
      BY <2>1, <2>3 DEF NextOf, StraightLength
    <3>2. NextOf(mm, k + Len(m)) = k + Len(m) + z
      BY <2>2, <2>3 DEF NextOf
    <3>0. Len(m) \in Int /\ Len(w) \in Int /\ k \in Int /\ z \in Int
      BY <1>4, <2>2, <3>1
    <3>3. k + Len(m) + z = Len(m) + Len(w) + 1
      BY ONLY <3>0, <3>1
    <3>4. Len(m) + Len(w) + 1 = Len(mm) + 1
      BY <1>4
    <3> QED BY <3>2, <3>3, <3>4
  <2> QED BY <2>1, <2>2, <2>4 DEF OpenEnd
<1>6. PICK s, b, c : /\ s = t.railBB.startLocationInCache
                     /\ b = t.railBB /\ c = u.railBB
  OBVIOUS
<1>7. BeginsWith(m, pc, f, b) /\ ClosedBefore(m, s) /\ s \in DOMAIN m
  BY <1>6 DEF OpenOf, StartsAt
<1>8. BeginsWith(mm, qc, f, b)
  BY <1>2, <1>6, <1>7, BeginCarried
<1>9. BeginsWith(mm, qc, f, c)
  BY <1>6, <1>8 DEF BeginsWith
<1>10. ClosedBefore(mm, s)
  <2> SUFFICES ASSUME NEW n \in DOMAIN mm, n < s, mm[n].k \in StepKind
               PROVE  NextOf(mm, n) < s
    BY DEF ClosedBefore
  <2>1. n \in DOMAIN m /\ mm[n] = m[n]
    BY <1>4, <1>7
  <2> QED BY <1>7, <2>1 DEF ClosedBefore, NextOf
<1>11. OpenOf(mm, qc, f, blocks, u)
  BY <1>5, <1>6, <1>9, <1>10 DEF OpenOf
<1> QED BY <1>1, <1>2, <1>11

(* f with one jump more before n.                                          *)
Extended(f, n, a) ==
  [x \in DOMAIN f \cup {n} |->
     IF x # n THEN f[x] ELSE IF n \in DOMAIN f THEN Append(f[n], a) ELSE <<a>>]

(* So are its places those of f, but for the jump more.                    *)
Extends(m, pc, qc, f, g, L) ==
  /\ \A n : n \in DOMAIN m \/ n = L => PlaceAt(m, qc, g, n, 0) = PlaceAt(m, pc, f, n, 0)
  /\ \A n \in DOMAIN f : n \in DOMAIN m \/ n = L =>
       \A p \in 1..Len(f[n]) : /\ p \in 1..Len(g[n]) /\ g[n][p] = f[n][p]
                               /\ PlaceAt(m, qc, g, n, p) = PlaceAt(m, pc, f, n, p)
  /\ \A n \in DOMAIN f : n # L => Len(g[n]) = Len(f[n])
  /\ L \in DOMAIN g /\ Len(g[L]) \in Nat \ {0} /\ g[L][Len(g[L])] = pc
  /\ PlaceAt(m, qc, g, L, Len(g[L])) = qc
  /\ \A p \in 1..Len(g[L]) : p # Len(g[L]) => L \in DOMAIN f /\ p \in 1..Len(f[L])

(* The place before a followed jump is the jump's, and behind it its       *)
(* target.                                                                 *)
LEMMA FollowedPlace ==
  ASSUME NEW m, Laid(m), NEW pc, NEW qc, NEW f, NEW g, NEW S,
         NEW L, L = Len(m) + 1,
         f \in [DOMAIN f -> Seq(S)], pc \in S,
         g = Extended(f, L, pc)
  PROVE  Extends(m, pc, qc, f, g, L)
<1>1. Len(m) \in Nat /\ DOMAIN m = 1..Len(m) /\ L \notin DOMAIN m
  BY WordOfLaid
<1>2. \A n \in DOMAIN m : AddrAt(m, qc, n) = AddrAt(m, pc, n)
  BY DEF AddrAt
<1>3. AddrAt(m, qc, L) = qc /\ AddrAt(m, pc, L) = pc
  BY <1>1 DEF AddrAt
<1>4. \A n \in DOMAIN f : f[n] \in Seq(S) /\ Len(f[n]) \in Nat
  OBVIOUS
<1>5. DOMAIN g = DOMAIN f \cup {L} /\ \A n \in DOMAIN f : n # L => g[n] = f[n]
  BY DEF Extended
<1>6. \A n, p : n \in DOMAIN m => PlaceAt(m, qc, g, n, p) = PlaceAt(m, pc, f, n, p)
  BY <1>1, <1>2, <1>5 DEF PlaceAt
<1>7. CASE L \in DOMAIN f
  <2>1. PICK o : o = f[L]
    OBVIOUS
  <2>2. o \in Seq(S) /\ Len(o) \in Nat
    BY <1>4, <1>7, <2>1
  <2>3. g[L] = Append(o, pc)
    BY <1>7, <2>1 DEF Extended
  <2>4. /\ Len(g[L]) = Len(o) + 1 /\ g[L][Len(o) + 1] = pc
        /\ \A p \in 1..Len(o) : g[L][p] = o[p]
    BY <2>2, <2>3
  <2>5. ASSUME NEW p \in 0..Len(o)
        PROVE  PlaceAt(m, qc, g, L, p) = PlaceAt(m, pc, f, L, p)
    <3>1. CASE p < Len(o)
      <4>1. p + 1 \in 1..Len(o) /\ p < Len(g[L])
        BY <2>2, <2>4, <3>1
      <4> QED BY <1>5, <1>7, <2>1, <2>4, <3>1, <4>1 DEF PlaceAt
    <3>2. CASE p = Len(o)
      <4>1. PlaceAt(m, pc, f, L, p) = pc
        BY <1>3, <1>7, <2>1, <2>2, <3>2 DEF PlaceAt
      <4>2. PlaceAt(m, qc, g, L, p) = pc
        BY <1>5, <2>2, <2>4, <3>2 DEF PlaceAt
      <4> QED BY <4>1, <4>2
    <3> QED BY <2>2, <3>1, <3>2
  <2>6. PlaceAt(m, qc, g, L, Len(g[L])) = qc
    BY <1>3, <2>2, <2>4 DEF PlaceAt
  <2>7. \A p \in 1..Len(g[L]) : p # Len(g[L]) => p \in 1..Len(f[L])
    BY <2>1, <2>2, <2>4
  <2>8. \A p \in 1..Len(o) : p \in 1..Len(g[L]) /\ p \in 0..Len(o)
    BY <2>2, <2>4
  <2>9. 0 \in 0..Len(o) /\ Len(o) + 1 \in Nat \ {0}
    BY <2>2
  <2>10. \A n : n \in DOMAIN m \/ n = L => PlaceAt(m, qc, g, n, 0) = PlaceAt(m, pc, f, n, 0)
    BY <1>6, <2>5, <2>9
  <2>11. ASSUME NEW n \in DOMAIN f, n \in DOMAIN m \/ n = L, NEW p \in 1..Len(f[n])
         PROVE  /\ p \in 1..Len(g[n]) /\ g[n][p] = f[n][p]
                /\ PlaceAt(m, qc, g, n, p) = PlaceAt(m, pc, f, n, p)
    <3>1. CASE n = L
      BY <2>1, <2>4, <2>5, <2>8, <2>11, <3>1
    <3>2. CASE n # L
      BY <1>5, <1>6, <2>11, <3>2
    <3> QED BY <3>1, <3>2
  <2>12. \A n \in DOMAIN f : n # L => Len(g[n]) = Len(f[n])
    BY <1>5
  <2>13. L \in DOMAIN g /\ Len(g[L]) \in Nat \ {0} /\ g[L][Len(g[L])] = pc
    BY <1>5, <2>4, <2>9
  <2> QED BY <1>7, <2>6, <2>7, <2>10, <2>11, <2>12, <2>13 DEF Extends
<1>8. CASE L \notin DOMAIN f
  <2>1. g[L] = <<pc>> /\ Len(g[L]) = 1 /\ g[L][1] = pc
    BY <1>8 DEF Extended
  <2>2. PlaceAt(m, qc, g, L, 0) = pc /\ PlaceAt(m, qc, g, L, 1) = qc
    BY <1>3, <1>5, <2>1 DEF PlaceAt
  <2>3. PlaceAt(m, pc, f, L, 0) = pc
    BY <1>3, <1>8 DEF PlaceAt
  <2>4. \A p \in 1..Len(g[L]) : p = Len(g[L])
    <3>1. 1..Len(g[L]) = {1}
      BY ONLY <2>1
    <3> QED BY <2>1, <3>1
  <2>5. \A n : n \in DOMAIN m \/ n = L => PlaceAt(m, qc, g, n, 0) = PlaceAt(m, pc, f, n, 0)
    BY <1>6, <2>2, <2>3
  <2>6. ASSUME NEW n \in DOMAIN f, n \in DOMAIN m \/ n = L, NEW p \in 1..Len(f[n])
        PROVE  /\ p \in 1..Len(g[n]) /\ g[n][p] = f[n][p]
               /\ PlaceAt(m, qc, g, n, p) = PlaceAt(m, pc, f, n, p)
    BY <1>5, <1>6, <1>8, <2>6
  <2>7. \A n \in DOMAIN f : n # L => Len(g[n]) = Len(f[n])
    BY <1>5
  <2>8. L \in DOMAIN g /\ Len(g[L]) \in Nat \ {0} /\ g[L][Len(g[L])] = pc
    BY <1>5, <2>1
  <2>9. PlaceAt(m, qc, g, L, Len(g[L])) = qc
    BY <2>1, <2>2
  <2> QED BY <2>4, <2>5, <2>6, <2>7, <2>8, <2>9 DEF Extends
<1> QED BY <1>7, <1>8

(* A jump is followed.                                                     *)
LEMMA FollowedPaths ==
  ASSUME NEW m, Laid(m), NEW pc, NEW qc, NEW f, NEW g, NEW S,
         f \in [DOMAIN f -> Seq(S)], pc \in S,
         InText(pc), text[pc].op = "JAL", text[pc].rd = "zero", qc = pc + text[pc].imm,
         g = Extended(f, Len(m) + 1, pc),
         NEW blocks, TracesStand(m, blocks), PathsOf(m, pc, f, blocks),
         NEW t, OpenOf(m, pc, f, blocks, t), t.busy,
         StartsAt(m, t.railBB.startLocationInCache),
         NEW u, u.railBB.startLocationInCache = t.railBB.startLocationInCache,
         u.railBB.firstAddr = t.railBB.firstAddr, u.busy
  PROVE  PathsOf(m, qc, g, blocks) /\ OpenOf(m, qc, g, blocks, u)
<1>1. PICK L : L = Len(m) + 1
  OBVIOUS
<1>2. Len(m) \in Nat /\ DOMAIN m = 1..Len(m)
  BY WordOfLaid
<1>3. /\ \A n : n \in DOMAIN m \/ n = L => PlaceAt(m, qc, g, n, 0) = PlaceAt(m, pc, f, n, 0)
      /\ \A n \in DOMAIN f : n \in DOMAIN m \/ n = L =>
           \A p \in 1..Len(f[n]) : /\ p \in 1..Len(g[n]) /\ g[n][p] = f[n][p]
                                   /\ PlaceAt(m, qc, g, n, p) = PlaceAt(m, pc, f, n, p)
      /\ \A n \in DOMAIN f : n # L => Len(g[n]) = Len(f[n])
      /\ L \in DOMAIN g /\ Len(g[L]) \in Nat \ {0} /\ g[L][Len(g[L])] = pc
      /\ PlaceAt(m, qc, g, L, Len(g[L])) = qc
      /\ \A p \in 1..Len(g[L]) : p # Len(g[L]) => L \in DOMAIN f /\ p \in 1..Len(f[L])
  <2>1. g = Extended(f, L, pc)
    BY <1>1
  <2>2. Extends(m, pc, qc, f, g, L)
    BY ONLY Laid(m), f \in [DOMAIN f -> Seq(S)], pc \in S, <1>1, <2>1, FollowedPlace
  <2> QED BY ONLY <2>2 DEF Extends
<1>4. DOMAIN g = DOMAIN f \cup {L}
  BY <1>1 DEF Extended
<1>5. \A n : n \in 1..(Len(m) + 1) => n \in DOMAIN m \/ n = L
  BY <1>1, <1>2
<1>6. ASSUME NEW n \in DOMAIN g
      PROVE  JumpsLead(m, qc, g, n)
  <2>1. CASE n # L
    <3>1. n \in DOMAIN f /\ JumpsLead(m, pc, f, n)
      BY <1>4, <2>1 DEF PathsOf
    <3>2. n \in DOMAIN m /\ Len(g[n]) = Len(f[n])
      BY <1>3, <1>5, <2>1, <3>1 DEF JumpsLead
    <3>3. ASSUME NEW p \in 1..Len(g[n]) PROVE Follows(m, qc, g, n, p)
      <4>1. Follows(m, pc, f, n, p) /\ g[n][p] = f[n][p]
            /\ PlaceAt(m, qc, g, n, p) = PlaceAt(m, pc, f, n, p)
        BY <1>3, <3>1, <3>2, <3>3 DEF JumpsLead
      <4> QED BY <4>1 DEF Follows
    <3> QED BY <3>1, <3>3 DEF JumpsLead
  <2>2. CASE n = L
    <3>1. n \in 1..(Len(m) + 1) /\ n \notin DOMAIN m
      BY <1>1, <1>2, <2>2
    <3>2. ASSUME NEW p \in 1..Len(g[n]) PROVE Follows(m, qc, g, n, p)
      <4>1. CASE p = Len(g[n])
        BY <1>3, <2>2, <4>1 DEF Follows
      <4>2. CASE p # Len(g[n])
        <5>1. L \in DOMAIN f /\ p \in 1..Len(f[L])
          BY <1>3, <2>2, <4>2
        <5>2. Follows(m, pc, f, L, p) /\ g[L][p] = f[L][p]
              /\ PlaceAt(m, qc, g, L, p) = PlaceAt(m, pc, f, L, p)
          BY <1>3, <5>1 DEF JumpsLead, PathsOf
        <5> QED BY <2>2, <5>2 DEF Follows
      <4> QED BY <4>1, <4>2
    <3> QED BY <3>1, <3>2 DEF JumpsLead
  <2> QED BY <2>1, <2>2
<1>7. ASSUME NEW n \in DOMAIN m, m[n].k \in StepKind
      PROVE  Leads(m, qc, g, m[n], NextOf(m, n))
  <2>1. PICK q : q = NextOf(m, n)
    OBVIOUS
  <2>2. q \in 1..(Len(m) + 1) /\ Leads(m, pc, f, m[n], q)
    BY <1>7, <2>1, StepBounds DEF PathsOf
  <2>3. PlaceAt(m, qc, g, q, 0) = PlaceAt(m, pc, f, q, 0)
    BY <1>3, <1>5, <2>2
  <2> QED BY <2>1, <2>2, <2>3 DEF Leads
<1>8. ASSUME NEW b, StartsAt(m, b.startLocationInCache), BeginsWith(m, pc, f, b)
      PROVE  BeginsWith(m, qc, g, b)
  <2>1. PICK q : q = b.startLocationInCache + 1
    OBVIOUS
  <2>2. q \in DOMAIN m \/ q = L
    BY <1>1, <1>2, <1>8, <2>1 DEF StartsAt
  <2>3. PlaceAt(m, qc, g, q, 0) = PlaceAt(m, pc, f, q, 0)
    BY <1>3, <2>2
  <2> QED BY <1>8, <2>1, <2>3 DEF BeginsWith
<1>9. PathsOf(m, qc, g, blocks)
  BY <1>6, <1>7, <1>8 DEF PathsOf, TracesStand
<1>10. PICK b, c : b = t.railBB /\ c = u.railBB
  OBVIOUS
<1>11. BeginsWith(m, qc, g, b)
  BY <1>8, <1>10 DEF OpenOf
<1>12. BeginsWith(m, qc, g, c)
  BY <1>10, <1>11 DEF BeginsWith
<1>13. OpenOf(m, qc, g, blocks, u)
  BY <1>10, <1>12 DEF OpenOf
<1> QED BY <1>9, <1>13

(* A block that is inserted.                                               *)
LEMMA InsertedPaths ==
  ASSUME NEW mm, NEW pc, NEW f, NEW blocks, PathsOf(mm, pc, f, blocks),
         NEW b, BeginsWith(mm, pc, f, b), EndsWith(mm, b)
  PROVE  PathsOf(mm, pc, f, InsertedBB(blocks, b))
<1>1. PICK new : new = InsertedBB(blocks, b)
  OBVIOUS
<1>2. \A a \in DOMAIN new : new[a] = b \/ (a \in DOMAIN blocks /\ new[a] = blocks[a])
  BY <1>1 DEF InsertedBB
<1>3. \A a \in DOMAIN new : BeginsWith(mm, pc, f, new[a]) /\ EndsWith(mm, new[a])
  BY <1>2 DEF PathsOf
<1> QED BY <1>1, <1>3 DEF PathsOf

(* The trace ends with words.                                              *)
LEMMA EndPaths ==
  ASSUME NEW m, Laid(m), NEW w, Piece(w), w # << >>, EndPiece(w), NEW pc, PieceLeads(w, pc),
         Heads(w, pc, pc), NEW type, PieceEnds(w, type, pc),
         NEW f, NEW blocks, TracesStand(m, blocks), PathsOf(m, pc, f, blocks),
         NEW t, OpenOf(m, pc, f, blocks, t), t.busy,
         NEW s, s = t.railBB.startLocationInCache, StartsAt(m, s), PlainFrom(m, s),
         NEW b, b.startLocationInCache = s, b.firstAddr = t.railBB.firstAddr,
         b.type = type, b.lastAddr = pc, NEW u, ~u.busy
  PROVE  /\ PathsOf(m \o w, pc, f, InsertedBB(blocks, b))
         /\ OpenOf(m \o w, pc, f, InsertedBB(blocks, b), u)
<1>1. PICK mm : mm = m \o w
  OBVIOUS
<1>2. PathsOf(mm, pc, f, blocks) /\ Carried(m, pc, mm, pc, f)
  BY <1>1, GluedPaths, GluedCarried
<1>3. m \in Seq(TraceCodeWord) /\ w \in Seq(TraceCodeWord) /\ Laid(w)
  BY DEF Laid, Piece
<1>4. /\ Len(m) \in Nat /\ Len(w) \in Nat /\ DOMAIN m = 1..Len(m) /\ DOMAIN w = 1..Len(w)
      /\ Len(mm) = Len(m) + Len(w) /\ DOMAIN mm = 1..(Len(m) + Len(w))
      /\ \A k \in DOMAIN m : mm[k] = m[k]
      /\ \A k \in DOMAIN w : mm[k + Len(m)] = w[k]
  BY <1>1, <1>3, Glued
<1>5. Len(w) > 0
  BY <1>3, <1>4
<1>6. BeginsWith(mm, pc, f, b)
  <2>1. PICK c : c = t.railBB
    OBVIOUS
  <2>2. BeginsWith(m, pc, f, c) /\ StartsAt(m, c.startLocationInCache)
    BY <2>1 DEF OpenOf
  <2>3. BeginsWith(mm, pc, f, c)
    BY <1>2, <2>2, BeginCarried
  <2> QED BY <2>1, <2>3 DEF BeginsWith
<1>7. ASSUME NEW n \in DOMAIN m, m[n].k \in StepKind
      PROVE  /\ mm[n] = m[n] /\ NextOf(mm, n) = NextOf(m, n) /\ NextOf(m, n) < Len(mm) + 1
             /\ n >= s => ~SegmentExit(mm, NextOf(mm, n))
  <2>1. mm[n] = m[n] /\ NextOf(mm, n) = NextOf(m, n)
    BY <1>4 DEF NextOf
  <2>2. PICK q : q = NextOf(m, n)
    OBVIOUS
  <2>3. q \in 1..(Len(m) + 1) /\ n < q
    BY <1>7, <2>2, StepBounds
  <2>4. CASE q \in DOMAIN m
    <3>1. mm[q] = m[q] /\ (n >= s => m[q].k # "save")
      <4>1. s \in DOMAIN m /\ n \in Int /\ q \in Int /\ s \in Int
        BY <1>4, <2>4 DEF StartsAt
      <4> QED BY <1>4, <2>3, <2>4, <4>1 DEF PlainFrom
    <3> QED BY <1>4, <2>1, <2>2, <2>3, <2>4, <3>1 DEF SegmentExit
  <2>5. CASE q \notin DOMAIN m
    <3>1. q = Len(m) + 1 /\ 1 \in 1..(Len(w) + 1)
      BY <1>4, <2>3, <2>5
    <3>2. SegmentExit(m \o w, Len(m) + 1) <=> SegmentExit(w, 1)
      BY <1>3, <3>1, GluedBehind
    <3>3. ~SegmentExit(w, 1)
      BY DEF Heads
    <3> QED BY <1>1, <1>4, <1>5, <2>1, <2>2, <3>1, <3>2, <3>3
  <2> QED BY <2>4, <2>5
<1>8. ASSUME NEW k \in DOMAIN w, w[k].k \in StepKind
      PROVE  /\ mm[Len(m) + k] = w[k] /\ NextOf(mm, Len(m) + k) < Len(mm) + 1
             /\ SegmentExit(mm, NextOf(mm, Len(m) + k)) => type = "SEGMENTED" /\ w[k].a = pc
  <2>1. mm[Len(m) + k] = w[k]
    BY <1>4
  <2>2. PICK q : q = NextOf(w, k)
    OBVIOUS
  <2>3. q \in DOMAIN w /\ q \in 1..(Len(w) + 1)
    BY <1>4, <1>8, <2>2 DEF EndPiece
  <2>4. NextOf(mm, Len(m) + k) = Len(m) + q
    <3>1. PICK z : z = StraightLength(w[k].k)
      OBVIOUS
    <3>2. z \in {1, 3} /\ q = k + z /\ NextOf(mm, Len(m) + k) = Len(m) + k + z
      BY <2>1, <2>2, <3>1 DEF NextOf, StraightLength
    <3>3. k \in Int /\ Len(m) \in Int
      BY <1>4
    <3>4. Len(m) + k + z = Len(m) + (k + z)
      BY ONLY <3>2, <3>3
    <3> QED BY <3>2, <3>4
  <2>5. SegmentExit(m \o w, Len(m) + q) <=> SegmentExit(w, q)
    BY <1>3, <2>3, GluedBehind
  <2>6. Len(m) + q < Len(mm) + 1
    BY <1>4, <2>3
  <2> QED BY <1>1, <1>8, <2>1, <2>2, <2>4, <2>5, <2>6 DEF PieceEnds
<1>9. ASSUME NEW n \in DOMAIN mm
      PROVE  n \in DOMAIN m \/ \E k \in DOMAIN w : n = Len(m) + k
  <2>1. n \in DOMAIN (m \o w)
    BY ONLY <1>1, <1>9
  <2>2. Laid(w)
    BY <1>3
  <2> QED BY ONLY Laid(m), <2>1, <2>2, GluedWord
<1>10. EndsWith(mm, b)
  <2> SUFFICES ASSUME NEW n \in Within(b), mm[n].k \in StepKind, NextOf(mm, n) \in Within(b),
                      SegmentExit(mm, NextOf(mm, n))
               PROVE  type = "SEGMENTED" /\ pc = mm[n].a
    BY DEF EndsWith
  <2>1. n >= s /\ n \in Int /\ s \in 1..Len(m)
    BY <1>4 DEF Within, StartsAt
  <2>2. NextOf(mm, n) \in DOMAIN mm
    BY DEF SegmentExit
  <2>3. n < NextOf(mm, n)
    BY <2>1 DEF NextOf, StraightLength
  <2>4. n \in DOMAIN mm
    BY <1>4, <2>1, <2>2, <2>3
  <2>5. CASE n \in DOMAIN m
    BY <1>4, <1>7, <2>1, <2>5
  <2>6. ASSUME NEW k \in DOMAIN w, n = Len(m) + k
        PROVE  type = "SEGMENTED" /\ pc = mm[n].a
    BY <1>4, <1>8, <2>6
  <2> QED BY <1>9, <2>4, <2>5, <2>6
<1>11. ~OpenEnd(mm)
  <2> SUFFICES ASSUME NEW n \in DOMAIN mm, mm[n].k \in StepKind, NextOf(mm, n) = Len(mm) + 1
               PROVE  FALSE
    BY DEF OpenEnd
  <2>1. CASE n \in DOMAIN m
    BY <1>4, <1>7, <2>1
  <2>2. ASSUME NEW k \in DOMAIN w, n = Len(m) + k
        PROVE  FALSE
    BY <1>4, <1>8, <2>2
  <2> QED BY <1>9, <2>1, <2>2
<1>12. Len(mm) + 1 \notin DOMAIN f
  <2>1. DOMAIN f \subseteq 1..(Len(m) + 1)
    BY DEF PathsOf, JumpsLead
  <2> QED BY <1>4, <1>5, <2>1
<1>13. PathsOf(mm, pc, f, InsertedBB(blocks, b))
  BY <1>2, <1>6, <1>10, InsertedPaths
<1> QED BY <1>1, <1>11, <1>12, <1>13 DEF OpenOf

(* The trace ends with the text.                                           *)
LEMMA BreakPaths ==
  ASSUME NEW m, Laid(m), NEW pc, Fetch(pc).op = "none",
         NEW f, NEW blocks, PathsOf(m, pc, f, blocks),
         NEW t, OpenOf(m, pc, f, blocks, t), t.busy,
         NEW s, s = t.railBB.startLocationInCache, StartsAt(m, s), PlainFrom(m, s),
         NEW b, b.startLocationInCache = s, b.firstAddr = t.railBB.firstAddr,
         b.endLocationInCache = Len(m) + 1, NEW u, ~u.busy
  PROVE  /\ PathsOf(m, pc, f, InsertedBB(blocks, b))
         /\ OpenOf(m, pc, f, InsertedBB(blocks, b), u)
<1>1. Len(m) \in Nat /\ DOMAIN m = 1..Len(m) /\ s \in 1..Len(m)
  BY WordOfLaid DEF StartsAt
<1>2. /\ BeginsWith(m, pc, f, t.railBB) /\ OpenEnd(m) /\ ClosedBefore(m, s)
  BY DEF OpenOf
<1>3. BeginsWith(m, pc, f, b)
  BY <1>2 DEF BeginsWith
<1>4. EndsWith(m, b)
  <2> SUFFICES ASSUME NEW n \in Within(b), NextOf(m, n) \in Within(b),
                      SegmentExit(m, NextOf(m, n))
               PROVE  FALSE
    BY DEF EndsWith
  <2>1. NextOf(m, n) >= s /\ NextOf(m, n) \in DOMAIN m
    BY <1>1 DEF Within
  <2> QED BY <2>1 DEF PlainFrom, SegmentExit
<1>5. PICK new : new = InsertedBB(blocks, b)
  OBVIOUS
<1>6. b.firstAddr \in DOMAIN new /\ (b.firstAddr \in DOMAIN blocks \/ new[b.firstAddr] = b)
  BY <1>5 DEF InsertedBB
<1>7. PICK n \in DOMAIN m : m[n].k \in StepKind /\ NextOf(m, n) = Len(m) + 1
  BY <1>2 DEF OpenEnd
<1>8. ~(n < s)
  BY <1>1, <1>2, <1>7 DEF ClosedBefore
<1>9. n \in Within(b)
  BY <1>1, <1>7, <1>8 DEF Within
<1>10. ~Ended(m, b)
  BY <1>7, <1>9 DEF Ended
<1>11. new[b.firstAddr] = b
  BY <1>5 DEF InsertedBB
<1>12. PathsOf(m, pc, f, new)
  BY <1>3, <1>4, <1>5, InsertedPaths
<1>13. OpenOf(m, pc, f, new, u)
  BY <1>2, <1>6, <1>10, <1>11 DEF OpenOf
<1> QED BY <1>5, <1>12, <1>13

(* The cursor moves where no trace is open.                                *)
LEMMA CursorPaths ==
  ASSUME NEW m, Laid(m), NEW pc, NEW qc, NEW f, NEW blocks, TracesStand(m, blocks),
         PathsOf(m, pc, f, blocks), NEW t, OpenOf(m, pc, f, blocks, t), ~OpenEnd(m), ~t.busy
  PROVE  PathsOf(m, qc, f, blocks) /\ OpenOf(m, qc, f, blocks, t)
<1>1. PICK w : w = << >>
  OBVIOUS
<1>2. Piece(w) /\ m \o w = m
  BY <1>1, EmptyPiece DEF Laid
<1>3. PieceLeads(w, qc)
  BY <1>1 DEF PieceLeads, WordsCarry
<1>4. Len(m) + 1 \notin DOMAIN f
  BY DEF OpenOf
<1>5. PathsOf(m \o w, qc, f, blocks)
  BY <1>2, <1>3, <1>4, GluedPaths
<1> QED BY <1>2, <1>4, <1>5 DEF OpenOf

(* What the allocator finds.                                               *)
PathHyp ==
  /\ TraceTypes /\ DispatcherTypeOK /\ LayoutInv /\ FollowedInv /\ TraceControlInv
  /\ NoForwardedEcalls /\ ExtentInv /\ PathInv /\ status = "running"

LEMMA AllocatingPaths ==
  ASSUME PathHyp, trace.busy
  PROVE  /\ Laid(memory) /\ TracesStand(memory, RailBasicBlocks)
         /\ PathsOf(memory, program_counter, followed, RailBasicBlocks)
         /\ OpenOf(memory, program_counter, followed, RailBasicBlocks, trace)
         /\ StartsAt(memory, trace.railBB.startLocationInCache)
         /\ PlainFrom(memory, trace.railBB.startLocationInCache)
<1>1. ExtentParts /\ StartsAt(memory, trace.railBB.startLocationInCache)
      /\ PlainFrom(memory, trace.railBB.startLocationInCache)
  BY WhileAllocating DEF PathHyp
<1> QED BY <1>1, TracesStandHere DEF PathHyp, ExtentParts, PathInv

(* An end with words.                                                      *)
LEMMA TraceEndPaths ==
  ASSUME PathHyp, trace.busy, text' = text, tool' = tool,
         NEW w, Piece(w), w # << >>, EndPiece(w), PieceLeads(w, program_counter),
         Heads(w, program_counter, program_counter),
         NEW type \in BlockType, PieceEnds(w, type, program_counter), TraceEnd(type, w)
  PROVE  PathInv'
<1>1. PICK m, pc, f, blocks, t :
        /\ m = memory /\ pc = program_counter /\ f = followed /\ blocks = RailBasicBlocks
        /\ t = trace
  OBVIOUS
<1>2. /\ Laid(m) /\ TracesStand(m, blocks) /\ PathsOf(m, pc, f, blocks)
      /\ OpenOf(m, pc, f, blocks, t) /\ StartsAt(m, t.railBB.startLocationInCache)
      /\ PlainFrom(m, t.railBB.startLocationInCache) /\ t.busy
  BY <1>1, AllocatingPaths
<1>3. PICK r, s : r = t.railBB /\ s = t.railBB.startLocationInCache
  OBVIOUS
<1>4. PICK mm, i : mm = m \o w /\ i = Fetch(pc)
  OBVIOUS
<1>5. PICK b : b = [r EXCEPT !.type = type, !.lastAddr = pc, !.terminalInst = i,
                             !.endLocationInCache = EndOf(mm)]
  OBVIOUS
<1>6. PICK u : u = IdleTrace
  OBVIOUS
<1>7. /\ memory' = mm /\ RailBasicBlocks' = InsertedBB(blocks, b) /\ trace' = u /\ ~u.busy
      /\ program_counter' = pc /\ followed' = f
  BY <1>1, <1>3, <1>4, <1>5, <1>6 DEF TraceEnd, IdleTrace
<1>8. r \in Block
  BY <1>1, <1>3 DEF PathHyp, TraceTypes
<1>9. b.startLocationInCache = s /\ b.firstAddr = t.railBB.firstAddr /\ b.type = type
      /\ b.lastAddr = pc
  BY <1>3, <1>5, <1>8 DEF Block
<1>10. PieceLeads(w, pc) /\ Heads(w, pc, pc) /\ PieceEnds(w, type, pc)
  BY <1>1
<1>11. StartsAt(m, s) /\ PlainFrom(m, s)
  BY <1>2, <1>3
<1>12. PICK new : new = InsertedBB(blocks, b)
  OBVIOUS
<1>13. PathsOf(mm, pc, f, new) /\ OpenOf(mm, pc, f, new, u)
  BY <1>2, <1>3, <1>4, <1>7, <1>9, <1>10, <1>11, <1>12, EndPaths
<1> QED BY <1>7, <1>12, <1>13, PathNext

(* The end of the text.                                                    *)
LEMMA TextEndPaths ==
  ASSUME PathHyp, trace.busy, text' = text, tool' = tool, Fetch(program_counter).op = "none",
         NEW type \in BlockType, TraceEnd(type, << >>)
  PROVE  PathInv'
<1>1. PICK m, pc, f, blocks, t :
        /\ m = memory /\ pc = program_counter /\ f = followed /\ blocks = RailBasicBlocks
        /\ t = trace
  OBVIOUS
<1>2. /\ Laid(m) /\ PathsOf(m, pc, f, blocks)
      /\ OpenOf(m, pc, f, blocks, t) /\ StartsAt(m, t.railBB.startLocationInCache)
      /\ PlainFrom(m, t.railBB.startLocationInCache) /\ t.busy
  BY <1>1, AllocatingPaths
<1>3. PICK r, s : r = t.railBB /\ s = t.railBB.startLocationInCache
  OBVIOUS
<1>4. PICK i, e : i = Fetch(pc) /\ e = EndOf(m \o << >>)
  OBVIOUS
<1>5. PICK b : b = [r EXCEPT !.type = type, !.lastAddr = pc, !.terminalInst = i,
                             !.endLocationInCache = e]
  OBVIOUS
<1>6. PICK u : u = IdleTrace
  OBVIOUS
<1>7. m \o << >> = m
  BY <1>2 DEF Laid
<1>8. /\ memory' = m /\ RailBasicBlocks' = InsertedBB(blocks, b) /\ trace' = u /\ ~u.busy
      /\ program_counter' = pc /\ followed' = f
  BY <1>1, <1>3, <1>4, <1>5, <1>6, <1>7 DEF TraceEnd, IdleTrace
<1>9. r \in Block
  BY <1>1, <1>3 DEF PathHyp, TraceTypes
<1>10. e = Len(m) + 1
  BY <1>4, <1>7 DEF EndOf
<1>11. b.startLocationInCache = s /\ b.firstAddr = t.railBB.firstAddr
       /\ b.endLocationInCache = Len(m) + 1
  BY <1>3, <1>5, <1>9, <1>10 DEF Block
<1>12. StartsAt(m, s) /\ PlainFrom(m, s) /\ Fetch(pc).op = "none"
  BY <1>1, <1>2, <1>3
<1>13. PICK new : new = InsertedBB(blocks, b)
  OBVIOUS
<1>14. PathsOf(m, pc, f, new) /\ OpenOf(m, pc, f, new, u)
  BY <1>2, <1>3, <1>8, <1>11, <1>12, <1>13, BreakPaths
<1> QED BY <1>8, <1>13, <1>14, PathNext

(* A word more.                                                            *)
LEMMA TraceGoesOnPaths ==
  ASSUME PathHyp, trace.busy, text' = text, tool' = tool,
         NEW v, v.k \in PlainWord \cup {"liRd"}, Carries(v), v.a = program_counter,
         v.k \in PlainWord => ~TraceSegmentsAfter(text[v.a]),
         NEW w, w = Sequence(v), Piece(w),
         memory' = memory \o w, program_counter' = NextAddr(v), RailBasicBlocks' = RailBasicBlocks,
         followed' = followed, trace'.busy,
         trace'.railBB.firstAddr = trace.railBB.firstAddr,
         trace'.railBB.startLocationInCache = trace.railBB.startLocationInCache
  PROVE  PathInv'
<1>1. PICK m, pc, f, blocks, t, qc, u :
        /\ m = memory /\ pc = program_counter /\ f = followed /\ blocks = RailBasicBlocks
        /\ t = trace /\ qc = NextAddr(v) /\ u = trace'
  OBVIOUS
<1>2. /\ Laid(m) /\ TracesStand(m, blocks) /\ PathsOf(m, pc, f, blocks)
      /\ OpenOf(m, pc, f, blocks, t) /\ StartsAt(m, t.railBB.startLocationInCache)
      /\ t.busy
  BY <1>1, AllocatingPaths
<1>3. PieceLeads(w, qc) /\ Heads(w, pc, qc) /\ OpenEnd(w)
  BY <1>1, SequenceLeads
<1>4. /\ u.railBB.firstAddr = t.railBB.firstAddr /\ u.busy
      /\ u.railBB.startLocationInCache = t.railBB.startLocationInCache
  BY <1>1
<1>5. PICK mm : mm = m \o w
  OBVIOUS
<1>6. PathsOf(mm, qc, f, blocks) /\ OpenOf(mm, qc, f, blocks, u)
  BY <1>2, <1>3, <1>4, <1>5, GoesOnPaths
<1>7. /\ memory' = mm /\ program_counter' = qc /\ followed' = f /\ RailBasicBlocks' = blocks
      /\ trace' = u
  BY <1>1, <1>5
<1> QED BY <1>6, <1>7, PathNext

(* A step of allocateTrace.                                                *)
LEMMA AllocateTracePaths ==
  ASSUME PathHyp, AllocateTraceStep
  PROVE  PathInv'
<1> DEFINE pc == program_counter
           i  == text[pc]
<1>0. /\ TraceTypes /\ text \in Seq(Inst) /\ pc \in Int /\ TraceStep
      /\ trace \in [busy : BOOLEAN, railBB : Block, count : Nat]
      /\ text' = text /\ tool' = tool
  BY DEF TraceTypes, PathHyp, AllocateTraceStep
<1>1. CASE TraceBranch
  <2>1. trace.busy /\ Fetch(pc).op = "BRANCH"
    BY <1>1 DEF TraceBranch, TraceAt
  <2>2. InText(pc) /\ i.op = "BRANCH" /\ "DIRECT_BRANCH" \in BlockType
    BY <1>0, <2>1, CursorInText DEF BlockType
  <2>3. PICK w : w = TraceBranchExit(pc)
    OBVIOUS
  <2>4. Piece(w) /\ Len(w) = 19 /\ w[1].k = "save" /\ w[3] = W("traceBranch", pc, 0)
    BY <1>0, <2>2, <2>3, BranchExitPiece
  <2>5. w[1 + 2].k = "traceBranch"
    BY <2>4, TraceWordFields
  <2>6. Len(w) = ExitLength(w, 1)
    BY <2>4, <2>5 DEF ExitLength
  <2>7. EndPiece(w)
    BY <2>4, <2>6, NoSteps
  <2>8. TraceEnd("DIRECT_BRANCH", w)
    BY <1>1, <2>3 DEF TraceBranch, TraceExits
  <2>9. PieceLeads(w, pc) /\ Heads(w, pc, pc) /\ PieceEnds(w, "DIRECT_BRANCH", pc)
    BY <2>4, <2>6, ExitLeads
  <2>10. w # << >>
    BY <2>4, <2>6, ExitWords
  <2> QED BY <1>0, <2>1, <2>2, <2>4, <2>7, <2>8, <2>9, <2>10, TraceEndPaths
<1>2. CASE TraceLastJump \/ TraceJalr
  <2>1. trace.busy /\ Fetch(pc).op \in {"JAL", "JALR"}
    BY <1>2 DEF TraceLastJump, TraceJalr, TraceAt
  <2>2. InText(pc) /\ i.op \in {"JAL", "JALR"}
    BY <1>0, <2>1, CursorInText
  <2>3. HostOf(pc) = ContextSwitchTraceExitTaken
    BY <2>2 DEF HostOf
  <2>4. PICK w : w = TraceExit(pc, HostOf(pc))
    OBVIOUS
  <2>5. Piece(w) /\ Len(w) = 10 /\ w[1].k = "save" /\ w[3] = W("lui", 0, pc)
    BY <1>0, <2>2, <2>4, ExitWordPiece
  <2>6. w[1 + 2].k = "lui"
    BY <2>5, TraceWordFields
  <2>7. Len(w) = ExitLength(w, 1)
    BY <2>5, <2>6 DEF ExitLength
  <2>8. EndPiece(w)
    BY <2>5, <2>7, NoSteps
  <2>9. PICK type \in {"DIRECT_BRANCH", "INDIRECT_BRANCH"} : TraceEnd(type, w)
    BY <1>2, <2>3, <2>4 DEF TraceLastJump, TraceJalr, TraceExits
  <2>10. type \in BlockType
    BY DEF BlockType
  <2>11. PieceLeads(w, pc) /\ Heads(w, pc, pc) /\ PieceEnds(w, type, pc)
    BY <2>5, <2>7, ExitLeads
  <2>12. w # << >>
    BY <2>5, <2>7, ExitWords
  <2> QED BY <1>0, <2>1, <2>5, <2>8, <2>9, <2>10, <2>11, <2>12, TraceEndPaths
<1>3. CASE TraceSystem
  <2>1. trace.busy /\ Fetch(pc).op = "SYSTEM"
    BY <1>3 DEF TraceSystem, TraceAt
  <2>2. InText(pc) /\ i.op = "SYSTEM" /\ "SYSCALL" \in BlockType
    BY <1>0, <2>1, CursorInText DEF BlockType
  <2>3. HostOf(pc) = ContextSwitchTraceExit
    BY <2>2 DEF HostOf
  <2>4. PICK x : x = TraceExit(pc, HostOf(pc))
    OBVIOUS
  <2>5. Piece(x) /\ Len(x) = 10 /\ x[1].k = "save" /\ x[3] = W("lui", 0, pc)
    BY <1>0, <2>2, <2>4, ExitWordPiece
  <2>6. x[1 + 2].k = "lui"
    BY <2>5, TraceWordFields
  <2>7. Len(x) = ExitLength(x, 1)
    BY <2>5, <2>6 DEF ExitLength
  <2>8. PICK w : w = x \o Ecall(pc)
    OBVIOUS
  <2>9. EndPiece(w)
    BY <2>5, <2>7, <2>8, EcallTail
  <2>10. Piece(w)
    <3>1. Piece(Ecall(pc))
      BY <2>2, EcallPiece
    <3> QED BY <2>5, <2>8, <3>1, PieceGlued DEF Piece
  <2>11. TraceEnd("SYSCALL", w)
    BY <1>3, <2>3, <2>4, <2>8 DEF TraceSystem, TraceExits
  <2>12. PICK a : a = pc
    OBVIOUS
  <2>13. /\ PieceLeads(w, a) /\ Heads(w, a, a) /\ PieceEnds(w, "SYSCALL", a)
         /\ w # << >>
    <3>1. x[3] = W("lui", 0, a) /\ InText(a) /\ w = x \o Ecall(a)
      BY <2>2, <2>5, <2>8, <2>12
    <3> QED BY <2>5, <2>7, <3>1, ExitEcallLeads
  <2> QED BY <1>0, <2>1, <2>2, <2>9, <2>10, <2>11, <2>12, <2>13, TraceEndPaths
<1>4. CASE TraceTextEnd
  <2>1. trace.busy /\ Fetch(pc).op = "none"
    BY <1>4 DEF TraceTextEnd, TraceAt
  <2>2. PICK type \in BlockType : TraceEnd(type, << >>)
    <3>1. trace.railBB.type \in BlockType
      BY <1>0 DEF Block
    <3> QED BY <1>4, <3>1 DEF TraceTextEnd
  <2> QED BY <1>0, <2>1, <2>2, TextEndPaths
<1>5. CASE TraceInstruction
  <2>1. trace.busy /\ Fetch(pc).op \in Opcode \ ControlOp
    BY <1>5 DEF TraceInstruction, TraceAt
  <2>2. Fetch(pc).op # "none"
    BY <2>1 DEF Opcode
  <2>3. InText(pc) /\ Fetch(pc) = i
    BY <1>0, <2>2, CursorInText
  <2>4. PICK v : /\ TraceInLine(i, pc) = Sequence(v) /\ v.k \in PlainWord /\ v.a = pc
                 /\ v.k = "mem" => i.op \in MemoryOp
    BY <2>1, <2>3, InLineWord
  <2>5. PICK x : x = Sequence(v)
    OBVIOUS
  <2>6. Piece(x)
    BY <1>0, <2>1, <2>3, <2>4, <2>5, InLinePiece
  <2>7. Carries(v) /\ Plain(i)
    BY <2>1, <2>2, <2>3, <2>4 DEF Carries, Plain, PlainWord
  <2>8. CASE TraceSegmentsAfter(i)
    <3>1. PICK y : y = SwitchTo(ContextSwitchTaken)
      OBVIOUS
    <3>2. PICK w : w = x \o y
      OBVIOUS
    <3>3. TraceEnd("SEGMENTED", w) /\ "SEGMENTED" \in BlockType
      BY <1>5, <2>3, <2>4, <2>5, <2>8, <3>1, <3>2 DEF TraceInstruction, BlockType
    <3>4. Piece(y) /\ y[1].k = "save" /\ Len(y) = ExitLength(y, 1) /\ y[1 + 2].k = "li"
      BY <3>1, SwitchPiece, SwitchLength
    <3>5. PlainFrom(x, 1)
      BY <2>4, <2>5, InLinePlain
    <3>6. EndPiece(w)
      BY <2>6, <3>2, <3>4, <3>5, PlainTail
    <3>7. Piece(w)
      BY <2>6, <3>2, <3>4, PieceGlued DEF Piece
    <3>8. IsSequence(x, v)
      BY <2>5, SequenceWords
    <3>9. Segmented
      <4>1. pc \in DOMAIN text
        BY <1>0, <2>3, InTextType
      <4> QED BY <2>3, <2>7, <2>8, <4>1 DEF Segmented
    <3>10. PICK a : a = pc
      OBVIOUS
    <3>11. PieceLeads(w, a) /\ Heads(w, v.a, a) /\ PieceEnds(w, "SEGMENTED", v.a) /\ w # << >>
      BY <2>4, <2>6, <2>7, <3>2, <3>4, <3>8, <3>9, SegmentLeads
    <3>12. v.a = a
      BY <2>4, <3>10
    <3>13. PieceLeads(w, a) /\ Heads(w, a, a) /\ PieceEnds(w, "SEGMENTED", a)
      BY <3>11, <3>12
    <3> QED BY <1>0, <2>1, <3>3, <3>6, <3>7, <3>10, <3>11, <3>13, TraceEndPaths
  <2>9. CASE ~TraceSegmentsAfter(i)
    <3>1. /\ memory' = memory \o x /\ RailBasicBlocks' = RailBasicBlocks /\ trace' = trace
          /\ followed' = followed /\ program_counter' = pc + 1
      BY <1>5, <2>3, <2>4, <2>5, <2>9 DEF TraceInstruction, TraceGoesOn
    <3>2. program_counter' = NextAddr(v)
      BY <2>4, <3>1 DEF NextAddr, PlainWord
    <3> QED BY <1>0, <2>1, <2>4, <2>5, <2>6, <2>7, <2>9, <3>1, <3>2, TraceGoesOnPaths
  <2> QED BY <2>8, <2>9
<1>6. CASE TraceJump
  <2>1. trace.busy /\ trace.count > 0 /\ Fetch(pc).op = "JAL"
    BY <1>6 DEF TraceJump, TraceAt
  <2>2. InText(pc) /\ Fetch(pc) = i /\ i.op = "JAL" /\ pc \in DOMAIN text
    BY <1>0, <2>1, CursorInText, InTextType
  <2>3. /\ memory' = memory \o FollowedJump(i, pc) /\ RailBasicBlocks' = RailBasicBlocks
        /\ trace' = [trace EXCEPT !.count = @ - 1, !.railBB.type = "DIRECT_BRANCH"]
        /\ program_counter' = pc + i.imm
        /\ followed' = IF i.rd = "zero" THEN FollowedWith(EndOf(memory), pc) ELSE followed
    BY <1>6, <2>2 DEF TraceJump, TraceGoesOn
  <2>4. /\ trace'.busy
        /\ trace'.railBB.startLocationInCache = trace.railBB.startLocationInCache
        /\ trace'.railBB.firstAddr = trace.railBB.firstAddr
    BY <1>0, <2>1, <2>3 DEF Block
  <2>5. CASE i.rd # "zero"
    <3>1. PICK v : v = W("liRd", pc, pc + 1)
      OBVIOUS
    <3>2. v.k = "liRd" /\ v.a = pc
      BY <3>1, TraceWordFields
    <3>3. PICK w : w = Sequence(v)
      OBVIOUS
    <3>4. FollowedJump(i, pc) = w
      BY <2>5, <3>1, <3>2, <3>3 DEF FollowedJump, Sequence, StraightLength
    <3>5. Piece(w)
      BY <1>0, <2>2, <3>4, FollowedPiece
    <3>6. Carries(v) /\ program_counter' = NextAddr(v)
      BY <2>2, <2>3, <2>5, <3>2 DEF Carries, PlainWord, NextAddr
    <3>7. memory' = memory \o w /\ followed' = followed
      BY <2>3, <2>5, <3>4
    <3>8. v.k \in PlainWord \cup {"liRd"} /\ v.k \notin PlainWord
      BY <3>2 DEF PlainWord
    <3> QED BY <1>0, <2>1, <2>3, <2>4, <3>2, <3>3, <3>5, <3>6, <3>7, <3>8, TraceGoesOnPaths
  <2>6. CASE i.rd = "zero"
    <3>1. PICK m, a, f, blocks, t, qc, g, u, S :
            /\ m = memory /\ a = pc /\ f = followed /\ blocks = RailBasicBlocks
            /\ t = trace /\ qc = pc + i.imm /\ g = followed' /\ u = trace'
            /\ S = {y \in DOMAIN text : text[y].op = "JAL"}
      OBVIOUS
    <3>2. /\ Laid(m) /\ TracesStand(m, blocks) /\ PathsOf(m, a, f, blocks)
          /\ OpenOf(m, a, f, blocks, t) /\ StartsAt(m, t.railBB.startLocationInCache)
          /\ t.busy
      BY <2>1, <3>1, AllocatingPaths
    <3>3. f \in [DOMAIN f -> Seq(S)] /\ a \in S
      BY <2>2, <3>1 DEF PathHyp, FollowedInv
    <3>4. g = Extended(f, Len(m) + 1, a)
      BY <2>3, <2>6, <3>1 DEF FollowedWith, EndOf, Extended
    <3>5. /\ InText(a) /\ text[a].op = "JAL" /\ text[a].rd = "zero" /\ qc = a + text[a].imm
      BY <2>2, <2>6, <3>1
    <3>6. /\ u.railBB.startLocationInCache = t.railBB.startLocationInCache
          /\ u.railBB.firstAddr = t.railBB.firstAddr /\ u.busy
      BY <2>4, <3>1
    <3>7. PathsOf(m, qc, g, blocks) /\ OpenOf(m, qc, g, blocks, u)
      BY <3>2, <3>3, <3>4, <3>5, <3>6, FollowedPaths
    <3>8. memory' = m
      BY <2>3, <2>6, <3>1, <3>2 DEF FollowedJump, Laid
    <3> QED BY <1>0, <2>3, <3>1, <3>7, <3>8, PathNext
  <2> QED BY <2>5, <2>6
<1> QED BY <1>0, <1>1, <1>2, <1>3, <1>4, <1>5, <1>6 DEF TraceStep

(* Blocks of the same words and addresses.                                 *)
LEMMA AdoptedPaths ==
  ASSUME NEW m, NEW pc, NEW f, NEW blocks, NEW new, DOMAIN new = DOMAIN blocks,
         \A a \in DOMAIN blocks :
           /\ new[a].firstAddr = blocks[a].firstAddr /\ new[a].lastAddr = blocks[a].lastAddr
           /\ new[a].type = blocks[a].type
           /\ new[a].startLocationInCache = blocks[a].startLocationInCache
           /\ new[a].endLocationInCache = blocks[a].endLocationInCache,
         PathsOf(m, pc, f, blocks), NEW t, OpenOf(m, pc, f, blocks, t)
  PROVE  PathsOf(m, pc, f, new) /\ OpenOf(m, pc, f, new, t)
<1>1. ASSUME NEW a \in DOMAIN blocks
      PROVE  /\ BeginsWith(m, pc, f, new[a]) /\ EndsWith(m, new[a])
             /\ Ended(m, new[a]) => Ended(m, blocks[a])
  <2>1. PICK b, c : b = blocks[a] /\ c = new[a]
    OBVIOUS
  <2>2. /\ c.firstAddr = b.firstAddr /\ c.lastAddr = b.lastAddr /\ c.type = b.type
        /\ c.startLocationInCache = b.startLocationInCache
        /\ c.endLocationInCache = b.endLocationInCache
    BY <2>1
  <2>3. BeginsWith(m, pc, f, b) /\ EndsWith(m, b)
    BY <2>1 DEF PathsOf
  <2>4. Within(c) = Within(b)
    BY <2>2 DEF Within
  <2>5. BeginsWith(m, pc, f, c)
    BY <2>2, <2>3 DEF BeginsWith
  <2>6. EndsWith(m, c)
    BY <2>2, <2>3, <2>4 DEF EndsWith
  <2>7. Ended(m, c) => Ended(m, b)
    BY <2>2, <2>4 DEF Ended
  <2> QED BY <2>1, <2>5, <2>6, <2>7
<1>2. PathsOf(m, pc, f, new)
  BY <1>1 DEF PathsOf
<1>3. OpenOf(m, pc, f, new, t)
  BY <1>1 DEF OpenOf
<1> QED BY <1>2, <1>3

(* What is overwritten opens and closes no trace.                          *)
LEMMA LinkedOpen ==
  ASSUME NEW m, Laid(m), NEW mm, SameFlow(m, mm), Len(mm) = Len(m), DOMAIN mm = DOMAIN m,
         NEW pc, NEW f, NEW blocks, TracesStand(m, blocks),
         NEW t, ~t.busy, OpenOf(m, pc, f, blocks, t)
  PROVE  OpenOf(mm, pc, f, blocks, t)
<1>1. ASSUME NEW n \in DOMAIN m
      PROVE  /\ m[n].k \in StepKind <=> mm[n].k \in StepKind
             /\ m[n].k \in StepKind => NextOf(mm, n) = NextOf(m, n)
  <2>1. FlowAt(m, mm, n)
    BY DEF SameFlow
  <2> QED BY <2>1 DEF FlowAt, StepKind, NextOf
<1>2. OpenEnd(mm) <=> OpenEnd(m)
  BY <1>1 DEF OpenEnd
<1>3. ASSUME NEW a \in DOMAIN blocks, ~Ended(m, blocks[a])
      PROVE  ~Ended(mm, blocks[a])
  <2>1. PICK b : b = blocks[a]
    OBVIOUS
  <2>2. b \in Block /\ Extent(m, b) /\ b.startLocationInCache \in DOMAIN m
    BY <2>1 DEF TracesStand, StartsAt
  <2>3. \A n \in Within(b) : n \in DOMAIN m
    BY <2>2, ExtentBounds
  <2> QED BY <1>1, <1>3, <2>1, <2>3 DEF Ended
<1> QED BY <1>2, <1>3 DEF OpenOf

(* stub links the exit and enters the trace.                               *)
LEMMA StubEnterPaths ==
  ASSUME PathHyp, TraceStub_Enter
  PROVE  PathInv'
<1>1. PICK key, next : key = frame.nextBlockAddr /\ next = Lookup(key)
  OBVIOUS
<1>2. /\ status = "running" /\ phase = "stubWait" /\ ~trace.busy
      /\ memory' = LinkedMemory(next)
      /\ UNCHANGED <<text, tool, program_counter, trace, followed>>
  BY <1>1 DEF TraceStub_Enter, NoTraceStep
<1>3. TraceTypes /\ DispatcherTypeOK /\ LayoutInv /\ TraceControlInv /\ ExtentParts
  BY <1>2, ExtentInvParts DEF PathHyp
<1>4. ReportOK /\ key \in DOMAIN RailBasicBlocks
  BY <1>1, <1>2, <1>3, StubWaitFacts
<1>5. PICK m, mm, pc, f, blocks, t, new :
        /\ m = memory /\ mm = LinkedMemory(next) /\ pc = program_counter /\ f = followed
        /\ blocks = RailBasicBlocks /\ t = trace /\ new = RailBasicBlocks'
  OBVIOUS
<1>6. /\ SameFlow(m, mm) /\ Len(mm) = Len(m) /\ DOMAIN mm = DOMAIN m
      /\ \A k \in DOMAIN m : m[k].k = "save" => mm[k + 2] = m[k + 2]
  BY <1>3, <1>4, <1>5, LinkedMemoryFlow
<1>7. Laid(m) /\ TracesStand(m, blocks) /\ PathsOf(m, pc, f, blocks)
      /\ OpenOf(m, pc, f, blocks, t) /\ ~t.busy
  BY <1>2, <1>3, <1>5, TracesStandHere DEF ExtentParts, PathInv, PathHyp
<1>8. PathsOf(mm, pc, f, blocks) /\ OpenOf(mm, pc, f, blocks, t)
  BY <1>6, <1>7, LinkedPaths, LinkedOpen
<1>9. PICK bba : bba = frame.currentBasicBlock.basicBlockAddress
  OBVIOUS
<1>10. new \in {blocks, [blocks EXCEPT ![key].basicBlockAddress = bba]}
  BY <1>1, <1>5, <1>9 DEF TraceStub_Enter, AdoptSegment
<1>11. DOMAIN new = DOMAIN blocks
  BY <1>10
<1>12. \A a \in DOMAIN blocks :
         /\ new[a].firstAddr = blocks[a].firstAddr /\ new[a].lastAddr = blocks[a].lastAddr
         /\ new[a].type = blocks[a].type
         /\ new[a].startLocationInCache = blocks[a].startLocationInCache
         /\ new[a].endLocationInCache = blocks[a].endLocationInCache
  <2> TAKE a \in DOMAIN blocks
  <2>1. new[a] = blocks[a] \/ new[a] = [blocks[a] EXCEPT !.basicBlockAddress = bba]
    BY <1>10
  <2>2. blocks[a] \in Block
    BY <1>3, <1>5 DEF TraceTypes
  <2> QED BY <2>1, <2>2 DEF Block
<1>13. PathsOf(mm, pc, f, new) /\ OpenOf(mm, pc, f, new, t)
  BY <1>8, <1>11, <1>12, AdoptedPaths
<1> QED BY <1>2, <1>5, <1>13, PathNext

(* stub goes on.                                                           *)
LEMMA StubLeavesPaths ==
  ASSUME PathHyp, InStub, tool' = tool, NEW next, NEW execLast, TraceLeaveFor(next, execLast)
  PROVE  PathInv'
<1>1. /\ status = "running" /\ phase = "stub" /\ followed' = followed
  BY DEF TraceLeaveFor, InStub, NoTraceStep
<1>2. ExtentParts /\ ~trace.busy
  BY <1>1, HostParts, ExtentInvParts DEF InHost, PathHyp
<1>3. EveryEnded
  BY <1>1, <1>2 DEF EveryEnded, ExtentParts, AllEnded, OpenAt
<1>4. CASE next \notin DOMAIN RailBasicBlocks
  <2>1. TraceBegin(Cursor, next, TraceBlocks)
    BY <1>4 DEF TraceLeaveFor
  <2> QED BY <1>1, <1>2, <1>3, <2>1, TraceBeginPaths DEF ExtentParts, PathHyp
<1>5. CASE next \in DOMAIN RailBasicBlocks
  <2>1. PICK m, pc, qc, f, blocks, t :
          /\ m = memory /\ pc = program_counter /\ qc = Cursor /\ f = followed
          /\ blocks = RailBasicBlocks /\ t = trace
    OBVIOUS
  <2>2. /\ memory' = m /\ program_counter' = qc /\ followed' = f /\ RailBasicBlocks' = blocks
        /\ trace' = t /\ text' = text
    BY <1>1, <1>5, <2>1 DEF TraceLeaveFor
  <2>3. Laid(m) /\ TracesStand(m, blocks) /\ PathsOf(m, pc, f, blocks)
        /\ OpenOf(m, pc, f, blocks, t) /\ ~t.busy
    BY <1>2, <2>1, TracesStandHere DEF ExtentParts, PathInv, PathHyp
  <2>4. ~OpenEnd(m)
    BY <1>3, <2>1, <2>3 DEF OpenOf, EveryEnded
  <2>5. PathsOf(m, qc, f, blocks) /\ OpenOf(m, qc, f, blocks, t)
    BY <2>3, <2>4, CursorPaths
  <2> QED BY <2>2, <2>5, PathNext
<1> QED BY <1>4, <1>5

(* A step of the processor changes no path.                                *)
PathVarsStay ==
  /\ UNCHANGED <<memory, program_counter, RailBasicBlocks, followed, trace, text, tool>>
  /\ status' = "running" => status = "running"

LEMMA PathVarsKept ==
  ASSUME RunTraceStep \/ TraceInit_Enter \/ TraceHalted
  PROVE  PathVarsStay
<1>1. CASE RunTraceStep
  <2>1. UNCHANGED cacheVars /\ followed' = followed /\ trace' = trace
    BY <1>1 DEF RunTraceStep, RunOldWord, RunOldCrash, RunSave, RunOldSwitch, RunTraceSwitch,
       RunTraceLi, RunSdPc, RunTraceBranch, RunPopSp, RunLink, RunLiRd, RunFollowed,
       RunRestoreScratch, RunLi, RunGuestWord, RunEcall, RunJumpInCache, RunCrash,
       RunInlineSave, RunSwitch, Moves, traceVars
  <2>2. \A k : At(k) => status = "running"
    BY DEF At
  <2>3. status = "running"
    BY <1>1, <2>2
    DEF RunTraceStep, RunOldWord, RunOldCrash, RunSave, RunOldSwitch, RunTraceSwitch,
       RunTraceLi, RunSdPc, RunTraceBranch, RunPopSp, RunLink, RunLiRd, RunFollowed,
       RunRestoreScratch, RunLi, RunGuestWord, RunEcall, RunJumpInCache, RunCrash,
       RunInlineSave, RunSwitch
  <2> QED BY <2>1, <2>3 DEF cacheVars, PathVarsStay
<1>2. CASE TraceInit_Enter
  BY <1>2 DEF TraceInit_Enter, Init_Enter, cacheVars, NoTraceStep, EnterCacheAt, PathVarsStay
<1>3. CASE TraceHalted
  BY <1>3 DEF TraceHalted, Halted, vars, cacheVars, traceVars, traceHistory, dispatcherVars,
              PathVarsStay
<1> QED BY <1>1, <1>2, <1>3

LEMMA SamePathsKeep ==
  ASSUME PathInv, PathVarsStay
  PROVE  PathInv'
<1>1. CASE status' = "running"
  <2>1. /\ PathsOf(memory, program_counter, followed, RailBasicBlocks)
        /\ OpenOf(memory, program_counter, followed, RailBasicBlocks, trace)
    BY <1>1 DEF PathInv, PathVarsStay
  <2>2. /\ PathsOf(memory', program_counter', followed', RailBasicBlocks')
        /\ OpenOf(memory', program_counter', followed', RailBasicBlocks', trace')
    BY <2>1 DEF PathVarsStay
  <2> QED BY <2>2, PathNext DEF PathVarsStay
<1>2. CASE status' # "running"
  BY <1>2 DEF PathInv
<1> QED BY <1>1, <1>2

(* init allocates the first trace.                                         *)
LEMMA InitAllocatePaths ==
  ASSUME PathHyp, TraceInit_Allocate, tool' = tool
  PROVE  PathInv'
<1>1. /\ status = "running" /\ phase = "init" /\ followed' = followed
      /\ TraceBegin(program_counter, program_counter, 1)
  BY DEF TraceInit_Allocate, NoTraceStep
<1>2. DOMAIN RailBasicBlocks = {} /\ ExtentParts /\ ~trace.busy
  BY <1>1, HostParts, ExtentInvParts DEF InHost, PathHyp
<1>3. EveryEnded
  BY <1>2 DEF EveryEnded
<1> QED BY <1>1, <1>2, <1>3, TraceBeginPaths DEF ExtentParts, PathHyp

(* Every step keeps the paths.                                             *)
LEMMA TraceNextPaths ==
  ASSUME TraceInv, NoForwardedEcalls, ExtentInv, PathInv, [TraceNext]_allVars
  PROVE  PathInv'
<1>1. text' = text /\ tool' = tool
  BY TraceTextStays
<1>2. CASE RunTraceStep \/ TraceInit_Enter \/ TraceHalted
  BY <1>2, PathVarsKept, SamePathsKeep
<1>6. CASE UNCHANGED allVars
  <2>1. PathVarsStay
    BY <1>6 DEF PathVarsStay, allVars, vars, cacheVars, dispatcherVars, traceVars, traceHistory
  <2> QED BY <2>1, SamePathsKeep
<1>3. CASE TraceStub_Exit \/ TraceStub_GiveUp
  <2>1. status' # "running"
    BY <1>3 DEF TraceStub_Exit, TraceStub_GiveUp
  <2> QED BY <2>1 DEF PathInv
<1>4. CASE /\ status = "running"
           /\ AllocateTraceStep \/ TraceInit_Allocate \/ TraceStub_Enter \/ TraceStub_Transfer
              \/ TraceStub_Segment \/ TraceStub_Emulate \/ TraceStub_Forward
  <2>1. PathHyp
    BY <1>4, TraceInvParts DEF PathHyp
  <2>2. CASE TraceStub_Transfer \/ TraceStub_Segment \/ TraceStub_Emulate \/ TraceStub_Forward
    <3>1. InStub /\ \E next, execLast : TraceLeaveFor(next, execLast)
      BY <2>2 DEF TraceStub_Transfer, TraceStub_Segment, TraceStub_Emulate, TraceStub_Forward
    <3> QED BY <1>1, <2>1, <3>1, StubLeavesPaths
  <2> QED BY <1>1, <1>4, <2>1, <2>2, AllocateTracePaths, InitAllocatePaths, StubEnterPaths
<1>5. AllocateTraceStep \/ TraceInit_Allocate \/ TraceStub_Enter \/ TraceStub_Transfer
        \/ TraceStub_Segment \/ TraceStub_Emulate \/ TraceStub_Forward => status = "running"
  BY DEF AllocateTraceStep, TraceInit_Allocate, TraceStub_Enter, TraceStub_Transfer,
         TraceStub_Segment, TraceStub_Emulate, TraceStub_Forward, InStub
<1> QED BY <1>2, <1>3, <1>4, <1>5, <1>6 DEF TraceNext, TraceHostStep

(* At first there is no word of a trace.                                   *)
LEMMA TraceInitPaths == TraceInit => PathInv
<1> SUFFICES ASSUME TraceInit PROVE PathInv
  OBVIOUS
<1>1. /\ memory = Li(InitSwitch) \o JalrT6 /\ DOMAIN followed = {} /\ ~trace.busy
      /\ DOMAIN RailBasicBlocks = {}
  BY DEF TraceInit, Init, CacheInit, IdleTrace
<1>2. PICK h : h = InitSwitch
  OBVIOUS
<1>3. memory = <<W("li", 0, h), Cont, Cont>> \o <<W("jalrT6", 0, 0)>>
  BY <1>1, <1>2 DEF Li, JalrT6
<1>4. DOMAIN memory = 1..4 /\ memory[1] = W("li", 0, h) /\ memory[2] = Cont /\ memory[3] = Cont
      /\ memory[4] = W("jalrT6", 0, 0)
  BY <1>3
<1>5. \A n \in DOMAIN memory : memory[n].k \in {"li", "cont", "jalrT6"}
  BY <1>4, TraceWordFields, ContWord
<1>6. \A n \in DOMAIN memory : memory[n].k \notin StepKind \cup {"save"}
  BY <1>5 DEF StepKind, StraightKind
<1>7. WordsCarry(memory)
  BY <1>6 DEF WordsCarry, Carries, SegmentExit, StepKind, StraightKind, PlainWord
<1>8. ~OpenEnd(memory)
  BY <1>6 DEF OpenEnd
<1> QED BY <1>1, <1>6, <1>7, <1>8 DEF PathInv, PathsOf, OpenOf

-----------------------------------------------------------------------------
(* Where the guest is: the processor in the cache.                         *)

PlaceHyp == PathHyp /\ PlaceInv /\ PlainText /\ LinksAsMeant

CacheKept ==
  UNCHANGED <<memory, text, tool, RailBasicBlocks, program_counter, currentBB, trace,
              status, phase, followed>>

(* What the guest sees of a step: nothing, or one of its instructions.     *)
Unnoticed == UNCHANGED <<text, gpc, TraceArchRegs, served, status>>

RetiresOne ==
  /\ InText(gpc) /\ text[gpc].op # "SYSTEM"
  /\ gpc' = Target(text[gpc], gpc, TraceArchRegs)
  /\ TraceArchRegs' = Execute(text[gpc], gpc, TraceArchRegs)
  /\ UNCHANGED <<text, served, status>>

(* A jump or branch that retires without stub.                             *)
TransfersHere ==
  /\ DOMAIN RailBasicBlocks # {} /\ CacheKept
  /\ InText(gpc) /\ text[gpc].op \in {"BRANCH", "JAL"}
  /\ \E next : RetireTransfer(gpc, next)

(* What is known while the processor runs.                                 *)
LEMMA PlaceParts ==
  ASSUME PlaceHyp, phase = "run"
  PROVE  /\ TraceTypes /\ DispatcherTypeOK /\ LayoutInv /\ FollowedInv /\ TraceControlInv
         /\ NoForwardedEcalls /\ ExtentInv /\ ExtentParts /\ status = "running"
         /\ InCache /\ ~AtTail /\ ~trace.busy /\ sp \in {0, -16}
         /\ Laid(memory) /\ DOMAIN memory = 1..Len(memory) /\ Len(memory) \in Nat
         /\ PathsOf(memory, program_counter, followed, RailBasicBlocks)
         /\ OpenOf(memory, program_counter, followed, RailBasicBlocks, trace)
         /\ CachePlace /\ (linked => ~Segmented) /\ PlainText /\ LinksAsMeant
<1>1. /\ TraceTypes /\ DispatcherTypeOK /\ LayoutInv /\ FollowedInv /\ TraceControlInv
      /\ NoForwardedEcalls /\ ExtentInv /\ PathInv /\ status = "running"
      /\ PlaceInv /\ PlainText /\ LinksAsMeant
  BY DEF PlaceHyp, PathHyp
<1>2. ExtentParts /\ CachePlace /\ (linked => ~Segmented)
      /\ PathsOf(memory, program_counter, followed, RailBasicBlocks)
      /\ OpenOf(memory, program_counter, followed, RailBasicBlocks, trace)
  BY <1>1, ExtentInvParts DEF PlaceInv, PathInv
<1>3. InCache /\ ~trace.busy /\ sp \in {0, -16}
  BY <1>1, RunningInCache
<1>4. ~AtTail
  BY <1>1 DEF AtTail
<1>5. LayoutOf(memory, exits, RailBasicBlocks, trace)
  BY <1>1 DEF LayoutInv
<1>6. Laid(memory)
  BY <1>5, LayoutParts
<1>7. DOMAIN memory = 1..Len(memory) /\ Len(memory) \in Nat
  BY <1>6, WordOfLaid
<1> QED BY <1>1, <1>2, <1>3, <1>4, <1>6, <1>7

(* The guest's registers.                                                  *)
LEMMA ArchHere ==
  ASSUME regs \in [Reg -> Int]
  PROVE  /\ ~t6Saved \/ regs.t6 = slot => TraceArchRegs = regs
         /\ t6Saved => TraceArchRegs = TRAPFRAME
  BY DEF TraceArchRegs, TRAPFRAME, Reg

(* No sequence begins inside an exit.                                      *)
LEMMA NoneInside ==
  ASSUME NEW m, Laid(m), NEW n \in DOMAIN m, m[n].k = "save",
         NEW i \in (n + 1)..(n + ExitLength(m, n) - 1)
  PROVE  i \in DOMAIN m /\ m[i].k \in ExitKind /\ ~Begins(m, i)
<1>1. /\ DOMAIN m = 1..Len(m) /\ Len(m) \in Nat /\ n \in Int /\ ExitAt(m, n)
  BY WordOfLaid DEF Laid, ExitsLaid
<1>2. i \in DOMAIN m /\ m[i].k \in ExitKind
  BY <1>1, ExitShape
<1>3. i # Len(m) + 1
  BY <1>1, <1>2
<1> QED BY <1>2, <1>3 DEF Begins, ExitKind, StraightKind

(* A step to the beginning of a sequence,                                  *)
LEMMA ToSequencePlace ==
  ASSUME PlaceHyp, phase = "run", CacheKept, DOMAIN RailBasicBlocks # {},
         Begins(memory, ip'), sp' = 0, linked' => ~Segmented, SequencePlace'
  PROVE  PlaceInv'
<1>1. Laid(memory)
  BY PlaceParts
<1>2. UNCHANGED <<memory, text, tool, RailBasicBlocks, phase>>
  BY DEF CacheKept
<1>3. ~\E n \in DOMAIN memory : /\ memory[n].k = "save"
                                /\ ip' \in (n + 1)..(n + ExitLength(memory, n) - 1)
  BY <1>1, NoneInside
<1>4. \A n \in DOMAIN memory' : ~InsideExit(n)'
  BY <1>2, <1>3 DEF InsideExit, ExitLength
<1>5. Segmented' <=> Segmented
  BY <1>2 DEF Segmented, TraceSegmentsAfter, InText, Plain
<1>6. CachePlace'
  BY <1>2, <1>4 DEF CachePlace
<1> QED BY <1>2, <1>5, <1>6 DEF PlaceInv

(* or into an exit.                                                        *)
LEMMA ToExitPlace ==
  ASSUME PlaceHyp, phase = "run", CacheKept, DOMAIN RailBasicBlocks # {},
         NEW n \in DOMAIN memory, memory[n].k = "save",
         ip' \in (n + 1)..(n + ExitLength(memory, n) - 1),
         sp' = -16 => t6Saved', linked' = linked, ExitPlace(n)'
  PROVE  PlaceInv'
<1>1. Laid(memory) /\ (linked => ~Segmented)
  BY PlaceParts
<1>2. UNCHANGED <<memory, text, tool, RailBasicBlocks, phase>>
  BY DEF CacheKept
<1>3. ~Begins(memory, ip')
  BY <1>1, NoneInside
<1>4. ASSUME NEW k \in DOMAIN memory, memory[k].k = "save", k # n
      PROVE  ip' \notin (k + 1)..(k + ExitLength(memory, k) - 1)
  <2>1. ip' \notin k..(k + ExitLength(memory, k) - 1)
    BY <1>1, <1>4, ExitsApart
  <2>2. k \in Int /\ ExitLength(memory, k) \in Int
    BY <1>1, WordOfLaid DEF ExitLength
  <2> QED BY <2>1, <2>2
<1>5. \A k \in DOMAIN memory' : InsideExit(k)' => ExitPlace(k)'
  BY <1>2, <1>4 DEF InsideExit, ExitLength
<1>6. Segmented' <=> Segmented
  BY <1>2 DEF Segmented, TraceSegmentsAfter, InText, Plain
<1>7. ~Begins(memory', ip')
  BY <1>2, <1>3
<1>8. CachePlace'
  BY <1>2, <1>5, <1>7 DEF CachePlace
<1> QED BY <1>1, <1>2, <1>6, <1>8 DEF PlaceInv

(* On a path: the place a sequence stands for is the guest's.              *)
OnPath(m, pc, f, i, p, a) ==
  /\ i \in DOMAIN m => m[i].k \notin {"restore", "ecall"}
  /\ ~SegmentExit(m, i) /\ a = PlaceAt(m, pc, f, i, p)
  /\ i \in DOMAIN m \/ OpenEnd(m)

LEMMA ToPath ==
  ASSUME CacheKept, OnPath(memory, program_counter, followed, ip', passed', gpc')
  PROVE  SequencePlace'
<1>1. UNCHANGED <<memory, program_counter, followed>>
  BY DEF CacheKept
<1>2. OnPath(memory', program_counter', followed', ip', passed', gpc')
  BY <1>1
<1> QED BY <1>2 DEF SequencePlace, OnPath

(* The place of the sequence the processor is at.                          *)
LEMMA PathHere ==
  ASSUME PlaceHyp, phase = "run", ip \in DOMAIN memory => memory[ip].k # "restore",
         ~SegmentExit(memory, ip), Begins(memory, ip), DOMAIN RailBasicBlocks # {}
  PROVE  OnPath(memory, program_counter, followed, ip, passed, gpc)
<1>1. SequencePlace
  BY PlaceParts DEF CachePlace
<1> QED BY <1>1 DEF SequencePlace, OnPath

(* Behind a word comes the place of the next instruction.                  *)
LEMMA PathGoesOn ==
  ASSUME PlaceHyp, phase = "run", CacheKept, DOMAIN RailBasicBlocks # {},
         NEW n \in DOMAIN memory, memory[n].k \in StepKind,
         ip' = NextOf(memory, n), passed' = 0, sp' = 0, linked' => ~Segmented,
         IF memory[n].k = "restore"
         THEN gpc' = PlaceAt(memory, program_counter, followed, ip', 0)
         ELSE gpc' = NextAddr(memory[n]) /\ (SegmentExit(memory, ip') => AtSegmentEnd')
  PROVE  PlaceInv'
<1>1. PICK m, pc, f, q, w, a : /\ m = memory /\ pc = program_counter /\ f = followed
                               /\ q = NextOf(memory, n) /\ w = memory[n] /\ a = gpc'
  OBVIOUS
<1>2. Laid(m) /\ PathsOf(m, pc, f, RailBasicBlocks) /\ DOMAIN m = 1..Len(m)
  BY <1>1, PlaceParts
<1>3. Begins(m, q) /\ q \in 1..(Len(m) + 1)
  BY <1>1, <1>2, StepBounds
<1>4. Leads(m, pc, f, w, q)
  BY <1>1, <1>2 DEF PathsOf
<1>5. CASE SegmentExit(m, q)
  <2>1. w.k # "restore"
    BY <1>4, <1>5 DEF Leads, PlainWord
  <2>2. AtSegmentEnd'
    BY <1>1, <1>5, <2>1
  <2>3. SegmentExit(memory, ip)'
    BY <1>1, <1>5 DEF CacheKept, SegmentExit
  <2>4. SequencePlace'
    BY <2>2, <2>3 DEF SequencePlace, SegmentExit
  <2> QED BY <1>1, <1>3, <2>4, ToSequencePlace
<1>6. CASE ~SegmentExit(m, q)
  <2>1. q \in DOMAIN m => m[q].k \notin {"restore", "ecall"}
    BY <1>4 DEF Leads
  <2>2. a = PlaceAt(m, pc, f, q, 0)
    BY <1>1, <1>4, <1>6 DEF Leads
  <2>3. q \in DOMAIN m \/ OpenEnd(m)
    <3>1. q \in DOMAIN m \/ q = Len(m) + 1
      BY <1>3 DEF Begins
    <3>2. n \in DOMAIN m /\ m[n].k \in StepKind /\ NextOf(m, n) = q
      BY <1>1
    <3> QED BY <3>1, <3>2 DEF OpenEnd
  <2>4. OnPath(m, pc, f, q, 0, a)
    BY <1>6, <2>1, <2>2, <2>3 DEF OnPath
  <2>5. SequencePlace'
    BY <1>1, <2>4, ToPath
  <2> QED BY <1>1, <1>3, <2>5, ToSequencePlace
<1> QED BY <1>5, <1>6

(* The processor is at a sequence.                                         *)
LEMMA SequenceHere ==
  ASSUME PlaceHyp, phase = "run", ip \in DOMAIN memory,
         memory[ip].k \in StraightKind \cup {"save"}
  PROVE  /\ DOMAIN RailBasicBlocks # {} /\ Begins(memory, ip) /\ SequencePlace
         /\ sp = 0 /\ (t6Saved => memory[ip].k = "restore")
<1>1. /\ CachePlace /\ InCache /\ TraceTypes /\ LayoutInv /\ ~AtTail /\ NoForwardedEcalls
  BY PlaceParts
<1>2. AtSequence
  BY <1>1, WhereWord DEF word
<1>3. DOMAIN RailBasicBlocks # {}
  <2> SUFFICES ASSUME AtRoot PROVE FALSE
    BY <1>1 DEF CachePlace
  <2>1. ip \in {1, 4} /\ memory[1] = W("li", 0, InitSwitch) /\ memory[4] = W("jalrT6", 0, 0)
    BY RootWords DEF AtRoot
  <2>2. memory[ip].k \in {"li", "jalrT6"}
    BY <2>1, TraceWordFields
  <2> QED BY <2>2 DEF StraightKind
<1>4. Begins(memory, ip) /\ sp = 0 /\ (t6Saved => memory[ip].k = "restore")
  BY <1>1, <1>2 DEF AtSequence
<1>5. SequencePlace
  BY <1>1, <1>3, <1>4 DEF CachePlace
<1> QED BY <1>3, <1>4, <1>5

(* restore_scratch, with which a trace begins.                             *)
LEMMA RestorePlace ==
  ASSUME PlaceHyp, RunOldWord, RunRestoreScratch
  PROVE  PlaceInv' /\ Unnoticed
<1>1. /\ phase = "run" /\ ip \in DOMAIN memory /\ memory[ip].k = "restore" /\ word.k = "restore"
      /\ regs' = [regs EXCEPT !.t6 = slot] /\ t6Saved' = FALSE /\ ip' = ip + 1
      /\ CacheKept /\ sp' = sp /\ linked' = linked /\ gpc' = gpc /\ passed' = 0
      /\ UNCHANGED <<text, served, status, slot>>
  BY DEF RunRestoreScratch, At, word, cacheVars, CacheKept, RunOldWord, Moves, traceVars,
         RestoreScratch
<1>2. /\ TraceTypes /\ LayoutInv
      /\ PathsOf(memory, program_counter, followed, RailBasicBlocks)
  BY <1>1, PlaceParts
<1>3. /\ DOMAIN RailBasicBlocks # {} /\ Begins(memory, ip) /\ SequencePlace /\ sp = 0
  BY <1>1, SequenceHere DEF StraightKind
<1>5. AtTraceStart
  BY <1>1, <1>3 DEF SequencePlace, SegmentExit
<1>6. PICK b : b = RailBasicBlocks[currentBB]
  OBVIOUS
<1>7. /\ ip = b.startLocationInCache /\ b.firstAddr = gpc
      /\ BeginsWith(memory, program_counter, followed, b)
  <2>1. currentBB \in DOMAIN RailBasicBlocks /\ gpc = currentBB /\ ip = b.startLocationInCache
    BY <1>5, <1>6 DEF AtTraceStart
  <2>2. b.firstAddr = currentBB
    <3>1. TracesLaid(memory, RailBasicBlocks)
      <4>1. LayoutOf(memory, exits, RailBasicBlocks, trace)
        BY <1>2 DEF LayoutInv
      <4> QED BY <4>1, LayoutParts
    <3> QED BY <1>6, <2>1, <3>1 DEF TracesLaid, TraceLaid
  <2>3. BeginsWith(memory, program_counter, followed, b)
    BY <1>2, <1>6, <2>1 DEF PathsOf
  <2> QED BY <2>1, <2>2, <2>3
<1>8. gpc' = PlaceAt(memory, program_counter, followed, ip', 0)
  BY <1>1, <1>7 DEF BeginsWith
<1>9. memory[ip].k \in StepKind /\ ip' = NextOf(memory, ip)
  BY <1>1 DEF StepKind, StraightKind, NextOf, StraightLength
<1>10. sp' = 0 /\ ~linked'
  BY <1>1, <1>3, <1>5 DEF AtTraceStart
<1>11. PlaceInv'
  <2>1. PICK n : n = ip
    OBVIOUS
  <2> QED BY <1>1, <1>3, <1>8, <1>9, <1>10, <2>1, PathGoesOn
<1>12. Unnoticed
  <2>1. t6Saved
    BY <1>5 DEF AtTraceStart
  <2>2. TraceArchRegs' = TraceArchRegs
    BY <1>1, <2>1 DEF TraceArchRegs
  <2> QED BY <1>1, <2>2 DEF Unnoticed
<1> QED BY <1>11, <1>12

(* When the jumps before it have retired, the guest is at the instruction  *)
(* of the sequence itself.                                                 *)
LEMMA AddrHere ==
  ASSUME PlaceHyp, phase = "run", Arrived, Begins(memory, ip), DOMAIN RailBasicBlocks # {},
         ip \in DOMAIN memory => memory[ip].k # "restore", ~SegmentExit(memory, ip)
  PROVE  gpc = AddrAt(memory, program_counter, ip)
<1>1. gpc = PlaceAt(memory, program_counter, followed, ip, passed)
  BY PathHere DEF OnPath
<1>2. ip \in DOMAIN followed => passed = Len(followed[ip])
  BY DEF Arrived
<1>3. passed \in Int
  BY PlaceParts DEF FollowedInv
<1> QED BY <1>1, <1>2, <1>3 DEF PlaceAt

(* Behind the last instruction of a segment comes its exit.                *)
LEMMA SegmentEnds ==
  ASSUME PlaceHyp, phase = "run", CacheKept, ip \in DOMAIN memory,
         DOMAIN RailBasicBlocks # {}, memory[ip].k \in PlainWord,
         SegmentExit(memory, NextOf(memory, ip)), gpc' = memory[ip].a + 1, linked' = linked
  PROVE  AtSegmentEnd'
<1>1. PICK m, q, b : m = memory /\ q = NextOf(memory, ip) /\ b = RailBasicBlocks[currentBB]
  OBVIOUS
<1>2. /\ TraceTypes /\ LayoutInv /\ ExtentParts /\ Laid(m) /\ DOMAIN m = 1..Len(m)
      /\ Len(m) \in Nat /\ (linked => ~Segmented)
      /\ PathsOf(m, program_counter, followed, RailBasicBlocks)
  BY <1>1, PlaceParts
<1>3. ~linked
  <2>1. Segmented
    BY <1>1, <1>2 DEF PathsOf, WordsCarry, SegmentExit
  <2> QED BY <1>2, <2>1
<1>4. currentBB \in DOMAIN RailBasicBlocks /\ ip \in Within(b)
  BY <1>1, <1>2, <1>3, WithinItsTrace
<1>5. b \in Block /\ Extent(m, b) /\ b.startLocationInCache \in DOMAIN m
  BY <1>1, <1>2, <1>4, BlockLaid DEF ExtentParts
<1>6. b.startLocationInCache \in Int /\ b.endLocationInCache \in Int
  BY <1>2, <1>5, ExtentBounds
<1>7. m[ip].k \in StepKind
  BY <1>1 DEF PlainWord, StepKind, StraightKind
<1>8. q \in DOMAIN m /\ q \in Int /\ ip < q /\ ip \in Int
  BY <1>1, <1>2, <1>7, StepBounds DEF SegmentExit
<1>9. q <= b.endLocationInCache
  BY <1>1, <1>4, <1>5, <1>7 DEF Extent
<1>10. q # b.endLocationInCache
  <2> SUFFICES ASSUME q = b.endLocationInCache PROVE FALSE
    OBVIOUS
  <2>1. ~Ended(m, b)
    BY <1>1, <1>4, <1>7 DEF Ended
  <2>2. OpenAt(currentBB)
    BY <1>1, <1>2, <1>4, <2>1 DEF ExtentParts, AllEnded
  <2>3. q = Len(m) + 1
    BY <1>1, <2>2 DEF OpenAt
  <2> QED BY <1>2, <1>8, <2>3
<1>11. q \in Within(b)
  BY <1>4, <1>6, <1>8, <1>9, <1>10 DEF Within
<1>12. EndsWith(m, b)
  BY <1>1, <1>2, <1>4 DEF PathsOf
<1>13. b.type = "SEGMENTED" /\ b.lastAddr = m[ip].a
  BY <1>1, <1>4, <1>7, <1>11, <1>12 DEF EndsWith
<1> QED BY <1>1, <1>3, <1>4, <1>13 DEF AtSegmentEnd, CacheKept

(* An instruction that was copied: where it is,                            *)
LEMMA GuestWordHere ==
  ASSUME PlaceHyp, RunOldWord, RunGuestWord, NEW w, w = memory[ip]
  PROVE  /\ phase = "run" /\ ip \in DOMAIN memory /\ w.k \in PlainWord /\ CacheKept
         /\ DOMAIN RailBasicBlocks # {} /\ Begins(memory, ip) /\ sp = 0 /\ ~t6Saved
         /\ gpc = w.a /\ InText(w.a) /\ Plain(text[w.a])
         /\ (w.k = "mem" => text[w.a].op \in MemoryOp)
         /\ w.k \in StepKind /\ w.k # "restore" /\ ip' = NextOf(memory, ip)
<1>1. /\ phase = "run" /\ ip \in DOMAIN memory /\ w.k \in PlainWord /\ Arrived
      /\ CacheKept /\ ip' = ip + Len(InLine(text[w.a], w.a))
  BY DEF RunGuestWord, At, word, cacheVars, CacheKept, RunOldWord, Moves, traceVars, PlainWord
<1>2. /\ TraceTypes /\ PathsOf(memory, program_counter, followed, RailBasicBlocks)
  BY <1>1, PlaceParts
<1>3. w.k \in StepKind /\ w.k # "restore" /\ w.k \in StraightKind /\ w.k # "save"
  BY <1>1 DEF PlainWord, StepKind, StraightKind
<1>4. /\ DOMAIN RailBasicBlocks # {} /\ Begins(memory, ip) /\ sp = 0 /\ ~t6Saved
  BY <1>1, <1>3, SequenceHere
<1>5. gpc = w.a
  <2>1. gpc = AddrAt(memory, program_counter, ip)
    BY <1>1, <1>3, <1>4, AddrHere DEF SegmentExit
  <2> QED BY <1>1, <1>3, <2>1 DEF AddrAt
<1>6. InText(w.a) /\ Len(InLine(text[w.a], w.a)) = StraightLength(w.k)
  <2>1. w \in TraceCodeWord
    BY <1>1, <1>2, CurrentTraceWord DEF word
  <2> QED BY <1>1, <2>1 DEF TraceCodeWord, PlainWord, InstKind
<1>7. ip' = NextOf(memory, ip)
  BY <1>1, <1>6 DEF NextOf
<1>8. Plain(text[w.a]) /\ (w.k = "mem" => text[w.a].op \in MemoryOp)
  BY <1>1, <1>2 DEF PathsOf, WordsCarry, Carries
<1> QED BY <1>1, <1>3, <1>4, <1>5, <1>6, <1>7, <1>8

(* and what it does.                                                       *)
LEMMA GuestWordPlace ==
  ASSUME PlaceHyp, RunOldWord, RunGuestWord
  PROVE  PlaceInv' /\ RetiresOne
<1>1. PICK w : w = memory[ip]
  OBVIOUS
<1>2. /\ sp' = sp /\ linked' = linked /\ passed' = 0 /\ t6Saved' = t6Saved
      /\ gpc' = w.a + 1
      /\ regs' = (IF w.k = "mem" /\ LostToScratch(text[w.a]) THEN regs
                  ELSE Execute(text[w.a], w.a, regs))
      /\ UNCHANGED <<text, served, status>>
  BY <1>1 DEF RunGuestWord, At, word, cacheVars, RunOldWord, Moves, traceVars, RetireInCache
<1>3. /\ phase = "run" /\ ip \in DOMAIN memory /\ w.k \in PlainWord /\ CacheKept
      /\ DOMAIN RailBasicBlocks # {} /\ Begins(memory, ip) /\ sp = 0 /\ ~t6Saved
      /\ gpc = w.a /\ InText(w.a) /\ Plain(text[w.a])
      /\ (w.k = "mem" => text[w.a].op \in MemoryOp)
      /\ w.k \in StepKind /\ w.k # "restore" /\ ip' = NextOf(memory, ip)
  BY <1>1, GuestWordHere
<1>4. /\ TraceTypes /\ PlainText /\ (linked => ~Segmented)
  BY <1>3, PlaceParts
<1>5. PlaceInv'
  <2>1. w.k # "liRd"
    BY <1>3 DEF PlainWord
  <2>2. gpc' = NextAddr(w)
    BY <1>2, <2>1 DEF NextAddr
  <2>3. SegmentExit(memory, ip') => AtSegmentEnd'
    BY <1>1, <1>2, <1>3, SegmentEnds
  <2>4. PICK n : n = ip
    OBVIOUS
  <2> QED BY <1>1, <1>2, <1>3, <1>4, <2>2, <2>3, <2>4, PathGoesOn
<1>6. regs' = Execute(text[w.a], w.a, regs)
  <2> SUFFICES ASSUME w.k = "mem", LostToScratch(text[w.a])
               PROVE  regs = Execute(text[w.a], w.a, regs)
    BY <1>2
  <2>1. text[w.a].op # "LOAD"
    <3>1. w.a \in DOMAIN text
      BY <1>3, <1>4 DEF InText, TraceTypes
    <3> QED BY <1>4, <3>1 DEF PlainText, NoLostLoads
  <2>2. text[w.a].op = "STORE"
    BY <1>3, <2>1 DEF MemoryOp
  <2> QED BY <2>2 DEF Execute, WritesRd
<1>7. TraceArchRegs = regs /\ TraceArchRegs' = regs'
  BY <1>2, <1>3 DEF TraceArchRegs
<1>8. Target(text[w.a], w.a, regs) = w.a + 1 /\ text[w.a].op # "SYSTEM"
  BY <1>3 DEF Target, Plain, ControlOp
<1> QED BY <1>2, <1>3, <1>5, <1>6, <1>7, <1>8 DEF RetiresOne

(* A jump that was followed and writes its link.                           *)
LEMMA LiRdPlace ==
  ASSUME PlaceHyp, RunLiRd
  PROVE  PlaceInv' /\ RetiresOne /\ TransfersHere
<1>1. PICK w : w = memory[ip]
  OBVIOUS
<1>2. /\ phase = "run" /\ ip \in DOMAIN memory /\ w.k = "liRd" /\ Arrived
      /\ CacheKept /\ sp' = sp /\ linked' = linked /\ passed' = 0 /\ t6Saved' = t6Saved
      /\ gpc' = Target(text[w.a], w.a, regs) /\ ip' = ip + 3
      /\ regs' = Execute(text[w.a], w.a, regs)
      /\ UNCHANGED <<text, served, status>>
  BY <1>1 DEF RunLiRd, At, word, cacheVars, CacheKept, Moves, traceVars, RetireTransfer
<1>3. /\ TraceTypes /\ Laid(memory) /\ DispatcherTypeOK /\ (linked => ~Segmented)
      /\ PathsOf(memory, program_counter, followed, RailBasicBlocks)
  BY <1>2, PlaceParts
<1>4. w.k \in StepKind /\ w.k # "restore" /\ w.k \in StraightKind /\ w.k # "save"
  BY <1>2 DEF StepKind, StraightKind
<1>5. /\ DOMAIN RailBasicBlocks # {} /\ Begins(memory, ip) /\ sp = 0 /\ ~t6Saved
  BY <1>1, <1>2, <1>4, SequenceHere
<1>6. gpc = w.a
  <2>1. gpc = AddrAt(memory, program_counter, ip)
    BY <1>1, <1>2, <1>4, <1>5, AddrHere DEF SegmentExit
  <2> QED BY <1>1, <1>2, <1>4, <2>1 DEF AddrAt
<1>7. InText(w.a)
  <2>1. w \in TraceCodeWord
    BY <1>1, <1>2, <1>3, CurrentTraceWord DEF word
  <2> QED BY <1>2, <2>1 DEF TraceCodeWord, InstKind
<1>8. ip' = NextOf(memory, ip)
  BY <1>1, <1>2 DEF NextOf, StraightLength
<1>9. text[w.a].op = "JAL"
  BY <1>1, <1>2, <1>3 DEF PathsOf, WordsCarry, Carries
<1>10. gpc' = NextAddr(w)
  BY <1>2, <1>9 DEF NextAddr, Target
<1>11. ~SegmentExit(memory, ip')
  <2>1. Leads(memory, program_counter, followed, w, ip')
    BY <1>1, <1>2, <1>3, <1>4, <1>8 DEF PathsOf
  <2> QED BY <1>2, <2>1 DEF Leads, PlainWord
<1>12. PlaceInv'
  <2>1. PICK n : n = ip
    OBVIOUS
  <2> QED BY <1>1, <1>2, <1>3, <1>4, <1>5, <1>8, <1>10, <1>11, <2>1, PathGoesOn
<1>13. TraceArchRegs = regs /\ TraceArchRegs' = regs'
  BY <1>2, <1>5 DEF TraceArchRegs
<1>14. TransfersHere
  <2>1. RetireTransfer(gpc, Target(text[gpc], gpc, regs))
    BY <1>1, <1>6 DEF RunLiRd, word
  <2> QED BY <1>2, <1>5, <1>6, <1>7, <1>9, <2>1 DEF TransfersHere
<1> QED BY <1>2, <1>6, <1>7, <1>9, <1>12, <1>13, <1>14 DEF RetiresOne

(* In an exit, the processor is at a word.                                 *)
LEMMA InExitInside ==
  ASSUME TraceTypes, LayoutInv, NEW n \in DOMAIN memory, InExit(n)
  PROVE  ip \in (n + 1)..(n + ExitLength(memory, n) - 1) /\ ip \in DOMAIN memory
<1>1. LayoutOf(memory, exits, RailBasicBlocks, trace)
  BY DEF LayoutInv
<1>2. Laid(memory)
  BY <1>1, LayoutParts
<1>3. n \in Int /\ memory[n].k = "save"
  BY <1>2, WordOfLaid DEF InExit
<1>4. ip \in (n + 1)..(n + ExitLength(memory, n) - 1)
  <2>1. CASE AtDecision(n)
    BY <1>3, <2>1 DEF AtDecision, ExitLength
  <2>2. CASE InSwitch(n)
    BY <1>3, <2>2 DEF InSwitch, ExitLength
  <2>3. CASE \E s, a, h : SideOf(n, s, a, h) /\ OnSide(s, a, h)
    <3>1. PICK s, a, h : SideOf(n, s, a, h) /\ OnSide(s, a, h)
      BY <2>3
    <3>2. s \in Int /\ ip \in s..(s + 7)
      BY <3>1, SideWords, SideWord
    <3>3. PICK k : k = ip - s
      OBVIOUS
    <3>4. k \in 0..7 /\ ip = s + k
      BY <3>2, <3>3
    <3> QED BY <3>1, <3>4, SideInExit
  <2> QED BY <2>1, <2>2, <2>3, ExitCases
<1> QED BY <1>2, <1>3, <1>4, NoneInside

(* Outside the cache, it is right behind it.                               *)
LEMMA BehindCache ==
  ASSUME PlaceHyp, phase = "run", ip \notin DOMAIN memory
  PROVE  /\ DOMAIN RailBasicBlocks # {} /\ Begins(memory, ip) /\ SequencePlace
         /\ sp = 0 /\ ~t6Saved
<1>1. /\ CachePlace /\ InCache /\ TraceTypes /\ LayoutInv /\ NoForwardedEcalls /\ ~AtTail
  BY PlaceParts
<1>2. ~AtRoot
  <2> SUFFICES ASSUME AtRoot PROVE FALSE
    OBVIOUS
  <2>1. ip = 1 \/ ip = 4
    BY DEF AtRoot
  <2>2. DOMAIN memory = 1..4
    BY DEF AtRoot, Li, JalrT6
  <2> QED BY <2>1, <2>2
<1>3. \A n \in DOMAIN memory : ~InExit(n)
  BY <1>1, InExitInside
<1>4. AtSequence
  BY <1>1, <1>2, <1>3 DEF InCache
<1>5. Begins(memory, ip) /\ sp = 0 /\ ~t6Saved
  BY <1>1, <1>4 DEF AtSequence
<1>6. DOMAIN RailBasicBlocks # {} /\ SequencePlace
  BY <1>1, <1>2, <1>5 DEF CachePlace
<1> QED BY <1>5, <1>6

(* One that left no word.                                                  *)
LEMMA FollowedJumpPlace ==
  ASSUME PlaceHyp, RunFollowed
  PROVE  PlaceInv' /\ RetiresOne /\ TransfersHere
<1>1. /\ phase = "run" /\ ~Arrived /\ CacheKept /\ sp' = sp /\ linked' = linked /\ ip' = ip
      /\ passed' = passed + 1 /\ UNCHANGED <<text, served, status, t6Saved, regs, slot>>
      /\ gpc' = Target(text[followed[ip][passed + 1]], followed[ip][passed + 1], regs)
  BY DEF RunFollowed, cacheVars, CacheKept, traceVars, RetireTransfer
<1>2. /\ TraceTypes /\ Laid(memory) /\ DispatcherTypeOK /\ (linked => ~Segmented)
      /\ PathsOf(memory, program_counter, followed, RailBasicBlocks) /\ FollowedInv
      /\ OpenOf(memory, program_counter, followed, RailBasicBlocks, trace)
      /\ DOMAIN memory = 1..Len(memory) /\ Len(memory) \in Nat
      /\ InCache /\ LayoutInv /\ ~AtTail /\ CachePlace
  BY <1>1, PlaceParts
<1>3. ip \in DOMAIN followed /\ passed # Len(followed[ip]) /\ passed \in Nat
      /\ Len(followed[ip]) \in Nat
  BY <1>1, <1>2 DEF Arrived, FollowedInv
<1>4. passed < Len(followed[ip]) /\ passed + 1 \in 1..Len(followed[ip])
  BY <1>2, <1>3 DEF FollowedInv
<1>5. JumpsLead(memory, program_counter, followed, ip)
  BY <1>2, <1>3 DEF PathsOf
<1>6. PICK a, p : a = followed[ip][passed + 1] /\ p = passed + 1
  OBVIOUS
<1>7. /\ InText(a) /\ text[a].op = "JAL" /\ text[a].rd = "zero"
      /\ PlaceAt(memory, program_counter, followed, ip, p) = a + text[a].imm
  BY <1>4, <1>5, <1>6 DEF JumpsLead, Follows
<1>8. /\ ip \in DOMAIN memory => memory[ip].k \in (StepKind \ {"restore"}) \cup {"save"}
      /\ ~SegmentExit(memory, ip) /\ ip \in 1..(Len(memory) + 1)
  BY <1>5 DEF JumpsLead, SegmentExit
<1>9. Begins(memory, ip)
  BY <1>2, <1>8 DEF Begins, StepKind
<1>10. DOMAIN RailBasicBlocks # {} /\ sp = 0 /\ ~t6Saved
  BY <1>1, <1>8, SequenceHere, BehindCache DEF StepKind
<1>11. gpc = a
  <2>1. gpc = PlaceAt(memory, program_counter, followed, ip, passed)
    BY <1>1, <1>8, <1>9, <1>10, PathHere DEF OnPath
  <2> QED BY <1>3, <1>4, <1>6, <2>1 DEF PlaceAt
<1>12. gpc' = a + text[a].imm
  BY <1>1, <1>6, <1>7 DEF Target
<1>13. PlaceInv'
  <2>1. OnPath(memory, program_counter, followed, ip, passed, gpc)
    BY <1>1, <1>8, <1>9, <1>10, PathHere
  <2>2. OnPath(memory, program_counter, followed, ip, p, gpc')
    BY <1>7, <1>12, <2>1 DEF OnPath
  <2>3. SequencePlace'
    BY <1>1, <1>6, <2>2, ToPath
  <2> QED BY <1>1, <1>2, <1>9, <1>10, <2>3, ToSequencePlace
<1>14. TraceArchRegs = regs /\ TraceArchRegs' = regs
  BY <1>1, <1>10 DEF TraceArchRegs
<1>15. Execute(text[a], a, regs) = regs
  BY <1>7 DEF Execute, WritesRd, Reg
<1>16. TransfersHere
  <2>1. RetireTransfer(gpc, Target(text[gpc], gpc, regs))
    BY <1>6, <1>11 DEF RunFollowed
  <2> QED BY <1>1, <1>7, <1>10, <1>11, <2>1 DEF TransfersHere
<1> QED BY <1>1, <1>6, <1>7, <1>11, <1>13, <1>14, <1>15, <1>16 DEF RetiresOne

(* inline_save, with which an exit begins.                                 *)
LEMMA SavePlace ==
  ASSUME PlaceHyp, RunSave
  PROVE  PlaceInv' /\ Unnoticed
<1>1. PICK n : n = ip
  OBVIOUS
<1>2. /\ phase = "run" /\ n \in DOMAIN memory /\ memory[n].k = "save" /\ Arrived /\ CacheKept
      /\ ip' = n + 2 /\ regs' = regs /\ slot' = regs.t6 /\ t6Saved' = TRUE /\ linked' = linked
      /\ UNCHANGED <<gpc, text, served, status>>
  BY <1>1, LengthTypes DEF RunSave, RunInlineSave, At, word, cacheVars, CacheKept, Moves, traceVars
<1>3. /\ TraceTypes /\ Laid(memory) /\ DispatcherTypeOK
      /\ DOMAIN memory = 1..Len(memory) /\ Len(memory) \in Nat
  BY <1>2, PlaceParts
<1>4. /\ DOMAIN RailBasicBlocks # {} /\ Begins(memory, ip) /\ SequencePlace /\ ~t6Saved
  BY <1>1, <1>2, SequenceHere
<1>5. /\ n \in Int /\ memory[n + 2].k \in {"traceBranch", "lui", "li"}
      /\ ip' \in (n + 1)..(n + ExitLength(memory, n) - 1)
  <2>1. n \in Int /\ ExitAt(memory, n)
    BY <1>2, <1>3 DEF Laid, ExitsLaid
  <2>2. ExitLength(memory, n) \in {19, 10, 6} /\ memory[n + 2].k \in {"traceBranch", "lui", "li"}
    BY <1>2, <1>3, <2>1, ExitShape
  <2> QED BY <1>2, <2>1, <2>2
<1>6. ExitPlace(n)'
  <2>0. memory' = memory
    BY <1>2 DEF CacheKept
  <2>1. CASE memory[n + 2].k = "li"
    <3>1. AtSegmentEnd
      BY <1>1, <1>2, <1>4, <2>1 DEF SequencePlace, SegmentExit
    <3>2. AtSegmentEnd'
      BY <1>2, <3>1 DEF AtSegmentEnd, CacheKept
    <3> QED BY <2>0, <2>1, <3>2 DEF ExitPlace
  <2>2. CASE memory[n + 2].k \in {"traceBranch", "lui"}
    <3>1. gpc = AddrAt(memory, program_counter, n)
      BY <1>1, <1>2, <1>4, <2>2, AddrHere DEF SegmentExit
    <3>2. gpc = IF memory[n + 2].k = "traceBranch" THEN memory[n + 2].a ELSE memory[n + 2].v
      BY <1>2, <3>1 DEF AddrAt
    <3>3. ip' \notin (n + 3)..(n + 10) /\ ip' \notin (n + 11)..(n + 18)
      BY <1>2, <1>5
    <3> QED BY <1>2, <2>0, <2>2, <3>2, <3>3 DEF ExitPlace
  <2> QED BY <1>5, <2>1, <2>2
<1>7. PlaceInv'
  BY <1>2, <1>4, <1>5, <1>6, ToExitPlace
<1>8. TraceArchRegs' = TraceArchRegs
  BY <1>2, <1>3, <1>4 DEF TraceArchRegs, DispatcherTypeOK, Reg
<1> QED BY <1>2, <1>7, <1>8 DEF Unnoticed

(* Inside an exit there are traces, and the guest's place is known.        *)
LEMMA ExitHere ==
  ASSUME PlaceHyp, phase = "run", NEW n \in DOMAIN memory, memory[n].k = "save",
         ip \in (n + 1)..(n + ExitLength(memory, n) - 1)
  PROVE  DOMAIN RailBasicBlocks # {} /\ ExitPlace(n) /\ (Lowered => t6Saved)
<1>1. CachePlace
  BY PlaceParts
<1>2. ~AtRoot
  <2> SUFFICES ASSUME AtRoot PROVE FALSE
    OBVIOUS
  <2>1. memory = <<W("li", 0, InitSwitch), Cont, Cont>> \o <<W("jalrT6", 0, 0)>>
    BY DEF AtRoot, Li, JalrT6
  <2>2. PICK h : h = InitSwitch
    OBVIOUS
  <2>3. DOMAIN memory = 1..4 /\ memory[1] = W("li", 0, h) /\ memory[2] = Cont
        /\ memory[3] = Cont /\ memory[4] = W("jalrT6", 0, 0)
    BY <2>1, <2>2
  <2>4. memory[n].k \in {"li", "cont", "jalrT6"}
    BY <2>3, TraceWordFields, ContWord
  <2> QED BY <2>4
<1>3. InsideExit(n)
  BY DEF InsideExit
<1> QED BY <1>1, <1>2, <1>3 DEF CachePlace, Lowered

(* On a side of one, which way the branch goes.                            *)
OnWay(n, s, a) ==
  gpc = a /\ (s = n + 3 => Decided(a, FALSE)) /\ (s = n + 11 => Decided(a, TRUE))

LEMMA SideHere ==
  ASSUME PlaceHyp, phase = "run", NEW n, NEW s, NEW a, NEW h, SideOf(n, s, a, h),
         OnSide(s, a, h)
  PROVE  /\ DOMAIN RailBasicBlocks # {} /\ OnWay(n, s, a) /\ (Lowered => t6Saved)
         /\ n \in DOMAIN memory /\ memory[n].k = "save"
         /\ s \in Int /\ ip \in s..(s + 7)
<1>1. TraceTypes /\ LayoutInv
  BY PlaceParts
<1>2. /\ n \in DOMAIN memory /\ memory[n].k = "save" /\ n \in Int /\ s \in Int
      /\ ip \in s..(s + 7)
  BY <1>1, SideInExit, SideWord
<1>3. PICK k : k = ip - s
  OBVIOUS
<1>4. k \in 0..7 /\ ip = s + k
  BY <1>2, <1>3
<1>5. ip \in (n + 1)..(n + ExitLength(memory, n) - 1)
  BY <1>1, <1>4, SideInExit
<1>6. DOMAIN RailBasicBlocks # {} /\ ExitPlace(n) /\ (Lowered => t6Saved)
  BY <1>2, <1>5, ExitHere
<1>7. OnWay(n, s, a)
  <2>1. CASE memory[n + 2].k = "traceBranch"
    <3>1. a = memory[n + 2].a /\ s \in {n + 3, n + 11}
      BY <2>1 DEF SideOf
    <3>2. gpc = a
      BY <1>6, <2>1, <3>1 DEF ExitPlace
    <3>3. s = n + 3 => ip \in (n + 3)..(n + 10)
      BY <1>2
    <3>4. s = n + 11 => ip \in (n + 11)..(n + 18)
      BY <1>2
    <3> QED BY <1>6, <2>1, <3>2, <3>3, <3>4 DEF ExitPlace, OnWay
  <2>2. CASE memory[n + 2].k = "lui"
    <3>1. a = memory[n + 2].v /\ s = n + 2
      BY <2>2 DEF SideOf
    <3>2. gpc = a
      BY <1>6, <2>2, <3>1 DEF ExitPlace
    <3>3. s # n + 3 /\ s # n + 11
      BY ONLY <1>2, <3>1
    <3> QED BY <3>2, <3>3 DEF OnWay
  <2> QED BY <2>1, <2>2 DEF SideOf
<1> QED BY <1>2, <1>6, <1>7

LEMMA ToSidePlace ==
  ASSUME PlaceHyp, phase = "run", CacheKept, DOMAIN RailBasicBlocks # {},
         NEW n, NEW s, NEW a, NEW h, SideOf(n, s, a, h), ip' \in s..(s + 7),
         sp' = -16 => t6Saved', linked' = linked, OnWay(n, s, a)'
  PROVE  PlaceInv'
<1>1. TraceTypes /\ LayoutInv
  BY PlaceParts
<1>2. /\ n \in DOMAIN memory /\ memory[n].k = "save" /\ n \in Int /\ s \in Int
  BY <1>1, SideInExit
<1>3. PICK k : k = ip' - s
  OBVIOUS
<1>4. k \in 0..7 /\ ip' = s + k
  BY <1>2, <1>3
<1>5. ip' \in (n + 1)..(n + ExitLength(memory, n) - 1)
  BY <1>1, <1>4, SideInExit
<1>6. memory' = memory
  BY DEF CacheKept
<1>7. ExitPlace(n)'
  <2>1. CASE memory[n + 2].k = "traceBranch"
    <3>1. a = memory[n + 2].a /\ s \in {n + 3, n + 11} /\ gpc' = a
      BY <2>1 DEF SideOf, OnWay
    <3>2. s = n + 3 => ip' \notin (n + 11)..(n + 18)
      BY <1>2
    <3>3. s = n + 11 => ip' \notin (n + 3)..(n + 10)
      BY <1>2
    <3>4. (s = n + 3 => Decided(gpc, FALSE)') /\ (s = n + 11 => Decided(gpc, TRUE)')
      BY <3>1 DEF OnWay, Decided
    <3> QED BY <1>6, <2>1, <3>1, <3>2, <3>3, <3>4 DEF ExitPlace
  <2>2. CASE memory[n + 2].k = "lui"
    <3>1. gpc' = memory[n + 2].v
      BY <2>2 DEF SideOf, OnWay
    <3> QED BY <1>6, <2>2, <3>1 DEF ExitPlace
  <2> QED BY <2>1, <2>2 DEF SideOf
<1> QED BY <1>2, <1>5, <1>7, ToExitPlace

(* Along a side nothing happens.                                           *)
LEMMA AlongSidePlace ==
  ASSUME PlaceHyp, phase = "run", CacheKept,
         NEW n, NEW s, NEW a, NEW h, SideOf(n, s, a, h), OnSide(s, a, h),
         ip # s + 7, ip' = ip + 1, gpc' = gpc, TraceArchRegs' = TraceArchRegs,
         sp' = -16 => t6Saved', linked' = linked
  PROVE  PlaceInv'
<1>1. /\ DOMAIN RailBasicBlocks # {} /\ OnWay(n, s, a) /\ s \in Int /\ ip \in s..(s + 7)
  BY SideHere
<1>2. ip' \in s..(s + 7)
  BY <1>1
<1>3. OnWay(n, s, a)'
  BY <1>1 DEF OnWay, Decided, CacheKept
<1> QED BY <1>1, <1>2, <1>3, ToSidePlace

(* The words of an exit that load constants and store the address,         *)
LEMMA TraceLiPlace ==
  ASSUME PlaceHyp, RunTraceLi \/ RunSdPc
  PROVE  PlaceInv' /\ Unnoticed
<1>1. /\ phase = "run" /\ ip \in DOMAIN memory /\ word.k \in {"lui", "addi", "addiEnd", "sdPc"}
      /\ CacheKept /\ ip' = ip + 1 /\ sp' = sp
      /\ UNCHANGED <<t6Saved, slot, linked, gpc, text, served, status>>
  BY DEF RunTraceLi, RunSdPc, At, cacheVars, CacheKept, Moves, traceVars, history
<1>2. regs' = regs \/ regs' = [regs EXCEPT !.t6 = regs'.t6]
  BY DEF RunTraceLi, RunSdPc
<1>3. TraceTypes /\ LayoutInv /\ InCache /\ DispatcherTypeOK
  BY <1>1, PlaceParts
<1>4. PICK n, s, a, h : SideOf(n, s, a, h) /\ OnSide(s, a, h)
  BY <1>1, <1>3, WhereWord DEF SideKind
<1>5. s \in Int /\ ReportAt(memory, s, a, h) /\ ip \in s..(s + 7)
  BY <1>3, <1>4, SideWords, SideWord
<1>6. /\ memory[s + 7].k \in {"jalrT6", "jal"}
      /\ memory[s + 1].k = "addi" => memory[s].k # "popSp"
  BY <1>5, ReportWordKinds, TraceWordFields DEF ReportAt, LinkAt
<1>7. ip # s + 7
  BY <1>1, <1>6 DEF word
<1>8. Lowered
  <2>1. ip = s + 1 => memory[s + 1].k = "addi"
    <3>1. memory[s + 1].k \in {"addi", "jal"}
      BY <1>5, ReportWordKinds
    <3> QED BY <1>1, <3>1 DEF word
  <2>2. \/ ip = s \/ ip = s + 1 \/ ip = s + 2 \/ ip = s + 3 \/ ip \in (s + 4)..(s + 6)
    BY <1>5, <1>7
  <2> QED BY <1>4, <1>5, <1>6, <2>1, <2>2 DEF OnSide
<1>9. t6Saved
  BY <1>1, <1>4, <1>8, SideHere
<1>10. TraceArchRegs' = TraceArchRegs
  BY <1>1, <1>2, <1>9 DEF TraceArchRegs
<1>11. PlaceInv'
  BY <1>1, <1>4, <1>7, <1>9, <1>10, AlongSidePlace
<1> QED BY <1>1, <1>10, <1>11 DEF Unnoticed

(* the branch, which decides on a side,                                    *)
LEMMA TraceBranchPlace ==
  ASSUME PlaceHyp, RunTraceBranch
  PROVE  PlaceInv' /\ Unnoticed
<1>1. /\ phase = "run" /\ ip \in DOMAIN memory /\ word.k = "traceBranch"
      /\ CacheKept /\ sp' = sp
      /\ ip' = (IF BranchTaken(text[word.a], regs) THEN ip + 9 ELSE ip + 1)
      /\ UNCHANGED <<regs, t6Saved, slot, linked, gpc, text, served, status>>
  BY DEF RunTraceBranch, At, cacheVars, CacheKept, Moves, traceVars, history, TraceBranchSkip
<1>2. TraceTypes /\ LayoutInv /\ InCache /\ DispatcherTypeOK
  BY <1>1, PlaceParts
<1>3. PICK n : AtDecision(n)
  BY <1>1, <1>2, WhereWord
<1>4. /\ n \in DOMAIN memory /\ n \in Int /\ memory[n].k = "save" /\ ip = n + 2
      /\ memory[n + 2].k = "traceBranch" /\ Lowered /\ regs.t6 = slot
  BY <1>2, <1>3 DEF AtDecision, TraceTypes
<1>5. PICK a, tk : a = memory[n + 2].a /\ tk = BranchTaken(text[word.a], regs)
  OBVIOUS
<1>6. DOMAIN RailBasicBlocks # {} /\ t6Saved /\ gpc = a
  <2>1. ip \in (n + 1)..(n + ExitLength(memory, n) - 1)
    BY <1>4 DEF ExitLength
  <2>2. DOMAIN RailBasicBlocks # {} /\ ExitPlace(n) /\ t6Saved
    BY <1>1, <1>4, <2>1, ExitHere
  <2> QED BY <1>4, <1>5, <2>2 DEF ExitPlace
<1>7. TraceArchRegs = regs /\ TraceArchRegs' = regs
  <2>1. TraceArchRegs = regs
    BY <1>2, <1>4, ArchHere DEF DispatcherTypeOK
  <2> QED BY <1>1, <2>1 DEF TraceArchRegs
<1>8. Decided(a, tk)'
  BY <1>1, <1>4, <1>5, <1>7 DEF Decided, word
<1>9. PICK s, h : \/ s = n + 3 /\ h = ContextSwitchTraceExit /\ ~tk
                  \/ s = n + 11 /\ h = ContextSwitchTraceExitTaken /\ tk
  OBVIOUS
<1>10. s \in Int /\ ip' = s
  BY <1>1, <1>4, <1>5, <1>9
<1>11. SideOf(n, s, a, h)
  BY <1>4, <1>5, <1>9 DEF SideOf
<1>12. ip' \in s..(s + 7)
  BY <1>10
<1>13. OnWay(n, s, a)'
  <2>1. gpc' = a
    BY <1>1, <1>6
  <2>2. CASE tk
    <3>1. s # n + 3
      BY <1>4, <1>9, <2>2
    <3>2. Decided(a, TRUE)'
      BY <1>8, <2>2 DEF Decided
    <3> QED BY <2>1, <3>1, <3>2 DEF OnWay
  <2>3. CASE ~tk
    <3>1. s # n + 11
      BY <1>4, <1>9, <2>3
    <3>2. Decided(a, FALSE)'
      BY <1>8, <2>3 DEF Decided
    <3> QED BY <2>1, <3>1, <3>2 DEF OnWay
  <2> QED BY <2>2, <2>3
<1>14. PlaceInv'
  BY <1>1, <1>6, <1>11, <1>12, <1>13, ToSidePlace
<1> QED BY <1>1, <1>7, <1>14 DEF Unnoticed

(* Of a link's place: only branches have one, at the beginning of a side.  *)
LEMMA LinkStarts ==
  ASSUME TraceTypes, LayoutInv, OnlyBranchesLinked, NEW n, NEW s, NEW a, NEW h,
         SideOf(n, s, a, h)
  PROVE  memory[s + 6].k # "popSp" /\ memory[s + 7].k = "jalrT6"
<1>1. /\ s \in Int /\ ReportAt(memory, s, a, h) /\ s + 7 \in DOMAIN memory
      /\ memory[s + 6].k = "popSp" => text[a].op = "JAL"
  BY SideWords
<1>2. /\ memory[s + 7].k = "jal" => memory[s + 7].a = a /\ memory[s + 6].k = "popSp"
      /\ memory[s + 7].k \in {"jalrT6", "jal"}
  BY <1>1, ReportWordKinds
<1>3. memory[s + 7].k # "jal"
  BY <1>1, <1>2 DEF OnlyBranchesLinked, Links
<1>4. memory[s + 6].k = "popSp" => memory[s + 7].k = "jal"
  BY <1>1, TraceWordFields DEF ReportAt, LinkAt
<1> QED BY <1>2, <1>3, <1>4

(* the first word of a link                                                *)
LEMMA PopSpPlace ==
  ASSUME PlaceHyp, RunPopSp
  PROVE  PlaceInv' /\ Unnoticed
<1>1. /\ phase = "run" /\ ip \in DOMAIN memory /\ word.k = "popSp"
      /\ CacheKept /\ ip' = ip + 1 /\ sp' = sp + 16 /\ t6Saved' = FALSE
      /\ UNCHANGED <<regs, slot, linked, gpc, text, served, status>>
  BY DEF RunPopSp, At, cacheVars, CacheKept, Moves, traceVars
<1>2. TraceTypes /\ LayoutInv /\ InCache /\ DispatcherTypeOK /\ LinksAsMeant
  BY <1>1, PlaceParts
<1>3. PICK n, s, a, h : SideOf(n, s, a, h) /\ OnSide(s, a, h)
  BY <1>1, <1>2, WhereWord DEF SideKind
<1>4. s \in Int /\ ReportAt(memory, s, a, h) /\ ip \in s..(s + 7)
  BY <1>2, <1>3, SideWords, SideWord
<1>5. /\ memory[s + 1].k # "popSp" /\ memory[s + 2].k # "popSp" /\ memory[s + 3].k # "popSp"
      /\ memory[s + 4].k # "popSp" /\ memory[s + 5].k # "popSp" /\ memory[s + 7].k # "popSp"
  BY <1>4, ReportWordKinds
<1>6. memory[s + 6].k # "popSp"
  BY <1>2, <1>3, LinkStarts DEF LinksAsMeant
<1>7. ip = s
  BY <1>1, <1>4, <1>5, <1>6 DEF word
<1>8. Lowered /\ regs.t6 = slot
  BY <1>3, <1>4, <1>7 DEF OnSide
<1>9. sp' = 0
  BY <1>1, <1>8 DEF Lowered
<1>10. TraceArchRegs' = TraceArchRegs
  <2>1. TraceArchRegs = regs
    BY <1>2, <1>8, ArchHere DEF DispatcherTypeOK
  <2> QED BY <1>1, <2>1 DEF TraceArchRegs
<1>11. ip # s + 7
  BY <1>4, <1>7
<1>12. PlaceInv'
  BY <1>1, <1>3, <1>9, <1>10, <1>11, AlongSidePlace
<1> QED BY <1>1, <1>10, <1>12 DEF Unnoticed

(* and its second.                                                         *)
LEMMA LinkPlaces ==
  ASSUME PlaceHyp, RunLink
  PROVE  PlaceInv' /\ RetiresOne /\ TransfersHere
<1>1. PICK w : w = memory[ip]
  OBVIOUS
<1>2. /\ phase = "run" /\ ip \in DOMAIN memory /\ w.k = "jal" /\ word.k = "jal"
      /\ CacheKept /\ sp' = sp /\ linked' = TRUE /\ passed' = 0
      /\ gpc' = Target(text[w.a], w.a, regs) /\ ip' = w.v
      /\ UNCHANGED <<regs, slot, t6Saved, text, served, status>>
  BY <1>1 DEF RunLink, At, word, cacheVars, CacheKept, Moves, traceVars, RetireTransfer
<1>3. /\ TraceTypes /\ LayoutInv /\ InCache /\ DispatcherTypeOK /\ LinksAsMeant /\ ~AtTail
      /\ Laid(memory) /\ DOMAIN memory = 1..Len(memory) /\ Len(memory) \in Nat
      /\ PathsOf(memory, program_counter, followed, RailBasicBlocks)
  BY <1>2, PlaceParts
<1>4. PICK n, s, a, h : SideOf(n, s, a, h) /\ OnSide(s, a, h)
  BY <1>2, <1>3, WhereWord
<1>5. s \in Int /\ ReportAt(memory, s, a, h) /\ (ip = s + 1 \/ ip = s + 7) /\ InText(a)
      /\ n \in Int
  BY <1>2, <1>3, <1>4, SideWords, SideWord
<1>6. ip = s + 1
  <2>1. memory[s + 7].k = "jalrT6"
    BY <1>3, <1>4, LinkStarts DEF LinksAsMeant
  <2> QED BY <1>1, <1>2, <1>5, <2>1
<1>7. memory[s].k = "popSp" /\ w.a = a
  <2>1. memory[s + 1].k = "jal"
    BY <1>1, <1>2, <1>6
  <2> QED BY <1>1, <1>5, <1>6, <2>1, TraceWordFields DEF ReportAt, LinkAt
<1>8. sp = 0 /\ ~t6Saved /\ regs.t6 = slot
  BY <1>4, <1>5, <1>6, <1>7 DEF OnSide
<1>9. ip \in Links
  BY <1>1, <1>2 DEF Links
<1>10. text[a].op = "BRANCH" /\ ~Segmented
  BY <1>1, <1>3, <1>7, <1>9 DEF LinksAsMeant, OnlyBranchesLinked, SegmentsUnlinked
<1>11. gpc = a /\ (s = n + 3 => Decided(a, FALSE)) /\ (s = n + 11 => Decided(a, TRUE))
       /\ DOMAIN RailBasicBlocks # {}
  BY <1>2, <1>4, SideHere DEF OnWay
<1>12. TraceArchRegs = regs /\ TraceArchRegs' = regs
  BY <1>2, <1>8 DEF TraceArchRegs
<1>13. s \in {n + 3, n + 11}
  <2>1. ExitAt(memory, n) /\ n \in DOMAIN memory
    BY <1>3, <1>4 DEF SideOf, Laid, ExitsLaid
  <2>2. memory[n + 2].k = "lui" => text[memory[n + 2].v].op # "BRANCH"
    BY <1>3, <1>5, <2>1, ExitShape DEF JumpExitAt
  <2> QED BY <1>4, <1>10, <2>2 DEF SideOf
<1>14. gpc' = LinkGoal(memory, ip)
  <2>1. CASE s = n + 3
    <3>1. ip - 2 = n + 2 /\ memory[n + 2].k = "traceBranch"
      BY <1>4, <1>5, <1>6, <2>1 DEF SideOf
    <3>2. LinkGoal(memory, ip) = a + 1
      BY <1>1, <1>7, <3>1 DEF LinkGoal
    <3>3. ~BranchTaken(text[a], regs)
      BY <1>11, <1>12, <2>1 DEF Decided
    <3> QED BY <1>2, <1>7, <1>10, <3>2, <3>3 DEF Target
  <2>2. CASE s = n + 11
    <3>1. ip - 2 = n + 10 /\ memory[n + 10].k # "traceBranch"
      <4>1. ip - 2 = n + 10 /\ n + 10 = (n + 3) + 7
        BY <1>5, <1>6, <2>2
      <4>2. memory[n + 2].k = "traceBranch" /\ n \in DOMAIN memory /\ memory[n].k = "save"
        BY <1>4, <1>5, <2>2 DEF SideOf
      <4>3. PICK ss, aa, hh : ss = n + 3 /\ aa = memory[n + 2].a /\ hh = ContextSwitchTraceExit
        OBVIOUS
      <4>4. SideOf(n, ss, aa, hh)
        BY <4>2, <4>3 DEF SideOf
      <4>5. memory[ss + 7].k = "jalrT6"
        BY <1>3, <4>4, LinkStarts DEF LinksAsMeant
      <4> QED BY <4>1, <4>3, <4>5
    <3>2. LinkGoal(memory, ip) = a + text[a].imm
      BY <1>1, <1>7, <3>1 DEF LinkGoal
    <3>3. BranchTaken(text[a], regs)
      BY <1>11, <1>12, <2>2 DEF Decided
    <3> QED BY <1>2, <1>7, <1>10, <3>2, <3>3 DEF Target
  <2> QED BY <1>13, <2>1, <2>2
<1>15. PICK b : b = RailBasicBlocks[gpc']
  OBVIOUS
<1>16. LinksLaid(memory, RailBasicBlocks) /\ TracesLaid(memory, RailBasicBlocks)
  <2>1. LayoutOf(memory, exits, RailBasicBlocks, trace)
    BY <1>3 DEF LayoutInv
  <2> QED BY <2>1, LayoutParts
<1>17. gpc' \in DOMAIN RailBasicBlocks /\ ip' = b.startLocationInCache + 1
  BY <1>1, <1>2, <1>14, <1>15, <1>16 DEF LinksLaid, LinkLaid
<1>18. b.firstAddr = gpc' /\ StartsAt(memory, b.startLocationInCache)
  BY <1>15, <1>16, <1>17 DEF TracesLaid, TraceLaid
<1>19. PICK i : i = b.startLocationInCache
  OBVIOUS
<1>20. /\ i \in DOMAIN memory /\ memory[i].k = "restore" /\ memory[i].k \in StepKind
       /\ ip' = NextOf(memory, i)
  BY <1>17, <1>18, <1>19 DEF StartsAt, StepKind, StraightKind, NextOf, StraightLength
<1>21. gpc' = PlaceAt(memory, program_counter, followed, ip', 0)
  BY <1>3, <1>15, <1>17, <1>18 DEF PathsOf, BeginsWith
<1>22. PlaceInv'
  BY <1>2, <1>8, <1>10, <1>11, <1>20, <1>21, PathGoesOn
<1>23. Execute(text[a], a, regs) = regs
  BY <1>10 DEF Execute, WritesRd
<1>24. TransfersHere
  <2>1. RetireTransfer(gpc, Target(text[gpc], gpc, regs))
    BY <1>1, <1>7, <1>11 DEF RunLink, word
  <2> QED BY <1>2, <1>5, <1>10, <1>11, <2>1 DEF TransfersHere
<1> QED BY <1>2, <1>5, <1>7, <1>10, <1>11, <1>12, <1>22, <1>23, <1>24 DEF RetiresOne

(* The exit of a segment.                                                  *)
LEMMA SwitchHere ==
  ASSUME PlaceHyp, phase = "run", NEW n, InSwitch(n)
  PROVE  /\ n \in DOMAIN memory /\ n \in Int /\ memory[n].k = "save" /\ memory[n + 2].k = "li"
         /\ ExitLength(memory, n) = 6 /\ SwitchAt(memory, n)
         /\ DOMAIN RailBasicBlocks # {} /\ AtSegmentEnd /\ t6Saved
<1>1. TraceTypes /\ LayoutInv /\ Laid(memory) /\ DOMAIN memory = 1..Len(memory)
      /\ Len(memory) \in Nat
  BY PlaceParts
<1>2. /\ n \in DOMAIN memory /\ n \in Int /\ memory[n].k = "save" /\ memory[n + 2].k = "li"
      /\ ip \in {n + 2, n + 5} /\ Lowered
  BY <1>1 DEF InSwitch
<1>3. ExitLength(memory, n) = 6
  BY <1>2 DEF ExitLength
<1>4. SwitchAt(memory, n)
  BY <1>1, <1>2, ExitShape DEF Laid, ExitsLaid
<1>5. ip \in (n + 1)..(n + ExitLength(memory, n) - 1)
  BY <1>2, <1>3
<1>6. DOMAIN RailBasicBlocks # {} /\ ExitPlace(n) /\ t6Saved
  BY <1>2, <1>5, ExitHere
<1>7. AtSegmentEnd
  BY <1>2, <1>6 DEF ExitPlace
<1> QED BY <1>2, <1>3, <1>4, <1>6, <1>7

(* The constants of allocateRoot and of the exit of a segment.             *)
LEMMA OldLiPlace ==
  ASSUME PlaceHyp, RunOldWord, RunLi
  PROVE  PlaceInv' /\ Unnoticed
<1>1. /\ phase = "run" /\ ip \in DOMAIN memory /\ CacheKept /\ ip' = ip + 3 /\ sp' = sp
      /\ UNCHANGED <<slot, t6Saved, linked, gpc, text, served, status>>
      /\ \/ word.k = "li" /\ regs' = [regs EXCEPT !.t6 = word.v]
         \/ word.k = "liT5"
  BY LengthTypes DEF RunLi, At, cacheVars, CacheKept, Moves, traceVars, RunOldWord, history
<1>2. TraceTypes /\ LayoutInv /\ InCache /\ DispatcherTypeOK /\ CachePlace
      /\ (linked => ~Segmented)
  BY <1>1, PlaceParts
<1>3. word.k = "li"
  <2>1. word.k \in StraightKind \cup ExitKind \cup {"save"}
    BY <1>1, <1>2, WhereWord
  <2> QED BY <1>1, <2>1 DEF StraightKind, ExitKind
<1>4. t6Saved => TraceArchRegs' = TraceArchRegs
  BY <1>1, <1>3 DEF TraceArchRegs
<1>5. CASE AtRoot /\ ip = 1
  <2>1. DOMAIN RailBasicBlocks = {} /\ t6Saved /\ AtEntry /\ sp = 0
    BY <1>2, <1>5 DEF CachePlace, AtRoot
  <2>2. regs'.t6 = InitSwitch
    <3>1. memory[1] = W("li", 0, InitSwitch)
      BY <1>5, RootWords DEF AtRoot
    <3>2. word.v = InitSwitch
      BY ONLY <1>5, <3>1 DEF word, W
    <3> QED BY <1>1, <1>2, <1>3, <3>2 DEF DispatcherTypeOK, Reg
  <2>3. ip' = 4 /\ UNCHANGED <<memory, RailBasicBlocks, program_counter, gpc, sp, t6Saved>>
    BY <1>1, <1>5 DEF CacheKept
  <2>4. AtRoot'
    BY <1>5, <2>2, <2>3 DEF AtRoot
  <2>5. CachePlace'
    BY <2>1, <2>3, <2>4 DEF CachePlace, AtEntry
  <2>6. Segmented' <=> Segmented
    BY <1>1 DEF Segmented, TraceSegmentsAfter, InText, Plain, CacheKept
  <2> QED BY <1>1, <1>2, <1>4, <2>1, <2>5, <2>6 DEF PlaceInv, CacheKept, Unnoticed
<1>6. CASE \E n : InSwitch(n) /\ ip = n + 2
  <2>1. PICK n : InSwitch(n) /\ ip = n + 2
    BY <1>6
  <2>2. /\ n \in DOMAIN memory /\ n \in Int /\ memory[n].k = "save" /\ memory[n + 2].k = "li"
        /\ ExitLength(memory, n) = 6
        /\ DOMAIN RailBasicBlocks # {} /\ AtSegmentEnd /\ t6Saved
    BY <1>1, <2>1, SwitchHere
  <2>3. ip' \in (n + 1)..(n + ExitLength(memory, n) - 1)
    BY <1>1, <2>1, <2>2
  <2>4. AtSegmentEnd'
    BY <1>1, <2>2 DEF AtSegmentEnd, CacheKept
  <2>5. ExitPlace(n)'
    BY <1>1, <2>2, <2>4 DEF ExitPlace, CacheKept
  <2>6. PlaceInv'
    BY <1>1, <2>2, <2>3, <2>5, ToExitPlace
  <2> QED BY <1>1, <1>4, <2>2, <2>6 DEF Unnoticed
<1> QED BY <1>1, <1>2, <1>3, <1>5, <1>6, WhereWord

(* Where the engine with trace linking leaves the cache: from root or the  *)
(* exit of a segment,                                                      *)
LEMMA OldSwitchPlace ==
  ASSUME PlaceHyp, RunOldSwitch
  PROVE  PlaceInv' /\ Unnoticed
<1>1. /\ phase = "run" /\ lastInstAddress' = 0 /\ linked' = FALSE
      /\ regs' = [regs EXCEPT !.t6 = slot]
      /\ UNCHANGED <<slot, t6Saved, gpc, text, tool, served, status, memory, RailBasicBlocks,
                     program_counter, currentBB>>
  BY DEF RunOldSwitch, RunSwitch, At, cacheVars, history
<1>2. TraceTypes /\ LayoutInv /\ InCache /\ DispatcherTypeOK /\ CachePlace
  BY <1>1, PlaceParts
<1>3. regs'.t6 = slot'
  BY <1>1, <1>2 DEF DispatcherTypeOK, Reg
<1>4. t6Saved => TraceArchRegs' = TraceArchRegs
  BY <1>1 DEF TraceArchRegs
<1>5. CASE AtRoot /\ phase' = "init"
  <2>1. t6Saved /\ AtEntry
    BY <1>2, <1>5 DEF CachePlace, AtRoot
  <2> QED BY <1>1, <1>3, <1>4, <1>5, <2>1 DEF PlaceInv, HostPlace, AtEntry, Unnoticed
<1>6. CASE (\E n : InSwitch(n) /\ ip = n + 5) /\ phase' = "stub"
  <2>1. t6Saved /\ AtSegmentEnd
    BY <1>1, <1>6, SwitchHere
  <2>2. AtSegmentEnd'
    BY <1>1, <2>1 DEF AtSegmentEnd
  <2> QED BY <1>1, <1>3, <1>4, <1>6, <2>1, <2>2 DEF PlaceInv, HostPlace, StubPlace, Unnoticed
<1> QED BY <1>2, <1>5, <1>6, OldSwitchFrom

(* or from a side,                                                         *)
LEMMA TraceSwitchFrom ==
  ASSUME PlaceHyp, RunTraceSwitch
  PROVE  \E n, s, a, h : /\ SideOf(n, s, a, h) /\ OnSide(s, a, h) /\ ip = s + 7
                         /\ lastInst = a /\ Lowered /\ regs.t6 = h
<1>1. /\ phase = "run" /\ ip \in DOMAIN memory /\ word.k = "jalrT6"
      /\ regs.t6 \in {-5, -6}
  BY DEF RunTraceSwitch, At, TraceEntry, ContextSwitchTraceExit,
         ContextSwitchTraceExitTaken
<1>2. TraceTypes /\ LayoutInv /\ InCache /\ LinksAsMeant /\ ~AtTail
  BY <1>1, PlaceParts
<1>3. ~(AtRoot /\ ip = 4)
  BY <1>1 DEF AtRoot, InitSwitch
<1>4. ~\E n : InSwitch(n) /\ ip = n + 5
  <2> SUFFICES ASSUME NEW n, InSwitch(n), ip = n + 5 PROVE FALSE
    OBVIOUS
  <2>1. n \in Int
    BY <1>2 DEF InSwitch, TraceTypes
  <2> QED BY <1>1, <2>1 DEF InSwitch, ContextSwitchTaken
<1>5. PICK n, s, a, h : SideOf(n, s, a, h) /\ OnSide(s, a, h) /\ ip = s + 7
  BY <1>1, <1>2, <1>3, <1>4, WhereWord
<1>6. s \in Int
  BY <1>2, <1>5, SideWords
<1>7. memory[s + 6].k # "popSp"
  BY <1>2, <1>5, LinkStarts DEF LinksAsMeant
<1>8. lastInst = a /\ Lowered /\ regs.t6 = h
  BY <1>5, <1>6, <1>7 DEF OnSide
<1> QED BY <1>5, <1>8

(* which tells stub the instruction and which way it goes.                 *)
LEMMA TraceSwitchPlace ==
  ASSUME PlaceHyp, RunTraceSwitch
  PROVE  PlaceInv' /\ Unnoticed
<1>1. /\ phase = "run" /\ ip \in DOMAIN memory /\ word.k = "jalrT6" /\ status = "running"
      /\ regs.t6 \in {-5, -6} /\ phase' = "stub" /\ linked' = FALSE
      /\ lastInstAddress' = lastInst /\ taken' = (regs.t6 = -6)
      /\ regs' = [regs EXCEPT !.t6 = slot]
      /\ UNCHANGED <<slot, t6Saved, gpc, text, tool, served, status>>
  BY DEF RunTraceSwitch, At, cacheVars, history, TraceEntry, ContextSwitchTraceExit,
         ContextSwitchTraceExitTaken
<1>2. TraceTypes /\ LayoutInv /\ DispatcherTypeOK
  BY <1>1, PlaceParts
<1>3. PICK n, s, a, h : /\ SideOf(n, s, a, h) /\ OnSide(s, a, h) /\ ip = s + 7
                        /\ lastInst = a /\ Lowered /\ regs.t6 = h
  BY TraceSwitchFrom
<1>4. s \in Int /\ n \in Int /\ InText(a) /\ a \in Int
  BY <1>2, <1>3, SideWords
<1>5. lastInst = a /\ Lowered /\ regs.t6 = h
  BY <1>3
<1>6. OnWay(n, s, a) /\ t6Saved
  BY <1>1, <1>3, <1>5, SideHere
<1>7. TraceArchRegs' = TraceArchRegs
  BY <1>1, <1>6 DEF TraceArchRegs
<1>8. regs'.t6 = slot'
  BY <1>1, <1>2 DEF DispatcherTypeOK, Reg
<1>9. a # 0 /\ gpc = a
  BY <1>4, <1>6 DEF InText, OnWay
<1>10. text[a].op = "BRANCH" => memory[n + 2].k = "traceBranch"
  <2>1. ExitAt(memory, n) /\ n \in DOMAIN memory
    BY <1>2, <1>3 DEF SideOf, LayoutInv, LayoutOf, Laid, ExitsLaid
  <2>2. Laid(memory)
    BY <1>1, PlaceParts
  <2>3. DOMAIN memory = 1..Len(memory) /\ Len(memory) \in Nat
    BY <2>2, WordOfLaid
  <2>4. memory[n + 2].k = "lui" => text[memory[n + 2].v].op # "BRANCH"
    BY <1>4, <2>1, <2>3, ExitShape DEF JumpExitAt
  <2> QED BY <1>3, <2>4 DEF SideOf
<1>11. text[a].op = "BRANCH" => Decided(a, taken')
  <2> SUFFICES ASSUME text[a].op = "BRANCH" PROVE Decided(a, taken')
    OBVIOUS
  <2>1. CASE s = n + 3 /\ h = ContextSwitchTraceExit
    <3>1. regs.t6 # -6
      BY <1>5, <2>1 DEF ContextSwitchTraceExit
    <3>2. ~BranchTaken(text[a], TraceArchRegs)
      BY <1>6, <2>1 DEF OnWay, Decided
    <3> QED BY <1>1, <3>1, <3>2 DEF Decided
  <2>2. CASE s = n + 11 /\ h = ContextSwitchTraceExitTaken
    <3>1. taken' = TRUE
      BY <1>1, <1>5, <2>2 DEF ContextSwitchTraceExitTaken
    <3>2. BranchTaken(text[a], TraceArchRegs)
      BY <1>6, <2>2 DEF OnWay, Decided
    <3> QED BY <3>1, <3>2 DEF Decided
  <2> QED BY <1>3, <1>10, <2>1, <2>2 DEF SideOf
<1>12. StubPlace'
  BY <1>1, <1>5, <1>7, <1>9, <1>11 DEF StubPlace, Decided
<1> QED BY <1>1, <1>6, <1>7, <1>8, <1>12 DEF PlaceInv, HostPlace, Unnoticed

(* A call is not run in the cache.                                         *)
LEMMA NoEcallHere ==
  ASSUME PlaceHyp, RunEcall
  PROVE  FALSE
<1>1. phase = "run" /\ ip \in DOMAIN memory /\ memory[ip].k = "ecall"
  BY DEF RunEcall, At, word
<1>2. SequencePlace
  BY <1>1, SequenceHere DEF StraightKind
<1> QED BY <1>1, <1>2 DEF SequencePlace, SegmentExit

LEMMA NoJumpHere ==
  ASSUME PlaceHyp, RunJumpInCache
  PROVE  FALSE
<1>1. phase = "run"
  BY DEF RunJumpInCache, At
<1> QED BY <1>1, PlaceParts, JumpInCacheStays

LEMMA OldWordPlace ==
  ASSUME PlaceHyp, RunOldWord
  PROVE  PlaceInv' /\ (Unnoticed \/ RetiresOne)
<1>1. CASE RunRestoreScratch
  BY <1>1, RestorePlace
<1>2. CASE RunLi
  BY <1>2, OldLiPlace
<1>3. CASE RunGuestWord
  BY <1>3, GuestWordPlace
<1> QED BY <1>1, <1>2, <1>3, NoEcallHere, NoJumpHere DEF RunOldWord

(* The processor stops only where the guest has left its text.             *)
Stops ==
  /\ ~InText(gpc) /\ status' = "crashed"
  /\ UNCHANGED <<text, gpc, TraceArchRegs, served>>

LEMMA CrashPlace ==
  ASSUME PlaceHyp, RunOldCrash
  PROVE  PlaceInv' /\ Stops
<1>1. /\ phase = "run" /\ status' = "crashed" /\ Arrived
      /\ UNCHANGED <<regs, slot, t6Saved, gpc, text, served>>
      /\ ip \in DOMAIN memory =>
           \/ word.k = "cont"
           \/ word.k = "jalrT6" /\ regs.t6 \notin HostEntry
      /\ ip \in DOMAIN memory /\ word.k = "jalrT6" => regs.t6 \notin TraceEntry
  BY DEF RunOldCrash, RunCrash, At, cacheVars, history, Moves, PlaceHyp, PathHyp
<1>2. TraceTypes /\ LayoutInv /\ InCache /\ ~AtTail /\ PlainText /\ ~trace.busy
      /\ Laid(memory) /\ DispatcherTypeOK
      /\ OpenOf(memory, program_counter, followed, RailBasicBlocks, trace)
  BY <1>1, PlaceParts
<1>3. ip \notin DOMAIN memory
  <2> SUFFICES ASSUME ip \in DOMAIN memory PROVE FALSE
    OBVIOUS
  <2>1. word.k = "jalrT6" /\ regs.t6 \notin HostEntry /\ regs.t6 \notin TraceEntry
    BY <1>1, <1>2, WhereWord
  <2>2. ~(AtRoot /\ ip = 4)
    BY <2>1 DEF AtRoot, HostEntry, InitSwitch, ContextSwitch
  <2>3. ~\E n : InSwitch(n) /\ ip = n + 5
    <3> SUFFICES ASSUME NEW n, InSwitch(n), ip = n + 5 PROVE FALSE
      OBVIOUS
    <3>1. n \in Int
      BY <1>2 DEF InSwitch, TraceTypes
    <3> QED BY <2>1, <3>1 DEF InSwitch, ContextSwitchTaken, HostEntry, InitSwitch, ContextSwitch
  <2>4. PICK n, s, a, h : SideOf(n, s, a, h) /\ OnSide(s, a, h) /\ ip = s + 7
    BY <1>2, <2>1, <2>2, <2>3, WhereWord
  <2>5. s \in Int /\ h \in TraceEntry
    BY <1>2, <2>4, SideWords
  <2>6. memory[s + 6].k # "popSp"
    BY <1>2, <2>4, LinkStarts, PlaceParts, <1>1 DEF LinksAsMeant
  <2>7. regs.t6 = h
    BY <2>4, <2>5, <2>6 DEF OnSide
  <2> QED BY <2>1, <2>5, <2>7
<1>4. DOMAIN RailBasicBlocks # {} /\ Begins(memory, ip) /\ SequencePlace
  BY <1>1, <1>3, BehindCache
<1>5. ~SegmentExit(memory, ip)
  BY <1>3 DEF SegmentExit
<1>6. gpc = program_counter
  BY <1>1, <1>3, <1>4, <1>5, AddrHere DEF AddrAt
<1>7. OpenEnd(memory)
  BY <1>3, <1>4, <1>5 DEF SequencePlace
<1>8. Fetch(gpc).op = "none"
  BY <1>2, <1>6, <1>7 DEF OpenOf
<1>9. ~InText(gpc)
  <2> SUFFICES ASSUME InText(gpc) PROVE FALSE
    OBVIOUS
  <2>1. gpc \in DOMAIN text /\ Fetch(gpc) = text[gpc]
    BY <1>2 DEF InText, Fetch, TraceTypes
  <2> QED BY <1>2, <1>8, <2>1 DEF PlainText, NoHoles
<1>10. TraceArchRegs' = TraceArchRegs
  BY <1>1 DEF TraceArchRegs
<1> QED BY <1>1, <1>9, <1>10 DEF PlaceInv, Stops

(* Every step of the processor keeps the guest's place.                    *)
LEMMA RunTraceStepPlace ==
  ASSUME PlaceHyp, RunTraceStep
  PROVE  PlaceInv' /\ (Unnoticed \/ RetiresOne \/ Stops)
BY OldWordPlace, CrashPlace, SavePlace, OldSwitchPlace, TraceSwitchPlace, TraceLiPlace,
   TraceBranchPlace, PopSpPlace, LinkPlaces, LiRdPlace, FollowedJumpPlace DEF RunTraceStep

-----------------------------------------------------------------------------
(* Where the guest is: the host.                                           *)

(* What is known while the host runs.                                      *)
LEMMA HostHere ==
  ASSUME PlaceHyp, phase # "run"
  PROVE  /\ TraceTypes /\ DispatcherTypeOK /\ LayoutInv /\ TraceControlInv /\ ExtentParts
         /\ status = "running" /\ InHost /\ sp = 0 /\ linked = FALSE /\ HostPlace
         /\ t6Saved /\ regs.t6 = slot /\ TraceArchRegs = regs /\ TRAPFRAME = regs
         /\ TracesLaid(memory, RailBasicBlocks) /\ NoForwardedEcalls
<1>1. /\ TraceTypes /\ DispatcherTypeOK /\ LayoutInv /\ TraceControlInv /\ ExtentInv
      /\ status = "running" /\ PlaceInv /\ NoForwardedEcalls
  BY DEF PlaceHyp, PathHyp
<1>2. ExtentParts /\ HostPlace
  BY <1>1, ExtentInvParts DEF PlaceInv
<1>3. InHost /\ sp = 0
  BY <1>1, HostParts
<1>4. linked = FALSE
  BY <1>1, <1>2 DEF ExtentParts, TraceTypes
<1>5. t6Saved /\ regs.t6 = slot
  BY <1>2 DEF HostPlace
<1>6. TraceArchRegs = regs /\ TRAPFRAME = regs
  <2>1. regs \in [Reg -> Int]
    BY <1>1 DEF DispatcherTypeOK
  <2> QED BY <1>5, <2>1, ArchHere
<1>7. LayoutOf(memory, exits, RailBasicBlocks, trace)
  BY <1>1 DEF LayoutInv
<1>8. TracesLaid(memory, RailBasicBlocks)
  BY <1>7, LayoutParts
<1> QED BY <1>1, <1>2, <1>3, <1>4, <1>5, <1>6, <1>8

(* T6 in its place, nothing is noticed.                                    *)
LEMMA SavedArch ==
  ASSUME t6Saved'
  PROVE  TraceArchRegs' = [regs' EXCEPT !.t6 = slot']
  BY DEF TraceArchRegs

(* The host allocates.                                                     *)
LEMMA InitAllocatePlace ==
  ASSUME PlaceHyp, TraceInit_Allocate
  PROVE  PlaceInv' /\ Unnoticed
<1>1. /\ phase = "init" /\ phase' = "initWait"
      /\ UNCHANGED <<regs, slot, t6Saved, gpc, served, status, linked, text>>
      /\ frame'.nextBlockAddr = program_counter
  BY DEF TraceInit_Allocate, TraceBegin, history, EmptyFrame
<1>2. t6Saved /\ regs.t6 = slot /\ linked = FALSE /\ AtEntry
  BY <1>1, HostHere DEF HostPlace
<1>3. TraceArchRegs' = TraceArchRegs
  BY <1>1 DEF TraceArchRegs
<1> QED BY <1>1, <1>2, <1>3 DEF PlaceInv, HostPlace, AtEntry, Unnoticed

(* A trace is entered at its first word.                                   *)
LEMMA EnteredPlace ==
  ASSUME text' = text, NEW mm, memory' = mm, Laid(mm), phase' = "run",
         DOMAIN RailBasicBlocks' # {}, ip' \in DOMAIN mm, mm[ip'].k = "restore",
         AtTraceStart', sp' = 0
  PROVE  PlaceInv'
<1>1. /\ DOMAIN mm = 1..Len(mm) /\ Len(mm) \in Nat
  BY WordOfLaid
<1>2. Begins(mm, ip')
  BY DEF Begins, StraightKind
<1>3. ~\E n \in DOMAIN mm : /\ mm[n].k = "save"
                            /\ ip' \in (n + 1)..(n + ExitLength(mm, n) - 1)
  BY <1>2, NoneInside
<1>4. \A n \in DOMAIN memory' : ~InsideExit(n)'
  BY <1>3 DEF InsideExit, ExitLength
<1>5. SequencePlace'
  BY DEF SequencePlace, SegmentExit
<1>6. CachePlace'
  BY <1>4, <1>5 DEF CachePlace
<1>7. ~linked'
  BY DEF AtTraceStart
<1> QED BY <1>6, <1>7 DEF PlaceInv

(* init enters the first,                                                  *)
LEMMA InitEntersTrace ==
  ASSUME PlaceHyp, TraceInit_Enter, NEW next, next = Lookup(frame.nextBlockAddr)
  PROVE  /\ phase = "initWait" /\ phase' = "run" /\ ip' = next.startLocationInCache
         /\ Laid(memory) /\ ip' \in DOMAIN memory /\ memory[ip'].k = "restore"
         /\ next = RailBasicBlocks[gpc] /\ gpc = currentBB /\ gpc \in DOMAIN RailBasicBlocks
         /\ UNCHANGED <<memory, RailBasicBlocks, currentBB, gpc>> /\ next.firstAddr = gpc
<1>1. /\ phase = "initWait" /\ phase' = "run" /\ ~trace.busy
      /\ ip' = next.startLocationInCache
      /\ UNCHANGED <<memory, RailBasicBlocks, currentBB, gpc>>
  BY DEF TraceInit_Enter, Init_Enter, EnterCacheAt, cacheVars
<1>2. /\ LayoutInv /\ ExtentParts /\ InHost /\ HostPlace
      /\ TracesLaid(memory, RailBasicBlocks)
  BY <1>1, HostHere
<1>3. PICK key : key = frame.nextBlockAddr
  OBVIOUS
<1>4. /\ key \in DOMAIN RailBasicBlocks /\ currentBB = key /\ gpc = key
  BY <1>1, <1>2, <1>3 DEF InHost, ExtentParts, HostPlace
<1>5. /\ next = RailBasicBlocks[key] /\ next.firstAddr = key
      /\ StartsAt(memory, next.startLocationInCache)
  BY <1>2, <1>3, <1>4 DEF Lookup, TracesLaid, TraceLaid
<1>6. ip' \in DOMAIN memory /\ memory[ip'].k = "restore"
  BY <1>1, <1>5 DEF StartsAt
<1>7. Laid(memory)
  BY <1>2 DEF LayoutInv, LayoutOf
<1> QED BY <1>1, <1>4, <1>5, <1>6, <1>7

LEMMA InitEnterPlace ==
  ASSUME PlaceHyp, TraceInit_Enter
  PROVE  PlaceInv' /\ Unnoticed
<1>1. PICK next, m : next = Lookup(frame.nextBlockAddr) /\ m = memory
  OBVIOUS
<1>2. /\ regs' = [regs EXCEPT !.t6 = CacheAddr(ip')]
      /\ UNCHANGED <<slot, t6Saved, gpc, text, tool, served, status, linked, memory, sp>>
  BY <1>1 DEF TraceInit_Enter, Init_Enter, EnterCacheAt, cacheVars, NoTraceStep
<1>3. /\ phase = "initWait" /\ phase' = "run" /\ ip' = next.startLocationInCache
      /\ Laid(m) /\ ip' \in DOMAIN m /\ m[ip'].k = "restore"
      /\ next = RailBasicBlocks[gpc] /\ gpc = currentBB /\ gpc \in DOMAIN RailBasicBlocks
      /\ UNCHANGED <<RailBasicBlocks, currentBB>>
  BY <1>1, InitEntersTrace
<1>4. /\ DispatcherTypeOK /\ sp = 0 /\ linked = FALSE /\ t6Saved
      /\ TraceArchRegs = regs /\ regs.t6 = slot
  BY <1>3, HostHere
<1>5. AtTraceStart'
  BY <1>2, <1>3, <1>4 DEF AtTraceStart
<1>6. DOMAIN RailBasicBlocks' # {}
  BY <1>3
<1>7. PlaceInv'
  BY <1>1, <1>2, <1>3, <1>4, <1>5, <1>6, EnteredPlace
<1>8. TraceArchRegs' = TraceArchRegs
  <2>1. TraceArchRegs' = [regs' EXCEPT !.t6 = slot]
    BY <1>2, <1>4, SavedArch
  <2>2. regs \in [Reg -> Int] /\ "t6" \in Reg
    BY <1>4 DEF DispatcherTypeOK, Reg
  <2> QED BY <1>2, <1>4, <2>1, <2>2
<1> QED BY <1>2, <1>7, <1>8 DEF Unnoticed

(* What stub knows of the instruction it is told of.                       *)
LEMMA StubTold ==
  ASSUME PlaceHyp, InStub, ExitType # "SEGMENTED"
  PROVE  /\ LastInst = text[gpc] /\ LastAddr = gpc /\ InText(gpc) /\ text[gpc] \in Inst
         /\ gpc \in Int /\ text[gpc].op \in ControlOp /\ ExitType = NextInstType(text[gpc].op)
         /\ text[gpc].op = "BRANCH" => Decided(gpc, taken)
         /\ lastInstAddress # 0 /\ phase = "stub"
<1>1. phase = "stub"
  BY DEF InStub
<1>2. TraceTypes /\ LayoutInv /\ InHost /\ HostPlace
  BY <1>1, HostHere
<1>3. StubPlace /\ ReportOK
  BY <1>1, <1>2 DEF HostPlace, InHost
<1>4. lastInstAddress # 0
  <2> SUFFICES ASSUME lastInstAddress = 0 PROVE FALSE
    OBVIOUS
  <2>1. AtSegmentEnd /\ ~Reported
    BY <1>3 DEF StubPlace, Reported
  <2> QED BY <2>1 DEF AtSegmentEnd, ExitType, Lookup
<1>5. Reported
  BY <1>3, <1>4 DEF Reported, ReportOK
<1>6. gpc = lastInstAddress /\ (text[gpc].op = "BRANCH" => Decided(gpc, taken))
  BY <1>3, <1>4 DEF StubPlace
<1>7. /\ InText(gpc) /\ text[gpc].op \in ControlOp
      /\ LastInst = text[gpc] /\ LastAddr = gpc /\ gpc \in Int /\ text[gpc] \in Inst
  BY <1>2, <1>5, <1>6, ReportedExit
<1> QED BY <1>1, <1>4, <1>5, <1>6, <1>7 DEF ExitType

(* Otherwise it takes the last one of currentBB.                           *)
LEMMA SegmentTold ==
  ASSUME PlaceHyp, InStub, ExitType = "SEGMENTED"
  PROVE  /\ phase = "stub" /\ lastInstAddress = 0 /\ ~Reported
         /\ currentBB \in DOMAIN RailBasicBlocks
         /\ LastAddr = RailBasicBlocks[currentBB].lastAddr /\ gpc = LastAddr + 1
         /\ LastInst = RailBasicBlocks[currentBB].terminalInst
<1>1. phase = "stub"
  BY DEF InStub
<1>2. TraceTypes /\ LayoutInv /\ InHost /\ HostPlace
  BY <1>1, HostHere
<1>3. ~Reported
  <2> SUFFICES ASSUME Reported PROVE FALSE
    OBVIOUS
  <2>1. LastInst = text[lastInstAddress] /\ text[lastInstAddress].op \in ControlOp
    BY <1>2, ReportedExit
  <2>2. ExitType = NextInstType(LastInst.op)
    BY DEF ExitType
  <2> QED BY <2>1, <2>2 DEF NextInstType, ControlOp
<1>4. lastInstAddress = 0
  BY <1>1, <1>2, <1>3 DEF InHost, ReportOK, Reported
<1>5. AtSegmentEnd
  BY <1>1, <1>2, <1>4 DEF HostPlace, StubPlace
<1> QED BY <1>1, <1>3, <1>4, <1>5 DEF AtSegmentEnd, LastAddr, LastInst, Lookup

(* It leaves the guest where it goes next.                                 *)
LEMMA LeavesPlace ==
  ASSUME PlaceHyp, InStub, NEW next, NEW execLast, TraceLeaveFor(next, execLast),
         gpc' = next, regs'.t6 = slot', regs' \in [Reg -> Int]
  PROVE  PlaceInv' /\ status' = status /\ text' = text /\ TraceArchRegs' = regs'
<1>1. phase = "stub"
  BY DEF InStub
<1>2. linked = FALSE /\ t6Saved
  BY <1>1, HostHere
<1>3. /\ phase' = "stubWait" /\ frame'.nextBlockAddr = next
      /\ UNCHANGED <<status, t6Saved, linked, text>>
  BY DEF TraceLeaveFor, TraceBegin
<1>4. TraceArchRegs' = regs'
  <2>1. TraceArchRegs' = [regs' EXCEPT !.t6 = slot']
    BY <1>2, <1>3, SavedArch
  <2> QED BY <2>1, <1>2 DEF Reg
<1> QED BY <1>2, <1>3, <1>4 DEF PlaceInv, HostPlace

(* The instruction, to the guest, is the last one of the block.            *)
LEMMA TransfersAsTheGuest ==
  ASSUME NEW i \in Inst, i.op \in {"BRANCH", "JAL", "JALR"}, TRAPFRAME = regs,
         i.op = "BRANCH" => (BranchTaken(i, regs) <=> taken), NEW a
  PROVE  NextBlockAddr(i, a) = Target(i, a, regs) /\ LinkedFrame(i, a) = Execute(i, a, regs)
<1>1. i.rd \in Reg \cup {"zero"} /\ "zero" \notin Reg
  BY DEF Inst, Reg
<1>2. NextBlockAddr(i, a) = Target(i, a, regs)
  <2>1. CASE i.op = "BRANCH"
    BY <2>1 DEF NextBlockAddr, Target
  <2>2. CASE i.op = "JAL"
    BY <2>2 DEF NextBlockAddr, Target
  <2>3. CASE i.op = "JALR"
    BY <2>3 DEF NextBlockAddr, Target
  <2> QED BY <2>1, <2>2, <2>3
<1>3. LinkedFrame(i, a) = Execute(i, a, regs)
  <2>1. WritesRd(i) <=> i.op \in {"JAL", "JALR"} /\ i.rd # "zero"
    BY <1>1 DEF WritesRd
  <2>2. i.op \in {"JAL", "JALR"} => Result(i, a) = a + 1
    BY DEF Result
  <2> QED BY <1>1, <2>1, <2>2 DEF LinkedFrame, Execute
<1> QED BY <1>2, <1>3

LEMMA StubTransferPlace ==
  ASSUME PlaceHyp, TraceStub_Transfer
  PROVE  PlaceInv' /\ RetiresOne
<1>1. PICK next, i : next = NextBlockAddr(LastInst, LastAddr) /\ i = LastInst
  OBVIOUS
<1>2. /\ InStub /\ ExitType \in {"DIRECT_BRANCH", "INDIRECT_BRANCH"}
      /\ regs' = LinkedFrame(LastInst, LastAddr) /\ slot' = regs'.t6
      /\ gpc' = next /\ TraceLeaveFor(next, FALSE) /\ served' = served
  BY <1>1 DEF TraceStub_Transfer
<1>3. /\ i = text[gpc] /\ LastAddr = gpc /\ InText(gpc) /\ i \in Inst /\ gpc \in Int
      /\ ExitType = NextInstType(i.op) /\ (i.op = "BRANCH" => Decided(gpc, taken))
      /\ i.op \in ControlOp
  BY <1>1, <1>2, StubTold
<1>4. phase = "stub"
  BY <1>2 DEF InStub
<1>5. TRAPFRAME = regs /\ TraceArchRegs = regs /\ DispatcherTypeOK
  BY <1>4, HostHere
<1>6. i.op \in {"BRANCH", "JAL", "JALR"}
  BY <1>2, <1>3 DEF NextInstType, ControlOp
<1>7. i.op = "BRANCH" => (BranchTaken(i, regs) <=> taken)
  BY <1>3, <1>5 DEF Decided
<1>8. next = Target(i, gpc, regs) /\ regs' = Execute(i, gpc, regs)
  BY <1>1, <1>2, <1>3, <1>5, <1>6, <1>7, TransfersAsTheGuest
<1>9. regs' \in [Reg -> Int]
  <2>1. Result(i, gpc) \in Int
    <3>1. i.imm \in Int /\ gpc + 1 \in Int
      BY <1>3 DEF Inst
    <3>2. Result(i, gpc) = gpc + 1 \/ Result(i, gpc) = i.imm
      BY <1>6 DEF Result
    <3> QED BY <3>1, <3>2
  <2>2. regs \in [Reg -> Int]
    BY <1>5 DEF DispatcherTypeOK
  <2> QED BY <1>8, <2>1, <2>2 DEF Execute
<1>10. PlaceInv' /\ status' = status /\ text' = text /\ TraceArchRegs' = regs'
  BY <1>2, <1>9, LeavesPlace
<1> QED BY <1>2, <1>3, <1>5, <1>6, <1>8, <1>10 DEF RetiresOne

LEMMA StubSegmentPlace ==
  ASSUME PlaceHyp, TraceStub_Segment
  PROVE  PlaceInv' /\ Unnoticed
<1>1. PICK next : next = LastAddr + 1
  OBVIOUS
<1>2. /\ InStub /\ ExitType = "SEGMENTED" /\ TraceLeaveFor(next, FALSE)
      /\ UNCHANGED <<regs, slot, served, gpc>>
  BY <1>1 DEF TraceStub_Segment
<1>3. phase = "stub" /\ gpc = next
  BY <1>1, <1>2, SegmentTold
<1>4. DispatcherTypeOK /\ TraceArchRegs = regs /\ regs.t6 = slot
  BY <1>3, HostHere
<1>5. regs' \in [Reg -> Int] /\ regs'.t6 = slot' /\ gpc' = next
  BY <1>2, <1>3, <1>4 DEF DispatcherTypeOK
<1>6. PlaceInv' /\ status' = status /\ text' = text /\ TraceArchRegs' = regs'
  BY <1>2, <1>5, LeavesPlace
<1> QED BY <1>2, <1>4, <1>6 DEF Unnoticed

(* A call the library performs.                                            *)
ServesOne ==
  /\ InText(gpc) /\ text[gpc].op = "SYSTEM" /\ text[gpc].sys # "exit"
  /\ served' = gpc /\ gpc' = gpc + 1
  /\ UNCHANGED <<text, TraceArchRegs, status>>

LEMMA StubEmulatePlace ==
  ASSUME PlaceHyp, TraceStub_Emulate
  PROVE  PlaceInv' /\ ServesOne
<1>1. PICK next : next = LastAddr + 1
  OBVIOUS
<1>2. /\ InStub /\ ExitType = "SYSCALL" /\ LastInst.sys = "emulated"
      /\ TraceLeaveFor(next, FALSE) /\ served' = LastAddr /\ gpc' = next
      /\ UNCHANGED <<regs, slot>>
  BY <1>1 DEF TraceStub_Emulate
<1>3. /\ LastInst = text[gpc] /\ LastAddr = gpc /\ InText(gpc)
      /\ text[gpc].op \in ControlOp /\ ExitType = NextInstType(text[gpc].op)
  BY <1>2, StubTold
<1>4. text[gpc].op = "SYSTEM"
  BY <1>2, <1>3 DEF NextInstType, ControlOp
<1>5. phase = "stub"
  BY <1>2 DEF InStub
<1>6. TraceArchRegs = regs /\ regs.t6 = slot /\ DispatcherTypeOK
  BY <1>5, HostHere
<1>7. regs' \in [Reg -> Int] /\ regs'.t6 = slot'
  BY <1>2, <1>6 DEF DispatcherTypeOK
<1>8. PlaceInv' /\ status' = status /\ text' = text /\ TraceArchRegs' = regs'
  BY <1>2, <1>7, LeavesPlace
<1> QED BY <1>1, <1>2, <1>3, <1>4, <1>6, <1>8 DEF ServesOne

LEMMA NoForwardHere ==
  ASSUME PlaceHyp, TraceStub_Forward
  PROVE  FALSE
<1>1. phase = "stub" /\ LastInst.sys = "forwarded"
  BY DEF TraceStub_Forward, InStub
<1> QED BY <1>1, HostHere, ForwardedInText

(* How the process ends in the host: by a call, or off the text.           *)
ExitsAsTold ==
  /\ InText(gpc) /\ text[gpc].op = "SYSTEM" /\ text[gpc].sys = "exit" /\ status' = "exited"
  /\ UNCHANGED <<text, gpc, TraceArchRegs, served>>

Faults ==
  /\ ~InText(gpc) /\ status' = "faulted"
  /\ UNCHANGED <<text, gpc, TraceArchRegs, served>>

LEMMA StubExitPlace ==
  ASSUME PlaceHyp, TraceStub_Exit
  PROVE  PlaceInv' /\ ExitsAsTold
<1>1. /\ InStub /\ ExitType = "SYSCALL" /\ LastInst.sys = "exit" /\ status' = "exited"
      /\ UNCHANGED <<text, gpc, regs, slot, t6Saved, served>>
  BY DEF TraceStub_Exit
<1>2. /\ LastInst = text[gpc] /\ InText(gpc)
      /\ text[gpc].op \in ControlOp /\ ExitType = NextInstType(text[gpc].op)
  BY <1>1, StubTold
<1>3. text[gpc].op = "SYSTEM"
  BY <1>1, <1>2 DEF NextInstType, ControlOp
<1>4. TraceArchRegs' = TraceArchRegs
  BY <1>1 DEF TraceArchRegs
<1> QED BY <1>1, <1>2, <1>3, <1>4 DEF PlaceInv, ExitsAsTold

LEMMA GiveUpPlace ==
  ASSUME PlaceHyp, TraceStub_GiveUp
  PROVE  PlaceInv' /\ Faults
<1>1. /\ phase = "stubWait" /\ ~trace.busy /\ status' = "faulted"
      /\ Lookup(frame.nextBlockAddr).firstAddr = 0
      /\ UNCHANGED <<text, gpc, regs, slot, t6Saved, served>>
  BY DEF TraceStub_GiveUp, history
<1>2. /\ InHost /\ HostPlace /\ TracesLaid(memory, RailBasicBlocks) /\ TraceTypes
  BY <1>1, HostHere
<1>3. frame.nextBlockAddr \in DOMAIN RailBasicBlocks /\ gpc = frame.nextBlockAddr
  BY <1>1, <1>2 DEF InHost, HostPlace
<1>4. gpc = 0
  BY <1>1, <1>2, <1>3 DEF TracesLaid, TraceLaid, Lookup
<1>5. ~InText(gpc)
  BY <1>4 DEF InText
<1>6. TraceArchRegs' = TraceArchRegs
  BY <1>1 DEF TraceArchRegs
<1> QED BY <1>1, <1>5, <1>6 DEF PlaceInv, Faults

(* stub returns into the cache, to the first word of a trace,              *)
LEMMA StubEntersTrace ==
  ASSUME PlaceHyp, TraceStub_Enter, NEW next, next = Lookup(frame.nextBlockAddr)
  PROVE  /\ phase = "stubWait" /\ phase' = "run" /\ ip' = next.startLocationInCache
         /\ Laid(memory') /\ ip' \in DOMAIN memory' /\ memory'[ip'].k = "restore"
         /\ next.firstAddr = gpc /\ gpc' = gpc /\ currentBB' = gpc
         /\ gpc \in DOMAIN RailBasicBlocks'
         /\ RailBasicBlocks'[gpc].startLocationInCache = next.startLocationInCache
<1>1. PICK key, mm : key = frame.nextBlockAddr /\ mm = LinkedMemory(next)
  OBVIOUS
<1>2. /\ phase = "stubWait" /\ phase' = "run" /\ ~trace.busy /\ status = "running"
      /\ memory' = mm /\ AdoptSegment(key, next) /\ currentBB' = next.firstAddr
      /\ ip' = ReturnVal(next) /\ gpc' = gpc
  BY <1>1 DEF TraceStub_Enter, EnterCacheAt, setCurrentBB
<1>3. /\ TraceTypes /\ DispatcherTypeOK /\ LayoutInv /\ TraceControlInv /\ HostPlace
      /\ NoForwardedEcalls
  BY <1>2, HostHere
<1>4. /\ ReportOK /\ key \in DOMAIN RailBasicBlocks /\ frame.shouldNotExecLast
      /\ Reported /\ ExitType = "DIRECT_BRANCH" => key = NextBlockAddr(LastInst, LastAddr)
  BY <1>1, <1>2, <1>3, StubWaitFacts
<1>5. LayoutOf(mm, exits, RailBasicBlocks, trace)
  <2>1. LayoutOf(LinkedMemory(Lookup(key)), exits, RailBasicBlocks, trace)
    BY <1>3, <1>4, LinkedMemoryLaid
  <2> QED BY <1>1, <2>1
<1>6. Laid(mm) /\ TracesLaid(mm, RailBasicBlocks)
  BY <1>5, LayoutParts
<1>7. /\ next = RailBasicBlocks[key] /\ next.firstAddr = key
      /\ StartsAt(mm, next.startLocationInCache)
  BY <1>1, <1>4, <1>6 DEF Lookup, TracesLaid, TraceLaid
<1>8. ip' = next.startLocationInCache
  BY <1>2, <1>4 DEF ReturnVal
<1>9. ip' \in DOMAIN mm /\ mm[ip'].k = "restore"
  BY <1>7, <1>8 DEF StartsAt
<1>10. gpc = key
  BY <1>1, <1>2, <1>3 DEF HostPlace
<1>11. PICK bba : bba = frame.currentBasicBlock.basicBlockAddress
  OBVIOUS
<1>12. RailBasicBlocks' \in {RailBasicBlocks, [RailBasicBlocks EXCEPT ![key].basicBlockAddress = bba]}
  BY <1>2, <1>11 DEF AdoptSegment
<1>13. /\ key \in DOMAIN RailBasicBlocks'
       /\ RailBasicBlocks'[key].startLocationInCache = next.startLocationInCache
  <2>1. next \in Block
    BY <1>3, <1>4, <1>7 DEF TraceTypes
  <2> QED BY <1>4, <1>7, <1>12, <2>1 DEF Block
<1> QED BY <1>2, <1>6, <1>7, <1>8, <1>9, <1>10, <1>13

(* and the guest's registers to their places.                              *)
LEMMA StubEnterPlace ==
  ASSUME PlaceHyp, TraceStub_Enter
  PROVE  PlaceInv' /\ Unnoticed
<1>1. PICK next, mm : next = Lookup(frame.nextBlockAddr) /\ mm = memory'
  OBVIOUS
<1>2. /\ regs' = [regs EXCEPT !.t6 = CacheAddr(ip')]
      /\ UNCHANGED <<slot, t6Saved, text, tool, served, status, linked, sp>>
  BY <1>1 DEF TraceStub_Enter, EnterCacheAt, NoTraceStep
<1>3. /\ phase = "stubWait" /\ phase' = "run" /\ ip' = next.startLocationInCache
      /\ Laid(mm) /\ ip' \in DOMAIN mm /\ mm[ip'].k = "restore"
      /\ gpc' = gpc /\ currentBB' = gpc /\ gpc \in DOMAIN RailBasicBlocks'
      /\ RailBasicBlocks'[gpc].startLocationInCache = next.startLocationInCache
  BY <1>1, StubEntersTrace
<1>4. /\ DispatcherTypeOK /\ sp = 0 /\ linked = FALSE /\ t6Saved
      /\ TraceArchRegs = regs /\ regs.t6 = slot
  BY <1>3, HostHere
<1>5. AtTraceStart'
  BY <1>2, <1>3, <1>4 DEF AtTraceStart
<1>6. DOMAIN RailBasicBlocks' # {}
  BY <1>3
<1>7. PlaceInv'
  BY <1>1, <1>2, <1>3, <1>4, <1>5, <1>6, EnteredPlace
<1>8. TraceArchRegs' = TraceArchRegs
  <2>1. TraceArchRegs' = [regs' EXCEPT !.t6 = slot]
    BY <1>2, <1>4, SavedArch
  <2>2. regs \in [Reg -> Int] /\ "t6" \in Reg
    BY <1>4 DEF DispatcherTypeOK, Reg
  <2> QED BY <1>2, <1>4, <2>1, <2>2
<1> QED BY <1>2, <1>3, <1>7, <1>8 DEF Unnoticed

(* Meanwhile the allocator lets the guest wait where it is.                *)
LEMMA AllocatePlace ==
  ASSUME PlaceHyp, AllocateTraceStep, TraceTypes', TracesFit'
  PROVE  PlaceInv' /\ Unnoticed
<1>1. /\ trace.busy /\ (status' = IF Len(memory') > CacheSize THEN "crashed" ELSE status)
      /\ UNCHANGED <<text, phase, regs, slot, t6Saved, gpc, served, linked, frame>>
  BY DEF AllocateTraceStep, TraceStep, TraceBranch, TraceJump, TraceLastJump, TraceJalr,
         TraceSystem, TraceInstruction, TraceTextEnd, TraceAt, history
<1>2. ExtentInv /\ TraceControlInv /\ status = "running"
  BY DEF PlaceHyp, PathHyp
<1>3. phase \in {"initWait", "stubWait"}
  BY <1>1, <1>2, ExtentInvParts DEF ExtentParts, InPlainTrace
<1>4. HostPlace /\ linked = FALSE
  BY <1>3, HostHere
<1>5. status' = status
  <2>1. Len(memory') <= CacheSize /\ Len(memory') \in Nat /\ CacheSize \in Nat
    BY CacheAssumption DEF TracesFit, TraceTypes
  <2>2. ~(Len(memory') > CacheSize)
    BY ONLY <2>1
  <2> QED BY <1>1, <2>2
<1>6. HostPlace'
  BY <1>1, <1>3, <1>4 DEF HostPlace
<1>7. PlaceInv'
  BY <1>1, <1>3, <1>4, <1>6 DEF PlaceInv
<1>8. TraceArchRegs' = TraceArchRegs
  BY <1>1 DEF TraceArchRegs
<1> QED BY <1>1, <1>5, <1>7, <1>8 DEF Unnoticed

LEMMA TraceStutterPlace ==
  ASSUME PlaceInv, UNCHANGED allVars
  PROVE  PlaceInv' /\ Unnoticed
<1>1. /\ UNCHANGED <<memory, text, tool, RailBasicBlocks, program_counter, currentBB, trace,
                     status, phase, frame, ip, linked, passed, followed, regs, slot, sp, t6Saved,
                     gpc, lastInstAddress, taken, served>>
  BY DEF allVars, vars, cacheVars, dispatcherVars, traceVars, traceHistory, history
<1>2. TraceArchRegs' = TraceArchRegs
  BY <1>1 DEF TraceArchRegs
<1>3. Segmented' <=> Segmented
  BY <1>1 DEF Segmented, TraceSegmentsAfter, InText, Plain
<1>4. AtSegmentEnd' <=> AtSegmentEnd
  BY <1>1 DEF AtSegmentEnd
<1>5. SequencePlace => SequencePlace'
  BY <1>1, <1>4 DEF SequencePlace, AtTraceStart, SegmentExit, PlaceAt, AddrAt, OpenEnd, NextOf
<1>6. \A n \in DOMAIN memory : InsideExit(n)' => InsideExit(n)
  BY <1>1 DEF InsideExit, ExitLength
<1>7. \A n \in DOMAIN memory : ExitPlace(n) => ExitPlace(n)'
  BY <1>1, <1>2, <1>4 DEF ExitPlace, Decided
<1>8. CachePlace => CachePlace'
  BY <1>1, <1>5, <1>6, <1>7 DEF CachePlace, AtRoot, AtEntry, Begins
<1>9. HostPlace => HostPlace'
  BY <1>1, <1>2, <1>4 DEF HostPlace, AtEntry, StubPlace, Decided
<1> QED BY <1>1, <1>2, <1>3, <1>8, <1>9 DEF PlaceInv, Unnoticed

LEMMA TraceHostStepPlace ==
  ASSUME PlaceHyp, TraceHostStep
  PROVE  PlaceInv' /\ (Unnoticed \/ RetiresOne \/ ServesOne \/ ExitsAsTold \/ Faults)
BY InitAllocatePlace, InitEnterPlace, StubTransferPlace, StubSegmentPlace, StubEmulatePlace,
   NoForwardHere, StubExitPlace, StubEnterPlace, GiveUpPlace DEF TraceHostStep

(* Once the process has ended nothing happens.                             *)
LEMMA HaltedStays ==
  ASSUME status # "running", [TraceNext]_allVars
  PROVE  UNCHANGED allVars
<1>1. ~RunTraceStep
  BY DEF RunTraceStep, RunOldWord, RunOldCrash, RunSave, RunOldSwitch, RunTraceSwitch,
     RunTraceLi, RunSdPc, RunTraceBranch, RunPopSp, RunLink, RunLiRd, RunFollowed,
     RunRestoreScratch, RunLi, RunGuestWord, RunEcall, RunJumpInCache, RunCrash,
     RunInlineSave, RunSwitch, At
<1>2. ~TraceHostStep
  BY DEF TraceHostStep, TraceInit_Allocate, TraceInit_Enter, Init_Enter, TraceStub_Transfer,
     TraceStub_Segment, TraceStub_Emulate, TraceStub_Forward, TraceStub_Exit,
     TraceStub_Enter, TraceStub_GiveUp, InStub
<1>3. ~AllocateTraceStep
  BY DEF AllocateTraceStep
<1>4. TraceHalted => UNCHANGED allVars
  BY DEF TraceHalted, Halted, allVars
<1> QED BY <1>1, <1>2, <1>3, <1>4 DEF TraceNext

GuestStep ==
  \/ Unnoticed \/ RetiresOne \/ ServesOne \/ ExitsAsTold \/ Faults \/ Stops

(* Every step keeps the guest's place.                                     *)
LEMMA TraceNextPlaces ==
  ASSUME TraceInv, ExtentInv, PathInv, PlaceInv, PlainText, LinksAsMeant,
         [TraceNext]_allVars, TraceTypes', TracesFit'
  PROVE  PlaceInv' /\ (IF status = "running" THEN GuestStep ELSE Unnoticed)
<1>1. CASE UNCHANGED allVars
  BY <1>1, TraceStutterPlace DEF GuestStep
<1>2. CASE status # "running"
  BY <1>2, HaltedStays, TraceStutterPlace
<1>3. CASE status = "running" /\ TraceNext
  <2>1. PlaceHyp
    BY <1>3, TraceInvParts DEF PlaceHyp, PathHyp, PlainText
  <2>2. ~TraceHalted
    BY <1>3 DEF TraceHalted, Halted
  <2> QED BY <1>3, <2>1, <2>2, RunTraceStepPlace, TraceHostStepPlace, AllocatePlace
          DEF TraceNext, GuestStep
<1> QED BY <1>1, <1>2, <1>3

(* At first the guest is at its entry, root before it.                     *)
LEMMA TraceInitPlaces == TraceInit => PlaceInv
<1> SUFFICES ASSUME TraceInit PROVE PlaceInv
  OBVIOUS
<1>1. /\ DOMAIN RailBasicBlocks = {} /\ program_counter = 1 /\ gpc = 1 /\ ip = 1 /\ sp = 0
      /\ t6Saved /\ linked = FALSE /\ phase = "run" /\ memory = Li(InitSwitch) \o JalrT6
  BY DEF TraceInit, Init, CacheInit
<1>2. CachePlace
  BY <1>1 DEF CachePlace, AtRoot, AtEntry
<1> QED BY <1>1, <1>2 DEF PlaceInv

-----------------------------------------------------------------------------
(* The refinement.                                                         *)

(* The bare machine runs what lies before the last word.                   *)
LEMMA TraceNativeText ==
  ASSUME text \in Seq(Inst)
  PROVE  /\ TraceNative!InText <=> InText(gpc)
         /\ InText(gpc) => TraceReadable(text)[gpc] = text[gpc]
         /\ \A i, a, rs : TraceNative!Target(i, a, rs) = Target(i, a, rs)
         /\ \A i, a, rs : TraceNative!Execute(i, a, rs) = Execute(i, a, rs)
<1> DEFINE m == Len(text) - 1
<1>1. Len(text) \in Nat /\ m \in Int
  OBVIOUS
<1>2. /\ Len(TraceReadable(text)) = IF 1 <= m THEN m ELSE 0
      /\ \A k \in 1..m : TraceReadable(text)[k] = text[k]
  BY <1>1 DEF TraceReadable
<1>3. TraceNative!InText <=> InText(gpc)
  BY <1>1, <1>2 DEF TraceNative!InText, InText
<1>4. \A i, a, rs : TraceNative!Target(i, a, rs) = Target(i, a, rs)
  BY DEF TraceNative!Target, TraceNative!BranchTaken, TraceNative!RegValue, TraceNative!Reg,
         Target, BranchTaken, RegValue, Reg
<1>5. \A i, a, rs : TraceNative!Execute(i, a, rs) = Execute(i, a, rs)
  BY DEF TraceNative!Execute, TraceNative!WritesRd, TraceNative!Result, TraceNative!Reg,
         Execute, WritesRd, Result, Reg
<1> QED BY <1>2, <1>3, <1>4, <1>5 DEF InText

LEMMA TraceNativeInit ==
  ASSUME TraceInit
  PROVE  TraceNative!Init
<1>1. TraceReadable(text) \in {TraceReadable(s.text) : s \in Setups}
  BY DEF TraceInit, Init, CacheInit
<1>2. PICK v \in InitialRegs : regs = [r \in Reg |-> IF r = "t6" THEN 0 ELSE v]
  BY DEF TraceInit, Init
<1>3. TraceArchRegs \in [Reg -> InitialRegs]
  BY <1>2 DEF TraceInit, Init, TraceArchRegs
<1>4. gpc = 1 /\ served = 0 /\ status = "running"
  BY DEF TraceInit, Init
<1> QED BY <1>1, <1>3, <1>4 DEF TraceNative!Init, TraceNative!Entry, TraceNative!Reg, Reg

(* What a step is to the guest, it is to the bare machine.                 *)
LEMMA TraceNativeStep ==
  ASSUME text \in Seq(Inst), IF status = "running" THEN GuestStep ELSE Unnoticed
  PROVE  [TraceNative!Next]_TraceNative!vars
<1> DEFINE s == IF status = "crashed" /\ LeftText THEN "faulted" ELSE status
<1>1. /\ TraceNative!InText <=> InText(gpc)
      /\ InText(gpc) => TraceReadable(text)[gpc] = text[gpc]
      /\ \A i, a, rs : TraceNative!Target(i, a, rs) = Target(i, a, rs)
      /\ \A i, a, rs : TraceNative!Execute(i, a, rs) = Execute(i, a, rs)
  BY TraceNativeText
<1>2. CASE Unnoticed
  <2>1. TraceReadable(text)' = TraceReadable(text) /\ s' = s
    BY <1>2 DEF Unnoticed, TraceReadable, LeftText
  <2> QED BY <1>2, <2>1 DEF Unnoticed, TraceNative!vars
<1>3. CASE status = "running" /\ RetiresOne
  <2>1. TraceReadable(text)' = TraceReadable(text) /\ s' = "running" /\ s = "running"
    BY <1>3 DEF RetiresOne, TraceReadable
  <2>2. TraceNative!Retire
    BY <1>1, <1>3, <2>1 DEF RetiresOne, TraceNative!Retire
  <2> QED BY <2>2 DEF TraceNative!Next
<1>4. CASE status = "running" /\ ServesOne
  <2>1. TraceReadable(text)' = TraceReadable(text) /\ s' = "running" /\ s = "running"
    BY <1>4 DEF ServesOne, TraceReadable
  <2>2. TraceNative!Serve
    BY <1>1, <1>4, <2>1 DEF ServesOne, TraceNative!Serve
  <2> QED BY <2>2 DEF TraceNative!Next
<1>5. CASE status = "running" /\ ExitsAsTold
  <2>1. TraceReadable(text)' = TraceReadable(text) /\ s' = "exited" /\ s = "running"
    BY <1>5 DEF ExitsAsTold, TraceReadable
  <2>2. TraceNative!Exit
    BY <1>1, <1>5, <2>1 DEF ExitsAsTold, TraceNative!Exit
  <2> QED BY <2>2 DEF TraceNative!Next
<1>6. CASE status = "running" /\ (Faults \/ Stops)
  <2>1. TraceReadable(text)' = TraceReadable(text) /\ s = "running"
    BY <1>6 DEF Faults, Stops, TraceReadable
  <2>2. LeftText'
    BY <1>6 DEF Faults, Stops, LeftText, InText
  <2>3. s' = "faulted"
    BY <1>6, <2>2 DEF Faults, Stops
  <2>4. TraceNative!Fault
    BY <1>1, <1>6, <2>1, <2>3 DEF Faults, Stops, TraceNative!Fault
  <2> QED BY <2>4 DEF TraceNative!Next
<1> QED BY <1>2, <1>3, <1>4, <1>5, <1>6 DEF GuestStep

(* The engine with trace linking implements the bare machine: for a text   *)
(* of instructions without forwarded ECALLs or lost loads, as long as only *)
(* branches are linked, no segments come with links and the traces fit the *)
(* mapping, every step - of the processor through joined blocks, exits and *)
(* links, of the dispatcher, of allocateTrace - is invisible or retires    *)
(* exactly the instruction the guest is at, as the hardware would.         *)
THEOREM TracesImplementNative ==
  TraceSpec /\ PlainText /\ []LinksAsMeant => TracesImplementGuestMachine
<1> DEFINE I == TraceInv /\ ExtentInv /\ PathInv /\ PlaceInv /\ PlainText
<1>1. TraceInit /\ PlainText => I /\ TraceNative!Init
  BY TraceInitKeeps, TraceInitWithin, TraceInitPaths, TraceInitPlaces, TraceNativeInit
<1>2. I /\ LinksAsMeant /\ LinksAsMeant' /\ [TraceNext]_allVars
        => I' /\ [TraceNative!Next]_TraceNative!vars
  <2> SUFFICES ASSUME I, LinksAsMeant, LinksAsMeant', [TraceNext]_allVars
               PROVE  I' /\ [TraceNative!Next]_TraceNative!vars
    OBVIOUS
  <2>1. TraceInv'
    BY TraceNextKeeps
  <2>2. TraceTypes' /\ TraceTypes
    BY <2>1, TraceInvParts, PTL
  <2>3. NoForwardedEcalls
    BY DEF PlainText
  <2>4. ExtentInv' /\ PathInv'
    BY <2>3, TraceNextWithin, TraceNextPaths
  <2>5. PlaceInv' /\ (IF status = "running" THEN GuestStep ELSE Unnoticed)
    BY <2>2, TraceNextPlaces DEF LinksAsMeant
  <2>6. PlainText'
    BY TraceTextStays DEF PlainText, NoForwardedEcalls, NoHoles, NoLostLoads, InText
  <2>7. [TraceNative!Next]_TraceNative!vars
    BY <2>2, <2>5, TraceNativeStep DEF TraceTypes
  <2> QED BY <2>1, <2>4, <2>5, <2>6, <2>7
<1>3. TraceSpec /\ PlainText /\ []LinksAsMeant => TraceNative!Spec
  BY <1>1, <1>2, PTL DEF TraceSpec, TraceNative!Spec
<1> QED BY <1>3 DEF TracesImplementGuestMachine

-----------------------------------------------------------------------------
(* What has been called: counts and places.                                *)

LEMMA CountIn ==
  ASSUME NEW types, NEW x
  PROVE  Cardinality(types \cap {x}) = One(x \in types)
<1>1. CASE x \in types
  <2>1. types \cap {x} = {x}
    BY <1>1
  <2> QED BY <1>1, <2>1, FS_Singleton DEF One
<1>2. CASE x \notin types
  <2>1. types \cap {x} = {}
    BY <1>2
  <2> QED BY <1>2, <2>1, FS_EmptySet DEF One
<1> QED BY <1>1, <1>2

(* Before an instruction only the routines for all instructions run.       *)
LEMMA PreWanted ==
  ASSUME NEW b, NEW a
  PROVE  TraceWanted(b, {}, a) = Times(One(b), a)
<1>1. TraceApplicable({}, text[a]) = {}
  BY DEF TraceApplicable
<1>2. Cardinality({}) = 0 /\ One(b) \in Nat
  BY FS_EmptySet, OneType
<1>3. One(b) + Cardinality(TraceApplicable({}, text[a])) = One(b)
  BY <1>1, <1>2
<1> QED BY <1>3 DEF TraceWanted

(* An instruction that ends no segment wants no call.                      *)
LEMMA NoneWanted ==
  ASSUME NEW a, Plain(text[a]), ~TraceSegmentsAfter(text[a])
  PROVE  /\ TraceWanted(tool.instPost, tool.typedPost, a) = << >>
         /\ Times(One(tool.instPre), gpc') = << >>
<1>1. ~tool.instPre /\ ~tool.instPost
  BY DEF TraceSegmentsAfter
<1>2. TraceApplicable(tool.typedPost, text[a]) = {}
  BY DEF TraceApplicable, TraceSegmentsAfter, Plain, ControlOp
<1>3. One(tool.instPre) = 0 /\ One(tool.instPost) = 0 /\ Cardinality({}) = 0
  BY <1>1, FS_EmptySet DEF One
<1>4. One(tool.instPost) + Cardinality(TraceApplicable(tool.typedPost, text[a])) = 0
  BY <1>2, <1>3
<1> QED BY <1>3, <1>4, NoTimes DEF TraceWanted

(* Without routines, none does.                                            *)
LEMMA NoneRegistered ==
  ASSUME NoRoutines
  PROVE  /\ \A a : TraceWanted(tool.instPost, tool.typedPost, a) = << >>
         /\ \A a : Times(One(tool.instPre), a) = << >>
         /\ ~Segmented
<1>1. One(tool.instPre) = 0 /\ One(tool.instPost) = 0 /\ Cardinality({}) = 0
  BY FS_EmptySet DEF One, NoRoutines
<1>2. ASSUME NEW a PROVE TraceWanted(tool.instPost, tool.typedPost, a) = << >>
  <2>1. TraceApplicable(tool.typedPost, text[a]) = {}
    BY DEF TraceApplicable, NoRoutines
  <2>2. One(tool.instPost) + Cardinality(TraceApplicable(tool.typedPost, text[a])) = 0
    BY <1>1, <2>1
  <2> QED BY <2>2, NoTimes DEF TraceWanted
<1>3. ~Segmented
  BY DEF Segmented, TraceSegmentsAfter, NoRoutines
<1> QED BY <1>1, <1>2, <1>3, NoTimes

(* What stub calls behind an instruction.                                  *)
LEMMA ServedAsWanted ==
  ASSUME RoutinesServed, text \in Seq(Inst), NEW a, InText(a)
  PROVE  /\ text[a].op # "SYSTEM" =>
              Times(NumPostCalls(text[a]), a) = TraceWanted(tool.instPost, tool.typedPost, a)
         /\ text[a].op = "SYSTEM" =>
              /\ Times(NumSystemCalls(tool.typedPost) + NumPostCalls(text[a]), a)
                   = TraceWanted(tool.instPost, tool.typedPost, a)
              /\ Times(NumSystemCalls(tool.typedPre), a) = << >>
<1>1. PICK i : i = text[a]
  OBVIOUS
<1>2. a \in DOMAIN text /\ i \in Inst
  BY <1>1 DEF InText
<1>3. /\ i.op \in MemoryOp \cup {"SYSTEM"} => getType(i.op) \notin tool.typedPost
      /\ i.op = "SYSTEM" => "SYSTEM" \notin tool.typedPre
  BY <1>1, <1>2 DEF RoutinesServed
<1>4. PICK p, t, m, s, c : /\ p = One(tool.instPost) /\ t = One(getType(i.op) \in tool.typedPost)
                           /\ m = One("MEM_ACCESS" \in tool.typedPost)
                           /\ s = One("SYSTEM" \in tool.typedPost)
                           /\ c = Cardinality(TraceApplicable(tool.typedPost, i))
  OBVIOUS
<1>5. p \in Nat /\ t \in Nat /\ m \in Nat /\ s \in Nat
  BY <1>4, OneType
<1>6. c = IF i.op \in MemoryOp THEN m ELSE IF i.op = "SYSTEM" THEN s ELSE t
  BY <1>4, CountIn DEF TraceApplicable
<1>7. i.op \in MemoryOp \cup {"SYSTEM"} => t = 0
  BY <1>3, <1>4 DEF One
<1>8. NumPostCalls(i) = p + t + (IF i.op \in MemoryOp THEN m ELSE 0)
  BY <1>4 DEF NumPostCalls, One
<1>9. i.op # "SYSTEM" => NumPostCalls(i) = p + c
  BY <1>5, <1>6, <1>7, <1>8
<1>10. i.op = "SYSTEM" => NumSystemCalls(tool.typedPost) + NumPostCalls(i) = p + c
  <2> SUFFICES ASSUME i.op = "SYSTEM" PROVE s + NumPostCalls(i) = p + c
    BY <1>4 DEF NumSystemCalls
  <2>1. i.op \notin MemoryOp
    BY DEF MemoryOp
  <2>2. NumPostCalls(i) = p + 0 + 0 /\ c = s
    BY <1>6, <1>7, <1>8, <2>1
  <2> QED BY <1>5, <2>2
<1>11. i.op = "SYSTEM" => NumSystemCalls(tool.typedPre) = 0
  BY <1>3 DEF NumSystemCalls, One
<1> QED BY <1>1, <1>4, <1>9, <1>10, <1>11, NoTimes DEF TraceWanted

(* Where the exit of a segment is.                                         *)
LEMMA SegmentBegins ==
  ASSUME NEW m, Laid(m), NEW i, Begins(m, i)
  PROVE  InSegmentExit(m, i) <=> SegmentExit(m, i)
<1>1. ASSUME SegmentExit(m, i) PROVE InSegmentExit(m, i)
  <2>1. i \in DOMAIN m /\ i \in Int
    BY <1>1, WordOfLaid DEF SegmentExit
  <2> QED BY <1>1, <2>1 DEF InSegmentExit
<1>2. ASSUME InSegmentExit(m, i) PROVE SegmentExit(m, i)
  <2>1. PICK n \in DOMAIN m : SegmentExit(m, n) /\ i \in n..(n + 5)
    BY <1>2 DEF InSegmentExit
  <2>2. m[n].k = "save" /\ ExitLength(m, n) = 6 /\ n \in Int
    BY <2>1, WordOfLaid DEF SegmentExit, ExitLength
  <2>3. i \notin (n + 1)..(n + ExitLength(m, n) - 1)
    BY <2>2, NoneInside
  <2>4. i = n
    BY <2>1, <2>2, <2>3
  <2> QED BY <2>1, <2>4
<1> QED BY <1>1, <1>2

LEMMA SegmentInside ==
  ASSUME NEW m, Laid(m), NEW n \in DOMAIN m, m[n].k = "save",
         NEW i \in (n + 1)..(n + ExitLength(m, n) - 1)
  PROVE  InSegmentExit(m, i) <=> m[n + 2].k = "li"
<1>1. n \in Int
  BY WordOfLaid
<1>2. ASSUME m[n + 2].k = "li" PROVE InSegmentExit(m, i)
  <2>1. ExitLength(m, n) = 6 /\ SegmentExit(m, n)
    BY <1>2 DEF ExitLength, SegmentExit
  <2>2. i \in n..(n + 5)
    BY <1>1, <2>1
  <2> QED BY <2>1, <2>2 DEF InSegmentExit
<1>3. ASSUME InSegmentExit(m, i) PROVE m[n + 2].k = "li"
  <2>1. PICK k \in DOMAIN m : SegmentExit(m, k) /\ i \in k..(k + 5)
    BY <1>3 DEF InSegmentExit
  <2>2. m[k].k = "save" /\ ExitLength(m, k) = 6 /\ k \in Int
    BY <2>1, WordOfLaid DEF SegmentExit, ExitLength
  <2>3. i \in k..(k + ExitLength(m, k) - 1)
    BY <2>1, <2>2
  <2>4. k = n
    BY <2>2, <2>3, ExitsApart
  <2> QED BY <2>1, <2>4 DEF SegmentExit
<1> QED BY <1>2, <1>3

-----------------------------------------------------------------------------
(* What has been called: the cache.                                        *)

CallsHyp == PlaceHyp /\ RoutinesServed /\ TraceRoutinesRun /\ CallsPlace

CallsKept == TraceRoutinesRun' /\ (status' = "running" => CallsPlace')

Uncalled == UNCHANGED <<text, tool, retired, preCalls, postCalls>>

(* Nothing retires, nothing is called.                                     *)
LEMMA RunKept ==
  ASSUME TraceRoutinesRun, UNCHANGED <<text, tool, retired>>
  PROVE  TraceRoutinesRun'
BY DEF TraceRoutinesRun, TraceWanted, TraceApplicable

LEMMA CallsStay ==
  ASSUME CallsHyp, Uncalled, gpc' = gpc, LeavingSegment' <=> LeavingSegment,
         ~LeavingSegment => (NotYetEntered' <=> NotYetEntered)
  PROVE  CallsKept
<1>1. TraceRoutinesRun'
  BY RunKept DEF CallsHyp, Uncalled
<1>2. CASE LeavingSegment
  BY <1>1, <1>2 DEF CallsKept, CallsHyp, CallsPlace, Uncalled, InText, Plain
<1>3. CASE ~LeavingSegment
  <2>1. PostDue' = PostDue /\ PreDue' = PreDue
    BY DEF Uncalled, PostDue, PreDue, TraceWanted, TraceApplicable
  <2> QED BY <1>1, <1>3, <2>1 DEF CallsKept, CallsHyp, CallsPlace, Uncalled, InText
<1> QED BY <1>2, <1>3

(* The processor stays in the cache.                                       *)
LEMMA InCacheStep ==
  ASSUME phase = "run", CacheKept
  PROVE  /\ LeavingSegment  <=> InSegmentExit(memory, ip)
         /\ LeavingSegment' <=> InSegmentExit(memory, ip')
         /\ NotYetEntered' <=> NotYetEntered
         /\ NotYetEntered <=> DOMAIN RailBasicBlocks = {}
BY DEF CacheKept, LeavingSegment, NotYetEntered, InSegmentExit, SegmentExit

(* In allocateRoot's words there is no exit.                               *)
LEMMA RootNoSegment ==
  ASSUME AtRoot, NEW i
  PROVE  ~InSegmentExit(memory, i)
<1>1. memory = <<W("li", 0, InitSwitch), Cont, Cont>> \o <<W("jalrT6", 0, 0)>>
  BY DEF AtRoot, Li, JalrT6
<1>2. PICK h : h = InitSwitch
  OBVIOUS
<1>3. DOMAIN memory = 1..4 /\ memory[1] = W("li", 0, h) /\ memory[2] = Cont
      /\ memory[3] = Cont /\ memory[4] = W("jalrT6", 0, 0)
  BY <1>1, <1>2
<1>4. \A n \in DOMAIN memory : memory[n].k \in {"li", "cont", "jalrT6"}
  BY <1>3, TraceWordFields, ContWord
<1> QED BY <1>4 DEF InSegmentExit, SegmentExit

(* The instruction the guest is at retires in its place.                   *)
LEMMA RetiresCalled ==
  ASSUME CallsHyp, ~LeavingSegment, ~NotYetEntered, NEW a, a = gpc, InText(a),
         retired' = Retirement(a, preCalls), UNCHANGED <<text, tool>>
  PROVE  TraceRoutinesRun' /\ retired'.addr = a
<1>1. preCalls = PreDue /\ postCalls = PostDue /\ TraceRoutinesRun
  BY DEF CallsHyp, CallsPlace
<1>2. /\ retired'.addr = a /\ retired'.pre = preCalls
      /\ retired'.prev = retired.addr /\ retired'.post = postCalls
  BY DEF Retirement
<1>3. retired'.pre = TraceWanted(tool.instPre, {}, a)
  BY <1>1, <1>2, PreWanted DEF PreDue
<1>4. retired.addr # 0 =>
        postCalls = TraceWanted(tool.instPost, tool.typedPost, retired.addr)
  BY <1>1 DEF PostDue
<1> QED BY <1>2, <1>3, <1>4 DEF TraceRoutinesRun, TraceWanted, TraceApplicable

(* A word of a trace is in no exit; what follows it is the exit of a       *)
(* segment only if it is the last instruction's.                           *)
LEMMA StepCalls ==
  ASSUME PlaceHyp, phase = "run", CacheKept, ip \in DOMAIN memory,
         memory[ip].k \in StepKind, Begins(memory, ip), ip' = NextOf(memory, ip)
  PROVE  /\ ~LeavingSegment
         /\ LeavingSegment' <=> SegmentExit(memory, ip')
         /\ LeavingSegment' => memory[ip].k \in PlainWord
<1>1. PICK m, q, n : m = memory /\ q = ip' /\ n = ip
  OBVIOUS
<1>2. Laid(m) /\ PathsOf(m, program_counter, followed, RailBasicBlocks)
  BY <1>1, PlaceParts
<1>3. Begins(m, q)
  BY <1>1, <1>2, StepBounds
<1>4. ~SegmentExit(m, n)
  BY <1>1 DEF SegmentExit, StepKind, StraightKind
<1>5. ~InSegmentExit(m, n) /\ (InSegmentExit(m, q) <=> SegmentExit(m, q))
  BY <1>1, <1>2, <1>3, <1>4, SegmentBegins
<1>6. Leads(m, program_counter, followed, m[n], q)
  BY <1>1, <1>2 DEF PathsOf
<1>7. SegmentExit(m, q) => m[n].k \in PlainWord
  BY <1>6 DEF Leads
<1> QED BY <1>1, <1>5, <1>7, InCacheStep

LEMMA RestoreCalls ==
  ASSUME CallsHyp, RunOldWord, RunRestoreScratch
  PROVE  CallsKept
<1>1. /\ phase = "run" /\ ip \in DOMAIN memory /\ memory[ip].k = "restore"
      /\ ip' = ip + 1 /\ CacheKept /\ gpc' = gpc /\ Uncalled
  BY DEF RunRestoreScratch, At, word, cacheVars, CacheKept, RunOldWord, Moves, traceVars,
         RestoreScratch, Uncalled
<1>2. PlaceHyp
  BY DEF CallsHyp
<1>3. memory[ip].k \in StepKind /\ ip' = NextOf(memory, ip)
  BY <1>1 DEF StepKind, StraightKind, NextOf, StraightLength
<1>4. Begins(memory, ip)
  BY <1>1, <1>2, SequenceHere DEF StraightKind
<1>5. ~LeavingSegment /\ ~LeavingSegment'
  BY <1>1, <1>2, <1>3, <1>4, StepCalls DEF PlainWord
<1>6. NotYetEntered' <=> NotYetEntered
  BY <1>1, InCacheStep
<1> QED BY <1>1, <1>5, <1>6, CallsStay

LEMMA OldLiCalls ==
  ASSUME CallsHyp, RunOldWord, RunLi
  PROVE  CallsKept
<1>1. /\ phase = "run" /\ ip \in DOMAIN memory /\ CacheKept /\ ip' = ip + 3
      /\ gpc' = gpc /\ Uncalled /\ word.k \in {"li", "liT5"}
  BY LengthTypes DEF RunLi, At, cacheVars, CacheKept, Moves, traceVars, RunOldWord, history,
                     Uncalled
<1>2. PlaceHyp
  BY DEF CallsHyp
<1>3. TraceTypes /\ LayoutInv /\ InCache /\ Laid(memory)
  BY <1>1, <1>2, PlaceParts
<1>4. word.k = "li"
  <2>1. word.k \in StraightKind \cup ExitKind \cup {"save"}
    BY <1>1, <1>3, WhereWord
  <2> QED BY <1>1, <2>1 DEF StraightKind, ExitKind
<1>5. InSegmentExit(memory, ip') <=> InSegmentExit(memory, ip)
  <2>1. CASE AtRoot
    BY <2>1, RootNoSegment
  <2>2. CASE \E n : InSwitch(n) /\ ip = n + 2
    <3>1. PICK n : InSwitch(n) /\ ip = n + 2
      BY <2>2
    <3>2. /\ n \in DOMAIN memory /\ n \in Int /\ memory[n].k = "save"
          /\ memory[n + 2].k = "li" /\ ExitLength(memory, n) = 6
      BY <1>1, <1>2, <3>1, SwitchHere
    <3>3. /\ ip  \in (n + 1)..(n + ExitLength(memory, n) - 1)
          /\ ip' \in (n + 1)..(n + ExitLength(memory, n) - 1)
      BY <1>1, <3>1, <3>2
    <3>4. PICK m, i, j : m = memory /\ i = ip /\ j = ip'
      OBVIOUS
    <3>5. InSegmentExit(m, i) /\ InSegmentExit(m, j)
      BY <1>3, <3>2, <3>3, <3>4, SegmentInside
    <3> QED BY <3>4, <3>5
  <2> QED BY <1>1, <1>3, <1>4, <2>1, <2>2, WhereWord
<1>6. /\ LeavingSegment' <=> LeavingSegment
      /\ NotYetEntered' <=> NotYetEntered
  BY <1>1, <1>5, InCacheStep
<1> QED BY <1>1, <1>6, CallsStay

(* Into an exit.                                                           *)
LEMMA SaveCalls ==
  ASSUME CallsHyp, RunSave
  PROVE  CallsKept
<1>1. PICK n, m, j : n = ip /\ m = memory /\ j = ip'
  OBVIOUS
<1>2. /\ phase = "run" /\ n \in DOMAIN m /\ m[n].k = "save" /\ CacheKept
      /\ j = n + 2 /\ gpc' = gpc /\ Uncalled
  BY <1>1, LengthTypes DEF RunSave, RunInlineSave, At, word, cacheVars, CacheKept, Moves,
                           traceVars, Uncalled
<1>3. PlaceHyp
  BY DEF CallsHyp
<1>4. Laid(m) /\ DOMAIN m = 1..Len(m) /\ Len(m) \in Nat
  BY <1>1, <1>2, <1>3, PlaceParts
<1>5. Begins(m, n)
  BY <1>1, <1>2, <1>3, SequenceHere
<1>6. n \in Int /\ j \in (n + 1)..(n + ExitLength(m, n) - 1)
  <2>1. n \in Int /\ ExitAt(m, n)
    BY <1>2, <1>4 DEF Laid, ExitsLaid
  <2>2. ExitLength(m, n) \in {19, 10, 6}
    BY <1>2, <1>4, <2>1, ExitShape
  <2> QED BY <1>2, <2>1, <2>2
<1>7. InSegmentExit(m, n) <=> m[n + 2].k = "li"
  BY <1>2, <1>4, <1>5, SegmentBegins DEF SegmentExit
<1>8. InSegmentExit(m, j) <=> m[n + 2].k = "li"
  BY <1>2, <1>4, <1>6, SegmentInside
<1>9. /\ LeavingSegment' <=> LeavingSegment
      /\ NotYetEntered' <=> NotYetEntered
  BY <1>1, <1>2, <1>7, <1>8, InCacheStep
<1> QED BY <1>2, <1>9, CallsStay

(* An exit that reports itself is no segment's.                            *)
LEMMA OnSideNoSegment ==
  ASSUME PlaceHyp, phase = "run", NEW n, NEW s, NEW a, NEW h, SideOf(n, s, a, h),
         NEW i \in s..(s + 7)
  PROVE  ~InSegmentExit(memory, i)
<1>1. TraceTypes /\ LayoutInv /\ Laid(memory)
  BY PlaceParts
<1>2. n \in DOMAIN memory /\ n \in Int /\ s \in Int /\ memory[n].k = "save"
  BY <1>1, SideInExit
<1>3. PICK k : k = i - s
  OBVIOUS
<1>4. k \in 0..7 /\ i = s + k
  BY <1>2, <1>3
<1>5. i \in (n + 1)..(n + ExitLength(memory, n) - 1)
  BY <1>1, <1>4, SideInExit
<1>6. memory[n + 2].k # "li"
  BY DEF SideOf
<1>7. PICK m : m = memory
  OBVIOUS
<1>8. ~InSegmentExit(m, i)
  BY <1>1, <1>2, <1>5, <1>6, <1>7, SegmentInside
<1> QED BY <1>7, <1>8

(* Along its sides,                                                        *)
LEMMA SideCalls ==
  ASSUME CallsHyp, RunTraceLi \/ RunSdPc \/ RunPopSp
  PROVE  CallsKept
<1>1. /\ phase = "run" /\ ip \in DOMAIN memory /\ word.k \in SideKind
      /\ CacheKept /\ ip' = ip + 1 /\ gpc' = gpc /\ Uncalled
  BY DEF RunTraceLi, RunSdPc, RunPopSp, At, cacheVars, CacheKept, Moves, traceVars, history,
         Uncalled, SideKind
<1>2. PlaceHyp
  BY DEF CallsHyp
<1>3. TraceTypes /\ LayoutInv /\ InCache
  BY <1>1, <1>2, PlaceParts
<1>4. PICK n, s, a, h : SideOf(n, s, a, h) /\ OnSide(s, a, h)
  BY <1>1, <1>3, WhereWord
<1>5. s \in Int /\ ReportAt(memory, s, a, h) /\ ip \in s..(s + 7)
  BY <1>3, <1>4, SideWords, SideWord
<1>6. memory[s + 7].k \in {"jalrT6", "jal"}
  BY <1>5, ReportWordKinds
<1>7. ip # s + 7
  BY <1>1, <1>6 DEF word, SideKind
<1>8. ip' \in s..(s + 7)
  BY <1>1, <1>5, <1>7
<1>9. ~InSegmentExit(memory, ip) /\ ~InSegmentExit(memory, ip')
  BY <1>1, <1>2, <1>4, <1>5, <1>8, OnSideNoSegment
<1>10. /\ LeavingSegment' <=> LeavingSegment
       /\ NotYetEntered' <=> NotYetEntered
  BY <1>1, <1>9, InCacheStep
<1> QED BY <1>1, <1>10, CallsStay

(* onto one of them,                                                       *)
LEMMA TraceBranchCalls ==
  ASSUME CallsHyp, RunTraceBranch
  PROVE  CallsKept
<1>1. /\ phase = "run" /\ ip \in DOMAIN memory /\ word.k = "traceBranch"
      /\ CacheKept /\ gpc' = gpc /\ Uncalled /\ ip' \in {ip + 9, ip + 1}
  BY DEF RunTraceBranch, At, cacheVars, CacheKept, Moves, traceVars, history, TraceBranchSkip,
         Uncalled
<1>2. PlaceHyp
  BY DEF CallsHyp
<1>3. TraceTypes /\ LayoutInv /\ InCache /\ Laid(memory)
  BY <1>1, <1>2, PlaceParts
<1>4. PICK n : AtDecision(n)
  BY <1>1, <1>3, WhereWord
<1>5. /\ n \in DOMAIN memory /\ n \in Int /\ memory[n].k = "save" /\ ip = n + 2
      /\ memory[n + 2].k = "traceBranch"
  BY <1>3, <1>4 DEF AtDecision, TraceTypes
<1>6. PICK m, i, j : m = memory /\ i = ip /\ j = ip'
  OBVIOUS
<1>7. /\ i \in (n + 1)..(n + ExitLength(m, n) - 1)
      /\ j \in (n + 1)..(n + ExitLength(m, n) - 1)
  <2>1. ExitLength(m, n) = 19
    BY <1>5, <1>6 DEF ExitLength
  <2>2. i = n + 2 /\ (j = n + 11 \/ j = n + 3)
    BY <1>1, <1>5, <1>6
  <2> QED BY <1>5, <2>1, <2>2
<1>8. ~InSegmentExit(m, i) /\ ~InSegmentExit(m, j)
  BY <1>3, <1>5, <1>6, <1>7, SegmentInside
<1>9. /\ LeavingSegment' <=> LeavingSegment
      /\ NotYetEntered' <=> NotYetEntered
  BY <1>1, <1>6, <1>8, InCacheStep
<1> QED BY <1>1, <1>9, CallsStay

(* and out of the cache.                                                   *)
LEMMA OldSwitchCalls ==
  ASSUME CallsHyp, RunOldSwitch
  PROVE  CallsKept
<1>1. /\ phase = "run" /\ lastInstAddress' = 0 /\ gpc' = gpc /\ Uncalled
  BY DEF RunOldSwitch, RunSwitch, At, cacheVars, history, Uncalled
<1>2. PlaceHyp
  BY DEF CallsHyp
<1>3. TraceTypes /\ LayoutInv /\ InCache /\ CachePlace /\ Laid(memory)
  BY <1>1, <1>2, PlaceParts
<1>4. CASE AtRoot /\ phase' = "init"
  <2>1. DOMAIN RailBasicBlocks = {} /\ ~InSegmentExit(memory, ip)
    BY <1>4, RootNoSegment DEF AtRoot
  <2>2. ~LeavingSegment /\ ~LeavingSegment' /\ NotYetEntered /\ NotYetEntered'
    BY <1>1, <1>4, <2>1 DEF LeavingSegment, NotYetEntered
  <2> QED BY <1>1, <2>2, CallsStay
<1>5. CASE (\E n : InSwitch(n) /\ ip = n + 5) /\ phase' = "stub"
  <2>1. PICK n : InSwitch(n) /\ ip = n + 5
    BY <1>5
  <2>2. /\ n \in DOMAIN memory /\ n \in Int /\ memory[n].k = "save"
        /\ memory[n + 2].k = "li"
    BY <1>1, <1>2, <2>1, SwitchHere
  <2>3. InSegmentExit(memory, ip)
    BY <2>1, <2>2 DEF InSegmentExit, SegmentExit
  <2>4. LeavingSegment /\ LeavingSegment'
    BY <1>1, <1>5, <2>3 DEF LeavingSegment
  <2> QED BY <1>1, <2>4, CallsStay
<1> QED BY <1>3, <1>4, <1>5, OldSwitchFrom

LEMMA TraceSwitchCalls ==
  ASSUME CallsHyp, RunTraceSwitch
  PROVE  CallsKept
<1>1. /\ phase = "run" /\ phase' = "stub" /\ lastInstAddress' = lastInst
      /\ gpc' = gpc /\ Uncalled
  BY DEF RunTraceSwitch, At, cacheVars, history, Uncalled
<1>2. PlaceHyp
  BY DEF CallsHyp
<1>3. TraceTypes /\ LayoutInv
  BY <1>1, <1>2, PlaceParts
<1>4. PICK n, s, a, h : /\ SideOf(n, s, a, h) /\ OnSide(s, a, h) /\ ip = s + 7
                        /\ lastInst = a
  BY <1>2, TraceSwitchFrom
<1>5. s \in Int /\ InText(a) /\ a \in Int
  BY <1>3, <1>4, SideWords
<1>6. lastInst # 0 /\ ip \in s..(s + 7)
  BY <1>4, <1>5 DEF InText
<1>7. ~InSegmentExit(memory, ip)
  BY <1>1, <1>2, <1>4, <1>6, OnSideNoSegment
<1>8. DOMAIN RailBasicBlocks # {}
  BY <1>1, <1>2, <1>4, SideHere
<1>9. ~LeavingSegment /\ ~LeavingSegment' /\ ~NotYetEntered /\ ~NotYetEntered'
  BY <1>1, <1>6, <1>7, <1>8 DEF LeavingSegment, NotYetEntered
<1> QED BY <1>1, <1>9, CallsStay

(* When an instruction has retired that wants no call behind it, and none  *)
(* is wanted before the next, none is due.                                 *)
LEMMA NoneDue ==
  ASSUME UNCHANGED <<text, tool>>, NEW a, retired'.addr = a, InText(a),
         TraceWanted(tool.instPost, tool.typedPost, a) = << >>,
         Times(One(tool.instPre), gpc') = << >>,
         preCalls' = << >>, postCalls' = << >>, ~LeavingSegment'
  PROVE  CallsPlace'
<1>1. PostDue' = << >>
  BY DEF PostDue, TraceWanted, TraceApplicable
<1>2. PreDue' = << >>
  BY DEF PreDue
<1> QED BY <1>1, <1>2 DEF CallsPlace, InText

(* An instruction that was copied.                                         *)
LEMMA GuestWordCalls ==
  ASSUME CallsHyp, RunOldWord, RunGuestWord
  PROVE  CallsKept
<1>1. PICK w, a : w = memory[ip] /\ a = memory[ip].a
  OBVIOUS
<1>2. /\ retired' = Retirement(a, preCalls) /\ preCalls' = << >> /\ postCalls' = << >>
      /\ gpc' = a + 1
  BY <1>1 DEF RunGuestWord, RetireInCache, word
<1>3. PlaceHyp
  BY DEF CallsHyp
<1>4. /\ phase = "run" /\ ip \in DOMAIN memory /\ w.k \in PlainWord /\ CacheKept
      /\ DOMAIN RailBasicBlocks # {} /\ Begins(memory, ip)
      /\ gpc = a /\ InText(a) /\ Plain(text[a])
      /\ w.k \in StepKind /\ ip' = NextOf(memory, ip)
  BY <1>1, <1>3, GuestWordHere
<1>5. text' = text /\ tool' = tool
  BY <1>4 DEF CacheKept
<1>6. /\ ~LeavingSegment /\ ~NotYetEntered
      /\ LeavingSegment' <=> SegmentExit(memory, ip')
  BY <1>1, <1>3, <1>4, StepCalls, InCacheStep
<1>7. TraceRoutinesRun' /\ retired'.addr = a
  BY <1>2, <1>4, <1>5, <1>6, RetiresCalled
<1>8. CASE SegmentExit(memory, ip')
  <2>1. a # 0 /\ Plain(text'[a]) /\ InText(a)'
    BY <1>4, <1>5 DEF InText, Plain
  <2>2. CallsPlace'
    BY <1>2, <1>6, <1>7, <1>8, <2>1 DEF CallsPlace, InText, Plain
  <2> QED BY <1>7, <2>2 DEF CallsKept
<1>9. CASE ~SegmentExit(memory, ip')
  <2>1. PathsOf(memory, program_counter, followed, RailBasicBlocks)
    BY <1>3, <1>4, PlaceParts
  <2>2. Leads(memory, program_counter, followed, w, ip')
    BY <1>1, <1>4, <2>1 DEF PathsOf
  <2>3. ~TraceSegmentsAfter(text[a])
    BY <1>1, <1>4, <1>9, <2>2 DEF Leads, PlainWord
  <2>4. /\ TraceWanted(tool.instPost, tool.typedPost, a) = << >>
        /\ Times(One(tool.instPre), gpc') = << >>
    BY <1>4, <2>3, NoneWanted
  <2>5. CallsPlace'
    BY <1>2, <1>4, <1>5, <1>6, <1>7, <1>9, <2>4, NoneDue
  <2> QED BY <1>7, <2>5 DEF CallsKept
<1> QED BY <1>8, <1>9

(* A branch or jump in the text and a routine do not come together here.   *)
LEMMA Unserved ==
  ASSUME RoutinesServed, TraceTypes, NEW a, InText(a), text[a].op \in {"BRANCH", "JAL"}
  PROVE  NoRoutines
BY DEF RoutinesServed, InText, TraceTypes

(* One that retires without stub.                                          *)
LEMMA UnservedCalls ==
  ASSUME CallsHyp, phase = "run", CacheKept, DOMAIN RailBasicBlocks # {},
         NEW a, a = gpc, InText(a), text[a].op \in {"BRANCH", "JAL"},
         NEW next, RetireTransfer(a, next)
  PROVE  CallsKept
<1>1. PlaceHyp /\ RoutinesServed
  BY DEF CallsHyp
<1>2. TraceTypes /\ PathsOf(memory, program_counter, followed, RailBasicBlocks)
  BY <1>1, PlaceParts
<1>3. NoRoutines
  BY <1>1, <1>2, Unserved
<1>4. /\ TraceWanted(tool.instPost, tool.typedPost, a) = << >>
      /\ Times(One(tool.instPre), gpc') = << >>
      /\ ~Segmented
  BY <1>3, NoneRegistered
<1>5. \A i : ~InSegmentExit(memory, i)
  BY <1>2, <1>4 DEF PathsOf, WordsCarry, InSegmentExit
<1>6. ~LeavingSegment /\ ~LeavingSegment' /\ ~NotYetEntered
  BY <1>5, InCacheStep
<1>7. /\ retired' = Retirement(a, preCalls) /\ preCalls' = << >> /\ postCalls' = << >>
      /\ text' = text /\ tool' = tool
  BY DEF RetireTransfer, CacheKept
<1>8. TraceRoutinesRun' /\ retired'.addr = a
  BY <1>6, <1>7, RetiresCalled
<1>9. CallsPlace'
  BY <1>4, <1>6, <1>7, <1>8, NoneDue
<1> QED BY <1>8, <1>9 DEF CallsKept

LEMMA TransferCalls ==
  ASSUME CallsHyp, RunLink \/ RunLiRd \/ RunFollowed
  PROVE  CallsKept
<1>1. phase = "run" /\ PlaceHyp
  BY DEF RunLink, RunLiRd, RunFollowed, At, CallsHyp
<1>2. TransfersHere
  BY <1>1, LinkPlaces, LiRdPlace, FollowedJumpPlace
<1>3. PICK next, a : RetireTransfer(a, next) /\ a = gpc
  BY <1>2 DEF TransfersHere
<1> QED BY <1>1, <1>2, <1>3, UnservedCalls DEF TransfersHere

LEMMA CrashCalls ==
  ASSUME CallsHyp, RunOldCrash
  PROVE  CallsKept
<1>1. status' = "crashed" /\ UNCHANGED <<text, tool, retired>>
  BY DEF RunOldCrash, RunCrash, cacheVars, history
<1>2. TraceRoutinesRun'
  BY <1>1, RunKept DEF CallsHyp
<1> QED BY <1>1, <1>2 DEF CallsKept

(* Every step of the processor calls what it should.                       *)
LEMMA RunTraceStepCalls ==
  ASSUME CallsHyp, RunTraceStep
  PROVE  CallsKept
<1>1. PlaceHyp
  BY DEF CallsHyp
<1>2. CASE RunOldWord
  BY <1>1, <1>2, RestoreCalls, OldLiCalls, GuestWordCalls, NoEcallHere, NoJumpHere
     DEF RunOldWord
<1> QED BY <1>2, CrashCalls, SaveCalls, OldSwitchCalls, TraceSwitchCalls, SideCalls,
           TraceBranchCalls, TransferCalls DEF RunTraceStep

-----------------------------------------------------------------------------
(* What has been called: the host.                                         *)

LEMMA InitAllocateCalls ==
  ASSUME CallsHyp, TraceInit_Allocate
  PROVE  CallsKept
<1>1. phase = "init" /\ phase' = "initWait" /\ gpc' = gpc /\ Uncalled
  BY DEF TraceInit_Allocate, TraceBegin, history, Uncalled
<1>2. ~LeavingSegment /\ ~LeavingSegment' /\ NotYetEntered /\ NotYetEntered'
  BY <1>1 DEF LeavingSegment, NotYetEntered
<1> QED BY <1>1, <1>2, CallsStay

(* Before a trace is entered what precedes its first instruction is called.*)
LEMMA EnteredCalls ==
  ASSUME CallsHyp, phase \in {"initWait", "stubWait"}, phase' = "run",
         UNCHANGED <<text, tool, retired, postCalls, gpc>>,
         preCalls' = preCalls \o Times(One(tool.instPre), gpc),
         NEW mm, memory' = mm, Laid(mm), ip' \in DOMAIN mm, mm[ip'].k = "restore",
         DOMAIN RailBasicBlocks' # {}
  PROVE  CallsKept
<1>1. PICK i : i = ip'
  OBVIOUS
<1>2. ~InSegmentExit(mm, i)
  <2>1. Begins(mm, i) /\ ~SegmentExit(mm, i)
    BY <1>1 DEF Begins, StraightKind, SegmentExit
  <2> QED BY <2>1, SegmentBegins
<1>3. ~LeavingSegment /\ ~LeavingSegment' /\ NotYetEntered /\ ~NotYetEntered'
  BY <1>1, <1>2 DEF LeavingSegment, NotYetEntered, InSegmentExit, SegmentExit
<1>4. TraceRoutinesRun'
  BY RunKept DEF CallsHyp
<1>5. preCalls = << >> /\ postCalls = PostDue
  BY <1>3 DEF CallsHyp, CallsPlace
<1>6. gpc \in Int
  <2>1. PlaceHyp /\ phase # "run"
    BY DEF CallsHyp
  <2>2. HostPlace /\ DispatcherTypeOK
    BY <2>1, HostHere
  <2> QED BY <2>2 DEF HostPlace, DispatcherTypeOK
<1>7. preCalls' = PreDue
  <2>1. Times(One(tool.instPre), gpc) \in Seq(Int)
    BY <1>6, OneType, TimesType
  <2> QED BY <1>5, <2>1 DEF PreDue
<1>8. PreDue' = PreDue /\ PostDue' = PostDue
  BY DEF PreDue, PostDue, TraceWanted, TraceApplicable
<1>9. CallsPlace'
  BY <1>3, <1>5, <1>7, <1>8 DEF CallsPlace, CallsHyp, InText
<1> QED BY <1>4, <1>9 DEF CallsKept

LEMMA InitEnterCalls ==
  ASSUME CallsHyp, TraceInit_Enter
  PROVE  CallsKept
<1>1. PICK next, m : next = Lookup(frame.nextBlockAddr) /\ m = memory
  OBVIOUS
<1>2. PlaceHyp
  BY DEF CallsHyp
<1>3. /\ phase = "initWait" /\ phase' = "run" /\ Laid(m) /\ memory' = m
      /\ ip' \in DOMAIN m /\ m[ip'].k = "restore" /\ next.firstAddr = gpc /\ gpc' = gpc
      /\ DOMAIN RailBasicBlocks' # {}
  BY <1>1, <1>2, InitEntersTrace
<1>4. /\ UNCHANGED <<text, tool, retired, postCalls>>
      /\ preCalls' = preCalls \o Times(One(tool.instPre), next.firstAddr)
  BY <1>1 DEF TraceInit_Enter, Init_Enter, cacheVars
<1> QED BY <1>3, <1>4, EnteredCalls

LEMMA StubEnterCalls ==
  ASSUME CallsHyp, TraceStub_Enter
  PROVE  CallsKept
<1>1. PICK next, mm : next = Lookup(frame.nextBlockAddr) /\ mm = memory'
  OBVIOUS
<1>2. PlaceHyp
  BY DEF CallsHyp
<1>3. /\ phase = "stubWait" /\ phase' = "run" /\ Laid(mm) /\ memory' = mm
      /\ ip' \in DOMAIN mm /\ mm[ip'].k = "restore" /\ next.firstAddr = gpc /\ gpc' = gpc
      /\ DOMAIN RailBasicBlocks' # {}
  BY <1>1, <1>2, StubEntersTrace
<1>4. /\ UNCHANGED <<text, tool, retired, postCalls>>
      /\ preCalls' = preCalls \o Times(One(tool.instPre), next.firstAddr)
  BY <1>1 DEF TraceStub_Enter
<1> QED BY <1>3, <1>4, EnteredCalls

(* stub is through with the last instruction when it has called what       *)
(* follows it.                                                             *)
LEMMA StubLeavesCalls ==
  ASSUME TraceRoutinesRun', UNCHANGED <<text, tool>>, phase' = "stubWait",
         NEW a, retired'.addr = a, InText(a), preCalls' = << >>,
         postCalls' = TraceWanted(tool.instPost, tool.typedPost, a)
  PROVE  CallsKept
<1>1. ~LeavingSegment' /\ NotYetEntered'
  BY DEF LeavingSegment, NotYetEntered
<1>2. PostDue' = TraceWanted(tool.instPost, tool.typedPost, a)
  BY DEF PostDue, TraceWanted, TraceApplicable, InText
<1> QED BY <1>1, <1>2 DEF CallsKept, CallsPlace, InText

LEMMA StubTransferCalls ==
  ASSUME CallsHyp, TraceStub_Transfer
  PROVE  CallsKept
<1>1. PICK next, a : next = NextBlockAddr(LastInst, LastAddr) /\ a = gpc
  OBVIOUS
<1>2. /\ InStub /\ ExitType \in {"DIRECT_BRANCH", "INDIRECT_BRANCH"}
      /\ retired' = Retirement(LastAddr, preCalls) /\ preCalls' = << >>
      /\ postCalls' = Times(NumPostCalls(LastInst), LastAddr) /\ TraceLeaveFor(next, FALSE)
  BY <1>1 DEF TraceStub_Transfer
<1>3. PlaceHyp /\ RoutinesServed
  BY DEF CallsHyp
<1>4. /\ LastInst = text[a] /\ LastAddr = a /\ InText(a)
      /\ ExitType = NextInstType(text[a].op) /\ text[a].op \in ControlOp
      /\ lastInstAddress # 0 /\ phase = "stub"
  BY <1>1, <1>2, <1>3, StubTold
<1>5. text \in Seq(Inst)
  BY <1>3, <1>4, HostHere DEF TraceTypes
<1>6. phase' = "stubWait" /\ text' = text /\ tool' = tool
  BY <1>2 DEF TraceLeaveFor, TraceBegin
<1>7. ~LeavingSegment /\ ~NotYetEntered
  BY <1>4 DEF LeavingSegment, NotYetEntered
<1>8. TraceRoutinesRun' /\ retired'.addr = a
  BY <1>1, <1>2, <1>4, <1>6, <1>7, RetiresCalled
<1>9. text[a].op # "SYSTEM"
  BY <1>2, <1>4 DEF NextInstType
<1>10. postCalls' = TraceWanted(tool.instPost, tool.typedPost, a)
  BY <1>2, <1>3, <1>4, <1>5, <1>9, ServedAsWanted
<1> QED BY <1>2, <1>4, <1>6, <1>8, <1>10, StubLeavesCalls

LEMMA StubSegmentCalls ==
  ASSUME CallsHyp, TraceStub_Segment
  PROVE  CallsKept
<1>1. PICK next, a : next = LastAddr + 1 /\ a = retired.addr
  OBVIOUS
<1>2. /\ InStub /\ ExitType = "SEGMENTED" /\ retired' = retired /\ preCalls' = preCalls
      /\ postCalls' = postCalls \o Times(NumPostCalls(LastInst), LastAddr)
      /\ TraceLeaveFor(next, FALSE)
  BY <1>1 DEF TraceStub_Segment
<1>3. PlaceHyp /\ RoutinesServed
  BY DEF CallsHyp
<1>4. /\ phase = "stub" /\ lastInstAddress = 0 /\ currentBB \in DOMAIN RailBasicBlocks
      /\ LastAddr = RailBasicBlocks[currentBB].lastAddr /\ gpc = LastAddr + 1
      /\ LastInst = RailBasicBlocks[currentBB].terminalInst
  BY <1>2, <1>3, SegmentTold
<1>5. /\ TraceTypes /\ TracesLaid(memory, RailBasicBlocks)
  BY <1>3, <1>4, HostHere
<1>6. /\ preCalls = << >> /\ postCalls = << >> /\ a # 0 /\ InText(a)
      /\ Plain(text[a]) /\ gpc = a + 1
  BY <1>1, <1>4 DEF CallsHyp, CallsPlace, LeavingSegment
<1>7. a \in Int /\ LastAddr = a
  <2>1. RailBasicBlocks[currentBB] \in Block
    BY <1>4, <1>5 DEF TraceTypes
  <2>2. LastAddr \in Int
    BY <1>4, <2>1 DEF Block
  <2>3. a \in Int
    BY <1>6 DEF InText
  <2> QED BY <1>4, <1>6, <2>2, <2>3
<1>8. LastInst = text[a]
  BY <1>4, <1>5, <1>6, <1>7 DEF TracesLaid, TraceLaid, Fetch, InText
<1>9. text[a].op # "SYSTEM" /\ text \in Seq(Inst)
  BY <1>5, <1>6 DEF Plain, ControlOp, TraceTypes
<1>10. postCalls' = TraceWanted(tool.instPost, tool.typedPost, a)
  <2>1. PICK c : c = Times(NumPostCalls(LastInst), LastAddr)
    OBVIOUS
  <2>2. c = TraceWanted(tool.instPost, tool.typedPost, a)
    BY <1>3, <1>6, <1>7, <1>8, <1>9, <2>1, ServedAsWanted
  <2>3. c \in Seq(Int)
    <3>1. NumPostCalls(LastInst) \in Nat
      BY OneType DEF NumPostCalls
    <3> QED BY <1>7, <2>1, <3>1, TimesType
  <2> QED BY <1>2, <1>6, <2>1, <2>2, <2>3
<1>11. phase' = "stubWait" /\ text' = text /\ tool' = tool
  BY <1>2 DEF TraceLeaveFor, TraceBegin
<1>12. TraceRoutinesRun'
  BY <1>2, <1>11, RunKept DEF CallsHyp
<1> QED BY <1>1, <1>2, <1>6, <1>10, <1>11, <1>12, StubLeavesCalls

LEMMA StubEmulateCalls ==
  ASSUME CallsHyp, TraceStub_Emulate
  PROVE  CallsKept
<1>1. PICK next, a : next = LastAddr + 1 /\ a = gpc
  OBVIOUS
<1>2. /\ InStub /\ ExitType = "SYSCALL" /\ preCalls' = << >>
      /\ retired' =
           Retirement(LastAddr, preCalls \o Times(NumSystemCalls(tool.typedPre), LastAddr))
      /\ postCalls' =
           Times(NumSystemCalls(tool.typedPost) + NumPostCalls(LastInst), LastAddr)
      /\ TraceLeaveFor(next, FALSE)
  BY <1>1 DEF TraceStub_Emulate
<1>3. PlaceHyp /\ RoutinesServed
  BY DEF CallsHyp
<1>4. /\ LastInst = text[a] /\ LastAddr = a /\ InText(a) /\ a \in Int
      /\ ExitType = NextInstType(text[a].op) /\ text[a].op \in ControlOp
      /\ lastInstAddress # 0 /\ phase = "stub"
  BY <1>1, <1>2, <1>3, StubTold
<1>5. text \in Seq(Inst)
  BY <1>3, <1>4, HostHere DEF TraceTypes
<1>6. phase' = "stubWait" /\ text' = text /\ tool' = tool
  BY <1>2 DEF TraceLeaveFor, TraceBegin
<1>7. ~LeavingSegment /\ ~NotYetEntered
  BY <1>4 DEF LeavingSegment, NotYetEntered
<1>8. text[a].op = "SYSTEM"
  BY <1>2, <1>4 DEF NextInstType, ControlOp
<1>9. /\ Times(NumSystemCalls(tool.typedPre), a) = << >>
      /\ postCalls' = TraceWanted(tool.instPost, tool.typedPost, a)
  BY <1>2, <1>3, <1>4, <1>5, <1>8, ServedAsWanted
<1>10. retired' = Retirement(a, preCalls)
  <2>1. preCalls \in Seq(Int)
    <3>1. preCalls = Times(One(tool.instPre), a)
      BY <1>1, <1>7 DEF CallsHyp, CallsPlace, PreDue
    <3> QED BY <1>4, <3>1, OneType, TimesType
  <2>2. preCalls \o << >> = preCalls
    BY <2>1
  <2> QED BY <1>2, <1>4, <1>9, <2>2
<1>11. TraceRoutinesRun' /\ retired'.addr = a
  BY <1>1, <1>4, <1>6, <1>7, <1>10, RetiresCalled
<1> QED BY <1>2, <1>4, <1>6, <1>9, <1>11, StubLeavesCalls

(* How the process ends in the host.                                       *)
LEMMA EndCalls ==
  ASSUME CallsHyp, TraceStub_Exit \/ TraceStub_GiveUp
  PROVE  CallsKept
<1>1. status' # "running" /\ UNCHANGED <<text, tool, retired>>
  BY DEF TraceStub_Exit, TraceStub_GiveUp, history
<1>2. TraceRoutinesRun'
  BY <1>1, RunKept DEF CallsHyp
<1> QED BY <1>1, <1>2 DEF CallsKept

LEMMA TraceHostStepCalls ==
  ASSUME CallsHyp, TraceHostStep
  PROVE  CallsKept
<1>1. PlaceHyp
  BY DEF CallsHyp
<1> QED BY <1>1, InitAllocateCalls, InitEnterCalls, StubTransferCalls, StubSegmentCalls,
           StubEmulateCalls, NoForwardHere, EndCalls, StubEnterCalls DEF TraceHostStep

(* The allocator calls nothing.                                            *)
LEMMA AllocateCalls ==
  ASSUME CallsHyp, AllocateTraceStep
  PROVE  CallsKept
<1>1. trace.busy /\ phase' = phase /\ gpc' = gpc /\ Uncalled
  BY DEF AllocateTraceStep, TraceStep, TraceBranch, TraceJump, TraceLastJump, TraceJalr,
         TraceSystem, TraceInstruction, TraceTextEnd, TraceAt, history, Uncalled
<1>2. ExtentInv /\ status = "running"
  BY DEF CallsHyp, PlaceHyp, PathHyp
<1>3. phase \in {"initWait", "stubWait"}
  BY <1>1, <1>2, ExtentInvParts DEF ExtentParts, InPlainTrace
<1>4. ~LeavingSegment /\ ~LeavingSegment' /\ NotYetEntered /\ NotYetEntered'
  BY <1>1, <1>3 DEF LeavingSegment, NotYetEntered
<1> QED BY <1>1, <1>4, CallsStay

LEMMA TraceStutterCalls ==
  ASSUME TraceCallsInv, UNCHANGED allVars
  PROVE  TraceCallsInv'
<1>1. /\ UNCHANGED <<memory, text, tool, RailBasicBlocks, status, phase, ip, gpc, retired,
                     preCalls, postCalls, lastInstAddress>>
  BY DEF allVars, vars, cacheVars, dispatcherVars, traceVars, history
<1>2. TraceRoutinesRun'
  BY <1>1, RunKept DEF TraceCallsInv
<1>3. /\ LeavingSegment' <=> LeavingSegment
      /\ NotYetEntered' <=> NotYetEntered
  BY <1>1 DEF LeavingSegment, NotYetEntered, InSegmentExit, SegmentExit
<1>4. PostDue' = PostDue /\ PreDue' = PreDue
  BY <1>1 DEF PostDue, PreDue, TraceWanted, TraceApplicable
<1>5. CallsPlace => CallsPlace'
  BY <1>1, <1>3, <1>4 DEF CallsPlace, InText, Plain
<1> QED BY <1>1, <1>2, <1>5 DEF TraceCallsInv

(* Every step calls what it should.                                        *)
LEMMA TraceNextCalls ==
  ASSUME TraceInv, ExtentInv, PathInv, PlaceInv, PlainText, LinksAsMeant, RoutinesServed,
         TraceCallsInv, [TraceNext]_allVars
  PROVE  TraceCallsInv'
<1>1. CASE UNCHANGED allVars
  BY <1>1, TraceStutterCalls
<1>2. CASE status # "running"
  BY <1>2, HaltedStays, TraceStutterCalls
<1>3. CASE status = "running" /\ TraceNext
  <2>1. CallsHyp
    BY <1>3, TraceInvParts DEF CallsHyp, TraceCallsInv, PlaceHyp, PathHyp, PlainText
  <2>2. ~TraceHalted
    BY <1>3 DEF TraceHalted, Halted
  <2>3. CallsKept
    BY <1>3, <2>1, <2>2, RunTraceStepCalls, TraceHostStepCalls, AllocateCalls DEF TraceNext
  <2> QED BY <2>3 DEF CallsKept, TraceCallsInv
<1> QED BY <1>1, <1>2, <1>3

(* At first nothing has been.                                              *)
LEMMA TraceInitCalls == TraceInit => TraceCallsInv
<1> SUFFICES ASSUME TraceInit PROVE TraceCallsInv
  OBVIOUS
<1>1. /\ DOMAIN RailBasicBlocks = {} /\ phase = "run" /\ preCalls = << >> /\ postCalls = << >>
      /\ retired.addr = 0 /\ retired.prev = 0 /\ memory = Li(InitSwitch) \o JalrT6
  BY DEF TraceInit, Init, CacheInit
<1>2. ~InSegmentExit(memory, ip)
  <2>1. AtRoot
    BY <1>1 DEF TraceInit, Init, CacheInit, AtRoot
  <2> QED BY <2>1, RootNoSegment
<1>3. ~LeavingSegment /\ NotYetEntered
  BY <1>1, <1>2 DEF LeavingSegment, NotYetEntered
<1> QED BY <1>1, <1>3 DEF TraceCallsInv, TraceRoutinesRun, CallsPlace, PostDue

(* The engine with trace linking calls what was registered: for a text of  *)
(* instructions without forwarded ECALLs or lost loads, and routines that  *)
(* stub serves, as long as the links do as they should, the routines that  *)
(* have run when an instruction retires are those for all instructions     *)
(* before it, and behind the one before it those for all instructions and  *)
(* for its type, each once - at the ends of segments, at exits and across  *)
(* joined blocks alike.                                                    *)
THEOREM TraceCallsCorrect ==
  TraceSpec /\ PlainText /\ RoutinesServed /\ []LinksAsMeant => []TraceRoutinesRun
<1> DEFINE I == /\ TraceInv /\ ExtentInv /\ PathInv /\ PlaceInv /\ PlainText
                /\ RoutinesServed /\ TraceCallsInv
<1>1. TraceInit /\ PlainText /\ RoutinesServed => I
  BY TraceInitKeeps, TraceInitWithin, TraceInitPaths, TraceInitPlaces, TraceInitCalls
<1>2. I /\ LinksAsMeant /\ LinksAsMeant' /\ [TraceNext]_allVars => I'
  <2> SUFFICES ASSUME I, LinksAsMeant, LinksAsMeant', [TraceNext]_allVars
               PROVE  I'
    OBVIOUS
  <2>1. TraceInv'
    BY TraceNextKeeps
  <2>2. TraceTypes'
    BY <2>1, TraceInvParts, PTL
  <2>3. NoForwardedEcalls
    BY DEF PlainText
  <2>4. ExtentInv' /\ PathInv'
    BY <2>3, TraceNextWithin, TraceNextPaths
  <2>5. PlaceInv'
    BY <2>2, TraceNextPlaces DEF LinksAsMeant
  <2>6. PlainText' /\ RoutinesServed'
    BY TraceTextStays
       DEF PlainText, NoForwardedEcalls, NoHoles, NoLostLoads, InText, RoutinesServed, NoRoutines
  <2>7. TraceCallsInv'
    BY TraceNextCalls
  <2> QED BY <2>1, <2>4, <2>5, <2>6, <2>7
<1>3. I => TraceRoutinesRun
  BY DEF TraceCallsInv
<1> QED BY <1>1, <1>2, <1>3, PTL DEF TraceSpec
=============================================================================
