---------------------------- MODULE ControlProofs ----------------------------
(***************************************************************************)
(* Proofs about layout and control: every block lies in the code cache as  *)
(* its metadata says, whatever is laid out later, the guest is always      *)
(* where the dispatcher takes it to be, its T6 is where the library's next *)
(* step looks for it, and every step of the engine is one of the bare      *)
(* machine or none.                                                        *)
(***************************************************************************)
EXTENDS DispatcherInvariants, DispatcherProofs

-----------------------------------------------------------------------------
(* The allocator's sequences, word for word.                               *)

(* What stands for an instruction begins with the one word that names it;  *)
(* an AUIPC's is three words long.                                         *)
LEMMA CopyShape ==
  ASSUME text \in Seq(Inst), NEW a, Fetch(a).op # "none"
  PROVE  /\ a \in Int /\ 0 < a /\ a \in DOMAIN text
         /\ Copy(a) \in Seq(CodeWord)
         /\ Len(Copy(a)) \in {1, 3}
         /\ Copy(a)[1].a = a
         /\ Copy(a)[1].k \in {"guest", "mem", "setpc"}
         /\ \A k \in 2..Len(Copy(a)) : Copy(a)[k] = Cont
         /\ Copy(a)[1].k = "setpc" <=> Fetch(a).op = "AUIPC"
         /\ Copy(a)[1].k = "mem" <=> Fetch(a).op \in MemoryOp \cup {"AMO"}
  <1>1. a \in DOMAIN text /\ a \in Int /\ Fetch(a) \in Inst
    BY FetchType
  <1>2. 0 < a
    BY <1>1
  <1>3. Copy(a) \in Seq(CodeWord)
    BY <1>1, InstWords DEF Copy
  <1>4. CASE Fetch(a).op = "AUIPC"
    <2>1. Copy(a) = <<W("setpc", a, a + Fetch(a).imm), Cont, Cont>>
      BY <1>4 DEF Copy, InLine, MemoryOp
    <2>2. /\ Len(Copy(a)) = 3 /\ Copy(a)[1] = W("setpc", a, a + Fetch(a).imm)
          /\ Copy(a)[2] = Cont /\ Copy(a)[3] = Cont
      BY <2>1
    <2>3. \A k \in 2..Len(Copy(a)) : Copy(a)[k] = Cont
      BY <2>2
    <2> QED
      BY <1>1, <1>2, <1>3, <1>4, <2>2, <2>3 DEF W, MemoryOp
  <1>5. CASE Fetch(a).op \in MemoryOp \cup {"AMO"}
    <2>1. Copy(a) = <<W("mem", a, 0)>>
      BY <1>5 DEF Copy, InLine, MemoryOp
    <2>2. Len(Copy(a)) = 1 /\ Copy(a)[1] = W("mem", a, 0)
      BY <2>1
    <2> QED
      BY <1>1, <1>2, <1>3, <1>5, <2>2 DEF W, MemoryOp
  <1>6. CASE Fetch(a).op \notin MemoryOp \cup {"AUIPC", "AMO"}
    <2>1. Copy(a) = <<W("guest", a, 0)>>
      BY <1>6 DEF Copy, InLine, MemoryOp
    <2>2. Len(Copy(a)) = 1 /\ Copy(a)[1] = W("guest", a, 0)
      BY <2>1
    <2> QED
      BY <1>1, <1>2, <1>3, <1>6, <2>2 DEF W
  <1> QED
    BY <1>4, <1>5, <1>6

(* A sequence behind another.                                              *)
LEMMA Joined ==
  ASSUME NEW s \in Seq(CodeWord), NEW t \in Seq(CodeWord)
  PROVE  /\ s \o t \in Seq(CodeWord)
         /\ Len(s) \in Nat /\ Len(t) \in Nat
         /\ Len(s \o t) = Len(s) + Len(t)
         /\ \A k \in 1..Len(s) : (s \o t)[k] = s[k]
         /\ \A k \in 1..Len(t) : (s \o t)[Len(s) + k] = t[k]
  <1>1. /\ s \o t \in Seq(CodeWord)
        /\ Len(s \o t) = Len(s) + Len(t)
        /\ \A k \in 1..Len(s) + Len(t) :
             (s \o t)[k] = IF k <= Len(s) THEN s[k] ELSE t[k - Len(s)]
    BY ConcatProperties
  <1>2. Len(s) \in Nat /\ Len(t) \in Nat
    OBVIOUS
  <1>3. \A k \in 1..Len(s) : (s \o t)[k] = s[k]
    BY <1>1, <1>2
  <1>4. ASSUME NEW k \in 1..Len(t)
        PROVE  (s \o t)[Len(s) + k] = t[k]
    <2>1. Len(s) + k \in 1..Len(s) + Len(t) /\ ~(Len(s) + k <= Len(s))
          /\ Len(s) + k - Len(s) = k
      BY <1>2
    <2> QED
      BY <1>1, <2>1
  <1> QED
    BY <1>1, <1>2, <1>3, <1>4

(* Two sequences behind another.                                           *)
LEMMA JoinedTwice ==
  ASSUME NEW s \in Seq(CodeWord), NEW t \in Seq(CodeWord), NEW u \in Seq(CodeWord)
  PROVE  (s \o t) \o u = s \o (t \o u)
  BY ConcatAssociative

(* The fields of a word.                                                   *)
LEMMA WordFields ==
  /\ \A k, a, v : W(k, a, v).k = k /\ W(k, a, v).a = a /\ W(k, a, v).v = v
  /\ Cont.k = "cont" /\ Cont.a = 0
  BY DEF W, Cont

(* Leaving the cache takes six words.                                      *)
LEMMA SwitchToShape ==
  ASSUME NEW h \in Int
  PROVE  /\ SwitchTo(h) \in Seq(CodeWord)
         /\ Len(SwitchTo(h)) = 6
         /\ SwitchTo(h)[1] = W("save", 0, 0)
         /\ SwitchTo(h)[2] = Cont
         /\ SwitchTo(h)[3] = W("li", 0, h)
         /\ SwitchTo(h)[4] = Cont
         /\ SwitchTo(h)[5] = Cont
         /\ SwitchTo(h)[6] = W("jalrT6", 0, 0)
  <1>1. SwitchTo(h) \in Seq(CodeWord)
    BY LibraryWords
  <1>2. SwitchTo(h) = <<W("save", 0, 0), Cont>> \o <<W("li", 0, h), Cont, Cont>>
                        \o <<W("jalrT6", 0, 0)>>
    BY DEF SwitchTo, InlineSave, Li, JalrT6
  <1> QED
    BY <1>1, <1>2

(* The exit of a branch takes eleven.                                      *)
LEMMA BranchExitShape ==
  ASSUME text \in Seq(Inst), NEW a, a \in DOMAIN text
  PROVE  /\ BranchExit(a) \in Seq(CodeWord)
         /\ Len(BranchExit(a)) = 11
         /\ BranchExit(a)[1] = W("save", 0, 0)
         /\ BranchExit(a)[2] = Cont
         /\ BranchExit(a)[3] = W("branch", a, 0)
         /\ BranchExit(a)[4] = W("li", 0, ContextSwitch)
         /\ BranchExit(a)[5] = Cont
         /\ BranchExit(a)[6] = Cont
         /\ BranchExit(a)[7] = W("jalrT6", 0, 0)
         /\ BranchExit(a)[8] = W("li", 0, ContextSwitchTaken)
         /\ BranchExit(a)[9] = Cont
         /\ BranchExit(a)[10] = Cont
         /\ BranchExit(a)[11] = W("jalrT6", 0, 0)
  <1>1. BranchExit(a) \in Seq(CodeWord)
    BY InstWords, NoInstType
  <1>2. BranchExit(a) = <<W("save", 0, 0), Cont>> \o <<W("branch", a, 0)>>
                          \o <<W("li", 0, ContextSwitch), Cont, Cont>>
                          \o <<W("jalrT6", 0, 0)>>
                          \o <<W("li", 0, ContextSwitchTaken), Cont, Cont>>
                          \o <<W("jalrT6", 0, 0)>>
    BY DEF BranchExit, InlineSave, Li, JalrT6
  <1> QED
    BY <1>1, <1>2

-----------------------------------------------------------------------------
(* What is laid out stays as the cache grows behind it.                    *)

(* Words that stand in the cache still do when others are appended.        *)
LEMMA HoldsKept ==
  ASSUME NEW m \in Seq(CodeWord), NEW ws \in Seq(CodeWord), NEW i, NEW us \in Seq(CodeWord),
         Holds(m, i, us)
  PROVE  Holds(m \o ws, i, us)
  <1>1. /\ Len(m) \in Nat /\ Len(m \o ws) \in Nat /\ Len(m) <= Len(m \o ws)
        /\ \A k \in 1..Len(m) : (m \o ws)[k] = m[k]
    BY Joined
  <1>2. i \in 1..Len(m) /\ i + Len(us) - 1 \in 1..Len(m) /\ Len(us) \in Nat
    BY DEF Holds
  <1>3. \A k \in 1..Len(us) : i + k - 1 \in 1..Len(m)
    BY <1>2
  <1>4. \A k \in 1..Len(us) : (m \o ws)[i + k - 1] = us[k]
    BY <1>1, <1>3 DEF Holds
  <1> QED
    BY <1>1, <1>2, <1>4 DEF Holds

(* Words that are appended stand behind the others.                        *)
LEMMA HoldsAppended ==
  ASSUME NEW m \in Seq(CodeWord), NEW us \in Seq(CodeWord), 0 < Len(us)
  PROVE  Holds(m \o us, Len(m) + 1, us)
  <1>1. /\ Len(m) \in Nat /\ Len(us) \in Nat /\ Len(m \o us) = Len(m) + Len(us)
        /\ \A k \in 1..Len(us) : (m \o us)[Len(m) + k] = us[k]
    BY Joined
  <1>2. \A k \in 1..Len(us) : Len(m) + 1 + k - 1 = Len(m) + k
    BY <1>1
  <1>3. \A k \in 1..Len(us) : (m \o us)[Len(m) + 1 + k - 1] = us[k]
    BY <1>1, <1>2
  <1> QED
    BY <1>1, <1>3 DEF Holds

(* So do instructions that were laid out.                                  *)
LEMMA LaidOutKept ==
  ASSUME NEW m \in Seq(CodeWord), NEW ws \in Seq(CodeWord),
         NEW i \in Nat \ {0}, NEW j \in 1..Len(m) + 1, NEW a, NEW c,
         text \in Seq(Inst), LaidOut(m, i, a, c, j)
  PROVE  LaidOut(m \o ws, i, a, c, j)
  <1> DEFINE n == m \o ws
  <1>1. \A k \in i..(j - 1) : n[k] = m[k] /\ k \in Nat
    BY Joined
  <1> HIDE DEF n
  <1>2. \A k \in i..(j - 1) : n[k].a = 0 => n[k] = Cont
    BY <1>1 DEF LaidOut
  <1>3. ASSUME NEW k \in i..(j - 1), n[k].a # 0
        PROVE  LET x == n[k].a
                   e == k + Len(Copy(x))
               IN  /\ x \in a..(c - 1) /\ n[k] = Copy(x)[1]
                   /\ \/ e = j /\ x + 1 = c
                      \/ e < j /\ n[e].a = x + 1
    <2> DEFINE x == m[k].a
               e == k + Len(Copy(x))
    <2>1. /\ x \in a..(c - 1) /\ m[k] = Copy(x)[1]
          /\ \/ e = j /\ x + 1 = c
             \/ e < j /\ m[e].a = x + 1
      BY <1>1, <1>3 DEF LaidOut
    <2>2. Len(Copy(x)) \in Nat
      BY DEF Copy, InLine
    <2>3. e < j => e \in i..(j - 1)
      BY <2>2
    <2> QED
      BY <1>1, <2>1, <2>3
  <1>4. \A x \in a..(c - 1) : \E k \in i..(j - 1) : n[k].a = x
    BY <1>1 DEF LaidOut
  <1>5. \A k, l \in i..(j - 1) : n[k].a # 0 /\ n[l].a # 0 /\ k < l => n[k].a < n[l].a
    BY <1>1 DEF LaidOut
  <1>6. IF a = c THEN i = j ELSE i < j /\ n[i].a = a
    <2>1. i < j => i \in i..(j - 1)
      OBVIOUS
    <2> QED
      BY <1>1, <2>1 DEF LaidOut
  <1>7. LaidOut(n, i, a, c, j)
    BY <1>2, <1>3, <1>4, <1>5, <1>6 DEF LaidOut
  <1> QED
    BY <1>7 DEF n

(* Nothing is laid out at first.                                           *)
LEMMA LaidOutNone ==
  ASSUME NEW m, NEW i \in Nat, NEW a \in Int
  PROVE  LaidOut(m, i, a, a, i)
  <1>1. i..(i - 1) = {} /\ a..(a - 1) = {}
    OBVIOUS
  <1> QED
    BY <1>1 DEF LaidOut

(* The next instruction's copy goes behind the others.                     *)
LEMMA LaidOutGrows ==
  ASSUME text \in Seq(Inst), NEW m \in Seq(CodeWord), NEW i \in 1..Len(m) + 1,
         NEW a \in Int, NEW c \in Int, a <= c, Fetch(c).op # "none",
         LaidOut(m, i, a, c, Len(m) + 1)
  PROVE  LaidOut(m \o Copy(c), i, a, c + 1, Len(m \o Copy(c)) + 1)
  <1> DEFINE n  == m \o Copy(c)
             j  == Len(m) + 1
             j2 == Len(n) + 1
  <1>1. /\ 0 < c /\ Copy(c) \in Seq(CodeWord)
        /\ Len(Copy(c)) \in {1, 3} /\ Copy(c)[1].a = c
        /\ \A k \in 2..Len(Copy(c)) : Copy(c)[k] = Cont
    BY CopyShape
  <1>2. /\ j \in Nat /\ i \in Nat /\ i <= j /\ j2 = j + Len(Copy(c)) /\ j2 \in Nat
        /\ \A k \in i..(j - 1) : n[k] = m[k]
        /\ n[j] = Copy(c)[1]
    BY <1>1, Joined
  <1>3. \A k \in (j + 1)..(j2 - 1) : n[k] = Cont
    <2> SUFFICES ASSUME NEW k \in (j + 1)..(j2 - 1)
                 PROVE  n[k] = Cont
      OBVIOUS
    <2>1. k - Len(m) \in 2..Len(Copy(c)) /\ Len(m) + (k - Len(m)) = k
      BY <1>1, <1>2
    <2> QED
      BY <1>1, <2>1, Joined
  <1>4. Cont.a = 0
    BY DEF Cont, W
  <1>5. \A k \in i..(j2 - 1) : k \in i..(j - 1) \/ k = j \/ k \in (j + 1)..(j2 - 1)
    BY <1>1, <1>2
  <1>6. \A k \in i..(j2 - 1) :
          n[k].a # 0 => \/ k \in i..(j - 1) /\ m[k].a # 0 /\ m[k].a \in a..(c - 1)
                        \/ k = j
    BY <1>2, <1>3, <1>4, <1>5 DEF LaidOut
  <1> HIDE DEF n, j2
  <1>7. ASSUME NEW k \in i..(j2 - 1), n[k].a = 0
        PROVE  n[k] = Cont
    <2>1. CASE k \in i..(j - 1)
      <3>1. n[k] = m[k]
        BY <1>2, <2>1
      <3>2. m[k].a = 0 => m[k] = Cont
        BY <2>1 DEF LaidOut
      <3> QED
        BY <1>7, <3>1, <3>2
    <2>2. CASE k = j
      <3>1. n[k].a = c /\ c # 0
        BY <1>1, <1>2, <2>2
      <3> QED
        BY <1>7, <3>1
    <2>3. CASE k \in (j + 1)..(j2 - 1)
      BY <1>3, <2>3
    <2> QED
      BY <1>5, <2>1, <2>2, <2>3
  <1>8. ASSUME NEW k \in i..(j2 - 1), n[k].a # 0
        PROVE  LET x == n[k].a
                   e == k + Len(Copy(x))
               IN  /\ x \in a..(c + 1 - 1) /\ n[k] = Copy(x)[1]
                   /\ \/ e = j2 /\ x + 1 = c + 1
                      \/ e < j2 /\ n[e].a = x + 1
    <2>1. CASE k = j
      <3>1. n[k].a = c /\ n[k] = Copy(c)[1] /\ k + Len(Copy(c)) = j2
        BY <1>1, <1>2, <2>1
      <3>2. c \in a..(c + 1 - 1)
        OBVIOUS
      <3> QED
        BY <3>1, <3>2
    <2>2. CASE k \in i..(j - 1)
      <3> DEFINE x == m[k].a
                 e == k + Len(Copy(x))
      <3>1. /\ n[k] = m[k] /\ x \in a..(c - 1) /\ m[k] = Copy(x)[1]
            /\ \/ e = j /\ x + 1 = c
               \/ e < j /\ m[e].a = x + 1
        BY <1>2, <1>8, <2>2 DEF LaidOut
      <3>2. Len(Copy(x)) \in Nat
        BY DEF Copy, InLine
      <3>3. e < j => e \in i..(j - 1)
        BY <2>2, <3>2
      <3>4. j < j2 /\ n[j].a = c
        BY <1>1, <1>2
      <3>5. e = j => e < j2 /\ n[e].a = c
        BY <3>4
      <3>6. e < j => e < j2 /\ n[e] = m[e]
        BY <1>2, <3>2, <3>3, <3>4
      <3>7. e < j2 /\ n[e].a = x + 1
        BY <3>1, <3>5, <3>6
      <3>8. x \in a..(c + 1 - 1)
        BY <3>1
      <3> QED
        BY <3>1, <3>7, <3>8
    <2> QED
      BY <1>6, <1>8, <2>1, <2>2
  <1>9. ASSUME NEW x \in a..(c + 1 - 1)
        PROVE  \E k \in i..(j2 - 1) : n[k].a = x
    <2>1. CASE x = c
      <3>1. j \in i..(j2 - 1)
        BY <1>1, <1>2
      <3> QED
        BY <1>1, <1>2, <2>1, <3>1
    <2>2. CASE x # c
      <3>1. PICK k \in i..(j - 1) : m[k].a = x
        BY <2>2 DEF LaidOut
      <3>2. n[k].a = x
        BY <1>2, <3>1
      <3>3. j < j2
        BY <1>1, <1>2
      <3>4. k \in i..(j2 - 1)
        BY <1>2, <3>3
      <3> QED
        BY <3>2, <3>4
    <2> QED
      BY <2>1, <2>2
  <1>10. ASSUME NEW k \in i..(j2 - 1), NEW l \in i..(j2 - 1),
                n[k].a # 0, n[l].a # 0, k < l
         PROVE  n[k].a < n[l].a
    <2>1. CASE l = j
      <3>1. n[l].a = c
        BY <1>1, <1>2, <2>1
      <3>2. k \in i..(j - 1) /\ n[k] = m[k] /\ m[k].a \in a..(c - 1)
        BY <1>2, <1>6, <1>10, <2>1
      <3> QED
        BY <3>1, <3>2
    <2>2. CASE l # j
      <3>1. l \in i..(j - 1) /\ k \in i..(j - 1)
        BY <1>2, <1>6, <1>10, <2>2
      <3> QED
        BY <1>2, <1>10, <3>1 DEF LaidOut
    <2> QED
      BY <2>1, <2>2
  <1>11. a # c + 1 /\ i < j2 /\ n[i].a = a
    <2>1. j < j2
      BY <1>1, <1>2
    <2>2. CASE a = c
      <3>1. i = j
        BY <2>2 DEF LaidOut
      <3>2. n[j].a = c
        BY <1>1, <1>2
      <3> QED
        BY <2>1, <2>2, <3>1, <3>2
    <2>3. CASE a # c
      <3>1. i < j /\ m[i].a = a
        BY <2>3 DEF LaidOut
      <3>2. i \in i..(j - 1)
        BY <1>2, <3>1
      <3>3. n[i] = m[i]
        BY <1>2, <3>2
      <3> QED
        BY <1>2, <2>1, <3>1, <3>3
    <2> QED
      BY <2>2, <2>3
  <1>12. LaidOut(n, i, a, c + 1, j2)
    BY <1>7, <1>8, <1>9, <1>10, <1>11 DEF LaidOut
  <1> QED
    BY <1>12 DEF n, j2

-----------------------------------------------------------------------------
(* Blocks.                                                                 *)

(* A block that describes the text ends at an instruction of it.           *)
LEMMA BlockEnds ==
  ASSUME text \in Seq(Inst), NEW b \in Block, NEW a \in Int, DescribesText(a, b)
  PROVE  /\ b.lastAddr \in DOMAIN text /\ b.lastAddr \in Int /\ 0 < b.lastAddr
         /\ b.terminalInst \in Inst /\ b.terminalInst.op # "none"
         /\ b.terminalInst = Fetch(b.lastAddr)
         /\ b.firstAddr = a /\ a <= b.lastAddr
  <1>1. /\ b.lastAddr \in Int /\ b.terminalInst \in Inst
        /\ b.firstAddr = a /\ a <= b.lastAddr /\ b.terminalInst = Fetch(b.lastAddr)
    BY DEF Block, DescribesText
  <1>2. Fetch(b.lastAddr).op # "none"
    BY <1>1 DEF DescribesText
  <1>3. b.lastAddr \in DOMAIN text
    BY <1>2, FetchType
  <1>4. 0 < b.lastAddr
    BY <1>1, <1>3
  <1> QED
    BY <1>1, <1>2, <1>3, <1>4

(* The words of a block that can be given to the allocator to write.       *)
LEMMA BlockWords ==
  ASSUME text \in Seq(Inst), NEW b \in Block, NEW a \in Int, DescribesText(a, b)
  PROVE  /\ BranchExit(b.lastAddr) \in Seq(CodeWord)
         /\ Ecall(b.lastAddr) \in Seq(CodeWord)
         /\ PreInstWords(b) \in Seq(CodeWord)
         /\ \A h \in {ContextSwitch, ContextSwitchTaken} : SwitchTo(h) \in Seq(CodeWord)
  <1>1. b.lastAddr \in DOMAIN text /\ b.lastAddr \in Int /\ b.terminalInst \in Inst
    BY BlockEnds
  <1>2. /\ BranchExit(b.lastAddr) \in Seq(CodeWord)
        /\ Ecall(b.lastAddr) \in Seq(CodeWord)
        /\ NextInstWords(b.terminalInst, b.lastAddr) \in Seq(CodeWord)
    BY <1>1, InstWords
  <1>3. /\ \A h \in {ContextSwitch, ContextSwitchTaken} : SwitchTo(h) \in Seq(CodeWord)
        /\ SwitchTo(ContextSwitchInstrument) \in Seq(CodeWord)
    BY HostEntries, LibraryWords
  <1>4. PreInstWords(b) \in Seq(CodeWord)
    BY <1>2, <1>3, Joined DEF PreInstWords
  <1> QED
    BY <1>2, <1>3, <1>4

(* A block stays laid out as the cache grows behind it.                    *)
LEMMA BlockKept ==
  ASSUME text \in Seq(Inst), NEW m \in Seq(CodeWord), NEW ws \in Seq(CodeWord),
         NEW b \in Block, NEW a \in Int, DescribesText(a, b)
  PROVE  /\ PlainLayout(m, b) => PlainLayout(m \o ws, b)
         /\ PreInstLayout(m, b) => PreInstLayout(m \o ws, b)
  <1> DEFINE s == b.startLocationInCache
             n == m \o ws
  <1>1. /\ BranchExit(b.lastAddr) \in Seq(CodeWord)
        /\ Ecall(b.lastAddr) \in Seq(CodeWord)
        /\ PreInstWords(b) \in Seq(CodeWord)
        /\ \A h \in {ContextSwitch, ContextSwitchTaken} : SwitchTo(h) \in Seq(CodeWord)
    BY BlockWords
  <1>2. /\ Len(m) \in Nat /\ Len(n) \in Nat /\ Len(m) <= Len(n)
        /\ \A k \in 1..Len(m) : n[k] = m[k]
    BY Joined
  <1>3. \A i : \A us \in Seq(CodeWord) : Holds(m, i, us) => Holds(n, i, us)
    BY HoldsKept
  <1>4. ASSUME PlainLayout(m, b)
        PROVE  PlainLayout(n, b)
    <2>1. s \in 1..Len(n) /\ n[s] = RestoreScratch[1]
      BY <1>2, <1>4 DEF PlainLayout
    <2>2. ExitStart(b) \in 1..Len(m)
      BY <1>4 DEF PlainLayout, Holds
    <2>3. LaidOut(n, s + 1, b.firstAddr, ExitAddr(b), ExitStart(b))
      <3>1. s + 1 \in Nat \ {0} /\ ExitStart(b) \in 1..Len(m) + 1
        BY <1>2, <1>4, <2>2 DEF PlainLayout
      <3>2. LaidOut(m, s + 1, b.firstAddr, ExitAddr(b), ExitStart(b))
        BY <1>4 DEF PlainLayout
      <3> QED
        BY <3>1, <3>2, LaidOutKept
    <2> HIDE DEF n
    <2> QED
      BY <1>1, <1>3, <1>4, <2>1, <2>3 DEF PlainLayout
  <1>5. ASSUME PreInstLayout(m, b)
        PROVE  PreInstLayout(n, b)
    <2> HIDE DEF n
    <2> QED
      BY <1>1, <1>3, <1>5 DEF PreInstLayout
  <1> QED
    BY <1>4, <1>5

(* The cache n is m with words appended, perhaps none.                     *)
Grown(m, n) == \E ws \in Seq(CodeWord) : n = m \o ws

(* Appending nothing, once or twice.                                       *)
LEMMA Growth ==
  ASSUME NEW m \in Seq(CodeWord)
  PROVE  /\ Grown(m, m)
         /\ \A ws \in Seq(CodeWord) : Grown(m, m \o ws)
         /\ \A ws, us \in Seq(CodeWord) : Grown(m, (m \o ws) \o us)
  <1>1. << >> \in Seq(CodeWord) /\ m \o << >> = m
    BY EmptySeq, ConcatEmptySeq
  <1>2. \A ws, us \in Seq(CodeWord) :
          (m \o ws) \o us = m \o (ws \o us) /\ ws \o us \in Seq(CodeWord)
    BY ConcatAssociative, Joined
  <1>3. Grown(m, m)
    BY <1>1 DEF Grown
  <1>4. \A ws \in Seq(CodeWord) : Grown(m, m \o ws)
    BY DEF Grown
  <1>5. \A ws, us \in Seq(CodeWord) : Grown(m, (m \o ws) \o us)
    BY <1>2, <1>4
  <1> QED
    BY <1>3, <1>4, <1>5

(* So do all blocks.                                                       *)
LEMMA AllKept ==
  ASSUME CacheInv, BlocksDescribeText, NEW n, Grown(memory, n),
         AllLaidOut(memory, RailBasicBlocks)
  PROVE  AllLaidOut(n, RailBasicBlocks)
  <1> SUFFICES ASSUME NEW a \in DOMAIN RailBasicBlocks
               PROVE  PlainLayout(n, RailBasicBlocks[a]) \/ PreInstLayout(n, RailBasicBlocks[a])
    BY DEF AllLaidOut
  <1>1. a \in Int /\ RailBasicBlocks[a] \in Block
    BY DEF CacheInv, CacheTypeOK
  <1>2. DescribesText(a, RailBasicBlocks[a])
    BY DEF BlocksDescribeText
  <1>3. \/ PlainLayout(memory, RailBasicBlocks[a])
        \/ PreInstLayout(memory, RailBasicBlocks[a])
    BY DEF AllLaidOut
  <1>4. PICK ws \in Seq(CodeWord) : n = memory \o ws
    BY DEF Grown
  <1> QED
    BY <1>1, <1>2, <1>3, <1>4, BlockKept DEF CacheInv, CacheTypeOK

(* Inserting a block that is laid out leaves only such blocks.             *)
LEMMA InsertedLaidOut ==
  ASSUME NEW m, NEW blocks, AllLaidOut(m, blocks),
         NEW bb, PlainLayout(m, bb) \/ PreInstLayout(m, bb)
  PROVE  AllLaidOut(m, InsertedBB(blocks, bb))
  BY DEF AllLaidOut, InsertedBB

(* The layout depends on the cache, the text and the registration only.    *)
LEMMA SameLayout ==
  ASSUME text' = text, tool' = tool
  PROVE  /\ \A m, i, a, c, j : LaidOut(m, i, a, c, j)' <=> LaidOut(m, i, a, c, j)
         /\ \A m, b : PlainLayout(m, b)' <=> PlainLayout(m, b)
         /\ \A m, b : PreInstLayout(m, b)' <=> PreInstLayout(m, b)
         /\ \A m, blocks : AllLaidOut(m, blocks)' <=> AllLaidOut(m, blocks)
  BY DEF LaidOut, PlainLayout, PreInstLayout, AllLaidOut, Copy, Fetch, Holds,
         NeedsPreBlock, preInstrumentationRoutines

-----------------------------------------------------------------------------
(* What the allocator inserts is laid out.                                 *)

(* A block that is closed behind its instructions, with its exit and, if   *)
(* it ends in an ECALL, that ECALL, is laid out.                           *)
LEMMA ClosedLaidOut ==
  ASSUME CacheInv, NEW type \in BlockType, NEW a \in Int,
         NEW body \in Seq(CodeWord), NEW exit \in Seq(CodeWord),
         NEW n, Grown(body \o exit, n),
         Fetch(a).op # "none",
         alloc.railBB.startLocationInCache \in 1..Len(body),
         body[alloc.railBB.startLocationInCache] = RestoreScratch[1],
         LaidOut(body, alloc.railBB.startLocationInCache + 1, alloc.railBB.firstAddr,
                 a + One(Fetch(a).op \notin ControlOp), Len(body) + 1),
         Fetch(a).op = "BRANCH" => exit = BranchExit(a),
         Fetch(a).op # "BRANCH" =>
           \E h \in {ContextSwitch, ContextSwitchTaken} : exit = SwitchTo(h),
         type = "SYSCALL" => n = (body \o exit) \o Ecall(a)
  PROVE  PlainLayout(n, Closed(type, a, body \o exit))
  <1> DEFINE full  == body \o exit
             s  == alloc.railBB.startLocationInCache
             bb == Closed(type, a, full)
  <1>1. /\ bb.firstAddr = alloc.railBB.firstAddr /\ bb.lastAddr = a
        /\ bb.terminalInst = Fetch(a) /\ bb.type = type
        /\ bb.startLocationInCache = s /\ bb.endLocationInCache = Len(full) + 1
    BY AllocTypes DEF Closed, Block, EndOf
  <1>2. text \in Seq(Inst) /\ a \in DOMAIN text /\ a \in Int /\ Fetch(a) \in Inst
    BY FetchType DEF CacheInv, CacheTypeOK
  <1>3. /\ BranchExit(a) \in Seq(CodeWord) /\ Len(BranchExit(a)) = 11
        /\ \A h \in {ContextSwitch, ContextSwitchTaken} :
             SwitchTo(h) \in Seq(CodeWord) /\ Len(SwitchTo(h)) = 6
        /\ Ecall(a) \in Seq(CodeWord) /\ Len(Ecall(a)) = 1
    <2>1. Len(Ecall(a)) = 1
      BY DEF Ecall
    <2> QED
      BY <1>2, <2>1, BranchExitShape, SwitchToShape, HostEntries, InstWords
  <1>4. Len(exit) = (IF Fetch(a).op = "BRANCH" THEN 11 ELSE 6) /\ 0 < Len(exit)
    <2>1. CASE Fetch(a).op = "BRANCH"
      <3>1. exit = BranchExit(a) /\ Len(BranchExit(a)) = 11
        BY <1>3, <2>1
      <3> QED
        BY <2>1, <3>1
    <2>2. CASE Fetch(a).op # "BRANCH"
      <3>1. PICK h \in {ContextSwitch, ContextSwitchTaken} : exit = SwitchTo(h)
        BY <2>2
      <3>2. Len(SwitchTo(h)) = 6
        BY <1>3
      <3> QED
        BY <2>2, <3>1, <3>2
    <2> QED
      BY <2>1, <2>2
  <1>5. /\ full \in Seq(CodeWord) /\ Len(body) \in Nat /\ Len(full) = Len(body) + Len(exit)
        /\ Len(full) \in Nat /\ full[s] = body[s]
    BY Joined
  <1>6. PICK ws \in Seq(CodeWord) : n = full \o ws
    BY DEF Grown
  <1>7. /\ n \in Seq(CodeWord) /\ Len(n) \in Nat /\ Len(n) = Len(full) + Len(ws)
        /\ Len(ws) \in Nat /\ n[s] = full[s]
    <2> HIDE DEF full
    <2>1. s \in 1..Len(full)
      BY <1>4, <1>5
    <2>2. full \in Seq(CodeWord)
      BY <1>5
    <2>3. /\ n \in Seq(CodeWord) /\ Len(n) = Len(full) + Len(ws)
          /\ \A k \in 1..Len(full) : n[k] = full[k]
      BY <1>6, <2>2, Joined
    <2> QED
      BY <1>5, <2>1, <2>3
  <1>8. /\ ExitStart(bb) = Len(body) + 1
        /\ ExitAddr(bb) = a + One(Fetch(a).op \notin ControlOp)
        /\ EndsInBranch(bb) <=> Fetch(a).op = "BRANCH"
    <2> HIDE DEF bb, full
    <2> QED
      BY <1>1, <1>4, <1>5 DEF ExitStart, ExitAddr, EndsInBranch, EndsInControl, One
  <1>9. LaidOut(n, s + 1, bb.firstAddr, ExitAddr(bb), ExitStart(bb))
    <2>1. LaidOut(body, s + 1, bb.firstAddr, ExitAddr(bb), ExitStart(bb))
      BY <1>1, <1>8
    <2>2. /\ s + 1 \in Nat \ {0} /\ ExitStart(bb) \in 1..Len(body) + 1
          /\ ExitStart(bb) \in 1..Len(full) + 1
      <3> HIDE DEF bb, full
      <3>1. s + 1 \in Nat \ {0}
        OBVIOUS
      <3>2. Len(body) \in Nat /\ Len(exit) \in Nat
        BY <1>4, <1>5
      <3>3. Len(body) + 1 \in 1..Len(body) + 1
        BY <3>2
      <3>4. Len(body) + 1 \in 1..Len(full) + 1
        BY <1>5, <3>2
      <3> QED
        BY <1>8, <3>1, <3>3, <3>4
    <2>3. LaidOut(full, s + 1, bb.firstAddr, ExitAddr(bb), ExitStart(bb))
      <3> HIDE DEF bb
      <3> QED
        BY <1>2, <2>1, <2>2, LaidOutKept
    <2> HIDE DEF bb, full
    <2> QED
      BY <1>2, <1>5, <1>6, <2>2, <2>3, LaidOutKept
  <1>10. Holds(n, ExitStart(bb), exit)
    <2>1. Holds(full, Len(body) + 1, exit)
      BY <1>4, HoldsAppended
    <2> HIDE DEF bb, full
    <2> QED
      BY <1>5, <1>6, <1>8, <2>1, HoldsKept
  <1>11. type = "SYSCALL" => Holds(n, Len(full) + 1, Ecall(a))
    <2> HIDE DEF full
    <2>1. full \in Seq(CodeWord) /\ Ecall(a) \in Seq(CodeWord) /\ 0 < Len(Ecall(a))
      BY <1>3, <1>5
    <2>2. Holds(full \o Ecall(a), Len(full) + 1, Ecall(a))
      BY <2>1, HoldsAppended
    <2> QED
      BY <2>2 DEF full
  <1>12. s \in 1..Len(n) /\ s < ExitStart(bb)
    <2> HIDE DEF bb, full
    <2> QED
      BY <1>4, <1>5, <1>7, <1>8
  <1>13. n[s] = RestoreScratch[1]
    BY <1>5, <1>7
  <1>14. IF EndsInBranch(bb)
         THEN Holds(n, ExitStart(bb), BranchExit(bb.lastAddr))
         ELSE \E h \in {ContextSwitch, ContextSwitchTaken} :
                Holds(n, ExitStart(bb), SwitchTo(h))
    BY <1>1, <1>8, <1>10
  <1> HIDE DEF bb, full
  <1>15. PlainLayout(n, bb)
    BY <1>1, <1>9, <1>11, <1>12, <1>13, <1>14 DEF PlainLayout
  <1> QED
    BY <1>15 DEF bb, full

(* So is a pre-instrumented instruction.                                   *)
LEMMA PreInstLaidOut ==
  ASSUME CacheInv, NEW m \in Seq(CodeWord), Fetch(program_counter).op # "none",
         NeedsPreBlock(Fetch(program_counter))
  PROVE  /\ SwitchTo(ContextSwitchInstrument) \in Seq(CodeWord)
         /\ NextInstWords(Fetch(program_counter), program_counter) \in Seq(CodeWord)
         /\ PreInstLayout(m \o SwitchTo(ContextSwitchInstrument)
                            \o NextInstWords(Fetch(program_counter), program_counter),
                          PreInstBB(Fetch(program_counter), m))
  <1> DEFINE pc == program_counter
             i  == Fetch(pc)
             way == SwitchTo(ContextSwitchInstrument)
             code == NextInstWords(i, pc)
             bb == PreInstBB(i, m)
  <1>1. text \in Seq(Inst) /\ pc \in DOMAIN text /\ pc \in Int /\ i \in Inst
    BY FetchType DEF CacheInv, CacheTypeOK
  <1>2. code \in Seq(CodeWord) /\ way \in Seq(CodeWord) /\ Len(way) = 6
    BY <1>1, InstWords, SwitchToShape, HostEntries
  <1>3. bb.firstAddr = pc /\ bb.lastAddr = pc /\ bb.terminalInst = i
        /\ bb.startLocationInCache = Len(m) + 1
        /\ bb.endLocationInCache = Len(m) + 1 + 6 + Len(code)
    BY DEF PreInstBB, EndOf, InstrumentSkip
  <1>4. PreInstWords(bb) = way \o code
    BY <1>3 DEF PreInstWords
  <1> HIDE DEF bb, code, way
  <1>5. /\ way \o code \in Seq(CodeWord) /\ Len(code) \in Nat /\ Len(m) \in Nat
        /\ Len(way \o code) = 6 + Len(code)
    <2>1. way \o code \in Seq(CodeWord) /\ Len(way \o code) = Len(way) + Len(code)
      BY <1>2, Joined
    <2> QED
      BY <1>2, <2>1
  <1>6. Holds(m \o (way \o code), Len(m) + 1, way \o code)
    <2>1. way \o code \in Seq(CodeWord) /\ 0 < Len(way \o code)
      BY <1>5
    <2> QED
      BY <2>1, HoldsAppended
  <1>7. (m \o way) \o code = m \o (way \o code)
    BY <1>2, JoinedTwice
  <1>8. PreInstLayout((m \o way) \o code, bb)
    BY <1>3, <1>4, <1>5, <1>6, <1>7 DEF PreInstLayout
  <1> QED
    BY <1>2, <1>8 DEF bb, code, way

-----------------------------------------------------------------------------
(* The allocator keeps the layout.                                         *)

(* Steps that leave the allocator's variables alone keep the layout.       *)
LEMMA LayoutUnchanged ==
  ASSUME LayoutOK, UNCHANGED cacheVars
  PROVE  LayoutOK'
  <1>1. /\ text' = text /\ tool' = tool /\ program_counter' = program_counter
        /\ memory' = memory /\ RailBasicBlocks' = RailBasicBlocks /\ alloc' = alloc
    BY DEF cacheVars
  <1>2. BlocksLaidOut'
    BY <1>1, SameLayout DEF LayoutOK, BlocksLaidOut
  <1>3. AllocLaidOut'
    BY <1>1, SameLayout DEF LayoutOK, AllocLaidOut, RestoreScratch
  <1> QED
    BY <1>2, <1>3 DEF LayoutOK

(* allocateBB starts with a T6 taken back and nothing else.                *)
LEMMA AllocBeginLayout ==
  ASSUME CacheInv, MetadataOK, LayoutOK, NEW a \in Int, AllocBegin(a)
  PROVE  LayoutOK'
  <1> DEFINE n == memory \o RestoreScratch
             s == Len(memory) + 1
  <1>1. /\ text' = text /\ tool' = tool /\ RailBasicBlocks' = RailBasicBlocks
        /\ memory' = n /\ program_counter' = a
        /\ alloc'.railBB.startLocationInCache = s
        /\ alloc'.railBB.firstAddr = a
    BY DEF AllocBegin, ZeroBlock, EndOf
  <1>2. memory \in Seq(CodeWord)
    BY DEF CacheInv
  <1>3. RestoreScratch \in Seq(CodeWord) /\ Len(RestoreScratch) = 1
    BY LibraryWords, LengthTypes
  <1>4. /\ n \in Seq(CodeWord) /\ Len(n) = s /\ s \in Nat
        /\ n[s] = RestoreScratch[1]
    <2>1. /\ n \in Seq(CodeWord) /\ Len(n) = Len(memory) + Len(RestoreScratch)
          /\ \A k \in 1..Len(RestoreScratch) : n[Len(memory) + k] = RestoreScratch[k]
      BY <1>2, <1>3, Joined
    <2> HIDE DEF n
    <2> QED
      BY <1>2, <1>3, <2>1
  <1>5. BlocksLaidOut'
    <2>1. AllLaidOut(n, RailBasicBlocks)
      BY <1>2, <1>3, Growth, AllKept DEF LayoutOK, BlocksLaidOut, MetadataOK
    <2> HIDE DEF n
    <2> QED
      BY <1>1, <2>1, SameLayout DEF BlocksLaidOut
  <1> HIDE DEF n
  <1>6. LaidOut(n, s + 1, a, a, Len(n) + 1)
    BY <1>4, LaidOutNone
  <1> HIDE DEF s
  <1>7. s \in 1..Len(n)
    BY <1>4 DEF s
  <1>8. AllocLaidOut'
    BY <1>1, <1>4, <1>6, <1>7, SameLayout DEF AllocLaidOut, RestoreScratch
  <1> QED
    BY <1>5, <1>8 DEF LayoutOK

(* Inserting a block that is laid out in the cache as it has become.       *)
LEMMA InsertLayout ==
  ASSUME CacheInv, MetadataOK, LayoutOK, text' = text, tool' = tool, alloc' = Idle,
         Grown(memory, memory'), NEW bb,
         PlainLayout(memory', bb) \/ PreInstLayout(memory', bb),
         RailBasicBlocks' = InsertedBB(RailBasicBlocks, bb)
  PROVE  LayoutOK'
  <1>1. AllLaidOut(memory', RailBasicBlocks)
    BY AllKept DEF LayoutOK, BlocksLaidOut, MetadataOK
  <1>2. AllLaidOut(memory', RailBasicBlocks')
    BY <1>1, InsertedLaidOut
  <1>3. BlocksLaidOut'
    BY <1>2, SameLayout DEF BlocksLaidOut
  <1>4. AllocLaidOut'
    BY DEF AllocLaidOut, Idle
  <1> QED
    BY <1>3, <1>4 DEF LayoutOK

(* A jump or branch ends the block where it stands.                        *)
LEMMA FinishLayout ==
  ASSUME CacheInv, MetadataOK, LayoutOK, NEW type \in BlockType \ {"SYSCALL"},
         NEW exit \in Seq(CodeWord),
         Regular(Fetch(program_counter)), Fetch(program_counter).op \in ControlOp,
         Fetch(program_counter).op = "BRANCH" => exit = BranchExit(program_counter),
         Fetch(program_counter).op # "BRANCH" =>
           \E h \in {ContextSwitch, ContextSwitchTaken} : exit = SwitchTo(h),
         FinishWith(type, exit), text' = text, tool' = tool
  PROVE  LayoutOK'
  <1> DEFINE pc == program_counter
             bb == Closed(type, pc, memory \o exit)
  <1>1. memory \in Seq(CodeWord) /\ memory \o exit \in Seq(CodeWord)
    BY Joined DEF CacheInv
  <1>2. /\ memory' = memory \o exit /\ alloc' = Idle
        /\ RailBasicBlocks' = InsertedBB(RailBasicBlocks, bb)
    BY DEF FinishWith
  <1>3. Grown(memory, memory') /\ Grown(memory \o exit, memory')
    BY <1>1, <1>2, Growth
  <1>4. /\ alloc.railBB.startLocationInCache \in 1..Len(memory)
        /\ memory[alloc.railBB.startLocationInCache] = RestoreScratch[1]
        /\ LaidOut(memory, alloc.railBB.startLocationInCache + 1,
                   alloc.railBB.firstAddr, pc, Len(memory) + 1)
        /\ Fetch(pc).op # "none"
    BY DEF Regular, LayoutOK, AllocLaidOut
  <1>5. pc \in Int /\ pc + One(Fetch(pc).op \notin ControlOp) = pc
    BY AllocTypes DEF One
  <1>6. PlainLayout(memory', bb)
    BY <1>1, <1>3, <1>4, <1>5, ClosedLaidOut
  <1> HIDE DEF bb
  <1> QED
    BY <1>2, <1>3, <1>6, InsertLayout

(* Any other instruction is laid out and the loop goes on, ...             *)
LEMMA LaidOutNext ==
  ASSUME CacheInv, MetadataOK, LayoutOK, Regular(Fetch(program_counter))
  PROVE  /\ Copy(program_counter) \in Seq(CodeWord)
         /\ memory \o Copy(program_counter) \in Seq(CodeWord)
         /\ alloc.railBB.startLocationInCache \in 1..Len(memory \o Copy(program_counter))
         /\ (memory \o Copy(program_counter))[alloc.railBB.startLocationInCache]
              = RestoreScratch[1]
         /\ LaidOut(memory \o Copy(program_counter),
                    alloc.railBB.startLocationInCache + 1, alloc.railBB.firstAddr,
                    program_counter + 1, Len(memory \o Copy(program_counter)) + 1)
  <1> DEFINE pc == program_counter
             s  == alloc.railBB.startLocationInCache
             n  == memory \o Copy(pc)
  <1>1. /\ alloc.busy /\ Fetch(pc).op # "none" /\ text \in Seq(Inst)
        /\ pc \in Int /\ alloc.railBB.firstAddr \in Int /\ memory \in Seq(CodeWord)
    BY AllocTypes DEF Regular, CacheInv, CacheTypeOK
  <1>2. /\ s \in 1..Len(memory) /\ memory[s] = RestoreScratch[1]
        /\ LaidOut(memory, s + 1, alloc.railBB.firstAddr, pc, Len(memory) + 1)
        /\ alloc.railBB.firstAddr <= pc
    BY <1>1 DEF LayoutOK, AllocLaidOut, MetadataOK, AllocDescribesText
  <1>3. Copy(pc) \in Seq(CodeWord)
    BY <1>1, CopyShape
  <1>4. /\ n \in Seq(CodeWord) /\ Len(n) = Len(memory) + Len(Copy(pc))
        /\ \A k \in 1..Len(memory) : n[k] = memory[k]
    BY <1>1, <1>3, Joined
  <1>5. s + 1 \in 1..Len(memory) + 1
    BY <1>1, <1>2
  <1>6. LaidOut(n, s + 1, alloc.railBB.firstAddr, pc + 1, Len(n) + 1)
    BY <1>1, <1>2, <1>5, LaidOutGrows
  <1>7. s \in 1..Len(n)
    <2> HIDE DEF n
    <2> QED
      BY <1>1, <1>2, <1>3, <1>4
  <1> QED
    BY <1>2, <1>3, <1>4, <1>6, <1>7

LEMMA ContinueLayout ==
  ASSUME CacheInv, MetadataOK, LayoutOK, Regular(Fetch(program_counter)),
         ContinueWith(Copy(program_counter)), text' = text, tool' = tool
  PROVE  LayoutOK'
  <1> DEFINE pc == program_counter
             s  == alloc.railBB.startLocationInCache
             n  == memory \o Copy(pc)
  <1>1. /\ memory' = n /\ RailBasicBlocks' = RailBasicBlocks /\ pc' = pc + 1
        /\ alloc'.railBB = alloc.railBB
    BY DEF ContinueWith, CacheInv, CacheTypeOK
  <1>2. /\ Copy(pc) \in Seq(CodeWord) /\ s \in 1..Len(n) /\ n[s] = RestoreScratch[1]
        /\ LaidOut(n, s + 1, alloc.railBB.firstAddr, pc + 1, Len(n) + 1)
    BY LaidOutNext
  <1>3. BlocksLaidOut'
    <2>1. memory \in Seq(CodeWord)
      BY DEF CacheInv
    <2>2. AllLaidOut(n, RailBasicBlocks)
      BY <1>2, <2>1, Growth, AllKept DEF LayoutOK, BlocksLaidOut, MetadataOK
    <2> HIDE DEF n
    <2> QED
      BY <1>1, <2>2, SameLayout DEF BlocksLaidOut
  <1>4. AllocLaidOut'
    <2> HIDE DEF n
    <2> QED
      BY <1>1, <1>2, SameLayout DEF AllocLaidOut, RestoreScratch
  <1> QED
    BY <1>3, <1>4 DEF LayoutOK

(* ... or the block is closed behind it.                                   *)
LEMMA SegmentLayout ==
  ASSUME CacheInv, MetadataOK, LayoutOK, Regular(Fetch(program_counter)),
         Fetch(program_counter).op \notin ControlOp,
         FinishWith("SEGMENTED", Copy(program_counter) \o SwitchTo(ContextSwitchTaken)),
         text' = text, tool' = tool
  PROVE  LayoutOK'
  <1> DEFINE pc   == program_counter
             s    == alloc.railBB.startLocationInCache
             body == memory \o Copy(pc)
             exit == SwitchTo(ContextSwitchTaken)
             bb   == Closed("SEGMENTED", pc, body \o exit)
  <1>1. /\ memory \in Seq(CodeWord) /\ Copy(pc) \in Seq(CodeWord)
        /\ body \in Seq(CodeWord) /\ exit \in Seq(CodeWord)
        /\ "SEGMENTED" \in BlockType /\ "SEGMENTED" # "SYSCALL"
    BY LaidOutNext, LibraryWords, HostEntries DEF CacheInv, BlockType
  <1>2. memory \o (Copy(pc) \o exit) = body \o exit
    BY <1>1, JoinedTwice
  <1>3. /\ memory' = body \o exit /\ alloc' = Idle
        /\ RailBasicBlocks' = InsertedBB(RailBasicBlocks, bb)
    BY <1>2 DEF FinishWith
  <1>4. Grown(memory, memory') /\ Grown(body \o exit, memory')
    <2>1. body \o exit \in Seq(CodeWord)
      BY <1>1, Joined
    <2> QED
      BY <1>1, <1>3, <2>1, Growth
  <1>5. /\ s \in 1..Len(body) /\ body[s] = RestoreScratch[1]
        /\ LaidOut(body, s + 1, alloc.railBB.firstAddr, pc + 1, Len(body) + 1)
    BY LaidOutNext
  <1>6. /\ pc \in Int /\ pc + One(Fetch(pc).op \notin ControlOp) = pc + 1
        /\ Fetch(pc).op # "BRANCH" /\ Fetch(pc).op # "none"
    BY AllocTypes DEF One, ControlOp, Regular
  <1> HIDE DEF body
  <1>7. PlainLayout(memory', bb)
    BY <1>1, <1>4, <1>5, <1>6, ClosedLaidOut
  <1> HIDE DEF bb, exit
  <1> QED
    BY <1>3, <1>4, <1>7, InsertLayout

(* An ECALL ends the block and is kept behind it.                          *)
LEMMA SystemLayout ==
  ASSUME CacheInv, MetadataOK, LayoutOK, AllocSystem
  PROVE  LayoutOK'
  <1> DEFINE pc   == program_counter
             exit == SwitchTo(ContextSwitch)
             bb   == Closed("SYSCALL", pc, memory \o exit)
  <1>1. /\ text' = text /\ tool' = tool /\ alloc' = Idle
        /\ memory' = (memory \o exit) \o Ecall(pc)
        /\ RailBasicBlocks' = InsertedBB(RailBasicBlocks, bb)
        /\ alloc.busy /\ Fetch(pc).op = "SYSTEM" /\ Fetch(pc).op # "none"
    BY DEF AllocSystem, Regular
  <1>2. pc \in Int /\ pc \in DOMAIN text /\ Fetch(pc) \in Inst
    BY <1>1, FetchType DEF CacheInv, CacheTypeOK
  <1>3. memory \in Seq(CodeWord) /\ exit \in Seq(CodeWord) /\ Ecall(pc) \in Seq(CodeWord)
    BY <1>2, InstWords, LibraryWords, HostEntries DEF CacheInv
  <1>4. Grown(memory, memory') /\ Grown(memory \o exit, memory')
    <2>1. memory \o exit \in Seq(CodeWord)
      BY <1>3, Joined
    <2> QED
      BY <1>1, <1>3, <2>1, Growth
  <1>5. /\ alloc.railBB.startLocationInCache \in 1..Len(memory)
        /\ memory[alloc.railBB.startLocationInCache] = RestoreScratch[1]
        /\ LaidOut(memory, alloc.railBB.startLocationInCache + 1,
                   alloc.railBB.firstAddr, pc, Len(memory) + 1)
    BY <1>1 DEF LayoutOK, AllocLaidOut
  <1>6. pc + One(Fetch(pc).op \notin ControlOp) = pc /\ "SYSCALL" \in BlockType
    BY <1>1, <1>2 DEF One, ControlOp, BlockType
  <1>7. PlainLayout(memory', bb)
    <2>1. /\ Fetch(pc).op # "BRANCH"
          /\ exit = SwitchTo(ContextSwitch)
      BY <1>1
    <2> HIDE DEF exit
    <2> QED
      BY <1>1, <1>2, <1>3, <1>4, <1>5, <1>6, <2>1, ClosedLaidOut
  <1> HIDE DEF bb, exit
  <1> QED
    BY <1>1, <1>4, <1>7, InsertLayout

(* A typed PRE routine cuts the block before its instruction and gives     *)
(* that one a block; both are laid out.                                    *)
LEMMA PreInstLayoutKept ==
  ASSUME CacheInv, MetadataOK, LayoutOK, AllocPreInst
  PROVE  LayoutOK'
  <1> DEFINE pc     == program_counter
             i      == Fetch(pc)
             first  == alloc.railBB.firstAddr
             s      == alloc.railBB.startLocationInCache
             cut    == alloc.allocatedPrev > 0
             exit   == SwitchTo(ContextSwitch)
             words  == IF cut THEN memory \o exit ELSE memory
             seg    == Closed("SEGMENTED", LastLaidOut, words)
             blocks == IF cut THEN InsertedBB(RailBasicBlocks, seg) ELSE RailBasicBlocks
             bb     == PreInstBB(i, words)
             way    == SwitchTo(ContextSwitchInstrument)
             code   == NextInstWords(i, pc)
  <1>1. /\ pc \in Int /\ first \in Int /\ alloc.allocatedPrev \in Nat
        /\ memory \in Seq(CodeWord) /\ exit \in Seq(CodeWord)
    BY AllocTypes, LibraryWords, HostEntries DEF CacheInv
  <1>2. /\ alloc.busy /\ i.op # "none" /\ NeedsPreBlock(i)
        /\ text' = text /\ tool' = tool /\ alloc' = Idle
    BY DEF AllocPreInst
  <1>3. \/ memory' = words /\ RailBasicBlocks' = blocks
        \/ memory' = (words \o way) \o code /\ RailBasicBlocks' = InsertedBB(blocks, bb)
    BY DEF AllocPreInst
  <1>4. words \in Seq(CodeWord) /\ Grown(memory, words)
    BY <1>1, Joined, Growth
  <1>5. /\ way \in Seq(CodeWord) /\ code \in Seq(CodeWord)
        /\ PreInstLayout((words \o way) \o code, bb)
    <2> HIDE DEF words
    <2> QED
      BY <1>2, <1>4, PreInstLaidOut
  <1>6. /\ \/ memory' = words
           \/ memory' = (words \o way) \o code
        /\ Grown(words, memory')
    <2> HIDE DEF words, way, code
    <2> QED
      BY <1>3, <1>4, <1>5, Growth
  <1>7. Grown(memory, memory')
    <2>1. CASE cut
      <3>1. words = memory \o exit
        BY <2>1
      <3> HIDE DEF words, way, code, exit
      <3>2. exit \o way \in Seq(CodeWord) /\ (memory \o exit) \o way = memory \o (exit \o way)
        <4>1. memory \in Seq(CodeWord) /\ exit \in Seq(CodeWord) /\ way \in Seq(CodeWord)
          BY <1>1, <1>5
        <4>2. exit \o way \in Seq(CodeWord)
          BY <4>1, Joined
        <4>3. (memory \o exit) \o way = memory \o (exit \o way)
          BY <4>1, JoinedTwice
        <4> QED
          BY <4>2, <4>3
      <3> QED
        BY <1>1, <1>5, <1>6, <3>1, <3>2, Growth
    <2>2. CASE ~cut
      <3>1. words = memory
        BY <2>2
      <3> HIDE DEF words
      <3> QED
        BY <1>6, <3>1
    <2> QED
      BY <2>1, <2>2
  <1>8. CASE cut
    <2>1. /\ alloc.allocatedPrev = pc - first
          /\ StraightLine(first, pc)
          /\ s \in 1..Len(memory) /\ memory[s] = RestoreScratch[1]
          /\ LaidOut(memory, s + 1, first, pc, Len(memory) + 1)
      BY <1>2 DEF MetadataOK, AllocDescribesText, LayoutOK, AllocLaidOut
    <2>2. /\ LastLaidOut \in Int /\ LastLaidOut = pc - 1
          /\ LastLaidOut \in first..(pc - 1)
      <3>1. alloc.allocatedPrev = pc - first
        BY <2>1
      <3> QED
        BY <1>1, <1>8, <3>1 DEF LastLaidOut
    <2>3. Fetch(LastLaidOut).op \notin ControlOp \cup {"none"}
      BY <2>1, <2>2 DEF StraightLine
    <2>4. /\ LastLaidOut + One(Fetch(LastLaidOut).op \notin ControlOp) = pc
          /\ Fetch(LastLaidOut).op # "BRANCH" /\ Fetch(LastLaidOut).op # "none"
          /\ "SEGMENTED" \in BlockType /\ "SEGMENTED" # "SYSCALL"
      BY <1>1, <2>2, <2>3 DEF One, ControlOp, BlockType
    <2>5. words = memory \o exit
      BY <1>8
    <2>6. PlainLayout(memory', Closed("SEGMENTED", LastLaidOut, memory \o exit))
      <3>1. Grown(memory \o exit, memory')
        <4> HIDE DEF words
        <4> QED
          BY <1>6, <2>5
      <3>2. exit = SwitchTo(ContextSwitch)
        OBVIOUS
      <3> HIDE DEF exit
      <3> QED
        BY <1>1, <2>1, <2>2, <2>4, <3>1, <3>2, ClosedLaidOut
    <2>7. PlainLayout(memory', seg) /\ blocks = InsertedBB(RailBasicBlocks, seg)
      BY <1>8, <2>5, <2>6
    <2> HIDE DEF seg, blocks, bb, words, way, code
    <2>8. \/ RailBasicBlocks' = InsertedBB(RailBasicBlocks, seg)
          \/ /\ RailBasicBlocks' = InsertedBB(InsertedBB(RailBasicBlocks, seg), bb)
             /\ PreInstLayout(memory', bb)
      BY <1>3, <1>5, <2>7
    <2>9. AllLaidOut(memory', RailBasicBlocks)
      BY <1>7, AllKept DEF LayoutOK, BlocksLaidOut, MetadataOK
    <2>10. AllLaidOut(memory', InsertedBB(RailBasicBlocks, seg))
      BY <2>7, <2>9, InsertedLaidOut
    <2>11. AllLaidOut(memory', RailBasicBlocks')
      BY <2>8, <2>10, InsertedLaidOut
    <2>12. BlocksLaidOut'
      BY <1>2, <2>11, SameLayout DEF BlocksLaidOut
    <2>13. AllocLaidOut'
      BY <1>2 DEF AllocLaidOut, Idle
    <2> QED
      BY <2>12, <2>13 DEF LayoutOK
  <1>9. CASE ~cut
    <2>1. words = memory /\ blocks = RailBasicBlocks
      BY <1>9
    <2> HIDE DEF seg, blocks, bb, words, way, code
    <2>2. \/ RailBasicBlocks' = RailBasicBlocks
          \/ RailBasicBlocks' = InsertedBB(RailBasicBlocks, bb) /\ PreInstLayout(memory', bb)
      BY <1>3, <1>5, <2>1
    <2>3. AllLaidOut(memory', RailBasicBlocks)
      BY <1>7, AllKept DEF LayoutOK, BlocksLaidOut, MetadataOK
    <2>4. AllLaidOut(memory', RailBasicBlocks')
      BY <2>2, <2>3, InsertedLaidOut
    <2>5. BlocksLaidOut'
      BY <1>2, <2>4, SameLayout DEF BlocksLaidOut
    <2>6. AllocLaidOut'
      BY <1>2 DEF AllocLaidOut, Idle
    <2> QED
      BY <2>5, <2>6 DEF LayoutOK
  <1> QED
    BY <1>8, <1>9

(* Every step of allocateBB's loop keeps the layout.                       *)
LEMMA AllocStepLayout ==
  ASSUME CacheInv, MetadataOK, LayoutOK, AllocStep
  PROVE  LayoutOK'
  <1> DEFINE pc == program_counter
             i  == Fetch(pc)
  <1>1. CASE AllocPreInst
    BY <1>1, PreInstLayoutKept
  <1>2. CASE AllocSystem
    BY <1>2, SystemLayout
  <1>3. CASE AllocBranch
    <2>1. /\ Regular(i) /\ i.op = "BRANCH" /\ i.op \in ControlOp
          /\ FinishWith("DIRECT_BRANCH", BranchExit(pc)) /\ text' = text /\ tool' = tool
          /\ "DIRECT_BRANCH" \in BlockType \ {"SYSCALL"}
      BY <1>3 DEF AllocBranch, ControlOp, BlockType
    <2>2. BranchExit(pc) \in Seq(CodeWord)
      BY <2>1, FetchType, InstWords DEF Regular, CacheInv, CacheTypeOK
    <2> QED
      BY <2>1, <2>2, FinishLayout
  <1>4. CASE AllocJal \/ AllocJalr
    <2>1. PICK type \in BlockType \ {"SYSCALL"} :
            /\ FinishWith(type, SwitchTo(ContextSwitchTaken))
            /\ text' = text /\ tool' = tool
      BY <1>4 DEF AllocJal, AllocJalr, BlockType
    <2>2. Regular(i) /\ i.op \in ControlOp /\ i.op # "BRANCH"
      BY <1>4 DEF AllocJal, AllocJalr, ControlOp
    <2>3. SwitchTo(ContextSwitchTaken) \in Seq(CodeWord)
      BY LibraryWords, HostEntries
    <2> QED
      BY <2>1, <2>2, <2>3, FinishLayout
  <1>5. CASE AllocInLine
    <2>1. Regular(i) /\ i.op \notin ControlOp /\ text' = text /\ tool' = tool
      BY <1>5 DEF AllocInLine
    <2>2. \/ FinishWith("SEGMENTED", Copy(pc) \o SwitchTo(ContextSwitchTaken))
          \/ ContinueWith(Copy(pc))
      BY <1>5 DEF AllocInLine, Copy
    <2> QED
      BY <2>1, <2>2, SegmentLayout, ContinueLayout
  <1>6. CASE AllocAmo
    <2>1. Regular(i) /\ ContinueWith(Copy(pc)) /\ text' = text /\ tool' = tool
      BY <1>6 DEF AllocAmo, Copy
    <2> QED
      BY <2>1, ContinueLayout
  <1>7. CASE AllocEnd
    <2>1. /\ text' = text /\ tool' = tool /\ memory' = memory
          /\ RailBasicBlocks' = RailBasicBlocks /\ alloc' = Idle
      BY <1>7 DEF AllocEnd
    <2>2. BlocksLaidOut'
      BY <2>1, SameLayout DEF LayoutOK, BlocksLaidOut
    <2>3. AllocLaidOut'
      BY <2>1 DEF AllocLaidOut, Idle
    <2> QED
      BY <2>2, <2>3 DEF LayoutOK
  <1> QED
    BY <1>1, <1>2, <1>3, <1>4, <1>5, <1>6, <1>7 DEF AllocStep

-----------------------------------------------------------------------------
(* The engine keeps the layout.                                            *)

(* stub's change of a block's basicBlockAddress moves nothing.             *)
LEMMA AdoptLayout ==
  ASSUME CacheInv, LayoutOK, Stub_Enter
  PROVE  LayoutOK'
  <1> DEFINE key == frame.nextBlockAddr
             bba == frame.currentBasicBlock.basicBlockAddress
  <1>1. /\ text' = text /\ tool' = tool /\ memory' = memory
        /\ program_counter' = program_counter /\ alloc' = alloc
    BY DEF Stub_Enter
  <1>2. RailBasicBlocks' \in {RailBasicBlocks,
                              [RailBasicBlocks EXCEPT ![key].basicBlockAddress = bba]}
    BY DEF Stub_Enter, AdoptSegment
  <1>3. DOMAIN RailBasicBlocks' = DOMAIN RailBasicBlocks
    BY <1>2
  <1>4. ASSUME NEW a \in DOMAIN RailBasicBlocks
        PROVE  \/ PlainLayout(memory, RailBasicBlocks'[a])
               \/ PreInstLayout(memory, RailBasicBlocks'[a])
    <2> DEFINE b == RailBasicBlocks[a]
               c == RailBasicBlocks'[a]
    <2>1. b \in Block
      BY DEF CacheInv, CacheTypeOK
    <2>2. c = b \/ c = [b EXCEPT !.basicBlockAddress = bba]
      BY <1>2
    <2>3. /\ c.startLocationInCache = b.startLocationInCache
          /\ c.endLocationInCache = b.endLocationInCache
          /\ c.firstAddr = b.firstAddr /\ c.lastAddr = b.lastAddr
          /\ c.type = b.type /\ c.terminalInst = b.terminalInst
      BY <2>1, <2>2 DEF Block
    <2>4. PlainLayout(memory, b) \/ PreInstLayout(memory, b)
      BY DEF LayoutOK, BlocksLaidOut, AllLaidOut
    <2> HIDE DEF b, c
    <2>5. PlainLayout(memory, b) => PlainLayout(memory, c)
      BY <2>3 DEF PlainLayout, ExitStart, ExitAddr, EndsInBranch, EndsInControl
    <2>6. PreInstLayout(memory, b) => PreInstLayout(memory, c)
      BY <2>3 DEF PreInstLayout, PreInstWords
    <2>7. PlainLayout(memory, c) \/ PreInstLayout(memory, c)
      BY <2>4, <2>5, <2>6
    <2> QED
      BY <2>7 DEF c
  <1>5. BlocksLaidOut'
    <2>1. AllLaidOut(memory, RailBasicBlocks')
      BY <1>3, <1>4 DEF AllLaidOut
    <2> QED
      BY <1>1, <2>1, SameLayout DEF BlocksLaidOut
  <1>6. AllocLaidOut'
    BY <1>1, SameLayout DEF LayoutOK, AllocLaidOut, RestoreScratch
  <1> QED
    BY <1>5, <1>6 DEF LayoutOK

(* stub's edge, locals and allocation keep the layout.                     *)
LEMMA LeaveForLayout ==
  ASSUME CacheInv, MetadataOK, LayoutOK, NEW cur, NEW next \in Int, NEW execLast,
         LeaveFor(cur, next, execLast)
  PROVE  LayoutOK'
  BY AllocBeginLayout, LayoutUnchanged DEF LeaveFor, AllocateIfMissing

(* So does every step of the host,                                         *)
LEMMA HostStepLayout ==
  ASSUME CacheInv, DispatcherTypeOK, MetadataOK, LayoutOK, HostStep
  PROVE  LayoutOK'
  <1> DEFINE cur  == Lookup(currentBB)
             a    == cur.lastAddr
             next == NextBlockAddr(cur.terminalInst, a)
  <1>1. a \in Int /\ a + 1 \in Int /\ next \in Int
    BY CurrentBlockType, NextBlockAddrType
  <1>2. CASE Init_Allocate
    BY <1>2, AllocBeginLayout DEF Init_Allocate, CacheInv, CacheTypeOK
  <1>3. CASE Stub_Transfer
    <2>1. LeaveFor(cur, next, FALSE)
      BY <1>3 DEF Stub_Transfer
    <2> HIDE DEF cur, next
    <2> QED
      BY <1>1, <2>1, LeaveForLayout
  <1>4. CASE Stub_Segment \/ Stub_Emulate \/ Stub_Forward
    <2>1. \E e \in BOOLEAN : LeaveFor(cur, a + 1, e)
      BY <1>4 DEF Stub_Segment, Stub_Emulate, Stub_Forward
    <2> HIDE DEF cur, a
    <2> QED
      BY <1>1, <2>1, LeaveForLayout
  <1>5. CASE Stub_Enter
    BY <1>5, AdoptLayout
  <1>6. CASE Init_Enter \/ Stub_Exit \/ Stub_GiveUp \/ Instrument
    <2>1. UNCHANGED cacheVars
      BY <1>6 DEF Init_Enter, Stub_Exit, Stub_GiveUp, Instrument
    <2> QED
      BY <2>1, LayoutUnchanged
  <1> QED
    BY <1>2, <1>3, <1>4, <1>5, <1>6 DEF HostStep

(* The processor writes nothing into the cache.                            *)
LEMMA RunStepCache ==
  ASSUME RunStep
  PROVE  UNCHANGED cacheVars
  BY DEF RunStep, RunRestoreScratch, RunInlineSave, RunLi, RunBranch,
         RunGuestWord, RunEcall, RunJumpInCache, RunSwitch, RunJalRoot, RunCrash

(* and every step of the engine.                                           *)
LEMMA NextLayout ==
  ASSUME TypeInv, MetadataOK, LayoutOK, [Next]_vars
  PROVE  LayoutOK'
  <1>0. CacheInv /\ DispatcherTypeOK
    BY TypeInvParts
  <1>1. CASE RunStep
    BY <1>1, RunStepCache, LayoutUnchanged
  <1>2. CASE HostStep
    BY <1>0, <1>2, HostStepLayout
  <1>3. CASE Allocate
    BY <1>0, <1>3, AllocStepLayout DEF Allocate
  <1>4. CASE Halted \/ UNCHANGED vars
    BY <1>4, LayoutUnchanged DEF Halted, vars
  <1> QED
    BY <1>1, <1>2, <1>3, <1>4 DEF Next

(* The three invariants together.                                          *)
CacheOK == TypeInv /\ MetadataOK /\ LayoutOK

LEMMA CacheCorrect == Spec => []CacheOK
  <1>1. Init => CacheOK
    <2> SUFFICES ASSUME Init PROVE CacheOK
      OBVIOUS
    <2>1. /\ DOMAIN RailBasicBlocks = {} /\ ~alloc.busy
      BY DEF Init, CacheInit, Idle
    <2>2. MetadataOK
      BY <2>1 DEF MetadataOK, BlocksDescribeText, AllocDescribesText
    <2>3. LayoutOK
      BY <2>1 DEF LayoutOK, BlocksLaidOut, AllLaidOut, AllocLaidOut
    <2> QED
      BY <2>2, <2>3, InitType DEF CacheOK
  <1>2. CacheOK /\ [Next]_vars => CacheOK'
    BY NextType, NextMetadata, NextLayout DEF CacheOK
  <1> QED
    BY <1>1, <1>2, PTL DEF Spec

-----------------------------------------------------------------------------
(* The cache mirrors the text.                                             *)

(* The words of an exit that name an instruction, and its last word.       *)
LEMMA PlainExit ==
  ASSUME CacheInv, NEW a \in Int, NEW b \in Block, DescribesText(a, b),
         PlainLayout(memory, b)
  PROVE  LET e   == ExitStart(b)
             end == b.endLocationInCache
         IN  /\ e \in Nat /\ end \in Nat /\ e < end
             /\ \A k \in e..(end - 1) : memory[k].a # 0 => EndsInBranch(b) /\ k = e + 2
             /\ EndsInBranch(b) => e + 2 < end /\ memory[e + 2].a = b.lastAddr
             /\ memory[end - 1].k = "jalrT6"
  <1> DEFINE e   == ExitStart(b)
             end == b.endLocationInCache
  <1>1. end \in Nat /\ Cont.a = 0 /\ text \in Seq(Inst)
    BY DEF Block, Cont, W, CacheInv, CacheTypeOK
  <1>2. b.lastAddr \in DOMAIN text
    BY <1>1, BlockEnds
  <1>3. CASE EndsInBranch(b)
    <2> DEFINE ws == BranchExit(b.lastAddr)
    <2>1. /\ Len(ws) = 11 /\ ws[3].a = b.lastAddr /\ ws[11].k = "jalrT6"
          /\ \A k \in 1..11 : k # 3 => ws[k].a = 0
      <3>0. /\ Len(ws) = 11 /\ ws[1] = W("save", 0, 0) /\ ws[2] = Cont
            /\ ws[3] = W("branch", b.lastAddr, 0)
            /\ ws[4] = W("li", 0, ContextSwitch) /\ ws[5] = Cont /\ ws[6] = Cont
            /\ ws[7] = W("jalrT6", 0, 0)
            /\ ws[8] = W("li", 0, ContextSwitchTaken) /\ ws[9] = Cont /\ ws[10] = Cont
            /\ ws[11] = W("jalrT6", 0, 0)
        BY <1>1, <1>2, BranchExitShape
      <3> HIDE DEF ws
      <3>1. /\ Len(ws) = 11 /\ ws[3].a = b.lastAddr /\ ws[11].k = "jalrT6"
            /\ ws[1].a = 0 /\ ws[2].a = 0 /\ ws[4].a = 0 /\ ws[5].a = 0 /\ ws[6].a = 0
            /\ ws[7].a = 0 /\ ws[8].a = 0 /\ ws[9].a = 0 /\ ws[10].a = 0 /\ ws[11].a = 0
        BY <3>0, WordFields
      <3>2. \A k \in 1..11 : k \in {1, 2, 3, 4, 5, 6, 7, 8, 9, 10, 11}
        OBVIOUS
      <3> QED
        BY <3>1, <3>2
    <2>2. Holds(memory, e, ws) /\ e = end - 11
      BY <1>3 DEF PlainLayout, ExitStart
    <2> HIDE DEF ws, e
    <2>3. /\ e \in Nat /\ end = e + 11
          /\ \A k \in 1..11 : memory[e + k - 1] = ws[k]
      <3>1. e \in Nat /\ \A k \in 1..Len(ws) : memory[e + k - 1] = ws[k]
        BY <2>2 DEF Holds
      <3> QED
        BY <1>1, <2>1, <2>2, <3>1
    <2>4. memory[e + 2] = ws[3] /\ memory[end - 1] = ws[11]
      <3>1. e + 3 - 1 = e + 2 /\ e + 11 - 1 = end - 1
        BY <2>3
      <3> QED
        BY <2>3, <3>1
    <2>5. ASSUME NEW k \in e..(end - 1), memory[k].a # 0
          PROVE  k = e + 2
      <3>1. k - e + 1 \in 1..11 /\ e + (k - e + 1) - 1 = k
        BY <2>3
      <3>2. memory[k] = ws[k - e + 1]
        BY <2>3, <3>1
      <3> QED
        BY <2>1, <2>3, <2>5, <3>1, <3>2
    <2>6. e < end /\ e + 2 < end
      BY <2>3
    <2> QED
      BY <1>1, <1>3, <2>1, <2>3, <2>4, <2>5, <2>6 DEF e
  <1>4. CASE ~EndsInBranch(b)
    <2>1. PICK h \in {ContextSwitch, ContextSwitchTaken} : Holds(memory, e, SwitchTo(h))
      BY <1>4 DEF PlainLayout
    <2> DEFINE ws == SwitchTo(h)
    <2>2. Len(ws) = 6 /\ ws[6].k = "jalrT6" /\ \A k \in 1..6 : ws[k].a = 0
      <3>1. /\ Len(ws) = 6 /\ ws[6].k = "jalrT6" /\ ws[1].a = 0 /\ ws[2].a = 0
            /\ ws[3].a = 0 /\ ws[4].a = 0 /\ ws[5].a = 0 /\ ws[6].a = 0
        BY SwitchToShape, HostEntries, WordFields
      <3>2. \A k \in 1..6 : k \in {1, 2, 3, 4, 5, 6}
        OBVIOUS
      <3> HIDE DEF ws
      <3> QED
        BY <3>1, <3>2
    <2>3. Holds(memory, e, ws) /\ e = end - 6
      BY <1>4, <2>1 DEF ExitStart
    <2> HIDE DEF ws, e
    <2>4. /\ e \in Nat /\ end = e + 6
          /\ \A k \in 1..6 : memory[e + k - 1] = ws[k]
      <3>1. Holds(memory, e, ws)
        BY <2>3
      <3>2. e \in Nat /\ \A k \in 1..Len(ws) : memory[e + k - 1] = ws[k]
        BY <3>1 DEF Holds
      <3> QED
        BY <1>1, <2>2, <2>3, <3>2
    <2>5. memory[end - 1] = ws[6]
      <3>1. e + 6 - 1 = end - 1
        BY <2>4
      <3> QED
        BY <2>4, <3>1
    <2>6. ASSUME NEW k \in e..(end - 1)
          PROVE  memory[k].a = 0
      <3>1. k - e + 1 \in 1..6 /\ e + (k - e + 1) - 1 = k
        BY <2>4
      <3>2. memory[k] = ws[k - e + 1]
        BY <2>4, <3>1
      <3> QED
        BY <2>2, <3>1, <3>2
    <2>7. e < end
      BY <2>4
    <2> QED
      BY <1>1, <1>4, <2>2, <2>4, <2>5, <2>6, <2>7 DEF e
  <1> QED
    BY <1>3, <1>4

(* A block of allocateBB mirrors its instructions.                         *)
LEMMA PlainMirrors ==
  ASSUME CacheInv, NEW a \in Int, NEW b \in Block, DescribesText(a, b),
         PlainLayout(memory, b)
  PROVE  MirrorsBlock(b)
  <1> DEFINE s     == b.startLocationInCache
             e     == ExitStart(b)
             end   == b.endLocationInCache
             first == b.firstAddr
             mine  == GuestWordsOf(b)
             last  == b.lastAddr - One(b.terminalInst.op \in {"JAL", "JALR", "SYSTEM"})
  <1>1. /\ s \in Nat /\ b.lastAddr \in Int /\ first \in Int
        /\ first <= b.lastAddr /\ 0 < b.lastAddr
    BY BlockEnds DEF Block, CacheInv, CacheTypeOK
  <1>0. 0 < first
    <2>1. Fetch(first).op # "none" /\ first = a
      BY <1>1 DEF DescribesText
    <2>2. first \in DOMAIN text /\ text \in Seq(Inst)
      BY <2>1, FetchType DEF CacheInv, CacheTypeOK
    <2> QED
      BY <1>1, <2>2
  <1>2. /\ e \in Nat /\ end \in Nat /\ e < end
        /\ \A k \in e..(end - 1) : memory[k].a # 0 => EndsInBranch(b) /\ k = e + 2
        /\ EndsInBranch(b) => e + 2 < end /\ memory[e + 2].a = b.lastAddr
        /\ memory[end - 1].k = "jalrT6"
    BY PlainExit
  <1>3. /\ s < e /\ memory[s].a = 0
        /\ LaidOut(memory, s + 1, first, ExitAddr(b), e)
    BY DEF PlainLayout, RestoreScratch, W
  <1>4. /\ \A k \in (s + 1)..(e - 1) : memory[k].a # 0 => memory[k].a \in first..(ExitAddr(b) - 1)
        /\ \A x \in first..(ExitAddr(b) - 1) : \E k \in (s + 1)..(e - 1) : memory[k].a = x
        /\ \A k, l \in (s + 1)..(e - 1) :
             memory[k].a # 0 /\ memory[l].a # 0 /\ k < l => memory[k].a < memory[l].a
    BY <1>3 DEF LaidOut
  <1>5. /\ ExitAddr(b) - 1 = IF EndsInBranch(b) THEN b.lastAddr - 1 ELSE last
        /\ EndsInBranch(b) => last = b.lastAddr
        /\ ExitAddr(b) \in Int /\ last \in Int /\ first - 1 <= last
    <2>1. EndsInControl(b) <=> b.terminalInst.op \in {"BRANCH", "JAL", "JALR", "SYSTEM"}
      BY DEF EndsInControl, ControlOp
    <2> QED
      BY <1>1, <2>1 DEF ExitAddr, EndsInBranch, One
  <1> HIDE DEF e, last
  <1>6. \A k \in s..(end - 1) : k = s \/ k \in (s + 1)..(e - 1) \/ k \in e..(end - 1)
    BY <1>1, <1>2, <1>3
  <1>7. \A k \in mine : \/ k \in (s + 1)..(e - 1) /\ memory[k].a \in first..(ExitAddr(b) - 1)
                        \/ EndsInBranch(b) /\ k = e + 2
    BY <1>2, <1>3, <1>4, <1>6 DEF GuestWordsOf
  <1>8. /\ \A k \in (s + 1)..(e - 1) : memory[k].a # 0 => k \in mine
        /\ EndsInBranch(b) => e + 2 \in mine
    BY <1>1, <1>2, <1>3 DEF GuestWordsOf
  <1>9. \A k \in mine : memory[k].a # 0
    BY DEF GuestWordsOf
  <1> HIDE DEF mine
  <1>10. \A k \in mine : memory[k].a \in first..last
    BY <1>1, <1>2, <1>5, <1>7
  <1>11. ASSUME NEW x \in first..last
         PROVE  \E k \in mine : memory[k].a = x
    <2>1. CASE x \in first..(ExitAddr(b) - 1)
      <3>1. PICK k \in (s + 1)..(e - 1) : memory[k].a = x
        BY <1>4, <2>1
      <3>3. x # 0
        BY <1>1, <1>0
      <3> QED
        BY <1>8, <3>1, <3>3
    <2>2. CASE x \notin first..(ExitAddr(b) - 1)
      <3>1. EndsInBranch(b) /\ x = b.lastAddr
        BY <1>1, <1>5, <2>2
      <3> QED
        BY <1>2, <1>8, <3>1
    <2> QED
      BY <2>1, <2>2
  <1>12. ASSUME NEW k \in mine, NEW l \in mine, k < l
         PROVE  memory[k].a < memory[l].a
    <2>1. CASE k \in (s + 1)..(e - 1) /\ l \in (s + 1)..(e - 1)
      BY <1>4, <1>9, <1>12, <2>1
    <2>2. CASE k \in (s + 1)..(e - 1) /\ EndsInBranch(b) /\ l = e + 2
      <3>1. memory[l].a = b.lastAddr /\ ExitAddr(b) - 1 = b.lastAddr - 1
        BY <1>2, <1>5, <2>2
      <3>2. memory[k].a \in first..(ExitAddr(b) - 1)
        BY <1>4, <1>9, <2>2
      <3> QED
        BY <1>1, <3>1, <3>2
    <2>3. CASE EndsInBranch(b) /\ k = e + 2
      <3>1. l \in (s + 1)..(e - 1) \/ l = e + 2
        BY <1>7
      <3> QED
        BY <1>1, <1>2, <1>12, <2>3, <3>1
    <2> QED
      BY <1>7, <2>1, <2>2, <2>3
  <1>13. {memory[k].a : k \in mine} = first..last
    BY <1>10, <1>11
  <1>14. b.type = "SYSCALL" => memory[end] = W("ecall", b.lastAddr, 0)
    <2> SUFFICES ASSUME b.type = "SYSCALL" PROVE memory[end] = Ecall(b.lastAddr)[1]
      BY DEF Ecall
    <2>1. Holds(memory, end, Ecall(b.lastAddr)) /\ Len(Ecall(b.lastAddr)) = 1
      BY DEF PlainLayout, Ecall
    <2>2. memory[end + 1 - 1] = Ecall(b.lastAddr)[1]
      BY <2>1 DEF Holds
    <2> QED
      BY <1>2, <2>2
  <1> QED
    BY <1>2, <1>12, <1>13, <1>14 DEF MirrorsBlock, mine, last

(* A way out that names no instruction.                                    *)
NamesNone(ws) ==
  /\ ws \in Seq(CodeWord) /\ 0 < Len(ws)
  /\ \A k \in 1..Len(ws) : ws[k].a = 0
  /\ ws[Len(ws)].k = "jalrT6"

(* Words that end in a way out, the g-th of which alone names a.           *)
NamesOnce(ws, g, a) ==
  /\ ws \in Seq(CodeWord) /\ g \in 1..Len(ws)
  /\ ws[g].a = a
  /\ \A k \in 1..Len(ws) : k # g => ws[k].a = 0
  /\ ws[Len(ws)].k = "jalrT6"

LEMMA SwitchNamesNone ==
  ASSUME NEW h \in Int
  PROVE  NamesNone(SwitchTo(h))
  <1> DEFINE ws == SwitchTo(h)
  <1>1. /\ ws \in Seq(CodeWord) /\ Len(ws) = 6 /\ ws[6].k = "jalrT6"
        /\ ws[1].a = 0 /\ ws[2].a = 0 /\ ws[3].a = 0
        /\ ws[4].a = 0 /\ ws[5].a = 0 /\ ws[6].a = 0
    BY SwitchToShape, WordFields
  <1>2. \A k \in 1..6 : k \in {1, 2, 3, 4, 5, 6}
    OBVIOUS
  <1> HIDE DEF ws
  <1>3. NamesNone(ws)
    BY <1>1, <1>2 DEF NamesNone
  <1> QED
    BY <1>3 DEF ws

(* The way out of a memory access through T6.                              *)
LEMMA T5NamesNone == NamesNone(InlineSave \o LiT5(ContextSwitchTaken) \o JalrT6)
  <1> DEFINE ws == InlineSave \o LiT5(ContextSwitchTaken) \o JalrT6
  <1>1. /\ InlineSave \in Seq(CodeWord) /\ LiT5(ContextSwitchTaken) \in Seq(CodeWord)
        /\ JalrT6 \in Seq(CodeWord)
    BY LibraryWords, HostEntries
  <1>2. ws \in Seq(CodeWord)
    BY <1>1, Joined
  <1>3. ws = <<W("save", 0, 0), Cont>> \o <<W("liT5", 0, ContextSwitchTaken), Cont, Cont>>
               \o <<W("jalrT6", 0, 0)>>
    BY DEF InlineSave, LiT5, JalrT6
  <1>4. /\ Len(ws) = 6 /\ ws[1] = W("save", 0, 0) /\ ws[2] = Cont
        /\ ws[3] = W("liT5", 0, ContextSwitchTaken) /\ ws[4] = Cont /\ ws[5] = Cont
        /\ ws[6] = W("jalrT6", 0, 0)
    BY <1>3
  <1> HIDE DEF ws
  <1>5. /\ ws[6].k = "jalrT6" /\ ws[1].a = 0 /\ ws[2].a = 0 /\ ws[3].a = 0
        /\ ws[4].a = 0 /\ ws[5].a = 0 /\ ws[6].a = 0
    BY <1>4, WordFields
  <1>6. \A k \in 1..6 : k \in {1, 2, 3, 4, 5, 6}
    OBVIOUS
  <1>7. NamesNone(ws)
    BY <1>2, <1>4, <1>5, <1>6 DEF NamesNone
  <1> QED
    BY <1>7 DEF ws

(* The exit of a branch names the branch.                                  *)
LEMMA BranchNamesOnce ==
  ASSUME text \in Seq(Inst), NEW a, a \in DOMAIN text
  PROVE  NamesOnce(BranchExit(a), 3, a)
  <1> DEFINE ws == BranchExit(a)
  <1>1. /\ ws \in Seq(CodeWord) /\ Len(ws) = 11 /\ ws[1] = W("save", 0, 0) /\ ws[2] = Cont
        /\ ws[3] = W("branch", a, 0)
        /\ ws[4] = W("li", 0, ContextSwitch) /\ ws[5] = Cont /\ ws[6] = Cont
        /\ ws[7] = W("jalrT6", 0, 0)
        /\ ws[8] = W("li", 0, ContextSwitchTaken) /\ ws[9] = Cont /\ ws[10] = Cont
        /\ ws[11] = W("jalrT6", 0, 0)
    BY BranchExitShape
  <1> HIDE DEF ws
  <1>2. /\ ws[3].a = a /\ ws[11].k = "jalrT6"
        /\ ws[1].a = 0 /\ ws[2].a = 0 /\ ws[4].a = 0 /\ ws[5].a = 0 /\ ws[6].a = 0
        /\ ws[7].a = 0 /\ ws[8].a = 0 /\ ws[9].a = 0 /\ ws[10].a = 0 /\ ws[11].a = 0
    BY <1>1, WordFields
  <1>3. \A k \in 1..11 : k \in {1, 2, 3, 4, 5, 6, 7, 8, 9, 10, 11}
    OBVIOUS
  <1>4. NamesOnce(ws, 3, a)
    BY <1>1, <1>2, <1>3 DEF NamesOnce
  <1> QED
    BY <1>4 DEF ws

(* An instruction in line and a way out.                                   *)
LEMMA InLineNamesOnce ==
  ASSUME NEW a, NEW us \in Seq(CodeWord), NEW ws, NamesNone(ws),
         0 < Len(us), us[1].a = a, \A k \in 2..Len(us) : us[k].a = 0
  PROVE  NamesOnce(us \o ws, 1, a)
  <1> DEFINE n == us \o ws
  <1>1. ws \in Seq(CodeWord) /\ 0 < Len(ws) /\ ws[Len(ws)].k = "jalrT6"
        /\ \A k \in 1..Len(ws) : ws[k].a = 0
    BY DEF NamesNone
  <1>2. /\ n \in Seq(CodeWord) /\ Len(us) \in Nat /\ Len(ws) \in Nat
        /\ Len(n) = Len(us) + Len(ws)
        /\ \A k \in 1..Len(us) : n[k] = us[k]
        /\ \A k \in 1..Len(ws) : n[Len(us) + k] = ws[k]
    BY <1>1, Joined
  <1> HIDE DEF n
  <1>3. n[1].a = a /\ 1 \in 1..Len(n) /\ n[Len(n)].k = "jalrT6"
    <2>1. 1 \in 1..Len(us) /\ 1 \in 1..Len(n) /\ Len(ws) \in 1..Len(ws)
      BY <1>1, <1>2
    <2>2. n[1] = us[1] /\ n[Len(n)] = ws[Len(ws)]
      BY <1>2, <2>1
    <2> QED
      BY <1>1, <2>1, <2>2
  <1>4. ASSUME NEW k \in 1..Len(n), k # 1
        PROVE  n[k].a = 0
    <2>1. CASE k \in 1..Len(us)
      BY <1>2, <1>4, <2>1
    <2>2. CASE k \notin 1..Len(us)
      <3>1. k - Len(us) \in 1..Len(ws) /\ Len(us) + (k - Len(us)) = k
        BY <1>2, <2>2
      <3> QED
        BY <1>1, <1>2, <3>1
    <2> QED
      BY <2>1, <2>2
  <1>5. NamesOnce(n, 1, a)
    BY <1>2, <1>3, <1>4 DEF NamesOnce
  <1> QED
    BY <1>5 DEF n

(* The body of a pre-instrumented instruction names it once, unless stub   *)
(* performs it.                                                            *)
LEMMA NextInstNames ==
  ASSUME CacheInv, NEW a, Fetch(a).op \notin {"none", "SYSTEM"}
  PROVE  IF Fetch(a).op \in {"JAL", "JALR"}
         THEN NamesNone(NextInstWords(Fetch(a), a))
         ELSE \E g : NamesOnce(NextInstWords(Fetch(a), a), g, a)
  <1> DEFINE i    == Fetch(a)
             exit == SwitchTo(ContextSwitchTaken)
  <1>1. text \in Seq(Inst) /\ a \in DOMAIN text /\ a \in Int
    BY FetchType DEF CacheInv, CacheTypeOK
  <1>2. NamesNone(exit)
    BY SwitchNamesNone, HostEntries
  <1>3. CASE i.op = "BRANCH"
    <2>1. NextInstWords(i, a) = BranchExit(a)
      BY <1>3 DEF NextInstWords, MemoryOp
    <2> QED
      BY <1>1, <1>3, <2>1, BranchNamesOnce
  <1>4. CASE i.op \in {"JAL", "JALR"}
    <2>1. NextInstWords(i, a) = exit
      BY <1>4 DEF NextInstWords, MemoryOp
    <2> QED
      BY <1>2, <1>4, <2>1
  <1>5. CASE i.op \notin {"BRANCH", "JAL", "JALR"}
    <2> DEFINE us == Copy(a)
    <2>1. /\ us \in Seq(CodeWord) /\ 0 < Len(us) /\ us[1].a = a
          /\ \A k \in 2..Len(us) : us[k].a = 0
      BY <1>1, CopyShape, WordFields
    <2>2. us = InLine(i, a)
      BY DEF Copy
    <2>3. CASE i.op \in MemoryOp /\ i.rs1 = "t6"
      <3>1. NextInstWords(i, a)
              = us \o InlineSave \o LiT5(ContextSwitchTaken) \o JalrT6
        BY <1>5, <2>2, <2>3 DEF NextInstWords, MemoryOp
      <3>2. us \o InlineSave \o LiT5(ContextSwitchTaken) \o JalrT6
              = us \o (InlineSave \o LiT5(ContextSwitchTaken) \o JalrT6)
        <4>1. /\ InlineSave \in Seq(CodeWord) /\ LiT5(ContextSwitchTaken) \in Seq(CodeWord)
              /\ JalrT6 \in Seq(CodeWord)
              /\ InlineSave \o LiT5(ContextSwitchTaken) \in Seq(CodeWord)
          BY LibraryWords, HostEntries, Joined
        <4>2. us \o InlineSave \o LiT5(ContextSwitchTaken)
                = us \o (InlineSave \o LiT5(ContextSwitchTaken))
          BY <2>1, <4>1, JoinedTwice
        <4>3. us \in Seq(CodeWord)
          BY <2>1
        <4> HIDE DEF us
        <4>4. (us \o (InlineSave \o LiT5(ContextSwitchTaken))) \o JalrT6
                = us \o ((InlineSave \o LiT5(ContextSwitchTaken)) \o JalrT6)
          BY <4>1, <4>3, JoinedTwice
        <4> QED
          BY <4>2, <4>4
      <3> HIDE DEF us
      <3>3. NamesOnce(us \o (InlineSave \o LiT5(ContextSwitchTaken) \o JalrT6), 1, a)
        BY <2>1, T5NamesNone, InLineNamesOnce
      <3> QED
        BY <1>5, <3>1, <3>2, <3>3
    <2>4. CASE i.op = "AMO"
      <3>1. NextInstWords(i, a) = <<W("guest", a, 0)>> \o exit
        BY <2>4 DEF NextInstWords, MemoryOp
      <3>2. /\ <<W("guest", a, 0)>> \in Seq(CodeWord) /\ Len(<<W("guest", a, 0)>>) = 1
            /\ <<W("guest", a, 0)>>[1].a = a
            /\ 0 < Len(<<W("guest", a, 0)>>)
            /\ \A k \in 2..Len(<<W("guest", a, 0)>>) : <<W("guest", a, 0)>>[k].a = 0
        BY <1>1, WordType, WordFields DEF WordKind
      <3> HIDE DEF exit
      <3>3. NamesOnce(<<W("guest", a, 0)>> \o exit, 1, a)
        BY <1>2, <3>2, InLineNamesOnce
      <3> QED
        BY <1>5, <3>1, <3>3
    <2>5. CASE i.op # "AMO" /\ ~(i.op \in MemoryOp /\ i.rs1 = "t6")
      <3>1. NextInstWords(i, a) = us \o exit
        BY <1>5, <2>2, <2>5 DEF NextInstWords
      <3> HIDE DEF us, exit
      <3>2. NamesOnce(us \o exit, 1, a)
        BY <1>2, <2>1, InLineNamesOnce
      <3> QED
        BY <1>5, <3>1, <3>2
    <2> QED
      BY <2>3, <2>4, <2>5
  <1> QED
    BY <1>3, <1>4, <1>5

(* A block of a pre-instrumented instruction mirrors it.                   *)
LEMMA PreInstMirrors ==
  ASSUME CacheInv, NEW a \in Int, NEW b \in Block, DescribesText(a, b),
         PreInstLayout(memory, b), b.terminalInst.op # "SYSTEM"
  PROVE  MirrorsBlock(b)
  <1> DEFINE s    == b.startLocationInCache
             end  == b.endLocationInCache
             i    == b.terminalInst
             x    == b.lastAddr
             way  == SwitchTo(ContextSwitchInstrument)
             code == NextInstWords(i, x)
             mine == GuestWordsOf(b)
             last == x - One(i.op \in {"JAL", "JALR", "SYSTEM"})
  <1>0. s \in Nat
    BY DEF Block
  <1>1. /\ text \in Seq(Inst) /\ x \in DOMAIN text /\ x \in Int /\ 0 < x
        /\ i \in Inst /\ i.op # "none" /\ i = Fetch(x) /\ b.firstAddr = x
    BY BlockEnds DEF PreInstLayout, CacheInv, CacheTypeOK
  <1>2. way \in Seq(CodeWord) /\ Len(way) = 6 /\ \A k \in 1..6 : way[k].a = 0
    <2>1. NamesNone(way) /\ Len(way) = 6
      BY SwitchNamesNone, SwitchToShape, HostEntries
    <2> HIDE DEF way
    <2> QED
      BY <2>1 DEF NamesNone
  <1>3. IF i.op \in {"JAL", "JALR"} THEN NamesNone(code) ELSE \E g : NamesOnce(code, g, x)
    BY <1>1, NextInstNames
  <1>4. code \in Seq(CodeWord) /\ 0 < Len(code) /\ code[Len(code)].k = "jalrT6"
    <2> HIDE DEF code
    <2>1. CASE i.op \in {"JAL", "JALR"}
      BY <1>3, <2>1 DEF NamesNone
    <2>2. CASE i.op \notin {"JAL", "JALR"}
      <3>1. PICK g : NamesOnce(code, g, x)
        BY <1>3, <2>2
      <3>2. code \in Seq(CodeWord) /\ g \in 1..Len(code) /\ code[Len(code)].k = "jalrT6"
        BY <3>1 DEF NamesOnce
      <3> QED
        BY <3>2
    <2> QED
      BY <2>1, <2>2
  <1>5. PreInstWords(b) = way \o code
    BY DEF PreInstWords
  <1> HIDE DEF way, code
  <1>6. /\ Len(code) \in Nat /\ Len(way \o code) = 6 + Len(code)
        /\ \A k \in 1..6 : (way \o code)[k] = way[k]
        /\ \A k \in 1..Len(code) : (way \o code)[6 + k] = code[k]
    <2>1. /\ Len(code) \in Nat /\ Len(way \o code) = Len(way) + Len(code)
          /\ \A k \in 1..Len(way) : (way \o code)[k] = way[k]
          /\ \A k \in 1..Len(code) : (way \o code)[Len(way) + k] = code[k]
      BY <1>2, <1>4, Joined
    <2>2. Len(way) = 6
      BY <1>2
    <2> QED
      BY <2>1, <2>2
  <1>7. /\ end = s + 6 + Len(code)
        /\ \A k \in 1..(6 + Len(code)) : memory[s + k - 1] = (way \o code)[k]
    <2>1. Holds(memory, s, way \o code) /\ end = s + Len(way \o code)
      BY <1>5 DEF PreInstLayout
    <2>2. \A k \in 1..Len(way \o code) : memory[s + k - 1] = (way \o code)[k]
      BY <2>1 DEF Holds
    <2>3. Len(way \o code) = 6 + Len(code) /\ Len(code) \in Nat
      BY <1>6
    <2>4. end = s + 6 + Len(code)
      BY <1>0, <2>1, <2>3
    <2>5. \A k \in 1..(6 + Len(code)) : memory[s + k - 1] = (way \o code)[k]
      BY <2>2, <2>3
    <2> QED
      BY <2>4, <2>5
  <1>8. \A k \in s..(s + 5) : memory[k].a = 0
    <2>1. \A t \in Nat, l \in Nat : \A k \in t..(t + 5) :
            /\ k - t + 1 \in 1..6 /\ k - t + 1 \in 1..(6 + l)
            /\ t + (k - t + 1) - 1 = k
      OBVIOUS
    <2> SUFFICES ASSUME NEW k \in s..(s + 5) PROVE memory[k].a = 0
      OBVIOUS
    <2>2. Len(code) \in Nat
      BY <1>6
    <2> DEFINE p == k - s + 1
    <2>3. p \in 1..6 /\ p \in 1..(6 + Len(code)) /\ s + p - 1 = k
      BY <1>0, <2>1, <2>2
    <2> HIDE DEF p
    <2>4. memory[k] = way[p]
      BY <1>6, <1>7, <2>3
    <2> QED
      BY <1>2, <2>3, <2>4
  <1>9. \A k \in 1..Len(code) : memory[s + 5 + k] = code[k]
    <2> SUFFICES ASSUME NEW k \in 1..Len(code) PROVE memory[s + 5 + k] = code[k]
      OBVIOUS
    <2>1. 6 + k \in 1..(6 + Len(code)) /\ s + (6 + k) - 1 = s + 5 + k
      <3>1. Len(code) \in Nat
        BY <1>6
      <3> QED
        BY <1>0, <3>1
    <2> QED
      BY <1>6, <1>7, <2>1
  <1>10. memory[end - 1].k = "jalrT6"
    <2>1. Len(code) \in 1..Len(code) /\ s + 5 + Len(code) = end - 1
      BY <1>0, <1>4, <1>6, <1>7
    <2> QED
      BY <1>4, <1>9, <2>1
  <1>11. \A k \in s..(end - 1) :
           \/ k \in s..(s + 5)
           \/ k - (s + 5) \in 1..Len(code) /\ s + 5 + (k - (s + 5)) = k
    <2>1. end = s + 6 + Len(code) /\ Len(code) \in Nat
      BY <1>6, <1>7
    <2> QED
      BY <1>0, <2>1
  <1>12. /\ {memory[k].a : k \in mine} = x..last
         /\ \A k, l \in mine : k < l => memory[k].a < memory[l].a
    <2>1. CASE i.op \in {"JAL", "JALR"}
      <3>1. \A k \in 1..Len(code) : code[k].a = 0
        BY <1>3, <2>1 DEF NamesNone
      <3>2. \A k \in s..(end - 1) : memory[k].a = 0
        BY <1>8, <1>9, <1>11, <3>1
      <3>3. mine = {}
        BY <3>2 DEF GuestWordsOf
      <3>4. x..last = {}
        <4>1. last = x - 1
          BY <2>1 DEF One
        <4> QED
          BY <1>1, <4>1
      <3> HIDE DEF mine, last
      <3> QED
        BY <3>3, <3>4
    <2>2. CASE i.op \notin {"JAL", "JALR"}
      <3>1. PICK g : NamesOnce(code, g, x)
        BY <1>3, <2>2
      <3>2. /\ g \in 1..Len(code) /\ code[g].a = x
            /\ \A k \in 1..Len(code) : k # g => code[k].a = 0
        BY <3>1 DEF NamesOnce
      <3>3. ASSUME NEW k \in s..(end - 1), memory[k].a # 0
            PROVE  k = s + 5 + g
        <4>1. k - (s + 5) \in 1..Len(code) /\ s + 5 + (k - (s + 5)) = k
          BY <1>8, <1>11, <3>3
        <4>2. code[k - (s + 5)].a # 0
          BY <1>9, <3>3, <4>1
        <4>3. k - (s + 5) = g
          BY <3>2, <4>1, <4>2
        <4> QED
          BY <4>1, <4>3
      <3>4. s + 5 + g \in s..(end - 1) /\ memory[s + 5 + g].a = x
        <4>1. end = s + 6 + Len(code) /\ Len(code) \in Nat /\ g \in 1..Len(code)
          BY <1>6, <1>7, <3>2
        <4>2. s + 5 + g \in s..(end - 1)
          BY <1>0, <4>1
        <4> QED
          BY <1>9, <3>2, <4>2
      <3>5. mine = {s + 5 + g}
        BY <1>1, <3>3, <3>4 DEF GuestWordsOf
      <3>6. last = x
        BY <1>1, <2>2 DEF One
      <3> HIDE DEF mine, last
      <3>7. {memory[k].a : k \in mine} = {x}
        BY <3>4, <3>5
      <3>8. x..x = {x}
        BY <1>1
      <3>9. \A k, l \in mine : k = l
        BY <3>5
      <3>10. \A k, l \in mine : ~(k < l)
        BY <1>0, <3>2, <3>5
      <3> QED
        BY <3>6, <3>7, <3>8, <3>10
    <2> QED
      BY <2>1, <2>2
  <1>13. b.type # "SYSCALL"
    BY DEF DescribesText, EndsBlock
  <1> QED
    BY <1>1, <1>10, <1>12, <1>13 DEF MirrorsBlock

(* For every text and every set of routines, as long as no ECALL has a     *)
(* typed PRE routine: the cache holds, between the two locations of every  *)
(* block, the instructions of its guest addresses, in order and each once, *)
(* leaves for the dispatcher at its end, and keeps behind a block that     *)
(* ends in an ECALL that ECALL, however many blocks are laid out later.    *)
THEOREM CacheMirrorsText == Spec => [](NoPreRoutineForEcalls => CacheMirrorsBlocks)
  <1>1. CacheOK => (NoPreRoutineForEcalls => CacheMirrorsBlocks)
    <2> SUFFICES ASSUME CacheOK, NoPreRoutineForEcalls, NEW a \in DOMAIN RailBasicBlocks
                 PROVE  MirrorsBlock(RailBasicBlocks[a])
      BY DEF CacheMirrorsBlocks
    <2> DEFINE b == RailBasicBlocks[a]
    <2>1. CacheInv
      BY TypeInvParts DEF CacheOK
    <2>2. b \in Block /\ a \in Int /\ DescribesText(a, b)
      BY <2>1 DEF CacheOK, CacheInv, CacheTypeOK, MetadataOK, BlocksDescribeText
    <2>3. PlainLayout(memory, b) \/ PreInstLayout(memory, b)
      BY DEF CacheOK, LayoutOK, BlocksLaidOut, AllLaidOut
    <2> HIDE DEF b
    <2>4. ASSUME PreInstLayout(memory, b)
          PROVE  b.terminalInst.op # "SYSTEM"
      <3> SUFFICES ASSUME b.terminalInst.op = "SYSTEM" PROVE FALSE
        OBVIOUS
      <3>1. NeedsPreBlock(b.terminalInst)
        BY <2>4 DEF PreInstLayout
      <3>2. "I" \in tool.typedPre
        BY <3>1 DEF NeedsPreBlock, getType, MemoryOp
      <3>3. b.terminalInst = Fetch(b.lastAddr) /\ Fetch(b.lastAddr).op = "SYSTEM"
        BY <2>2 DEF DescribesText
      <3>4. b.lastAddr \in TextRange /\ text[b.lastAddr].op = "SYSTEM"
        BY <3>3 DEF Fetch, NoInst, TextRange
      <3> QED
        BY <3>2, <3>4 DEF NoPreRoutineForEcalls
    <2>5. MirrorsBlock(b)
      BY <2>1, <2>2, <2>3, <2>4, PlainMirrors, PreInstMirrors
    <2> QED
      BY <2>5 DEF b
  <1> QED
    BY <1>1, CacheCorrect, PTL

-----------------------------------------------------------------------------
(* A cached block.                                                         *)

(* What the invariants of the cache say of one block.                      *)
Cached(b) ==
  /\ CacheInv
  /\ Tracked
  /\ b \in Block
  /\ DescribesText(b.firstAddr, b)
  /\ PlainLayout(memory, b) \/ PreInstLayout(memory, b)

LEMMA BlocksCached ==
  ASSUME CacheOK, Tracked, NEW a \in DOMAIN RailBasicBlocks
  PROVE  Cached(RailBasicBlocks[a]) /\ RailBasicBlocks[a].firstAddr = a /\ a \in Int
  <1> DEFINE b == RailBasicBlocks[a]
  <1>1. CacheInv
    BY TypeInvParts DEF CacheOK
  <1>2. b \in Block /\ a \in Int /\ DescribesText(a, b) /\ b.firstAddr = a
    BY <1>1 DEF CacheOK, CacheInv, CacheTypeOK, MetadataOK, BlocksDescribeText, DescribesText
  <1>3. PlainLayout(memory, b) \/ PreInstLayout(memory, b)
    BY DEF CacheOK, LayoutOK, BlocksLaidOut, AllLaidOut
  <1> HIDE DEF b
  <1>4. Cached(b)
    BY <1>1, <1>2, <1>3 DEF Cached
  <1> QED
    BY <1>2, <1>4 DEF b

(* The instruction a block ends with.                                      *)
LEMMA CachedLast ==
  ASSUME NEW b, Cached(b)
  PROVE  /\ text \in Seq(Inst) /\ memory \in Seq(CodeWord)
         /\ b.startLocationInCache \in Nat /\ b.endLocationInCache \in Nat
         /\ b.firstAddr \in Int /\ 0 < b.firstAddr
         /\ b.lastAddr \in TextRange /\ b.lastAddr \in Int /\ b.firstAddr <= b.lastAddr
         /\ b.lastAddr \in DOMAIN text /\ b.terminalInst.op # "none"
         /\ b.terminalInst \in Inst /\ b.terminalInst = text[b.lastAddr]
         /\ b.terminalInst = Fetch(b.lastAddr)
         /\ EndsBlock(b.type, b.terminalInst.op)
         /\ ExitAddr(b) = IF EndsInControl(b) THEN b.lastAddr ELSE b.lastAddr + 1
  <1>1. /\ CacheInv /\ b \in Block /\ DescribesText(b.firstAddr, b)
        /\ b.firstAddr \in Int /\ text \in Seq(Inst) /\ memory \in Seq(CodeWord)
        /\ b.startLocationInCache \in Nat /\ b.endLocationInCache \in Nat
    BY DEF Cached, Block, CacheInv, CacheTypeOK
  <1>2. /\ b.lastAddr \in Int /\ 0 < b.lastAddr /\ b.terminalInst \in Inst
        /\ b.terminalInst.op # "none" /\ b.terminalInst = Fetch(b.lastAddr)
        /\ b.firstAddr <= b.lastAddr /\ b.lastAddr \in DOMAIN text
    BY <1>1, BlockEnds
  <1>3. b.lastAddr \in TextRange /\ b.terminalInst = text[b.lastAddr]
    BY <1>2 DEF Fetch, NoInst, TextRange
  <1>4. 0 < b.firstAddr
    <2>1. Fetch(b.firstAddr).op # "none"
      BY <1>1, <1>2 DEF DescribesText
    <2> QED
      BY <1>1, <2>1, FetchType
  <1>5. EndsBlock(b.type, b.terminalInst.op)
    BY <1>1 DEF DescribesText
  <1>6. ExitAddr(b) = IF EndsInControl(b) THEN b.lastAddr ELSE b.lastAddr + 1
    BY <1>2 DEF ExitAddr, One
  <1> QED
    BY <1>1, <1>2, <1>3, <1>4, <1>5, <1>6

(* Two sequences that stand behind one another.                            *)
LEMMA HoldsBoth ==
  ASSUME NEW m \in Seq(CodeWord), NEW i \in Nat, NEW us \in Seq(CodeWord),
         NEW ws \in Seq(CodeWord), 0 < Len(us), 0 < Len(ws), Holds(m, i, us \o ws)
  PROVE  Holds(m, i, us) /\ Holds(m, i + Len(us), ws)
  <1> DEFINE n == us \o ws
  <1>1. /\ Len(us) \in Nat /\ Len(ws) \in Nat /\ Len(n) = Len(us) + Len(ws)
        /\ \A k \in 1..Len(us) : n[k] = us[k]
        /\ \A k \in 1..Len(ws) : n[Len(us) + k] = ws[k]
    BY Joined
  <1> HIDE DEF n
  <1>2. /\ i \in 1..Len(m) /\ i + Len(n) - 1 \in 1..Len(m)
        /\ \A k \in 1..Len(n) : m[i + k - 1] = n[k]
    BY DEF Holds, n
  <1>3. Len(m) \in Nat
    OBVIOUS
  <1>4. \A k \in 1..Len(us) : m[i + k - 1] = us[k]
    <2>1. \A k \in 1..Len(us) : k \in 1..Len(n)
      BY <1>1
    <2> QED
      BY <1>1, <1>2, <2>1
  <1>5. ASSUME NEW k \in 1..Len(ws) PROVE m[(i + Len(us)) + k - 1] = ws[k]
    <2>1. Len(us) + k \in 1..Len(n) /\ i + (Len(us) + k) - 1 = (i + Len(us)) + k - 1
      BY <1>1
    <2> QED
      BY <1>1, <1>2, <2>1
  <1>6. i + Len(us) - 1 \in 1..Len(m) /\ i + Len(us) \in 1..Len(m)
        /\ (i + Len(us)) + Len(ws) - 1 \in 1..Len(m)
    BY <1>1, <1>2, <1>3
  <1> QED
    BY <1>2, <1>4, <1>5, <1>6 DEF Holds

(* A pre-instrumented block: six words to instrument, the instruction if   *)
(* it runs in the cache, and the exit.                                     *)
LEMMA PreInstParts ==
  ASSUME NEW b, Cached(b), PreInstLayout(memory, b)
  PROVE  LET s == b.startLocationInCache
             e == ExitStart(b)
             a == b.lastAddr
         IN  /\ Holds(memory, s, SwitchTo(ContextSwitchInstrument))
             /\ e = s + 6 + (IF EndsInControl(b) THEN 0 ELSE Len(Copy(a)))
             /\ EndsInBranch(b) => /\ Holds(memory, e, BranchExit(a))
                                   /\ b.endLocationInCache = e + 11
             /\ ~EndsInBranch(b) => /\ Holds(memory, e, SwitchTo(ContextSwitchTaken))
                                    /\ b.endLocationInCache = e + 6
             /\ ~EndsInControl(b) =>
                  /\ memory[s + 6].a = a
                  /\ memory[s + 6].k \in {"guest", "mem", "setpc"}
                  /\ memory[s + 6].k = "mem" => text[a].op \in MemoryOp \cup {"AMO"}
                  /\ \A k \in s + 7 .. e - 1 : memory[k].a = 0
  <1> DEFINE s    == b.startLocationInCache
             e    == ExitStart(b)
             a    == b.lastAddr
             i    == b.terminalInst
             way  == SwitchTo(ContextSwitchInstrument)
             exit == SwitchTo(ContextSwitchTaken)
             code == NextInstWords(i, a)
  <1>1. /\ memory \in Seq(CodeWord) /\ text \in Seq(Inst) /\ s \in Nat /\ a \in Int
        /\ a \in DOMAIN text /\ i \in Inst /\ i = text[a] /\ i = Fetch(a)
        /\ i.op # "none" /\ a \in TextRange /\ b.endLocationInCache \in Nat
    BY CachedLast
  <1>2. i.op # "SYSTEM" /\ ~(i.op \in MemoryOp /\ i.rs1 = "t6")
    BY <1>1 DEF PreInstLayout, Cached, Tracked
  <1>3. /\ way \in Seq(CodeWord) /\ Len(way) = 6 /\ exit \in Seq(CodeWord) /\ Len(exit) = 6
    BY SwitchToShape, HostEntries
  <1>4. BranchExit(a) \in Seq(CodeWord) /\ Len(BranchExit(a)) = 11
    BY <1>1, BranchExitShape
  <1>5. /\ Copy(a) \in Seq(CodeWord) /\ Len(Copy(a)) \in {1, 3} /\ Copy(a) = InLine(i, a)
        /\ Copy(a)[1].a = a /\ Copy(a)[1].k \in {"guest", "mem", "setpc"}
        /\ Copy(a)[1].k = "mem" <=> i.op \in MemoryOp \cup {"AMO"}
        /\ \A k \in 2..Len(Copy(a)) : Copy(a)[k] = Cont
    <2>1. Copy(a) = InLine(i, a)
      BY <1>1 DEF Copy
    <2> QED
      BY <1>1, <2>1, CopyShape
  <1>6. EndsInBranch(b) => code = BranchExit(a)
    <2> SUFFICES ASSUME EndsInBranch(b) PROVE code = BranchExit(a)
      OBVIOUS
    <2>1. i.op = "BRANCH"
      BY DEF EndsInBranch
    <2> QED
      BY <2>1 DEF NextInstWords, MemoryOp
  <1>6a. EndsInBranch(b) => EndsInControl(b)
    BY DEF EndsInBranch, EndsInControl, ControlOp
  <1>7. EndsInControl(b) /\ ~EndsInBranch(b) => code = exit
    BY <1>2 DEF EndsInBranch, EndsInControl, ControlOp, NextInstWords
  <1>8. ~EndsInControl(b) => \/ code = Copy(a) \o exit
                             \/ i.op = "AMO" /\ code = <<W("guest", a, 0)>> \o exit
    BY <1>2, <1>5 DEF EndsInControl, ControlOp, NextInstWords, MemoryOp
  <1>9. Holds(memory, s, way \o code) /\ b.endLocationInCache = s + Len(way \o code)
    BY DEF PreInstLayout, PreInstWords
  <1> HIDE DEF way, code, exit, s
  <1>10. ASSUME NEW us \in Seq(CodeWord), code = us, 0 < Len(us)
         PROVE  /\ Holds(memory, s, way) /\ Holds(memory, s + 6, us)
                /\ b.endLocationInCache = s + 6 + Len(us)
    <2>1. Holds(memory, s, way \o us) /\ b.endLocationInCache = s + Len(way \o us)
      BY <1>9, <1>10
    <2>2. 0 < Len(way)
      BY <1>3
    <2>3. Holds(memory, s, way) /\ Holds(memory, s + Len(way), us)
      BY <1>1, <1>3, <1>10, <2>1, <2>2, HoldsBoth
    <2>4. Len(way \o us) = Len(way) + Len(us) /\ Len(us) \in Nat
      BY <1>3, Joined
    <2>5. b.endLocationInCache = s + 6 + Len(us)
      BY <1>1, <1>3, <2>1, <2>4
    <2> QED
      BY <1>3, <2>3, <2>5
  <1>11. CASE EndsInBranch(b)
    <2>1. /\ Holds(memory, s, way) /\ Holds(memory, s + 6, BranchExit(a))
          /\ b.endLocationInCache = s + 6 + 11
      <3>1. code = BranchExit(a) /\ 0 < Len(BranchExit(a))
        BY <1>4, <1>6, <1>11
      <3>2. /\ Holds(memory, s, way) /\ Holds(memory, s + 6, BranchExit(a))
            /\ b.endLocationInCache = s + 6 + Len(BranchExit(a))
        BY <1>4, <1>10, <3>1
      <3> QED
        BY <1>4, <3>2
    <2>2. e = s + 6 /\ b.endLocationInCache = e + 11
      BY <1>1, <1>11, <2>1 DEF ExitStart
    <2>3. EndsInControl(b)
      BY <1>6a, <1>11
    <2> QED
      BY <1>1, <1>11, <2>1, <2>2, <2>3 DEF s, way
  <1>12. CASE EndsInControl(b) /\ ~EndsInBranch(b)
    <2>1. /\ Holds(memory, s, way) /\ Holds(memory, s + 6, exit)
          /\ b.endLocationInCache = s + 6 + 6
      <3>1. code = exit /\ 0 < Len(exit)
        BY <1>3, <1>7, <1>12
      <3>2. /\ Holds(memory, s, way) /\ Holds(memory, s + 6, exit)
            /\ b.endLocationInCache = s + 6 + Len(exit)
        BY <1>3, <1>10, <3>1
      <3> QED
        BY <1>3, <3>2
    <2>2. e = s + 6 /\ b.endLocationInCache = e + 6
      BY <1>1, <1>12, <2>1 DEF ExitStart
    <2> QED
      BY <1>1, <1>12, <2>1, <2>2 DEF s, way, exit
  <1>13. CASE ~EndsInControl(b)
    <2>1. PICK us \in Seq(CodeWord) :
            /\ code = us \o exit /\ Len(us) = Len(Copy(a))
            /\ us[1].a = a /\ us[1].k \in {"guest", "mem", "setpc"}
            /\ us[1].k = "mem" => i.op \in MemoryOp \cup {"AMO"}
            /\ \A k \in 2..Len(us) : us[k].a = 0
      <3>1. CASE code = Copy(a) \o exit
        BY <1>5, <3>1, WordFields
      <3>2. CASE i.op = "AMO" /\ code = <<W("guest", a, 0)>> \o exit
        <4> DEFINE us == <<W("guest", a, 0)>>
        <4>1. W("guest", a, 0) \in CodeWord
          BY <1>1, WordType DEF WordKind
        <4>2. /\ us \in Seq(CodeWord) /\ Len(us) = 1 /\ us[1] = W("guest", a, 0)
          BY <4>1
        <4>3. Len(Copy(a)) = 1
          BY <1>5, <3>2 DEF InLine
        <4> HIDE DEF us
        <4>4. us[1].a = a /\ us[1].k = "guest"
          BY <4>2, WordFields
        <4>5. code = us \o exit
          BY <3>2 DEF us
        <4>6. \A k \in 2..Len(us) : us[k].a = 0
          BY <4>2
        <4> QED
          BY <3>2, <4>2, <4>3, <4>4, <4>5, <4>6
      <3> QED
        BY <1>8, <1>13, <3>1, <3>2
    <2>2. Len(us) \in {1, 3} /\ 1 \in 1..Len(us) /\ us \in Seq(CodeWord)
      <3>1. 1 \in 1..1 /\ 1 \in 1..3
        OBVIOUS
      <3> QED
        BY <1>5, <2>1, <3>1
    <2>3. /\ us \o exit \in Seq(CodeWord) /\ Len(us \o exit) = Len(us) + 6
          /\ 0 < Len(us \o exit)
      <3>1. us \o exit \in Seq(CodeWord) /\ Len(us \o exit) = Len(us) + Len(exit)
        BY <1>3, <2>2, Joined
      <3> QED
        BY <1>3, <2>2, <3>1
    <2>4. /\ Holds(memory, s, way) /\ Holds(memory, s + 6, us \o exit)
          /\ b.endLocationInCache = s + 6 + Len(us \o exit)
      BY <1>10, <2>1, <2>3
    <2>5. Holds(memory, s + 6, us) /\ Holds(memory, s + 6 + Len(us), exit)
      <3>1. s + 6 \in Nat
        BY <1>1
      <3>2. 0 < Len(us) /\ 0 < Len(exit)
        BY <1>3, <2>2
      <3> QED
        BY <1>1, <1>3, <2>2, <2>4, <3>1, <3>2, HoldsBoth
    <2>6. ~EndsInBranch(b)
      BY <1>6a, <1>13
    <2>7. e = s + 6 + Len(us) /\ b.endLocationInCache = e + 6
      BY <1>1, <2>2, <2>3, <2>4, <2>6 DEF ExitStart
    <2>8. \A k \in 1..Len(us) : memory[s + 6 + k - 1] = us[k]
      BY <2>5 DEF Holds
    <2>9. memory[s + 6] = us[1]
      <3>1. s + 6 + 1 - 1 = s + 6
        BY <1>1
      <3> QED
        BY <2>2, <2>8, <3>1
    <2>10. ASSUME NEW k \in s + 7 .. e - 1 PROVE memory[k].a = 0
      <3>1. k - s - 5 \in 2..Len(us) /\ s + 6 + (k - s - 5) - 1 = k
        BY <1>1, <2>2, <2>7
      <3>2. memory[k] = us[k - s - 5]
        BY <2>2, <2>8, <3>1
      <3> QED
        BY <2>1, <3>1, <3>2
    <2> QED
      BY <1>1, <1>13, <2>1, <2>4, <2>5, <2>6, <2>7, <2>9, <2>10 DEF s, way, exit
  <1> QED
    BY <1>11, <1>12, <1>13

(* A block's numbers.                                                      *)
LEMMA CachedEnds ==
  ASSUME NEW b, Cached(b)
  PROVE  /\ b.startLocationInCache \in Nat \ {0} /\ b.endLocationInCache \in Nat
         /\ b.startLocationInCache \in DOMAIN memory
         /\ ExitStart(b) \in Nat /\ b.startLocationInCache < ExitStart(b)
         /\ ExitStart(b) < b.endLocationInCache
         /\ Holds(memory, ExitStart(b), BranchExit(b.lastAddr)) \/ ~EndsInBranch(b)
         /\ EndsInBranch(b) \/ \E h \in {ContextSwitch, ContextSwitchTaken} :
                                 Holds(memory, ExitStart(b), SwitchTo(h))
  <1> DEFINE s == b.startLocationInCache
             e == ExitStart(b)
  <1>1. /\ memory \in Seq(CodeWord) /\ s \in Nat /\ b.endLocationInCache \in Nat
        /\ Len(memory) \in Nat /\ b.firstAddr \in Int
    BY CachedLast
  <1>2. CASE PlainLayout(memory, b)
    <2>1. e \in Nat /\ e < b.endLocationInCache
      BY <1>1, <1>2, PlainExit DEF Cached
    <2>2. s \in 1..Len(memory) /\ s < e
      BY <1>2 DEF PlainLayout
    <2> QED
      BY <1>1, <1>2, <2>1, <2>2 DEF PlainLayout
  <1>3. CASE PreInstLayout(memory, b)
    <2>1. /\ Holds(memory, s, SwitchTo(ContextSwitchInstrument))
          /\ e = s + 6 + (IF EndsInControl(b) THEN 0 ELSE Len(Copy(b.lastAddr)))
          /\ b.endLocationInCache = e + (IF EndsInBranch(b) THEN 11 ELSE 6)
          /\ EndsInBranch(b) => Holds(memory, e, BranchExit(b.lastAddr))
          /\ ~EndsInBranch(b) => Holds(memory, e, SwitchTo(ContextSwitchTaken))
      BY <1>3, PreInstParts
    <2>2. s \in 1..Len(memory)
      BY <2>1 DEF Holds
    <2>3. Len(Copy(b.lastAddr)) \in Nat
      BY DEF Copy, InLine
    <2> DEFINE c == Len(Copy(b.lastAddr))
    <2> HIDE DEF c, s, e
    <2>4. e \in Nat /\ s < e /\ e < b.endLocationInCache
      BY <1>1, <2>1, <2>3 DEF c, s, e
    <2> QED
      BY <1>1, <2>1, <2>2, <2>4 DEF s, e
  <1> QED
    BY <1>2, <1>3 DEF Cached

(* The words of a block's exit, by their place.                            *)
LEMMA BranchExitWords ==
  ASSUME NEW b, Cached(b), EndsInBranch(b)
  PROVE  LET e == ExitStart(b)
         IN  /\ b.endLocationInCache = e + 11
             /\ e..(e + 10) \subseteq DOMAIN memory
             /\ memory[e].k = "save"
             /\ memory[e + 2].k = "branch" /\ memory[e + 2].a = b.lastAddr
             /\ memory[e + 3].k = "li" /\ memory[e + 3].v = ContextSwitch
             /\ memory[e + 6].k = "jalrT6"
             /\ memory[e + 7].k = "li" /\ memory[e + 7].v = ContextSwitchTaken
             /\ memory[e + 10].k = "jalrT6"
  <1> DEFINE e  == ExitStart(b)
             ws == BranchExit(b.lastAddr)
  <1>1. text \in Seq(Inst) /\ memory \in Seq(CodeWord)
    BY CachedLast
  <1>2. b.lastAddr \in DOMAIN text
    BY CachedLast
  <1>3. /\ Len(ws) = 11
        /\ ws[1] = W("save", 0, 0)
        /\ ws[3] = W("branch", b.lastAddr, 0)
        /\ ws[4] = W("li", 0, ContextSwitch)
        /\ ws[7] = W("jalrT6", 0, 0)
        /\ ws[8] = W("li", 0, ContextSwitchTaken)
        /\ ws[11] = W("jalrT6", 0, 0)
    BY <1>1, <1>2, BranchExitShape
  <1>4. Holds(memory, e, ws)
    BY CachedEnds
  <1>5. e \in Nat /\ b.endLocationInCache \in Nat /\ e = b.endLocationInCache - 11
    BY CachedLast, CachedEnds DEF ExitStart
  <1> HIDE DEF e, ws
  <1>6. /\ e \in 1..Len(memory) /\ e + 11 - 1 \in 1..Len(memory)
        /\ \A k \in 1..11 : memory[e + k - 1] = ws[k]
    BY <1>3, <1>4 DEF Holds
  <1>7. /\ memory[e] = ws[1] /\ memory[e + 2] = ws[3] /\ memory[e + 3] = ws[4]
        /\ memory[e + 6] = ws[7] /\ memory[e + 7] = ws[8] /\ memory[e + 10] = ws[11]
    <2>1. /\ e + 1 - 1 = e /\ e + 3 - 1 = e + 2 /\ e + 4 - 1 = e + 3
          /\ e + 7 - 1 = e + 6 /\ e + 8 - 1 = e + 7 /\ e + 11 - 1 = e + 10
      BY <1>5
    <2> QED
      BY <1>6, <2>1
  <1>8. b.endLocationInCache = e + 11 /\ e..(e + 10) \subseteq DOMAIN memory
    <2>1. DOMAIN memory = 1..Len(memory) /\ Len(memory) \in Nat
      BY <1>1
    <2>2. b.endLocationInCache = e + 11 /\ e + 11 - 1 = e + 10
      BY <1>5
    <2>3. e \in 1..Len(memory) /\ e + 10 \in 1..Len(memory)
      BY <1>6, <2>2
    <2>4. e..(e + 10) \subseteq 1..Len(memory)
      BY <2>1, <2>3
    <2> QED
      BY <2>1, <2>2, <2>4
  <1> QED
    BY <1>3, <1>7, <1>8, WordFields DEF e

LEMMA SwitchWords ==
  ASSUME NEW b, Cached(b), ~EndsInBranch(b)
  PROVE  LET e == ExitStart(b)
         IN  /\ b.endLocationInCache = e + 6
             /\ e..(e + 5) \subseteq DOMAIN memory
             /\ memory[e].k = "save"
             /\ memory[e + 2].k = "li"
             /\ memory[e + 2].v \in {ContextSwitch, ContextSwitchTaken}
             /\ memory[e + 5].k = "jalrT6"
  <1> DEFINE e == ExitStart(b)
  <1>1. PICK h \in {ContextSwitch, ContextSwitchTaken} : Holds(memory, e, SwitchTo(h))
    BY CachedEnds
  <1> DEFINE ws == SwitchTo(h)
  <1>2. memory \in Seq(CodeWord)
    BY DEF Cached, CacheInv
  <1>3. /\ Len(ws) = 6 /\ ws[1] = W("save", 0, 0) /\ ws[3] = W("li", 0, h)
        /\ ws[6] = W("jalrT6", 0, 0)
    BY SwitchToShape, HostEntries
  <1>4. Holds(memory, e, ws)
    BY <1>1
  <1>5. e \in Nat /\ b.endLocationInCache \in Nat /\ e = b.endLocationInCache - 6
    BY CachedEnds DEF ExitStart
  <1> HIDE DEF e, ws
  <1>6. /\ e \in 1..Len(memory) /\ e + 6 - 1 \in 1..Len(memory)
        /\ \A k \in 1..6 : memory[e + k - 1] = ws[k]
    BY <1>3, <1>4 DEF Holds
  <1>7. memory[e] = ws[1] /\ memory[e + 2] = ws[3] /\ memory[e + 5] = ws[6]
    <2>1. e + 1 - 1 = e /\ e + 3 - 1 = e + 2 /\ e + 6 - 1 = e + 5
      BY <1>5
    <2> QED
      BY <1>6, <2>1
  <1>8. b.endLocationInCache = e + 6 /\ e..(e + 5) \subseteq DOMAIN memory
    <2>1. DOMAIN memory = 1..Len(memory) /\ Len(memory) \in Nat
      BY <1>2
    <2>2. b.endLocationInCache = e + 6 /\ e + 6 - 1 = e + 5
      BY <1>5
    <2>3. e \in 1..Len(memory) /\ e + 5 \in 1..Len(memory)
      BY <1>6, <2>2
    <2>4. e..(e + 5) \subseteq 1..Len(memory)
      BY <2>1, <2>3
    <2> QED
      BY <2>1, <2>2, <2>4
  <1> QED
    BY <1>3, <1>7, <1>8, WordFields DEF e

-----------------------------------------------------------------------------
(* The processor in a cached block.                                        *)

(* A step between two of the guest's instructions: the guest sees nothing, *)
(* or a typed PRE routine has cost it its T6.                              *)
Unseen ==
  /\ UNCHANGED <<text, gpc, served, status>>
  /\ UNCHANGED [regs EXCEPT !.t6 = 0]
  /\ KeepsT6 => UNCHANGED ArchRegs

(* The word decides which of the processor's steps it is; a jump through   *)
(* T6 leaves the cache when T6 holds an entry of the host, no entry being  *)
(* an address in the cache.                                                *)
LEMMA StepOfWord ==
  ASSUME TypeInv, RunStep, ip \in DOMAIN memory
  PROVE  /\ word.k = "restore" => RunRestoreScratch
         /\ word.k = "save" => RunInlineSave
         /\ word.k = "li" => RunLi
         /\ word.k = "branch" => RunBranch
         /\ word.k \in {"guest", "mem", "setpc"} => RunGuestWord
         /\ word.k = "jalrT6" /\ regs.t6 \in HostEntry => RunSwitch
  <1>1. /\ RunRestoreScratch => word.k = "restore"
        /\ RunInlineSave => word.k = "save"
        /\ RunLi => word.k \in {"li", "liT5"}
        /\ RunBranch => word.k = "branch"
        /\ RunGuestWord => word.k \in {"guest", "mem", "setpc"}
        /\ RunEcall => word.k = "ecall"
        /\ RunJumpInCache => word.k = "jalrT6"
        /\ RunSwitch => word.k = "jalrT6"
        /\ RunJalRoot => word.k = "jalRoot"
    BY DEF RunRestoreScratch, RunInlineSave, RunLi, RunBranch, RunGuestWord, RunEcall,
           RunJumpInCache, RunSwitch, RunJalRoot, At
  <1>2. RunCrash => word.k = "cont" \/ (word.k = "jalrT6" /\ regs.t6 \notin HostEntry)
    BY DEF RunCrash
  <1>3. RunJumpInCache => regs.t6 \notin HostEntry
    <2>1. Len(memory) \in Nat /\ DOMAIN memory = 1..Len(memory) /\ CacheBase \in Nat
      BY CacheAssumption DEF TypeInv
    <2>2. regs.t6 \in Int
      BY DEF TypeInv, TypeOK, DispatcherTypeOK, Reg
    <2>3. SUFFICES ASSUME RunJumpInCache, regs.t6 \in HostEntry PROVE FALSE
      OBVIOUS
    <2>4. regs.t6 - CacheBase \in 1..Len(memory)
      BY <2>1, <2>3 DEF RunJumpInCache
    <2>5. regs.t6 < 0
      BY <2>2, <2>3 DEF HostEntry, InitSwitch, ContextSwitch
    <2> QED
      BY <2>1, <2>2, <2>4, <2>5
  <1> QED
    BY <1>1, <1>2, <1>3 DEF RunStep

(* What a step of the processor leaves alone.                              *)
LEMMA RunStepKeeps ==
  ASSUME RunStep
  PROVE  /\ status = "running" /\ phase = "run"
         /\ text' = text /\ tool' = tool /\ memory' = memory /\ alloc' = alloc
         /\ RailBasicBlocks' = RailBasicBlocks /\ currentBB' = currentBB
         /\ program_counter' = program_counter
  <1>1. status = "running" /\ phase = "run"
    BY DEF RunStep, RunRestoreScratch, RunInlineSave, RunLi, RunBranch,
           RunGuestWord, RunEcall, RunJumpInCache, RunSwitch, RunJalRoot, RunCrash, At
  <1> QED
    BY <1>1, RunStepCache DEF cacheVars

(* A block's numbers do not change with the state, its layout only with    *)
(* the cache.                                                              *)
LEMMA RigidBlock ==
  /\ \A b : /\ ExitStart(b)' = ExitStart(b) /\ ExitAddr(b)' = ExitAddr(b)
            /\ EndsInBranch(b)' = EndsInBranch(b) /\ EndsInControl(b)' = EndsInControl(b)
  /\ tool' = tool => /\ KeepsT6' = KeepsT6
                     /\ \A i : NeedsPreBlock(i)' = NeedsPreBlock(i)
  <1>1. \A b : /\ ExitStart(b)' = ExitStart(b) /\ ExitAddr(b)' = ExitAddr(b)
               /\ EndsInBranch(b)' = EndsInBranch(b) /\ EndsInControl(b)' = EndsInControl(b)
    BY DEF ExitStart, ExitAddr, EndsInBranch, EndsInControl, One
  <1>2. tool' = tool => /\ KeepsT6' = KeepsT6
                        /\ \A i : NeedsPreBlock(i)' = NeedsPreBlock(i)
    BY DEF KeepsT6, NeedsPreBlock, preInstrumentationRoutines
  <1> QED
    BY <1>1, <1>2

LEMMA RigidPreInst ==
  ASSUME NEW b, tool' = tool, memory' = memory, PreInstLayout(memory, b)
  PROVE  PreInstLayout(memory, b)'
  BY RigidBlock DEF PreInstLayout, PreInstWords, Holds

(* Taking T6 back, saving it, loading a constant into it once it is saved, *)
(* going into and out of the cache: the guest's registers stay the same.   *)
LEMMA UnseenSteps ==
  ASSUME TypeInv
  PROVE  /\ RunRestoreScratch /\ t6Saved => Unseen
         /\ RunInlineSave /\ (KeepsT6 => ~t6Saved) => Unseen
         /\ RunLi /\ t6Saved => Unseen /\ UNCHANGED ArchRegs
         /\ RunBranch => Unseen /\ UNCHANGED ArchRegs
         /\ RunSwitch /\ t6Saved => Unseen /\ UNCHANGED ArchRegs
  <1>1. regs \in [Reg -> Int] /\ "t6" \in Reg
    BY DEF TypeInv, TypeOK, DispatcherTypeOK, Reg
  <1>2. ASSUME NEW v \in Int, regs' = [regs EXCEPT !.t6 = v]
        PROVE  /\ UNCHANGED [regs EXCEPT !.t6 = 0]
               /\ [regs' EXCEPT !.t6 = slot] = [regs EXCEPT !.t6 = slot]
    BY <1>1, <1>2
  <1>3. slot \in Int
    BY DEF TypeInv, TypeOK, DispatcherTypeOK
  <1>4. RunRestoreScratch /\ t6Saved => Unseen
    BY <1>2, <1>3 DEF RunRestoreScratch, Unseen, ArchRegs, cacheVars
  <1>5. RunInlineSave /\ (KeepsT6 => ~t6Saved) => Unseen
    <2> SUFFICES ASSUME RunInlineSave, KeepsT6 => ~t6Saved PROVE Unseen
      OBVIOUS
    <2>1. [regs EXCEPT !.t6 = regs.t6] = regs
      BY <1>1
    <2>2. KeepsT6 => UNCHANGED ArchRegs
      BY <2>1 DEF RunInlineSave, ArchRegs
    <2> QED
      BY <2>2 DEF RunInlineSave, Unseen, cacheVars
  <1>6. RunLi /\ t6Saved => Unseen /\ UNCHANGED ArchRegs
    <2> SUFFICES ASSUME RunLi, t6Saved PROVE Unseen /\ UNCHANGED ArchRegs
      OBVIOUS
    <2>1. slot' = slot /\ t6Saved' /\ text' = text /\ gpc' = gpc /\ served' = served
          /\ status' = status
      BY DEF RunLi, history, cacheVars
    <2>2. regs' = [regs EXCEPT !.t6 = word.v] \/ regs' = regs
      BY DEF RunLi
    <2>3. /\ UNCHANGED [regs EXCEPT !.t6 = 0]
          /\ [regs' EXCEPT !.t6 = slot] = [regs EXCEPT !.t6 = slot]
      BY <1>1, <2>2
    <2> QED
      BY <2>1, <2>3 DEF Unseen, ArchRegs
  <1>7. RunBranch => Unseen /\ UNCHANGED ArchRegs
    BY DEF RunBranch, Unseen, ArchRegs, cacheVars, history
  <1>8. RunSwitch /\ t6Saved => Unseen /\ UNCHANGED ArchRegs
    <2> SUFFICES ASSUME RunSwitch, t6Saved PROVE Unseen /\ UNCHANGED ArchRegs
      OBVIOUS
    <2>1. /\ UNCHANGED [regs EXCEPT !.t6 = 0]
          /\ [regs' EXCEPT !.t6 = slot] = [regs EXCEPT !.t6 = slot]
      BY <1>2, <1>3 DEF RunSwitch
    <2> QED
      BY <2>1 DEF RunSwitch, Unseen, ArchRegs, cacheVars, history
  <1> QED
    BY <1>4, <1>5, <1>6, <1>7, <1>8

(* A block's first word gives T6 back, and the guest goes on with the      *)
(* block's first instruction or, when that is a jump or a system call,     *)
(* right to the exit.                                                      *)
LEMMA FromRestore ==
  ASSUME NEW b, Cached(b), TypeInv, AtRestore(b), RunStep
  PROVE  InBlock(b)' /\ Unseen
  <1> DEFINE s == b.startLocationInCache
             e == ExitStart(b)
  <1>1. memory \in Seq(CodeWord)
    BY DEF TypeInv
  <1>2. /\ s \in 1..Len(memory) /\ memory[s] = RestoreScratch[1]
        /\ LaidOut(memory, s + 1, b.firstAddr, ExitAddr(b), e)
    BY DEF AtRestore, PlainLayout
  <1>3. /\ s \in Nat /\ e \in Nat /\ s < e /\ b.firstAddr \in Int /\ 0 < b.firstAddr
    BY CachedLast, CachedEnds
  <1>4. word.k = "restore" /\ ip \in DOMAIN memory
    BY <1>1, <1>2, WordFields DEF word, AtRestore, RestoreScratch
  <1>5. RunRestoreScratch
    BY <1>4, StepOfWord
  <1>6. /\ ip' = s + 1 /\ ~t6Saved' /\ gpc' = b.firstAddr /\ phase' = "run"
        /\ memory' = memory
    BY <1>5, RunStepKeeps DEF RunRestoreScratch, AtRestore, RestoreScratch
  <1>7. Unseen
    BY <1>5, UnseenSteps DEF AtRestore
  <1>8. CASE b.firstAddr = ExitAddr(b)
    <2>1. s + 1 = e
      BY <1>2, <1>8 DEF LaidOut
    <2>2. AtSave(b)'
      BY <1>6, <1>8, <2>1, RigidBlock DEF AtSave
    <2> QED
      BY <1>6, <1>7, <2>2 DEF InBlock
  <1>9. CASE b.firstAddr # ExitAddr(b)
    <2>1. s + 1 < e /\ memory[s + 1].a = b.firstAddr
      BY <1>2, <1>9 DEF LaidOut
    <2>2. s + 1 \in s + 1 .. e - 1
      BY <1>3, <2>1
    <2>3. AtCopy(b)'
      BY <1>3, <1>6, <2>1, <2>2, RigidBlock DEF AtCopy
    <2> QED
      BY <1>6, <1>7, <2>3 DEF InBlock
  <1> QED
    BY <1>8, <1>9

(* A pre-instrumented block leads to instrument first.                     *)
LEMMA EntryWords ==
  ASSUME NEW b, Cached(b), PreInstLayout(memory, b)
  PROVE  LET s == b.startLocationInCache
         IN  /\ s..(s + 5) \subseteq DOMAIN memory
             /\ memory[s].k = "save"
             /\ memory[s + 2].k = "li" /\ memory[s + 2].v = ContextSwitchInstrument
             /\ memory[s + 5].k = "jalrT6"
             /\ \A k \in s..(s + 5) : memory[k].a = 0
             /\ s + 5 < b.endLocationInCache
  <1> DEFINE s  == b.startLocationInCache
             ws == SwitchTo(ContextSwitchInstrument)
  <1>1. memory \in Seq(CodeWord) /\ s \in Nat /\ Len(memory) \in Nat
    BY CachedLast
  <1>2. /\ Len(ws) = 6 /\ ws[1] = W("save", 0, 0)
        /\ ws[3] = W("li", 0, ContextSwitchInstrument) /\ ws[6] = W("jalrT6", 0, 0)
        /\ \A k \in 1..6 : ws[k].a = 0
    BY SwitchToShape, SwitchNamesNone, HostEntries DEF NamesNone
  <1>3. Holds(memory, s, ws)
    BY PreInstParts
  <1>4. s + 5 < b.endLocationInCache
    <2>1. /\ ExitStart(b) = s + 6 + (IF EndsInControl(b) THEN 0 ELSE Len(Copy(b.lastAddr)))
          /\ Len(Copy(b.lastAddr)) \in Nat
      BY PreInstParts DEF Copy, InLine
    <2>2. ExitStart(b) \in Nat /\ ExitStart(b) < b.endLocationInCache
          /\ b.endLocationInCache \in Nat
      BY CachedEnds
    <2> DEFINE c == Len(Copy(b.lastAddr))
               e == ExitStart(b)
    <2> HIDE DEF c, e, s
    <2> QED
      BY <1>1, <2>1, <2>2 DEF c, e, s
  <1> HIDE DEF s, ws
  <1>5. /\ s \in 1..Len(memory) /\ s + 6 - 1 \in 1..Len(memory)
        /\ \A k \in 1..6 : memory[s + k - 1] = ws[k]
    BY <1>2, <1>3 DEF Holds
  <1>6. memory[s] = ws[1] /\ memory[s + 2] = ws[3] /\ memory[s + 5] = ws[6]
    <2>1. s + 1 - 1 = s /\ s + 3 - 1 = s + 2 /\ s + 6 - 1 = s + 5
      BY <1>1
    <2> QED
      BY <1>5, <2>1
  <1>7. ASSUME NEW k \in s..(s + 5) PROVE memory[k].a = 0
    <2>1. k - s + 1 \in 1..6 /\ s + (k - s + 1) - 1 = k
      BY <1>1
    <2>2. memory[k] = ws[k - s + 1]
      BY <1>5, <2>1
    <2> QED
      BY <1>2, <2>1, <2>2
  <1>8. s..(s + 5) \subseteq DOMAIN memory
    <2>1. DOMAIN memory = 1..Len(memory)
      BY <1>1
    <2> QED
      BY <1>1, <1>5, <2>1
  <1> QED
    BY <1>2, <1>4, <1>6, <1>7, <1>8, WordFields DEF s

(* The instruction the guest is at, in the middle of a block.              *)
LEMMA CopyWord ==
  ASSUME NEW b, Cached(b), AtCopy(b)
  PROVE  /\ ip \in DOMAIN memory /\ word.a = gpc /\ word.k \in {"guest", "mem", "setpc"}
         /\ word.k = "mem" => text[gpc].op \in MemoryOp \cup {"AMO"}
         /\ gpc \in TextRange /\ text[gpc].op \notin ControlOp \cup {"none"}
         /\ text[gpc] \in Inst /\ Fetch(gpc) = text[gpc]
         /\ \/ ip + Len(Copy(gpc)) = ExitStart(b) /\ gpc + 1 = ExitAddr(b)
            \/ /\ ip + Len(Copy(gpc)) \in b.startLocationInCache + 1 .. ExitStart(b) - 1
               /\ memory[ip + Len(Copy(gpc))].a = gpc + 1
  <1> DEFINE s == b.startLocationInCache
             e == ExitStart(b)
             n == ip + Len(Copy(gpc))
             Standing == /\ word.k \in {"guest", "mem", "setpc"}
                         /\ word.k = "mem" => text[gpc].op \in MemoryOp \cup {"AMO"}
                         /\ gpc \in b.firstAddr..(ExitAddr(b) - 1)
                         /\ \/ n = e /\ gpc + 1 = ExitAddr(b)
                            \/ n < e /\ memory[n].a = gpc + 1
  <1>1. /\ memory \in Seq(CodeWord) /\ text \in Seq(Inst) /\ DescribesText(b.firstAddr, b)
        /\ s \in Nat \ {0} /\ e \in Nat /\ b.firstAddr \in Int /\ b.lastAddr \in Int
        /\ b.firstAddr <= b.lastAddr
        /\ ExitAddr(b) = IF EndsInControl(b) THEN b.lastAddr ELSE b.lastAddr + 1
        /\ b.terminalInst = text[b.lastAddr] /\ b.terminalInst \in Inst
    BY CachedLast, CachedEnds DEF Cached
  <1>2. e \in 1..Len(memory)
    BY CachedEnds DEF Holds
  <1>3. ip \in s + 1 .. e - 1 /\ word.a = gpc /\ gpc # 0
    BY DEF word, AtCopy
  <1>4. ip \in DOMAIN memory
    BY <1>1, <1>2, <1>3
  <1>5. ASSUME gpc \in b.firstAddr..(ExitAddr(b) - 1)
        PROVE  /\ gpc \in TextRange /\ text[gpc] \in Inst /\ Fetch(gpc) = text[gpc]
               /\ gpc \in Int /\ text[gpc].op \notin ControlOp \cup {"none"}
    <2>1. gpc \in b.firstAddr..b.lastAddr /\ gpc \in Int
      BY <1>1, <1>5
    <2>2. Fetch(gpc).op # "none"
      BY <1>1, <2>1 DEF DescribesText
    <2>3. gpc \in TextRange /\ Fetch(gpc) = text[gpc]
      BY <2>2 DEF Fetch, NoInst, TextRange
    <2>4. text[gpc] \in Inst
      BY <1>1, <2>1, <2>2, <2>3, FetchType
    <2>5. text[gpc].op \notin ControlOp
      <3>1. CASE gpc = b.lastAddr
        <4>1. ~EndsInControl(b)
          BY <1>1, <1>5, <3>1
        <4> QED
          BY <1>1, <3>1, <4>1 DEF EndsInControl
      <3>2. CASE gpc # b.lastAddr
        <4>1. gpc \in b.firstAddr..(b.lastAddr - 1)
          BY <1>1, <2>1, <3>2
        <4> QED
          BY <1>1, <2>3, <4>1 DEF DescribesText
      <3> QED
        BY <3>1, <3>2
    <2> QED
      BY <2>1, <2>2, <2>3, <2>4, <2>5
  <1>6. ASSUME PlainLayout(memory, b) PROVE Standing
    <2>1. LaidOut(memory, s + 1, b.firstAddr, ExitAddr(b), e)
      BY <1>6 DEF PlainLayout
    <2>2. /\ gpc \in b.firstAddr..(ExitAddr(b) - 1) /\ word = Copy(gpc)[1]
          /\ \/ n = e /\ gpc + 1 = ExitAddr(b)
             \/ n < e /\ memory[n].a = gpc + 1
      BY <1>3, <2>1 DEF word, LaidOut
    <2>3. /\ word.k \in {"guest", "mem", "setpc"}
          /\ word.k = "mem" <=> text[gpc].op \in MemoryOp \cup {"AMO"}
      <3>1. gpc \in Int /\ Fetch(gpc).op # "none" /\ Fetch(gpc) = text[gpc]
        BY <1>5, <2>2
      <3> QED
        BY <1>1, <2>2, <3>1, CopyShape
    <2>4. Standing
      BY <2>2, <2>3
    <2> QED
      BY <2>4
  <1>7. ASSUME PreInstLayout(memory, b) PROVE Standing
    <2>1. \A k \in s..(s + 5) : memory[k].a = 0
      BY <1>7, EntryWords
    <2>2. ip \notin s..(s + 5)
      BY <1>3, <2>1 DEF word
    <2>3. e = s + 6 + (IF EndsInControl(b) THEN 0 ELSE Len(Copy(b.lastAddr)))
      BY <1>7, PreInstParts
    <2>4. ~EndsInControl(b)
      BY <1>1, <1>3, <2>2, <2>3
    <2>5. /\ memory[s + 6].a = b.lastAddr
          /\ memory[s + 6].k \in {"guest", "mem", "setpc"}
          /\ memory[s + 6].k = "mem" => text[b.lastAddr].op \in MemoryOp \cup {"AMO"}
          /\ \A k \in s + 7 .. e - 1 : memory[k].a = 0
      BY <1>7, <2>4, PreInstParts
    <2>6. ip \notin s + 7 .. e - 1
      BY <1>3, <2>5 DEF word
    <2>7. ip = s + 6
      <3> DEFINE j == ip
      <3> HIDE DEF j, s, e
      <3>1. s \in Nat /\ e \in Nat /\ j \in s + 1 .. e - 1
        BY <1>1, <1>3 DEF j, s, e
      <3>2. j \notin s..(s + 5) /\ j \notin s + 7 .. e - 1
        BY <2>2, <2>6 DEF j, s, e
      <3>3. j = s + 6
        BY <3>1, <3>2
      <3> QED
        BY <3>3 DEF j, s
    <2>8. gpc = b.lastAddr /\ n = e
      BY <1>3, <2>3, <2>4, <2>5, <2>7 DEF word
    <2>9. gpc + 1 = ExitAddr(b) /\ gpc \in b.firstAddr..(ExitAddr(b) - 1)
      BY <1>1, <2>4, <2>8
    <2>10. word = memory[s + 6]
      BY <2>7 DEF word
    <2>11. /\ word.k \in {"guest", "mem", "setpc"}
           /\ word.k = "mem" => text[gpc].op \in MemoryOp \cup {"AMO"}
      BY <2>5, <2>8, <2>10
    <2>12. Standing
      BY <2>8, <2>9, <2>11
    <2> QED
      BY <2>12
  <1>8. Standing
    <2>1. PlainLayout(memory, b) \/ PreInstLayout(memory, b)
      BY DEF Cached
    <2> HIDE DEF Standing
    <2> QED
      BY <1>6, <1>7, <2>1
  <1>9. n < e => n \in s + 1 .. e - 1
    <2>1. Len(Copy(gpc)) \in Nat
      BY DEF Copy, InLine
    <2> DEFINE c == Len(Copy(gpc))
    <2> HIDE DEF c, s, e
    <2>2. c \in Nat
      BY <2>1 DEF c
    <2>3. ip + c < e => ip + c \in s + 1 .. e - 1
      BY <1>1, <1>3, <2>2 DEF s, e
    <2> QED
      BY <2>3 DEF c
  <1> QED
    BY <1>3, <1>4, <1>5, <1>8, <1>9

(* The copied instruction is executed and the guest is at the next copy or *)
(* at the block's exit.                                                    *)
LEMMA FromCopy ==
  ASSUME NEW b, Cached(b), TypeInv, AtCopy(b), RunStep
  PROVE  InBlock(b)' /\ RunGuestWord /\ gpc' = gpc + 1
  <1> DEFINE s == b.startLocationInCache
             e == ExitStart(b)
             n == ip + Len(Copy(gpc))
  <1>1. RunGuestWord
    BY CopyWord, StepOfWord
  <1>2. word.a = gpc /\ Copy(gpc) = InLine(text[word.a], word.a)
    BY CopyWord DEF Copy
  <1>3. /\ ip' = n /\ t6Saved' = t6Saved /\ phase' = "run" /\ memory' = memory
    BY <1>1, <1>2, RunStepKeeps DEF RunGuestWord
  <1>4. gpc' = gpc + 1
    BY <1>1, <1>2 DEF RunGuestWord, RetireInCache
  <1>5. (KeepsT6' => ~t6Saved) /\ gpc # 0
    BY RunStepKeeps, RigidBlock DEF AtCopy
  <1>6. CASE n = e /\ gpc + 1 = ExitAddr(b)
    <2>1. AtSave(b)'
      BY <1>3, <1>4, <1>5, <1>6, RigidBlock DEF AtSave
    <2> QED
      BY <1>1, <1>3, <1>4, <2>1 DEF InBlock
  <1>7. CASE n \in s + 1 .. e - 1 /\ memory[n].a = gpc + 1
    <2>1. gpc + 1 # 0
      <3>1. gpc \in TextRange
        BY CopyWord
      <3> QED
        BY <3>1 DEF TextRange
    <2>2. AtCopy(b)'
      BY <1>3, <1>4, <1>5, <1>7, <2>1, RigidBlock DEF AtCopy
    <2> QED
      BY <1>1, <1>3, <1>4, <2>2 DEF InBlock
  <1> QED
    BY <1>6, <1>7, CopyWord

(* The exit saves T6 first.                                                *)
LEMMA FromSave ==
  ASSUME NEW b, Cached(b), TypeInv, AtSave(b), RunStep
  PROVE  InBlock(b)' /\ Unseen
  <1> DEFINE e == ExitStart(b)
  <1>1. e \in DOMAIN memory /\ memory[e].k = "save"
    <2>1. e \in Nat
      BY CachedEnds
    <2>2. CASE EndsInBranch(b)
      BY <2>1, <2>2, BranchExitWords
    <2>3. CASE ~EndsInBranch(b)
      BY <2>1, <2>3, SwitchWords
    <2> QED
      BY <2>2, <2>3
  <1>2. RunInlineSave
    BY <1>1, StepOfWord DEF word, AtSave
  <1>3. /\ ip' = e + 2 /\ t6Saved' /\ slot' = regs.t6 /\ regs' = regs /\ gpc' = gpc
        /\ phase' = "run"
    BY <1>2, RunStepKeeps DEF RunInlineSave, InlineSave, AtSave
  <1>4. Unseen
    BY <1>2, UnseenSteps DEF AtSave
  <1>5. CASE EndsInBranch(b)
    <2>1. AtBranch(b)'
      BY <1>3, <1>5, RigidBlock DEF AtBranch, AtSave, Parked6
    <2> QED
      BY <1>3, <1>4, <2>1 DEF InBlock
  <1>6. CASE ~EndsInBranch(b)
    <2>1. AtSwitch(b)'
      BY <1>3, <1>6, RigidBlock DEF AtSwitch, AtSave
    <2> QED
      BY <1>3, <1>4, <2>1 DEF InBlock
  <1> QED
    BY <1>5, <1>6

(* Loading the address of a host entry,                                    *)
LEMMA LoadsEntry ==
  ASSUME TypeInv, RunStep, ip \in DOMAIN memory, word.k = "li", t6Saved
  PROVE  /\ ip' = ip + 3 /\ regs'.t6 = word.v /\ phase' = "run"
         /\ t6Saved' /\ gpc' = gpc /\ Unseen /\ UNCHANGED ArchRegs
  <1>1. RunLi
    BY StepOfWord
  <1>2. ip' = ip + 3
    <2>1. Len(Li(word.v)) = 3
      BY LengthTypes
    <2>2. ip' = ip + Len(Li(word.v))
      BY <1>1 DEF RunLi
    <2> QED
      BY <2>1, <2>2
  <1>3. regs' = [regs EXCEPT !.t6 = word.v]
    BY <1>1 DEF RunLi, At
  <1>4. regs'.t6 = word.v
    BY <1>3 DEF TypeInv, TypeOK, DispatcherTypeOK, Reg
  <1>5. t6Saved' = t6Saved /\ gpc' = gpc
    BY <1>1 DEF RunLi, history
  <1> QED
    BY <1>1, <1>2, <1>4, <1>5, RunStepKeeps, UnseenSteps DEF RunLi

(* and jumping to it: the host begins by taking T6 back.                   *)
LEMMA EntersHost ==
  ASSUME TypeInv, RunStep, ip \in DOMAIN memory, word.k = "jalrT6",
         t6Saved, regs.t6 \in HostEntry
  PROVE  /\ phase' = HostPhase(regs.t6) /\ taken' = (regs.t6 # ContextSwitch)
         /\ Parked6' /\ gpc' = gpc /\ Unseen /\ UNCHANGED ArchRegs
  <1>1. RunSwitch
    BY StepOfWord
  <1>2. /\ regs' = [regs EXCEPT !.t6 = slot] /\ slot' = slot
        /\ t6Saved' = t6Saved /\ gpc' = gpc
    BY <1>1 DEF RunSwitch, history
  <1>3. Parked6'
    BY <1>2 DEF Parked6, TypeInv, TypeOK, DispatcherTypeOK, Reg
  <1> QED
    BY <1>1, <1>2, <1>3, UnseenSteps DEF RunSwitch

(* A pre-instrumented block gets the processor to instrument.              *)
LEMMA FromEntry ==
  ASSUME NEW b, Cached(b), TypeInv, AtEntry(b), RunStep
  PROVE  InBlock(b)' /\ Unseen
  <1> DEFINE s == b.startLocationInCache
  <1>1. PreInstLayout(memory, b) /\ t6Saved /\ gpc = b.firstAddr /\ s \in Nat
    BY CachedLast DEF AtEntry
  <1>2. /\ s..(s + 5) \subseteq DOMAIN memory /\ memory[s].k = "save"
        /\ memory[s + 2].k = "li" /\ memory[s + 2].v = ContextSwitchInstrument
        /\ memory[s + 5].k = "jalrT6"
    BY <1>1, EntryWords
  <1>3. PreInstLayout(memory, b)'
    BY <1>1, RunStepKeeps, RigidPreInst
  <1>4. ~KeepsT6
    BY <1>1 DEF PreInstLayout, NeedsPreBlock, KeepsT6
  <1>5. CASE ip = s
    <2>1. RunInlineSave
      BY <1>1, <1>2, <1>5, StepOfWord DEF word
    <2>2. ip' = s + 2 /\ t6Saved' /\ gpc' = gpc /\ phase' = "run"
      BY <1>5, <2>1, RunStepKeeps DEF RunInlineSave, InlineSave
    <2>3. Unseen
      BY <1>4, <2>1, UnseenSteps
    <2>4. AtEntry(b)'
      BY <1>1, <1>3, <2>2 DEF AtEntry
    <2> QED
      BY <2>2, <2>3, <2>4 DEF InBlock
  <1>6. CASE ip = s + 2
    <2>1. ip \in DOMAIN memory /\ word.k = "li" /\ ip + 3 = s + 5
          /\ word.v = ContextSwitchInstrument
      BY <1>1, <1>2, <1>6 DEF word
    <2>2. /\ ip' = s + 5 /\ regs'.t6 = ContextSwitchInstrument /\ phase' = "run"
          /\ t6Saved' /\ gpc' = gpc /\ Unseen
      BY <1>1, <2>1, LoadsEntry
    <2>3. AtEntry(b)'
      BY <1>1, <1>3, <2>2 DEF AtEntry, ContextSwitchInstrument
    <2> QED
      BY <2>2, <2>3 DEF InBlock
  <1>7. CASE ip = s + 5 /\ regs.t6 = ContextSwitchInstrument
    <2>1. ip \in DOMAIN memory /\ word.k = "jalrT6"
      BY <1>1, <1>2, <1>7 DEF word
    <2>2. regs.t6 \in HostEntry /\ HostPhase(regs.t6) = "instrument"
      BY <1>7 DEF HostEntry, HostPhase, InitSwitch, ContextSwitch,
                  ContextSwitchInstrument
    <2>3. phase' = "instrument" /\ Parked6' /\ gpc' = gpc /\ Unseen
      BY <1>1, <2>1, <2>2, EntersHost
    <2>4. AtInstrument(b)'
      BY <1>1, <1>3, <2>3 DEF AtInstrument
    <2> QED
      BY <2>3, <2>4 DEF InBlock
  <1> QED
    BY <1>5, <1>6, <1>7 DEF AtEntry

(* Then the exit of anything but a branch loads the entry of stub and      *)
(* jumps there.                                                            *)
LEMMA FromSwitch ==
  ASSUME NEW b, Cached(b), TypeInv, AtSwitch(b), RunStep
  PROVE  InBlock(b)' /\ Unseen
  <1> DEFINE e == ExitStart(b)
  <1>1. ~EndsInBranch(b) /\ t6Saved /\ gpc = ExitAddr(b) /\ e \in Nat
    BY CachedEnds DEF AtSwitch
  <1>2. /\ e..(e + 5) \subseteq DOMAIN memory /\ memory[e + 2].k = "li"
        /\ memory[e + 2].v \in {ContextSwitch, ContextSwitchTaken}
        /\ memory[e + 5].k = "jalrT6"
    BY <1>1, SwitchWords
  <1>3. CASE ip = e + 2
    <2>1. ip \in DOMAIN memory /\ word.k = "li" /\ ip + 3 = e + 5
      BY <1>1, <1>2, <1>3 DEF word
    <2>2. /\ ip' = e + 5 /\ regs'.t6 = word.v /\ phase' = "run"
          /\ t6Saved' /\ gpc' = gpc /\ Unseen
      BY <1>1, <2>1, LoadsEntry
    <2>3. regs'.t6 = memory[e + 2].v /\ memory' = memory
      BY <1>3, <2>2, RunStepKeeps DEF word
    <2>4. AtSwitch(b)'
      BY <1>1, <2>2, <2>3, RigidBlock DEF AtSwitch
    <2> QED
      BY <2>2, <2>4 DEF InBlock
  <1>4. CASE ip = e + 5 /\ regs.t6 = memory[e + 2].v
    <2>1. ip \in DOMAIN memory /\ word.k = "jalrT6"
      BY <1>1, <1>2, <1>4 DEF word
    <2>2. regs.t6 \in HostEntry /\ HostPhase(regs.t6) = "stub"
      BY <1>2, <1>4 DEF HostEntry, HostPhase, InitSwitch, ContextSwitch,
                        ContextSwitchTaken, ContextSwitchInstrument
    <2>3. phase' = "stub" /\ Parked6' /\ gpc' = gpc /\ Unseen
      BY <1>1, <2>1, <2>2, EntersHost
    <2>4. AtStub(b)'
      BY <1>1, <2>3, RigidBlock DEF AtStub
    <2> QED
      BY <2>3, <2>4 DEF InBlock
  <1> QED
    BY <1>3, <1>4 DEF AtSwitch

(* The branch compares the guest's own registers.                          *)
LEMMA FromBranch ==
  ASSUME NEW b, Cached(b), TypeInv, AtBranch(b), RunStep
  PROVE  InBlock(b)' /\ Unseen
  <1> DEFINE e == ExitStart(b)
             i == b.terminalInst
  <1>1. /\ EndsInBranch(b) /\ t6Saved /\ regs.t6 = slot /\ gpc = ExitAddr(b) /\ e \in Nat
        /\ ip = e + 2 /\ regs \in [Reg -> Int] /\ i = text[b.lastAddr]
    BY CachedLast, CachedEnds DEF AtBranch, Parked6, TypeInv, TypeOK, DispatcherTypeOK
  <1>2. /\ e..(e + 10) \subseteq DOMAIN memory
        /\ memory[e + 2].k = "branch" /\ memory[e + 2].a = b.lastAddr
    BY <1>1, BranchExitWords
  <1>3. ip \in DOMAIN memory /\ word.k = "branch" /\ text[word.a] = i
    BY <1>1, <1>2 DEF word
  <1>4. RunBranch
    BY <1>3, StepOfWord
  <1>5. ip' = IF BranchTaken(i, regs) THEN e + 7 ELSE e + 3
    BY <1>1, <1>3, <1>4 DEF RunBranch, BranchSkip
  <1>6. /\ t6Saved' = t6Saved /\ gpc' = gpc /\ phase' = "run"
    BY <1>4, RunStepKeeps DEF RunBranch, history
  <1>7. Unseen /\ UNCHANGED ArchRegs
    BY <1>4, UnseenSteps
  <1>8. ArchRegs = regs
    BY <1>1 DEF ArchRegs
  <1>9. BranchTaken(i, ArchRegs)' <=> BranchTaken(i, regs)
    BY <1>7, <1>8 DEF BranchTaken, RegValue
  <1>10. AtBranchExit(b)'
    BY <1>1, <1>5, <1>6, <1>9, RigidBlock DEF AtBranchExit
  <1> QED
    BY <1>6, <1>7, <1>10 DEF InBlock

(* Either of the branch's exits tells stub what the branch did.            *)
LEMMA FromBranchExit ==
  ASSUME NEW b, Cached(b), TypeInv, AtBranchExit(b), RunStep
  PROVE  InBlock(b)' /\ Unseen
  <1> DEFINE e == ExitStart(b)
             Taken == BranchTaken(b.terminalInst, ArchRegs)
  <1>1. EndsInBranch(b) /\ t6Saved /\ gpc = ExitAddr(b) /\ e \in Nat
    BY CachedEnds DEF AtBranchExit
  <1>2. /\ e..(e + 10) \subseteq DOMAIN memory
        /\ memory[e + 3].k = "li" /\ memory[e + 3].v = ContextSwitch
        /\ memory[e + 6].k = "jalrT6"
        /\ memory[e + 7].k = "li" /\ memory[e + 7].v = ContextSwitchTaken
        /\ memory[e + 10].k = "jalrT6"
    BY <1>1, BranchExitWords
  <1>3. UNCHANGED ArchRegs => (Taken' <=> Taken)
    BY DEF BranchTaken, RegValue
  <1>4. CASE (ip = e + 3 /\ ~Taken) \/ (ip = e + 7 /\ Taken)
    <2>1. ip \in DOMAIN memory /\ word.k = "li"
      BY <1>1, <1>2, <1>4 DEF word
    <2>2. /\ ip' = ip + 3 /\ regs'.t6 = word.v /\ phase' = "run"
          /\ t6Saved' /\ gpc' = gpc /\ Unseen /\ UNCHANGED ArchRegs
      BY <1>1, <2>1, LoadsEntry
    <2>3. \/ ip' = e + 6 /\ regs'.t6 = ContextSwitch /\ ~Taken'
          \/ ip' = e + 10 /\ regs'.t6 = ContextSwitchTaken /\ Taken'
      BY <1>1, <1>2, <1>3, <1>4, <2>2 DEF word
    <2>4. AtBranchExit(b)'
      BY <1>1, <2>2, <2>3, RigidBlock DEF AtBranchExit
    <2> QED
      BY <2>2, <2>4 DEF InBlock
  <1>5. CASE \/ ip = e + 6 /\ regs.t6 = ContextSwitch /\ ~Taken
             \/ ip = e + 10 /\ regs.t6 = ContextSwitchTaken /\ Taken
    <2>1. ip \in DOMAIN memory /\ word.k = "jalrT6"
      BY <1>1, <1>2, <1>5 DEF word
    <2>2. /\ regs.t6 \in HostEntry /\ HostPhase(regs.t6) = "stub"
          /\ regs.t6 # ContextSwitch <=> Taken
      BY <1>5 DEF HostEntry, HostPhase, InitSwitch, ContextSwitch,
                  ContextSwitchTaken, ContextSwitchInstrument
    <2>3. /\ phase' = "stub" /\ Parked6' /\ gpc' = gpc /\ Unseen /\ UNCHANGED ArchRegs
          /\ taken' <=> Taken
      BY <1>1, <2>1, <2>2, EntersHost
    <2>4. ArchRegs' = regs'
      <3>1. Parked6' => ArchRegs' = regs'
        <4>1. TypeInv'
          BY RunStepType
        <4> QED
          BY <4>1 DEF Parked6, ArchRegs, TypeInv, TypeOK, DispatcherTypeOK
      <3> QED
        BY <2>3, <3>1
    <2>5. taken' <=> BranchTaken(b.terminalInst, regs)'
      BY <1>3, <2>3, <2>4 DEF BranchTaken, RegValue
    <2>6. AtStub(b)'
      BY <1>1, <2>3, <2>5, RigidBlock DEF AtStub
    <2> QED
      BY <2>3, <2>6 DEF InBlock
  <1> QED
    BY <1>4, <1>5 DEF AtBranchExit

(* A step of the processor in a block leaves the guest in that block, and  *)
(* executes the instruction the guest is at or nothing of the guest's.     *)
LEMMA InBlockStep ==
  ASSUME NEW b, Cached(b), TypeInv, InBlock(b), RunStep
  PROVE  /\ InBlock(b)'
         /\ \/ Unseen
            \/ AtCopy(b) /\ RunGuestWord /\ gpc' = gpc + 1
  <1>1. phase = "run"
    BY RunStepKeeps
  <1> QED
    BY <1>1, FromRestore, FromEntry, FromCopy, FromSave, FromSwitch, FromBranch,
       FromBranchExit DEF InBlock, AtStub, AtInstrument

-----------------------------------------------------------------------------
(* The root of the cache.                                                  *)

(* Its four words.                                                         *)
LEMMA RootShape ==
  LET ws == Li(InitSwitch) \o JalrT6
  IN  /\ ws \in Seq(CodeWord) /\ Len(ws) = 4
      /\ ws[1] = W("li", 0, InitSwitch) /\ ws[4] = W("jalrT6", 0, 0)
  <1>1. Li(InitSwitch) \in Seq(CodeWord) /\ JalrT6 \in Seq(CodeWord)
    BY LibraryWords, HostEntries
  <1>2. /\ Len(Li(InitSwitch)) = 3 /\ Li(InitSwitch)[1] = W("li", 0, InitSwitch)
        /\ Len(JalrT6) = 1 /\ JalrT6[1] = W("jalrT6", 0, 0)
    BY DEF Li, JalrT6
  <1> DEFINE s == Li(InitSwitch)
             t == JalrT6
  <1> HIDE DEF s, t
  <1>3. /\ s \o t \in Seq(CodeWord) /\ Len(s \o t) = Len(s) + Len(t)
        /\ \A k \in 1..Len(s) : (s \o t)[k] = s[k]
        /\ \A k \in 1..Len(t) : (s \o t)[Len(s) + k] = t[k]
    BY <1>1, Joined DEF s, t
  <1>4. /\ Len(s) = 3 /\ s[1] = W("li", 0, InitSwitch)
        /\ Len(t) = 1 /\ t[1] = W("jalrT6", 0, 0)
    BY <1>2 DEF s, t
  <1>5. /\ Len(s \o t) = 4 /\ (s \o t)[1] = W("li", 0, InitSwitch)
        /\ (s \o t)[4] = W("jalrT6", 0, 0)
    BY <1>3, <1>4
  <1> QED
    BY <1>3, <1>5 DEF s, t

LEMMA RootWords ==
  ASSUME memory \in Seq(CodeWord), Holds(memory, 1, Li(InitSwitch) \o JalrT6)
  PROVE  /\ 1 \in DOMAIN memory /\ memory[1].k = "li" /\ memory[1].v = InitSwitch
         /\ 4 \in DOMAIN memory /\ memory[4].k = "jalrT6"
  <1> DEFINE ws == Li(InitSwitch) \o JalrT6
  <1>1. Len(ws) = 4 /\ ws[1] = W("li", 0, InitSwitch) /\ ws[4] = W("jalrT6", 0, 0)
    BY RootShape
  <1> HIDE DEF ws
  <1>2. /\ 1 \in 1..Len(memory) /\ 4 \in 1..Len(memory)
        /\ memory[1] = ws[1] /\ memory[4] = ws[4]
    BY <1>1 DEF Holds, ws
  <1> QED
    BY <1>1, <1>2, WordFields

(* It leads into init, which finds everything as it was.                   *)
LEMMA FromRoot ==
  ASSUME TypeInv, AtRoot, RunStep
  PROVE  AtRoot' /\ Unseen
  <1>1. memory \in Seq(CodeWord) /\ Holds(memory, 1, Li(InitSwitch) \o JalrT6)
    BY DEF TypeInv, AtRoot
  <1>2. /\ 1 \in DOMAIN memory /\ memory[1].k = "li" /\ memory[1].v = InitSwitch
        /\ 4 \in DOMAIN memory /\ memory[4].k = "jalrT6"
    BY <1>1, RootWords
  <1>3. /\ phase = "run" /\ memory' = memory /\ alloc' = alloc
        /\ currentBB' = currentBB /\ program_counter' = program_counter
    BY RunStepKeeps
  <1>4. t6Saved /\ currentBB = 0 /\ gpc = 1 /\ program_counter = 1 /\ ~alloc.busy
    BY DEF AtRoot
  <1>5. (Holds(memory, 1, Li(InitSwitch) \o JalrT6))'
    BY <1>1, <1>3 DEF Holds, Li, JalrT6, W, Cont, InitSwitch
  <1>6. CASE ip = 1
    <2>1. ip \in DOMAIN memory /\ word.k = "li" /\ word.v = InitSwitch
      BY <1>2, <1>6 DEF word
    <2>2. /\ ip' = 4 /\ regs'.t6 = InitSwitch /\ phase' = "run"
          /\ t6Saved' /\ gpc' = gpc /\ Unseen
      BY <1>4, <1>6, <2>1, LoadsEntry
    <2> QED
      BY <1>3, <1>4, <1>5, <2>2 DEF AtRoot
  <1>7. CASE ip = 4 /\ regs.t6 = InitSwitch
    <2>1. ip \in DOMAIN memory /\ word.k = "jalrT6"
      BY <1>2, <1>7 DEF word
    <2>2. regs.t6 \in HostEntry /\ HostPhase(regs.t6) = "init"
      <3>1. InitSwitch \in HostEntry
        BY DEF HostEntry, InitSwitch, ContextSwitch
      <3>2. HostPhase(InitSwitch) = "init"
        BY DEF HostPhase, InitSwitch, ContextSwitchInstrument
      <3> QED
        BY <1>7, <3>1, <3>2
    <2>3. phase' = "init" /\ Parked6' /\ gpc' = gpc /\ Unseen
      BY <1>4, <2>1, <2>2, EntersHost
    <2> QED
      BY <1>3, <1>4, <1>5, <2>3 DEF AtRoot, Parked6
  <1> QED
    BY <1>3, <1>6, <1>7 DEF AtRoot

-----------------------------------------------------------------------------
(* The host waits for a block.                                             *)

(* The text and the routines stay what they were.                          *)
LEMMA SameSetup ==
  ASSUME [Next]_vars
  PROVE  text' = text /\ tool' = tool
  <1>1. RunStep => text' = text /\ tool' = tool
    BY RunStepKeeps
  <1>2. \A a : AllocateIfMissing(a) => text' = text /\ tool' = tool
    BY DEF AllocateIfMissing, AllocBegin, cacheVars
  <1>3. HostStep => text' = text /\ tool' = tool
    BY <1>2 DEF HostStep, Init_Allocate, Init_Enter, Stub_Transfer, Stub_Segment,
           Stub_Emulate, Stub_Forward, Stub_Exit, Stub_Enter, Stub_GiveUp, Instrument,
           LeaveFor, AllocBegin, cacheVars
  <1>4. Allocate => text' = text /\ tool' = tool
    BY DEF Allocate, AllocStep, AllocPreInst, AllocBranch, AllocJal, AllocJalr,
           AllocSystem, AllocInLine, AllocAmo, AllocEnd
  <1> QED
    BY <1>1, <1>3, <1>4 DEF Next, Halted, vars, cacheVars

LEMMA SameTracked ==
  ASSUME text' = text, tool' = tool
  PROVE  /\ TextRange' = TextRange /\ (Tracked' <=> Tracked) /\ (Supported' <=> Supported)
         /\ KeepsT6' <=> KeepsT6
         /\ LeavesT6Alone' <=> LeavesT6Alone
  <1>1. TextRange' = TextRange
    BY DEF TextRange
  <1>2. (KeepsT6' <=> KeepsT6) /\ \A i : NeedsPreBlock(i)' <=> NeedsPreBlock(i)
    BY RigidBlock
  <1>3. Tracked' <=> Tracked
    BY <1>1, <1>2 DEF Tracked, TextCloses, TextRange
  <1>4. Supported' <=> Supported
    BY <1>1, <1>2, <1>3 DEF Supported
  <1>5. LeavesT6Alone' <=> LeavesT6Alone
    BY <1>1 DEF LeavesT6Alone
  <1> QED
    BY <1>1, <1>2, <1>3, <1>4, <1>5

(* Where a step of the allocator leaves a text that closes: at the next    *)
(* instruction, with the block inserted, or outside the text at once.      *)
LEMMA AllocatorStep ==
  ASSUME CacheInv, MetadataOK, Tracked, AllocStep
  PROVE  /\ currentBB' = currentBB
         /\ \/ /\ alloc'.busy /\ alloc'.railBB = alloc.railBB
               /\ program_counter' \in TextRange
            \/ ~alloc'.busy /\ alloc.railBB.firstAddr \in DOMAIN RailBasicBlocks'
            \/ ~alloc'.busy /\ program_counter \notin TextRange
  <1> DEFINE pc == program_counter
             i  == Fetch(pc)
             Inserted == ~alloc'.busy /\ alloc.railBB.firstAddr \in DOMAIN RailBasicBlocks'
             Continues == /\ alloc'.busy /\ alloc'.railBB = alloc.railBB
                          /\ program_counter' \in TextRange
  <1>1. /\ text \in Seq(Inst) /\ Len(text) \in Nat /\ pc \in Int
        /\ alloc \in [busy : BOOLEAN, railBB : Block, allocatedPrev : Nat]
    BY DEF CacheInv, CacheTypeOK
  <1>2. i.op # "none" => pc \in TextRange /\ i = text[pc]
    BY DEF Fetch, NoInst, TextRange
  <1>4. \A type, words : FinishWith(type, words) => Inserted
    BY <1>1, ClosedFirstAddr DEF FinishWith, InsertedBB, Idle
  <1>5. ASSUME NEW words, ContinueWith(words), Regular(i), i.op \notin ControlOp
        PROVE  Continues
    <2>1. alloc'.busy /\ alloc'.railBB = alloc.railBB /\ program_counter' = pc + 1
      BY <1>1, <1>5 DEF ContinueWith, Regular
    <2>2. pc \in TextRange /\ text[pc].op \notin ControlOp
      BY <1>2, <1>5 DEF Regular
    <2>3. text[Len(text) - 1].op \in ControlOp
      BY DEF Tracked, TextCloses
    <2>4. pc # Len(text) - 1
      BY <2>2, <2>3
    <2>5. pc + 1 \in TextRange
      BY <1>1, <2>2, <2>4 DEF TextRange
    <2> QED
      BY <2>1, <2>5
  <1>6. CASE AllocPreInst
    <2> DEFINE first  == alloc.railBB.firstAddr
               cut    == alloc.allocatedPrev > 0
               words  == IF cut THEN memory \o SwitchTo(ContextSwitch) ELSE memory
               seg    == Closed("SEGMENTED", LastLaidOut, words)
               blocks == IF cut THEN InsertedBB(RailBasicBlocks, seg)
                                ELSE RailBasicBlocks
               bb     == PreInstBB(i, words)
    <2>1. /\ alloc.busy /\ alloc' = Idle /\ currentBB' = currentBB
          /\ IF pc \in DOMAIN blocks THEN RailBasicBlocks' = blocks
                                     ELSE RailBasicBlocks' = InsertedBB(blocks, bb)
      BY <1>6 DEF AllocPreInst
    <2>2. seg.firstAddr = first /\ bb.firstAddr = pc
      <3> HIDE DEF words
      <3> QED
        BY ClosedFirstAddr DEF PreInstBB
    <2> HIDE DEF seg, bb
    <2>3. first \in DOMAIN RailBasicBlocks'
      <3>1. CASE cut
        <4>1. first \in DOMAIN blocks
          BY <2>2, <3>1 DEF InsertedBB
        <4> HIDE DEF blocks
        <4> QED
          BY <2>1, <4>1 DEF InsertedBB
      <3>2. CASE ~cut
        <4>1. alloc.allocatedPrev = pc - first /\ first \in Int /\ alloc.allocatedPrev \in Nat
          BY <2>1, AllocTypes DEF MetadataOK, AllocDescribesText
        <4>2. first = pc
          BY <1>1, <3>2, <4>1
        <4> HIDE DEF blocks
        <4> QED
          BY <2>1, <2>2, <4>2 DEF InsertedBB
      <3> QED
        BY <3>1, <3>2
    <2> QED
      BY <2>1, <2>3 DEF Idle
  <1>7. CASE AllocBranch \/ AllocJal \/ AllocJalr
    BY <1>4, <1>7 DEF AllocBranch, AllocJal, AllocJalr
  <1>8. CASE AllocSystem
    BY <1>1, <1>8, ClosedFirstAddr DEF AllocSystem, InsertedBB, Idle
  <1>9. CASE AllocInLine
    <2>1. /\ Regular(i) /\ i.op \notin ControlOp /\ currentBB' = currentBB
          /\ \/ \E words : FinishWith("SEGMENTED", words)
             \/ \E words : ContinueWith(words)
      BY <1>9 DEF AllocInLine
    <2> QED
      BY <1>4, <1>5, <2>1
  <1>10. CASE AllocAmo
    <2>1. /\ Regular(i) /\ i.op \notin ControlOp /\ currentBB' = currentBB
          /\ \E words : ContinueWith(words)
      BY <1>10 DEF AllocAmo, ControlOp
    <2> QED
      BY <1>5, <2>1
  <1>11. CASE AllocEnd
    <2>1. pc \notin TextRange
      BY <1>2, <1>11 DEF AllocEnd, Tracked, TextCloses, Fetch, TextRange
    <2> QED
      BY <1>11, <2>1 DEF AllocEnd, Idle
  <1> QED
    BY <1>6, <1>7, <1>8, <1>9, <1>10, <1>11 DEF AllocStep

(* The host goes on waiting until the guest's block is there or the guest  *)
(* is known to have left the text.                                         *)
LEMMA AllocateWaits ==
  ASSUME CacheInv, MetadataOK, Tracked, AtWait, Allocate
  PROVE  AtWait'
  <1>1. /\ AllocStep /\ phase' = phase /\ regs' = regs /\ slot' = slot
        /\ frame' = frame /\ t6Saved' = t6Saved /\ gpc' = gpc
    BY DEF Allocate, history
  <1>2. alloc.busy
    BY <1>1 DEF AllocStep, AllocPreInst, AllocBranch, AllocJal, AllocJalr,
                AllocSystem, AllocInLine, AllocAmo, AllocEnd, Regular
  <1>3. /\ phase \in {"initWait", "stubWait"} /\ Parked6
        /\ frame.nextBlockAddr = gpc /\ frame.shouldNotExecLast
        /\ phase = "initWait" => gpc \in TextRange /\ currentBB = gpc
        /\ alloc.railBB.firstAddr = gpc /\ currentBB = gpc
        /\ gpc \in TextRange => program_counter \in TextRange
    BY <1>2 DEF AtWait
  <1>4. Parked6'
    BY <1>1, <1>3 DEF Parked6
  <1>5. TextRange' = TextRange
    <2>1. text' = text
      BY SameSetup DEF Next
    <2> QED
      BY <2>1 DEF TextRange
  <1>6. /\ currentBB' = currentBB
        /\ \/ /\ alloc'.busy /\ alloc'.railBB = alloc.railBB
              /\ program_counter' \in TextRange
           \/ ~alloc'.busy /\ alloc.railBB.firstAddr \in DOMAIN RailBasicBlocks'
           \/ ~alloc'.busy /\ program_counter \notin TextRange
    BY <1>1, AllocatorStep
  <1> QED
    BY <1>1, <1>3, <1>4, <1>5, <1>6 DEF AtWait

(* stub leaves for the block at the guest's address.                       *)
LEMMA LeaveForWaits ==
  ASSUME NEW cur, NEW next, LeaveFor(cur, next, FALSE),
         ~alloc.busy, gpc' = next, Parked6'
  PROVE  AtWait'
  <1>1. /\ phase' = "stubWait" /\ frame'.nextBlockAddr = next /\ frame'.shouldNotExecLast
        /\ AllocateIfMissing(next)
    BY DEF LeaveFor
  <1>2. CASE next \in DOMAIN RailBasicBlocks
    <2>1. RailBasicBlocks' = RailBasicBlocks /\ alloc' = alloc
      BY <1>1, <1>2 DEF AllocateIfMissing, cacheVars
    <2> QED
      BY <1>1, <1>2, <2>1 DEF AtWait
  <1>3. CASE next \notin DOMAIN RailBasicBlocks
    <2>1. AllocBegin(next)
      BY <1>1, <1>3 DEF AllocateIfMissing
    <2>2. /\ alloc'.busy /\ alloc'.railBB.firstAddr = next
          /\ currentBB' = next /\ program_counter' = next
      BY <2>1 DEF AllocBegin, setCurrentBB, ZeroBlock
    <2> QED
      BY <1>1, <2>2 DEF AtWait
  <1> QED
    BY <1>2, <1>3

(* init waits for the block at the text's first address.                   *)
LEMMA InitWaits ==
  ASSUME CacheInv, Tracked, AtRoot, Init_Allocate
  PROVE  AtWait' /\ Unseen
  <1>1. /\ phase = "init" /\ gpc = 1 /\ program_counter = 1 /\ t6Saved /\ regs.t6 = slot
        /\ AllocBegin(program_counter) /\ phase' = "initWait"
        /\ frame' = [EmptyFrame EXCEPT !.nextBlockAddr = program_counter]
        /\ regs' = regs /\ slot' = slot /\ t6Saved' = t6Saved /\ gpc' = gpc
        /\ served' = served /\ status' = status
    BY DEF AtRoot, Init_Allocate, history
  <1>2. /\ alloc'.busy /\ alloc'.railBB.firstAddr = 1 /\ text' = text
        /\ currentBB' = 1 /\ program_counter' = 1
    BY <1>1 DEF AllocBegin, setCurrentBB, ZeroBlock
  <1>3. frame'.nextBlockAddr = 1 /\ frame'.shouldNotExecLast
    BY <1>1 DEF EmptyFrame
  <1>4. 1 \in TextRange
    BY DEF Tracked, TextCloses, TextRange, CacheInv, CacheTypeOK
  <1>5. TextRange' = TextRange
    BY <1>2 DEF TextRange
  <1>6. AtWait'
    BY <1>1, <1>2, <1>3, <1>4, <1>5 DEF AtWait, Parked6
  <1>7. Unseen
    BY <1>1, <1>2 DEF Unseen, ArchRegs
  <1> QED
    BY <1>6, <1>7

-----------------------------------------------------------------------------
(* The host at the end of a block.                                         *)

(* The instruction that ended the block, as stub finds it.                 *)
LEMMA StubBlock ==
  ASSUME NEW b, Cached(b), TypeInv, AtStub(b)
  PROVE  /\ regs \in [Reg -> Int] /\ TRAPFRAME = regs /\ ArchRegs = regs /\ regs.t6 = slot
         /\ b.lastAddr \in TextRange /\ b.lastAddr \in Int
         /\ b.terminalInst = text[b.lastAddr] /\ b.terminalInst \in Inst
         /\ b.terminalInst.op # "none" /\ b.terminalInst.sys # "forwarded"
         /\ b.type \in {"DIRECT_BRANCH", "INDIRECT_BRANCH"} =>
              b.terminalInst.op \in {"BRANCH", "JAL", "JALR"} /\ gpc = b.lastAddr
         /\ b.type = "SEGMENTED" => gpc = b.lastAddr + 1
         /\ b.type = "SYSCALL" => b.terminalInst.op = "SYSTEM" /\ gpc = b.lastAddr
         /\ b.type \in {"DIRECT_BRANCH", "INDIRECT_BRANCH", "SEGMENTED", "SYSCALL"}
  <1>1. regs \in [Reg -> Int] /\ t6Saved /\ regs.t6 = slot /\ gpc = ExitAddr(b)
    BY DEF AtStub, Parked6, TypeInv, TypeOK, DispatcherTypeOK
  <1>2. TRAPFRAME = regs /\ ArchRegs = regs
    BY <1>1 DEF TRAPFRAME, ArchRegs
  <1>3. /\ b.lastAddr \in TextRange /\ b.lastAddr \in Int
        /\ b.terminalInst = text[b.lastAddr] /\ b.terminalInst \in Inst
        /\ EndsBlock(b.type, b.terminalInst.op)
        /\ ExitAddr(b) = IF EndsInControl(b) THEN b.lastAddr ELSE b.lastAddr + 1
    BY CachedLast
  <1>4. b.terminalInst.op # "none" /\ b.terminalInst.sys # "forwarded"
    BY <1>3 DEF Cached, Tracked, TextCloses
  <1>5. b.type \in {"DIRECT_BRANCH", "INDIRECT_BRANCH", "SEGMENTED", "SYSCALL"}
    BY <1>3 DEF EndsBlock
  <1>6. b.type \in {"DIRECT_BRANCH", "INDIRECT_BRANCH"} =>
          b.terminalInst.op \in {"BRANCH", "JAL", "JALR"} /\ EndsInControl(b)
    BY <1>3 DEF EndsBlock, EndsInControl, ControlOp
  <1>7. b.type = "SEGMENTED" => ~EndsInControl(b)
    BY <1>3 DEF EndsBlock, EndsInControl
  <1>8. b.type = "SYSCALL" => b.terminalInst.op = "SYSTEM" /\ EndsInControl(b)
    BY <1>3 DEF EndsBlock, EndsInControl, ControlOp
  <1> QED
    BY <1>1, <1>2, <1>3, <1>4, <1>5, <1>6, <1>7, <1>8

(* stub sends the guest where the branch or jump would, with the link it   *)
(* would write.                                                            *)
LEMMA TransferTarget ==
  ASSUME NEW b, Cached(b), TypeInv, AtStub(b),
         b.type \in {"DIRECT_BRANCH", "INDIRECT_BRANCH"}
  PROVE  /\ NextBlockAddr(b.terminalInst, b.lastAddr) = Target(text[gpc], gpc, ArchRegs)
         /\ LinkedFrame(b.terminalInst, b.lastAddr) = Execute(text[gpc], gpc, ArchRegs)
  <1> DEFINE i == b.terminalInst
  <1>1. /\ TRAPFRAME = regs /\ ArchRegs = regs /\ text[gpc] = i /\ gpc = b.lastAddr
        /\ i.op \in {"BRANCH", "JAL", "JALR"} /\ i.rd \in Reg \cup {"zero"}
        /\ "zero" \notin Reg
    BY StubBlock DEF Inst, Reg
  <1>2. i.op = "BRANCH" => (taken <=> BranchTaken(i, regs))
    BY DEF AtStub, EndsInBranch
  <1>3. NextBlockAddr(i, gpc) = Target(i, gpc, regs)
    <2>1. CASE i.op = "BRANCH"
      BY <1>2, <2>1 DEF NextBlockAddr, Target
    <2>2. CASE i.op = "JAL"
      BY <2>2 DEF NextBlockAddr, Target
    <2>3. CASE i.op = "JALR"
      BY <1>1, <2>3 DEF NextBlockAddr, Target
    <2> QED
      BY <1>1, <2>1, <2>2, <2>3
  <1>4. LinkedFrame(i, gpc) = Execute(i, gpc, regs)
    <2>1. WritesRd(i) <=> i.op \in {"JAL", "JALR"} /\ i.rd # "zero"
      BY <1>1 DEF WritesRd
    <2>2. i.op \in {"JAL", "JALR"} => Result(i, gpc) = gpc + 1
      BY DEF Result
    <2> QED
      BY <1>1, <2>1, <2>2 DEF LinkedFrame, Execute
  <1> QED
    BY <1>1, <1>3, <1>4

-----------------------------------------------------------------------------
(* The bare machine's steps.                                               *)

(* The bare machine runs the text the allocator can read, with the same    *)
(* instructions.                                                           *)
LEMMA NativeText ==
  ASSUME text \in Seq(Inst), TextCloses
  PROVE  /\ Native!InText <=> gpc \in TextRange
         /\ gpc \in TextRange => Readable(text)[gpc] = text[gpc]
         /\ \A i, a, rs : Native!Target(i, a, rs) = Target(i, a, rs)
         /\ \A i, a, rs : Native!Execute(i, a, rs) = Execute(i, a, rs)
  <1>1. Len(text) \in Nat /\ Len(text) - 1 \in 1..Len(text)
    BY DEF TextCloses, TextRange
  <1>2. /\ Readable(text) \in Seq(Inst) /\ Len(Readable(text)) = Len(text) - 1
        /\ \A k \in 1..(Len(text) - 1) : Readable(text)[k] = text[k]
    <2> DEFINE m == Len(text) - 1
    <2>1. m \in 0..Len(text) /\ 1 \in 1..(m + 1)
      BY <1>1
    <2>2. /\ SubSeq(text, 1, m) \in Seq(Inst)
          /\ Len(SubSeq(text, 1, m)) = IF 1 <= m THEN m - 1 + 1 ELSE 0
          /\ \A k \in 1..(m - 1 + 1) : SubSeq(text, 1, m)[k] = text[1 + k - 1]
      BY <1>1, <2>1, SubSeqProperties
    <2> QED
      BY <1>1, <2>2 DEF Readable
  <1>3. Native!InText <=> gpc \in TextRange
    BY <1>2 DEF Native!InText, TextRange
  <1>4. \A i, a, rs : Native!Target(i, a, rs) = Target(i, a, rs)
    BY DEF Native!Target, Native!BranchTaken, Native!RegValue, Native!Reg,
           Target, BranchTaken, RegValue, Reg
  <1>5. \A i, a, rs : Native!Execute(i, a, rs) = Execute(i, a, rs)
    BY DEF Native!Execute, Native!WritesRd, Native!Result, Native!Reg,
           Execute, WritesRd, Result, Reg
  <1> QED
    BY <1>2, <1>3, <1>4, <1>5 DEF TextRange

(* Which step of the bare machine a step of the engine is.                 *)
LEMMA IsRetire ==
  ASSUME text \in Seq(Inst), TextCloses, gpc \in TextRange, status = "running",
         text[gpc].op # "SYSTEM",
         gpc' = Target(text[gpc], gpc, ArchRegs),
         ArchRegs' = Execute(text[gpc], gpc, ArchRegs),
         text' = text, served' = served, status' = status
  PROVE  Native!Retire
  BY NativeText DEF Native!Retire, Readable

LEMMA IsServe ==
  ASSUME text \in Seq(Inst), TextCloses, gpc \in TextRange, status = "running",
         text[gpc].op = "SYSTEM", text[gpc].sys # "exit",
         gpc' = gpc + 1, served' = gpc,
         text' = text, ArchRegs' = ArchRegs, status' = status
  PROVE  Native!Serve
  BY NativeText DEF Native!Serve, Readable

LEMMA IsEnd ==
  ASSUME text \in Seq(Inst), TextCloses, status = "running",
         UNCHANGED <<text, gpc, ArchRegs, served>>
  PROVE  /\ gpc \in TextRange /\ text[gpc].op = "SYSTEM" /\ text[gpc].sys = "exit"
              /\ status' = "exited" => Native!Exit
         /\ gpc \notin TextRange /\ status' = "faulted" => Native!Fault
  BY NativeText DEF Native!Exit, Native!Fault, Readable

(* A copied instruction does what the instruction does, unless the address *)
(* adjustment around it overwrites its result.                             *)
LEMMA CopyRetires ==
  ASSUME NEW b, Cached(b), TypeInv, AtCopy(b), RunGuestWord, Supported, gpc' = gpc + 1
  PROVE  Native!Retire
  <1> DEFINE i == text[gpc]
  <1>1. /\ text \in Seq(Inst) /\ regs \in [Reg -> Int] /\ i \in Inst
        /\ gpc \in TextRange /\ i.op \notin ControlOp \cup {"none"} /\ word.a = gpc
        /\ word.k = "mem" => i.op \in MemoryOp \cup {"AMO"}
    BY CopyWord DEF TypeInv, TypeOK, CacheTypeOK, DispatcherTypeOK
  <1>2. ~t6Saved /\ TextCloses
    BY DEF AtCopy, Supported, Tracked
  <1>3. /\ status = "running" /\ t6Saved' = t6Saved /\ text' = text
        /\ served' = served /\ status' = status
    BY DEF RunGuestWord, At, cacheVars
  <1>4. regs' = Execute(i, gpc, regs)
    <2>1. CASE word.k = "mem" /\ LostToScratch(i)
      <3>1. ~WritesRd(i)
        BY <1>1, <2>1 DEF Supported
      <3> QED
        BY <1>1, <2>1, <3>1 DEF RunGuestWord, Execute
    <2>2. CASE ~(word.k = "mem" /\ LostToScratch(i))
      BY <1>1, <2>2 DEF RunGuestWord
    <2> QED
      BY <2>1, <2>2
  <1>5. ArchRegs = regs /\ ArchRegs' = regs'
    BY <1>2, <1>3 DEF ArchRegs
  <1>6. gpc' = Target(i, gpc, ArchRegs)
    BY <1>1 DEF Target, ControlOp
  <1>7. i.op # "SYSTEM"
    BY <1>1 DEF ControlOp
  <1> QED
    BY <1>1, <1>2, <1>3, <1>4, <1>5, <1>6, <1>7, IsRetire

-----------------------------------------------------------------------------
(* The host's steps as the guest sees them.                                *)

(* After a branch or jump the guest is at the target, its link written.    *)
LEMMA TransferStep ==
  ASSUME NEW b, b = Lookup(currentBB), Cached(b), TypeInv, AtStub(b), ~alloc.busy,
         Stub_Transfer
  PROVE  AtWait' /\ Native!Retire
  <1> DEFINE i    == b.terminalInst
             a    == b.lastAddr
             next == NextBlockAddr(i, a)
             link == LinkedFrame(i, a)
  <1>1. /\ b.type \in {"DIRECT_BRANCH", "INDIRECT_BRANCH"}
        /\ regs' = link /\ slot' = link.t6 /\ gpc' = next
        /\ served' = served /\ LeaveFor(b, next, FALSE) /\ status = "running"
    BY DEF Stub_Transfer, InStub
  <1>2. t6Saved /\ t6Saved' = t6Saved /\ status' = status /\ text' = text
    <2>1. t6Saved /\ t6Saved' = t6Saved /\ status' = status
      BY <1>1 DEF AtStub, Parked6, LeaveFor
    <2>2. text' = text
      BY SameSetup DEF Next, HostStep
    <2> QED
      BY <2>1, <2>2
  <1>3. Parked6'
    BY <1>1, <1>2 DEF Parked6
  <1>4. AtWait'
    BY <1>1, <1>3, LeaveForWaits
  <1>5. /\ text \in Seq(Inst) /\ TextCloses /\ i \in Inst /\ i = text[gpc]
        /\ gpc \in TextRange /\ text[gpc].op # "SYSTEM" /\ a \in Int
    BY <1>1, StubBlock DEF TypeInv, TypeOK, CacheTypeOK, Cached, Tracked
  <1>6. next = Target(text[gpc], gpc, ArchRegs) /\ link = Execute(text[gpc], gpc, ArchRegs)
    BY <1>1, TransferTarget
  <1>7. ArchRegs' = link
    <2>1. link \in [Reg -> Int]
      BY <1>5, LinkedFrameType DEF TypeInv, TypeOK
    <2>2. [link EXCEPT !.t6 = link.t6] = link
      BY <2>1
    <2> QED
      BY <1>1, <2>2 DEF ArchRegs
  <1>8. Native!Retire
    BY <1>1, <1>2, <1>5, <1>6, <1>7, IsRetire
  <1> QED
    BY <1>4, <1>8

(* Between two segments of a basic block nothing happens.                  *)
LEMMA SegmentStep ==
  ASSUME NEW b, b = Lookup(currentBB), Cached(b), TypeInv, AtStub(b), ~alloc.busy,
         Stub_Segment
  PROVE  AtWait' /\ Unseen
  <1>1. /\ b.type = "SEGMENTED" /\ LeaveFor(b, b.lastAddr + 1, FALSE)
        /\ regs' = regs /\ slot' = slot /\ served' = served /\ gpc' = gpc
    BY DEF Stub_Segment
  <1>2. gpc' = b.lastAddr + 1
    BY <1>1, StubBlock
  <1>3. Parked6 /\ t6Saved' = t6Saved /\ status' = status
    BY <1>1 DEF AtStub, LeaveFor
  <1>4. Parked6'
    BY <1>1, <1>3 DEF Parked6
  <1>5. text' = text
    BY SameSetup DEF Next, HostStep
  <1>6. Unseen
    BY <1>1, <1>3, <1>5 DEF Unseen, ArchRegs
  <1> QED
    BY <1>1, <1>2, <1>4, <1>6, LeaveForWaits

(* A system call is performed once, and the guest goes on behind it.       *)
LEMMA EmulateStep ==
  ASSUME NEW b, b = Lookup(currentBB), Cached(b), TypeInv, AtStub(b), ~alloc.busy,
         Stub_Emulate
  PROVE  AtWait' /\ Native!Serve
  <1>1. /\ b.type = "SYSCALL" /\ b.terminalInst.sys = "emulated"
        /\ LeaveFor(b, b.lastAddr + 1, FALSE) /\ status = "running"
        /\ regs' = regs /\ slot' = slot /\ served' = b.lastAddr /\ gpc' = b.lastAddr + 1
    BY DEF Stub_Emulate, InStub
  <1>2. Parked6 /\ t6Saved' = t6Saved /\ status' = status
    BY <1>1 DEF AtStub, LeaveFor
  <1>3. Parked6'
    BY <1>1, <1>2 DEF Parked6
  <1>4. text' = text
    BY SameSetup DEF Next, HostStep
  <1>5. /\ text \in Seq(Inst) /\ TextCloses /\ gpc = b.lastAddr /\ gpc \in TextRange
        /\ text[gpc].op = "SYSTEM" /\ text[gpc].sys = "emulated"
    BY <1>1, StubBlock DEF TypeInv, TypeOK, CacheTypeOK, Cached, Tracked
  <1>6. ArchRegs' = ArchRegs
    BY <1>1, <1>2 DEF ArchRegs
  <1> QED
    BY <1>1, <1>2, <1>3, <1>4, <1>5, <1>6, IsServe, LeaveForWaits

(* Exiting is the end of the guest.                                        *)
LEMMA ExitStep ==
  ASSUME NEW b, b = Lookup(currentBB), Cached(b), TypeInv, AtStub(b), Stub_Exit
  PROVE  AtStub(b)' /\ Native!Exit
  <1>1. /\ b.type = "SYSCALL" /\ b.terminalInst.sys = "exit"
        /\ status = "running" /\ status' = "exited" /\ text' = text /\ phase' = phase
        /\ regs' = regs /\ slot' = slot /\ served' = served /\ gpc' = gpc
        /\ t6Saved' = t6Saved /\ taken' = taken
    BY DEF Stub_Exit, InStub, cacheVars
  <1>2. /\ text \in Seq(Inst) /\ TextCloses /\ gpc = b.lastAddr /\ gpc \in TextRange
        /\ text[gpc].op = "SYSTEM" /\ text[gpc].sys = "exit"
    BY <1>1, StubBlock DEF TypeInv, TypeOK, CacheTypeOK, Cached, Tracked
  <1>3. ArchRegs' = ArchRegs
    BY <1>1 DEF ArchRegs
  <1>4. Native!Exit
    BY <1>1, <1>2, <1>3, IsEnd
  <1>5. AtStub(b)'
    BY <1>1, RigidBlock DEF AtStub, Parked6, BranchTaken, RegValue
  <1> QED
    BY <1>4, <1>5

(* No other step is possible there.                                        *)
LEMMA StubStep ==
  ASSUME NEW b, b = Lookup(currentBB), Cached(b), TypeInv, AtStub(b), ~alloc.busy,
         HostStep
  PROVE  \/ AtWait' /\ (Unseen \/ Native!Retire \/ Native!Serve)
         \/ Stub_Exit /\ AtStub(b)' /\ Native!Exit
  <1>1. phase = "stub"
    BY DEF AtStub
  <1>2. ~Stub_Forward
    BY StubBlock DEF Stub_Forward
  <1>3. Stub_Transfer \/ Stub_Segment \/ Stub_Emulate \/ Stub_Exit
    BY <1>1, <1>2 DEF HostStep, Init_Allocate, Init_Enter, Stub_Enter, Stub_GiveUp,
                      Instrument
  <1> QED
    BY <1>3, TransferStep, SegmentStep, EmulateStep, ExitStep

(* Entering a block leaves the guest at its first address.                 *)
LEMMA Enters ==
  ASSUME DispatcherTypeOK, t6Saved, t6Saved' = t6Saved, ~alloc.busy, alloc' = alloc,
         currentBB' = gpc, gpc \in DOMAIN RailBasicBlocks', gpc' = gpc,
         RailBasicBlocks'[gpc].firstAddr = gpc, BlocksLaidOut',
         EnterCacheAt(RailBasicBlocks'[gpc].startLocationInCache, regs),
         text' = text, slot' = slot, served' = served, status' = status
  PROVE  AtBlock' /\ Unseen
  <1>1. /\ phase' = "run" /\ ip' = RailBasicBlocks'[gpc].startLocationInCache
        /\ regs' = [regs EXCEPT !.t6 = CacheAddr(RailBasicBlocks'[gpc].startLocationInCache)]
    BY DEF EnterCacheAt
  <1>2. (\/ PlainLayout(memory, RailBasicBlocks[currentBB])
         \/ PreInstLayout(memory, RailBasicBlocks[currentBB]))'
    BY DEF BlocksLaidOut, AllLaidOut
  <1>3. AtBlock'
    <2>1. (AtRestore(RailBasicBlocks[currentBB]) \/ AtEntry(RailBasicBlocks[currentBB]))'
      BY <1>1, <1>2 DEF AtRestore, AtEntry
    <2> QED
      BY <1>1, <2>1 DEF AtBlock, InBlock
  <1>4. regs \in [Reg -> Int] /\ "t6" \in Reg
    BY DEF DispatcherTypeOK, Reg
  <1>5. /\ [regs' EXCEPT !.t6 = slot] = [regs EXCEPT !.t6 = slot]
        /\ [regs' EXCEPT !.t6 = 0] = [regs EXCEPT !.t6 = 0]
    BY <1>1, <1>4
  <1>6. Unseen
    BY <1>5 DEF Unseen, ArchRegs
  <1> QED
    BY <1>3, <1>6

(* instrument goes on to the instruction, or to the exit when that is the  *)
(* dispatcher's to perform.  The address it returns to is left in T6.      *)
LEMMA InstrumentStep ==
  ASSUME NEW b, b = Lookup(currentBB), Cached(b), TypeInv, AtInstrument(b), Instrument
  PROVE  InBlock(b)' /\ Unseen
  <1> DEFINE s == b.startLocationInCache
             e == ExitStart(b)
  <1>1. /\ PreInstLayout(memory, b) /\ t6Saved /\ gpc = b.firstAddr
        /\ b.firstAddr = b.lastAddr
    BY DEF AtInstrument, Parked6, PreInstLayout
  <1>2. /\ phase' = "run" /\ ip' = s + 6 /\ regs' = [regs EXCEPT !.t6 = CacheAddr(s + 6)]
        /\ slot' = slot /\ gpc' = gpc /\ t6Saved' = t6Saved /\ served' = served
        /\ status' = status /\ text' = text /\ memory' = memory /\ tool' = tool
    <2>1. InstrumentSkip = 6
      BY SwitchToShape, HostEntries DEF InstrumentSkip
    <2> QED
      BY <2>1 DEF Instrument, EnterCacheAt, cacheVars
  <1>3. ~KeepsT6 /\ ~KeepsT6'
    BY <1>1, <1>2, RigidBlock DEF PreInstLayout, NeedsPreBlock, KeepsT6
  <1>4. Unseen
    <2>1. regs \in [Reg -> Int] /\ "t6" \in Reg
      BY DEF TypeInv, TypeOK, DispatcherTypeOK, Reg
    <2>2. [regs' EXCEPT !.t6 = 0] = [regs EXCEPT !.t6 = 0]
      BY <1>2, <2>1
    <2> QED
      BY <1>2, <1>3, <2>2 DEF Unseen
  <1>5. e = s + 6 + (IF EndsInControl(b) THEN 0 ELSE Len(Copy(b.lastAddr)))
    BY <1>1, PreInstParts
  <1>6. s \in Nat /\ b.lastAddr \in Int /\ 0 < b.firstAddr
        /\ ExitAddr(b) = IF EndsInControl(b) THEN b.lastAddr ELSE b.lastAddr + 1
    BY CachedLast
  <1>7. CASE EndsInControl(b)
    <2>1. e = s + 6 /\ gpc = ExitAddr(b)
      BY <1>1, <1>5, <1>6, <1>7
    <2>2. AtSave(b)'
      BY <1>2, <1>3, <2>1, RigidBlock DEF AtSave
    <2> QED
      BY <1>2, <1>4, <2>2 DEF InBlock
  <1>8. CASE ~EndsInControl(b)
    <2>1. memory[s + 6].a = gpc /\ gpc # 0
      BY <1>1, <1>6, <1>8, PreInstParts
    <2>2. Len(Copy(b.lastAddr)) \in {1, 3}
      BY CachedLast, CopyShape
    <2>3. s + 6 \in s + 1 .. e - 1
      <3> DEFINE c == Len(Copy(b.lastAddr))
      <3> HIDE DEF c, s, e
      <3>1. s \in Nat /\ c \in {1, 3} /\ e = s + 6 + c
        BY <1>5, <1>6, <1>8, <2>2 DEF c, s, e
      <3> QED
        BY <3>1
    <2>4. AtCopy(b)'
      BY <1>2, <1>3, <2>1, <2>3, RigidBlock DEF AtCopy
    <2> QED
      BY <1>2, <1>4, <2>4 DEF InBlock
  <1> QED
    BY <1>7, <1>8

(* The wait ends in the guest's block, or with the guest at an address     *)
(* that holds no instruction.                                              *)
LEMMA WaitStep ==
  ASSUME CacheOK, Tracked, AtWait, HostStep
  PROVE  \/ AtBlock' /\ Unseen
         \/ AtWait' /\ Native!Fault
  <1>1. /\ DispatcherTypeOK /\ CacheInv /\ text \in Seq(Inst) /\ TextCloses /\ gpc \in Int
    BY TypeInvParts DEF CacheOK, CacheInv, CacheTypeOK, Tracked, HistoryTypeOK
  <1>2. /\ phase \in {"initWait", "stubWait"} /\ t6Saved /\ frame.nextBlockAddr = gpc
        /\ frame.shouldNotExecLast
        /\ phase = "initWait" => gpc \in TextRange /\ currentBB = gpc
        /\ ~alloc.busy => gpc \in DOMAIN RailBasicBlocks \/ gpc \notin TextRange
    BY DEF AtWait, Parked6
  <1>3. gpc \in DOMAIN RailBasicBlocks =>
          /\ Lookup(gpc) = RailBasicBlocks[gpc]
          /\ RailBasicBlocks[gpc].firstAddr = gpc /\ gpc # 0
    <2>1. ASSUME gpc \in DOMAIN RailBasicBlocks
          PROVE  RailBasicBlocks[gpc].firstAddr = gpc /\ gpc # 0
      <3> DEFINE b == RailBasicBlocks[gpc]
      <3>1. Cached(b) /\ b.firstAddr = gpc
        BY <2>1, BlocksCached
      <3>2. 0 < b.firstAddr /\ b.firstAddr \in Int
        BY <3>1, CachedLast
      <3> QED
        BY <3>1, <3>2
    <2> QED
      BY <2>1 DEF Lookup
  <1>4. gpc \notin DOMAIN RailBasicBlocks => Lookup(gpc).firstAddr = 0
    BY DEF Lookup, ZeroBlock
  <1>5. text' = text /\ BlocksLaidOut'
    <2>1. LayoutOK'
      BY <1>1, HostStepLayout DEF CacheOK
    <2> QED
      BY <2>1, SameSetup DEF Next, LayoutOK
  <1>6. CASE Init_Enter
    <2>1. phase = "initWait" /\ ~alloc.busy
      BY <1>6 DEF Init_Enter
    <2>2. gpc \in DOMAIN RailBasicBlocks /\ currentBB = gpc
      BY <1>2, <2>1
    <2>3. /\ EnterCacheAt(RailBasicBlocks[gpc].startLocationInCache, regs)
          /\ RailBasicBlocks' = RailBasicBlocks /\ currentBB' = currentBB /\ alloc' = alloc
          /\ slot' = slot /\ served' = served /\ status' = status
          /\ gpc' = gpc /\ t6Saved' = t6Saved
      BY <1>2, <1>3, <1>6, <2>2 DEF Init_Enter, cacheVars
    <2> QED
      BY <1>1, <1>2, <1>3, <1>5, <2>1, <2>2, <2>3, Enters
  <1>7. CASE Stub_Enter
    <2> DEFINE b == RailBasicBlocks[gpc]
    <2>1. ~alloc.busy /\ Lookup(gpc).firstAddr # 0
      BY <1>2, <1>7 DEF Stub_Enter
    <2>2. gpc \in DOMAIN RailBasicBlocks
      BY <1>4, <2>1
    <2>3. /\ AdoptSegment(gpc, b) /\ currentBB' = gpc
          /\ EnterCacheAt(b.startLocationInCache, regs)
          /\ alloc' = alloc /\ slot' = slot /\ served' = served /\ status' = status
          /\ gpc' = gpc /\ t6Saved' = t6Saved
      BY <1>2, <1>3, <1>7, <2>2 DEF Stub_Enter, setCurrentBB, ReturnVal
    <2>4. b \in Block
      BY <1>1, <2>2 DEF CacheInv, CacheTypeOK
    <2>5. /\ gpc \in DOMAIN RailBasicBlocks'
          /\ RailBasicBlocks'[gpc].firstAddr = b.firstAddr
          /\ RailBasicBlocks'[gpc].startLocationInCache = b.startLocationInCache
      BY <2>2, <2>3, <2>4 DEF AdoptSegment, Block
    <2> QED
      BY <1>1, <1>2, <1>3, <1>5, <2>1, <2>2, <2>3, <2>5, Enters
  <1>8. CASE Stub_GiveUp
    <2>1. ~alloc.busy /\ Lookup(gpc).firstAddr = 0
      BY <1>2, <1>8 DEF Stub_GiveUp
    <2>2. gpc \notin DOMAIN RailBasicBlocks
      BY <1>3, <2>1
    <2>3. gpc \notin TextRange
      BY <1>2, <2>1, <2>2
    <2>4. /\ status = "running" /\ status' = "faulted" /\ phase' = phase /\ regs' = regs
          /\ slot' = slot /\ frame' = frame /\ served' = served
          /\ gpc' = gpc /\ t6Saved' = t6Saved
          /\ alloc' = alloc /\ currentBB' = currentBB /\ RailBasicBlocks' = RailBasicBlocks
          /\ program_counter' = program_counter
      BY <1>8 DEF Stub_GiveUp, cacheVars, history
    <2>5. AtWait'
      BY <1>2, <1>5, <2>1, <2>3, <2>4 DEF AtWait, Parked6, TextRange
    <2>6. Native!Fault
      BY <1>1, <1>5, <2>3, <2>4, IsEnd DEF ArchRegs
    <2> QED
      BY <2>5, <2>6
  <1>9. Init_Enter \/ Stub_Enter \/ Stub_GiveUp
    BY <1>2 DEF HostStep, Init_Allocate, Stub_Transfer, Stub_Segment, Stub_Emulate,
                Stub_Forward, Stub_Exit, InStub, Instrument
  <1> QED
    BY <1>6, <1>7, <1>8, <1>9

-----------------------------------------------------------------------------
(* The bare machine without T6, for guests that leave it alone.            *)

LEMMA SansT6Text ==
  ASSUME TypeInv, LeavesT6Alone, gpc \in TextRange, TextCloses
  PROVE  LET i  == text[gpc]
             rs == [regs EXCEPT !.t6 = 0]
         IN  /\ NativeSansT6!InText /\ Readable(text)[gpc] = i
             /\ NativeSansT6!Target(i, gpc, rs) = Target(i, gpc, ArchRegs)
             /\ NativeSansT6!Execute(i, gpc, rs) = [Execute(i, gpc, ArchRegs) EXCEPT !.t6 = 0]
             /\ NativeSansT6!Execute(i, gpc, rs) = [Execute(i, gpc, regs) EXCEPT !.t6 = 0]
             /\ [ArchRegs EXCEPT !.t6 = 0] = rs
  <1> DEFINE i  == text[gpc]
             rs == [regs EXCEPT !.t6 = 0]
  <1>1. text \in Seq(Inst) /\ regs \in [Reg -> Int] /\ slot \in Int
    BY DEF TypeInv, TypeOK, CacheTypeOK, DispatcherTypeOK
  <1>2. i \in Inst /\ i.rd # "t6" /\ i.rs1 # "t6"
    <2>1. gpc \in 1..Len(text)
      BY <1>1 DEF TextRange
    <2> QED
      BY <1>1, <2>1 DEF LeavesT6Alone
  <1>3. NativeSansT6!InText /\ Readable(text)[gpc] = i
    <2>1. Native!InText /\ Readable(text)[gpc] = i
      BY <1>1, NativeText
    <2> QED
      BY <2>1 DEF Native!InText, NativeSansT6!InText
  <1>4. ArchRegs \in [Reg -> Int] /\ [ArchRegs EXCEPT !.t6 = 0] = rs
    BY <1>1 DEF ArchRegs, Reg
  <1>5. ASSUME NEW f \in [Reg -> Int], [f EXCEPT !.t6 = 0] = rs
        PROVE  /\ NativeSansT6!Target(i, gpc, rs) = Target(i, gpc, f)
               /\ NativeSansT6!Execute(i, gpc, rs) = [Execute(i, gpc, f) EXCEPT !.t6 = 0]
    <2>1. RegValue(rs, i.rs1) = RegValue(f, i.rs1)
      BY <1>1, <1>2, <1>5 DEF RegValue, Reg
    <2>2. NativeSansT6!Target(i, gpc, rs) = Target(i, gpc, f)
      <3> HIDE DEF rs
      <3> QED
        BY <2>1 DEF NativeSansT6!Target, NativeSansT6!BranchTaken, NativeSansT6!RegValue,
              NativeSansT6!Reg, Target, BranchTaken, RegValue, Reg
    <2>3. NativeSansT6!Execute(i, gpc, rs) = Execute(i, gpc, rs)
      BY DEF NativeSansT6!Execute, NativeSansT6!WritesRd, NativeSansT6!Result,
             NativeSansT6!Reg, Execute, WritesRd, Result, Reg
    <2>4. Execute(i, gpc, rs) = [Execute(i, gpc, f) EXCEPT !.t6 = 0]
      <3>1. CASE WritesRd(i)
        <4>1. i.rd = "ra"
          BY <1>2, <3>1 DEF WritesRd, Reg
        <4>2. [rs EXCEPT !.ra = Result(i, gpc)]
                = [[f EXCEPT !.ra = Result(i, gpc)] EXCEPT !.t6 = 0]
          BY <1>1, <1>5 DEF Reg
        <4> QED
          BY <3>1, <4>1, <4>2 DEF Execute
      <3>2. CASE ~WritesRd(i)
        BY <1>5, <3>2 DEF Execute
      <3> QED
        BY <3>1, <3>2
    <2> QED
      BY <2>2, <2>3, <2>4
  <1> QED
    BY <1>1, <1>3, <1>4, <1>5

(* A step of the bare machine is one without T6.                           *)
LEMMA StepSansT6 ==
  ASSUME TypeInv, TypeInv', TextCloses, LeavesT6Alone, Native!Next
  PROVE  NativeSansT6!Next
  <1> DEFINE rs == [regs EXCEPT !.t6 = 0]
  <1>1. /\ [ArchRegs EXCEPT !.t6 = 0] = rs
        /\ [ArchRegs EXCEPT !.t6 = 0]' = rs'
    BY DEF TypeInv, TypeOK, DispatcherTypeOK, ArchRegs, Reg
  <1>2. text \in Seq(Inst)
    BY DEF TypeInv, TypeOK, CacheTypeOK
  <1>3. Native!InText <=> NativeSansT6!InText
    BY DEF Native!InText, NativeSansT6!InText
  <1>4. CASE Native!Retire
    <2>1. gpc \in TextRange
      BY <1>2, <1>4, NativeText DEF Native!Retire
    <2>2. /\ gpc' = Target(text[gpc], gpc, ArchRegs)
          /\ ArchRegs' = Execute(text[gpc], gpc, ArchRegs)
          /\ Readable(text)[gpc] = text[gpc]
      BY <1>2, <1>4, <2>1, NativeText DEF Native!Retire
    <2>3. rs' = NativeSansT6!Execute(text[gpc], gpc, rs)
      BY <1>1, <2>1, <2>2, SansT6Text
    <2>4. gpc' = NativeSansT6!Target(text[gpc], gpc, rs)
      BY <2>1, <2>2, SansT6Text
    <2> QED
      BY <1>3, <1>4, <2>2, <2>3, <2>4
         DEF Native!Retire, NativeSansT6!Retire, NativeSansT6!Next
  <1>5. CASE Native!Serve
    BY <1>1, <1>3, <1>5 DEF Native!Serve, NativeSansT6!Serve, NativeSansT6!Next
  <1>6. CASE Native!Exit
    BY <1>1, <1>3, <1>6 DEF Native!Exit, NativeSansT6!Exit, NativeSansT6!Next
  <1>7. CASE Native!Fault
    BY <1>1, <1>3, <1>7 DEF Native!Fault, NativeSansT6!Fault, NativeSansT6!Next
  <1> QED
    BY <1>4, <1>5, <1>6, <1>7 DEF Native!Next

(* A copied instruction retires as it would without T6, wherever the       *)
(* guest's T6 is and whatever is left in the register.                     *)
LEMMA CopySansT6 ==
  ASSUME NEW b, Cached(b), TypeInv, AtCopy(b), RunGuestWord, LeavesT6Alone,
         gpc' = gpc + 1
  PROVE  NativeSansT6!Retire
  <1> DEFINE i  == text[gpc]
             rs == [regs EXCEPT !.t6 = 0]
  <1>1. gpc \in TextRange /\ i.op \notin ControlOp \cup {"none"} /\ word.a = gpc
    BY CopyWord
  <1>2. /\ status = "running" /\ text' = text /\ served' = served /\ status' = status
    BY DEF RunGuestWord, At, cacheVars
  <1>3. regs' = Execute(i, gpc, regs)
    BY <1>1 DEF RunGuestWord, LostToScratch, LeavesT6Alone
  <1>4. TextCloses
    BY DEF Cached, Tracked
  <1>5. /\ NativeSansT6!InText /\ Readable(text)[gpc] = i
        /\ NativeSansT6!Target(i, gpc, rs) = Target(i, gpc, ArchRegs)
        /\ NativeSansT6!Execute(i, gpc, rs) = [Execute(i, gpc, regs) EXCEPT !.t6 = 0]
    BY <1>1, <1>4, SansT6Text
  <1>6. gpc' = NativeSansT6!Target(i, gpc, rs)
    BY <1>1, <1>5 DEF Target, ControlOp
  <1>7. rs' = NativeSansT6!Execute(i, gpc, rs)
    BY <1>3, <1>5
  <1>8. i.op # "SYSTEM"
    BY <1>1 DEF ControlOp
  <1>9. Readable(text)' = Readable(text)
    BY <1>2 DEF Readable
  <1> QED
    BY <1>2, <1>5, <1>6, <1>7, <1>8, <1>9 DEF NativeSansT6!Retire

-----------------------------------------------------------------------------
(* Every step of the engine.                                               *)

(* What a step keeps, and what the guest sees of it.                       *)
StepOK ==
  /\ AtRoot' \/ AtWait' \/ AtBlock'
  /\ status' = "crashed" => status = "crashed" \/ Len(memory') > CacheSize
  /\ Supported /\ status' # "crashed" => Unseen \/ Native!Next
  /\ LeavesT6Alone /\ status' # "crashed" => Unseen \/ NativeSansT6!Next

LEMMA RunControl ==
  ASSUME CacheOK, Tracked, AtRoot \/ AtWait \/ AtBlock, RunStep
  PROVE  StepOK
  <1>1. TypeInv /\ phase = "run" /\ status = "running"
    BY RunStepKeeps DEF CacheOK
  <1>2. Unseen => status' # "crashed"
    BY <1>1 DEF Unseen
  <1>3. CASE AtRoot
    BY <1>1, <1>2, <1>3, FromRoot DEF StepOK
  <1>4. CASE AtBlock
    <2>1. PICK b : b = RailBasicBlocks[currentBB]
      OBVIOUS
    <2>2. Cached(b) /\ InBlock(b)
      BY <1>4, <2>1, BlocksCached DEF AtBlock
    <2>3. /\ InBlock(b)'
          /\ \/ Unseen
             \/ AtCopy(b) /\ RunGuestWord /\ gpc' = gpc + 1
      BY <1>1, <2>2, InBlockStep
    <2>4. /\ alloc' = alloc /\ RailBasicBlocks' = RailBasicBlocks
          /\ currentBB' = currentBB
      BY RunStepKeeps
    <2>5. AtBlock'
      BY <1>4, <2>1, <2>3, <2>4 DEF AtBlock
    <2>6. CASE Unseen
      BY <1>2, <2>5, <2>6 DEF StepOK
    <2>7. CASE AtCopy(b) /\ RunGuestWord /\ gpc' = gpc + 1
      <3>1. status' # "crashed"
        BY <1>1, <2>7 DEF RunGuestWord
      <3>2. Supported => Native!Retire
        BY <1>1, <2>2, <2>7, CopyRetires
      <3>3. LeavesT6Alone => NativeSansT6!Retire
        BY <1>1, <2>2, <2>7, CopySansT6
      <3> QED
        BY <2>5, <3>1, <3>2, <3>3 DEF StepOK, Native!Next, NativeSansT6!Next
    <2> QED
      BY <2>3, <2>6, <2>7
  <1>5. ~AtWait
    BY <1>1 DEF AtWait
  <1> QED
    BY <1>3, <1>4, <1>5

LEMMA HostControl ==
  ASSUME CacheOK, Tracked, AtRoot \/ AtWait \/ AtBlock, HostStep
  PROVE  StepOK
  <1>1. TypeInv /\ CacheInv /\ status = "running" /\ phase # "run"
    <2>1. status = "running" /\ phase # "run"
      BY DEF HostStep, Init_Allocate, Init_Enter, Stub_Transfer, Stub_Segment,
             Stub_Emulate, Stub_Forward, Stub_Exit, Stub_Enter, Stub_GiveUp,
             InStub, Instrument
    <2> QED
      BY <2>1, TypeInvParts DEF CacheOK
  <1>2. /\ Unseen => status' # "crashed"
        /\ Native!Retire => status' # "crashed"
        /\ Native!Serve => status' # "crashed"
        /\ Native!Exit => status' # "crashed"
        /\ Native!Fault => status' # "crashed"
    BY <1>1 DEF Unseen, Native!Retire, Native!Serve, Native!Exit, Native!Fault
  <1>2a. Native!Next /\ LeavesT6Alone => NativeSansT6!Next
    <2>1. TypeInv'
      BY NextType DEF Next, CacheOK
    <2> QED
      BY <1>1, <2>1, StepSansT6 DEF Tracked
  <1>3. CASE AtRoot
    <2>1. phase = "init"
      BY <1>1, <1>3 DEF AtRoot
    <2>2. Init_Allocate
      BY <2>1 DEF HostStep, Init_Enter, Stub_Transfer, Stub_Segment,
             Stub_Emulate, Stub_Forward, Stub_Exit, Stub_Enter, Stub_GiveUp,
             InStub, Instrument
    <2> QED
      BY <1>1, <1>2, <1>3, <2>2, InitWaits DEF StepOK
  <1>4. CASE AtWait
    BY <1>2, <1>2a, <1>4, WaitStep DEF StepOK, Native!Next
  <1>5. CASE AtBlock
    <2>1. PICK b : b = RailBasicBlocks[currentBB]
      OBVIOUS
    <2>2. /\ Cached(b) /\ (AtStub(b) \/ AtInstrument(b)) /\ ~alloc.busy
          /\ b = Lookup(currentBB)
      BY <1>1, <1>5, <2>1, BlocksCached DEF AtBlock, InBlock, Lookup
    <2>3. CASE AtInstrument(b)
      <3>1. Instrument
        <4>1. phase = "instrument"
          BY <2>3 DEF AtInstrument
        <4> QED
          BY <4>1 DEF HostStep, Init_Allocate, Init_Enter, Stub_Transfer, Stub_Segment,
                 Stub_Emulate, Stub_Forward, Stub_Exit, Stub_Enter, Stub_GiveUp, InStub
      <3>2. InBlock(b)' /\ Unseen
        BY <1>1, <2>2, <2>3, <3>1, InstrumentStep
      <3>3. /\ alloc' = alloc /\ RailBasicBlocks' = RailBasicBlocks
            /\ currentBB' = currentBB
        BY <3>1 DEF Instrument, cacheVars
      <3>4. AtBlock'
        BY <1>5, <2>1, <3>2, <3>3 DEF AtBlock
      <3> QED
        BY <1>2, <3>2, <3>4 DEF StepOK
    <2>4. CASE AtStub(b)
      <3>1. \/ AtWait' /\ (Unseen \/ Native!Retire \/ Native!Serve)
            \/ Stub_Exit /\ AtStub(b)' /\ Native!Exit
        BY <1>1, <2>2, <2>4, StubStep
      <3>2. Stub_Exit /\ AtStub(b)' => AtBlock'
        <4> SUFFICES ASSUME Stub_Exit, AtStub(b)' PROVE AtBlock'
          OBVIOUS
        <4>1. /\ alloc' = alloc /\ RailBasicBlocks' = RailBasicBlocks
              /\ currentBB' = currentBB
          BY DEF Stub_Exit, cacheVars
        <4>2. InBlock(b)'
          BY DEF InBlock
        <4> QED
          BY <1>5, <2>1, <4>1, <4>2 DEF AtBlock
      <3> QED
        BY <1>2, <1>2a, <3>1, <3>2 DEF StepOK, Native!Next
    <2> QED
      BY <2>2, <2>3, <2>4
  <1> QED
    BY <1>3, <1>4, <1>5

LEMMA AllocateControl ==
  ASSUME CacheOK, Tracked, AtRoot \/ AtWait \/ AtBlock, Allocate
  PROVE  StepOK
  <1>1. CacheInv
    BY TypeInvParts DEF CacheOK
  <1>2. alloc.busy
    BY DEF Allocate, AllocStep, AllocPreInst, AllocBranch, AllocJal, AllocJalr,
           AllocSystem, AllocInLine, AllocAmo, AllocEnd, Regular
  <1>3. AtWait
    BY <1>2 DEF AtRoot, AtBlock
  <1>4. AtWait'
    BY <1>1, <1>3, AllocateWaits DEF CacheOK
  <1>5. status' = "crashed" => status = "crashed" \/ Len(memory') > CacheSize
    BY DEF Allocate
  <1>6. text' = text
    BY SameSetup DEF Next
  <1>7. status' # "crashed" => Unseen
    BY <1>6 DEF Allocate, history, Unseen, ArchRegs
  <1> QED
    BY <1>4, <1>5, <1>7 DEF StepOK

LEMMA NoStepControl ==
  ASSUME AtRoot \/ AtWait \/ AtBlock, UNCHANGED vars
  PROVE  StepOK
  <1>1. /\ UNCHANGED cacheVars /\ UNCHANGED dispatcherVars /\ UNCHANGED history
    BY DEF vars
  <1>2. AtRoot => AtRoot'
    BY <1>1 DEF AtRoot, Holds, cacheVars, dispatcherVars, history,
                Li, JalrT6, W, Cont, InitSwitch
  <1>3. AtWait => AtWait'
    BY <1>1 DEF AtWait, Parked6, TextRange, cacheVars, dispatcherVars, history
  <1>4. AtBlock => AtBlock'
    <2>1. tool' = tool /\ memory' = memory /\ text' = text
      BY <1>1 DEF cacheVars
    <2>2. \A b : /\ PlainLayout(memory, b)' <=> PlainLayout(memory, b)
                 /\ PreInstLayout(memory, b)' <=> PreInstLayout(memory, b)
      BY <2>1, SameLayout
    <2>3. KeepsT6' <=> KeepsT6
      BY <2>1, RigidBlock
    <2> QED
      BY <1>1, <2>2, <2>3
         DEF AtBlock, InBlock, AtStub, AtInstrument, AtRestore, AtEntry, AtCopy, AtSave,
             AtSwitch, AtBranch, AtBranchExit, Parked6, BranchTaken, RegValue, ArchRegs,
             EndsInBranch, EndsInControl, ExitStart, ExitAddr, One, cacheVars,
             dispatcherVars, history
  <1>5. Unseen
    BY <1>1 DEF Unseen, ArchRegs, cacheVars, dispatcherVars, history
  <1> QED
    BY <1>1, <1>2, <1>3, <1>4, <1>5 DEF StepOK, dispatcherVars

LEMMA ControlStep ==
  ASSUME CacheOK, Tracked, AtRoot \/ AtWait \/ AtBlock, [Next]_vars
  PROVE  StepOK
  BY RunControl, HostControl, AllocateControl, NoStepControl DEF Next, Halted

-----------------------------------------------------------------------------
(* The invariant.                                                          *)

(* A process that has ended takes no step.                                 *)
LEMMA EndedStays ==
  ASSUME status # "running", [Next]_vars
  PROVE  UNCHANGED vars
  <1>1. ~RunStep
    BY RunStepKeeps
  <1>2. ~HostStep
    BY DEF HostStep, Init_Allocate, Init_Enter, Stub_Transfer, Stub_Segment,
           Stub_Emulate, Stub_Forward, Stub_Exit, Stub_Enter, Stub_GiveUp,
           InStub, Instrument
  <1> QED
    BY <1>1, <1>2 DEF Next, Allocate, Halted

EngineInv == CacheOK /\ ControlInv /\ (Tracked => CrashIsOverflow)

LEMMA InitControl == Init => ControlInv /\ CrashIsOverflow
  <1> SUFFICES ASSUME Init PROVE ControlInv /\ CrashIsOverflow
    OBVIOUS
  <1>1. CrashIsOverflow
    BY DEF Init, CrashIsOverflow
  <1>2. memory = Li(InitSwitch) \o JalrT6
    BY DEF Init, CacheInit
  <1> DEFINE ws == Li(InitSwitch) \o JalrT6
  <1>3. ws \in Seq(CodeWord) /\ Len(ws) = 4
    BY RootShape
  <1> HIDE DEF ws
  <1>4. Holds(memory, 1, ws)
    <2>1. memory = ws
      BY <1>2 DEF ws
    <2>2. \A k \in 1..Len(ws) : memory[1 + k - 1] = ws[k]
      BY <1>3, <2>1
    <2>3. Len(memory) = 4 /\ Len(ws) = 4
      BY <1>3, <2>1
    <2>4. 1 \in 1..Len(memory) /\ 1 + Len(ws) - 1 \in 1..Len(memory)
      BY <2>3
    <2> QED
      BY <2>2, <2>4 DEF Holds
  <1>5. AtRoot
    BY <1>4 DEF AtRoot, Init, CacheInit, Idle, ws
  <1> QED
    BY <1>1, <1>5 DEF ControlInv

LEMMA NextControl ==
  ASSUME EngineInv, [Next]_vars
  PROVE  ControlInv' /\ (Tracked => CrashIsOverflow)'
  <1>1. Tracked' <=> Tracked
    BY SameSetup, SameTracked
  <1> SUFFICES ASSUME Tracked PROVE (AtRoot \/ AtWait \/ AtBlock)' /\ CrashIsOverflow'
    BY <1>1 DEF ControlInv
  <1>2. StepOK
    BY ControlStep DEF EngineInv, ControlInv
  <1>3. CASE status = "crashed"
    <2>1. UNCHANGED vars
      BY <1>3, EndedStays
    <2>2. status' = status /\ memory' = memory
      BY <2>1 DEF vars, cacheVars, dispatcherVars
    <2> QED
      BY <1>2, <2>2 DEF StepOK, EngineInv, CrashIsOverflow
  <1>4. CASE status # "crashed"
    BY <1>2, <1>4 DEF StepOK, CrashIsOverflow
  <1> QED
    BY <1>3, <1>4

LEMMA EngineCorrect == Spec => []EngineInv
  <1>1. Init => ControlInv /\ (Tracked => CrashIsOverflow)
    BY InitControl
  <1>2. CacheOK /\ ControlInv /\ (Tracked => CrashIsOverflow) /\ [Next]_vars
          => ControlInv' /\ (Tracked => CrashIsOverflow)'
    BY NextControl DEF EngineInv
  <1> QED
    BY <1>1, <1>2, CacheCorrect, PTL DEF Spec, EngineInv

(* Where the processor is in a block: inside it; at a word of the guest's  *)
(* only where that is its next instruction, with its T6 in the register;   *)
(* and at a jump only with T6 ready for the way out.                       *)
LEMMA InBlockWord ==
  ASSUME NEW b, Cached(b), InBlock(b), phase = "run"
  PROVE  /\ ip \in b.startLocationInCache..(b.endLocationInCache - 1)
         /\ \/ word.k \in {"restore", "save", "li"}
            \/ /\ word.k = "jalrT6" /\ regs.t6 \in HostEntry
               /\ IF AtEntry(b) THEN HostPhase(regs.t6) = "instrument"
                                ELSE HostPhase(regs.t6) = "stub"
            \/ word.k \in {"guest", "mem", "setpc"} /\ AtCopy(b)
            \/ word.k = "branch" /\ regs.t6 = slot
  <1> DEFINE s   == b.startLocationInCache
             e   == ExitStart(b)
             end == b.endLocationInCache
  <1>1. s \in Nat /\ e \in Nat /\ end \in Nat /\ s < e /\ e < end
    BY CachedEnds
  <1>1a. /\ {ContextSwitch, ContextSwitchTaken, ContextSwitchInstrument} \subseteq HostEntry
         /\ HostPhase(ContextSwitchInstrument) = "instrument"
         /\ HostPhase(ContextSwitch) = "stub" /\ HostPhase(ContextSwitchTaken) = "stub"
    BY DEF HostEntry, HostPhase, ContextSwitch, ContextSwitchTaken, ContextSwitchInstrument,
           InitSwitch
  <1>2. CASE AtRestore(b)
    <2>1. word.k = "restore"
      BY <1>2, WordFields DEF PlainLayout, AtRestore, word, RestoreScratch
    <2> QED
      BY <1>1, <1>2, <2>1 DEF AtRestore
  <1>3. CASE AtCopy(b)
    <2>1. ip \in s + 1 .. e - 1 /\ (KeepsT6 => ~t6Saved)
      BY <1>3 DEF AtCopy
    <2> QED
      BY <1>1, <1>3, <2>1, CopyWord
  <1>3a. CASE AtEntry(b)
    <2>1. /\ memory[s].k = "save" /\ memory[s + 2].k = "li" /\ memory[s + 5].k = "jalrT6"
          /\ s + 5 < end
      BY <1>3a, EntryWords DEF AtEntry
    <2>2. ip \in {s, s + 2} \/ (ip = s + 5 /\ regs.t6 = ContextSwitchInstrument)
      BY <1>3a DEF AtEntry
    <2> QED
      BY <1>1, <1>1a, <1>3a, <2>1, <2>2 DEF word
  <1> DEFINE Elsewhere == ~AtRestore(b) /\ ~AtEntry(b) /\ ~AtCopy(b)
  <1>4. CASE EndsInBranch(b) /\ Elsewhere
    <2>1. /\ end = e + 11 /\ memory[e].k = "save" /\ memory[e + 2].k = "branch"
          /\ memory[e + 3].k = "li" /\ memory[e + 6].k = "jalrT6"
          /\ memory[e + 7].k = "li" /\ memory[e + 10].k = "jalrT6"
      BY <1>4, BranchExitWords
    <2>2. \/ ip \in {e, e + 3, e + 7}
          \/ ip = e + 6 /\ regs.t6 = ContextSwitch
          \/ ip = e + 10 /\ regs.t6 = ContextSwitchTaken
          \/ ip = e + 2 /\ regs.t6 = slot
      BY <1>4 DEF InBlock, AtStub, AtInstrument, AtSave, AtSwitch, AtBranch,
                  AtBranchExit, Parked6
    <2> QED
      BY <1>1, <1>1a, <1>4, <2>1, <2>2 DEF word
  <1>5. CASE ~EndsInBranch(b) /\ Elsewhere
    <2>1. /\ end = e + 6 /\ memory[e].k = "save" /\ memory[e + 2].k = "li"
          /\ memory[e + 5].k = "jalrT6"
          /\ memory[e + 2].v \in {ContextSwitch, ContextSwitchTaken}
      BY <1>5, SwitchWords
    <2>2. ip \in {e, e + 2} \/ (ip = e + 5 /\ regs.t6 = memory[e + 2].v)
      BY <1>5 DEF InBlock, AtStub, AtInstrument, AtSave, AtSwitch, AtBranch, AtBranchExit
    <2> QED
      BY <1>1, <1>1a, <1>5, <2>1, <2>2 DEF word
  <1> QED
    BY <1>2, <1>3, <1>3a, <1>4, <1>5

(* When every ECALL is the library's to perform and has no typed PRE       *)
(* routine, no access through T6 has one and the text does not run out in  *)
(* straight-line code, stub always knows the guest's block: the processor  *)
(* is inside the block that currentBB names, whatever was cached,          *)
(* allocated, cut or adopted before.                                       *)
THEOREM CurrentBBTracked == Spec => [](Tracked => CurrentBBOwnsIp)
  <1>1. EngineInv => (Tracked => CurrentBBOwnsIp)
    <2> SUFFICES ASSUME EngineInv, Tracked, status = "running", phase = "run", currentBB # 0
                 PROVE  LET b == Lookup(currentBB)
                        IN  ip \in b.startLocationInCache..(b.endLocationInCache - 1)
      BY DEF CurrentBBOwnsIp
    <2>1. AtBlock /\ CacheOK
      BY DEF EngineInv, ControlInv, AtRoot, AtWait
    <2>2. PICK b : b = RailBasicBlocks[currentBB]
      OBVIOUS
    <2>3. Cached(b) /\ InBlock(b) /\ Lookup(currentBB) = b
      BY <2>1, <2>2, BlocksCached DEF AtBlock, Lookup
    <2> QED
      BY <2>3, InBlockWord
  <1> QED
    BY <1>1, EngineCorrect, PTL

(* Under the same conditions and without typed PRE routines, which do not  *)
(* give T6 back, no instruction of the guest ever runs while T6 holds one  *)
(* of the library's values, which code_cache.cpp:66 demands of every       *)
(* routine in the cache.                                                   *)
THEOREM T6IsTheGuests == Spec => [](Tracked /\ KeepsT6 => GuestSeesItsT6)
  <1>1. EngineInv => (Tracked /\ KeepsT6 => GuestSeesItsT6)
    <2> SUFFICES ASSUME EngineInv, Tracked, KeepsT6, phase = "run"
                 PROVE  \/ word.k \in {"restore", "save", "li", "jalrT6"}
                        \/ word.k \in {"guest", "mem", "setpc"} /\ ~t6Saved
                        \/ word.k = "branch" /\ regs.t6 = slot
      BY DEF GuestSeesItsT6, At
    <2>1. CacheOK /\ (AtRoot \/ AtBlock)
      BY DEF EngineInv, ControlInv, AtWait
    <2>2. CASE AtRoot
      <3>1. memory \in Seq(CodeWord) /\ (ip = 1 \/ ip = 4)
        BY <2>1, <2>2 DEF CacheOK, TypeInv, AtRoot
      <3> QED
        BY <2>2, <3>1, RootWords DEF AtRoot, word
    <2>3. CASE AtBlock
      <3>1. PICK b : b = RailBasicBlocks[currentBB]
        OBVIOUS
      <3>2. Cached(b) /\ InBlock(b)
        BY <2>1, <2>3, <3>1, BlocksCached DEF AtBlock
      <3> QED
        BY <3>2, InBlockWord DEF AtCopy
    <2> QED
      BY <2>1, <2>2, <2>3
  <1> QED
    BY <1>1, EngineCorrect, PTL

(* With typed PRE routines or without, the process never executes a word   *)
(* it should not: it crashes only when the cache outgrows its mapping, at  *)
(* which nothing stops the allocator.                                      *)
THEOREM CrashOnlyByOverflow == Spec => [](Tracked => CrashIsOverflow)
  BY EngineCorrect, PTL DEF EngineInv

-----------------------------------------------------------------------------
(* The refinement.                                                         *)

CacheFits == Len(memory) <= CacheSize

LEMMA NativeInit ==
  ASSUME Init, TextCloses
  PROVE  Native!Init
  <1>1. Readable(text) \in ReadableTexts
    BY DEF Init, CacheInit, ReadableTexts
  <1>2. PICK v \in InitialRegs : regs = [r \in Reg |-> IF r = "t6" THEN 0 ELSE v]
    BY DEF Init
  <1>3. ArchRegs \in [Reg -> InitialRegs]
    BY <1>2 DEF Init, ArchRegs
  <1> QED
    BY <1>1, <1>3 DEF Init, Native!Init, Native!Entry, Native!Reg, Reg

LEMMA NativeStep ==
  ASSUME EngineInv, Tracked, CacheFits', [Next]_vars, EngineInv'
  PROVE  /\ Supported => [Native!Next]_Native!vars
         /\ LeavesT6Alone => [NativeSansT6!Next]_NativeSansT6!vars
  <1>1. Tracked /\ Tracked'
    BY SameSetup, SameTracked
  <1>2. StepOK
    BY <1>1, ControlStep DEF EngineInv, ControlInv
  <1>3. status' # "crashed"
    <2>1. memory' \in Seq(CodeWord)' /\ CacheSize \in Nat
      BY CacheAssumption DEF EngineInv, CacheOK, TypeInv
    <2>2. Len(memory') \in Nat
      BY <2>1
    <2> QED
      BY <1>1, <2>1, <2>2 DEF EngineInv, CrashIsOverflow, CacheFits
  <1>4. /\ Unseen /\ Supported => UNCHANGED Native!vars
        /\ Unseen => UNCHANGED NativeSansT6!vars
    BY DEF Unseen, Native!vars, NativeSansT6!vars, Readable, Supported
  <1> QED
    BY <1>2, <1>3, <1>4 DEF StepOK

(* The engine implements the bare machine: for a text whose accesses leave *)
(* no result in a borrowed T6, under the conditions above and as long as   *)
(* the cache does not outgrow its mapping, every step of the library is    *)
(* invisible or retires exactly the instruction the guest is at, with the  *)
(* registers, the system call and the end the hardware would give it.      *)
THEOREM ImplementsNative ==
  Spec /\ Supported /\ []CacheFits => ImplementsGuestMachine
  <1>1. Init /\ Supported => Native!Init
    BY NativeInit DEF Supported, Tracked
  <1>2. Supported /\ [Next]_vars => Supported'
    BY SameSetup, SameTracked
  <1>3. EngineInv /\ EngineInv' /\ Supported /\ CacheFits' /\ [Next]_vars
          => [Native!Next]_Native!vars
    BY NativeStep DEF Supported
  <1>4. Spec /\ Supported /\ []CacheFits => Native!Spec
    BY <1>1, <1>2, <1>3, EngineCorrect, PTL DEF Spec, Native!Spec
  <1> QED
    BY <1>4 DEF ImplementsGuestMachine

LEMMA NativeSansT6Init ==
  ASSUME Init, TextCloses, 0 \in InitialRegs
  PROVE  NativeSansT6!Init
  <1>1. Readable(text) \in ReadableTexts
    BY DEF Init, CacheInit, ReadableTexts
  <1>2. PICK v \in InitialRegs : regs = [r \in Reg |-> IF r = "t6" THEN 0 ELSE v]
    BY DEF Init
  <1>3. [regs EXCEPT !.t6 = 0] \in [Reg -> InitialRegs]
    BY <1>2 DEF Reg
  <1> QED
    BY <1>1, <1>3 DEF Init, NativeSansT6!Init, NativeSansT6!Entry, NativeSansT6!Reg, Reg

(* With typed PRE routines the engine implements the bare machine for a    *)
(* guest that leaves T6 alone: the cuts before the instructions that have  *)
(* one, their own blocks and the way through instrument are invisible but  *)
(* for T6, which the switch back into the cache overwrites.                *)
THEOREM ImplementsNativeSansT6 ==
  0 \in InitialRegs =>
    (Spec /\ Tracked /\ LeavesT6Alone /\ []CacheFits => ImplementsGuestMachineSansT6)
  <1> SUFFICES ASSUME 0 \in InitialRegs
               PROVE  Spec /\ Tracked /\ LeavesT6Alone /\ []CacheFits
                        => ImplementsGuestMachineSansT6
    OBVIOUS
  <1>1. Init /\ Tracked => NativeSansT6!Init
    BY NativeSansT6Init DEF Tracked
  <1>2. /\ Tracked /\ [Next]_vars => Tracked'
        /\ LeavesT6Alone /\ [Next]_vars => LeavesT6Alone'
    BY SameSetup, SameTracked
  <1>3. EngineInv /\ EngineInv' /\ Tracked /\ LeavesT6Alone /\ CacheFits' /\ [Next]_vars
          => [NativeSansT6!Next]_NativeSansT6!vars
    BY NativeStep
  <1>4. Spec /\ Tracked /\ LeavesT6Alone /\ []CacheFits => NativeSansT6!Spec
    BY <1>1, <1>2, <1>3, EngineCorrect, PTL DEF Spec, NativeSansT6!Spec
  <1> QED
    BY <1>4 DEF ImplementsGuestMachineSansT6
=============================================================================
