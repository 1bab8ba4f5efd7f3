---------------------------- MODULE SessionProofs ---------------------------
(***************************************************************************)
(* Proofs about whole sessions: that no registered routine is missed, that *)
(* the graph is a walk, that the image is the file's, that the guest finds *)
(* its arguments, and that the state is of its types.                      *)
(*                                                                         *)
(* The graph's sums, the image and the copy of the arguments are folds.    *)
(* What a fold yields follows from induction on the subsets of a finite    *)
(* set, and that from the well-foundedness of strict inclusion: no set of  *)
(* them is without a smallest.                                             *)
(***************************************************************************)
EXTENDS SessionProperties, FiniteSetTheorems, TLAPS

-----------------------------------------------------------------------------
(* Induction on the subsets of a finite set.                               *)

(* Some of them are smallest.                                              *)
LEMMA MinimalSet ==
  ASSUME NEW S, IsFiniteSet(S), NEW C, C \subseteq SUBSET S, C # {}
  PROVE  \E T \in C : \A U \in C : U \subseteq T => U = T
  <1> DEFINE R == StrictSubsetOrdering(S)
             F == FiniteSubsetsOf(S)
  <1>1. IsWellFoundedOn(R, F)
    BY FS_StrictSubsetOrderingWellFounded
  <1>2. C \subseteq F
    BY FS_Subset DEF FiniteSubsetsOf
  <1>3. \A T, U \in C : U \subseteq T /\ U # T => <<U, T>> \in R
    BY DEF StrictSubsetOrdering
  <1> HIDE DEF R, F
  <1>4. PICK T \in C : \A U \in C : ~ (<<U, T>> \in R)
    BY <1>1, <1>2, WFMin
  <1> QED
    BY <1>3, <1>4

(* A set of subsets that has each whose smaller ones it has, has all.      *)
LEMMA SetInduction ==
  ASSUME NEW S, IsFiniteSet(S), NEW P,
         \A T \in SUBSET S : (\A U \in SUBSET T : U # T => U \in P) => T \in P
  PROVE  SUBSET S \subseteq P
  <1> SUFFICES ASSUME NEW T0 \in SUBSET S, T0 \notin P PROVE FALSE
    OBVIOUS
  <1> DEFINE C == {T \in SUBSET S : T \notin P}
  <1>1. PICK T \in C : \A U \in C : U \subseteq T => U = T
    <2>1. C \subseteq SUBSET S /\ T0 \in C
      OBVIOUS
    <2> HIDE DEF C
    <2> QED
      BY <2>1, MinimalSet
  <1>2. T \in SUBSET S /\ T \notin P /\ \A U \in SUBSET T : U # T => U \in P
    BY <1>1
  <1> QED
    BY <1>2

(* The equation of a fold, at T.                                           *)
FoldsAt(h, base, C, G, T) ==
  h[T] = IF T = {} THEN base ELSE G[<<C[T], h[T \ {C[T]}]>>]

(* ... and at every subset of S.                                           *)
FoldsOn(h, base, C, G, S) == \A T \in SUBSET S : FoldsAt(h, base, C, G, T)

Chooses(C, S) == \A T \in SUBSET S : T # {} => C[T] \in T

(* Two functions that fold alike yield the same.                           *)
LEMMA FoldUnique ==
  ASSUME NEW S, IsFiniteSet(S), NEW base, NEW G, NEW C, Chooses(C, S),
         NEW h, NEW k, FoldsOn(h, base, C, G, S), FoldsOn(k, base, C, G, S)
  PROVE  h[S] = k[S]
  <1> USE DEF FoldsOn, Chooses
  <1> DEFINE P == {T \in SUBSET S : h[T] = k[T]}
  <1>1. \A T \in SUBSET S : (\A U \in SUBSET T : U # T => U \in P) => T \in P
    <2> SUFFICES ASSUME NEW T \in SUBSET S, \A U \in SUBSET T : U # T => U \in P
                 PROVE  h[T] = k[T]
      OBVIOUS
    <2>1. CASE T = {}
      BY <2>1 DEF FoldsAt
    <2>2. CASE T # {}
      <3>1. T \ {C[T]} \in SUBSET T /\ T \ {C[T]} # T
        BY <2>2
      <3>2. h[T \ {C[T]}] = k[T \ {C[T]}]
        BY <3>1
      <3>3. FoldsAt(h, base, C, G, T) /\ FoldsAt(k, base, C, G, T)
        OBVIOUS
      <3>4. h[T] = G[<<C[T], h[T \ {C[T]}]>>] /\ k[T] = G[<<C[T], k[T \ {C[T]}]>>]
        BY ONLY <2>2, <3>3 DEF FoldsAt
      <3> QED
        BY <3>2, <3>4
    <2> QED
      BY <2>1, <2>2
  <1>2. SUBSET S \subseteq P
    <2> HIDE DEF P
    <2> QED
      BY <1>1, SetInduction
  <1> QED
    BY <1>2

StaysIn(G, S, V) == \A x \in S, v \in V : G[<<x, v>>] \in V

(* There is one.                                                           *)
LEMMA FoldExists ==
  ASSUME NEW S, IsFiniteSet(S), NEW V, NEW base \in V,
         NEW C, Chooses(C, S),
         NEW G, StaysIn(G, S, V)
  PROVE  \E h \in [SUBSET S -> V] : FoldsOn(h, base, C, G, S)
  <1> USE DEF FoldsOn, Chooses, StaysIn
  <1> DEFINE Upto(h, T) == FoldsOn(h, base, C, G, T)
             H(T) == CHOOSE h \in [SUBSET S -> V] : Upto(h, T)
             P == {T \in SUBSET S : \E h \in [SUBSET S -> V] : Upto(h, T)}
  <1>1. \A T \in P : H(T) \in [SUBSET S -> V] /\ Upto(H(T), T)
    <2> HIDE DEF Upto
    <2> QED
      OBVIOUS
  <1>2. ASSUME NEW T \in SUBSET S, \A U \in SUBSET T : U # T => U \in P
        PROVE  T \in P
    <2> DEFINE R == T \ {C[T]}
               top == IF T = {} THEN base ELSE G[<<C[T], H(R)[R]>>]
               h == [U \in SUBSET S |-> CASE U = T -> top
                                          [] U \in SUBSET T /\ U # T -> H(U)[U]
                                          [] OTHER -> base]
    <2>1. T # {} => R \in SUBSET S /\ R \in SUBSET T /\ R # T /\ C[T] \in S
      OBVIOUS
    <2>2. \A U \in SUBSET T : U # T => H(U)[U] \in V
      <3>1. \A U \in SUBSET T : U # T => H(U) \in [SUBSET S -> V]
        <4> HIDE DEF H, P
        <4> QED BY <1>1, <1>2
      <3> HIDE DEF H
      <3> QED BY <3>1
    <2>3. top \in V
      <3> HIDE DEF H
      <3>1. T # {} => H(R)[R] \in V
        BY <2>1, <2>2
      <3> HIDE DEF R
      <3> QED BY <2>1, <3>1
    <2>4. h \in [SUBSET S -> V]
      <3> HIDE DEF H, top
      <3> QED BY <2>2, <2>3
    <2>5. h[T] = top /\ \A U \in SUBSET T : U # T => h[U] = H(U)[U]
      <3> HIDE DEF H, top
      <3> QED OBVIOUS
    <2>6. FoldsAt(h, base, C, G, T)
      <3>1. T # {} => h[R] = H(R)[R]
        BY <2>1, <2>5
      <3> HIDE DEF H, h
      <3> QED BY <2>1, <2>5, <3>1 DEF FoldsAt
    <2>7. ASSUME NEW U \in SUBSET T, U # T PROVE FoldsAt(h, base, C, G, U)
      <3> DEFINE W == U \ {C[U]}
      <3>1. U \in P /\ Upto(H(U), U)
        BY <1>1, <1>2, <2>7
      <3>2. FoldsAt(H(U), base, C, G, U)
        BY <3>1
      <3>3. CASE U = {}
        BY <2>5, <2>7, <3>2, <3>3 DEF FoldsAt
      <3>4. CASE U # {}
        <4>1. W \in SUBSET U /\ W # U /\ W \in SUBSET T /\ W # T /\ W \in SUBSET S
          BY <3>4
        <4>2. Upto(H(W), W) /\ Upto(H(U), W)
          BY <1>1, <1>2, <3>1, <4>1
        <4>3. IsFiniteSet(W) /\ Chooses(C, W)
          BY <4>1, FS_Subset
        <4>5. h[W] = H(W)[W] /\ h[U] = H(U)[U]
          BY <2>5, <2>7, <4>1
        <4>6. H(W)[W] = H(U)[W]
          <5> DEFINE h1 == H(W)
                     h2 == H(U)
          <5>1. FoldsOn(h1, base, C, G, W) /\ FoldsOn(h2, base, C, G, W)
            BY <4>2
          <5> HIDE DEF h1, h2, W, FoldsOn, Chooses, StaysIn
          <5>2. h1[W] = h2[W]
            BY ONLY <4>3, <5>1, FoldUnique
          <5> QED BY <5>2 DEF h1, h2
        <4> HIDE DEF H, h, Upto, W
        <4> QED
          BY <3>2, <3>4, <4>5, <4>6 DEF FoldsAt, W
      <3> QED
        BY <3>3, <3>4
    <2>8. Upto(h, T)
      BY <2>6, <2>7
    <2> QED
      <3> HIDE DEF h, Upto
      <3> QED BY <2>4, <2>8
  <1>3. SUBSET S \subseteq P
    <2> HIDE DEF P
    <2> QED
      BY <1>2, SetInduction
  <1>4. S \in P
    BY <1>3
  <1> QED
    BY <1>4

-----------------------------------------------------------------------------
(* Sums.                                                                   *)

Sum(g, S) == MapThenSumSet(LAMBDA e : g[e], S)

Picked(T) == CHOOSE x \in T : TRUE

PickIn(S)   == [T \in SUBSET S |-> Picked(T)]
AddTo(g, S) == [p \in S \X Int |-> g[p[1]] + p[2]]

SumsAs(it, g, S) ==
  it = [T \in SUBSET S |-> IF T = {} THEN 0 ELSE g[Picked(T)] + it[T \ {Picked(T)}]]

(* h has the sums of g over every subset of S.                             *)
SumsOver(h, g, S) ==
  /\ h \in [SUBSET S -> Int] /\ h[{}] = 0
  /\ \A T \in SUBSET S : T # {} => h[T] = g[Picked(T)] + h[T \ {Picked(T)}]

Numbers(g, S) == \A e \in S : g[e] \in Int

Same(g, k, S) == \A e \in S : g[e] = k[e]

(* An element of every set that has any.                                   *)
LEMMA PickInChooses == ASSUME NEW S PROVE Chooses(PickIn(S), S)
  BY DEF Chooses, PickIn, Picked

(* The sums over the subsets of S, and that there are any.                 *)
LEMMA SumsExist ==
  ASSUME NEW S, IsFiniteSet(S), NEW g, Numbers(g, S)
  PROVE  \E it : SumsOver(it, g, S) /\ it[S] = Sum(g, S)
  <1> DEFINE C == PickIn(S)
             G == AddTo(g, S)
             it == CHOOSE it : SumsAs(it, g, S)
  <1>1. \A e \in S, v \in Int : G[<<e, v>>] = g[e] + v /\ G[<<e, v>>] \in Int
    BY DEF AddTo, Numbers
  <1>2. Chooses(C, S)
    BY PickInChooses
  <1>3. \A T \in SUBSET S : T # {} => C[T] = Picked(T) /\ Picked(T) \in S
    BY DEF PickIn, Picked
  <1>4. PICK h \in [SUBSET S -> Int] : FoldsOn(h, 0, C, G, S)
    <2>1. StaysIn(G, S, Int)
      BY <1>1 DEF StaysIn
    <2> DEFINE V == Int
               z == 0
    <2>2. StaysIn(G, S, V) /\ z \in V
      BY <2>1
    <2> HIDE DEF C, G, V, z
    <2>3. \E h \in [SUBSET S -> V] : FoldsOn(h, z, C, G, S)
      BY <1>2, <2>2, FoldExists
    <2> QED
      BY <2>3 DEF V, z
  <1>5. SumsAs(h, g, S)
    <2>1. \A T \in SUBSET S : T # {} => h[T] = g[Picked(T)] + h[T \ {Picked(T)}]
      <3> HIDE DEF C, G
      <3> SUFFICES ASSUME NEW T \in SUBSET S, T # {}
                   PROVE  h[T] = g[Picked(T)] + h[T \ {Picked(T)}]
        OBVIOUS
      <3>1. h[T] = G[<<C[T], h[T \ {C[T]}]>>]
        BY <1>4 DEF FoldsOn, FoldsAt
      <3>2. C[T] = Picked(T) /\ Picked(T) \in S /\ h[T \ {Picked(T)}] \in Int
        BY <1>3
      <3> QED
        BY <1>1, <3>1, <3>2
    <2>2. h[{}] = 0
      BY <1>4 DEF FoldsOn, FoldsAt
    <2>3. h = [T \in SUBSET S |-> h[T]]
      OBVIOUS
    <2> QED
      BY <2>1, <2>2, <2>3 DEF SumsAs
  <1>6. SumsAs(it, g, S)
    BY <1>5
  <1>7. Sum(g, S) = it[S]
    BY DEF Sum, MapThenSumSet, MapThenFoldSet, SumsAs, Picked
  <1> HIDE DEF it
  <1>8. /\ \A T \in SUBSET S : T # {} => it[T] = g[Picked(T)] + it[T \ {Picked(T)}]
        /\ it[{}] = 0 /\ DOMAIN it = SUBSET S /\ it = [T \in SUBSET S |-> it[T]]
    BY <1>6 DEF SumsAs
  <1> DEFINE P == {T \in SUBSET S : it[T] \in Int}
  <1>9. \A T \in SUBSET S : (\A U \in SUBSET T : U # T => U \in P) => T \in P
    <2> SUFFICES ASSUME NEW T \in SUBSET S, \A U \in SUBSET T : U # T => U \in P
                 PROVE  it[T] \in Int
      OBVIOUS
    <2>1. CASE T = {}
      BY <1>8, <2>1
    <2>2. CASE T # {}
      <3>1. Picked(T) \in T
        BY <2>2 DEF Picked
      <3>2. it[T \ {Picked(T)}] \in Int /\ g[Picked(T)] \in Int
        BY <3>1 DEF Numbers
      <3>3. it[T] = g[Picked(T)] + it[T \ {Picked(T)}]
        BY <1>8, <2>2
      <3> QED
        BY <3>2, <3>3
    <2> QED
      BY <2>1, <2>2
  <1>10. SUBSET S \subseteq P
    <2> HIDE DEF P
    <2> QED
      BY <1>9, SetInduction
  <1>11. it \in [SUBSET S -> Int]
    BY <1>8, <1>10
  <1> QED
    BY <1>7, <1>8, <1>11 DEF SumsOver

(* Any two functions that sum as g does agree, so what is summed over a    *)
(* subset does not depend on where it was taken from.                      *)
LEMMA SumsAgree ==
  ASSUME NEW S, IsFiniteSet(S), NEW g, NEW k, Same(g, k, S),
         NEW h, NEW it, SumsOver(h, g, S), SumsOver(it, k, S)
  PROVE  \A T \in SUBSET S : h[T] = it[T]
  <1> DEFINE P == {T \in SUBSET S : h[T] = it[T]}
  <1>1. ASSUME NEW T \in SUBSET S, \A U \in SUBSET T : U # T => U \in P
        PROVE  T \in P
    <2>1. CASE T = {}
      BY <2>1 DEF SumsOver
    <2>2. CASE T # {}
      <3>1. Picked(T) \in T
        BY <2>2 DEF Picked
      <3>2. h[T \ {Picked(T)}] = it[T \ {Picked(T)}]
        BY <1>1, <3>1
      <3> QED
        BY <2>2, <3>1, <3>2 DEF SumsOver, Same
    <2> QED
      BY <2>1, <2>2
  <1>2. SUBSET S \subseteq P
    <2> HIDE DEF P
    <2> QED
      BY <1>1, SetInduction
  <1> QED
    BY <1>2

(* A sum of numbers is one.                                                *)
LEMMA SumType ==
  ASSUME NEW S, IsFiniteSet(S), NEW g, Numbers(g, S)
  PROVE  Sum(g, S) \in Int
  <1>1. PICK h : SumsOver(h, g, S) /\ h[S] = Sum(g, S)
    BY SumsExist
  <1> QED
    BY <1>1 DEF SumsOver

(* The sum of nothing.                                                     *)
LEMMA SumEmpty == ASSUME NEW g PROVE Sum(g, {}) = 0
  <1>1. IsFiniteSet({}) /\ Numbers(g, {})
    BY FS_EmptySet DEF Numbers
  <1>2. PICK h : SumsOver(h, g, {}) /\ h[{}] = Sum(g, {})
    BY <1>1, SumsExist
  <1> QED
    BY <1>2 DEF SumsOver

(* Equal terms, equal sums.                                                *)
LEMMA SumSame ==
  ASSUME NEW S, IsFiniteSet(S), NEW g, NEW k, Same(g, k, S), Numbers(g, S)
  PROVE  Sum(g, S) = Sum(k, S)
  <1>1. Numbers(k, S)
    BY DEF Numbers, Same
  <1>2. PICK h : SumsOver(h, g, S) /\ h[S] = Sum(g, S)
    BY SumsExist
  <1>3. PICK it : SumsOver(it, k, S) /\ it[S] = Sum(k, S)
    BY <1>1, SumsExist
  <1>4. \A T \in SUBSET S : h[T] = it[T]
    BY <1>2, <1>3, SumsAgree
  <1> QED
    BY <1>2, <1>3, <1>4

(* Any element can be taken out first.                                     *)
LEMMA SumTakeOut ==
  ASSUME NEW S, IsFiniteSet(S), NEW g, Numbers(g, S), NEW x \in S
  PROVE  Sum(g, S) = g[x] + Sum(g, S \ {x})
  <1>1. PICK h : SumsOver(h, g, S) /\ h[S] = Sum(g, S)
    BY SumsExist
  <1> DEFINE R == S \ {x}
             P == {T \in SUBSET S : \A y \in T : h[T] = g[y] + h[T \ {y}]}
  <1>2. ASSUME NEW T \in SUBSET S, \A U \in SUBSET T : U # T => U \in P, NEW y \in T
        PROVE  h[T] = g[y] + h[T \ {y}]
    <2> DEFINE c == Picked(T)
    <2>1. c \in T /\ h[T] = g[c] + h[T \ {c}]
      BY <1>1 DEF Picked, SumsOver
    <2> HIDE DEF c
    <2>2. CASE y = c
      BY <2>1, <2>2
    <2>3. CASE y # c
      <3>1. T \ {c} \in P /\ T \ {y} \in P /\ y \in T \ {c} /\ c \in T \ {y}
        BY <1>2, <2>1, <2>3
      <3>2. h[T \ {c}] = g[y] + h[(T \ {c}) \ {y}] /\ h[T \ {y}] = g[c] + h[(T \ {y}) \ {c}]
        BY <3>1
      <3>3. (T \ {c}) \ {y} = (T \ {y}) \ {c}
        OBVIOUS
      <3>4. g[y] \in Int /\ g[c] \in Int /\ h[(T \ {c}) \ {y}] \in Int
        BY <1>1, <2>1 DEF SumsOver, Numbers
      <3>5. h[T] = g[c] + h[T \ {c}]
        BY <2>1
      <3> DEFINE v == h[(T \ {c}) \ {y}]
      <3>6. h[T \ {c}] = g[y] + v /\ h[T \ {y}] = g[c] + v /\ v \in Int
        BY <3>2, <3>3, <3>4
      <3> HIDE DEF P, v
      <3>7. h[T] = g[c] + (g[y] + v)
        BY <3>5, <3>6
      <3> QED
        BY <3>4, <3>6, <3>7
    <2> QED
      BY <2>2, <2>3
  <1>3. SUBSET S \subseteq P
    <2>1. \A T \in SUBSET S : (\A U \in SUBSET T : U # T => U \in P) => T \in P
      BY <1>2
    <2> HIDE DEF P
    <2> QED
      BY <2>1, SetInduction
  <1>4. h[S] = g[x] + h[R]
    BY <1>3
  <1>5. IsFiniteSet(R) /\ R \in SUBSET S /\ Numbers(g, R) /\ Same(g, g, R)
    BY FS_RemoveElement DEF Numbers, Same
  <1>6. PICK it : SumsOver(it, g, R) /\ it[R] = Sum(g, R)
    <2> HIDE DEF R
    <2> QED BY <1>5, SumsExist
  <1>7. h[R] = it[R]
    <2> DEFINE hR == [T \in SUBSET R |-> h[T]]
    <2>1. SumsOver(hR, g, R)
      BY <1>1, <1>5 DEF SumsOver
    <2>2. hR[R] = h[R]
      OBVIOUS
    <2> HIDE DEF R, hR
    <2>3. \A T \in SUBSET R : hR[T] = it[T]
      BY <1>5, <1>6, <2>1, SumsAgree
    <2> QED
      BY <2>2, <2>3
  <1> QED
    BY <1>1, <1>4, <1>6, <1>7

-----------------------------------------------------------------------------
(* Folds over sequences, from the first element to the last.               *)

(* Induction on the numbers up to n.                                       *)
LEMMA UpTo ==
  ASSUME NEW n \in Nat, NEW P, 0 \in P, \A k \in 1..n : k - 1 \in P => k \in P
  PROVE  0..n \subseteq P
  <1> DEFINE Q == {T \in SUBSET (0..n) : T # {} /\ (\A k \in T : 0..k \subseteq T) => T \subseteq P}
  <1>1. IsFiniteSet(0..n)
    BY FS_Interval
  <1>2. ASSUME NEW T \in SUBSET (0..n), \A U \in SUBSET T : U # T => U \in Q,
               NEW k \in T, \A j \in T : 0..j \subseteq T
        PROVE  k \in P
    <2>1. k \in 0..n /\ k \in Int
      OBVIOUS
    <2>2. CASE k = 0
      BY <2>2
    <2>3. CASE k # 0
      <3>1. 0..(k-1) \subseteq T /\ k \notin 0..(k-1) /\ 0..(k-1) # {}
        <4>1. 0..k \subseteq T
          BY <1>2
        <4> QED
          BY <2>1, <2>3, <4>1
      <3>2. 0..(k-1) \in Q
        BY <1>2, <3>1
      <3>3. \A j \in 0..(k-1) : 0..j \subseteq 0..(k-1)
        BY <2>1
      <3>4. k - 1 \in P
        BY <2>1, <2>3, <3>1, <3>2, <3>3
      <3> QED
        BY <2>1, <2>3, <3>4
    <2> QED
      BY <2>2, <2>3
  <1>3. SUBSET (0..n) \subseteq Q
    <2>1. \A T \in SUBSET (0..n) : (\A U \in SUBSET T : U # T => U \in Q) => T \in Q
      BY <1>2
    <2> DEFINE S == 0..n
    <2>2. IsFiniteSet(S) /\ \A T \in SUBSET S : (\A U \in SUBSET T : U # T => U \in Q) => T \in Q
      BY <1>1, <2>1
    <2> HIDE DEF Q, S
    <2>3. SUBSET S \subseteq Q
      BY <2>2, SetInduction
    <2> QED
      BY <2>3 DEF S
  <1>4. 0..n \in Q
    BY <1>3
  <1> QED
    BY <1>4

(* The largest of a set of numbers up to n.                                *)
LEMMA MaxExists ==
  ASSUME NEW n \in Nat, NEW T \in SUBSET (1..n), T # {}
  PROVE  Max(T) \in T /\ \A x \in T : Max(T) >= x
  <1> DEFINE S == 1..n
             P == {U \in SUBSET S : U # {} => \E x \in U : \A y \in U : x >= y}
  <1>1. ASSUME NEW U \in SUBSET S, \A W \in SUBSET U : W # U => W \in P
        PROVE  U \in P
    <2> SUFFICES ASSUME U # {} PROVE \E x \in U : \A y \in U : x >= y
      OBVIOUS
    <2>1. PICK x \in U : TRUE
      OBVIOUS
    <2> DEFINE W == U \ {x}
    <2>2. W \in P /\ U \subseteq Int
      <3>1. W \in SUBSET U /\ W # U
        BY <2>1
      <3> HIDE DEF W, P
      <3> QED
        BY <1>1, <3>1
    <2>3. CASE W = {}
      BY <2>2, <2>3
    <2>4. CASE W # {}
      <3>1. PICK y \in W : \A z \in W : y >= z
        BY <2>2, <2>4
      <3>2. CASE x >= y
        BY <2>2, <3>1, <3>2
      <3>3. CASE ~ (x >= y)
        BY <2>2, <3>1, <3>3
      <3> QED
        BY <3>2, <3>3
    <2> QED
      BY <2>3, <2>4
  <1>2. IsFiniteSet(S)
    BY FS_Interval
  <1>3. SUBSET S \subseteq P
    <2> HIDE DEF S, P
    <2> QED
      BY <1>1, <1>2, SetInduction
  <1>4. \E x \in T : \A y \in T : x >= y
    BY <1>3
  <1> QED
    BY <1>4 DEF Max

MaxIn(n) == [T \in SUBSET (1..n) |-> Max(T)]

(* Of the numbers up to k the largest is k.                                *)
LEMMA MaxChooses ==
  ASSUME NEW n \in Nat
  PROVE  /\ Chooses(MaxIn(n), 1..n) /\ IsFiniteSet(1..n)
         /\ \A T \in SUBSET (1..n) : T # {} => MaxIn(n)[T] = Max(T)
         /\ \A k \in 1..n : Max(1..k) = k /\ (1..k) \ {k} = 1..(k - 1) /\ 1..k # {}
  <1>1. Chooses(MaxIn(n), 1..n)
    BY MaxExists DEF Chooses, MaxIn
  <1>2. \A T \in SUBSET (1..n) : T # {} => MaxIn(n)[T] = Max(T)
    BY DEF MaxIn
  <1>3. ASSUME NEW k \in 1..n
        PROVE  Max(1..k) = k /\ (1..k) \ {k} = 1..(k - 1) /\ 1..k # {}
    <2>1. 1..k \in SUBSET (1..n) /\ k \in 1..k /\ 1..k # {}
      OBVIOUS
    <2>2. Max(1..k) \in 1..k /\ Max(1..k) >= k
      BY <2>1, MaxExists
    <2> QED
      BY <2>1, <2>2
  <1>4. IsFiniteSet(1..n)
    BY FS_Interval
  <1> QED
    BY <1>1, <1>2, <1>3, <1>4

(* A fold that takes the largest element first has values in V.            *)
RunsBy(h, n, V, base, G) ==
  /\ h \in [SUBSET (1..n) -> V] /\ h[{}] = base
  /\ \A T \in SUBSET (1..n) : T # {} =>
       /\ Max(T) \in 1..n /\ h[T \ {Max(T)}] \in V
       /\ h[T] = G[<<Max(T), h[T \ {Max(T)}]>>]

(* There is one, from the largest element down.                            *)
LEMMA FoldRuns ==
  ASSUME NEW n \in Nat, NEW V, NEW base \in V, NEW G, StaysIn(G, 1..n, V)
  PROVE  \E h : RunsBy(h, n, V, base, G)
  <1> DEFINE S == 1..n
             C == MaxIn(n)
  <1>1. Chooses(C, S) /\ IsFiniteSet(S) /\ StaysIn(G, S, V)
    BY MaxChooses
  <1>2. PICK h \in [SUBSET S -> V] : FoldsOn(h, base, C, G, S)
    <2> HIDE DEF S, C
    <2> QED BY <1>1, FoldExists
  <1>3. h[{}] = base
    BY <1>2 DEF FoldsOn, FoldsAt
  <1>4. ASSUME NEW T \in SUBSET (1..n), T # {}
        PROVE  /\ Max(T) \in 1..n /\ h[T \ {Max(T)}] \in V
               /\ h[T] = G[<<Max(T), h[T \ {Max(T)}]>>]
    <2>1. C[T] = Max(T) /\ Max(T) \in T
      BY <1>4, MaxChooses, MaxExists
    <2>2. h[T] = G[<<C[T], h[T \ {C[T]}]>>]
      BY <1>2, <1>4 DEF FoldsOn, FoldsAt
    <2> QED
      BY <2>1, <2>2
  <1> QED
    BY <1>2, <1>3, <1>4 DEF RunsBy

(* What such a fold yields is the last of a row of values, one for each    *)
(* element, that starts with base and takes a step of G each time.         *)
Steps(st, n, V, base, G) ==
  /\ st \in [0..n -> V] /\ st[0] = base
  /\ \A k \in 1..n : st[k] = G[<<k, st[k - 1]>>]

LargestFirst(it, n, V, base, G) ==
  /\ it[{}] = base
  /\ \A T \in SUBSET (1..n) :
       T # {} /\ it[T \ {Max(T)}] \in V => it[T] = G[<<Max(T), it[T \ {Max(T)}]>>]

(* Such a row of values exists for any fold.                               *)
LEMMA FoldStages ==
  ASSUME NEW n \in Nat, NEW V, NEW base \in V, NEW G, StaysIn(G, 1..n, V),
         NEW it, LargestFirst(it, n, V, base, G)
  PROVE  \E st : Steps(st, n, V, base, G) /\ st[n] = it[1..n]
  <1> DEFINE st == [k \in 0..n |-> it[1..k]]
             P == {k \in 0..n : st[k] \in V}
  <1>1. st[0] = base
    <2>1. 1..0 = {} /\ 0 \in 0..n
      OBVIOUS
    <2> QED
      BY <2>1 DEF LargestFirst
  <1>2. ASSUME NEW k \in 1..n, st[k - 1] \in V
        PROVE  st[k] = G[<<k, st[k - 1]>>] /\ st[k] \in V
    <2>1. /\ Max(1..k) = k /\ (1..k) \ {k} = 1..(k - 1) /\ 1..k # {}
          /\ 1..k \in SUBSET (1..n) /\ k \in 0..n /\ k - 1 \in 0..n
      BY MaxChooses
    <2>2. st[k] = it[1..k] /\ st[k - 1] = it[1..(k-1)]
      BY <2>1
    <2> HIDE DEF st
    <2>3. it[(1..k) \ {Max(1..k)}] \in V
      BY <1>2, <2>1, <2>2
    <2>4. it[1..k] = G[<<Max(1..k), it[(1..k) \ {Max(1..k)}]>>]
      BY <2>1, <2>3 DEF LargestFirst
    <2>5. st[k] = G[<<k, st[k - 1]>>]
      BY <2>1, <2>2, <2>4
    <2> QED
      BY <1>2, <2>5 DEF StaysIn
  <1>3. 0..n \subseteq P
    <2>1. 0 \in P /\ \A k \in 1..n : k - 1 \in P => k \in P
      <3>1. \A k \in 1..n : k - 1 \in 0..n /\ k \in 0..n
        OBVIOUS
      <3>2. 0 \in 0..n
        OBVIOUS
      <3> HIDE DEF st
      <3> QED
        BY <1>1, <1>2, <3>1, <3>2
    <2> HIDE DEF P
    <2> QED
      BY <2>1, UpTo
  <1>4. \A k \in 0..n : st[k] \in V
    BY <1>3
  <1>5. \A k \in 1..n : st[k] = G[<<k, st[k - 1]>>]
    <2>1. \A k \in 1..n : k - 1 \in 0..n
      OBVIOUS
    <2> HIDE DEF st
    <2> QED BY <1>2, <1>4, <2>1
  <1>6. st \in [0..n -> V] /\ st[n] = it[1..n]
    <2>1. st[n] = it[1..n] /\ st = [k \in 0..n |-> st[k]]
      OBVIOUS
    <2> HIDE DEF st
    <2> QED BY <1>4, <2>1
  <1> HIDE DEF st
  <1> QED
    BY <1>1, <1>5, <1>6 DEF Steps

-----------------------------------------------------------------------------
(* No routine is missed.                                                   *)
(*                                                                         *)
(* The range of all instruction routines never keeps the allocator from    *)
(* splitting a block; so every block is cut wherever a routine wants to be *)
(* called, and what stub, init and instrument call is all there is.        *)

(* The invariant.                                                          *)

(* The range contains zero and every bound instrument compares with it.    *)
ToolInv ==
  /\ calls \subseteq ApiCall /\ routines \subseteq Routine
  /\ instructionRoutinesStart \in Int /\ instructionRoutinesStart <= 0
  /\ instructionRoutinesEnd \in Int   /\ instructionRoutinesEnd >= 0
  /\ \A r \in routines : r.what # "BB" => r.upperBound <= instructionRoutinesEnd

TargetInv == target.text \in Seq(Inst) /\ target.entry \in Int

(* A block ends where the first of its instructions wants it to, and one   *)
(* that needs a block of its own has it.                                   *)
Fits(b) ==
  /\ b \in Block /\ b.firstAddr <= b.lastAddr
  /\ \A x \in b.firstAddr..b.lastAddr :
       /\ x < b.lastAddr => ~EndsBlock(x)
       /\ NeedsPreBlock(x) => x = b.firstAddr /\ b.instrument
  /\ Op(b.lastAddr) = "SYSTEM" => b.type = "SYSCALL"

AllFit(blocks) == \A a \in DOMAIN blocks : blocks[a].firstAddr = a /\ Fits(blocks[a])

(* What has been called before control is where it is.                     *)
CalledInv ==
  /\ phase = "setup" => RailBasicBlocks = [a \in {} |-> ZeroBlock]
  /\ phase \in {"setup", "init"} => visit = NoVisit
  /\ status = "running" /\ phase \in {"instrument", "run"} =>
       /\ currentBB \in DOMAIN RailBasicBlocks
       /\ EnterCalls(Current, TRUE) \subseteq preCalls
       /\ phase = "run" /\ Current.instrument => InstrumentCalls(currentBB) \subseteq preCalls

SessionInv == ToolInv /\ TargetInv /\ AllFit(RailBasicBlocks) /\ CalledInv /\ NoCallMissed

-----------------------------------------------------------------------------
(* Instructions and the range.                                             *)

(* getNextInstruction yields an instruction or the zero word.              *)
LEMMA FetchType ==
  ASSUME TargetInv, NEW a
  PROVE  Fetch(a) \in Inst
  <1> DEFINE offset == a - target.sections[TextIndex(target)].addr
  <1>1. NoInst \in Inst
    BY DEF NoInst, Inst, SyscallKind
  <1>2. CASE offset \in 0..(Len(target.text) - 2)
    <2>1. offset + 1 \in 1..Len(target.text)
      BY <1>2, Len(target.text) \in Nat DEF TargetInv
    <2>2. target.text[offset + 1] \in Inst
      BY <2>1 DEF TargetInv
    <2> QED
      BY <1>2, <2>2 DEF Fetch, getNextInstruction
  <1>3. CASE offset \notin 0..(Len(target.text) - 2)
    BY <1>1, <1>3 DEF Fetch, getNextInstruction
  <1> QED
    BY <1>2, <1>3

(* The test with AND in allocateBB excludes no instruction.                *)
LEMMA RangeExcludesNothing ==
  ASSUME ToolInv, NEW a \in Int
  PROVE  shouldInstrumentOnInst(a)
  BY SMT DEF ToolInv, shouldInstrumentOnInst

-----------------------------------------------------------------------------
(* A visit is complete.                                                    *)

(* What is called before an instruction.                                   *)
LEMMA PreCallsComplete ==
  ASSUME ToolInv, TargetInv, NEW b, Fits(b), NEW pre,
         EnterCalls(b, TRUE) \subseteq pre, SystemCalls("PRE", b) \subseteq pre,
         b.instrument => InstrumentCalls(b.firstAddr) \subseteq pre,
         NEW r \in routines, r.point = "PRE",
         r.what = "MEM_ACCESS" => instructionRoutinesStart >= 0,
         \A x \in b.firstAddr..b.lastAddr : Op(x) # "AMO",
         NEW a \in b.firstAddr..b.lastAddr, Due(r, a)
  PROVE  <<r, a>> \in pre
  <1>1. /\ a \in Int /\ b.firstAddr \in Int /\ b.lastAddr \in Int
        /\ b.firstAddr <= a /\ a <= b.lastAddr
        /\ shouldInstrumentOnInst(a) /\ InBounds(r, a) /\ Op(a) # "AMO"
    BY RangeExcludesNothing DEF Fits, Block, Due
  <1>2. r \in Registered("PRE") /\ r.what \in {"BB", "ALL"} \cup InstType
    BY DEF ToolInv, Registered, Routine
  <1>3. CASE r.what = "ALL"
    <2>1. b.firstAddr = b.lastAddr
      <3>1. b.firstAddr < b.lastAddr => SegmentsAfter(b.firstAddr)
        BY <1>1, <1>2, <1>3, RangeExcludesNothing DEF SegmentsAfter, SomeFor
      <3>2. b.firstAddr < b.lastAddr => ~EndsBlock(b.firstAddr)
        BY <1>1 DEF Fits
      <3> QED
        BY <1>1, <3>1, <3>2 DEF EndsBlock, Fits
    <2>2. a = b.firstAddr
      BY <1>1, <2>1
    <2>3. <<r, a>> \in CallsFor("PRE", {"ALL"}, b.firstAddr)
      BY <1>1, <1>2, <1>3, <2>2 DEF CallsFor, CallsAt, For
    <2> QED
      BY <2>3 DEF EnterCalls
  <1>4. CASE r.what = "SYSTEM"
    <2>1. Op(a) = "SYSTEM"
      BY <1>4 DEF Due, Kinds, getType, MemoryOp
    <2>2. a = b.lastAddr
      BY <1>1, <2>1 DEF Fits, EndsBlock, ControlOp
    <2>3. b.type = "SYSCALL"
      BY <2>1, <2>2 DEF Fits
    <2>4. <<r, a>> \in SystemCalls("PRE", b)
      BY <1>1, <1>2, <1>4, <2>2, <2>3 DEF SystemCalls, CallsFor, CallsAt, For
    <2> QED
      BY <2>4
  <1>5. CASE r.what \notin {"ALL", "SYSTEM"}
    <2>1. r.what \in Kinds(Op(a)) \ {"SYSTEM"}
      BY <1>5 DEF Due
    <2>2. NeedsPreBlock(a)
      BY <1>1, <1>2, <2>1 DEF NeedsPreBlock, SomeFor
    <2>3. a = b.firstAddr /\ b.instrument
      BY <2>2 DEF Fits
    <2>4. CASE r.what = getType(Op(a))
      BY <1>2, <2>3, <2>4 DEF InstrumentCalls, CallsAt, For
    <2>5. CASE r.what # getType(Op(a))
      <3>1. r.what = "MEM_ACCESS" /\ Op(a) \in MemoryOp
        BY <2>1, <2>5 DEF Kinds
      <3>2. r.lowerBound \in Int /\ r.upperBound \in Nat /\ r.upperBound <= instructionRoutinesEnd
        BY <3>1 DEF ToolInv, Routine
      <3>3. InRange(a)
        BY <1>1, <3>1, <3>2 DEF InRange, InBounds, Within, ToolInv
      <3>4. <<r, a>> \in InstrumentCalls(a)
        BY <1>2, <3>1, <3>3 DEF InstrumentCalls, CallsAt, For
      <3> QED
        BY <2>3, <3>4
    <2> QED
      BY <2>4, <2>5
  <1> QED
    BY <1>3, <1>4, <1>5

(* What stub calls after one.                                              *)
LEMMA PostCallsComplete ==
  ASSUME ToolInv, TargetInv, NEW b, Fits(b), NEW r \in routines, r.point = "POST",
         \A x \in b.firstAddr..b.lastAddr : Op(x) # "AMO",
         NEW a \in b.firstAddr..b.lastAddr, Due(r, a)
  PROVE  <<r, a>> \in LeaveCalls(b)
  <1>1. /\ a \in Int /\ b.lastAddr \in Int /\ a <= b.lastAddr
        /\ shouldInstrumentOnInst(a) /\ InBounds(r, a) /\ Op(a) # "AMO"
    BY RangeExcludesNothing DEF Fits, Block, Due
  <1>2. r \in Registered("POST")
    BY DEF Registered
  <1>3. a = b.lastAddr
    <2>1. SegmentsAfter(a) \/ Op(a) \in ControlOp
      <3>1. CASE r.what = "ALL"
        BY <1>1, <1>2, <3>1 DEF SegmentsAfter, SomeFor
      <3>2. CASE r.what \in Kinds(Op(a)) /\ Op(a) \in MemoryOp
        BY <1>1, <1>2, <3>2 DEF SegmentsAfter, SomeFor, Kinds, getType, MemoryOp
      <3>3. CASE r.what \in Kinds(Op(a)) /\ Op(a) \notin MemoryOp
        BY <1>1, <1>2, <3>3 DEF SegmentsAfter, SomeFor, Kinds, ControlOp
      <3> QED
        BY <3>1, <3>2, <3>3 DEF Due
    <2> QED
      BY <1>1, <2>1 DEF Fits, EndsBlock
  <1>4. CASE r.what = "SYSTEM"
    <2>1. Op(a) = "SYSTEM"
      BY <1>4 DEF Due, Kinds, getType, MemoryOp
    <2>2. b.type = "SYSCALL"
      BY <1>3, <2>1 DEF Fits
    <2> QED
      BY <1>1, <1>2, <1>3, <1>4, <2>2 DEF LeaveCalls, SystemCalls, CallsFor, CallsAt, For
  <1>5. CASE r.what # "SYSTEM"
    <2>1. r.what \in {"ALL"} \cup (Kinds(Op(a)) \ {"SYSTEM"})
      BY <1>5 DEF Due
    <2> QED
      BY <1>1, <1>2, <1>3, <2>1 DEF LeaveCalls, CallsFor, CallsAt, For
  <1> QED
    BY <1>4, <1>5

(* The routines for basic blocks.                                          *)
LEMMA BBCallsComplete ==
  ASSUME NEW b, NEW r \in routines, DueBB(r, b), InsertPoint = {"PRE", "POST"}
  PROVE  /\ r.point = "PRE"  => <<r, b.firstAddr>> \in EnterCalls(b, TRUE)
         /\ r.point = "POST" => <<r, b.lastAddr>> \in LeaveCalls(b)
  <1>1. r.point = "PRE" => <<r, b.firstAddr>> \in BBPreCalls(b, TRUE)
    BY DEF BBPreCalls, CallsAt, For, Registered, DueBB
  <1>2. r.point = "POST" => <<r, b.lastAddr>> \in BBPostCalls(b)
    BY DEF BBPostCalls, CallsAt, For, Registered, DueBB
  <1> QED
    BY <1>1, <1>2 DEF EnterCalls, LeaveCalls

-----------------------------------------------------------------------------
(* Every block fits.                                                       *)

(* A terminal instruction has a block type, and a system call its own.     *)
LEMMA TypeAfterType ==
  ASSUME NEW op
  PROVE  TypeAfter(op) \in BlockType /\ (op = "SYSTEM" => TypeAfter(op) = "SYSCALL")
  BY DEF TypeAfter, BlockType

(* A block of straight-line instructions that want nothing, cut at e.      *)
LEMMA CutFits ==
  ASSUME NEW a \in Int, NEW e \in Int, a <= e, RunsThrough(a, e), NEW type \in BlockType,
         Op(e) = "SYSTEM" => type = "SYSCALL"
  PROVE  NewBlock(a, e, type).firstAddr = a /\ Fits(NewBlock(a, e, type))
  BY DEF NewBlock, Block, Fits, RunsThrough

(* A block of one instruction.                                             *)
LEMMA PreInstFits ==
  ASSUME NEW a \in Int, NEW leader \in Int
  PROVE  PreInstBB(a, leader).firstAddr = a /\ Fits(PreInstBB(a, leader))
  BY TypeAfterType DEF PreInstBB, Block, Fits

(* Inserting a block that fits.                                            *)
LEMMA WithFits ==
  ASSUME NEW blocks, AllFit(blocks), NEW b, Fits(b)
  PROVE  AllFit(With(blocks, b)) /\ AllFit(WithMissing(blocks, b))
  BY DEF AllFit, With, WithMissing

(* allocateBB keeps it so.                                                 *)
LEMMA AllocatedFits ==
  ASSUME NEW blocks, AllFit(blocks), NEW a \in Int
  PROVE  AllFit(Allocated(blocks, a)) /\ AllFit(AllocateIfMissing(blocks, a))
  <1> DEFINE Ends(x) == a <= x /\ RunsThrough(a, x) /\ EndsBlock(x)
             Cut(x)  == a <= x /\ RunsThrough(a, x) /\ ~EndsBlock(x)
                          /\ Op(x + 1) # "none" /\ NeedsPreBlock(x + 1)
             end == CHOOSE x \in TextAddresses : Ends(x)
             cut == CHOOSE x \in TextAddresses : Cut(x)
             ending  == With(blocks, NewBlock(a, end, TypeAfter(Op(end))))
             cutting == WithMissing(With(blocks, NewBlock(a, cut, "SEGMENTED")),
                                    PreInstBB(cut + 1, a))
             pre == WithMissing(blocks, PreInstBB(a, a))
  <1>1. TextAddresses \subseteq Int
    BY DEF TextAddresses
  <1>2. AllFit(pre)
    BY PreInstFits, WithFits
  <1>3. (\E x \in TextAddresses : Ends(x)) => AllFit(ending)
    <2> SUFFICES ASSUME \E x \in TextAddresses : Ends(x) PROVE AllFit(ending)
      OBVIOUS
    <2>1. end \in Int /\ Ends(end)
      BY <1>1
    <2>2. TypeAfter(Op(end)) \in BlockType
          /\ (Op(end) = "SYSTEM" => TypeAfter(Op(end)) = "SYSCALL")
      BY TypeAfterType
    <2> HIDE DEF end
    <2>3. Fits(NewBlock(a, end, TypeAfter(Op(end))))
      BY <2>1, <2>2, CutFits
    <2> QED
      BY <2>3, WithFits
  <1>4. (\E x \in TextAddresses : Cut(x)) => AllFit(cutting)
    <2> SUFFICES ASSUME \E x \in TextAddresses : Cut(x) PROVE AllFit(cutting)
      OBVIOUS
    <2>1. cut \in Int /\ Cut(cut)
      BY <1>1
    <2>2. Op(cut) # "SYSTEM" /\ "SEGMENTED" \in BlockType
      BY <2>1 DEF EndsBlock, ControlOp, BlockType
    <2> HIDE DEF cut
    <2>3. Fits(NewBlock(a, cut, "SEGMENTED")) /\ Fits(PreInstBB(cut + 1, a))
      BY <2>1, <2>2, CutFits, PreInstFits
    <2> QED
      BY <2>3, WithFits
  <1> DEFINE Needs  == Op(a) # "none" /\ NeedsPreBlock(a)
             SomeEnd == \E x \in TextAddresses : Ends(x)
             SomeCut == \E x \in TextAddresses : Cut(x)
  <1>5. Allocated(blocks, a) = CASE Needs -> pre [] SomeEnd -> ending [] SomeCut -> cutting
                                 [] OTHER -> blocks
    BY DEF Allocated
  <1> HIDE DEF Needs, SomeEnd, SomeCut, pre, ending, cutting
  <1>6. AllFit(CASE Needs -> pre [] SomeEnd -> ending [] SomeCut -> cutting [] OTHER -> blocks)
    BY <1>2, <1>3, <1>4 DEF SomeEnd, SomeCut
  <1> QED
    BY <1>5, <1>6 DEF AllocateIfMissing

(* A block found in the cache fits; one that was not found is not there.   *)
LEMMA FoundFits ==
  ASSUME NEW blocks, AllFit(blocks), NEW a, Lookup(blocks, a) # ZeroBlock
  PROVE  /\ a \in DOMAIN blocks /\ Lookup(blocks, a) = blocks[a]
         /\ Fits(Lookup(blocks, a)) /\ Lookup(blocks, a).firstAddr = a
  BY DEF AllFit, Lookup

-----------------------------------------------------------------------------
(* Steps.                                                                  *)

(* Once the tool has handed over, what it registered and loaded stays.     *)
LEMMA AsRegistered ==
  ASSUME UNCHANGED apiVars
  PROVE  /\ ToolInv => ToolInv'
         /\ TargetInv => TargetInv'
         /\ \A blocks : AllFit(blocks)' = AllFit(blocks)
         /\ \A b : EnterCalls(b, TRUE)' = EnterCalls(b, TRUE)
         /\ \A a : InstrumentCalls(a)' = InstrumentCalls(a)
         /\ \A a : Op(a)' = Op(a)
         /\ \A r, a : Due(r, a)' = Due(r, a)
  <1>0. /\ calls' = calls /\ routines' = routines /\ target' = target
        /\ instructionRoutinesStart' = instructionRoutinesStart
        /\ instructionRoutinesEnd' = instructionRoutinesEnd
    BY DEF apiVars
  <1>1. \A a : Op(a)' = Op(a)
    BY <1>0 DEF Op, Fetch
  <1>2. \A a : shouldInstrumentOnInst(a)' = shouldInstrumentOnInst(a)
    BY <1>0 DEF shouldInstrumentOnInst
  <1>3. \A point, whats : SomeFor(point, whats)' = SomeFor(point, whats)
    BY <1>0 DEF SomeFor, Registered
  <1>4. \A a : EndsBlock(a)' = EndsBlock(a) /\ NeedsPreBlock(a)' = NeedsPreBlock(a)
    BY <1>1, <1>2, <1>3 DEF EndsBlock, SegmentsAfter, NeedsPreBlock
  <1>5. \A b : Fits(b)' = Fits(b)
    BY <1>1, <1>4 DEF Fits
  <1>6. \A point, whats : For(point, whats)' = For(point, whats)
    BY <1>0 DEF For, Registered
  <1>7. \A b : EnterCalls(b, TRUE)' = EnterCalls(b, TRUE)
    BY <1>6 DEF EnterCalls, BBPreCalls, CallsFor
  <1>8. \A a : InstrumentCalls(a)' = InstrumentCalls(a)
    BY <1>0, <1>1, <1>6 DEF InstrumentCalls, InRange
  <1>9. \A blocks : AllFit(blocks)' = AllFit(blocks)
    BY <1>5 DEF AllFit
  <1>10. \A r, a : Due(r, a)' = Due(r, a)
    BY <1>1 DEF Due
  <1>11. (ToolInv => ToolInv') /\ (TargetInv => TargetInv')
    BY <1>0 DEF ToolInv, TargetInv
  <1> QED
    BY <1>1, <1>7, <1>8, <1>9, <1>10, <1>11

(* The visit of a block that fits misses nothing ...                       *)
LEMMA VisitMissesNothing ==
  ASSUME ToolInv, TargetInv, UNCHANGED apiVars, NEW b, Fits(b), NEW pre,
         EnterCalls(b, TRUE) \subseteq pre,
         b.instrument => InstrumentCalls(b.firstAddr) \subseteq pre,
         NEW post,
         visit' = [block |-> b, pre |-> pre \cup SystemCalls("PRE", b), post |-> post],
         post = LeaveCalls(b) \/ status' = "exited"
  PROVE  NoCallMissed'
  <1> DEFINE all == pre \cup SystemCalls("PRE", b)
  <1>0. /\ visit'.block = b /\ visit'.pre = all /\ visit'.post = post
        /\ routines' = routines /\ instructionRoutinesStart' = instructionRoutinesStart
    BY DEF apiVars
  <1>1. \A r \in routines : r.point \in InsertPoint
    BY DEF ToolInv, Routine
  <1>2. SUFFICES
          ASSUME \A a \in b.firstAddr..b.lastAddr : Op(a) # "AMO",
                 NEW r \in routines,
                 r.what = "MEM_ACCESS" /\ r.point = "PRE" => instructionRoutinesStart >= 0,
                 status' = "exited" => r.point = "PRE"
          PROVE  /\ \A a \in b.firstAddr..b.lastAddr :
                      Due(r, a) => CalledIn(visit', r, a, a)
                 /\ DueBB(r, b) => CalledIn(visit', r, b.firstAddr, b.lastAddr)
    <2>1. /\ \A a : Op(a)' = Op(a)
          /\ \A s, a : Due(s, a)' = Due(s, a)
      BY AsRegistered
    <2> QED
      BY <1>0, <2>1 DEF NoCallMissed, Expected
  <1>3. ASSUME NEW a \in b.firstAddr..b.lastAddr, Due(r, a)
        PROVE  CalledIn(visit', r, a, a)
    <2>1. r.point = "PRE" => <<r, a>> \in all
      <3> SUFFICES ASSUME r.point = "PRE" PROVE <<r, a>> \in all
        OBVIOUS
      <3>1. EnterCalls(b, TRUE) \subseteq all /\ SystemCalls("PRE", b) \subseteq all
            /\ (b.instrument => InstrumentCalls(b.firstAddr) \subseteq all)
        OBVIOUS
      <3> HIDE DEF all
      <3> QED
        BY <1>2, <1>3, <3>1, PreCallsComplete
    <2>2. r.point = "POST" => <<r, a>> \in LeaveCalls(b)
      BY <1>2, <1>3, PostCallsComplete
    <2> HIDE DEF all
    <2> QED
      BY <1>0, <1>1, <1>2, <2>1, <2>2 DEF CalledIn, InsertPoint
  <1>4. ASSUME DueBB(r, b) PROVE CalledIn(visit', r, b.firstAddr, b.lastAddr)
    BY <1>0, <1>1, <1>2, <1>4, BBCallsComplete DEF CalledIn, InsertPoint
  <1> QED
    BY <1>3, <1>4

(* ... and one that was complete stays so.                                 *)
LEMMA VisitKept ==
  ASSUME NoCallMissed, UNCHANGED apiVars, visit' = visit, status = "exited" => status' = status
  PROVE  NoCallMissed'
  <1>1. /\ \A a : Op(a)' = Op(a)
        /\ \A r, a : Due(r, a)' = Due(r, a)
    BY AsRegistered
  <1>2. routines' = routines /\ instructionRoutinesStart' = instructionRoutinesStart
    BY DEF apiVars
  <1>3. Expected' \subseteq Expected
    BY <1>2 DEF Expected
  <1> QED
    BY <1>1, <1>3 DEF NoCallMissed

(* Where the guest goes is an address.                                     *)
LEMMA NextAddrsType ==
  ASSUME TargetInv, NEW a \in Int, NEW next \in NextAddrs(a)
  PROVE  next \in Int
  <1>1. Fetch(a).imm \in Int
    BY FetchType DEF Inst
  <1>2. Len(target.text) \in Nat
    BY DEF TargetInv
  <1>3. NextAddrs(a) \subseteq Int
    BY <1>1, <1>2 DEF NextAddrs
  <1> QED
    BY <1>3

(* The largest int.                                                        *)
LEMMA MaxIntType == MaxInt \in Nat
  BY SMT DEF MaxInt

(* Initially nothing has been registered, loaded, allocated or visited.    *)
LEMMA InitInv == Init => SessionInv
  <1> SUFFICES ASSUME Init PROVE SessionInv
    OBVIOUS
  <1>1. PICK s \in Sessions : ApiInit(s)
    BY DEF Init
  <1>2. ToolInv
    BY <1>1, SessionsAssumption DEF ApiInit, ToolInv
  <1>3. TargetInv
    BY <1>1 DEF ApiInit, TargetInv, NoFile
  <1>4. AllFit(RailBasicBlocks)
    BY DEF Init, AllFit
  <1>5. CalledInv /\ NoCallMissed
    BY DEF Init, CalledInv, NoCallMissed
  <1> QED
    BY <1>2, <1>3, <1>4, <1>5 DEF SessionInv

(* What the calls are made with.                                           *)
LEMMA CallType ==
  ASSUME ToolInv, NEW c \in calls
  PROVE  /\ c.call = "addInstrument" =>
              /\ c.routine \in Routine
              /\ ~c.bounded => c.routine.upperBound = MaxInt
         /\ c.call = "setTarget" => c.file \in File
  BY DEF ToolInv, ApiCall, Registering, RegisterArgs, SetTarget, OtherCall

(* The range covers every routine, whatever the tool registers.            *)
LEMMA ApiStepInv ==
  ASSUME ToolInv, TargetInv, ApiStep
  PROVE  ToolInv' /\ TargetInv'
  <1> PICK c \in calls :
         \/ addInstrumentBB(c)  \/ addInstrumentInst(c) \/ addInstrumentInstBounded(c)
         \/ registerArgs(c)     \/ setTarget(c)         \/ setTarget_Throws(c)
         \/ addCFGGeneration(c) \/ setExitRoutine(c)
    BY DEF ApiStep
  <1>0. \A r \in Routine : r.lowerBound \in Int /\ r.upperBound \in Int
                             /\ 0 <= r.upperBound /\ r.upperBound <= MaxInt
    BY MaxIntType, SMT DEF Routine
  <1>1. CASE addInstrumentBB(c)
    BY <1>1, CallType DEF addInstrumentBB, Making, RegisterRoutine, ToolInv, TargetInv
  <1>2. CASE addInstrumentInst(c)
    BY <1>0, <1>2, CallType, MaxIntType
       DEF addInstrumentInst, Making, RegisterRoutine, ToolInv, TargetInv
  <1>3. CASE addInstrumentInstBounded(c)
    <2>1. /\ c.routine \in Routine /\ calls' \subseteq calls /\ target' = target
          /\ routines' = routines \cup {c.routine}
          /\ instructionRoutinesStart' = LowerOf(c.routine)
          /\ instructionRoutinesEnd' = UpperOf(c.routine)
      BY <1>3, CallType DEF addInstrumentInstBounded, Making, RegisterRoutine
    <2>2. instructionRoutinesStart' \in Int /\ instructionRoutinesStart' <= 0
      BY <1>0, <2>1 DEF LowerOf, ToolInv
    <2>3. /\ instructionRoutinesEnd' \in Int
          /\ instructionRoutinesEnd' >= instructionRoutinesEnd
          /\ instructionRoutinesEnd' >= c.routine.upperBound
      BY <1>0, <2>1 DEF UpperOf, ToolInv
    <2>4. \A r \in routines' : r.what # "BB" => r.upperBound <= instructionRoutinesEnd'
      BY <1>0, <2>1, <2>3 DEF ToolInv
    <2> QED
      BY <2>1, <2>2, <2>3, <2>4 DEF ToolInv, TargetInv
  <1>4. CASE setTarget(c)
    BY <1>4, CallType DEF setTarget, Making, ToolInv, TargetInv, File
  <1>5. CASE registerArgs(c) \/ setTarget_Throws(c) \/ addCFGGeneration(c) \/ setExitRoutine(c)
    BY <1>5 DEF registerArgs, setTarget_Throws, addCFGGeneration, setExitRoutine, Making,
                ToolInv, TargetInv
  <1> QED
    BY <1>1, <1>2, <1>3, <1>4, <1>5

(* Entering the block next, newly allocated or found.                      *)
LEMMA EnterInv ==
  ASSUME UNCHANGED apiVars, NEW blocks, AllFit(blocks), NEW next,
         Lookup(blocks, next) # ZeroBlock,
         DOMAIN RailBasicBlocks' = DOMAIN blocks,
         NEW leader,
         RailBasicBlocks'[next] = [blocks[next] EXCEPT !.basicBlockAddress = leader]
           \/ RailBasicBlocks'[next] = blocks[next],
         currentBB' = next,
         EnterCalls(Lookup(blocks, next), TRUE) \subseteq preCalls',
         EnterBlock(Lookup(blocks, next))
  PROVE  CalledInv'
  <1> DEFINE found == Lookup(blocks, next)
  <1>1. next \in DOMAIN blocks /\ found = blocks[next] /\ found \in Block
    BY FoundFits DEF Fits
  <1>2. Current' = RailBasicBlocks'[next] /\ currentBB' \in DOMAIN RailBasicBlocks'
    BY <1>1 DEF Current, Lookup
  <1>3. /\ Current'.firstAddr = found.firstAddr /\ Current'.lastAddr = found.lastAddr
        /\ Current'.type = found.type           /\ Current'.instrument = found.instrument
    BY <1>1, <1>2 DEF Block
  <1>4. EnterCalls(Current', TRUE) = EnterCalls(found, TRUE)
    BY <1>3 DEF EnterCalls, BBPreCalls, Within
  <1>5. EnterCalls(Current, TRUE)' = EnterCalls(Current', TRUE)
    BY AsRegistered
  <1>6. phase' = IF found.instrument THEN "instrument" ELSE "run"
    BY DEF EnterBlock
  <1> QED
    BY <1>2, <1>3, <1>4, <1>5, <1>6 DEF CalledInv

(* The block control is in fits, and what is due before it was called.     *)
LEMMA CurrentFits ==
  ASSUME SessionInv, InBlock \/ InInstrument
  PROVE  /\ Fits(Current) /\ Current.firstAddr = currentBB /\ Current.lastAddr \in Int
         /\ EnterCalls(Current, TRUE) \subseteq preCalls
         /\ InBlock /\ Current.instrument => InstrumentCalls(Current.firstAddr) \subseteq preCalls
  <1>1. status = "running" /\ phase \in {"instrument", "run"} /\ (InBlock => phase = "run")
    BY DEF InBlock, InInstrument
  <1>2. currentBB \in DOMAIN RailBasicBlocks /\ Current = RailBasicBlocks[currentBB]
    BY <1>1 DEF SessionInv, CalledInv, Current, Lookup
  <1>3. Fits(Current) /\ Current.firstAddr = currentBB
    BY <1>2 DEF SessionInv, AllFit
  <1>4. Current.lastAddr \in Int
    BY <1>3 DEF Fits, Block
  <1> QED
    BY <1>1, <1>3, <1>4 DEF SessionInv, CalledInv

(* init.                                                                   *)
LEMMA InitGuestInv ==
  ASSUME SessionInv, Init_Guest
  PROVE  SessionInv'
  <1> DEFINE entry  == target.entry
             blocks == Allocated(RailBasicBlocks, entry)
  <1>1. /\ phase = "init" /\ status = "running" /\ Lookup(blocks, entry) # ZeroBlock
        /\ RailBasicBlocks' = blocks /\ currentBB' = entry
        /\ preCalls' = EnterCalls(Lookup(blocks, entry), TRUE)
        /\ EnterBlock(Lookup(blocks, entry))
        /\ UNCHANGED apiVars /\ visit' = visit /\ status' = status
    BY DEF Init_Guest
  <1>2. entry \in Int /\ AllFit(RailBasicBlocks)
    BY DEF SessionInv, TargetInv
  <1>3. AllFit(blocks)
    BY <1>2, AllocatedFits
  <1> HIDE DEF blocks, entry
  <1>4. RailBasicBlocks'[entry] = blocks[entry] /\ DOMAIN RailBasicBlocks' = DOMAIN blocks
    BY <1>1
  <1>5. CalledInv'
    BY <1>1, <1>3, <1>4, EnterInv
  <1>6. AllFit(RailBasicBlocks)'
    BY <1>1, <1>3, AsRegistered
  <1>7. NoCallMissed'
    BY <1>1, VisitKept DEF SessionInv
  <1> QED
    BY <1>1, <1>5, <1>6, <1>7, AsRegistered DEF SessionInv

(* instrument.                                                             *)
LEMMA InstrumentInv ==
  ASSUME SessionInv, Instrument
  PROVE  SessionInv'
  <1>1. /\ InInstrument /\ phase' = "run" /\ UNCHANGED apiVars
        /\ preCalls' = preCalls \cup InstrumentCalls(currentBB)
        /\ RailBasicBlocks' = RailBasicBlocks /\ currentBB' = currentBB
        /\ visit' = visit /\ status' = status
    BY DEF Instrument
  <1>2. Current' = Current
    BY <1>1 DEF Current
  <1>3. /\ EnterCalls(Current, TRUE)' = EnterCalls(Current', TRUE)
        /\ InstrumentCalls(currentBB)' = InstrumentCalls(currentBB')
        /\ EnterCalls(Current, TRUE) \subseteq preCalls
    BY <1>1, CurrentFits, AsRegistered
  <1>4. CalledInv'
    BY <1>1, <1>2, <1>3 DEF CalledInv, SessionInv, InInstrument
  <1>5. AllFit(RailBasicBlocks)'
    BY <1>1, AsRegistered DEF SessionInv
  <1>6. NoCallMissed'
    BY <1>1, VisitKept DEF SessionInv
  <1> QED
    BY <1>1, <1>4, <1>5, <1>6, AsRegistered DEF SessionInv

(* stub, up to the next block.                                             *)
LEMMA StubEnterInv ==
  ASSUME SessionInv, Stub_Enter
  PROVE  SessionInv'
  <1> PICK next \in NextAddrs(Current.lastAddr) :
        LET blocks == AllocateIfMissing(RailBasicBlocks, next)
            block  == Lookup(blocks, next)
        IN  /\ block # ZeroBlock
            /\ LeaveBlock(LeaveCalls(Current))
            /\ AddEdge(Current.basicBlockAddress, next)
            /\ RailBasicBlocks' = Adopted(blocks, next, Current)
            /\ currentBB' = next
            /\ preCalls' = EnterCalls(block, FALSE)
            /\ EnterBlock(block)
            /\ UNCHANGED <<apiVars, args, stack, status>>
    BY DEF Stub_Enter
  <1> DEFINE blocks == AllocateIfMissing(RailBasicBlocks, next)
             block  == Lookup(blocks, next)
  <1>1. /\ InBlock /\ block # ZeroBlock /\ UNCHANGED apiVars
        /\ LeaveBlock(LeaveCalls(Current))
        /\ RailBasicBlocks' = Adopted(blocks, next, Current)
        /\ currentBB' = next /\ preCalls' = EnterCalls(block, FALSE) /\ EnterBlock(block)
    BY DEF Stub_Enter
  <1>2. Fits(Current) /\ Current.lastAddr \in Int
    BY <1>1, CurrentFits
  <1>3. next \in Int
    BY <1>2, NextAddrsType DEF SessionInv
  <1>4. AllFit(blocks)
    BY <1>3, AllocatedFits DEF SessionInv
  <1> HIDE DEF blocks
  <1>5. next \in DOMAIN blocks /\ block = blocks[next] /\ Fits(block)
    BY <1>1, <1>4, FoundFits
  <1> DEFINE leader == Current.basicBlockAddress
             adopted == [blocks[next] EXCEPT !.basicBlockAddress = leader]
  <1>6. Fits(adopted) /\ adopted.firstAddr = next
    <2>1. leader \in Int
      BY <1>2 DEF Fits, Block
    <2>2. Fits(blocks[next]) /\ blocks[next].firstAddr = next
      BY <1>4, <1>5 DEF AllFit
    <2> HIDE DEF leader
    <2>3. blocks[next] \in Block /\ adopted \in Block
      BY <2>1, <2>2 DEF Fits, Block
    <2>4. /\ adopted.firstAddr = blocks[next].firstAddr
          /\ adopted.lastAddr = blocks[next].lastAddr
          /\ adopted.type = blocks[next].type
          /\ adopted.instrument = blocks[next].instrument
      BY <2>3 DEF Block
    <2> HIDE DEF adopted
    <2> QED
      BY <2>2, <2>3, <2>4 DEF Fits
  <1>7. \/ RailBasicBlocks' = blocks
        \/ RailBasicBlocks' = [blocks EXCEPT ![next] = adopted]
    BY <1>1 DEF Adopted
  <1> HIDE DEF leader
  <1>8. AllFit(RailBasicBlocks')
    <2> HIDE DEF adopted
    <2> QED
      BY <1>4, <1>6, <1>7 DEF AllFit
  <1>9. /\ DOMAIN RailBasicBlocks' = DOMAIN blocks
        /\ RailBasicBlocks'[next] = adopted \/ RailBasicBlocks'[next] = blocks[next]
    <2> HIDE DEF adopted
    <2> QED
      BY <1>5, <1>7
  <1>10. EnterCalls(block, TRUE) \subseteq preCalls'
    BY <1>1 DEF EnterCalls, BBPreCalls, CallsAt
  <1> HIDE DEF block
  <1>11. CalledInv'
    BY <1>1, <1>4, <1>9, <1>10, EnterInv DEF block
  <1>12. AllFit(RailBasicBlocks)'
    BY <1>1, <1>8, AsRegistered
  <1>13. NoCallMissed'
    BY <1>1, <1>2, CurrentFits, VisitMissesNothing DEF LeaveBlock, SessionInv
  <1> QED
    BY <1>1, <1>11, <1>12, <1>13, AsRegistered DEF SessionInv

(* The steps that end the session.                                         *)
LEMMA EndInv ==
  ASSUME SessionInv, Stub_GiveUp \/ Stub_Exit \/ Instrument_Lost \/ Init_Crash
                       \/ runInstrument_NoTarget
  PROVE  SessionInv'
  <1>1. /\ UNCHANGED apiVars /\ RailBasicBlocks' = RailBasicBlocks /\ phase' = phase
        /\ status = "running" /\ status' # "running"
    BY DEF Stub_GiveUp, Stub_Exit, Instrument_Lost, Init_Crash, runInstrument_NoTarget, Fails,
           InBlock, InInstrument
  <1>2. CASE Stub_GiveUp \/ Stub_Exit
    <2>1. InBlock /\ phase = "run"
      BY <1>2 DEF Stub_GiveUp, Stub_Exit, InBlock
    <2>2. CalledInv'
      BY <1>1, <2>1 DEF CalledInv
    <2>3. NoCallMissed'
      <3>1. LeaveBlock(LeaveCalls(Current)) \/ (LeaveBlock({}) /\ status' = "exited")
        BY <1>2 DEF Stub_GiveUp, Stub_Exit
      <3> QED
        BY <1>1, <2>1, <3>1, CurrentFits, VisitMissesNothing DEF LeaveBlock, SessionInv
    <2> QED
      BY <1>1, <2>2, <2>3, AsRegistered DEF SessionInv
  <1>3. CASE Instrument_Lost \/ Init_Crash \/ runInstrument_NoTarget
    <2>1. visit' = visit
      BY <1>3 DEF Instrument_Lost, Init_Crash, runInstrument_NoTarget, Fails
    <2>2. CalledInv'
      BY <1>1, <2>1 DEF CalledInv, SessionInv
    <2>3. NoCallMissed'
      BY <1>1, <2>1, VisitKept DEF SessionInv
    <2> QED
      BY <1>1, <2>2, <2>3, AsRegistered DEF SessionInv
  <1> QED
    BY <1>2, <1>3

(* The API calls, and handing over.                                        *)
LEMMA SetupInv ==
  ASSUME SessionInv, Setup \/ runInstrument
  PROVE  SessionInv'
  <1>1. /\ phase = "setup" /\ status = "running" /\ status' = status /\ visit' = visit
        /\ phase' \in {"setup", "init"} /\ RailBasicBlocks' = RailBasicBlocks
    BY DEF Setup, walkVars, runInstrument
  <1>2. RailBasicBlocks' = [a \in {} |-> ZeroBlock] /\ visit' = NoVisit
    BY <1>1 DEF SessionInv, CalledInv
  <1>3. CalledInv' /\ NoCallMissed' /\ AllFit(RailBasicBlocks)'
    BY <1>1, <1>2 DEF CalledInv, NoCallMissed, AllFit
  <1>4. ToolInv' /\ TargetInv'
    BY ApiStepInv, AsRegistered DEF SessionInv, Setup, runInstrument
  <1> QED
    BY <1>3, <1>4 DEF SessionInv

(* Every step.                                                             *)
LEMMA NextInv == SessionInv /\ [Next]_vars => SessionInv'
  <1> SUFFICES ASSUME SessionInv, [Next]_vars PROVE SessionInv'
    OBVIOUS
  <1>1. CASE Rest \/ UNCHANGED vars
    <2>1. /\ UNCHANGED apiVars /\ RailBasicBlocks' = RailBasicBlocks /\ currentBB' = currentBB
          /\ phase' = phase /\ status' = status /\ visit' = visit /\ preCalls' = preCalls
      BY <1>1 DEF Rest, vars, walkVars
    <2>2. Current' = Current
      BY <2>1 DEF Current
    <2>3. /\ EnterCalls(Current, TRUE)' = EnterCalls(Current', TRUE)
          /\ InstrumentCalls(currentBB)' = InstrumentCalls(currentBB')
          /\ EnterCalls(Current', TRUE) = EnterCalls(Current, TRUE)
      BY <2>1, <2>2, AsRegistered
    <2>4. CalledInv'
      BY <2>1, <2>2, <2>3, AsRegistered DEF CalledInv, SessionInv
    <2>5. NoCallMissed'
      BY <2>1, VisitKept DEF SessionInv
    <2> QED
      BY <2>1, <2>4, <2>5, AsRegistered DEF SessionInv
  <1> QED
    BY <1>1, SetupInv, InitGuestInv, InstrumentInv, StubEnterInv, EndInv DEF Next

(* Whatever a tool registers, with whatever bounds and in whatever order,  *)
(* and whatever the text: every instruction the guest has been through got *)
(* the routines that were registered for it, in spite of the blocks it was *)
(* cut into and the range kept for all routines.                           *)
THEOREM NoRoutineMissed == Spec => []NoCallMissed
  <1>1. SessionInv => NoCallMissed
    BY DEF SessionInv
  <1> QED
    BY <1>1, InitInv, NextInv, PTL DEF Spec

-----------------------------------------------------------------------------
(* The graph.                                                              *)

(* Entries as addEdge leaves them.                                         *)
IsGraph(g) ==
  /\ IsFiniteSet(DOMAIN g) /\ DOMAIN g \subseteq Int \X Int
  /\ g \in [DOMAIN g -> Nat]

EdgesAt(g, n, side) == {e \in DOMAIN g : e[side] = n}

ExcessOf(g, n) == Sum(g, EdgesAt(g, n, 2)) - Sum(g, EdgesAt(g, n, 1))

One(n, m) == IF n = m THEN 1 ELSE 0

(* The excess of a node of the graph.                                      *)
LEMMA ExcessIs == \A n : Excess(n) = ExcessOf(entries, n)
  BY DEF Excess, Inflow, Outflow, ExcessOf, Sum, EdgesAt

(* An edge more makes a graph of a graph.                                  *)
LEMMA AddEdgeType ==
  ASSUME NEW g, IsGraph(g), NEW from \in Int, NEW to \in Int
  PROVE  /\ IsGraph(addEdge(g, from, to))
         /\ DOMAIN addEdge(g, from, to) = DOMAIN g \cup {<<from, to>>}
  <1>1. IsFiniteSet(DOMAIN g \cup {<<from, to>>})
    BY FS_AddElement DEF IsGraph
  <1> QED
    BY <1>1 DEF addEdge, IsGraph

(* The empty graph, where every node is left as often as it is entered.    *)
LEMMA NoEdgesType == IsGraph(NoEdges) /\ \A n : ExcessOf(NoEdges, n) = 0
  <1>1. IsGraph(NoEdges)
    BY FS_EmptySet DEF IsGraph, NoEdges
  <1>2. \A n : EdgesAt(NoEdges, n, 1) = {} /\ EdgesAt(NoEdges, n, 2) = {}
    BY DEF EdgesAt, NoEdges
  <1> QED
    BY <1>1, <1>2, SumEmpty DEF ExcessOf

(* The edges at a node can be counted.                                     *)
LEMMA EdgesFinite ==
  ASSUME NEW g, IsGraph(g), NEW n, NEW side
  PROVE  IsFiniteSet(EdgesAt(g, n, side)) /\ Numbers(g, EdgesAt(g, n, side))
  <1>1. EdgesAt(g, n, side) \in SUBSET DOMAIN g
    BY DEF EdgesAt
  <1>2. IsFiniteSet(EdgesAt(g, n, side))
    BY <1>1, FS_Subset DEF IsGraph
  <1> QED
    BY <1>1, <1>2 DEF Numbers, IsGraph

(* The edge counts once more where it ends, and nowhere else.              *)
LEMMA AddEdgeCounts ==
  ASSUME NEW g, IsGraph(g), NEW from \in Int, NEW to \in Int, NEW n \in Int,
         NEW side \in {1, 2}
  PROVE  LET edge == <<from, to>>
             k == addEdge(g, from, to)
         IN  Sum(k, EdgesAt(k, n, side)) = Sum(g, EdgesAt(g, n, side)) + One(n, edge[side])
  <1> DEFINE edge == <<from, to>>
             k == addEdge(g, from, to)
             S == EdgesAt(g, n, side)
             T == EdgesAt(k, n, side)
             R == S \ {edge}
  <1>1. IsGraph(k) /\ DOMAIN k = DOMAIN g \cup {edge}
    BY AddEdgeType
  <1>2. /\ \A e \in DOMAIN g : e # edge => k[e] = g[e]
        /\ k[edge] = IF edge \in DOMAIN g THEN g[edge] + 1 ELSE 1
    BY DEF addEdge
  <1>3. /\ IsFiniteSet(S) /\ Numbers(g, S) /\ IsFiniteSet(T) /\ Numbers(k, T)
    BY <1>1, EdgesFinite
  <1>4. CASE edge[side] # n
    <2>1. T = S /\ Same(g, k, S)
      BY <1>1, <1>2, <1>4 DEF EdgesAt, Same
    <2>2. Sum(g, S) = Sum(k, S)
      <3> HIDE DEF S, k
      <3> QED BY <1>3, <2>1, SumSame
    <2>3. Sum(g, S) \in Int
      <3> HIDE DEF S
      <3> QED BY <1>3, SumType
    <2> QED
      BY <1>4, <2>1, <2>2, <2>3 DEF One
  <1>5. CASE edge[side] = n
    <2>0. One(n, edge[side]) = 1
      BY <1>5 DEF One
    <2>1. edge \in T /\ T \ {edge} = R
      BY <1>1, <1>5 DEF EdgesAt
    <2>2. Sum(k, T) = k[edge] + Sum(k, R)
      <3> HIDE DEF T, R, k, edge
      <3> QED BY <1>3, <2>1, SumTakeOut
    <2>3. IsFiniteSet(R) /\ Numbers(g, R) /\ Same(g, k, R)
      <3>1. IsFiniteSet(R)
        BY <1>3, FS_RemoveElement
      <3>2. Same(g, k, R)
        BY <1>2 DEF Same, EdgesAt
      <3> QED
        BY <1>3, <3>1, <3>2 DEF Numbers
    <2>4. Sum(k, R) = Sum(g, R) /\ Sum(g, R) \in Int
      <3> HIDE DEF R, k
      <3> QED BY <2>3, SumSame, SumType
    <2>5. CASE edge \in DOMAIN g
      <3>1. edge \in S /\ g[edge] \in Int
        BY <1>5, <2>5 DEF EdgesAt, IsGraph
      <3>2. Sum(g, S) = g[edge] + Sum(g, R)
        <4> HIDE DEF S, edge
        <4> QED BY <1>3, <3>1, SumTakeOut
      <3>3. k[edge] = g[edge] + 1
        BY <1>2, <2>5
      <3> HIDE DEF S, T, R, k, edge
      <3>4. Sum(k, T) = Sum(g, S) + 1
        BY <2>2, <2>4, <3>1, <3>2, <3>3
      <3> QED
        BY <2>0, <3>4 DEF S, T, k, edge
    <2>6. CASE edge \notin DOMAIN g
      <3>1. R = S /\ k[edge] = 1
        BY <1>2, <2>6 DEF EdgesAt
      <3> HIDE DEF S, T, R, k, edge
      <3>2. Sum(k, T) = Sum(g, S) + 1
        BY <2>2, <2>4, <3>1
      <3> QED
        BY <2>0, <3>2 DEF S, T, k, edge
    <2> QED
      BY <2>5, <2>6
  <1> QED
    BY <1>4, <1>5

(* An edge more is one for the node it enters, and one less for the other. *)
LEMMA AddEdgeExcess ==
  ASSUME NEW g, IsGraph(g), NEW from \in Int, NEW to \in Int, NEW n \in Int
  PROVE  ExcessOf(addEdge(g, from, to), n) = ExcessOf(g, n) + One(n, to) - One(n, from)
  <1> DEFINE k == addEdge(g, from, to)
             in == EdgesAt(g, n, 2)
             out == EdgesAt(g, n, 1)
             inK == EdgesAt(k, n, 2)
             outK == EdgesAt(k, n, 1)
  <1>1. Sum(k, inK) = Sum(g, in) + One(n, to)
    BY AddEdgeCounts
  <1>2. Sum(k, outK) = Sum(g, out) + One(n, from)
    BY AddEdgeCounts
  <1>3. Sum(g, in) \in Int /\ Sum(g, out) \in Int
    BY EdgesFinite, SumType
  <1>4. One(n, to) \in Int /\ One(n, from) \in Int
    BY DEF One
  <1>5. /\ ExcessOf(k, n) = Sum(k, inK) - Sum(k, outK)
        /\ ExcessOf(g, n) = Sum(g, in) - Sum(g, out)
    BY DEF ExcessOf
  <1> HIDE DEF k, in, out, inK, outK
  <1>6. ExcessOf(k, n) = ExcessOf(g, n) + One(n, to) - One(n, from)
    BY <1>1, <1>2, <1>3, <1>4, <1>5
  <1> QED
    BY <1>6 DEF k

(* What setTarget has opened: its headers are those of an executable.      *)
Loadable(f) == f \in File /\ f.kind = "riscv" /\ WellFormed(f)

ElfInv ==
  /\ \A c \in calls : c \in ApiCall /\ (c.call = "setTarget" => WellFormed(c.file))
  /\ target = NoFile \/ Loadable(target)
  /\ phase # "setup" => Loadable(target)

(* Before the first call there is no target.                               *)
LEMMA ElfInit == Init => ElfInv
  BY SessionsAssumption DEF Init, ApiInit, ElfInv

(* setTarget is called with a file.                                        *)
LEMMA CallFile ==
  ASSUME NEW c \in ApiCall, c.call = "setTarget"
  PROVE  c.file \in File
  BY DEF ApiCall, Registering, RegisterArgs, SetTarget, OtherCall

(* What is opened is an executable, and no guest runs without one.         *)
LEMMA ElfNext == ElfInv /\ [Next]_vars => ElfInv'
  <1> SUFFICES ASSUME ElfInv, [Next]_vars PROVE ElfInv'
    OBVIOUS
  <1>1. CASE Setup
    <2>1. PICK c \in calls :
            \/ addInstrumentBB(c)  \/ addInstrumentInst(c) \/ addInstrumentInstBounded(c)
            \/ registerArgs(c)     \/ setTarget(c)         \/ setTarget_Throws(c)
            \/ addCFGGeneration(c) \/ setExitRoutine(c)
      BY <1>1 DEF Setup, ApiStep
    <2>2. calls' \subseteq calls /\ phase' = phase /\ phase = "setup"
      BY <1>1, <2>1
         DEF Setup, walkVars, addInstrumentBB, addInstrumentInst, addInstrumentInstBounded,
             registerArgs, setTarget, setTarget_Throws, addCFGGeneration, setExitRoutine, Making
    <2>3. CASE setTarget(c)
      <3>1. target' = c.file /\ c \in ApiCall /\ c.call = "setTarget" /\ Opens(c.file)
              /\ WellFormed(c.file)
        BY <2>3 DEF setTarget, Making, ElfInv
      <3>2. Loadable(target')
        BY <3>1, CallFile DEF Loadable, Opens
      <3> QED
        BY <2>2, <3>2 DEF ElfInv
    <2>4. CASE ~setTarget(c)
      <3>1. target' = target
        BY <2>1, <2>4
           DEF addInstrumentBB, addInstrumentInst, addInstrumentInstBounded,
               registerArgs, setTarget_Throws, addCFGGeneration, setExitRoutine
      <3> QED
        BY <2>2, <3>1 DEF ElfInv
    <2> QED
      BY <2>3, <2>4
  <1>2. CASE runInstrument
    BY <1>2 DEF runInstrument, ElfInv, apiVars
  <1>3. CASE Init_Guest \/ Init_Crash \/ Instrument \/ Instrument_Lost \/ Stub_Enter
               \/ Stub_GiveUp \/ Stub_Exit
    <2>1. phase # "setup" /\ UNCHANGED apiVars
      BY <1>3 DEF Init_Guest, Init_Crash, Instrument, Instrument_Lost, Stub_Enter, Stub_GiveUp,
                  Stub_Exit, Fails, InInstrument, InBlock
    <2> QED
      BY <2>1 DEF ElfInv, apiVars
  <1>4. CASE runInstrument_NoTarget \/ Rest \/ UNCHANGED vars
    <2>1. UNCHANGED apiVars /\ phase' = phase
      BY <1>4 DEF runInstrument_NoTarget, Rest, Fails, vars, walkVars
    <2> QED
      BY <2>1 DEF ElfInv, apiVars
  <1> QED
    BY <1>1, <1>2, <1>3, <1>4 DEF Next

-----------------------------------------------------------------------------
(* Without instruction routines no block is split.                         *)

OnlyBB == \A r \in routines : r.what = "BB"

(* Every block is a whole one, and has an address of the text.             *)
Plain(blocks) ==
  \A x \in DOMAIN blocks :
    /\ x \in Nat /\ blocks[x].basicBlockAddress = x
    /\ blocks[x].type # "SEGMENTED" /\ ~blocks[x].instrument

(* Instructions have addresses of the text.                                *)
LEMMA FetchedIsText ==
  ASSUME Loadable(target), NEW a \in Int, Op(a) # "none"
  PROVE  a \in Nat
  <1> DEFINE k == TextIndex(target)
  <1>1. target.sections \in Seq(Section) /\ k \in 1..(Len(target.sections) - 1)
    BY DEF Loadable, WellFormed, File
  <1>2. k \in 1..Len(target.sections)
    BY <1>1
  <1> HIDE DEF k
  <1>3. target.sections[k] \in Section
    BY <1>1, <1>2
  <1>4. target.sections[k].addr \in Nat
    BY <1>3 DEF Section
  <1>5. a - target.sections[k].addr \in 0..(Len(target.text) - 2)
    BY DEF Op, Fetch, getNextInstruction, NoInst, k
  <1>6. Len(target.text) \in Nat
    BY DEF Loadable, File
  <1> QED
    BY <1>4, <1>5, <1>6

(* Routines for basic blocks split none.                                   *)
LEMMA NothingSplits ==
  ASSUME ToolInv, OnlyBB, NEW a
  PROVE  /\ ~NeedsPreBlock(a) /\ ~SegmentsAfter(a)
         /\ EndsBlock(a) => TypeAfter(Op(a)) # "SEGMENTED"
  <1>1. "BB" \notin Kinds(Op(a))
    BY DEF Kinds, getType
  <1>2. \A point, whats : SomeFor(point, whats) => "BB" \in whats
    BY DEF OnlyBB, SomeFor, Registered
  <1>3. ~NeedsPreBlock(a)
    BY <1>1, <1>2 DEF NeedsPreBlock
  <1>4. ~SegmentsAfter(a)
    BY <1>1, <1>2 DEF SegmentsAfter, Kinds, MemoryOp
  <1> QED
    BY <1>3, <1>4 DEF EndsBlock, TypeAfter, ControlOp

(* What allocateBB makes then is a whole block.                            *)
LEMMA AllocatedPlain ==
  ASSUME ToolInv, OnlyBB, Loadable(target), NEW blocks, Plain(blocks), NEW a \in Int
  PROVE  Plain(Allocated(blocks, a)) /\ Plain(AllocateIfMissing(blocks, a))
  <1> DEFINE Ends(x) == a <= x /\ RunsThrough(a, x) /\ EndsBlock(x)
             end == CHOOSE x \in TextAddresses : Ends(x)
             block == NewBlock(a, end, TypeAfter(Op(end)))
             SomeEnd == \E x \in TextAddresses : Ends(x)
  <1>1. Allocated(blocks, a) = IF SomeEnd THEN With(blocks, block) ELSE blocks
    BY NothingSplits DEF Allocated
  <1>2. ASSUME SomeEnd PROVE Plain(With(blocks, block))
    <2>1. end \in TextAddresses /\ Ends(end)
      BY <1>2
    <2>2. TextAddresses \subseteq Int
      BY DEF TextAddresses
    <2>3. a \in a..end
      BY <2>1, <2>2
    <2>4. Op(a) # "none"
      BY <2>1, <2>3 DEF RunsThrough
    <2>5. a \in Nat /\ TypeAfter(Op(end)) # "SEGMENTED"
      BY <2>1, <2>4, FetchedIsText, NothingSplits
    <2> HIDE DEF end
    <2>6. /\ block.firstAddr = a /\ block.basicBlockAddress = a
          /\ block.type # "SEGMENTED" /\ ~block.instrument
      BY <2>5 DEF NewBlock
    <2> HIDE DEF block
    <2> QED
      BY <2>5, <2>6 DEF Plain, With
  <1> HIDE DEF SomeEnd, block
  <1> QED
    BY <1>1, <1>2 DEF AllocateIfMissing

-----------------------------------------------------------------------------
(* The walk.                                                               *)

WalkTo(g, here) == \A n \in Int : ExcessOf(g, n) = One(n, here) - One(n, StartNode)

WalkInv ==
  /\ IsGraph(entries)
  /\ phase \in {"setup", "init"} => entries = NoEdges /\ status # "exited"
  /\ OnlyBB => phase # "instrument" /\ Plain(RailBasicBlocks)
  /\ rail.cfg /\ phase = "run" /\ OnlyBB =>
       /\ status = "running" => WalkTo(entries, currentBB)
       /\ status = "exited"  => WalkTo(entries, EndNode)
       /\ status \in {"running", "exited", "faulted"}

(* Taking an edge from where control is.                                   *)
LEMMA WalkOn ==
  ASSUME NEW g, IsGraph(g), NEW from \in Int, NEW to \in Int, WalkTo(g, from)
  PROVE  WalkTo(addEdge(g, from, to), to)
  <1> SUFFICES ASSUME NEW n \in Int
               PROVE  ExcessOf(addEdge(g, from, to), n) = One(n, to) - One(n, StartNode)
    BY DEF WalkTo
  <1>1. ExcessOf(g, n) = One(n, from) - One(n, StartNode)
    BY DEF WalkTo
  <1>2. ExcessOf(addEdge(g, from, to), n) = ExcessOf(g, n) + One(n, to) - One(n, from)
    BY AddEdgeExcess
  <1>3. One(n, from) \in Int /\ One(n, to) \in Int /\ One(n, StartNode) \in Int
    BY DEF One
  <1> QED
    BY <1>1, <1>2, <1>3

(* The first edge, from "START".                                           *)
LEMMA WalkBegins ==
  ASSUME NEW to \in Int
  PROVE  WalkTo(addEdge(NoEdges, StartNode, to), to)
  <1> SUFFICES ASSUME NEW n \in Int
               PROVE  ExcessOf(addEdge(NoEdges, StartNode, to), n) = One(n, to) - One(n, StartNode)
    BY DEF WalkTo
  <1>1. IsGraph(NoEdges) /\ ExcessOf(NoEdges, n) = 0 /\ StartNode \in Int
    BY NoEdgesType DEF StartNode
  <1>2. ExcessOf(addEdge(NoEdges, StartNode, to), n) = 0 + One(n, to) - One(n, StartNode)
    BY <1>1, AddEdgeExcess
  <1>3. One(n, to) \in Int /\ One(n, StartNode) \in Int
    BY DEF One
  <1> QED
    BY <1>2, <1>3

(* Before init there are no edges.                                         *)
LEMMA WalkInit == Init => WalkInv
  <1> SUFFICES ASSUME Init PROVE WalkInv
    OBVIOUS
  <1>1. IsGraph(entries) /\ entries = NoEdges
    BY NoEdgesType DEF Init
  <1>2. Plain(RailBasicBlocks)
    BY DEF Init, Plain
  <1> QED
    BY <1>1, <1>2 DEF Init, WalkInv

(* Every step keeps the graph a walk.                                      *)
LEMMA WalkNext == SessionInv /\ ElfInv /\ WalkInv /\ [Next]_vars => WalkInv'
  <1> SUFFICES ASSUME SessionInv, ElfInv, WalkInv, [Next]_vars PROVE WalkInv'
    OBVIOUS
  <1>0. UNCHANGED apiVars => /\ OnlyBB' = OnlyBB /\ rail' = rail
                             /\ (Loadable(target))' = Loadable(target)
    BY DEF apiVars, OnlyBB
  <1>1. CASE Setup \/ runInstrument
    <2>1. /\ phase = "setup" /\ phase' \in {"setup", "init"} /\ entries' = entries
          /\ RailBasicBlocks' = RailBasicBlocks /\ status' = status
      BY <1>1 DEF Setup, runInstrument, walkVars
    <2>2. RailBasicBlocks = [a \in {} |-> ZeroBlock]
      BY <2>1 DEF SessionInv, CalledInv
    <2>3. Plain(RailBasicBlocks')
      BY <2>1, <2>2 DEF Plain
    <2> QED
      BY <2>1, <2>3 DEF WalkInv
  <1>2. CASE runInstrument_NoTarget \/ Init_Crash \/ Instrument_Lost
    <2>1. /\ UNCHANGED apiVars /\ entries' = entries /\ RailBasicBlocks' = RailBasicBlocks
          /\ phase' = phase /\ phase # "run" /\ status' # "exited"
      BY <1>2 DEF runInstrument_NoTarget, Init_Crash, Instrument_Lost, Fails, InInstrument
    <2> QED
      BY <1>0, <2>1 DEF WalkInv
  <1>3. CASE Init_Guest
    <2> DEFINE blocks == Allocated(RailBasicBlocks, target.entry)
               first == Lookup(blocks, target.entry)
    <2>1. /\ phase = "init" /\ UNCHANGED apiVars /\ status = "running" /\ status' = status
          /\ first # ZeroBlock /\ RailBasicBlocks' = blocks /\ currentBB' = target.entry
          /\ AddEdge(StartNode, target.entry)
          /\ phase' = IF first.instrument THEN "instrument" ELSE "run"
      BY <1>3 DEF Init_Guest, EnterBlock
    <2>2. target.entry \in Int /\ StartNode \in Int
      BY DEF SessionInv, TargetInv, StartNode
    <2>3. entries = NoEdges /\ IsGraph(entries)
      BY <2>1 DEF WalkInv
    <2>4. IsGraph(entries')
      BY <2>1, <2>2, <2>3, AddEdgeType DEF AddEdge
    <2>5. OnlyBB => Plain(blocks)
      BY <2>1, <2>2, AllocatedPlain DEF WalkInv, SessionInv, ElfInv
    <2>6. OnlyBB => ~first.instrument
      <3> HIDE DEF blocks
      <3>1. target.entry \in DOMAIN blocks => first = blocks[target.entry]
        BY DEF Lookup
      <3>2. target.entry \in DOMAIN blocks
        BY <2>1 DEF Lookup
      <3> QED
        BY <2>5, <3>1, <3>2 DEF Plain
    <2>7. rail.cfg => WalkTo(entries', currentBB')
      BY <2>1, <2>2, <2>3, WalkBegins DEF AddEdge
    <2> HIDE DEF blocks, first
    <2>8. OnlyBB => phase' = "run"
      BY <2>1, <2>6
    <2>9. phase' \in {"run", "instrument"}
      BY <2>1
    <2>10. OnlyBB' = OnlyBB /\ rail' = rail
      BY <1>0, <2>1
    <2> QED
      BY <2>1, <2>4, <2>5, <2>7, <2>8, <2>9, <2>10 DEF WalkInv
  <1>4. CASE Instrument
    <2>1. /\ phase = "instrument" /\ UNCHANGED apiVars /\ phase' = "run" /\ entries' = entries
      BY <1>4 DEF Instrument, InInstrument
    <2>2. ~OnlyBB
      BY <2>1 DEF WalkInv
    <2> QED
      BY <1>0, <2>1, <2>2 DEF WalkInv
  <1>5. CASE Stub_Enter \/ Stub_GiveUp \/ Stub_Exit
    <2>1. InBlock /\ UNCHANGED apiVars /\ phase = "run" /\ status = "running"
      BY <1>5 DEF Stub_Enter, Stub_GiveUp, Stub_Exit, InBlock
    <2>2. Fits(Current) /\ Current.lastAddr \in Int /\ currentBB \in DOMAIN RailBasicBlocks
            /\ Current = RailBasicBlocks[currentBB] /\ Current.firstAddr = currentBB
      BY <2>1, CurrentFits DEF SessionInv, CalledInv, Current, Lookup
    <2>3. Current.basicBlockAddress \in Int /\ currentBB \in Int
      BY <2>2 DEF Fits, Block
    <2>4. IsGraph(entries) /\ EndNode \in Int
      BY DEF WalkInv, EndNode
    <2>5. /\ OnlyBB => Current.basicBlockAddress = currentBB /\ Plain(RailBasicBlocks)
          /\ rail.cfg /\ OnlyBB => WalkTo(entries, currentBB)
      BY <2>1, <2>2 DEF WalkInv, Plain
    <2>6. CASE Stub_Exit
      <3>1. /\ AddEdge(Current.basicBlockAddress, EndNode) /\ status' = "exited"
            /\ RailBasicBlocks' = RailBasicBlocks /\ phase' = phase
        BY <2>6 DEF Stub_Exit
      <3>2. IsGraph(entries')
        BY <2>3, <2>4, <3>1, AddEdgeType DEF AddEdge
      <3>3. rail.cfg /\ OnlyBB => WalkTo(entries', EndNode)
        BY <2>3, <2>4, <2>5, <3>1, WalkOn DEF AddEdge
      <3>4. OnlyBB' = OnlyBB /\ rail' = rail
        BY <1>0, <2>1
      <3> QED
        BY <2>1, <2>5, <3>1, <3>2, <3>3, <3>4 DEF WalkInv
    <2>7. CASE Stub_GiveUp
      <3>1. PICK next \in NextAddrs(Current.lastAddr) :
              /\ entries' = IF rail.cfg
                            THEN addEdge(addEdge(entries, Current.basicBlockAddress, next), 0, EndNode)
                            ELSE entries
              /\ status' = "faulted" /\ RailBasicBlocks' = RailBasicBlocks /\ phase' = phase
        BY <2>7 DEF Stub_GiveUp
      <3>2. next \in Int
        BY <2>2, NextAddrsType DEF SessionInv
      <3>3. IsGraph(entries')
        <4> DEFINE g == addEdge(entries, Current.basicBlockAddress, next)
        <4>1. IsGraph(g)
          BY <2>3, <2>4, <3>2, AddEdgeType
        <4> DEFINE zero == 0
        <4>2. zero \in Int
          OBVIOUS
        <4> HIDE DEF g, zero
        <4>3. IsGraph(addEdge(g, zero, EndNode))
          BY <2>4, <4>1, <4>2, AddEdgeType
        <4> QED
          BY <2>4, <3>1, <4>3 DEF g, zero
      <3>4. OnlyBB' = OnlyBB /\ rail' = rail
        BY <1>0, <2>1
      <3> QED
        BY <2>1, <2>5, <3>1, <3>3, <3>4 DEF WalkInv
    <2>8. CASE Stub_Enter
      <3> DEFINE Blocks(next) == AllocateIfMissing(RailBasicBlocks, next)
      <3>1. PICK next \in NextAddrs(Current.lastAddr) :
              /\ Lookup(Blocks(next), next) # ZeroBlock
              /\ AddEdge(Current.basicBlockAddress, next)
              /\ RailBasicBlocks' = Adopted(Blocks(next), next, Current)
              /\ currentBB' = next /\ status' = status
              /\ phase' = IF Lookup(Blocks(next), next).instrument THEN "instrument" ELSE "run"
        BY <2>8 DEF Stub_Enter, EnterBlock
      <3> DEFINE blocks == Blocks(next)
      <3>2. next \in Int
        BY <2>2, NextAddrsType DEF SessionInv
      <3>3. IsGraph(entries')
        BY <2>3, <2>4, <3>1, <3>2, AddEdgeType DEF AddEdge
      <3>4. OnlyBB => Plain(blocks)
        BY <2>1, <2>5, <3>2, AllocatedPlain DEF SessionInv, ElfInv
      <3> HIDE DEF Blocks
      <3>5. next \in DOMAIN blocks /\ Lookup(blocks, next) = blocks[next]
        BY <3>1 DEF Lookup
      <3>6. OnlyBB => RailBasicBlocks' = blocks /\ phase' = "run"
        BY <3>1, <3>4, <3>5 DEF Adopted, Plain
      <3>7. rail.cfg /\ OnlyBB => WalkTo(entries', next)
        BY <2>3, <2>4, <2>5, <3>1, <3>2, WalkOn DEF AddEdge
      <3>8. OnlyBB' = OnlyBB /\ rail' = rail
        BY <1>0, <2>1
      <3>9. phase' \in {"run", "instrument"}
        BY <3>1
      <3> HIDE DEF blocks
      <3>10. OnlyBB => Plain(RailBasicBlocks')
        BY <3>4, <3>6
      <3> QED
        BY <2>1, <3>1, <3>3, <3>6, <3>7, <3>8, <3>9, <3>10 DEF WalkInv
    <2> QED
      BY <1>5, <2>6, <2>7, <2>8
  <1>6. CASE Rest \/ UNCHANGED vars
    <2>1. /\ UNCHANGED apiVars /\ entries' = entries /\ RailBasicBlocks' = RailBasicBlocks
          /\ phase' = phase /\ status' = status /\ currentBB' = currentBB
      BY <1>6 DEF Rest, vars, walkVars
    <2> QED
      BY <1>0, <2>1 DEF WalkInv
  <1> QED
    BY <1>1, <1>2, <1>3, <1>4, <1>5, <1>6 DEF Next

(* cfg_gen.cpp, dispatcher.cpp: whatever the guest's text and wherever it  *)
(* goes, the counts of the graph's edges are those of one walk from        *)
(* "START" to where control is.                                            *)
THEOREM GraphCountsAWalk == Spec => []GraphIsAWalk
  <1>1. SessionInv /\ WalkInv => GraphIsAWalk
    <2> SUFFICES ASSUME SessionInv, WalkInv, rail.cfg, phase = "run", status # "faulted", OnlyBB,
                        NEW n \in Nodes
                 PROVE  Excess(n) = CASE n = StartNode -> -1 [] n = Here -> 1 [] OTHER -> 0
      BY DEF GraphIsAWalk, OnlyBB
    <2>1. n \in Int
      BY DEF Nodes, WalkInv, IsGraph
    <2>2. Excess(n) = ExcessOf(entries, n)
      BY ExcessIs
    <2>3. CASE status = "exited"
      <3>1. WalkTo(entries, EndNode) /\ Here = EndNode
        BY <2>3 DEF WalkInv, Here
      <3> QED
        BY <2>1, <2>2, <3>1 DEF WalkTo, One, StartNode, EndNode
    <2>4. CASE status = "running"
      <3>1. currentBB \in DOMAIN RailBasicBlocks /\ Plain(RailBasicBlocks)
        BY <2>4 DEF WalkInv, SessionInv, CalledInv
      <3>2. Here = currentBB /\ currentBB \in Nat
        BY <2>4, <3>1 DEF Here, Current, Lookup, Plain
      <3>3. WalkTo(entries, currentBB)
        BY <2>4 DEF WalkInv
      <3> QED
        BY <2>1, <2>2, <3>2, <3>3 DEF WalkTo, One, StartNode
    <2> QED
      BY <2>3, <2>4 DEF WalkInv
  <1> QED
    BY <1>1, InitInv, NextInv, ElfInit, ElfNext, WalkInit, WalkNext, PTL DEF Spec

-----------------------------------------------------------------------------
(* The stream.                                                             *)

LoadState == [pos : Nat, fail : BOOLEAN, done : BOOLEAN, data : [Addresses -> Nat]]

(* What a read makes of the image and the stream.                          *)
LEMMA ReadType ==
  ASSUME NEW f, f.size \in Nat, NEW load \in LoadState, NEW addr \in Nat, NEW size \in Nat
  PROVE  /\ Read(f, load, addr, size) \in LoadState /\ Left(f, load) \in Nat
         /\ Seek(load, addr) \in LoadState
         /\ Read(f, load, addr, size).fail = (load.fail \/ Left(f, load) < size)
         /\ Read(f, load, addr, size).done = load.done
         /\ Left(f, load) >= size =>
              /\ Read(f, load, addr, size).pos = load.pos + size
              /\ Read(f, load, addr, size).data =
                   [a \in Addresses |-> IF a \in addr..(addr + size - 1)
                                        THEN Word(load.pos + a - addr) ELSE load.data[a]]
  <1>1. Left(f, load) \in Nat
    BY DEF Left, LoadState
  <1> DEFINE got == IF size <= Left(f, load) THEN size ELSE Left(f, load)
             new == [a \in Addresses |-> IF a \in addr..(addr + got - 1)
                                         THEN Word(load.pos + a - addr) ELSE load.data[a]]
  <1>2. got \in Nat /\ got <= size /\ (got < size <=> Left(f, load) < size)
    BY <1>1
  <1>3. Read(f, load, addr, size) =
          [load EXCEPT !.data = new, !.pos = @ + got, !.fail = @ \/ got < size]
    BY DEF Read
  <1>4. new \in [Addresses -> Nat]
    <2> HIDE DEF got
    <2> QED
      BY <1>2, ImageAssumption DEF Word, LoadState
  <1>5. Left(f, load) >= size => got = size
    BY <1>1
  <1> HIDE DEF got
  <1>6. Read(f, load, addr, size).data = new
    BY <1>3 DEF LoadState
  <1>7. /\ Read(f, load, addr, size).pos = load.pos + got
        /\ Read(f, load, addr, size).fail = (load.fail \/ got < size)
        /\ Read(f, load, addr, size).done = load.done
    BY <1>3 DEF LoadState
  <1>8. Read(f, load, addr, size) \in LoadState
    <2> DEFINE pos  == load.pos + got
               fail == load.fail \/ got < size
    <2>1. pos \in Nat
      BY <1>2 DEF LoadState
    <2>2. fail \in BOOLEAN
      OBVIOUS
    <2>3. Read(f, load, addr, size) =
            [pos |-> pos, fail |-> fail, done |-> load.done, data |-> new]
      BY <1>3 DEF LoadState
    <2>4. load.done \in BOOLEAN
      BY DEF LoadState
    <2> HIDE DEF new, pos, fail
    <2> QED
      BY <1>4, <2>1, <2>2, <2>3, <2>4 DEF LoadState
  <1>9. Seek(load, addr) \in LoadState
    BY DEF Seek, LoadState
  <1> QED
    BY <1>1, <1>2, <1>5, <1>6, <1>7, <1>8, <1>9

(* Loading a section makes an image of an image.                           *)
LEMMA LoadSectionType ==
  ASSUME NEW f, f.size \in Nat, NEW load \in LoadState, NEW s \in Section
  PROVE  LoadSection(f, load, s) \in LoadState
  <1>0. s.addr \in Nat /\ s.offset \in Nat /\ s.size \in Nat
    BY DEF Section
  <1>1. Cleared(load, s) \in LoadState
    <2> DEFINE new == [a \in Addresses |->
                           IF a \in s.addr..(s.addr + s.size - 1)
                           THEN Zero ELSE load.data[a]]
    <2>1. new \in [Addresses -> Nat]
      BY DEF Zero, LoadState
    <2>2. Cleared(load, s) = [load EXCEPT !.data = new]
      BY DEF Cleared
    <2> HIDE DEF new
    <2> QED
      BY <2>1, <2>2 DEF LoadState
  <1>2. ReadSection(f, load, s) \in LoadState
    <2> DEFINE read == Read(f, Seek(load, s.offset), s.addr, s.size)
    <2>1. read \in LoadState
      BY <1>0, ReadType
    <2>2. ReadSection(f, load, s) = [read EXCEPT !.done = read.fail]
      BY DEF ReadSection
    <2> HIDE DEF read
    <2> QED
      BY <2>1, <2>2 DEF LoadState
  <1> QED
    BY <1>1, <1>2 DEF LoadSection

(* The folds of the image by name, and the rows of values they go through. *)
ReadAll(f, load, s) == FoldLeft(LAMBDA l, x : Read(f, l, x.addr, x.size), load, s)
LoadAll(f, load, s) == FoldLeft(LAMBDA l, x : LoadSection(f, l, x), load, s)
SizeOf(zero, s)     == FoldLeft(LAMBDA m, x : m + x.size, zero, s)

ReadsStep(st, f, load, n, s) ==
  /\ st \in [0..n -> LoadState] /\ st[0] = load
  /\ \A k \in 1..n : st[k] = Read(f, st[k - 1], s[k].addr, s[k].size)
LoadsStep(st, f, load, n, s) ==
  /\ st \in [0..n -> LoadState] /\ st[0] = load
  /\ \A k \in 1..n : st[k] = LoadSection(f, st[k - 1], s[k])
SizesStep(st, zero, n, s) ==
  /\ st \in [0..n -> Nat] /\ st[0] = zero
  /\ \A k \in 1..n : st[k] = st[k - 1] + s[k].size

ReadsAs(it, f, load, n, s) ==
  it = [T \in SUBSET (1..n) |->
          IF T = {} THEN load ELSE Read(f, it[T \ {Max(T)}], s[Max(T)].addr, s[Max(T)].size)]

(* Reading the sections of s one after the other.                          *)
LEMMA ReadRuns ==
  ASSUME NEW f, f.size \in Nat, NEW load \in LoadState, NEW n \in Nat, NEW s \in [1..n -> Section]
  PROVE  \E st : ReadsStep(st, f, load, n, s) /\ ReadAll(f, load, s) = st[n]
  <1> DEFINE G == [p \in (1..n) \X LoadState |-> Read(f, p[2], s[p[1]].addr, s[p[1]].size)]
             it == CHOOSE it : ReadsAs(it, f, load, n, s)
  <1>1. \A k \in 1..n, v \in LoadState :
           G[<<k, v>>] = Read(f, v, s[k].addr, s[k].size) /\ G[<<k, v>>] \in LoadState
    <2> SUFFICES ASSUME NEW k \in 1..n, NEW v \in LoadState
                 PROVE  Read(f, v, s[k].addr, s[k].size) \in LoadState
      OBVIOUS
    <2> QED
      BY ReadType DEF Section
  <1>2. StaysIn(G, 1..n, LoadState)
    BY <1>1 DEF StaysIn
  <1>3. load \in LoadState /\ n \in Nat
    OBVIOUS
  <1> HIDE DEF G
  <1>4. PICK h : RunsBy(h, n, LoadState, load, G)
    <2> DEFINE V == LoadState
    <2>1. StaysIn(G, 1..n, V) /\ load \in V
      BY <1>2, <1>3
    <2> HIDE DEF V
    <2>2. \E h : RunsBy(h, n, V, load, G)
      BY <1>3, <2>1, FoldRuns
    <2> QED
      BY <2>2 DEF V
  <1>5. ReadsAs(h, f, load, n, s)
    <2>1. \A T \in SUBSET (1..n) : T # {} =>
            h[T] = Read(f, h[T \ {Max(T)}], s[Max(T)].addr, s[Max(T)].size)
      BY <1>1, <1>4 DEF RunsBy
    <2>2. h = [T \in SUBSET (1..n) |-> h[T]]
      BY <1>4 DEF RunsBy
    <2> QED
      BY <1>4, <2>1, <2>2 DEF ReadsAs, RunsBy
  <1>6. ReadsAs(it, f, load, n, s)
    BY <1>5
  <1>7. ReadAll(f, load, s) = it[1..n]
    BY DEF ReadAll, FoldLeft, MapThenFoldSet, ReadsAs
  <1> HIDE DEF it
  <1>8. LargestFirst(it, n, LoadState, load, G)
    <2>1. it[{}] = load
      BY <1>6 DEF ReadsAs
    <2>2. ASSUME NEW T \in SUBSET (1..n), T # {}, it[T \ {Max(T)}] \in LoadState
          PROVE  it[T] = G[<<Max(T), it[T \ {Max(T)}]>>]
      <3>1. it[T] = Read(f, it[T \ {Max(T)}], s[Max(T)].addr, s[Max(T)].size)
        BY <1>6, <2>2 DEF ReadsAs
      <3>2. Max(T) \in 1..n
        BY <1>4, <2>2 DEF RunsBy
      <3> QED
        BY <1>1, <2>2, <3>1, <3>2
    <2> QED
      BY <2>1, <2>2 DEF LargestFirst
  <1>9. PICK st : Steps(st, n, LoadState, load, G) /\ st[n] = it[1..n]
    <2> DEFINE V == LoadState
    <2>1. StaysIn(G, 1..n, V) /\ load \in V /\ LargestFirst(it, n, V, load, G)
      BY <1>2, <1>3, <1>8
    <2> HIDE DEF V
    <2>2. \E st : Steps(st, n, V, load, G) /\ st[n] = it[1..n]
      BY <1>3, <2>1, FoldStages
    <2> QED
      BY <2>2 DEF V
  <1>10. \A k \in 1..n : k - 1 \in 0..n
    BY <1>3
  <1>11. \A k \in 1..n : st[k] = Read(f, st[k - 1], s[k].addr, s[k].size)
    BY <1>1, <1>9, <1>10 DEF Steps
  <1>12. st \in [0..n -> LoadState] /\ st[0] = load /\ ReadAll(f, load, s) = st[n]
    BY <1>7, <1>9 DEF Steps
  <1>13. ReadsStep(st, f, load, n, s)
    BY <1>11, <1>12 DEF ReadsStep
  <1> QED
    BY <1>12, <1>13

LoadsAs(it, f, load, n, s) ==
  it = [T \in SUBSET (1..n) |->
          IF T = {} THEN load ELSE LoadSection(f, it[T \ {Max(T)}], s[Max(T)])]

(* Loading them.                                                           *)
LEMMA LoadRuns ==
  ASSUME NEW f, f.size \in Nat, NEW load \in LoadState, NEW n \in Nat, NEW s \in [1..n -> Section]
  PROVE  \E st : LoadsStep(st, f, load, n, s) /\ LoadAll(f, load, s) = st[n]
  <1> DEFINE G == [p \in (1..n) \X LoadState |-> LoadSection(f, p[2], s[p[1]])]
             it == CHOOSE it : LoadsAs(it, f, load, n, s)
  <1>1. \A k \in 1..n, v \in LoadState :
           G[<<k, v>>] = LoadSection(f, v, s[k]) /\ G[<<k, v>>] \in LoadState
    <2> SUFFICES ASSUME NEW k \in 1..n, NEW v \in LoadState
                 PROVE  LoadSection(f, v, s[k]) \in LoadState
      OBVIOUS
    <2> QED
      BY LoadSectionType
  <1>2. StaysIn(G, 1..n, LoadState)
    BY <1>1 DEF StaysIn
  <1>3. load \in LoadState /\ n \in Nat
    OBVIOUS
  <1> HIDE DEF G
  <1>4. PICK h : RunsBy(h, n, LoadState, load, G)
    <2> DEFINE V == LoadState
    <2>1. StaysIn(G, 1..n, V) /\ load \in V
      BY <1>2, <1>3
    <2> HIDE DEF V
    <2>2. \E h : RunsBy(h, n, V, load, G)
      BY <1>3, <2>1, FoldRuns
    <2> QED
      BY <2>2 DEF V
  <1>5. LoadsAs(h, f, load, n, s)
    <2>1. \A T \in SUBSET (1..n) : T # {} =>
            h[T] = LoadSection(f, h[T \ {Max(T)}], s[Max(T)])
      BY <1>1, <1>4 DEF RunsBy
    <2>2. h = [T \in SUBSET (1..n) |-> h[T]]
      BY <1>4 DEF RunsBy
    <2> QED
      BY <1>4, <2>1, <2>2 DEF LoadsAs, RunsBy
  <1>6. LoadsAs(it, f, load, n, s)
    BY <1>5
  <1>7. LoadAll(f, load, s) = it[1..n]
    BY DEF LoadAll, FoldLeft, MapThenFoldSet, LoadsAs
  <1> HIDE DEF it
  <1>8. LargestFirst(it, n, LoadState, load, G)
    <2>1. it[{}] = load
      BY <1>6 DEF LoadsAs
    <2>2. ASSUME NEW T \in SUBSET (1..n), T # {}, it[T \ {Max(T)}] \in LoadState
          PROVE  it[T] = G[<<Max(T), it[T \ {Max(T)}]>>]
      <3>1. it[T] = LoadSection(f, it[T \ {Max(T)}], s[Max(T)])
        BY <1>6, <2>2 DEF LoadsAs
      <3>2. Max(T) \in 1..n
        BY <1>4, <2>2 DEF RunsBy
      <3> QED
        BY <1>1, <2>2, <3>1, <3>2
    <2> QED
      BY <2>1, <2>2 DEF LargestFirst
  <1>9. PICK st : Steps(st, n, LoadState, load, G) /\ st[n] = it[1..n]
    <2> DEFINE V == LoadState
    <2>1. StaysIn(G, 1..n, V) /\ load \in V /\ LargestFirst(it, n, V, load, G)
      BY <1>2, <1>3, <1>8
    <2> HIDE DEF V
    <2>2. \E st : Steps(st, n, V, load, G) /\ st[n] = it[1..n]
      BY <1>3, <2>1, FoldStages
    <2> QED
      BY <2>2 DEF V
  <1>10. \A k \in 1..n : k - 1 \in 0..n
    BY <1>3
  <1>11. \A k \in 1..n : st[k] = LoadSection(f, st[k - 1], s[k])
    BY <1>1, <1>9, <1>10 DEF Steps
  <1>12. st \in [0..n -> LoadState] /\ st[0] = load /\ LoadAll(f, load, s) = st[n]
    BY <1>7, <1>9 DEF Steps
  <1>13. LoadsStep(st, f, load, n, s)
    BY <1>11, <1>12 DEF LoadsStep
  <1> QED
    BY <1>12, <1>13

SizesAs(it, zero, n, s) ==
  it = [T \in SUBSET (1..n) |->
          IF T = {} THEN zero ELSE it[T \ {Max(T)}] + s[Max(T)].size]

(* Their sizes.                                                            *)
LEMMA SizeRuns ==
  ASSUME NEW zero, zero = 0, NEW n \in Nat, NEW s \in [1..n -> Section]
  PROVE  \E st : SizesStep(st, zero, n, s) /\ SizeOf(zero, s) = st[n]
  <1> DEFINE G == [p \in (1..n) \X Nat |-> p[2] + s[p[1]].size]
             it == CHOOSE it : SizesAs(it, zero, n, s)
  <1>1. \A k \in 1..n, v \in Nat :
           G[<<k, v>>] = v + s[k].size /\ G[<<k, v>>] \in Nat
    <2> SUFFICES ASSUME NEW k \in 1..n, NEW v \in Nat
                 PROVE  v + s[k].size \in Nat
      OBVIOUS
    <2> QED
      BY DEF Section
  <1>2. StaysIn(G, 1..n, Nat)
    BY <1>1 DEF StaysIn
  <1>3. zero \in Nat /\ n \in Nat
    OBVIOUS
  <1> HIDE DEF G
  <1>4. PICK h : RunsBy(h, n, Nat, zero, G)
    <2> DEFINE V == Nat
    <2>1. StaysIn(G, 1..n, V) /\ zero \in V
      BY <1>2, <1>3
    <2> HIDE DEF V
    <2>2. \E h : RunsBy(h, n, V, zero, G)
      BY <1>3, <2>1, FoldRuns
    <2> QED
      BY <2>2 DEF V
  <1>5. SizesAs(h, zero, n, s)
    <2>1. \A T \in SUBSET (1..n) : T # {} =>
            h[T] = h[T \ {Max(T)}] + s[Max(T)].size
      BY <1>1, <1>4 DEF RunsBy
    <2>2. h = [T \in SUBSET (1..n) |-> h[T]]
      BY <1>4 DEF RunsBy
    <2> QED
      BY <1>4, <2>1, <2>2 DEF SizesAs, RunsBy
  <1>6. SizesAs(it, zero, n, s)
    BY <1>5
  <1>7. SizeOf(zero, s) = it[1..n]
    BY DEF SizeOf, FoldLeft, MapThenFoldSet, SizesAs
  <1> HIDE DEF it
  <1>8. LargestFirst(it, n, Nat, zero, G)
    <2>1. it[{}] = zero
      BY <1>6 DEF SizesAs
    <2>2. ASSUME NEW T \in SUBSET (1..n), T # {}, it[T \ {Max(T)}] \in Nat
          PROVE  it[T] = G[<<Max(T), it[T \ {Max(T)}]>>]
      <3>1. it[T] = it[T \ {Max(T)}] + s[Max(T)].size
        BY <1>6, <2>2 DEF SizesAs
      <3>2. Max(T) \in 1..n
        BY <1>4, <2>2 DEF RunsBy
      <3> QED
        BY <1>1, <2>2, <3>1, <3>2
    <2> QED
      BY <2>1, <2>2 DEF LargestFirst
  <1>9. PICK st : Steps(st, n, Nat, zero, G) /\ st[n] = it[1..n]
    <2> DEFINE V == Nat
    <2>1. StaysIn(G, 1..n, V) /\ zero \in V /\ LargestFirst(it, n, V, zero, G)
      BY <1>2, <1>3, <1>8
    <2> HIDE DEF V
    <2>2. \E st : Steps(st, n, V, zero, G) /\ st[n] = it[1..n]
      BY <1>3, <2>1, FoldStages
    <2> QED
      BY <2>2 DEF V
  <1>10. \A k \in 1..n : k - 1 \in 0..n
    BY <1>3
  <1>11. \A k \in 1..n : st[k] = st[k - 1] + s[k].size
    BY <1>1, <1>9, <1>10 DEF Steps
  <1>12. st \in [0..n -> Nat] /\ st[0] = zero /\ SizeOf(zero, s) = st[n]
    BY <1>7, <1>9 DEF Steps
  <1>13. SizesStep(st, zero, n, s)
    BY <1>11, <1>12 DEF SizesStep
  <1> QED
    BY <1>12, <1>13

(* A part of a sequence.                                                   *)
LEMMA SubSeqIs ==
  ASSUME NEW S, NEW s \in Seq(S), NEW i \in 1..(Len(s)+1), NEW j \in 0..Len(s), i <= j + 1
  PROVE  /\ Len(SubSeq(s, i, j)) = j - i + 1 /\ j - i + 1 \in Nat
         /\ DOMAIN SubSeq(s, i, j) = 1..(j - i + 1)
         /\ SubSeq(s, i, j) \in [1..(j - i + 1) -> S]
         /\ \A k \in 1..(j - i + 1) : SubSeq(s, i, j)[k] = s[i + k - 1] /\ i + k - 1 \in 1..Len(s)
  <1> DEFINE sub == SubSeq(s, i, j)
             n == j - i + 1
  <1>1. Len(sub) = n /\ n \in Nat /\ DOMAIN sub = 1..n
    OBVIOUS
  <1>2. \A k \in 1..n : sub[k] = s[i + k - 1] /\ i + k - 1 \in 1..Len(s)
    OBVIOUS
  <1>3. sub \in Seq(S)
    OBVIOUS
  <1> HIDE DEF sub, n
  <1>4. sub \in [1..n -> S]
    BY <1>1, <1>3
  <1> QED
    BY <1>1, <1>2, <1>4 DEF sub, n

(* Reading one section.                                                    *)
HasRead(load, addr, size, got) ==
  /\ got \in LoadState /\ ~got.fail /\ ~got.done /\ got.pos = load.pos + size
  /\ got.data = [a \in Addresses |-> IF a \in addr..(addr + size - 1)
                                    THEN Word(load.pos + a - addr) ELSE load.data[a]]

(* When the file holds what is asked for.                                  *)
LEMMA ReadFits ==
  ASSUME NEW f, f.size \in Nat, NEW load \in LoadState, NEW addr \in Nat, NEW size \in Nat,
         load.pos + size <= f.size, ~load.fail, ~load.done
  PROVE  HasRead(load, addr, size, Read(f, load, addr, size))
  <1>1. load.pos \in Nat
    BY DEF LoadState
  <1>2. Left(f, load) = f.size - load.pos
    BY <1>1 DEF Left
  <1>3. Left(f, load) >= size /\ ~(Left(f, load) < size)
    BY <1>1, <1>2
  <1> DEFINE new  == Read(f, load, addr, size)
             data_ == [a \in Addresses |-> IF a \in addr..(addr + size - 1)
                                           THEN Word(load.pos + a - addr) ELSE load.data[a]]
  <1>4. new = [load EXCEPT !.data = data_, !.pos = @ + size, !.fail = @ \/ size < size]
    <2>1. size <= Left(f, load)
      BY <1>1, <1>3
    <2> QED
      BY <2>1 DEF Read
  <1>5. ~(size < size)
    OBVIOUS
  <1>6. new \in LoadState
    BY ReadType
  <1> HIDE DEF data_
  <1>7. new.data = data_ /\ new.pos = load.pos + size /\ new.done = load.done
    BY <1>4 DEF LoadState
  <1>8. new.fail <=> load.fail \/ size < size
    BY <1>4 DEF LoadState
  <1> HIDE DEF new
  <1>9. ~new.fail /\ ~new.done
    BY <1>5, <1>7, <1>8
  <1> QED
    BY <1>6, <1>7, <1>9 DEF new, data_, HasRead

-----------------------------------------------------------------------------
(* The image.                                                              *)

(* The sections of an executable, those ahead of its text and those behind *)
(* it.                                                                     *)
LEMMA FileShape ==
  ASSUME NEW f, Loadable(f)
  PROVE  LET t == TextIndex(f)
             n == Len(f.sections)
         IN  /\ t \in 1..(n - 1) /\ n \in Nat /\ f.size \in Nat
             /\ f.sections \in [1..n -> Section] /\ DOMAIN f.sections = 1..n
             /\ t - 1 \in Nat /\ SubSeq(f.sections, 1, t - 1) \in [1..(t - 1) -> Section]
             /\ n - t \in Nat /\ SectionsBehind(f) \in [1..(n - t) -> Section]
             /\ DOMAIN SectionsBehind(f) = 1..(n - t) /\ Len(SectionsBehind(f)) = n - t
             /\ \A k \in 1..(n - t) : SectionsBehind(f)[k] = f.sections[t + k] /\ t + k \in 1..n
             /\ f.sections[t] \in Section
  <1> DEFINE t == TextIndex(f)
             n == Len(f.sections)
  <1>1. f.sections \in Seq(Section) /\ f.size \in Nat /\ t \in 1..(n - 1) /\ n \in Nat
    BY DEF Loadable, WellFormed, File
  <1>2. SectionsBehind(f) = SubSeq(f.sections, t + 1, n)
    BY DEF SectionsBehind
  <1> HIDE DEF t
  <1> DEFINE m == n
  <1>3. t + 1 \in 1..(n+1) /\ m \in 0..n /\ t + 1 <= m + 1 /\ t - 1 \in 0..n /\ 1 \in 1..(n+1)
          /\ 1 <= (t - 1) + 1
    BY <1>1
  <1>4. /\ Len(SubSeq(f.sections, t + 1, n)) = n - (t + 1) + 1
        /\ DOMAIN SubSeq(f.sections, t + 1, n) = 1..(n - (t + 1) + 1)
        /\ SubSeq(f.sections, t + 1, n) \in [1..(n - (t + 1) + 1) -> Section]
        /\ \A k \in 1..(n - (t + 1) + 1) :
             SubSeq(f.sections, t + 1, n)[k] = f.sections[(t + 1) + k - 1]
    BY <1>1, <1>3, SubSeqIs
  <1>5. SubSeq(f.sections, 1, t - 1) \in [1..((t - 1) - 1 + 1) -> Section]
    BY <1>1, <1>3, SubSeqIs
  <1>6. n - (t + 1) + 1 = n - t /\ (t - 1) - 1 + 1 = t - 1 /\ t - 1 \in Nat /\ n - t \in Nat
    BY <1>1
  <1>7. \A k \in 1..(n - t) : (t + 1) + k - 1 = t + k /\ t + k \in 1..n
    BY <1>1
  <1>8. f.sections \in [1..n -> Section] /\ DOMAIN f.sections = 1..n /\ t \in 1..n
    BY <1>1
  <1>9. f.sections[t] \in Section
    BY <1>8
  <1> QED
    BY <1>1, <1>2, <1>4, <1>5, <1>6, <1>7, <1>8, <1>9 DEF t

(* What loading makes of an image is one.                                  *)
LEMMA LoadedType ==
  ASSUME NEW f, Loadable(f), NEW d \in [Addresses -> Nat]
  PROVE  /\ getTextSection(f, d) \in LoadState
         /\ getDataSections(f, getTextSection(f, d)).data \in [Addresses -> Nat]
  <1> DEFINE t == TextIndex(f)
             n == Len(f.sections)
             text == f.sections[t]
             load == getTextSection(f, d)
             ahead == SubSeq(f.sections, 1, t - 1)
             behind == SectionsBehind(f)
             before == ReadBefore(f, load)
             header == ReadHeader(f, before)
  <1>1. /\ text \in Section /\ f.size \in Nat
        /\ t - 1 \in Nat /\ ahead \in [1..(t - 1) -> Section]
        /\ n - t \in Nat /\ behind \in [1..(n - t) -> Section]
    BY FileShape
  <1>2. load \in LoadState
    BY <1>1 DEF getTextSection, LoadState, Section
  <1>3. before \in LoadState
    <2>1. before = ReadAll(f, load, ahead)
      BY DEF ReadBefore, ReadAll
    <2> DEFINE k == t - 1
    <2>2. k \in Nat /\ k \in 0..k /\ ahead \in [1..k -> Section]
      BY <1>1
    <2> HIDE DEF load, ahead, before, k
    <2>3. PICK st : ReadsStep(st, f, load, k, ahead) /\ ReadAll(f, load, ahead) = st[k]
      BY <1>1, <1>2, <2>2, ReadRuns
    <2> QED
      BY <2>1, <2>2, <2>3 DEF ReadsStep
  <1>4. header \in LoadState
    <2>1. Seek(before, 0) \in LoadState
      BY <1>3 DEF Seek, LoadState
    <2>2. HeaderAddr \in Nat /\ HeaderSize \in Nat
      BY ImageAssumption
    <2> HIDE DEF before
    <2> QED
      BY <1>1, <2>1, <2>2, ReadType DEF ReadHeader
  <1>5. ReadBehind(f, header) \in LoadState
    <2>1. ReadBehind(f, header) = LoadAll(f, header, behind)
      BY DEF ReadBehind, LoadAll
    <2> DEFINE k == n - t
    <2>2. k \in Nat /\ k \in 0..k /\ behind \in [1..k -> Section]
      BY <1>1
    <2> HIDE DEF header, behind, k
    <2>3. PICK st : LoadsStep(st, f, header, k, behind) /\ LoadAll(f, header, behind) = st[k]
      BY <1>1, <1>4, <2>2, LoadRuns
    <2> QED
      BY <2>1, <2>2, <2>3 DEF LoadsStep
  <1> QED
    BY <1>2, <1>5 DEF getDataSections, LoadState

(* Sums of sizes grow.                                                     *)
LEMMA SizesGrow ==
  ASSUME NEW n \in Nat, NEW m \in [0..n -> Nat], NEW s \in [1..n -> Section],
         \A k \in 1..n : m[k] = m[k - 1] + s[k].size
  PROVE  \A k \in 0..n : m[k] <= m[n]
  <1> DEFINE P == {k \in 0..n : \A j \in 0..k : m[j] <= m[k]}
  <1>1. 0 \in P
    OBVIOUS
  <1>2. ASSUME NEW k \in 1..n, k - 1 \in P PROVE k \in P
    <2>1. s[k].size \in Nat
      BY DEF Section
    <2>2. m[k] \in Nat /\ m[k - 1] \in Nat /\ m[k] = m[k - 1] + s[k].size
      BY <1>2
    <2>3. m[k - 1] <= m[k]
      BY <2>1, <2>2
    <2>4. ASSUME NEW j \in 0..k PROVE m[j] <= m[k]
      <3>1. CASE j = k
        BY <2>2, <3>1
      <3>2. CASE j # k
        <4>1. j \in 0..(k - 1) /\ m[j] \in Nat
          BY <3>2
        <4>2. m[j] <= m[k - 1]
          BY <1>2, <4>1
        <4> QED
          BY <2>2, <2>3, <4>1, <4>2
      <3> QED
        BY <3>1, <3>2
    <2> QED
      BY <2>4
  <1>3. 0..n \subseteq P
    <2> HIDE DEF P
    <2> QED
      BY <1>1, <1>2, UpTo
  <1>4. n \in P
    BY <1>3
  <1> QED
    BY <1>4

(* A file that holds what is read ahead of its text is read there, and the *)
(* stream does not fail.                                                   *)
LEMMA AheadReads ==
  ASSUME NEW f, Loadable(f), ReadsWhole(f), NEW d \in [Addresses -> Nat]
  PROVE  LET before == ReadBefore(f, getTextSection(f, d))
         IN  before \in LoadState /\ ~before.fail /\ ~before.done
  <1> DEFINE t == TextIndex(f)
             n == t - 1
             text == f.sections[t]
             load == getTextSection(f, d)
             ahead == SubSeq(f.sections, 1, t - 1)
             before == ReadBefore(f, load)
             zero == 0
             sum == SizeOf(zero, ahead)
  <1>1. text \in Section /\ f.size \in Nat /\ n \in Nat /\ ahead \in [1..n -> Section]
    BY FileShape
  <1>2. /\ load \in LoadState /\ load.fail = FALSE /\ load.done = FALSE
        /\ load.pos = text.offset + text.size
    BY LoadedType DEF getTextSection
  <1>3. text.offset + text.size + sum <= f.size
    BY DEF ReadsWhole, SizeOf
  <1>4. before = ReadAll(f, load, ahead)
    BY DEF ReadBefore, ReadAll
  <1>5. load.pos \in Nat /\ text.offset \in Nat /\ text.size \in Nat
    BY <1>1, <1>2 DEF LoadState, Section
  <1>6. zero = 0
    OBVIOUS
  <1> HIDE DEF n, load, ahead, zero, before
  <1>70. PICK m : SizesStep(m, zero, n, ahead) /\ SizeOf(zero, ahead) = m[n]
    BY <1>1, <1>6, SizeRuns
  <1>7. /\ m \in [0..n -> Nat] /\ m[0] = zero
        /\ \A k \in 1..n : m[k] = m[k - 1] + ahead[k].size
        /\ sum = m[n]
    BY <1>70 DEF SizesStep
  <1> HIDE DEF sum, text
  <1>8. \A k \in 0..n : m[k] <= m[n] /\ m[k] \in Nat
    BY <1>1, <1>7, SizesGrow
  <1>90. PICK st : ReadsStep(st, f, load, n, ahead) /\ ReadAll(f, load, ahead) = st[n]
    BY <1>1, <1>2, ReadRuns
  <1>9. /\ st \in [0..n -> LoadState] /\ st[0] = load
        /\ \A k \in 1..n : st[k] = Read(f, st[k - 1], ahead[k].addr, ahead[k].size)
        /\ before = st[n]
    BY <1>4, <1>90 DEF ReadsStep
  <1> DEFINE P == {k \in 0..n : ~st[k].fail /\ ~st[k].done /\ st[k].pos = load.pos + m[k]}
  <1>10. 0 \in P
    BY <1>1, <1>2, <1>5, <1>6, <1>7, <1>9
  <1>11. ASSUME NEW k \in 1..n, k - 1 \in P PROVE k \in P
    <2> DEFINE old == st[k - 1]
               s == ahead[k]
    <2>1. /\ old \in LoadState /\ ~old.fail /\ ~old.done /\ old.pos = load.pos + m[k - 1]
          /\ s \in Section /\ m[k] = m[k - 1] + s.size /\ m[k] <= m[n] /\ m[k - 1] \in Nat
          /\ m[k] \in Nat /\ k \in 0..n /\ m[n] \in Nat
      BY <1>1, <1>7, <1>8, <1>9, <1>11
    <2>2. s.addr \in Nat /\ s.size \in Nat
      BY <2>1 DEF Section
    <2>3. st[k] = Read(f, old, s.addr, s.size)
      BY <1>9
    <2> HIDE DEF old, s
    <2>40. old.pos \in Nat /\ f.size \in Nat
      BY <1>1, <2>1 DEF LoadState
    <2>41. load.pos + m[n] <= f.size
      BY <1>2, <1>3, <1>7
    <2>42. load.pos + m[k] <= f.size
      BY <1>5, <2>1, <2>40, <2>41
    <2>4. old.pos + s.size = load.pos + m[k]
      BY <1>5, <2>1, <2>2
    <2>5. old.pos + s.size <= f.size
      BY <2>4, <2>42
    <2> DEFINE addr == s.addr
               size == s.size
    <2>6. addr \in Nat /\ size \in Nat /\ old.pos + size <= f.size
      BY <2>2, <2>5
    <2> HIDE DEF addr, size
    <2>60. HasRead(old, addr, size, Read(f, old, addr, size))
      <3>1. /\ f.size \in Nat /\ old \in LoadState /\ ~old.fail /\ ~old.done
            /\ addr \in Nat /\ size \in Nat /\ old.pos + size <= f.size
        BY <1>1, <2>1, <2>6
      <3> QED
        BY ONLY <3>1, ReadFits
    <2>7. ~st[k].fail /\ ~st[k].done /\ st[k].pos = old.pos + s.size
      BY <2>3, <2>60 DEF addr, size, HasRead
    <2> QED
      BY <2>1, <2>4, <2>7
  <1>12. 0..n \subseteq P
    <2> HIDE DEF P
    <2> QED
      BY <1>1, <1>10, <1>11, UpTo
  <1>13. n \in P /\ n \in 0..n
    BY <1>1, <1>12
  <1> QED
    BY <1>9, <1>13 DEF before, load, n

(* What the section s says of the word at a.                               *)
SectionWord(s, a) == IF s.name \in ZeroedSections THEN Zero ELSE Word(s.offset + a - s.addr)

(* What comes last of the first k sections counts.                         *)
Shows(image, behind, k) ==
  \A a \in Addresses, j \in 1..k :
    Covers(behind[j], a) /\ (\A i \in (j + 1)..k : ~Covers(behind[i], a))
      => image[a] = SectionWord(behind[j], a)

(* Where it covers the image a section is loaded, and nowhere else.        *)
LEMMA SectionLoads ==
  ASSUME NEW f, f.size \in Nat, NEW load \in LoadState, ~load.fail, ~load.done,
         NEW s \in Section,
         s.name \notin ZeroedSections => s.offset + s.size <= f.size
  PROVE  LET new == LoadSection(f, load, s)
         IN  /\ new \in LoadState /\ ~new.fail /\ ~new.done
             /\ \A a \in Addresses : new.data[a] = IF Covers(s, a) THEN SectionWord(s, a)
                                                                 ELSE load.data[a]
  <1> DEFINE new == LoadSection(f, load, s)
  <1>0. new \in LoadState /\ s.addr \in Nat /\ s.offset \in Nat /\ s.size \in Nat
    BY LoadSectionType DEF Section
  <1>1. CASE s.addr = 0
    <2>0. load.done \/ s.addr = 0
      BY <1>1
    <2>1. new = load
      BY <2>0 DEF LoadSection
    <2> QED
      BY <1>0, <1>1, <2>1 DEF Covers
  <1>2. CASE s.addr # 0 /\ s.name \in ZeroedSections
    <2>1. new = Cleared(load, s)
      BY <1>2 DEF LoadSection
    <2>2. /\ new.fail = load.fail /\ new.done = load.done
          /\ new.data = [a \in Addresses |->
                           IF a \in s.addr..(s.addr + s.size - 1)
                           THEN Zero ELSE load.data[a]]
      BY <2>1 DEF Cleared, LoadState
    <2> QED
      BY <1>0, <1>2, <2>2 DEF Covers, SectionWord
  <1>3. CASE s.addr # 0 /\ s.name \notin ZeroedSections
    <2> DEFINE at == Seek(load, s.offset)
               read == Read(f, at, s.addr, s.size)
    <2>1. new = [read EXCEPT !.done = read.fail]
      BY <1>3 DEF LoadSection, ReadSection
    <2>2. /\ at \in LoadState /\ at.pos = s.offset /\ ~at.fail /\ ~at.done
          /\ at.data = load.data
      BY <1>0 DEF Seek, LoadState
    <2>3. s.offset + s.size <= f.size
      BY <1>3
    <2> HIDE DEF at
    <2>6. /\ read \in LoadState /\ ~read.fail
          /\ read.data = [a \in Addresses |-> IF a \in s.addr..(s.addr + s.size - 1)
                                              THEN Word(at.pos + a - s.addr) ELSE at.data[a]]
      <3> DEFINE addr == s.addr
                 size == s.size
      <3>1. addr \in Nat /\ size \in Nat /\ at.pos + size <= f.size
        BY <1>0, <2>2, <2>3
      <3> HIDE DEF addr, size
      <3>2. HasRead(at, addr, size, Read(f, at, addr, size))
        BY <2>2, <3>1, ReadFits
      <3> QED
        BY <3>2 DEF addr, size, HasRead
    <2> HIDE DEF read
    <2>8. new.data = read.data /\ new.fail = read.fail /\ new.done = read.fail
      BY <2>1, <2>6 DEF LoadState
    <2> QED
      BY <1>0, <1>3, <2>2, <2>6, <2>8 DEF Covers, SectionWord
  <1> QED
    BY <1>1, <1>2, <1>3

(* The sections behind the text, one after the other.                      *)
LEMMA BehindShows ==
  ASSUME NEW f, f.size \in Nat, NEW header \in LoadState, ~header.fail, ~header.done,
         NEW n \in Nat, NEW behind \in [1..n -> Section],
         \A k \in 1..n : behind[k].name \notin ZeroedSections =>
                           behind[k].offset + behind[k].size <= f.size
  PROVE  Shows(LoadAll(f, header, behind).data, behind, n)
  <1>1. PICK st : LoadsStep(st, f, header, n, behind) /\ LoadAll(f, header, behind) = st[n]
    BY LoadRuns
  <1>2. /\ st \in [0..n -> LoadState] /\ st[0] = header
        /\ \A k \in 1..n : st[k] = LoadSection(f, st[k - 1], behind[k])
    BY <1>1 DEF LoadsStep
  <1> DEFINE P == {k \in 0..n : ~st[k].fail /\ ~st[k].done /\ Shows(st[k].data, behind, k)}
  <1>3. 0 \in P
    <2>1. 1..0 = {} /\ 0 \in 0..n
      OBVIOUS
    <2>2. Shows(st[0].data, behind, 0)
      BY <2>1 DEF Shows
    <2> QED
      BY <1>2, <2>1, <2>2
  <1>4. ASSUME NEW k \in 1..n, k - 1 \in P PROVE k \in P
    <2> DEFINE old == st[k - 1]
               s   == behind[k]
               new == LoadSection(f, old, s)
               j0  == k - 1
    <2>1. /\ old \in LoadState /\ ~old.fail /\ ~old.done /\ Shows(old.data, behind, j0)
          /\ s \in Section /\ (s.name \notin ZeroedSections => s.offset + s.size <= f.size)
      BY <1>2, <1>4
    <2>2. st[k] = new /\ k \in 0..n
      BY <1>2
    <2> HIDE DEF old, j0
    <2>3. /\ ~new.fail /\ ~new.done
          /\ \A a \in Addresses : new.data[a] = IF Covers(s, a) THEN SectionWord(s, a)
                                                ELSE old.data[a]
      <3> HIDE DEF s
      <3> QED
        BY <2>1, SectionLoads
    <2> HIDE DEF new
    <2>4. ASSUME NEW a \in Addresses, NEW j \in 1..k, Covers(behind[j], a),
                 \A i \in (j + 1)..k : ~Covers(behind[i], a)
          PROVE  new.data[a] = SectionWord(behind[j], a)
      <3>1. CASE j = k
        BY <2>3, <2>4, <3>1
      <3>2. CASE j # k
        <4>1. j \in 1..j0 /\ k \in (j + 1)..k /\ \A i \in (j + 1)..j0 : i \in (j + 1)..k
          BY <3>2 DEF j0
        <4>2. ~Covers(s, a)
          BY <2>4, <4>1
        <4>3. old.data[a] = SectionWord(behind[j], a)
          BY <2>1, <2>4, <4>1 DEF Shows
        <4> QED
          BY <2>3, <4>2, <4>3
      <3> QED
        BY <3>1, <3>2
    <2>5. Shows(new.data, behind, k)
      BY <2>4 DEF Shows
    <2> QED
      BY <2>2, <2>3, <2>5
  <1>5. 0..n \subseteq P
    <2> HIDE DEF P
    <2> QED
      BY <1>3, <1>4, UpTo
  <1>6. n \in P
    BY <1>5
  <1> QED
    BY <1>1, <1>6

(* The last of the sections that have an address.                          *)
LEMMA LastCovers ==
  ASSUME NEW n \in Nat, NEW behind, NEW a, NEW i \in 1..n, Covers(behind[i], a)
  PROVE  \E j \in 1..n : Covers(behind[j], a) /\ \A k \in (j + 1)..n : ~Covers(behind[k], a)
  <1> DEFINE T == {k \in 1..n : Covers(behind[k], a)}
  <1>1. T \in SUBSET (1..n) /\ T # {}
    OBVIOUS
  <1> DEFINE m == Max(T)
  <1>2. m \in T /\ \A x \in T : m >= x
    <2> HIDE DEF T
    <2> QED
      BY <1>1, MaxExists
  <1>3. m \in 1..n /\ Covers(behind[m], a)
    BY <1>2
  <1>4. ASSUME NEW k \in (m + 1)..n, Covers(behind[k], a) PROVE FALSE
    <2>1. k \in 1..n /\ ~(m >= k)
      <3> HIDE DEF m
      <3> QED BY <1>3
    <2> QED
      BY <1>2, <1>4, <2>1
  <1> QED
    BY <1>3, <1>4

(* A target that reads whole shows what its file says, on whatever image   *)
(* it is loaded.                                                           *)
LEMMA ImageLoads ==
  ASSUME NEW f, Loadable(f), ReadsWhole(f), NEW d \in [Addresses -> Nat],
         NEW a \in Addresses,
         NEW i \in DOMAIN SectionsBehind(f), Covers(SectionsBehind(f)[i], a)
  PROVE  getDataSections(f, getTextSection(f, d)).data[a] = FileWord(f, a)
  <1> DEFINE t == TextIndex(f)
             n == Len(f.sections) - t
             behind == SectionsBehind(f)
             before == ReadBefore(f, getTextSection(f, d))
             header == ReadHeader(f, before)
  <1>1. /\ n \in Nat /\ f.size \in Nat /\ behind \in [1..n -> Section]
        /\ DOMAIN behind = 1..n /\ Len(behind) = n
        /\ \A k \in 1..n : behind[k] = f.sections[t + k] /\ t + k \in DOMAIN f.sections
    BY FileShape
  <1>2. before \in LoadState /\ ~before.fail /\ ~before.done
    BY AheadReads
  <1>3. header \in LoadState /\ ~header.fail /\ ~header.done
    <2> DEFINE at == Seek(before, 0)
               addr == HeaderAddr
               size == HeaderSize
    <2>1. /\ at \in LoadState /\ ~at.fail /\ ~at.done /\ at.pos = 0
      BY <1>2 DEF Seek, LoadState
    <2>2. addr \in Nat /\ size \in Nat /\ size <= f.size
      BY ImageAssumption DEF ReadsWhole
    <2>3. at.pos + size <= f.size
      BY <2>1, <2>2
    <2>4. header = Read(f, at, addr, size)
      BY DEF ReadHeader
    <2> HIDE DEF at, addr, size, header
    <2>5. HasRead(at, addr, size, Read(f, at, addr, size))
      BY <1>1, <2>1, <2>2, <2>3, ReadFits
    <2> QED
      BY <2>4, <2>5 DEF HasRead
  <1>4. \A k \in 1..n : behind[k].name \notin ZeroedSections =>
                          behind[k].offset + behind[k].size <= f.size
    BY <1>1 DEF ReadsWhole
  <1>5. getDataSections(f, getTextSection(f, d)) = LoadAll(f, header, behind)
    BY DEF getDataSections, ReadBehind, LoadAll
  <1> DEFINE image == getDataSections(f, getTextSection(f, d)).data
  <1> HIDE DEF n, behind, header
  <1>6. Shows(LoadAll(f, header, behind).data, behind, n)
    BY <1>1, <1>3, <1>4, BehindShows
  <1>7. PICK j \in 1..n : /\ Covers(behind[j], a)
                          /\ \A k \in (j + 1)..n : ~Covers(behind[k], a)
    <2>1. i \in 1..n /\ Covers(behind[i], a)
      BY <1>1 DEF behind
    <2> QED
      BY <1>1, <2>1, LastCovers
  <1>8. image[a] = SectionWord(behind[j], a)
    BY <1>5, <1>6, <1>7 DEF Shows
  <1>9. LastCovering(f, a) = behind[j]
    <2> DEFINE Is(s) == /\ Covers(s, a)
                        /\ \A k \in 1..n : Covers(behind[k], a) =>
                             \E m \in k..n : behind[m] = s
               S == {behind[k] : k \in 1..n}
    <2>1. LastCovering(f, a) = CHOOSE s \in S : Is(s)
      BY <1>1 DEF LastCovering, behind
    <2>2. behind[j] \in S /\ Is(behind[j])
      <3>1. ASSUME NEW k \in 1..n, Covers(behind[k], a) PROVE j \in k..n
        <4>1. k \notin (j + 1)..n
          BY <1>7, <3>1
        <4> QED
          BY <1>1, <1>7, <4>1
      <3> QED
        BY <1>7, <3>1
    <2>3. ASSUME NEW s \in S, Is(s) PROVE s = behind[j]
      <3>1. PICK m \in j..n : behind[m] = s
        BY <1>7, <2>3
      <3>2. m \notin (j + 1)..n
        BY <1>7, <2>3, <3>1
      <3>3. m = j
        BY <1>1, <1>7, <3>1, <3>2
      <3> QED
        BY <3>1, <3>3
    <2> HIDE DEF Is, S
    <2> QED
      BY <2>1, <2>2, <2>3
  <1> QED
    BY <1>8, <1>9 DEF FileWord, SectionWord, image

-----------------------------------------------------------------------------

(* The image is what loading the target has made of the one before it.     *)
ImageInv ==
  /\ data \in [Addresses -> Nat]
  /\ target # NoFile =>
       \E d \in [Addresses -> Nat] : data = getDataSections(target, getTextSection(target, d)).data

(* The image is empty before the first target.                             *)
LEMMA ImageInit == Init => ImageInv
  BY DEF Init, ApiInit, ImageInv, EmptyImage, Zero

(* Only setTarget changes it.                                              *)
LEMMA ImageNext == ElfInv /\ ImageInv /\ [Next]_vars => ImageInv'
  <1> SUFFICES ASSUME ElfInv, ImageInv, [Next]_vars PROVE ImageInv'
    OBVIOUS
  <1>1. CASE Setup
    <2>1. PICK c \in calls :
            \/ addInstrumentBB(c)  \/ addInstrumentInst(c) \/ addInstrumentInstBounded(c)
            \/ registerArgs(c)     \/ setTarget(c)         \/ setTarget_Throws(c)
            \/ addCFGGeneration(c) \/ setExitRoutine(c)
      BY <1>1 DEF Setup, ApiStep
    <2>2. CASE setTarget(c)
      <3> DEFINE f == c.file
      <3>1. /\ target' = f /\ c \in ApiCall /\ c.call = "setTarget" /\ Opens(f)
            /\ WellFormed(f)
            /\ data' = getDataSections(f, getTextSection(f, data)).data
        BY <2>2 DEF setTarget, Making, ElfInv
      <3>2. Loadable(f)
        BY <3>1, CallFile DEF Loadable, Opens
      <3> HIDE DEF f
      <3>3. data \in [Addresses -> Nat]
        BY DEF ImageInv
      <3>4. getDataSections(f, getTextSection(f, data)).data \in [Addresses -> Nat]
        BY <3>2, <3>3, LoadedType
      <3> QED
        BY <3>1, <3>3, <3>4 DEF ImageInv
    <2>3. CASE ~setTarget(c)
      <3>1. target' = target /\ data' = data
        BY <2>1, <2>3
           DEF addInstrumentBB, addInstrumentInst, addInstrumentInstBounded,
               registerArgs, setTarget_Throws, addCFGGeneration, setExitRoutine
      <3> QED
        BY <3>1 DEF ImageInv
    <2> QED
      BY <2>2, <2>3
  <1>2. CASE ~Setup
    <2>1. target' = target /\ data' = data
      BY <1>2 DEF Next, vars, apiVars, runInstrument, runInstrument_NoTarget, Fails, Init_Guest,
                  Init_Crash, Instrument, Instrument_Lost, Stub_Enter, Stub_GiveUp, Stub_Exit,
                  Rest
    <2> QED
      BY <2>1 DEF ImageInv
  <1> QED
    BY <1>1, <1>2

(* What loading has made of any image is what the file says.               *)
LEMMA ImageShows == ElfInv /\ ImageInv => ImageMatchesFile
  <1> SUFFICES ASSUME ElfInv, ImageInv, target # NoFile, ReadsWhole(target),
                      NEW a \in Addresses,
                      NEW i \in DOMAIN SectionsBehind(target),
                      Covers(SectionsBehind(target)[i], a)
               PROVE  data[a] = FileWord(target, a)
    BY DEF ImageMatchesFile
  <1>1. PICK d \in [Addresses -> Nat] :
          data = getDataSections(target, getTextSection(target, d)).data
    BY DEF ImageInv
  <1>2. Loadable(target)
    BY DEF ElfInv
  <1>3. getDataSections(target, getTextSection(target, d)).data[a] = FileWord(target, a)
    BY <1>2, ImageLoads
  <1> QED
    BY <1>1, <1>3

(* elf_reader.cpp: the guest finds the sections behind its text as its     *)
(* file has them, whatever was loaded before and however often.            *)
THEOREM TargetIsLoaded == Spec => []ImageMatchesFile
  <1>1. Init => ElfInv /\ ImageInv
    BY ElfInit, ImageInit
  <1>2. ElfInv /\ ImageInv /\ [Next]_vars => (ElfInv /\ ImageInv)'
    BY ElfNext, ImageNext
  <1> QED
    BY <1>1, <1>2, ImageShows, PTL DEF Spec

-----------------------------------------------------------------------------
(* The stack.                                                              *)
Cells == 0..(StackWords - 1)
CopyState == [stack : [Cells -> Int], stEnd : Nat, done : BOOLEAN]

PushIs(copy, w, new) ==
  /\ new \in CopyState /\ new.stEnd = copy.stEnd + 1 /\ new.done = copy.done
  /\ \A n \in Cells : new.stack[n] = IF n = copy.stEnd THEN w ELSE copy.stack[n]

(* A word pushed goes where the copy stands, and moves it on.              *)
LEMMA PushType ==
  ASSUME NEW copy \in CopyState, NEW w \in Int
  PROVE  PushIs(copy, w, Push(copy, w)) /\ Push(copy, w) \in CopyState
  <1> DEFINE new == [n \in Cells |-> IF n = copy.stEnd THEN w ELSE copy.stack[n]]
             end == copy.stEnd + 1
  <1>1. new \in [Cells -> Int] /\ end \in Nat /\ copy.done \in BOOLEAN
    BY DEF CopyState
  <1>2. Push(copy, w) = [stack |-> new, stEnd |-> end, done |-> copy.done]
    <2>1. DOMAIN copy.stack = Cells
      BY DEF CopyState
    <2>2. Push(copy, w) = [copy EXCEPT !.stack = new, !.stEnd = @ + 1]
      BY <2>1 DEF Push
    <2> HIDE DEF new
    <2> QED
      BY <2>2 DEF CopyState
  <1>3. \A n \in Cells : new[n] = IF n = copy.stEnd THEN w ELSE copy.stack[n]
    OBVIOUS
  <1> HIDE DEF new
  <1> QED
    BY <1>1, <1>2, <1>3 DEF CopyState, PushIs

(* The folds of the copy by name.                                          *)
ArgvFold(copy, s) == FoldLeft(LAMBDA c, i : Push(c, c.stack[ArgvAt + i - 1]), copy, s)
EnvpFold(at, copy, s) ==
  FoldLeft(LAMBDA c, i : IF c.done \/ c.stack[at + i] = NULL
                         THEN [c EXCEPT !.done = TRUE] ELSE Push(c, c.stack[at + i]), copy, s)
AuxvFold(x, copy, s) ==
  FoldLeft(LAMBDA c, t : Push(Push(c, t), IF t = AT_EXECFN THEN x ELSE AuxValue), copy, s)

PushesStep(st, copy, n, s) ==
  /\ st \in [0..n -> CopyState] /\ st[0] = copy
  /\ \A k \in 1..n : st[k] = Push(st[k - 1], s[k])
ArgvsStep(st, copy, n, s) ==
  /\ st \in [0..n -> CopyState] /\ st[0] = copy
  /\ \A k \in 1..n : st[k] = Push(st[k - 1], st[k - 1].stack[ArgvAt + s[k] - 1])
EnvpWord(at, c, i) == IF c.done \/ c.stack[at + i] = NULL
                      THEN [c EXCEPT !.done = TRUE] ELSE Push(c, c.stack[at + i])
EnvpsStep(st, at, copy, n, s) ==
  /\ st \in [0..n -> CopyState] /\ st[0] = copy
  /\ \A k \in 1..n : st[k] = EnvpWord(at, st[k - 1], s[k])
AuxvsStep(st, x, copy, n, s) ==
  /\ st \in [0..n -> CopyState] /\ st[0] = copy
  /\ \A k \in 1..n : st[k] = Push(Push(st[k - 1], s[k]), IF s[k] = AT_EXECFN THEN x ELSE AuxValue)

(* A step of copying the environment.                                      *)
LEMMA EnvpWordType ==
  ASSUME NEW at, NEW c \in CopyState, NEW i, at + i \in Cells
  PROVE  EnvpWord(at, c, i) \in CopyState
  <1>1. c.stack[at + i] \in Int
    BY DEF CopyState
  <1>2. [c EXCEPT !.done = TRUE] \in CopyState
    BY DEF CopyState
  <1> QED
    BY <1>1, <1>2, PushType DEF EnvpWord

PushesAs(it, copy, n, s) ==
  it = [T \in SUBSET (1..n) |->
          IF T = {} THEN copy ELSE Push(it[T \ {Max(T)}], s[Max(T)])]

(* Pushing the words of s.                                                 *)
LEMMA PushRuns ==
  ASSUME NEW copy \in CopyState, NEW n \in Nat, NEW s \in [1..n -> Int]
  PROVE  \E st : PushesStep(st, copy, n, s) /\ PushAll(copy, s) = st[n]
  <1> DEFINE G == [p \in (1..n) \X CopyState |-> Push(p[2], s[p[1]])]
             it == CHOOSE it : PushesAs(it, copy, n, s)
  <1>1. \A k \in 1..n, v \in CopyState :
           G[<<k, v>>] = Push(v, s[k]) /\ G[<<k, v>>] \in CopyState
    <2> SUFFICES ASSUME NEW k \in 1..n, NEW v \in CopyState
                 PROVE  Push(v, s[k]) \in CopyState
      OBVIOUS
    <2> QED
      BY PushType
  <1>2. StaysIn(G, 1..n, CopyState)
    BY <1>1 DEF StaysIn
  <1>3. copy \in CopyState /\ n \in Nat
    OBVIOUS
  <1> HIDE DEF G
  <1>4. PICK h : RunsBy(h, n, CopyState, copy, G)
    <2> DEFINE V == CopyState
    <2>1. StaysIn(G, 1..n, V) /\ copy \in V
      BY <1>2, <1>3
    <2> HIDE DEF V
    <2>2. \E h : RunsBy(h, n, V, copy, G)
      BY <1>3, <2>1, FoldRuns
    <2> QED
      BY <2>2 DEF V
  <1>5. PushesAs(h, copy, n, s)
    <2>1. \A T \in SUBSET (1..n) : T # {} =>
            h[T] = Push(h[T \ {Max(T)}], s[Max(T)])
      BY <1>1, <1>4 DEF RunsBy
    <2>2. h = [T \in SUBSET (1..n) |-> h[T]]
      BY <1>4 DEF RunsBy
    <2> QED
      BY <1>4, <2>1, <2>2 DEF PushesAs, RunsBy
  <1>6. PushesAs(it, copy, n, s)
    BY <1>5
  <1>7. PushAll(copy, s) = it[1..n]
    BY DEF PushAll, FoldLeft, MapThenFoldSet, PushesAs
  <1> HIDE DEF it
  <1>8. LargestFirst(it, n, CopyState, copy, G)
    <2>1. it[{}] = copy
      BY <1>6 DEF PushesAs
    <2>2. ASSUME NEW T \in SUBSET (1..n), T # {}, it[T \ {Max(T)}] \in CopyState
          PROVE  it[T] = G[<<Max(T), it[T \ {Max(T)}]>>]
      <3>1. it[T] = Push(it[T \ {Max(T)}], s[Max(T)])
        BY <1>6, <2>2 DEF PushesAs
      <3>2. Max(T) \in 1..n
        BY <1>4, <2>2 DEF RunsBy
      <3> QED
        BY <1>1, <2>2, <3>1, <3>2
    <2> QED
      BY <2>1, <2>2 DEF LargestFirst
  <1>9. PICK st : Steps(st, n, CopyState, copy, G) /\ st[n] = it[1..n]
    <2> DEFINE V == CopyState
    <2>1. StaysIn(G, 1..n, V) /\ copy \in V /\ LargestFirst(it, n, V, copy, G)
      BY <1>2, <1>3, <1>8
    <2> HIDE DEF V
    <2>2. \E st : Steps(st, n, V, copy, G) /\ st[n] = it[1..n]
      BY <1>3, <2>1, FoldStages
    <2> QED
      BY <2>2 DEF V
  <1>10. \A k \in 1..n : k - 1 \in 0..n
    BY <1>3
  <1>11. \A k \in 1..n : st[k] = Push(st[k - 1], s[k])
    BY <1>1, <1>9, <1>10 DEF Steps
  <1>12. st \in [0..n -> CopyState] /\ st[0] = copy /\ PushAll(copy, s) = st[n]
    BY <1>7, <1>9 DEF Steps
  <1>13. PushesStep(st, copy, n, s)
    BY <1>11, <1>12 DEF PushesStep
  <1> QED
    BY <1>12, <1>13

ArgvsAs(it, copy, n, s) ==
  it = [T \in SUBSET (1..n) |->
          IF T = {} THEN copy ELSE Push(it[T \ {Max(T)}], it[T \ {Max(T)}].stack[ArgvAt + s[Max(T)] - 1])]

(* Copying the arguments.                                                  *)
LEMMA ArgvRuns ==
  ASSUME NEW copy \in CopyState, NEW n \in Nat, NEW s \in [1..n -> Int],
         \A k \in 1..n : ArgvAt + s[k] - 1 \in Cells
  PROVE  \E st : ArgvsStep(st, copy, n, s) /\ ArgvFold(copy, s) = st[n]
  <1> DEFINE G == [p \in (1..n) \X CopyState |-> Push(p[2], p[2].stack[ArgvAt + s[p[1]] - 1])]
             it == CHOOSE it : ArgvsAs(it, copy, n, s)
  <1>1. \A k \in 1..n, v \in CopyState :
           G[<<k, v>>] = Push(v, v.stack[ArgvAt + s[k] - 1]) /\ G[<<k, v>>] \in CopyState
    <2> SUFFICES ASSUME NEW k \in 1..n, NEW v \in CopyState
                 PROVE  Push(v, v.stack[ArgvAt + s[k] - 1]) \in CopyState
      OBVIOUS
    <2> QED
      BY PushType DEF CopyState
  <1>2. StaysIn(G, 1..n, CopyState)
    BY <1>1 DEF StaysIn
  <1>3. copy \in CopyState /\ n \in Nat
    OBVIOUS
  <1> HIDE DEF G
  <1>4. PICK h : RunsBy(h, n, CopyState, copy, G)
    <2> DEFINE V == CopyState
    <2>1. StaysIn(G, 1..n, V) /\ copy \in V
      BY <1>2, <1>3
    <2> HIDE DEF V
    <2>2. \E h : RunsBy(h, n, V, copy, G)
      BY <1>3, <2>1, FoldRuns
    <2> QED
      BY <2>2 DEF V
  <1>5. ArgvsAs(h, copy, n, s)
    <2>1. \A T \in SUBSET (1..n) : T # {} =>
            h[T] = Push(h[T \ {Max(T)}], h[T \ {Max(T)}].stack[ArgvAt + s[Max(T)] - 1])
      BY <1>1, <1>4 DEF RunsBy
    <2>2. h = [T \in SUBSET (1..n) |-> h[T]]
      BY <1>4 DEF RunsBy
    <2> QED
      BY <1>4, <2>1, <2>2 DEF ArgvsAs, RunsBy
  <1>6. ArgvsAs(it, copy, n, s)
    BY <1>5
  <1>7. ArgvFold(copy, s) = it[1..n]
    BY DEF ArgvFold, FoldLeft, MapThenFoldSet, ArgvsAs
  <1> HIDE DEF it
  <1>8. LargestFirst(it, n, CopyState, copy, G)
    <2>1. it[{}] = copy
      BY <1>6 DEF ArgvsAs
    <2>2. ASSUME NEW T \in SUBSET (1..n), T # {}, it[T \ {Max(T)}] \in CopyState
          PROVE  it[T] = G[<<Max(T), it[T \ {Max(T)}]>>]
      <3>1. it[T] = Push(it[T \ {Max(T)}], it[T \ {Max(T)}].stack[ArgvAt + s[Max(T)] - 1])
        BY <1>6, <2>2 DEF ArgvsAs
      <3>2. Max(T) \in 1..n
        BY <1>4, <2>2 DEF RunsBy
      <3> QED
        BY <1>1, <2>2, <3>1, <3>2
    <2> QED
      BY <2>1, <2>2 DEF LargestFirst
  <1>9. PICK st : Steps(st, n, CopyState, copy, G) /\ st[n] = it[1..n]
    <2> DEFINE V == CopyState
    <2>1. StaysIn(G, 1..n, V) /\ copy \in V /\ LargestFirst(it, n, V, copy, G)
      BY <1>2, <1>3, <1>8
    <2> HIDE DEF V
    <2>2. \E st : Steps(st, n, V, copy, G) /\ st[n] = it[1..n]
      BY <1>3, <2>1, FoldStages
    <2> QED
      BY <2>2 DEF V
  <1>10. \A k \in 1..n : k - 1 \in 0..n
    BY <1>3
  <1>11. \A k \in 1..n : st[k] = Push(st[k - 1], st[k - 1].stack[ArgvAt + s[k] - 1])
    BY <1>1, <1>9, <1>10 DEF Steps
  <1>12. st \in [0..n -> CopyState] /\ st[0] = copy /\ ArgvFold(copy, s) = st[n]
    BY <1>7, <1>9 DEF Steps
  <1>13. ArgvsStep(st, copy, n, s)
    BY <1>11, <1>12 DEF ArgvsStep
  <1> QED
    BY <1>12, <1>13

EnvpsAs(it, at, copy, n, s) ==
  it = [T \in SUBSET (1..n) |->
          IF T = {} THEN copy ELSE EnvpWord(at, it[T \ {Max(T)}], s[Max(T)])]

(* Copying the environment.                                                *)
LEMMA EnvpRuns ==
  ASSUME NEW at, NEW copy \in CopyState, NEW n \in Nat, NEW s \in [1..n -> Int],
         \A k \in 1..n : at + s[k] \in Cells
  PROVE  \E st : EnvpsStep(st, at, copy, n, s) /\ EnvpFold(at, copy, s) = st[n]
  <1> DEFINE G == [p \in (1..n) \X CopyState |-> EnvpWord(at, p[2], s[p[1]])]
             it == CHOOSE it : EnvpsAs(it, at, copy, n, s)
  <1>1. \A k \in 1..n, v \in CopyState :
           G[<<k, v>>] = EnvpWord(at, v, s[k]) /\ G[<<k, v>>] \in CopyState
    <2> SUFFICES ASSUME NEW k \in 1..n, NEW v \in CopyState
                 PROVE  EnvpWord(at, v, s[k]) \in CopyState
      OBVIOUS
    <2> QED
      BY EnvpWordType
  <1>2. StaysIn(G, 1..n, CopyState)
    BY <1>1 DEF StaysIn
  <1>3. copy \in CopyState /\ n \in Nat
    OBVIOUS
  <1> HIDE DEF G
  <1>4. PICK h : RunsBy(h, n, CopyState, copy, G)
    <2> DEFINE V == CopyState
    <2>1. StaysIn(G, 1..n, V) /\ copy \in V
      BY <1>2, <1>3
    <2> HIDE DEF V
    <2>2. \E h : RunsBy(h, n, V, copy, G)
      BY <1>3, <2>1, FoldRuns
    <2> QED
      BY <2>2 DEF V
  <1>5. EnvpsAs(h, at, copy, n, s)
    <2>1. \A T \in SUBSET (1..n) : T # {} =>
            h[T] = EnvpWord(at, h[T \ {Max(T)}], s[Max(T)])
      BY <1>1, <1>4 DEF RunsBy
    <2>2. h = [T \in SUBSET (1..n) |-> h[T]]
      BY <1>4 DEF RunsBy
    <2> QED
      BY <1>4, <2>1, <2>2 DEF EnvpsAs, RunsBy
  <1>6. EnvpsAs(it, at, copy, n, s)
    BY <1>5
  <1>7. EnvpFold(at, copy, s) = it[1..n]
    BY DEF EnvpWord, EnvpFold, FoldLeft, MapThenFoldSet, EnvpsAs
  <1> HIDE DEF it
  <1>8. LargestFirst(it, n, CopyState, copy, G)
    <2>1. it[{}] = copy
      BY <1>6 DEF EnvpsAs
    <2>2. ASSUME NEW T \in SUBSET (1..n), T # {}, it[T \ {Max(T)}] \in CopyState
          PROVE  it[T] = G[<<Max(T), it[T \ {Max(T)}]>>]
      <3>1. it[T] = EnvpWord(at, it[T \ {Max(T)}], s[Max(T)])
        BY <1>6, <2>2 DEF EnvpsAs
      <3>2. Max(T) \in 1..n
        BY <1>4, <2>2 DEF RunsBy
      <3> QED
        BY <1>1, <2>2, <3>1, <3>2
    <2> QED
      BY <2>1, <2>2 DEF LargestFirst
  <1>9. PICK st : Steps(st, n, CopyState, copy, G) /\ st[n] = it[1..n]
    <2> DEFINE V == CopyState
    <2>1. StaysIn(G, 1..n, V) /\ copy \in V /\ LargestFirst(it, n, V, copy, G)
      BY <1>2, <1>3, <1>8
    <2> HIDE DEF V
    <2>2. \E st : Steps(st, n, V, copy, G) /\ st[n] = it[1..n]
      BY <1>3, <2>1, FoldStages
    <2> QED
      BY <2>2 DEF V
  <1>10. \A k \in 1..n : k - 1 \in 0..n
    BY <1>3
  <1>11. \A k \in 1..n : st[k] = EnvpWord(at, st[k - 1], s[k])
    BY <1>1, <1>9, <1>10 DEF Steps
  <1>12. st \in [0..n -> CopyState] /\ st[0] = copy /\ EnvpFold(at, copy, s) = st[n]
    BY <1>7, <1>9 DEF Steps
  <1>13. EnvpsStep(st, at, copy, n, s)
    BY <1>11, <1>12 DEF EnvpsStep
  <1> QED
    BY <1>12, <1>13

AuxvsAs(it, x, copy, n, s) ==
  it = [T \in SUBSET (1..n) |->
          IF T = {} THEN copy ELSE Push(Push(it[T \ {Max(T)}], s[Max(T)]), IF s[Max(T)] = AT_EXECFN THEN x ELSE AuxValue)]

(* The auxiliary vector.                                                   *)
LEMMA AuxvRuns ==
  ASSUME NEW x \in Int, NEW copy \in CopyState, NEW n \in Nat, NEW s \in [1..n -> Int]
  PROVE  \E st : AuxvsStep(st, x, copy, n, s) /\ AuxvFold(x, copy, s) = st[n]
  <1> DEFINE G == [p \in (1..n) \X CopyState |-> Push(Push(p[2], s[p[1]]), IF s[p[1]] = AT_EXECFN THEN x ELSE AuxValue)]
             it == CHOOSE it : AuxvsAs(it, x, copy, n, s)
  <1>1. \A k \in 1..n, v \in CopyState :
           G[<<k, v>>] = Push(Push(v, s[k]), IF s[k] = AT_EXECFN THEN x ELSE AuxValue) /\ G[<<k, v>>] \in CopyState
    <2> SUFFICES ASSUME NEW k \in 1..n, NEW v \in CopyState
                 PROVE  Push(Push(v, s[k]), IF s[k] = AT_EXECFN THEN x ELSE AuxValue) \in CopyState
      OBVIOUS
    <2> QED
      BY PushType DEF AuxValue
  <1>2. StaysIn(G, 1..n, CopyState)
    BY <1>1 DEF StaysIn
  <1>3. copy \in CopyState /\ n \in Nat
    OBVIOUS
  <1> HIDE DEF G
  <1>4. PICK h : RunsBy(h, n, CopyState, copy, G)
    <2> DEFINE V == CopyState
    <2>1. StaysIn(G, 1..n, V) /\ copy \in V
      BY <1>2, <1>3
    <2> HIDE DEF V
    <2>2. \E h : RunsBy(h, n, V, copy, G)
      BY <1>3, <2>1, FoldRuns
    <2> QED
      BY <2>2 DEF V
  <1>5. AuxvsAs(h, x, copy, n, s)
    <2>1. \A T \in SUBSET (1..n) : T # {} =>
            h[T] = Push(Push(h[T \ {Max(T)}], s[Max(T)]), IF s[Max(T)] = AT_EXECFN THEN x ELSE AuxValue)
      BY <1>1, <1>4 DEF RunsBy
    <2>2. h = [T \in SUBSET (1..n) |-> h[T]]
      BY <1>4 DEF RunsBy
    <2> QED
      BY <1>4, <2>1, <2>2 DEF AuxvsAs, RunsBy
  <1>6. AuxvsAs(it, x, copy, n, s)
    BY <1>5
  <1>7. AuxvFold(x, copy, s) = it[1..n]
    BY DEF AuxvFold, FoldLeft, MapThenFoldSet, AuxvsAs
  <1> HIDE DEF it
  <1>8. LargestFirst(it, n, CopyState, copy, G)
    <2>1. it[{}] = copy
      BY <1>6 DEF AuxvsAs
    <2>2. ASSUME NEW T \in SUBSET (1..n), T # {}, it[T \ {Max(T)}] \in CopyState
          PROVE  it[T] = G[<<Max(T), it[T \ {Max(T)}]>>]
      <3>1. it[T] = Push(Push(it[T \ {Max(T)}], s[Max(T)]), IF s[Max(T)] = AT_EXECFN THEN x ELSE AuxValue)
        BY <1>6, <2>2 DEF AuxvsAs
      <3>2. Max(T) \in 1..n
        BY <1>4, <2>2 DEF RunsBy
      <3> QED
        BY <1>1, <2>2, <3>1, <3>2
    <2> QED
      BY <2>1, <2>2 DEF LargestFirst
  <1>9. PICK st : Steps(st, n, CopyState, copy, G) /\ st[n] = it[1..n]
    <2> DEFINE V == CopyState
    <2>1. StaysIn(G, 1..n, V) /\ copy \in V /\ LargestFirst(it, n, V, copy, G)
      BY <1>2, <1>3, <1>8
    <2> HIDE DEF V
    <2>2. \E st : Steps(st, n, V, copy, G) /\ st[n] = it[1..n]
      BY <1>3, <2>1, FoldStages
    <2> QED
      BY <2>2 DEF V
  <1>10. \A k \in 1..n : k - 1 \in 0..n
    BY <1>3
  <1>11. \A k \in 1..n : st[k] = Push(Push(st[k - 1], s[k]), IF s[k] = AT_EXECFN THEN x ELSE AuxValue)
    BY <1>1, <1>9, <1>10 DEF Steps
  <1>12. st \in [0..n -> CopyState] /\ st[0] = copy /\ AuxvFold(x, copy, s) = st[n]
    BY <1>7, <1>9 DEF Steps
  <1>13. AuxvsStep(st, x, copy, n, s)
    BY <1>11, <1>12 DEF AuxvsStep
  <1> QED
    BY <1>12, <1>13

(* The words below end are those of out, the others still those of old.    *)
CopyAt(c, old, end, out) ==
  /\ c \in CopyState /\ c.stEnd = end
  /\ \A n \in Cells : c.stack[n] = IF n < end THEN out[n] ELSE old[n]

(* A word that is that of out takes the copy one further.                  *)
LEMMA CopyPush ==
  ASSUME NEW c, NEW old, NEW out, NEW end \in Nat, CopyAt(c, old, end, out), NEW w \in Int,
         w = out[end]
  PROVE  /\ CopyAt(Push(c, w), old, end + 1, out) /\ Push(c, w).done = c.done
  <1> DEFINE new == Push(c, w)
  <1>1. PushIs(c, w, new) /\ c \in CopyState /\ c.stEnd = end
    BY PushType DEF CopyAt
  <1> HIDE DEF new
  <1>2. /\ new \in CopyState /\ new.stEnd = end + 1 /\ new.done = c.done
        /\ \A n \in Cells : new.stack[n] = IF n = end THEN w ELSE c.stack[n]
    BY <1>1 DEF PushIs
  <1>3. ASSUME NEW n \in Cells PROVE new.stack[n] = IF n < end + 1 THEN out[n] ELSE old[n]
    <2>1. c.stack[n] = IF n < end THEN out[n] ELSE old[n]
      BY DEF CopyAt
    <2>2. n \in Int /\ (n < end + 1 <=> n < end \/ n = end) /\ (n = end => ~(n < end))
      BY DEF Cells
    <2> QED
      BY <1>2, <2>1, <2>2
  <1> QED
    BY <1>2, <1>3 DEF CopyAt, new

(* Words pushed one after the other.                                       *)
LEMMA CopyAll ==
  ASSUME NEW c, NEW old, NEW out, NEW end \in Nat, CopyAt(c, old, end, out),
         NEW n \in Nat, NEW s \in [1..n -> Int], \A k \in 1..n : s[k] = out[end + k - 1]
  PROVE  CopyAt(PushAll(c, s), old, end + n, out)
  <1>1. c \in CopyState
    BY DEF CopyAt
  <1>2. PICK st : PushesStep(st, c, n, s) /\ PushAll(c, s) = st[n]
    BY <1>1, PushRuns
  <1>3. st[0] = c /\ \A k \in 1..n : st[k] = Push(st[k - 1], s[k])
    BY <1>2 DEF PushesStep
  <1> DEFINE P == {k \in 0..n : CopyAt(st[k], old, end + k, out)}
  <1>4. 0 \in P
    <2>1. end + 0 = end /\ 0 \in 0..n
      OBVIOUS
    <2> QED
      BY <1>3, <2>1
  <1>5. ASSUME NEW k \in 1..n, k - 1 \in P PROVE k \in P
    <2> DEFINE at == end + (k - 1)
    <2>1. at \in Nat /\ at + 1 = end + k /\ k \in 0..n /\ at = end + k - 1
      OBVIOUS
    <2>2. CopyAt(st[k - 1], old, at, out) /\ s[k] \in Int
      BY <1>5
    <2> HIDE DEF at
    <2>3. s[k] = out[at]
      BY <2>1
    <2>4. CopyAt(Push(st[k - 1], s[k]), old, at + 1, out)
      BY <2>1, <2>2, <2>3, CopyPush
    <2> QED
      BY <1>3, <2>1, <2>4
  <1>6. 0..n \subseteq P
    <2> HIDE DEF P
    <2> QED
      BY <1>4, <1>5, UpTo
  <1> QED
    BY <1>2, <1>6

Counts(s, n)  == s \in [1..n -> Int] /\ \A k \in 1..n : s[k] = k
Counts0(s, n) == s \in [1..n -> Int] /\ \A k \in 1..n : s[k] = k - 1

SameWords(old, from, out, end, n) == \A k \in 1..n : old[from + k - 1] = out[end + k - 1]
NoNull(old, from, n) == \A k \in 1..n : old[from + k - 1] # NULL

(* The arguments: what is read has not been written yet.                   *)
LEMMA CopyArgs ==
  ASSUME NEW c, NEW old, NEW out, NEW end \in Nat, CopyAt(c, old, end, out), end <= HostWords,
         NEW n \in Nat, NEW s, Counts(s, n),
         HostWords + n <= StackWords, SameWords(old, HostWords, out, end, n)
  PROVE  CopyAt(ArgvFold(c, s), old, end + n, out) /\ ArgvFold(c, s).done = c.done
  <1>0. s \in [1..n -> Int] /\ \A k \in 1..n : s[k] = k
    BY DEF Counts
  <1>1. c \in CopyState /\ HostWords \in Nat /\ StackWords \in Nat /\ ArgvAt = HostWords
    BY StackAssumption DEF CopyAt, ArgvAt
  <1>2. \A k \in 1..n : ArgvAt + s[k] - 1 \in Cells /\ ArgvAt + s[k] - 1 = HostWords + k - 1
    BY <1>0, <1>1 DEF Cells
  <1>3. PICK st : ArgvsStep(st, c, n, s) /\ ArgvFold(c, s) = st[n]
    BY <1>0, <1>1, <1>2, ArgvRuns
  <1>4. /\ st[0] = c
        /\ \A k \in 1..n : st[k] = Push(st[k - 1], st[k - 1].stack[ArgvAt + s[k] - 1])
    BY <1>3 DEF ArgvsStep
  <1> DEFINE P == {k \in 0..n : CopyAt(st[k], old, end + k, out) /\ st[k].done = c.done}
  <1>5. 0 \in P
    <2>1. end + 0 = end /\ 0 \in 0..n
      OBVIOUS
    <2> QED
      BY <1>4, <2>1
  <1>6. ASSUME NEW k \in 1..n, k - 1 \in P PROVE k \in P
    <2> DEFINE at == end + (k - 1)
               from == HostWords + k - 1
               w == st[k - 1].stack[from]
    <2>1. /\ at \in Nat /\ at + 1 = end + k /\ k \in 0..n /\ at = end + k - 1
          /\ ~(from < at)
      BY <1>1
    <2>10. from \in Cells
      BY <1>2
    <2>2. CopyAt(st[k - 1], old, at, out) /\ st[k - 1].done = c.done
      BY <1>6
    <2>3. st[k] = Push(st[k - 1], w)
      BY <1>2, <1>4
    <2>4. old[from] = out[at]
      BY <2>1 DEF SameWords
    <2> HIDE DEF at, from
    <2>5. w = out[at] /\ w \in Int
      BY <2>1, <2>10, <2>2, <2>4 DEF CopyAt, CopyState
    <2> HIDE DEF w
    <2>6. CopyAt(Push(st[k - 1], w), old, at + 1, out) /\ Push(st[k - 1], w).done = c.done
      BY <2>1, <2>2, <2>5, CopyPush
    <2> QED
      BY <2>1, <2>3, <2>6
  <1>7. 0..n \subseteq P
    <2> HIDE DEF P
    <2> QED
      BY <1>5, <1>6, UpTo
  <1> QED
    BY <1>3, <1>7

(* The environment, up to its end.                                         *)
LEMMA CopyEnv ==
  ASSUME NEW c, NEW old, NEW out, NEW end \in Nat, CopyAt(c, old, end, out), ~c.done,
         NEW from \in Nat, end <= from,
         NEW m \in Nat, NEW n \in Nat, m < n, from + n <= StackWords,
         NEW s, Counts0(s, n),
         SameWords(old, from, out, end, m), NoNull(old, from, m), old[from + m] = NULL
  PROVE  CopyAt(EnvpFold(from, c, s), old, end + m, out)
  <1>0. s \in [1..n -> Int] /\ \A k \in 1..n : s[k] = k - 1
    BY DEF Counts0
  <1>1. c \in CopyState /\ StackWords \in Nat
    BY StackAssumption DEF CopyAt
  <1>2. \A k \in 1..n : from + s[k] \in Cells /\ from + s[k] = from + k - 1
    BY <1>0, <1>1 DEF Cells
  <1>3. PICK st : EnvpsStep(st, from, c, n, s) /\ EnvpFold(from, c, s) = st[n]
    BY <1>0, <1>1, <1>2, EnvpRuns
  <1>4. /\ st[0] = c
        /\ \A k \in 1..n : st[k] = EnvpWord(from, st[k - 1], s[k])
    BY <1>3 DEF EnvpsStep
  <1> DEFINE Running(k) == k <= m /\ CopyAt(st[k], old, end + k, out) /\ ~st[k].done
             Over(k) == k > m /\ CopyAt(st[k], old, end + m, out) /\ st[k].done
             P == {k \in 0..n : Running(k) \/ Over(k)}
  <1>5. 0 \in P
    <2>1. end + 0 = end /\ 0 \in 0..n /\ 0 <= m
      OBVIOUS
    <2> QED
      BY <1>4, <2>1
  <1>6. ASSUME NEW k \in 1..n, k - 1 \in P PROVE k \in P
    <2> DEFINE c0 == st[k - 1]
               c1 == [c0 EXCEPT !.done = TRUE]
    <2>0. k \in 0..n /\ st[k] = EnvpWord(from, c0, s[k])
      BY <1>4
    <2>1. CASE Over(k - 1)
      <3>1. c0.done /\ CopyAt(c0, old, end + m, out) /\ k > m
        BY <2>1
      <3>2. st[k] = c1
        BY <2>0, <3>1 DEF EnvpWord
      <3> HIDE DEF c0
      <3>3. CopyAt(c1, old, end + m, out) /\ c1.done
        BY <3>1 DEF CopyAt, CopyState
      <3> HIDE DEF c1
      <3> QED
        BY <2>0, <3>1, <3>2, <3>3
    <2>2. CASE Running(k - 1)
      <3> DEFINE at == end + (k - 1)
                 w  == c0.stack[from + s[k]]
      <3>1. ~c0.done /\ CopyAt(c0, old, at, out) /\ k - 1 <= m
        BY <2>2
      <3>2. /\ at \in Nat /\ at + 1 = end + k /\ at = end + k - 1
            /\ from + s[k] \in Cells /\ ~(from + s[k] < at)
        BY <1>2
      <3> HIDE DEF c0, at
      <3>3. w = old[from + s[k]] /\ w \in Int
        BY <3>1, <3>2 DEF CopyAt, CopyState
      <3>4. w = old[from + k - 1]
        BY <1>2, <3>3
      <3>5. CASE k - 1 = m
        <4>1. w = NULL
          <5>1. from + k - 1 = from + m
            BY <3>5
          <5> QED
            BY <3>4, <5>1
        <4>2. st[k] = c1
          BY <2>0, <4>1 DEF EnvpWord
        <4>3. CopyAt(c1, old, at, out) /\ c1.done
          BY <3>1 DEF CopyAt, CopyState
        <4>4. at = end + m /\ k > m
          BY <3>5 DEF at
        <4> HIDE DEF c1
        <4> QED
          BY <2>0, <4>2, <4>3, <4>4
      <3>6. CASE k - 1 # m
        <4>1. k \in 1..m /\ k <= m
          BY <3>1, <3>6
        <4>2. w = out[at] /\ w # NULL
          BY <3>2, <3>4, <4>1 DEF SameWords, NoNull
        <4> HIDE DEF w
        <4>3. st[k] = Push(c0, w)
          BY <2>0, <3>1, <4>2 DEF EnvpWord, w
        <4>4. CopyAt(Push(c0, w), old, at + 1, out) /\ Push(c0, w).done = c0.done
          BY <3>1, <3>2, <3>3, <4>2, CopyPush
        <4> QED
          BY <2>0, <3>1, <3>2, <4>1, <4>3, <4>4
      <3> QED
        BY <3>5, <3>6
    <2> QED
      BY <1>6, <2>1, <2>2
  <1>7. 0..n \subseteq P
    <2> HIDE DEF P
    <2> QED
      BY <1>5, <1>6, UpTo
  <1>8. n \in P /\ ~(n <= m)
    BY <1>7
  <1> QED
    BY <1>3, <1>8

(* The words below where the copy stood are left alone.                    *)
Keeps(c, before) ==
  /\ c \in CopyState /\ c.stEnd >= before.stEnd
  /\ \A n \in Cells : n < before.stEnd => c.stack[n] = before.stack[n]

(* Pushing a word leaves them alone.                                       *)
LEMMA KeepsPush ==
  ASSUME NEW before \in CopyState, NEW c, Keeps(c, before), NEW w \in Int
  PROVE  Keeps(Push(c, w), before) /\ Push(c, w).stEnd = c.stEnd + 1
  <1> DEFINE new == Push(c, w)
  <1>1. PushIs(c, w, new) /\ c \in CopyState
    BY PushType DEF Keeps
  <1> HIDE DEF new
  <1>2. /\ new \in CopyState /\ new.stEnd = c.stEnd + 1
        /\ \A n \in Cells : new.stack[n] = IF n = c.stEnd THEN w ELSE c.stack[n]
    BY <1>1 DEF PushIs
  <1>3. c.stEnd \in Nat /\ before.stEnd \in Nat /\ c.stEnd >= before.stEnd
    BY <1>1 DEF CopyState, Keeps
  <1>4. ASSUME NEW n \in Cells, n < before.stEnd PROVE new.stack[n] = before.stack[n]
    <2>1. n # c.stEnd
      BY <1>3, <1>4 DEF Cells
    <2> QED
      BY <1>2, <1>4, <2>1 DEF Keeps
  <1> QED
    BY <1>2, <1>3, <1>4 DEF Keeps, new

(* So does pushing many.                                                   *)
LEMMA KeepsAll ==
  ASSUME NEW c \in CopyState, NEW n \in Nat, NEW s \in [1..n -> Int]
  PROVE  Keeps(PushAll(c, s), c)
  <1>1. PICK st : PushesStep(st, c, n, s) /\ PushAll(c, s) = st[n]
    BY PushRuns
  <1>2. st[0] = c /\ \A k \in 1..n : st[k] = Push(st[k - 1], s[k])
    BY <1>1 DEF PushesStep
  <1> DEFINE P == {k \in 0..n : Keeps(st[k], c)}
  <1>3. 0 \in P
    <2>1. c.stEnd \in Nat
      BY DEF CopyState
    <2> QED
      BY <1>2, <2>1 DEF Keeps
  <1>4. ASSUME NEW k \in 1..n, k - 1 \in P PROVE k \in P
    BY <1>2, <1>4, KeepsPush
  <1>5. 0..n \subseteq P
    <2> HIDE DEF P
    <2> QED
      BY <1>3, <1>4, UpTo
  <1> QED
    BY <1>1, <1>5

(* The auxiliary vector: its last entry stands last.                       *)
Puts(c, x, n, got) ==
  /\ Keeps(got, c) /\ got.stEnd = c.stEnd + 2 * n
  /\ got.stack[c.stEnd + 2 * (n - 1)] = AT_EXECFN
  /\ got.stack[c.stEnd + 2 * (n - 1) + 1] = x

LEMMA AuxvPuts ==
  ASSUME NEW c \in CopyState, NEW x \in Int, NEW n \in Nat, n # 0, NEW s \in [1..n -> Int],
         s[n] = AT_EXECFN, c.stEnd + 2 * n <= StackWords
  PROVE  Puts(c, x, n, AuxvFold(x, c, s))
  <1> DEFINE value(k) == IF s[k] = AT_EXECFN THEN x ELSE AuxValue
  <1>1. PICK st : AuxvsStep(st, x, c, n, s) /\ AuxvFold(x, c, s) = st[n]
    BY AuxvRuns
  <1>2. st[0] = c /\ \A k \in 1..n : st[k] = Push(Push(st[k - 1], s[k]), value(k))
    BY <1>1 DEF AuxvsStep
  <1>3. \A k \in 1..n : value(k) \in Int
    BY DEF AuxValue
  <1>4. c.stEnd \in Nat
    BY DEF CopyState
  <1> HIDE DEF value
  <1> DEFINE P == {k \in 0..n : Keeps(st[k], c) /\ st[k].stEnd = c.stEnd + 2 * k}
  <1>5. 0 \in P
    <2>1. c.stEnd + 2 * 0 = c.stEnd /\ 0 \in 0..n
      BY <1>4
    <2> QED
      BY <1>2, <1>4, <2>1 DEF Keeps
  <1>6. ASSUME NEW k \in 1..n, k - 1 \in P PROVE k \in P
    <2> DEFINE c0 == st[k - 1]
               c1 == Push(c0, s[k])
               v  == value(k)
    <2>1. Keeps(c0, c) /\ c0.stEnd = c.stEnd + 2 * (k - 1)
      BY <1>6
    <2>2. st[k] = Push(c1, v) /\ v \in Int /\ s[k] \in Int /\ k \in 0..n
      BY <1>2, <1>3
    <2> HIDE DEF c0, v
    <2>3. Keeps(c1, c) /\ c1.stEnd = c0.stEnd + 1
      BY <2>1, <2>2, KeepsPush
    <2> HIDE DEF c1
    <2>4. Keeps(Push(c1, v), c) /\ Push(c1, v).stEnd = c1.stEnd + 1
      BY <2>2, <2>3, KeepsPush
    <2>5. st[k].stEnd = c.stEnd + 2 * k
      BY <1>4, <2>1, <2>2, <2>3, <2>4
    <2> QED
      BY <2>2, <2>4, <2>5
  <1>7. 0..n \subseteq P
    <2> HIDE DEF P
    <2> QED
      BY <1>5, <1>6, UpTo
  <1> DEFINE m  == n - 1
             c0 == st[m]
             c1 == Push(c0, AT_EXECFN)
             at == c.stEnd + 2 * m
  <1>8. m \in 0..n /\ n \in P /\ m \in P /\ n \in 1..n
    BY <1>7
  <1>9. c0 \in CopyState /\ c0.stEnd = at /\ st[n] = Push(c1, x)
    <2>1. st[n] = Push(Push(c0, s[n]), value(n)) /\ value(n) = x
      BY <1>2, <1>8 DEF value
    <2> QED
      BY <1>8, <2>1 DEF Keeps
  <1>10. at \in Cells /\ at + 1 \in Cells /\ at \in Nat /\ at # at + 1
    BY <1>4, StackAssumption DEF Cells
  <1> HIDE DEF c0, at, m
  <1>11. PushIs(c0, AT_EXECFN, c1) /\ AT_EXECFN \in Int
    BY <1>9, PushType DEF AT_EXECFN
  <1> HIDE DEF c1
  <1>12. c1 \in CopyState /\ c1.stEnd = at + 1 /\ c1.stack[at] = AT_EXECFN
    BY <1>9, <1>10, <1>11 DEF PushIs
  <1> DEFINE got == Push(c1, x)
  <1>13. PushIs(c1, x, got)
    BY <1>12, PushType
  <1> HIDE DEF got
  <1>14. got.stack[at] = AT_EXECFN /\ got.stack[at + 1] = x
    BY <1>10, <1>12, <1>13 DEF PushIs
  <1>15. AuxvFold(x, c, s) = got /\ Keeps(st[n], c) /\ st[n].stEnd = c.stEnd + 2 * n /\ st[n] = got
    BY <1>1, <1>8, <1>9 DEF got
  <1> QED
    BY <1>14, <1>15 DEF at, m, Puts

IsConcat(u, s, t, S) ==
  /\ u \in Seq(S) /\ Len(u) = Len(s) + Len(t)
  /\ \A k \in 1..Len(s) : u[k] = s[k]
  /\ \A k \in 1..Len(t) : u[Len(s) + k] = t[k]

(* One sequence behind another.                                            *)
LEMMA ConcatIs ==
  ASSUME NEW S, NEW s \in Seq(S), NEW t \in Seq(S)
  PROVE  IsConcat(s \o t, s, t, S)
  BY DEF IsConcat

(* The kernel's words.                                                     *)
LEMMA KernelIs ==
  ASSUME NEW args_ \in Arguments
  PROVE  LET k == KernelWords(args_)
             n == Len(args_.argv)
             m == Len(args_.envp)
         IN  /\ k \in Seq(Nat) /\ Len(k) = n + m + 2 /\ n \in Nat /\ m \in Nat
             /\ \A i \in 1..n : k[i] = args_.argv[i] /\ args_.argv[i] \in Nat \ {0}
             /\ k[n + 1] = NULL
             /\ \A i \in 1..m : k[n + 1 + i] = args_.envp[i] /\ args_.envp[i] \in Nat \ {0}
             /\ k[n + m + 2] = NULL
  <1> DEFINE v == args_.argv
             e == args_.envp
             z == <<NULL>>
             n == Len(v)
             m == Len(e)
             S == Nat
             a == v \o z
             b == a \o e
             k == b \o z
  <1>1. /\ v \in Seq(S) /\ e \in Seq(S) /\ z \in Seq(S) /\ Len(z) = 1 /\ z[1] = NULL
        /\ n \in Nat /\ m \in Nat
        /\ (\A i \in 1..n : v[i] \in Nat \ {0}) /\ (\A i \in 1..m : e[i] \in Nat \ {0})
    <2>1. v \in Seq(Nat \ {0}) /\ e \in Seq(Nat \ {0})
      BY DEF Arguments
    <2>2. (\A i \in 1..n : v[i] \in Nat \ {0}) /\ (\A i \in 1..m : e[i] \in Nat \ {0})
            /\ n \in Nat /\ m \in Nat
      BY <2>1
    <2>3. v \in Seq(S) /\ e \in Seq(S)
      BY <2>1
    <2>4. z \in Seq(S) /\ Len(z) = 1 /\ z[1] = NULL
      BY DEF NULL
    <2> QED
      BY <2>2, <2>3, <2>4
  <1>2. KernelWords(args_) = k
    BY DEF KernelWords
  <1> HIDE DEF v, e, z, S
  <1>3. /\ a \in Seq(S) /\ Len(a) = n + 1 /\ (\A i \in 1..n : a[i] = v[i])
        /\ \A i \in 1..Len(z) : a[n + i] = z[i]
    <2>1. IsConcat(a, v, z, S)
      BY <1>1, ConcatIs
    <2> HIDE DEF a
    <2> QED
      BY <1>1, <2>1 DEF IsConcat
  <1>4. a[n + 1] = NULL
    BY <1>1, <1>3
  <1> HIDE DEF a
  <1>5. /\ b \in Seq(S) /\ Len(b) = n + 1 + m /\ (\A i \in 1..(n + 1) : b[i] = a[i])
        /\ \A i \in 1..m : b[n + 1 + i] = e[i]
    <2>1. /\ b \in Seq(S) /\ Len(b) = Len(a) + m /\ (\A i \in 1..Len(a) : b[i] = a[i])
          /\ \A i \in 1..m : b[Len(a) + i] = e[i]
      <3>1. IsConcat(b, a, e, S)
        BY <1>1, <1>3, ConcatIs
      <3> HIDE DEF b
      <3> QED
        BY <3>1 DEF IsConcat
    <2> QED
      BY <1>3, <2>1
  <1> HIDE DEF b
  <1>6. /\ k \in Seq(S) /\ Len(k) = n + m + 2 /\ (\A i \in 1..(n + m + 1) : k[i] = b[i])
        /\ k[n + m + 2] = NULL
    <2>1. /\ k \in Seq(S) /\ Len(k) = Len(b) + 1 /\ (\A i \in 1..Len(b) : k[i] = b[i])
          /\ \A i \in 1..1 : k[Len(b) + i] = z[i]
      <3>1. IsConcat(k, b, z, S)
        BY <1>1, <1>5, ConcatIs
      <3> HIDE DEF k
      <3> QED
        BY <1>1, <3>1 DEF IsConcat
    <2>2. k[Len(b) + 1] = NULL
      BY <1>1, <2>1
    <2>3. Len(b) = n + m + 1 /\ Len(b) + 1 = n + m + 2
      BY <1>1, <1>5
    <2> QED
      BY <2>1, <2>2, <2>3
  <1> HIDE DEF k
  <1>7. ASSUME NEW i \in 1..n PROVE k[i] = v[i]
    <2>1. i \in 1..(n + 1) /\ i \in 1..(n + m + 1)
      BY <1>1
    <2> QED
      BY <1>3, <1>5, <1>6, <2>1
  <1>8. k[n + 1] = NULL
    <2>1. n + 1 \in 1..(n + 1) /\ n + 1 \in 1..(n + m + 1)
      BY <1>1
    <2> QED
      BY <1>4, <1>5, <1>6, <2>1
  <1>9. ASSUME NEW i \in 1..m PROVE k[n + 1 + i] = e[i]
    <2>1. n + 1 + i \in 1..(n + m + 1)
      BY <1>1
    <2> QED
      BY <1>5, <1>6, <2>1
  <1> QED
    BY <1>1, <1>2, <1>6, <1>7, <1>8, <1>9 DEF v, e, S

(* The stack as the kernel leaves it.                                      *)
LEMMA KernelLeaves ==
  ASSUME NEW args_ \in Arguments, StackHolds(args_)
  PROVE  LET o == InitialStack(args_)
             n == Len(args_.argv)
             m == Len(args_.envp)
         IN  /\ o \in [Cells -> Int]
             /\ \A i \in 1..n : o[HostWords + i - 1] = args_.argv[i]
             /\ \A i \in 1..m : o[HostWords + n + 1 + i - 1] = args_.envp[i]
             /\ o[HostWords + n + 1 + m] = NULL
  <1> DEFINE o == InitialStack(args_)
             k == KernelWords(args_)
             n == Len(args_.argv)
             m == Len(args_.envp)
             l == Len(k)
  <1>1. /\ k \in Seq(Nat) /\ l = n + m + 2 /\ n \in Nat /\ m \in Nat
        /\ \A i \in 1..n : k[i] = args_.argv[i]
        /\ \A i \in 1..m : k[n + 1 + i] = args_.envp[i]
        /\ k[n + m + 2] = NULL
    BY KernelIs
  <1>2. HostWords \in Nat /\ StackWords \in Nat /\ HostWords + l <= StackWords
    BY StackAssumption DEF StackHolds
  <1>3. o = [j \in Cells |-> IF j \in HostWords..(HostWords + l - 1)
                             THEN k[j - HostWords + 1] ELSE HostWord]
    BY DEF InitialStack, Cells
  <1> HIDE DEF o, k, n, m
  <1>4. \A i \in 1..l : k[i] \in Int
    BY <1>1
  <1> HIDE DEF l
  <1>5. \A j \in HostWords..(HostWords + l - 1) : j - HostWords + 1 \in 1..l
    BY <1>1, <1>2
  <1>6. o \in [Cells -> Int]
    BY <1>3, <1>4, <1>5 DEF HostWord
  <1>7. ASSUME NEW i \in 1..l PROVE o[HostWords + i - 1] = k[i]
    <2> DEFINE j == HostWords + i - 1
    <2>1. l \in Nat /\ i \in Nat /\ 1 <= i /\ i <= l
      BY <1>1
    <2>2. j \in Int /\ HostWords <= j /\ j <= HostWords + l - 1 /\ j - HostWords + 1 = i
      BY <1>2, <2>1
    <2> HIDE DEF j
    <2>3. j \in HostWords..(HostWords + l - 1)
      BY <1>2, <2>1, <2>2
    <2>4. j \in Cells
      BY <1>2, <2>1, <2>2 DEF Cells
    <2> QED
      BY <1>3, <2>2, <2>3, <2>4 DEF j
  <1>8. ASSUME NEW i \in 1..n PROVE o[HostWords + i - 1] = k[i]
    <2>1. i \in 1..l
      BY <1>1
    <2> QED
      BY <1>7, <2>1
  <1>9. ASSUME NEW i \in 1..m PROVE o[HostWords + n + 1 + i - 1] = k[n + 1 + i]
    <2>1. n + 1 + i \in 1..l /\ HostWords + (n + 1 + i) - 1 = HostWords + n + 1 + i - 1
      BY <1>1, <1>2
    <2> QED
      BY <1>7, <2>1
  <1>10. o[HostWords + n + 1 + m] = k[n + m + 2]
    <2>1. n + m + 2 \in 1..l /\ HostWords + (n + m + 2) - 1 = HostWords + n + 1 + m
      BY <1>1, <1>2
    <2> QED
      BY <1>7, <2>1
  <1> QED
    BY <1>1, <1>6, <1>8, <1>9, <1>10 DEF o, n, m

(* The guest's words, up to the auxiliary vector.                          *)
Laid(args_) ==
  LET n == Len(args_.argv)
      m == Len(args_.envp)
  IN  [j \in Cells |-> IF j = 0 THEN n
                       ELSE IF j <= n THEN args_.argv[j]
                       ELSE IF n + 1 < j /\ j <= n + 1 + m THEN args_.envp[j - n - 1]
                       ELSE NULL]

(* Word by word.                                                           *)
LEMMA LaidIs ==
  ASSUME NEW args_ \in Arguments, StackHolds(args_)
  PROVE  LET n == Len(args_.argv)
             m == Len(args_.envp)
             out == Laid(args_)
         IN  /\ n \in Nat /\ m \in Nat /\ n + m + 37 <= StackWords
             /\ HostWords + n + m + 2 <= StackWords
             /\ out[0] = n /\ out[n + 1] = NULL
             /\ \A i \in 1..n : out[i] = args_.argv[i] /\ out[i] \in Nat \ {0}
             /\ \A i \in 1..m : out[n + 1 + i] = args_.envp[i] /\ out[n + 1 + i] \in Nat \ {0}
             /\ \A i \in 1..5 : out[n + m + 1 + i] = NULL
  <1> DEFINE n == Len(args_.argv)
             m == Len(args_.envp)
             out == Laid(args_)
  <1>1. /\ n \in Nat /\ m \in Nat /\ Len(KernelWords(args_)) = n + m + 2
        /\ \A i \in 1..n : args_.argv[i] \in Nat \ {0}
        /\ \A i \in 1..m : args_.envp[i] \in Nat \ {0}
    BY KernelIs
  <1>2. HostWords \in Nat \ {0} /\ StackWords \in Nat
    BY StackAssumption
  <1>3. n + m + 37 <= StackWords
    BY DEF StackHolds
  <1>4. HostWords + n + m + 2 <= StackWords
    <2>1. HostWords + (n + m + 2) <= StackWords
      BY <1>1 DEF StackHolds
    <2> HIDE DEF n, m
    <2> QED
      BY <1>1, <1>2, <2>1
  <1>5. \A j \in Cells : out[j] = IF j = 0 THEN n
                       ELSE IF j <= n THEN args_.argv[j]
                       ELSE IF n + 1 < j /\ j <= n + 1 + m THEN args_.envp[j - n - 1]
                       ELSE NULL
    BY DEF Laid
  <1> HIDE DEF n, m, out
  <1>6. \A j \in 0..(n + m + 36) : j \in Cells
    BY <1>1, <1>2, <1>3 DEF Cells
  <1>7. out[0] = n /\ out[n + 1] = NULL
    <2>1. 0 \in Cells /\ n + 1 \in Cells /\ n + 1 # 0 /\ ~(n + 1 <= n) /\ ~(n + 1 < n + 1)
      BY <1>1, <1>6
    <2> QED
      BY <1>5, <2>1
  <1>8. ASSUME NEW i \in 1..n PROVE out[i] = args_.argv[i]
    <2>1. i \in Cells /\ i # 0 /\ i <= n
      BY <1>1, <1>6
    <2> QED
      BY <1>5, <2>1
  <1>9. ASSUME NEW i \in 1..m PROVE out[n + 1 + i] = args_.envp[i]
    <2> DEFINE j == n + 1 + i
    <2>1. j \in Cells /\ j # 0 /\ ~(j <= n) /\ n + 1 < j /\ j <= n + 1 + m /\ j - n - 1 = i
      BY <1>1, <1>6
    <2> HIDE DEF j
    <2> QED
      BY <1>5, <2>1 DEF j
  <1>10. ASSUME NEW i \in 1..5 PROVE out[n + m + 1 + i] = NULL
    <2> DEFINE j == n + m + 1 + i
    <2>1. j \in Cells /\ j # 0 /\ ~(j <= n) /\ ~(j <= n + 1 + m)
      BY <1>1, <1>6
    <2> HIDE DEF j
    <2> QED
      BY <1>5, <2>1 DEF j
  <1> QED
    BY <1>1, <1>3, <1>4, <1>7, <1>8, <1>9, <1>10 DEF n, m, out

FindsArgs(args_, st) ==
    LET argc  == Len(args_.argv)
        envc  == Len(args_.envp)
        auxv  == argc + envc + 7
    IN  /\ st[0] = argc
        /\ \A i \in 1..argc : st[i] = args_.argv[i]
        /\ st[argc + 1] = NULL
        /\ \A i \in 1..envc : st[argc + 1 + i] = args_.envp[i]
        /\ st[argc + envc + 2] = NULL
        /\ argc > 0 /\ ArgvAt >= auxv =>
             \E k \in 0..(Len(AuxTypes) - 1) :
               /\ st[auxv + 2 * k] = AT_EXECFN
               /\ st[auxv + 2 * k + 1] = args_.argv[1]

(* AT_EXECFN is the last of the types.                                     *)
LEMMA AuxTypesAre ==
  /\ AuxTypes \in [1..15 -> Int] /\ Len(AuxTypes) = 15 /\ AuxTypes[15] = AT_EXECFN
  BY DEF AuxTypes, AT_EXECFN

(* What init makes of the kernel's stack.                                  *)
LEMMA CopiedIs ==
  ASSUME NEW args_ \in Arguments, StackHolds(args_)
  PROVE  /\ Copied(args_, InitialStack(args_)) \in [Cells -> Int]
         /\ FindsArgs(args_, Copied(args_, InitialStack(args_)))
  <1> DEFINE n   == Len(args_.argv)
             m   == Len(args_.envp)
             o   == InitialStack(args_)
             out == Laid(args_)
             c0  == [stack |-> o, stEnd |-> 0, done |-> FALSE]
             c1  == Push(c0, n)
             c2  == CopyArgv(args_, c0)
             c3  == Push(c2, NULL)
             c4  == CopyEnvp(args_, c3)
             c5  == PushAll(c4, Zeros(5))
             c6  == CopyAuxv(c5)
             c7  == PushAll(c6, Zeros(26))
             aux == n + m + 7
  <1>1. /\ n \in Nat /\ m \in Nat /\ n + m + 37 <= StackWords
        /\ HostWords + n + m + 2 <= StackWords
        /\ out[0] = n /\ out[n + 1] = NULL
        /\ \A i \in 1..n : out[i] = args_.argv[i] /\ out[i] \in Nat \ {0}
        /\ \A i \in 1..m : out[n + 1 + i] = args_.envp[i] /\ out[n + 1 + i] \in Nat \ {0}
        /\ \A i \in 1..5 : out[n + m + 1 + i] = NULL
    BY LaidIs
  <1>2. HostWords \in Nat /\ HostWords # 0 /\ StackWords \in Nat /\ ArgvAt = HostWords
        /\ EnvpAt(args_) = HostWords + n + 1
    BY StackAssumption DEF ArgvAt, EnvpAt
  <1>3. /\ o \in [Cells -> Int]
        /\ \A i \in 1..n : o[HostWords + i - 1] = args_.argv[i]
        /\ \A i \in 1..m : o[HostWords + n + 1 + i - 1] = args_.envp[i]
        /\ o[HostWords + n + 1 + m] = NULL
    BY KernelLeaves
  <1>4. Copied(args_, InitialStack(args_)) = c7.stack
    BY DEF Copied
  <1>5. /\ c1 = Push(c0, n) /\ c2 = ArgvFold(c1, [i \in 1..n |-> i]) /\ c3 = Push(c2, NULL)
        /\ c5 = PushAll(c4, Zeros(5)) /\ c7 = PushAll(c6, Zeros(26))
    BY DEF CopyArgv, ArgvFold
  <1>6. c4 = EnvpFold(EnvpAt(args_), c3, [i \in 1..(StackWords - EnvpAt(args_)) |-> i - 1])
    BY DEF CopyEnvp, EnvpFold
  <1>7. c6 = AuxvFold(c5.stack[ArgvAt], c5, AuxTypes)
    BY DEF CopyAuxv, AuxvFold
  <1> DEFINE z == 0
             f == FALSE
  <1>8. c0 = [stack |-> o, stEnd |-> z, done |-> f] /\ z \in Nat /\ z = 0 /\ f \in BOOLEAN /\ ~f
    OBVIOUS
  <1> HIDE DEF n, m, o, out, c0, c1, c2, c3, c4, c5, c6, c7, z, f
  <1>9. c0 \in CopyState /\ c0.stEnd = z /\ c0.stack = o /\ ~c0.done
    BY <1>3, <1>8 DEF CopyState
  <1>10. CopyAt(c0, o, z, out)
    <2>1. \A j \in Cells : ~(j < z)
      BY <1>8 DEF Cells
    <2> QED
      BY <1>9, <2>1 DEF CopyAt
  <1> DEFINE e1 == z + 1
  <1>11. CopyAt(c1, o, e1, out) /\ ~c1.done
    <2>1. n \in Int /\ n = out[z]
      BY <1>1, <1>8
    <2> QED
      BY <1>5, <1>8, <1>9, <1>10, <2>1, CopyPush
  <1>12. e1 = 1
    BY <1>8
  <1> HIDE DEF e1
  <1> DEFINE e2 == e1 + n
  <1>13. CopyAt(c2, o, e2, out) /\ ~c2.done
    <2> DEFINE s == [i \in 1..n |-> i]
    <2>1. Counts(s, n)
      BY DEF Counts
    <2>2. c2 = ArgvFold(c1, s)
      BY <1>5
    <2>3. e1 \in Nat /\ e1 <= HostWords /\ HostWords + n <= StackWords
      BY <1>1, <1>2, <1>12
    <2>4. SameWords(o, HostWords, out, e1, n)
      <3>1. \A k \in 1..n : e1 + k - 1 = k
        BY <1>12
      <3> QED
        BY <1>1, <1>3, <3>1 DEF SameWords
    <2> HIDE DEF s
    <2>5. CopyAt(ArgvFold(c1, s), o, e1 + n, out) /\ ArgvFold(c1, s).done = c1.done
      BY <1>1, <1>11, <2>1, <2>3, <2>4, CopyArgs
    <2> QED
      BY <1>11, <2>2, <2>5
  <1>14. e2 = n + 1
    BY <1>1, <1>12
  <1> HIDE DEF e2
  <1> DEFINE e3 == e2 + 1
  <1>15. CopyAt(c3, o, e3, out) /\ ~c3.done
    <2> DEFINE w == NULL
    <2>1. e2 \in Nat /\ w \in Int /\ w = out[e2]
      BY <1>1, <1>14 DEF NULL
    <2>2. c3 = Push(c2, w)
      BY <1>5
    <2> HIDE DEF w
    <2> QED
      BY <1>13, <2>1, <2>2, CopyPush
  <1>16. e3 = n + 2
    BY <1>1, <1>14
  <1> HIDE DEF e3
  <1> DEFINE e4 == e3 + m
  <1>17. CopyAt(c4, o, e4, out)
    <2> DEFINE from == EnvpAt(args_)
               l == StackWords - from
               s == [i \in 1..l |-> i - 1]
    <2>1. Counts0(s, l)
      BY DEF Counts0
    <2>2. c4 = EnvpFold(from, c3, s)
      BY <1>6
    <2>3. /\ e3 \in Nat /\ from = HostWords + n + 1
      BY <1>1, <1>2, <1>16
    <2> HIDE DEF s, from
    <2>4. from \in Nat /\ e3 <= from /\ l \in Nat /\ m < l /\ from + l <= StackWords
      BY <1>1, <1>2, <1>16, <2>3
    <2>5. SameWords(o, from, out, e3, m) /\ NoNull(o, from, m)
      <3>1. \A k \in 1..m : e3 + k - 1 = n + 1 + k /\ from + k - 1 = HostWords + n + 1 + k - 1
        BY <1>1, <1>2, <1>16, <2>3
      <3>2. \A k \in 1..m : out[n + 1 + k] = args_.envp[k] /\ out[n + 1 + k] # 0
        BY <1>1
      <3>3. \A k \in 1..m : o[from + k - 1] = out[e3 + k - 1] /\ o[from + k - 1] # NULL
        BY <1>3, <3>1, <3>2 DEF NULL
      <3> QED
        BY <3>3 DEF SameWords, NoNull
    <2>6. o[from + m] = NULL
      BY <1>3, <2>3
    <2> HIDE DEF l
    <2> QED
      BY <1>1, <1>15, <2>1, <2>2, <2>3, <2>4, <2>5, <2>6, CopyEnv
  <1>18. e4 = n + m + 2
    BY <1>1, <1>16
  <1> HIDE DEF e4
  <1>19. CopyAt(c5, o, aux, out)
    <2> DEFINE s == Zeros(5)
               l == 5
    <2>1. s \in [1..l -> Int] /\ (\A k \in 1..l : s[k] = NULL) /\ l \in Nat /\ l = 5
      BY DEF Zeros, NULL
    <2>2. ASSUME NEW k \in 1..l PROVE s[k] = out[e4 + k - 1]
      <3>1. e4 + k - 1 = n + m + 1 + k
        BY <1>1, <1>18, <2>1
      <3> QED
        BY <1>1, <2>1, <3>1
    <2>3. e4 \in Nat /\ e4 + l = aux
      BY <1>1, <1>18, <2>1
    <2>4. c5 = PushAll(c4, s)
      BY <1>5
    <2> HIDE DEF s, l, aux
    <2>5. CopyAt(PushAll(c4, s), o, e4 + l, out)
      BY <1>17, <2>1, <2>2, <2>3, CopyAll
    <2> QED
      BY <2>3, <2>4, <2>5
  <1> DEFINE x == c5.stack[ArgvAt]
  <1>20. x \in Int /\ (ArgvAt >= aux => x = o[ArgvAt]) /\ c5 \in CopyState /\ c5.stEnd = aux
    <2>1. ArgvAt \in Cells
      BY <1>1, <1>2 DEF Cells
    <2>2. aux \in Int
      BY <1>1
    <2> HIDE DEF aux
    <2>3. ArgvAt >= aux => ~(ArgvAt < aux)
      BY <1>2, <2>2
    <2> QED
      BY <1>19, <2>1, <2>3 DEF CopyAt, CopyState
  <1> HIDE DEF x
  <1>21. /\ Keeps(c6, c5) /\ c6.stEnd = aux + 2 * 15
         /\ c6.stack[aux + 2 * 14] = AT_EXECFN /\ c6.stack[aux + 2 * 14 + 1] = x
    <2> DEFINE s == AuxTypes
               l == 15
               got == AuxvFold(x, c5, s)
    <2>1. l \in Nat /\ l # 0 /\ s \in [1..l -> Int] /\ s[l] = AT_EXECFN /\ l = 15 /\ l - 1 = 14
      BY AuxTypesAre
    <2>2. c6 = got
      BY <1>7 DEF x
    <2>3. c5.stEnd + 2 * l <= StackWords
      BY <1>1, <1>20
    <2> HIDE DEF s, l, got
    <2>4. Puts(c5, x, l, got)
      BY <1>20, <2>1, <2>3, AuxvPuts DEF got
    <2> QED
      BY <1>20, <2>1, <2>2, <2>4 DEF Puts
  <1>22. Keeps(c7, c6)
    <2> DEFINE s == Zeros(26)
               l == 26
    <2>1. s \in [1..l -> Int] /\ l \in Nat
      BY DEF Zeros, NULL
    <2>2. c7 = PushAll(c6, s) /\ c6 \in CopyState
      BY <1>5, <1>21 DEF Keeps
    <2> HIDE DEF s, l
    <2> QED
      BY <2>1, <2>2, KeepsAll
  <1>23. ASSUME NEW j \in 0..(aux - 1) PROVE c7.stack[j] = out[j]
    <2>1. j \in Cells /\ j < aux /\ j < aux + 30
      BY <1>1, <1>2 DEF Cells
    <2>2. c7.stack[j] = c6.stack[j]
      BY <1>21, <1>22, <2>1 DEF Keeps
    <2>3. c6.stack[j] = c5.stack[j]
      BY <1>20, <1>21, <2>1 DEF Keeps
    <2> QED
      BY <1>19, <2>1, <2>2, <2>3 DEF CopyAt
  <1>24. c7.stack[aux + 28] = AT_EXECFN /\ c7.stack[aux + 29] = x
    <2>1. /\ aux + 2 * 14 = aux + 28 /\ aux + 2 * 14 + 1 = aux + 29 /\ aux + 2 * 15 = aux + 30
          /\ aux + 28 < aux + 30 /\ aux + 29 < aux + 30
      BY <1>1
    <2>2. aux + 28 \in Cells /\ aux + 29 \in Cells
      BY <1>1, <1>2 DEF Cells
    <2> HIDE DEF aux
    <2>3. c6.stack[aux + 28] = AT_EXECFN /\ c6.stack[aux + 29] = x /\ c6.stEnd = aux + 30
      BY <1>21, <2>1
    <2> QED
      BY <1>22, <2>1, <2>2, <2>3 DEF Keeps
  <1>25. c7.stack \in [Cells -> Int]
    BY <1>22 DEF Keeps, CopyState
  <1>26. /\ c7.stack[0] = n /\ c7.stack[n + 1] = NULL /\ c7.stack[n + m + 2] = NULL
         /\ \A i \in 1..n : c7.stack[i] = args_.argv[i]
         /\ \A i \in 1..m : c7.stack[n + 1 + i] = args_.envp[i]
    <2>1. /\ 0 \in 0..(aux - 1) /\ n + 1 \in 0..(aux - 1) /\ n + m + 2 \in 0..(aux - 1)
          /\ (\A i \in 1..n : i \in 0..(aux - 1))
          /\ \A i \in 1..m : n + 1 + i \in 0..(aux - 1)
      BY <1>1
    <2>2. out[n + m + 2] = NULL
      <3>1. 1 \in 1..5 /\ n + m + 1 + 1 = n + m + 2
        BY <1>1
      <3> QED
        BY <1>1, <3>1
    <2> HIDE DEF aux
    <2> QED
      BY <1>1, <1>23, <2>1, <2>2
  <1>27. n > 0 /\ ArgvAt >= aux => x = args_.argv[1]
    <2>1. n > 0 => 1 \in 1..n /\ HostWords + 1 - 1 = HostWords
      BY <1>1, <1>2
    <2> QED
      BY <1>2, <1>3, <1>20, <2>1
  <1>28. n > 0 /\ ArgvAt >= aux =>
           \E k \in 0..(Len(AuxTypes) - 1) : /\ c7.stack[aux + 2 * k] = AT_EXECFN
                                             /\ c7.stack[aux + 2 * k + 1] = args_.argv[1]
    <2>1. 14 \in 0..(Len(AuxTypes) - 1)
      BY AuxTypesAre
    <2>2. aux + 2 * 14 = aux + 28 /\ aux + 2 * 14 + 1 = aux + 29
      BY <1>1
    <2> HIDE DEF aux
    <2> QED
      BY <1>24, <1>27, <2>1, <2>2
  <1> QED
    BY <1>4, <1>25, <1>26, <1>28 DEF FindsArgs, n, m

(* The stack is the kernel's until init has copied, and then the guest's.  *)
ArgsInv ==
  /\ args \in Arguments /\ StackHolds(args) /\ phase \in Phase
  /\ phase \in {"setup", "init"}    => stack = InitialStack(args)
  /\ phase \in {"run", "instrument"} => stack = Copied(args, InitialStack(args))

(* The process starts with the kernel's stack.                             *)
LEMMA ArgsInit == Init => ArgsInv
  BY SessionsAssumption, StackHoldsArguments DEF Init, ArgsInv, Phase

(* Only init writes to it.                                                 *)
LEMMA ArgsNext == ArgsInv /\ [Next]_vars => ArgsInv'
  <1> SUFFICES ASSUME ArgsInv, [Next]_vars PROVE ArgsInv'
    OBVIOUS
  <1>1. CASE Setup \/ runInstrument_NoTarget \/ Init_Crash \/ Instrument_Lost \/ Stub_GiveUp
               \/ Stub_Exit \/ Rest \/ UNCHANGED vars
    <2>1. UNCHANGED <<args, stack, phase>>
      BY <1>1 DEF Setup, runInstrument_NoTarget, Init_Crash, Instrument_Lost, Stub_GiveUp,
                  Stub_Exit, Rest, Fails, vars, walkVars
    <2> QED
      BY <2>1 DEF ArgsInv
  <1>2. CASE runInstrument
    BY <1>2 DEF runInstrument, ArgsInv, Phase
  <1>3. CASE Init_Guest
    <2>1. /\ phase = "init" /\ phase' \in {"run", "instrument"} /\ args' = args
          /\ stack' = Copied(args, stack)
      BY <1>3 DEF Init_Guest, EnterBlock
    <2> QED
      BY <2>1 DEF ArgsInv, Phase
  <1>4. CASE Instrument \/ Stub_Enter
    <2>1. /\ phase \in {"run", "instrument"} /\ phase' \in {"run", "instrument"}
          /\ UNCHANGED <<args, stack>>
      BY <1>4 DEF Instrument, Stub_Enter, InInstrument, InBlock, EnterBlock
    <2> QED
      BY <2>1 DEF ArgsInv, Phase
  <1> QED
    BY <1>1, <1>2, <1>3, <1>4 DEF Next

(* What init has written is what the guest is to find.                     *)
LEMMA ArgsFound == ArgsInv => GuestFindsItsArgs
  <1> SUFFICES ASSUME ArgsInv, phase \in {"run", "instrument"} PROVE FindsArgs(args, stack)
    BY DEF GuestFindsItsArgs, FindsArgs
  <1> QED
    BY CopiedIs DEF ArgsInv

(* dispatcher.cpp, init: the guest starts with its arguments and its       *)
(* environment on its stack, wherever the kernel's words lie above it.     *)
THEOREM ArgumentsArrive == Spec => []GuestFindsItsArgs
  <1> QED
    BY ArgsInit, ArgsNext, ArgsFound, PTL DEF Spec

-----------------------------------------------------------------------------
(* The types of everything else.                                           *)

IsBlocks(blocks) == DOMAIN blocks \subseteq Int /\ blocks \in [DOMAIN blocks -> Block]

Calls == SUBSET (Routine \X Int)

StateInv ==
  /\ rail \in [args : BOOLEAN, env : BOOLEAN, cfg : BOOLEAN, exit : BOOLEAN]
  /\ IsBlocks(RailBasicBlocks) /\ currentBB \in Int
  /\ status \in Status /\ visits \in 0..MaxVisits
  /\ preCalls \in Calls /\ visit \in [block : Block, pre : Calls, post : Calls]

(* The block of an address without one.                                    *)
LEMMA ZeroIsBlock == ZeroBlock \in Block
  BY DEF ZeroBlock, Block, BlockType

(* Looking a block up yields one.                                          *)
LEMMA LookupType ==
  ASSUME NEW blocks, IsBlocks(blocks), NEW a
  PROVE  Lookup(blocks, a) \in Block
  BY ZeroIsBlock DEF Lookup, IsBlocks

(* Inserting a block.                                                      *)
LEMMA WithType ==
  ASSUME NEW blocks, IsBlocks(blocks), NEW b \in Block
  PROVE  IsBlocks(With(blocks, b)) /\ IsBlocks(WithMissing(blocks, b))
  <1>1. b.firstAddr \in Int
    BY DEF Block
  <1>2. IsBlocks(With(blocks, b))
    BY <1>1 DEF With, IsBlocks
  <1> QED
    BY <1>2 DEF WithMissing

(* Allocating.                                                             *)
LEMMA AllocatedType ==
  ASSUME NEW blocks, IsBlocks(blocks), NEW a \in Int
  PROVE  IsBlocks(Allocated(blocks, a)) /\ IsBlocks(AllocateIfMissing(blocks, a))
  <1> DEFINE Ends(x) == a <= x /\ RunsThrough(a, x) /\ EndsBlock(x)
             Cut(x)  == a <= x /\ RunsThrough(a, x) /\ ~EndsBlock(x)
                          /\ Op(x + 1) # "none" /\ NeedsPreBlock(x + 1)
             end == CHOOSE x \in TextAddresses : Ends(x)
             cut == CHOOSE x \in TextAddresses : Cut(x)
             ending  == With(blocks, NewBlock(a, end, TypeAfter(Op(end))))
             cutting == WithMissing(With(blocks, NewBlock(a, cut, "SEGMENTED")),
                                    PreInstBB(cut + 1, a))
             pre == WithMissing(blocks, PreInstBB(a, a))
  <1>1. TextAddresses \subseteq Int
    BY DEF TextAddresses
  <1>2. ASSUME NEW x \in Int, NEW y \in Int, NEW t \in BlockType
        PROVE  NewBlock(x, y, t) \in Block /\ PreInstBB(x, y) \in Block
    BY TypeAfterType DEF NewBlock, PreInstBB, Block
  <1>3. IsBlocks(pre)
    <2>1. "UNSET" \in BlockType
      BY DEF BlockType
    <2> QED
      BY <1>2, <2>1, WithType
  <1>4. (\E x \in TextAddresses : Ends(x)) => IsBlocks(ending)
    <2> SUFFICES ASSUME \E x \in TextAddresses : Ends(x) PROVE IsBlocks(ending)
      OBVIOUS
    <2>1. end \in Int
      BY <1>1
    <2> HIDE DEF end
    <2>2. NewBlock(a, end, TypeAfter(Op(end))) \in Block
      BY <1>2, <2>1, TypeAfterType
    <2> QED
      BY <2>2, WithType
  <1>5. (\E x \in TextAddresses : Cut(x)) => IsBlocks(cutting)
    <2> SUFFICES ASSUME \E x \in TextAddresses : Cut(x) PROVE IsBlocks(cutting)
      OBVIOUS
    <2>0. cut \in Int /\ "SEGMENTED" \in BlockType
      BY <1>1 DEF BlockType
    <2> HIDE DEF cut
    <2>1. cut \in Int /\ cut + 1 \in Int /\ "SEGMENTED" \in BlockType
      BY <2>0
    <2>2. NewBlock(a, cut, "SEGMENTED") \in Block /\ PreInstBB(cut + 1, a) \in Block
      BY <1>2, <2>1
    <2> QED
      BY <2>2, WithType
  <1>6. IsBlocks(Allocated(blocks, a))
    BY <1>3, <1>4, <1>5 DEF Allocated
  <1> QED
    BY <1>6 DEF AllocateIfMissing

(* Handing a segment its predecessor's address.                            *)
LEMMA AdoptedType ==
  ASSUME NEW blocks, IsBlocks(blocks), NEW a, NEW from \in Block
  PROVE  IsBlocks(Adopted(blocks, a, from))
  BY DEF Adopted, IsBlocks, Block

(* What is called is a routine with an address.                            *)
LEMMA CallsType ==
  ASSUME ToolInv, NEW b \in Block, NEW bounded \in BOOLEAN, NEW a \in Int, NEW point
  PROVE  /\ EnterCalls(b, bounded) \in Calls /\ LeaveCalls(b) \in Calls
         /\ SystemCalls(point, b) \in Calls /\ InstrumentCalls(a) \in Calls
  <1>1. b.firstAddr \in Int /\ b.lastAddr \in Int /\ routines \subseteq Routine
    BY DEF Block, ToolInv
  <1>2. ASSUME NEW rs \in SUBSET routines, NEW x \in Int PROVE CallsAt(rs, x) \in Calls
    BY <1>1, <1>2 DEF CallsAt, Calls
  <1>3. \A p, whats : For(p, whats) \in SUBSET routines
    BY DEF For, Registered
  <1>4. \A p, whats : \A x \in Int : CallsFor(p, whats, x) \in Calls
    BY <1>2, <1>3 DEF CallsFor
  <1>5. SystemCalls(point, b) \in Calls /\ SystemCalls("POST", b) \in Calls
    BY <1>1, <1>4 DEF SystemCalls, Calls
  <1>6. BBPreCalls(b, bounded) \in Calls /\ BBPostCalls(b) \in Calls
    <2>1. \A S : {r \in For("PRE", {"BB"}) : bounded => Within(r, b.firstAddr, b.lastAddr)}
                   \in SUBSET routines
      BY <1>3
    <2>2. {r \in For("POST", {"BB"}) : Within(r, b.firstAddr, b.lastAddr)} \in SUBSET routines
      BY <1>3
    <2> QED
      BY <1>1, <1>2, <2>1, <2>2 DEF BBPreCalls, BBPostCalls, Calls
  <1>7. InstrumentCalls(a) \in Calls
    BY <1>2, <1>3 DEF InstrumentCalls, Calls
  <1>8. EnterCalls(b, bounded) \in Calls
    BY <1>1, <1>4, <1>6 DEF EnterCalls, Calls
  <1>9. LeaveCalls(b) \in Calls
    BY <1>1, <1>4, <1>5, <1>6 DEF LeaveCalls, Calls
  <1> QED
    BY <1>5, <1>7, <1>8, <1>9

(* Before the first call.                                                  *)
LEMMA StateInit == Init => StateInv
  <1> SUFFICES ASSUME Init PROVE StateInv
    OBVIOUS
  <1>1. IsBlocks(RailBasicBlocks)
    BY DEF Init, IsBlocks
  <1>2. preCalls \in Calls /\ visit \in [block : Block, pre : Calls, post : Calls]
    BY ZeroIsBlock DEF Init, NoVisit, Calls
  <1>3. /\ currentBB \in Int /\ status \in Status /\ visits \in 0..MaxVisits
        /\ rail \in [args : BOOLEAN, env : BOOLEAN, cfg : BOOLEAN, exit : BOOLEAN]
    BY MaxVisitsAssumption DEF Init, ApiInit, Status
  <1> QED
    BY <1>1, <1>2, <1>3 DEF StateInv

(* An API call.                                                            *)
LEMMA StateSetup ==
  ASSUME StateInv, Setup
  PROVE  StateInv'
  <1>1. UNCHANGED walkVars
    BY DEF Setup
  <1>2. rail' \in [args : BOOLEAN, env : BOOLEAN, cfg : BOOLEAN, exit : BOOLEAN]
    <2>1. PICK c \in calls :
            \/ addInstrumentBB(c)  \/ addInstrumentInst(c) \/ addInstrumentInstBounded(c)
            \/ registerArgs(c)     \/ setTarget(c)         \/ setTarget_Throws(c)
            \/ addCFGGeneration(c) \/ setExitRoutine(c)
      BY DEF Setup, ApiStep
    <2>2. CASE registerArgs(c)
      <3> DEFINE env == rail.env \/ c.env
      <3>1. rail' = [rail EXCEPT !.args = TRUE, !.env = env]
        BY <2>2 DEF registerArgs
      <3>2. env \in BOOLEAN
        OBVIOUS
      <3> HIDE DEF env
      <3> QED
        BY <3>1, <3>2 DEF StateInv
    <2>3. CASE addCFGGeneration(c) \/ setExitRoutine(c)
      BY <2>3 DEF addCFGGeneration, setExitRoutine, StateInv
    <2>4. CASE ~(registerArgs(c) \/ addCFGGeneration(c) \/ setExitRoutine(c))
      <3>1. rail' = rail
        BY <2>1, <2>4 DEF addInstrumentBB, addInstrumentInst, addInstrumentInstBounded,
                          setTarget, setTarget_Throws
      <3> QED
        BY <3>1 DEF StateInv
    <2> QED
      BY <2>2, <2>3, <2>4
  <1> QED
    BY <1>1, <1>2 DEF walkVars, StateInv

(* init.                                                                   *)
LEMMA StateInitGuest ==
  ASSUME StateInv, ToolInv, TargetInv, Init_Guest
  PROVE  StateInv'
  <1> DEFINE blocks == Allocated(RailBasicBlocks, target.entry)
             first  == Lookup(blocks, target.entry)
  <1>1. /\ RailBasicBlocks' = blocks /\ currentBB' = target.entry
        /\ preCalls' = EnterCalls(first, TRUE)
        /\ UNCHANGED <<rail, status, visits, visit>>
    BY DEF Init_Guest, apiVars
  <1>2. target.entry \in Int /\ IsBlocks(blocks)
    BY AllocatedType DEF TargetInv, StateInv
  <1>3. EnterCalls(first, TRUE) \in Calls
    <2>1. first \in Block
      BY <1>2, LookupType
    <2> DEFINE t == TRUE
               z == 0
    <2>2. t \in BOOLEAN /\ z \in Int
      OBVIOUS
    <2> HIDE DEF t, first, z
    <2>3. EnterCalls(first, t) \in Calls
      BY <2>1, <2>2, CallsType
    <2> QED
      BY <2>3 DEF t
  <1> HIDE DEF first, blocks
  <1> QED
    BY <1>1, <1>2, <1>3 DEF StateInv

(* The current block is one.                                               *)
LEMMA CurrentType == ASSUME StateInv PROVE Current \in Block
  BY LookupType DEF StateInv, Current

(* Leaving a block.                                                        *)
LEMMA StateLeaves ==
  ASSUME StateInv, ToolInv, TargetInv, InBlock, NEW post \in Calls, LeaveBlock(post)
  PROVE  visits' \in 0..MaxVisits /\ visit' \in [block : Block, pre : Calls, post : Calls]
  <1>1. visits' \in 0..MaxVisits
    BY MaxVisitsAssumption DEF LeaveBlock, InBlock, StateInv
  <1> DEFINE pre == preCalls \cup SystemCalls("PRE", Current)
             b   == Current
  <1>2. b \in Block
    BY CurrentType
  <1>3. pre \in Calls
    <2> DEFINE t == TRUE
               z == 0
    <2>1. t \in BOOLEAN /\ z \in Int
      OBVIOUS
    <2> HIDE DEF t, z
    <2>2. SystemCalls("PRE", b) \in Calls
      <3> HIDE DEF b
      <3> QED BY <1>2, <2>1, CallsType
    <2> QED
      BY <2>2 DEF StateInv, Calls
  <1>4. visit' = [block |-> b, pre |-> pre, post |-> post]
    BY DEF LeaveBlock
  <1> HIDE DEF pre, b
  <1> QED
    BY <1>1, <1>2, <1>3, <1>4

(* What leaving it needs.                                                  *)
LEMMA LeavingType ==
  ASSUME StateInv, ToolInv
  PROVE  /\ LeaveCalls(Current) \in Calls /\ InstrumentCalls(currentBB) \in Calls
         /\ Current.basicBlockAddress \in Int /\ Current.lastAddr \in Int
  <1> DEFINE b == Current
             a == currentBB
             t == TRUE
             p == "PRE"
  <1>1. b \in Block /\ a \in Int /\ t \in BOOLEAN
    BY CurrentType DEF StateInv
  <1>2. Current.basicBlockAddress \in Int /\ Current.lastAddr \in Int
    BY <1>1 DEF Block
  <1> HIDE DEF a, b, t, p
  <1>3. LeaveCalls(b) \in Calls /\ InstrumentCalls(a) \in Calls
    BY <1>1, CallsType
  <1> QED
    BY <1>2, <1>3 DEF a, b

(* stub, into the next block.                                              *)
LEMMA StateStubEnter ==
  ASSUME StateInv, ToolInv, TargetInv, Stub_Enter
  PROVE  StateInv'
  <1>1. PICK next \in NextAddrs(Current.lastAddr) :
          LET blocks == AllocateIfMissing(RailBasicBlocks, next)
              block  == Lookup(blocks, next)
          IN  /\ LeaveBlock(LeaveCalls(Current))
              /\ RailBasicBlocks' = Adopted(blocks, next, Current)
              /\ currentBB' = next
              /\ preCalls' = EnterCalls(block, FALSE)
              /\ UNCHANGED <<apiVars, args, stack, status>>
    BY DEF Stub_Enter
  <1> DEFINE blocks == AllocateIfMissing(RailBasicBlocks, next)
             block  == Lookup(blocks, next)
             from   == Current
  <1>2. next \in Int /\ InBlock
    BY LeavingType, NextAddrsType DEF Stub_Enter
  <1>3. IsBlocks(blocks) /\ from \in Block /\ block \in Block
    BY <1>2, AllocatedType, LookupType, CurrentType DEF StateInv
  <1> HIDE DEF blocks, block, from
  <1>4. IsBlocks(Adopted(blocks, next, from))
    BY <1>3, AdoptedType
  <1>5. EnterCalls(block, FALSE) \in Calls
    <2> DEFINE t == FALSE
               z == 0
    <2>1. t \in BOOLEAN /\ z \in Int
      OBVIOUS
    <2> HIDE DEF t, z
    <2>2. EnterCalls(block, t) \in Calls
      BY <1>3, <2>1, CallsType
    <2> QED
      BY <2>2 DEF t
  <1>6. visits' \in 0..MaxVisits /\ visit' \in [block : Block, pre : Calls, post : Calls]
    BY <1>1, <1>2, LeavingType, StateLeaves
  <1>7. /\ RailBasicBlocks' = Adopted(blocks, next, from) /\ currentBB' = next
        /\ preCalls' = EnterCalls(block, FALSE) /\ rail' = rail /\ status' = status
    BY <1>1 DEF apiVars, blocks, block, from
  <1> QED
    BY <1>2, <1>4, <1>5, <1>6, <1>7 DEF StateInv

(* stub, when it goes no further.                                          *)
LEMMA StateEnds ==
  ASSUME StateInv, ToolInv, TargetInv, Stub_GiveUp \/ Stub_Exit
  PROVE  StateInv'
  <1>1. CASE Stub_GiveUp
    <2>1. PICK next \in NextAddrs(Current.lastAddr) :
             /\ LeaveBlock(LeaveCalls(Current)) /\ currentBB' = next
             /\ status' = "faulted" /\ InBlock
             /\ UNCHANGED <<apiVars, args, stack, RailBasicBlocks, phase, preCalls>>
      BY <1>1 DEF Stub_GiveUp
    <2>2. next \in Int
      BY LeavingType, NextAddrsType
    <2>3. visits' \in 0..MaxVisits /\ visit' \in [block : Block, pre : Calls, post : Calls]
      BY <2>1, LeavingType, StateLeaves
    <2> QED
      BY <2>1, <2>2, <2>3 DEF StateInv, Status, apiVars
  <1>2. CASE Stub_Exit
    <2>1. /\ LeaveBlock({}) /\ status' = "exited" /\ InBlock
          /\ UNCHANGED <<apiVars, args, stack, RailBasicBlocks, currentBB, phase, preCalls>>
      BY <1>2 DEF Stub_Exit
    <2>2. {} \in Calls
      BY DEF Calls
    <2>3. visits' \in 0..MaxVisits /\ visit' \in [block : Block, pre : Calls, post : Calls]
      BY <2>1, <2>2, StateLeaves
    <2> QED
      BY <2>1, <2>3 DEF StateInv, Status, apiVars
  <1> QED
    BY <1>1, <1>2

(* Every step.                                                             *)
LEMMA StateNext == StateInv /\ ToolInv /\ TargetInv /\ [Next]_vars => StateInv'
  <1> SUFFICES ASSUME StateInv, ToolInv, TargetInv, [Next]_vars PROVE StateInv'
    OBVIOUS
  <1>1. CASE runInstrument \/ runInstrument_NoTarget \/ Init_Crash \/ Rest \/ UNCHANGED vars
    <2>1. /\ UNCHANGED <<rail, RailBasicBlocks, currentBB, visits, preCalls, visit>>
          /\ status' \in Status
      BY <1>1 DEF runInstrument, runInstrument_NoTarget, Init_Crash, Rest, Fails, vars, apiVars,
                  walkVars, Status, StateInv
    <2> QED
      BY <2>1 DEF StateInv
  <1>2. CASE Instrument \/ Instrument_Lost
    <2>1. /\ UNCHANGED <<rail, RailBasicBlocks, currentBB, visits, visit>>
          /\ preCalls' = preCalls \cup InstrumentCalls(currentBB) /\ status' \in Status
      BY <1>2 DEF Instrument, Instrument_Lost, apiVars, Status, StateInv
    <2>2. preCalls' \in Calls
      BY <2>1, LeavingType DEF StateInv, Calls
    <2> QED
      BY <2>1, <2>2 DEF StateInv
  <1> QED
    BY <1>1, <1>2, StateSetup, StateInitGuest, StateStubEnter, StateEnds DEF Next

(* Together.                                                               *)
WholeInv == SessionInv /\ ElfInv /\ ImageInv /\ ArgsInv /\ WalkInv /\ StateInv

(* The parts of the invariant give every type.                             *)
LEMMA WholeType == WholeInv => SessionTypeOK
  <1> SUFFICES ASSUME WholeInv PROVE SessionTypeOK
    OBVIOUS
  <1>1. /\ calls \subseteq ApiCall /\ routines \subseteq Routine
        /\ instructionRoutinesStart \in Int /\ instructionRoutinesEnd \in Nat
    BY DEF WholeInv, SessionInv, ToolInv
  <1>2. target \in File
    <2>1. NoFile \in File
      <3> DEFINE e == << >>
      <3>1. e \in Seq(Inst) /\ e \in Seq(Section)
        OBVIOUS
      <3> HIDE DEF e
      <3>2. [kind |-> "missing", size |-> 0, entry |-> 0, text |-> e, sections |-> e] \in File
        BY <3>1 DEF File
      <3> QED
        BY <3>2 DEF NoFile, e
    <2> QED
      BY <2>1 DEF WholeInv, ElfInv, Loadable
  <1>3. data \in [Addresses -> Nat]
    BY DEF WholeInv, ImageInv
  <1>4. args \in Arguments /\ phase \in Phase
    BY DEF WholeInv, ArgsInv
  <1>5. stack \in [0..(StackWords - 1) -> Int]
    <2>1. phase \in {"setup", "init"} \/ phase \in {"run", "instrument"}
      BY <1>4 DEF Phase
    <2>2. /\ InitialStack(args) \in [Cells -> Int]
          /\ Copied(args, InitialStack(args)) \in [Cells -> Int]
      BY KernelLeaves, CopiedIs DEF WholeInv, ArgsInv
    <2> QED
      BY <2>1, <2>2 DEF WholeInv, ArgsInv, Cells
  <1>6. DOMAIN entries \subseteq Int \X Int /\ entries \in [DOMAIN entries -> Nat]
    BY DEF WholeInv, WalkInv, IsGraph
  <1>7. /\ rail \in [args : BOOLEAN, env : BOOLEAN, cfg : BOOLEAN, exit : BOOLEAN]
        /\ DOMAIN RailBasicBlocks \subseteq Int
        /\ RailBasicBlocks \in [DOMAIN RailBasicBlocks -> Block]
        /\ currentBB \in Int /\ status \in Status /\ visits \in 0..MaxVisits
        /\ preCalls \subseteq Routine \X Int
        /\ visit \in [block : Block, pre : SUBSET (Routine \X Int),
                      post : SUBSET (Routine \X Int)]
    BY DEF WholeInv, StateInv, IsBlocks, Calls
  <1> QED
    BY <1>1, <1>2, <1>3, <1>4, <1>5, <1>6, <1>7 DEF SessionTypeOK

(* The state of a session is of the shapes the code declares.              *)
THEOREM SessionTypeCorrect == Spec => []SessionTypeOK
  <1>1. Init => WholeInv
    BY InitInv, ElfInit, ImageInit, ArgsInit, WalkInit, StateInit DEF WholeInv
  <1>2. WholeInv /\ [Next]_vars => WholeInv'
    <2>1. WholeInv => ToolInv /\ TargetInv
      BY DEF WholeInv, SessionInv
    <2> QED
      BY <2>1, NextInv, ElfNext, ImageNext, ArgsNext, WalkNext, StateNext DEF WholeInv
  <1> QED
    BY <1>1, <1>2, WholeType, PTL DEF Spec
=============================================================================
