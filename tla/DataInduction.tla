--------------------------- MODULE DataInduction ---------------------------
(***************************************************************************)
(* Induction over numbers and recursive functions, for proofs about sums   *)
(* and sequences.  A predicate is given as the set of the numbers that     *)
(* have it, and a recursive definition as a functional between sets of     *)
(* functions, so that each fact can be cited for any instance.             *)
(***************************************************************************)
EXTENDS Integers, WellFoundedInduction, TLAPS

\* A nonempty set of natural numbers has a least element.
LEMMA LeastElement ==
  ASSUME NEW T \in SUBSET Nat, T # {}
  PROVE  \E n \in T : \A m \in T : n <= m
<1> DEFINE R == {ij \in Nat \X Nat : ij[1] < ij[2]}
<1>1. IsWellFoundedOn(R, Nat)
  BY NatLessThanWellFounded DEF OpToRel
<1>2. \E n \in T : \A m \in T : ~ (<<m, n>> \in R)
  <2> HIDE DEF R
  <2> QED
    BY <1>1, WFMin
<1>3. PICK n \in T : \A m \in T : ~ (<<m, n>> \in R)
  BY <1>2
<1>4. ASSUME NEW m \in T PROVE n <= m
  <2>1. <<m, n>> \notin R /\ m \in Nat /\ n \in Nat
    BY <1>3
  <2> QED
    BY <2>1
<1> QED
  BY <1>4

\* A set that contains a number once it contains all smaller ones contains all.
LEMMA AllNumbers ==
  ASSUME NEW S,
         \A n \in Nat : (\A m \in Nat : m < n => m \in S) => n \in S
  PROVE  \A n \in Nat : n \in S
<1> SUFFICES ASSUME {n \in Nat : n \notin S} # {} PROVE FALSE
  OBVIOUS
<1>1. PICK n \in {k \in Nat : k \notin S} : \A m \in {k \in Nat : k \notin S} : n <= m
  BY LeastElement
<1>2. \A m \in Nat : m < n => m \in S
  BY <1>1
<1> QED
  BY <1>1, <1>2

\* The same from each number to the next.
LEMMA FromZero ==
  ASSUME NEW S, 0 \in S, \A n \in Nat : n \in S => n + 1 \in S
  PROVE  \A n \in Nat : n \in S
<1>1. ASSUME NEW n \in Nat, \A m \in Nat : m < n => m \in S PROVE n \in S
  <2>1. CASE n = 0
    BY <2>1
  <2>2. CASE n # 0
    <3>1. n - 1 \in Nat /\ n - 1 < n /\ (n - 1) + 1 = n
      BY <2>2
    <3>2. n - 1 \in S
      BY <1>1, <3>1
    <3> QED
      BY <3>1, <3>2
  <2> QED
    BY <2>1, <2>2
<1> QED
  BY <1>1, AllNumbers
-----------------------------------------------------------------------------
(* Recursive functions from D to V: F makes of a function the one whose    *)
(* values its definition gives, and the value at x depends on the values   *)
(* at places of lower rank only.                                           *)

Recursion(D, V, rank, F) ==
  /\ rank \in [D -> Nat]
  /\ F \in [[D -> V] -> [D -> V]]
  /\ \A g, h \in [D -> V], x \in D :
       (\A y \in D : rank[y] < rank[x] => g[y] = h[y]) => F[g][x] = F[h][x]

\* g obeys the definition at all places of rank below n.
Obeys(g, n, D, rank, F) == \A x \in D : rank[x] < n => g[x] = F[g][x]

LEMMA ObeysUnique ==
  ASSUME NEW D, NEW V, NEW rank, NEW F, Recursion(D, V, rank, F),
         NEW g \in [D -> V], NEW h \in [D -> V], NEW n \in Nat,
         Obeys(g, n, D, rank, F), Obeys(h, n, D, rank, F)
  PROVE  \A x \in D : rank[x] < n => g[x] = h[x]
<1> DEFINE S == {k \in Nat : \A x \in D : rank[x] = k /\ k < n => g[x] = h[x]}
<1>1. ASSUME NEW k \in Nat, \A m \in Nat : m < k => m \in S PROVE k \in S
  <2> SUFFICES ASSUME NEW x \in D, rank[x] = k, k < n PROVE g[x] = h[x]
    OBVIOUS
  <2>1. ASSUME NEW y \in D, rank[y] < rank[x] PROVE g[y] = h[y]
    <3>1. rank[y] \in Nat /\ rank[y] < n /\ rank[y] < k
      BY <2>1 DEF Recursion
    <3> QED
      BY <1>1, <3>1
  <2>2. F[g][x] = F[h][x]
    BY <2>1 DEF Recursion
  <2> QED
    BY <2>2 DEF Obeys
<1>2. \A k \in Nat : k \in S
  <2> HIDE DEF S
  <2> QED
    BY <1>1, AllNumbers
<1> SUFFICES ASSUME NEW x \in D, rank[x] < n PROVE g[x] = h[x]
  OBVIOUS
<1>3. rank[x] \in Nat
  BY DEF Recursion
<1> QED
  BY <1>2, <1>3

LEMMA ObeysExists ==
  ASSUME NEW D, NEW V, NEW rank, NEW F, Recursion(D, V, rank, F), NEW start \in [D -> V]
  PROVE  \A n \in Nat : \E g \in [D -> V] : Obeys(g, n, D, rank, F)
<1> DEFINE S == {n \in Nat : \E g \in [D -> V] : Obeys(g, n, D, rank, F)}
<1>1. 0 \in S
  <2>1. \A x \in D : rank[x] \in Nat
    BY DEF Recursion
  <2>2. Obeys(start, 0, D, rank, F)
    BY <2>1 DEF Obeys
  <2> QED
    BY <2>2
<1>2. ASSUME NEW n \in Nat, n \in S PROVE n + 1 \in S
  <2>1. PICK g \in [D -> V] : Obeys(g, n, D, rank, F)
    BY <1>2
  <2>2. F[g] \in [D -> V]
    BY DEF Recursion
  <2>3. ASSUME NEW x \in D, rank[x] < n + 1 PROVE F[g][x] = F[F[g]][x]
    <3>1. ASSUME NEW y \in D, rank[y] < rank[x] PROVE g[y] = F[g][y]
      <4>1. rank[y] \in Nat /\ rank[x] \in Nat
        BY DEF Recursion
      <4>2. rank[y] < n
        BY <2>3, <3>1, <4>1
      <4> QED
        BY <2>1, <4>2 DEF Obeys
    <3> QED
      BY <2>2, <3>1 DEF Recursion
  <2>4. Obeys(F[g], n + 1, D, rank, F)
    BY <2>3 DEF Obeys
  <2> QED
    BY <2>2, <2>4
<1> HIDE DEF S
<1>3. \A n \in Nat : n \in S
  BY <1>1, <1>2, FromZero
<1> QED
  BY <1>3 DEF S

\* There is a function that obeys the definition everywhere.
THEOREM RecursionExists ==
  ASSUME NEW D, NEW V, NEW rank, NEW F, Recursion(D, V, rank, F), NEW start \in [D -> V]
  PROVE  \E f \in [D -> V] : f = F[f]
<1> DEFINE Good(n) == CHOOSE g \in [D -> V] : Obeys(g, n, D, rank, F)
           f == [x \in D |-> Good(rank[x] + 1)[x]]
<1>1. ASSUME NEW n \in Nat PROVE Good(n) \in [D -> V] /\ Obeys(Good(n), n, D, rank, F)
  BY ObeysExists
<1>2. \A x \in D : rank[x] \in Nat /\ rank[x] + 1 \in Nat
  BY DEF Recursion
<1> HIDE DEF Good
<1>3. f \in [D -> V]
  BY <1>1, <1>2
<1>4. ASSUME NEW x \in D PROVE f[x] = F[f][x]
  <2> DEFINE g == Good(rank[x] + 1)
  <2>1. g \in [D -> V] /\ Obeys(g, rank[x] + 1, D, rank, F)
    BY <1>1, <1>2
  <2>2. ASSUME NEW y \in D, rank[y] < rank[x] PROVE f[y] = g[y]
    <3> DEFINE h == Good(rank[y] + 1)
    <3>1. h \in [D -> V] /\ Obeys(h, rank[y] + 1, D, rank, F)
      BY <1>1, <1>2
    <3>2. Obeys(g, rank[y] + 1, D, rank, F)
      BY <1>2, <2>1, <2>2 DEF Obeys
    <3> HIDE DEF g, h
    <3>3. h[y] = g[y]
      BY <1>2, <2>1, <3>1, <3>2, ObeysUnique
    <3> QED
      BY <3>3 DEF h
  <2>3. F[f][x] = F[g][x]
    <3> HIDE DEF f, g
    <3> QED
      BY <1>3, <2>1, <2>2 DEF Recursion
  <2>4. g[x] = F[g][x]
    <3> HIDE DEF g
    <3> QED
      BY <1>2, <2>1 DEF Obeys
  <2> QED
    BY <2>3, <2>4
<1>5. F[f] \in [D -> V]
  <2> HIDE DEF f
  <2> QED
    BY <1>3 DEF Recursion
<1>6. f = F[f]
  <2> HIDE DEF f
  <2> QED
    BY <1>3, <1>4, <1>5
<1> HIDE DEF f
<1> QED
  BY <1>3, <1>6
=============================================================================
