------------------------- MODULE Checksums_proofs -------------------------
(***************************************************************************)
(* The sums of words as a recursive function, for sequences of any length; *)
(* and what a receiver makes of a packet whose sender folds the sum once.  *)
(***************************************************************************)
EXTENDS Checksums, DataInduction, SequenceTheorems

(* The sum of the words *)

\* Pairs of places of words.
Ranges(n) == (1 .. n) \X (1 .. n)

\* The right side of the definition of the sums.
SumsStep(bytes, s) ==
  [r \in Ranges(Len(bytes) \div 2) |->
      IF r[1] >= r[2] THEN WordAt(bytes, r[1])
      ELSE s[<<r[1], (r[1] + r[2]) \div 2>>] + s[<<(r[1] + r[2]) \div 2 + 1, r[2]>>]]

\* A range is cut into two that are shorter.
LEMMA Middle ==
  ASSUME NEW a \in Nat, NEW b \in Nat, a < b
  PROVE  /\ (a + b) \div 2 \in Nat
         /\ a <= (a + b) \div 2 /\ (a + b) \div 2 < b
  OBVIOUS

\* A word is a number of sixteen bits.
LEMMA WordType ==
  ASSUME NEW bytes \in Seq(Byte), NEW i \in 1 .. Len(bytes) \div 2
  PROVE  WordAt(bytes, i) \in Nat /\ WordAt(bytes, i) < W
<1>1. i \in Nat /\ 2 * i - 1 \in 1 .. Len(bytes) /\ 2 * i \in 1 .. Len(bytes)
  OBVIOUS
<1>2. PICK x \in Byte, y \in Byte : x = bytes[2 * i - 1] /\ y = bytes[2 * i]
  BY <1>1
<1>3. WordAt(bytes, i) = x + 256 * y
  BY <1>2 DEF WordAt
<1>4. x + 256 * y \in Nat /\ x + 256 * y < W
  BY DEF Byte, W
<1> QED
  BY <1>3, <1>4

\* The recursion of Sums defines a function, and it obeys its definition.
LEMMA SumsDef ==
  ASSUME NEW bytes \in Seq(Byte)
  PROVE  Sums(bytes) \in [Ranges(Len(bytes) \div 2) -> Nat] /\ Sums(bytes) = SumsStep(bytes, Sums(bytes))
<1> DEFINE n == Len(bytes) \div 2
           D == Ranges(n)
           rank == [r \in D |-> IF r[1] >= r[2] THEN 0 ELSE r[2] - r[1]]
           F == [g \in [D -> Nat] |-> SumsStep(bytes, g)]
<1>0. n \in Nat
  OBVIOUS
<1>2. rank \in [D -> Nat]
  BY <1>0 DEF Ranges
<1>4. ASSUME NEW r \in D, r[1] < r[2]
      PROVE  /\ <<r[1], (r[1] + r[2]) \div 2>> \in D
             /\ <<(r[1] + r[2]) \div 2 + 1, r[2]>> \in D
             /\ rank[<<r[1], (r[1] + r[2]) \div 2>>] < rank[r]
             /\ rank[<<(r[1] + r[2]) \div 2 + 1, r[2]>>] < rank[r]
    <2>1. r[1] \in 1..n /\ r[2] \in 1..n 
      BY <1>0 DEF Ranges
    <2>3. (r[1] + r[2]) \div 2 \in Nat /\ r[1] <= (r[1] + r[2]) \div 2 /\ (r[1] + r[2]) \div 2 < r[2]
      BY <2>1, <1>4, Middle
    <2> DEFINE m == (r[1] + r[2]) \div 2
    <2> HIDE DEF m
    <2>2. <<r[1], m>> \in D /\ <<m + 1, r[2]>> \in D
      BY <1>0, <2>1, <1>4, <2>3 DEF Ranges, m
    <2>4. rank[<<r[1], m>>] < rank[r] /\ rank[<<m+1, r[2]>>] < rank[r]
      BY <1>0, <2>1, <1>4, <2>3, <2>2 DEF m
    <2> QED BY <2>2, <2>4 DEF m
<1>3. ASSUME NEW g \in [D -> Nat] PROVE SumsStep(bytes, g) \in [D -> Nat]
  <2> SUFFICES ASSUME NEW r \in D PROVE
      (IF r[1] >= r[2] THEN WordAt(bytes, r[1])
      ELSE g[<<r[1], (r[1] + r[2]) \div 2>>] + g[<<(r[1] + r[2]) \div 2 + 1, r[2]>>]) \in Nat
    BY DEF SumsStep
  <2>1. r[1] \in 1..n /\ r[2] \in 1..n 
    BY <1>0 DEF Ranges
  <2>2. CASE r[1] >= r[2]
    BY <2>1, <2>2, WordType
  <2>3. CASE r[1] < r[2]
    <3> DEFINE x == <<r[1], (r[1] + r[2]) \div 2>>
               y == <<(r[1] + r[2]) \div 2 + 1, r[2]>>
    <3>1. x \in D /\ y \in D
      BY <2>3, <1>4
    <3>2. g[x] + g[y] \in Nat
      <4> HIDE DEF x, y, D
      <4> QED BY <3>1
    <3> QED BY <2>1, <2>3, <3>2
  <2> QED BY <2>1, <2>2, <2>3
<1>5. ASSUME NEW g \in [D -> Nat], NEW h \in [D -> Nat], NEW r \in D,
             \A y \in D : rank[y] < rank[r] => g[y] = h[y]
      PROVE  SumsStep(bytes, g)[r] = SumsStep(bytes, h)[r]
  <2>1. r[1] \in Nat /\ r[2] \in Nat 
    BY <1>0 DEF Ranges
  <2>2. CASE r[1] >= r[2]
    BY <2>2 DEF SumsStep
  <2>3. CASE r[1] < r[2]
    <3>1. ~(r[1] >= r[2])
      BY <2>1, <2>3
    <3> HIDE DEF rank
    <3> QED BY <3>1, <2>3, <1>4, <1>5 DEF SumsStep
  <2> QED BY <2>1, <2>2, <2>3
<1>6. Recursion(D, Nat, rank, F)
  <2> HIDE DEF rank, D
  <2> QED
    BY <1>2, <1>3, <1>5 DEF Recursion
<1>7. [r \in D |-> 0] \in [D -> Nat]
  OBVIOUS
<1>8. PICK f \in [D -> Nat] : f = SumsStep(bytes, f)
  <2>1. \E f \in [D -> Nat] : f = F[f]
    <3>1. PICK start \in [D -> Nat] : TRUE
      BY <1>7
    <3> HIDE DEF D, rank, F
    <3> QED BY <1>6, <3>1, RecursionExists
  <2> HIDE DEF D
  <2> QED BY <2>1
<1>9. Sums(bytes) = CHOOSE s : s = SumsStep(bytes, s)
  BY DEF Sums, SumsStep, Ranges
<1>10. Sums(bytes) = SumsStep(bytes, Sums(bytes))
  BY <1>8, <1>9
<1> DEFINE S == {k \in Nat : \A r \in D : rank[r] = k => Sums(bytes)[r] \in Nat}
<1>11. ASSUME NEW k \in Nat, \A m \in Nat : m < k => m \in S PROVE k \in S
  <2> SUFFICES ASSUME NEW r \in D, rank[r] = k PROVE Sums(bytes)[r] \in Nat
    OBVIOUS
  <2>1. r[1] \in 1..n /\ r[2] \in 1..n 
    BY <1>0 DEF Ranges
  <2>4. Sums(bytes)[r] = SumsStep(bytes, Sums(bytes))[r]
    BY <1>10
  <2>2. CASE r[1] >= r[2]
    <3>1. Sums(bytes)[r] = WordAt(bytes, r[1])
      BY <2>2, <2>4 DEF SumsStep
    <3> QED 
      BY <2>1, <3>1, WordType
  <2>3. CASE ~ (r[1] >= r[2])
    <3> DEFINE x == <<r[1], (r[1] + r[2]) \div 2>>
               y == <<(r[1] + r[2]) \div 2 + 1, r[2]>>
    <3>1. Sums(bytes)[r] = Sums(bytes)[x] + Sums(bytes)[y]
      BY <2>3, <2>4 DEF SumsStep
    <3>2. x \in D /\ y \in D /\ rank[x] < rank[r] /\ rank[y] < rank[r]
      <4>1. r[1] < r[2]
        BY <2>1, <2>3
      <4> HIDE DEF rank, D
      <4> QED BY <4>1, <1>4
    <3>3. rank[x] \in Nat /\ rank[y] \in Nat
      BY <1>2, <3>2
    <3>4. Sums(bytes)[x] \in Nat /\ Sums(bytes)[y] \in Nat
      <4> HIDE DEF x, y, rank
      <4> QED BY <3>2, <3>3, <1>11
    <3> QED BY <3>1, <3>4
  <2> QED BY <2>2, <2>3
<1>12. \A k \in Nat : k \in S
  <2> HIDE DEF S
  <2> QED BY <1>11, AllNumbers
<1>13. \A r \in D : Sums(bytes)[r] \in Nat
  BY <1>12, <1>2
<1> QED BY <1>10, <1>13 DEF SumsStep

\* What holds of the single words, and of a range of words when it holds of
\* its halves, holds of every range.
LEMMA ByHalves ==
  ASSUME NEW n \in Nat, NEW P,
         \A i \in 1 .. n : <<i, i>> \in P,
         \A a, m, b \in 1 .. n :
           a <= m /\ m < b /\ <<a, m>> \in P /\ <<m + 1, b>> \in P
             /\ m = (a + b) \div 2 => <<a, b>> \in P
  PROVE  \A a, b \in 1 .. n : a <= b => <<a, b>> \in P
<1> DEFINE S == {k \in Nat : \A a, b \in 1 .. n : a <= b /\ b - a = k => <<a, b>> \in P}
<1>1. ASSUME NEW k \in Nat, \A j \in Nat : j < k => j \in S PROVE k \in S
  <2> SUFFICES ASSUME NEW a \in 1 .. n, NEW b \in 1 .. n, a <= b, b - a = k
               PROVE  <<a, b>> \in P
    OBVIOUS
  <2>1. CASE a = b
    BY <2>1
  <2>2. CASE a < b
    <3>1. PICK m \in Nat : m = (a + b) \div 2 /\ a <= m /\ m < b
      BY <2>2, Middle
    <3>2. /\ m \in 1 .. n /\ m + 1 \in 1 .. n /\ m + 1 <= b
          /\ m - a \in Nat /\ m - a < k /\ b - (m + 1) \in Nat /\ b - (m + 1) < k
      BY <3>1
    <3>3. <<a, m>> \in P /\ <<m + 1, b>> \in P
      BY <1>1, <3>1, <3>2
    <3> QED
      BY <3>1, <3>2, <3>3
  <2> QED
    BY <2>1, <2>2
<1>2. \A k \in Nat : k \in S
  <2> HIDE DEF S
  <2> QED
    BY <1>1, AllNumbers
<1> SUFFICES ASSUME NEW a \in 1 .. n, NEW b \in 1 .. n, a <= b PROVE <<a, b>> \in P
  OBVIOUS
<1>3. b - a \in Nat
  OBVIOUS
<1> QED
  BY <1>2, <1>3

\* s is the sum of a word, of two halves.
Halved(s, bytes, n) ==
  /\ \A i \in 1 .. n : s[<<i, i>>] = WordAt(bytes, i)
  /\ \A a, m, b \in 1 .. n :
       a <= m /\ m < b /\ m = (a + b) \div 2 => s[<<a, b>>] = s[<<a, m>>] + s[<<m + 1, b>>]
  /\ \A a, b \in 1 .. n : s[<<a, b>>] \in Nat

LEMMA SumsIs ==
  ASSUME NEW bytes \in Seq(Byte)
  PROVE  Halved(Sums(bytes), bytes, Len(bytes) \div 2)
<1> DEFINE n == Len(bytes) \div 2
<1>0. n \in Nat
  OBVIOUS
<1>1. Sums(bytes) \in [Ranges(n) -> Nat] /\ Sums(bytes) = SumsStep(bytes, Sums(bytes))
  BY SumsDef
<1>2. ASSUME NEW i \in 1 .. n PROVE Sums(bytes)[<<i, i>>] = WordAt(bytes, i)
  <2>1. <<i, i>> \in Ranges(n) /\ i >= i
    BY <1>0 DEF Ranges
  <2> QED
    BY <1>1, <2>1 DEF SumsStep
<1>3. ASSUME NEW a \in 1 .. n, NEW m \in 1 .. n, NEW b \in 1 .. n, a <= m, m < b,
             m = (a + b) \div 2
      PROVE  Sums(bytes)[<<a, b>>] = Sums(bytes)[<<a, m>>] + Sums(bytes)[<<m + 1, b>>]
  <2>1. <<a, b>> \in Ranges(n)
    BY <1>0 DEF Ranges
  <2>2. ~ (a >= b)
    BY <1>3, <1>0
  <2> QED
    BY <1>1, <1>3, <2>1, <2>2 DEF SumsStep
<1>4. ASSUME NEW a \in 1 .. n, NEW b \in 1 .. n PROVE Sums(bytes)[<<a, b>>] \in Nat
  BY <1>0, <1>1 DEF Ranges
<1> QED
  BY <1>2, <1>3, <1>4 DEF Halved

\* The sum of all words is a number, and as small as they allow.
THEOREM WordsBound ==
  ASSUME NEW bytes \in Seq(Byte)
  PROVE  Words(bytes) \in Nat /\ Words(bytes) <= (W - 1) * (Len(bytes) \div 2)
<1> DEFINE n == Len(bytes) \div 2
           s == Sums(bytes)
           P == {r \in Ranges(n) : s[r] <= (W - 1) * (r[2] - r[1] + 1)}
<1>0. n \in Nat
  OBVIOUS
<1>a. Halved(s, bytes, n)
  BY SumsIs
<1> HIDE DEF s
<1> USE DEF Halved
<1>1. ASSUME NEW i \in 1 .. n PROVE <<i, i>> \in P
  <2>1. s[<<i, i>>] \in Nat /\ s[<<i, i>>] < W /\ i - i + 1 = 1 /\ <<i, i>> \in Ranges(n)
    BY <1>a, WordType DEF Ranges
  <2>2. s[<<i, i>>] <= (W - 1) * 1
    BY <2>1 DEF W
  <2> QED
    BY <2>1, <2>2
<1>2. ASSUME NEW a \in 1 .. n, NEW m \in 1 .. n, NEW b \in 1 .. n, a <= m, m < b,
             <<a, m>> \in P, <<m + 1, b>> \in P, m = (a + b) \div 2
      PROVE  <<a, b>> \in P
  <2>1. m + 1 \in 1 .. n /\ <<a, b>> \in Ranges(n)
    BY <1>0, <1>2 DEF Ranges
  <2>2. PICK x \in Nat, y \in Nat : x = s[<<a, m>>] /\ y = s[<<m + 1, b>>] /\ s[<<a, b>>] = x + y
    BY <1>a, <1>2, <2>1
  <2>3. x <= (W - 1) * (m - a + 1) /\ y <= (W - 1) * (b - (m + 1) + 1)
    BY <1>2, <2>2
  <2>4. x + y <= (W - 1) * (b - a + 1)
    BY <2>3 DEF W
  <2> QED
    BY <2>1, <2>2, <2>4
<1>3. \A a, b \in 1 .. n : a <= b => <<a, b>> \in P
  <2> HIDE DEF P, n
  <2> QED
    BY <1>0, <1>1, <1>2, ByHalves
<1>4. CASE n = 0
  BY <1>4 DEF Words, W
<1>5. CASE n # 0
  <2>1. 1 \in 1 .. n /\ n \in 1 .. n /\ 1 <= n /\ n - 1 + 1 = n
    BY <1>0, <1>5
  <2>2. Words(bytes) = s[<<1, n>>]
    BY <1>5 DEF Words, s
  <2>3. s[<<1, n>>] \in Nat /\ s[<<1, n>>] <= (W - 1) * (n - 1 + 1)
    BY <2>1, <1>3, <1>a
  <2> QED
    BY <2>1, <2>2, <2>3
<1> QED
  BY <1>4, <1>5

\* Two sequences that differ in one word differ in the sum by that word.
THEOREM WordReplaced ==
  ASSUME NEW x \in Seq(Byte), NEW y \in Seq(Byte), Len(x) = Len(y),
         NEW k \in 1 .. Len(x) \div 2,
         \A i \in 1 .. Len(x) \div 2 : i # k => WordAt(x, i) = WordAt(y, i)
  PROVE  Words(y) + WordAt(x, k) = Words(x) + WordAt(y, k)
<1> DEFINE n == Len(x) \div 2
           s == Sums(x)
           t == Sums(y)
           P == {r \in Ranges(n) : 
                  IF r[1] <= k /\ k <= r[2] THEN t[r] + WordAt(x, k) = s[r] + WordAt(y, k)
                  ELSE t[r] = s[r]}
<1>0. n \in Nat /\ k \in 1 .. n
  OBVIOUS
<1>a. Halved(s, x, n)
  BY SumsIs
<1>b. Halved(t, y, n)
  <2>1. n = Len(y) \div 2
    OBVIOUS
  <2> QED
    BY <2>1, SumsIs
<1>w. WordAt(x, k) \in Nat /\ WordAt(y, k) \in Nat
  BY WordType
<1> HIDE DEF s, t
<1> USE DEF Halved
<1>1. ASSUME NEW i \in 1 .. n PROVE <<i, i>> \in P
  <2>1. <<i, i>> \in Ranges(n) /\ (i <= k /\ k <= i <=> i = k)
    BY <1>0 DEF Ranges
  <2>2. s[<<i, i>>] = WordAt(x, i) /\ t[<<i, i>>] = WordAt(y, i)
    BY <1>a, <1>b
  <2>3. CASE i = k
    BY <2>1, <2>2, <2>3, <1>w
  <2>4. CASE i # k
    BY <2>1, <2>2, <2>4
  <2> QED
    BY <2>3, <2>4
<1>2. ASSUME NEW a \in 1 .. n, NEW m \in 1 .. n, NEW b \in 1 .. n, a <= m, m < b,
             <<a, m>> \in P, <<m + 1, b>> \in P, m = (a + b) \div 2
      PROVE  <<a, b>> \in P
  <2>1. m + 1 \in 1 .. n /\ <<a, b>> \in Ranges(n)
    BY <1>0, <1>2 DEF Ranges
  <2>2. PICK u1 \in Nat, u2 \in Nat :
          u1 = s[<<a, m>>] /\ u2 = s[<<m + 1, b>>] /\ s[<<a, b>>] = u1 + u2
    BY <1>a, <1>2, <2>1
  <2>3. PICK v1 \in Nat, v2 \in Nat :
          v1 = t[<<a, m>>] /\ v2 = t[<<m + 1, b>>] /\ t[<<a, b>>] = v1 + v2
    BY <1>b, <1>2, <2>1
  <2>4. /\ IF a <= k /\ k <= m THEN v1 + WordAt(x, k) = u1 + WordAt(y, k) ELSE v1 = u1
        /\ IF m + 1 <= k /\ k <= b THEN v2 + WordAt(x, k) = u2 + WordAt(y, k) ELSE v2 = u2
    BY <1>2, <2>2, <2>3
  <2>5. IF a <= k /\ k <= b THEN (v1 + v2) + WordAt(x, k) = (u1 + u2) + WordAt(y, k)
        ELSE v1 + v2 = u1 + u2
    <3>1. PICK wx \in Nat, wy \in Nat : wx = WordAt(x, k) /\ wy = WordAt(y, k)
      BY <1>w
    <3>2. a \in Nat /\ b \in Nat /\ m \in Nat /\ k \in Nat /\ a <= m /\ m < b
      BY <1>0, <1>2
    <3>0. /\ IF a <= k /\ k <= m THEN v1 + wx = u1 + wy ELSE v1 = u1
          /\ IF m + 1 <= k /\ k <= b THEN v2 + wx = u2 + wy ELSE v2 = u2
      BY <2>4, <3>1
    <3>5. IF a <= k /\ k <= b THEN (v1 + v2) + wx = (u1 + u2) + wy
        ELSE v1 + v2 = u1 + u2
      BY <3>0, <3>2
    <3> QED
      BY <3>1, <3>5
  <2> QED
    BY <2>1, <2>2, <2>3, <2>5
<1>3. \A a, b \in 1 .. n : a <= b => <<a, b>> \in P
  <2> HIDE DEF P, n
  <2> QED
    BY <1>0, <1>1, <1>2, ByHalves
<1>4. 1 \in 1 .. n /\ n \in 1 .. n /\ 1 <= n /\ 1 <= k /\ k <= n /\ n # 0
  BY <1>0
<1>5. Words(x) = s[<<1, n>>] /\ Words(y) = t[<<1, n>>]
  BY <1>4 DEF Words, s, t
<1>6. <<1, n>> \in P
  BY <1>3, <1>4
<1> QED
  BY <1>4, <1>5, <1>6
-----------------------------------------------------------------------------
(* Folding once *)

\* The sum of a packet is added up in an unsigned int.
Sum32 == {s \in Nat : s < W * W}

\* A 32-bit sum has two halves.
LEMMA Halves ==
  ASSUME NEW s \in Sum32
  PROVE  \E hi, lo \in Nat :
           /\ hi < W /\ lo < W /\ s = W * hi + lo
           /\ s \div W = hi /\ s % W = lo
<1>1. s \in Nat /\ s < W * W
  BY SMT DEF Sum32
<1>2. /\ s \div W \in Int /\ s \div W >= 0
      /\ s % W \in Int /\ s % W >= 0 /\ s % W < W
      /\ s = W * (s \div W) + (s % W)
  BY <1>1, SMT DEF W
<1>3. s \div W < W
  BY <1>1, <1>2, SMT DEF W
<1> QED
  BY <1>2, <1>3

\* Adding the upper half once leaves the sum of the halves, or W less.
LEMMA FoldIs ==
  ASSUME NEW hi \in Nat, NEW lo \in Nat, hi < W, lo < W
  PROVE  (hi + (W * hi + lo)) % W = IF hi + lo < W THEN hi + lo ELSE hi + lo - W
<1>1. CASE hi + lo < W
  <2>1. (hi + (W * hi + lo)) % W = hi + lo
    BY <1>1, SMT DEF W
  <2> QED
    BY <1>1, <2>1
<1>2. CASE ~(hi + lo < W)
  <2>1. hi + lo >= W
    BY <1>2, SMT DEF W
  <2>2. (hi + (W * hi + lo)) % W = hi + lo - W
    BY <2>1, SMT DEF W
  <2> QED
    BY <1>2, <2>2
<1> QED
  BY <1>1, <1>2

\* One round of end-around carry on a sum given by its halves.
LEMMA EndAroundIs ==
  ASSUME NEW q \in Nat, NEW r \in Nat, r < W
  PROVE  EndAround(W * q + r) = q + r
<1>1. (W * q + r) \div W = q
  BY SMT DEF W
<1>2. (W * q + r) % W = r
  BY SMT DEF W
<1> QED
  BY <1>1, <1>2 DEF EndAround

\* htons and the shift put an odd last byte where the fold brings it down.
LEMMA LastWordIs ==
  ASSUME NEW b \in Byte
  PROVE  htons(b) * 256 = W * b
<1>1. b \in Nat /\ b < 256
  BY DEF Byte
<1>2. b % 256 = b /\ b \div 256 = 0
  BY <1>1, SMT
<1> QED
  BY <1>1, <1>2, SMT DEF htons, W

\* A packet with words adding up to s and perhaps an odd last byte b, folded
\* once, is accepted by a receiver, who adds b as a word of its own, unless the
\* fold carries again: ipchksum, icmpchksum and l4_sum are right except then,
\* and wrong each time then.
THEOREM FoldedOnce ==
  ASSUME NEW s \in Sum32, NEW b \in Nat, s + W * b \in Sum32
  PROVE  Accepts(s + b + Complement(Fold(s + W * b))) <=> ~CarriesAgain(s + W * b)
<1> DEFINE t == s + b + Complement(Fold(s + W * b))
<1>1. PICK hi \in Nat, lo \in Nat :
         /\ hi < W /\ lo < W /\ s + W * b = W * hi + lo
         /\ (s + W * b) \div W = hi /\ (s + W * b) % W = lo
  BY Halves
<1>2. Fold(s + W * b) = IF hi + lo < W THEN hi + lo ELSE hi + lo - W
  BY <1>1, FoldIs DEF Fold
<1>3. CarriesAgain(s + W * b) <=> hi + lo >= W
  BY <1>1 DEF CarriesAgain
<1>4. b <= hi /\ s = W * (hi - b) + lo
  BY <1>1, SMT DEF W, Sum32
<1>5. W \in Nat /\ W > 2
  BY SMT DEF W
<1>6. CASE hi + lo < W
  <2> DEFINE q == hi - b
             r == W - 1 - q
  <2>1. q \in Nat /\ r \in Nat /\ r < W /\ q + r = W - 1 /\ t = W * q + r
    BY <1>1, <1>2, <1>4, <1>6, SMT DEF Complement, W
  <2>2. EndAround(t) = W - 1
    BY <2>1, EndAroundIs, Zenon
  <2>3. EndAround(W - 1) = W - 1
    <3>1. 0 \in Nat /\ W - 1 \in Nat /\ W - 1 < W /\ W * 0 + (W - 1) = W - 1
          /\ 0 + (W - 1) = W - 1
      BY <1>5
    <3> QED
      BY <3>1, EndAroundIs
  <2> QED
    BY <1>1, <1>3, <1>5, <1>6, <2>2, <2>3 DEF Accepts
<1>7. CASE hi + lo >= W
  <2> DEFINE q == hi - b + 1
             r == W - q
  <2>1. q \in Nat /\ r \in Nat /\ r < W /\ q + r = W /\ t = W * q + r
    BY <1>1, <1>2, <1>4, <1>7, SMT DEF Complement, W
  <2>2. EndAround(t) = W
    BY <2>1, EndAroundIs, Zenon
  <2>3. EndAround(W) = 1
    <3>1. 1 \in Nat /\ 0 \in Nat /\ 0 < W /\ W * 1 + 0 = W /\ 1 + 0 = 1
      BY <1>5
    <3> QED
      BY <3>1, EndAroundIs
  <2> QED
    BY <1>3, <1>5, <1>7, <2>2, <2>3 DEF Accepts
<1> QED
  BY <1>1, <1>5, <1>6, <1>7

\* The same for a packet with an even number of bytes, and for one with an odd
\* last byte as icmpchksum and l4_sum add it.
COROLLARY FoldedOnceEven ==
  ASSUME NEW s \in Sum32
  PROVE  Accepts(s + Complement(Fold(s))) <=> ~CarriesAgain(s)
<1> DEFINE z == W * 0
<1>1. z = 0
  BY SMT DEF W
<1>2. s + z = s /\ s + 0 = s
  BY <1>1, SMT DEF Sum32
<1> QED
  BY <1>2, FoldedOnce

COROLLARY FoldedOnceOdd ==
  ASSUME NEW s \in Sum32, NEW b \in Byte, s + htons(b) * 256 \in Sum32
  PROVE  Accepts(s + b + Complement(Fold(s + htons(b) * 256)))
           <=> ~CarriesAgain(s + htons(b) * 256)
  BY LastWordIs, FoldedOnce DEF Byte

\* A word is a number below W, and the other way round.
LEMMA WordRange == \A n : n \in 0 .. W - 1 <=> n \in Nat /\ n < W
<1>1. W \in Nat
  BY DEF W
<1> QED
  BY <1>1

LEMMA FoldType ==
  ASSUME NEW sum \in Nat
  PROVE  Complement(Fold(sum)) \in 0 .. W - 1
<1>1. sum \div W + sum \in Nat
  BY SMT DEF W
<1>2. PICK q \in Nat : q = sum \div W + sum
  BY <1>1
<1>3. q % W \in Nat /\ q % W < W
  BY SMT DEF W
<1>4. PICK r \in Nat : r = q % W /\ r < W
  BY <1>3
<1>5. W - 1 - r \in Nat /\ W - 1 - r < W
  BY <1>4, SMT DEF W
<1>6. W - 1 - r \in 0 .. W - 1
  BY <1>5, WordRange
<1> QED
  BY <1>2, <1>4, <1>6 DEF Complement, Fold

LEMMA HtonsType ==
  ASSUME NEW n \in Nat
  PROVE  htons(n) \in 0 .. W - 1
<1>1. n % 256 \in 0 .. 255 /\ (n \div 256) % 256 \in 0 .. 255
  BY SMT
<1>2. PICK x \in 0 .. 255, y \in 0 .. 255 : x = n % 256 /\ y = (n \div 256) % 256
  BY <1>1
<1>3. 256 * x + y \in Nat /\ 256 * x + y < W
  BY SMT DEF W
<1> QED
  BY <1>2, <1>3, WordRange DEF htons

\* A function on 1 .. n is a sequence of length n.
LEMMA AsSequence ==
  ASSUME NEW S, NEW n \in Nat, NEW f \in [1 .. n -> S]
  PROVE  f \in Seq(S) /\ Len(f) = n
<1>1. f \in Seq(S)
  BY SeqDef
<1>2. DOMAIN f = 1 .. n /\ DOMAIN f = 1 .. Len(f) /\ Len(f) \in Nat
  BY <1>1, LenProperties
<1> QED
  BY <1>1, <1>2

LEMMA PseudoType ==
  ASSUME NEW saddr \in [1 .. 4 -> Byte], NEW daddr \in [1 .. 4 -> Byte],
         NEW proto \in Nat, NEW len \in Nat
  PROVE  Pseudo(saddr, daddr, proto, len) \in Nat /\ Pseudo(saddr, daddr, proto, len) <= 6 * W
<1>1. saddr \in Seq(Byte) /\ daddr \in Seq(Byte) /\ Len(saddr) = 4 /\ Len(daddr) = 4
  BY AsSequence
<1>2. PICK a \in Nat, b \in Nat, c \in Nat, d \in Nat :
        /\ a = Words(saddr) /\ a <= (W - 1) * 2 /\ b = Words(daddr) /\ b <= (W - 1) * 2
        /\ c = htons(proto) /\ c < W /\ d = htons(len) /\ d < W
  <2>1. 4 \div 2 = 2
    OBVIOUS
  <2>2. /\ Words(saddr) \in Nat /\ Words(saddr) <= (W - 1) * 2
        /\ Words(daddr) \in Nat /\ Words(daddr) <= (W - 1) * 2
    BY <1>1, <2>1, WordsBound
  <2>3. /\ htons(proto) \in 0 .. W - 1 /\ htons(len) \in 0 .. W - 1
        /\ \A n \in 0 .. W - 1 : n \in Nat /\ n < W
    BY HtonsType, WordRange
  <2> QED
    BY <2>2, <2>3
<1>3. a <= (W - 1) * 2 /\ b <= (W - 1) * 2 /\ c < W /\ d < W
  BY <1>2
<1>4. a + b + c + d \in Nat /\ a + b + c + d <= 6 * W
  BY <1>3, SMT DEF W
<1> QED
  BY <1>2, <1>4 DEF Pseudo

\* y is x with the number c where x has a word of zero bytes.
Filled(x, k, c, y) ==
  /\ y \in Seq(Byte) /\ Len(y) = Len(x)
  /\ \A i \in 1 .. Len(x) : i \notin {2 * k - 1, 2 * k} => y[i] = x[i]
  /\ x[2 * k - 1] = 0 /\ x[2 * k] = 0
  /\ y[2 * k - 1] = c % 256 /\ y[2 * k] = c \div 256

\* A checksum put into its field is added to the sum of the words.
LEMMA FilledSum ==
  ASSUME NEW x \in Seq(Byte), NEW k \in 1 .. Len(x) \div 2, NEW c \in 0 .. W - 1,
         NEW y, Filled(x, k, c, y)
  PROVE  Words(y) = Words(x) + c
<1>1. y \in Seq(Byte) /\ Len(y) = Len(x)
  BY DEF Filled
<1>2. ASSUME NEW i \in 1 .. Len(x) \div 2, i # k PROVE WordAt(x, i) = WordAt(y, i)
  <2>1. /\ 2 * i - 1 \in 1 .. Len(x) /\ 2 * i \in 1 .. Len(x)
        /\ 2 * i - 1 \notin {2 * k - 1, 2 * k} /\ 2 * i \notin {2 * k - 1, 2 * k}
    BY <1>2
  <2> QED
    BY <2>1 DEF Filled, WordAt
<1>3. WordAt(x, k) = 0
  BY DEF Filled, WordAt
<1>4. WordAt(y, k) = c
  <2>1. WordAt(y, k) = (c % 256) + 256 * (c \div 256)
    BY DEF Filled, WordAt
  <2>2. (c % 256) + 256 * (c \div 256) = c
    BY SMT DEF W
  <2> QED
    BY <2>1, <2>2
<1>5. Words(y) + WordAt(x, k) = Words(x) + WordAt(y, k)
  BY <1>1, <1>2, WordReplaced
<1>6. Words(x) \in Nat /\ Words(y) \in Nat /\ c \in Nat
  BY <1>1, WordsBound DEF W
<1> QED
  BY <1>3, <1>4, <1>5, <1>6

LEMMA LastWordType ==
  ASSUME NEW x \in Seq(Byte), Len(x) > 0
  PROVE  LastWord(x) \in Nat
<1>1. x[Len(x)] \in Byte
  BY ElementOfSeq
<1>2. CASE Odd(x)
  <2>0. \A b \in Byte : b \in Nat
    BY DEF Byte
  <2>1. PICK b \in Nat : b = x[Len(x)] /\ b \in Byte
    BY <1>1, <2>0
  <2>2. LastWord(x) = W * b
    BY <1>2, <2>1, LastWordIs DEF LastWord
  <2> QED
    BY <2>1, <2>2 DEF W
<1>3. CASE ~Odd(x)
  BY <1>3 DEF LastWord
<1> QED
  BY <1>2, <1>3

\* A packet x that fits a datagram is sent as y, with the checksum of its words,
\* its odd byte and of what else is in the sum where x has two zero bytes: the
\* receiver finds it right unless folding carries again.
THEOREM SumAccepted ==
  ASSUME NEW x \in Seq(Byte), Len(x) < W, NEW k \in 1 .. Len(x) \div 2,
         NEW extra \in Nat, extra <= 6 * W, NEW y,
         Filled(x, k, Complement(Fold(Words(x) + LastWord(x) + extra)), y)
  PROVE  Accepts(Total(y) + extra) <=> ~CarriesAgain(Summed(x) + extra)
<1> DEFINE n == Words(x)
           b == IF Odd(x) THEN x[Len(x)] ELSE 0
           s == n + extra
           c == Complement(Fold(n + LastWord(x) + extra))
<1>1. n \in Nat /\ n <= (W - 1) * (Len(x) \div 2)
  BY WordsBound
<1>2. b \in Byte
  <2>1. Len(x) \in 1 .. Len(x)
    OBVIOUS
  <2>2. x[Len(x)] \in Byte
    BY <2>1
  <2>3. 0 \in Byte
    BY DEF Byte
  <2> QED
    BY <2>2, <2>3
<1>3. LastWord(x) = W * b
  <2>1. CASE Odd(x)
    BY <1>2, <2>1, LastWordIs DEF LastWord
  <2>2. CASE ~Odd(x)
    BY <2>2 DEF LastWord, W
  <2> QED
    BY <2>1, <2>2
<1>4. Summed(x) = n + W * b
  BY <1>1 DEF Summed, W
<1> HIDE DEF n, b
<1>5. /\ n + W * b + extra = s + W * b
      /\ s \in Sum32 /\ s + W * b \in Sum32 /\ b \in Nat
  <2>1. Len(x) \div 2 \in Nat /\ Len(x) \div 2 < 32768
    BY SMT DEF W
  <2>2. n <= 65535 * 32768
    BY <1>1, <2>1, SMT DEF W
  <2> QED
    BY <1>1, <1>2, <2>2, SMT DEF W, Sum32, Byte
<1>6. c = Complement(Fold(s + W * b))
  BY <1>3, <1>5
<1>7. c \in 0 .. W - 1
  BY <1>5, <1>6, FoldType DEF Sum32
<1>8. Words(y) = n + c
  BY <1>7, FilledSum DEF n
<1>9. Total(y) = n + c + b
  <2>1. Odd(y) <=> Odd(x)
    BY DEF Filled, Odd
  <2>2. CASE Odd(x)
    <3>1. Len(x) \in 1 .. Len(x) /\ Len(x) \notin {2 * k - 1, 2 * k} /\ Len(y) = Len(x)
      BY <2>2 DEF Odd, Filled
    <3> QED
      BY <1>8, <2>1, <2>2, <3>1 DEF Total, Filled, b
  <2>3. CASE ~Odd(x)
    BY <1>8, <2>1, <2>3 DEF Total, b
  <2> QED
    BY <2>2, <2>3
<1>10. Total(y) + extra = s + b + c
  <2>1. n \in Nat /\ b \in Nat /\ c \in Nat /\ extra \in Nat
    BY <1>1, <1>5, <1>7, WordRange
  <2> HIDE DEF c
  <2>2. n + c + b + extra = n + extra + b + c
    BY <2>1
  <2> QED
    BY <1>9, <2>2
<1>11. Accepts(s + b + c) <=> ~CarriesAgain(s + W * b)
  <2> HIDE DEF c, s
  <2> QED
    BY <1>5, <1>6, FoldedOnce
<1> QED
  BY <1>4, <1>5, <1>10, <1>11

\* The same for the IP header, whose length is even and whose sum has nothing
\* else in it.
THEOREM HeaderAccepted ==
  ASSUME NEW x \in Seq(Byte), Len(x) < W, ~Odd(x), NEW k \in 1 .. Len(x) \div 2,
         NEW y, Filled(x, k, ipchksum(x), y)
  PROVE  Accepts(Total(y)) <=> ~CarriesAgain(Summed(x))
<1>1. /\ Words(x) \in Nat /\ Words(x) + LastWord(x) + 0 = Words(x) /\ Summed(x) + 0 = Summed(x)
      /\ 0 \in Nat /\ 0 <= 6 * W
  BY WordsBound DEF LastWord, Summed, W
<1>2. ~Odd(y) /\ y \in Seq(Byte)
  BY DEF Odd, Filled
<1>3. Total(y) + 0 = Total(y)
  BY <1>2, WordsBound DEF Total
<1>4. Accepts(Total(y) + 0) <=> ~CarriesAgain(Summed(x) + 0)
  <2>1. Filled(x, k, Complement(Fold(Words(x) + LastWord(x) + 0)), y)
    BY <1>1 DEF ipchksum
  <2> QED
    BY <1>1, <2>1, SumAccepted
<1> QED
  BY <1>1, <1>3, <1>4

\* The same for an ICMP message.
THEOREM IcmpAccepted ==
  ASSUME NEW x \in Seq(Byte), Len(x) < W, NEW k \in 1 .. Len(x) \div 2,
         NEW y, Filled(x, k, icmpchksum(x), y)
  PROVE  Accepts(Total(y)) <=> ~CarriesAgain(Summed(x))
<1>1. Words(x) \in Nat /\ LastWord(x) \in Nat
  BY WordsBound, LastWordType
<1>2. Summed(x) \in Nat /\ Total(y) \in Nat
  <2>1. \A b \in Byte : b \in Nat
    BY DEF Byte
  <2>2. y \in Seq(Byte) /\ Len(y) = Len(x) /\ Len(x) \in 1 .. Len(x) /\ W \in Nat
    BY DEF Filled, W
  <2>3. x[Len(x)] \in Nat /\ y[Len(y)] \in Nat /\ W * x[Len(x)] \in Nat
    BY <2>1, <2>2
  <2>4. Words(y) \in Nat
    BY <2>2, WordsBound
  <2> QED
    BY <1>1, <2>3, <2>4 DEF Summed, Total
<1>3. /\ Words(x) + LastWord(x) + 0 = Words(x) + LastWord(x)
      /\ Summed(x) + 0 = Summed(x) /\ Total(y) + 0 = Total(y)
      /\ 0 \in Nat /\ 0 <= 6 * W
  BY <1>1, <1>2 DEF W
<1>4. Filled(x, k, Complement(Fold(Words(x) + LastWord(x) + 0)), y)
  BY <1>3 DEF icmpchksum
<1>5. Accepts(Total(y) + 0) <=> ~CarriesAgain(Summed(x) + 0)
  BY <1>3, <1>4, SumAccepted
<1> QED
  BY <1>3, <1>5

\* The bytes of a word.
LEMMA WordBytes ==
  ASSUME NEW n \in Nat, n < W
  PROVE  n % 256 \in Byte /\ n \div 256 \in Byte
<1>1. n % 256 \in Nat /\ n % 256 < 256 /\ n \div 256 \in Nat /\ n \div 256 < 256
  BY SMT DEF W
<1> QED
  BY <1>1 DEF Byte

\* A sequence of three parts.
LEMMA ThreeParts ==
  ASSUME NEW S, NEW a \in Seq(S), NEW w \in Seq(S), NEW b \in Seq(S), NEW x, x = a \o w \o b
  PROVE  /\ x \in Seq(S) /\ Len(x) = Len(a) + Len(w) + Len(b)
         /\ \A i \in 1 .. Len(a) : x[i] = a[i]
         /\ \A i \in 1 .. Len(w) : x[Len(a) + i] = w[i]
         /\ \A i \in 1 .. Len(b) : x[Len(a) + Len(w) + i] = b[i]
<1>1. /\ a \o w \in Seq(S) /\ Len(a \o w) = Len(a) + Len(w)
      /\ \A i \in 1 .. Len(a) + Len(w) :
           (a \o w)[i] = IF i <= Len(a) THEN a[i] ELSE w[i - Len(a)]
  BY ConcatProperties
<1> DEFINE u == a \o w
<1> HIDE DEF u
<1>2. /\ u \in Seq(S) /\ Len(u) = Len(a) + Len(w)
      /\ \A i \in 1 .. Len(a) : u[i] = a[i]
      /\ \A i \in 1 .. Len(w) : u[Len(a) + i] = w[i]
  <2>1. /\ u \in Seq(S) /\ Len(u) = Len(a) + Len(w)
        /\ \A i \in 1 .. Len(a) + Len(w) : u[i] = IF i <= Len(a) THEN a[i] ELSE w[i - Len(a)]
    BY <1>1 DEF u
  <2>2. ASSUME NEW i \in 1 .. Len(w) PROVE u[Len(a) + i] = w[i]
    <3>1. /\ Len(a) + i \in 1 .. Len(a) + Len(w) /\ ~(Len(a) + i <= Len(a))
          /\ Len(a) + i - Len(a) = i
      OBVIOUS
    <3> QED
      BY <2>1, <3>1
  <2> QED
    BY <2>1, <2>2
<1>3. /\ u \o b \in Seq(S) /\ Len(u \o b) = Len(u) + Len(b)
      /\ \A i \in 1 .. Len(u) + Len(b) :
           (u \o b)[i] = IF i <= Len(u) THEN u[i] ELSE b[i - Len(u)]
  <2>1. u \in Seq(S)
    BY <1>2
  <2> QED
    BY <2>1, ConcatProperties, Zenon
<1>4. /\ x \in Seq(S) /\ Len(x) = Len(u) + Len(b)
      /\ \A i \in 1 .. Len(u) : x[i] = u[i]
      /\ \A i \in 1 .. Len(b) : x[Len(u) + i] = b[i]
  <2>1. x = u \o b
    BY DEF u
  <2>2. ASSUME NEW i \in 1 .. Len(b) PROVE x[Len(u) + i] = b[i]
    <3>1. /\ Len(u) + i \in 1 .. Len(u) + Len(b) /\ ~(Len(u) + i <= Len(u))
          /\ Len(u) + i - Len(u) = i
      BY <1>2
    <3> QED
      BY <1>3, <2>1, <3>1
  <2> QED
    BY <1>2, <1>3, <2>1, <2>2
<1>5. /\ \A i \in 1 .. Len(a) : i \in 1 .. Len(u)
      /\ \A i \in 1 .. Len(w) : Len(a) + i \in 1 .. Len(u)
  BY <1>2
<1> QED
  BY <1>2, <1>4, <1>5

\* A checksum c between two parts, of which the first has whole words.
LEMMA FilledBetween ==
  ASSUME NEW a \in Seq(Byte), NEW b \in Seq(Byte), NEW h \in Nat, Len(a) = 2 * h,
         NEW c \in 0 .. W - 1
  PROVE  /\ a \o <<0, 0>> \o b \in Seq(Byte)
         /\ Len(a \o <<0, 0>> \o b) = Len(a) + 2 + Len(b)
         /\ h + 1 \in 1 .. Len(a \o <<0, 0>> \o b) \div 2
         /\ Filled(a \o <<0, 0>> \o b, h + 1, c, a \o <<c % 256, c \div 256>> \o b)
<1> DEFINE x == a \o <<0, 0>> \o b
           y == a \o <<c % 256, c \div 256>> \o b
<1> HIDE DEF x, y
<1>1. PICK z \in Seq(Byte) : z = <<0, 0>> /\ Len(z) = 2 /\ z[1] = 0 /\ z[2] = 0
  <2>1. 0 \in Byte
    BY DEF Byte
  <2>2. <<0, 0>> \in Seq(Byte) /\ Len(<<0, 0>>) = 2
    BY <2>1
  <2> QED
    BY <2>2, Zenon
<1>2. PICK d \in Seq(Byte) :
        /\ d = <<c % 256, c \div 256>>
        /\ Len(d) = 2 /\ d[1] = c % 256 /\ d[2] = c \div 256
  <2>1. c % 256 \in Byte /\ c \div 256 \in Byte
    BY WordRange, WordBytes
  <2> DEFINE lo == c % 256
             hi == c \div 256
  <2> HIDE DEF lo, hi
  <2>2. <<lo, hi>> \in Seq(Byte) /\ Len(<<lo, hi>>) = 2
    BY <2>1 DEF lo, hi
  <2> QED
    BY <2>2 DEF lo, hi
<1>3. /\ x \in Seq(Byte) /\ Len(x) = Len(a) + 2 + Len(b)
      /\ \A i \in 1 .. Len(a) : x[i] = a[i]
      /\ \A i \in 1 .. 2 : x[Len(a) + i] = z[i]
      /\ \A i \in 1 .. Len(b) : x[Len(a) + 2 + i] = b[i]
  <2>1. x = a \o z \o b
    BY <1>1 DEF x
  <2> QED
    BY ONLY <1>1, <2>1, ThreeParts
<1>4. /\ y \in Seq(Byte) /\ Len(y) = Len(a) + 2 + Len(b)
      /\ \A i \in 1 .. Len(a) : y[i] = a[i]
      /\ \A i \in 1 .. 2 : y[Len(a) + i] = d[i]
      /\ \A i \in 1 .. Len(b) : y[Len(a) + 2 + i] = b[i]
  <2>1. y = a \o d \o b
    BY <1>2 DEF y
  <2> QED
    BY ONLY <1>2, <2>1, ThreeParts
<1>6. h + 1 \in 1 .. Len(x) \div 2
  BY <1>3
<1>7. 2 * (h + 1) - 1 = Len(a) + 1 /\ 2 * (h + 1) = Len(a) + 2
  OBVIOUS
<1>8. ASSUME NEW i \in 1 .. Len(x), i \notin {Len(a) + 1, Len(a) + 2} PROVE y[i] = x[i]
  <2>1. CASE i <= Len(a)
    BY <1>3, <1>4, <2>1
  <2>2. CASE ~(i <= Len(a))
    <3>1. PICK j \in 1 .. Len(b) : i = Len(a) + 2 + j
      <4>1. i - Len(a) - 2 \in 1 .. Len(b) /\ i = Len(a) + 2 + (i - Len(a) - 2)
        BY <1>3, <1>8, <2>2
      <4> QED
        BY <4>1
    <3>2. x[Len(a) + 2 + j] = b[j] /\ y[Len(a) + 2 + j] = b[j]
      BY <1>3, <1>4
    <3> QED
      BY <3>1, <3>2
  <2> QED
    BY <2>1, <2>2
<1>9. /\ x[Len(a) + 1] = 0 /\ x[Len(a) + 2] = 0
      /\ y[Len(a) + 1] = c % 256 /\ y[Len(a) + 2] = c \div 256
  BY <1>1, <1>2, <1>3, <1>4
<1>10. Filled(x, h + 1, c, y)
  <2>1. \A i \in 1 .. Len(x) : i \notin {2 * (h + 1) - 1, 2 * (h + 1)} => y[i] = x[i]
    BY <1>7, <1>8, Zenon
  <2>2. Len(y) = Len(x)
    BY <1>3, <1>4
  <2>3. /\ x[2 * (h + 1) - 1] = 0 /\ x[2 * (h + 1)] = 0
        /\ y[2 * (h + 1) - 1] = c % 256 /\ y[2 * (h + 1)] = c \div 256
    BY <1>7, <1>9
  <2> QED
    BY <1>4, <2>1, <2>2, <2>3, Zenon DEF Filled
<1> QED
  BY <1>3, <1>6, <1>10 DEF x, y

\* Concatenation of bytes.
LEMMA Concat ==
  ASSUME NEW a \in Seq(Byte), NEW b \in Seq(Byte)
  PROVE  a \o b \in Seq(Byte) /\ Len(a \o b) = Len(a) + Len(b)
  BY ConcatProperties, Zenon

LEMMA ConcatRight ==
  ASSUME NEW a \in Seq(Byte), NEW b \in Seq(Byte), NEW c \in Seq(Byte)
  PROVE  (a \o b) \o c = a \o (b \o c)
  BY ConcatAssociative

\* A word as the two bytes it has in memory.
LEMMA WordInMemory ==
  ASSUME NEW c \in 0 .. W - 1
  PROVE  /\ <<c % 256, c \div 256>> \in Seq(Byte) /\ Len(<<c % 256, c \div 256>>) = 2
         /\ <<0 % 256, 0 \div 256>> = <<0, 0>>
<1> DEFINE lo == c % 256
           hi == c \div 256
<1>1. lo \in Byte /\ hi \in Byte
  BY WordRange, WordBytes
<1>2. <<lo, hi>> \in Seq(Byte) /\ Len(<<lo, hi>>) = 2
  <2> HIDE DEF lo, hi
  <2> QED
    BY <1>1
<1>3. 0 % 256 = 0 /\ 0 \div 256 = 0
  OBVIOUS
<1> QED
  BY <1>2, <1>3

\* A header of four parts, with its checksum c in the second.
HeaderFilled(a, b, d, h, c) ==
  LET x == a \o <<0, 0>> \o b \o d
      y == a \o <<c % 256, c \div 256>> \o b \o d
  IN  /\ x \in Seq(Byte) /\ Len(x) = Len(a) + 2 + Len(b) + Len(d)
      /\ h + 1 \in 1 .. Len(x) \div 2
      /\ Filled(x, h + 1, c, y)

LEMMA FilledHeader ==
  ASSUME NEW a \in Seq(Byte), NEW b \in Seq(Byte), NEW d \in Seq(Byte),
         NEW h \in Nat, Len(a) = 2 * h, NEW c \in 0 .. W - 1
  PROVE  HeaderFilled(a, b, d, h, c)
<1> DEFINE x == a \o <<0, 0>> \o b \o d
           y == a \o <<c % 256, c \div 256>> \o b \o d
<1> HIDE DEF x, y
<1>1. PICK z \in Seq(Byte) : z = <<0, 0>>
  <2>1. 0 \in Byte
    BY DEF Byte
  <2>2. <<0, 0>> \in Seq(Byte)
    BY <2>1
  <2> QED
    BY <2>2, Zenon
<1>2. PICK w \in Seq(Byte) : w = <<c % 256, c \div 256>>
  BY WordInMemory, Zenon
<1>3. \A v \in Seq(Byte) : (a \o v) \o b \o d = (a \o v) \o (b \o d)
  <2> TAKE v \in Seq(Byte)
  <2>1. a \o v \in Seq(Byte)
    BY Concat, Zenon
  <2> QED
    BY <2>1, ConcatRight, Zenon
<1>4. b \o d \in Seq(Byte) /\ Len(b \o d) = Len(b) + Len(d)
  BY Concat
<1>5. x = a \o <<0, 0>> \o (b \o d)
  <2>1. x = (a \o z) \o b \o d
    BY <1>1 DEF x
  <2> QED
    BY ONLY <1>1, <1>3, <2>1, Zenon
<1>6. y = a \o <<c % 256, c \div 256>> \o (b \o d)
  <2>1. y = (a \o w) \o b \o d
    BY <1>2 DEF y
  <2> QED
    BY ONLY <1>2, <1>3, <2>1, Zenon
<1> DEFINE e == b \o d
<1> HIDE DEF e
<1>7. /\ x \in Seq(Byte) /\ Len(x) = Len(a) + 2 + Len(e)
      /\ h + 1 \in 1 .. Len(x) \div 2
      /\ Filled(x, h + 1, c, y)
  <2>1. e \in Seq(Byte) /\ x = a \o <<0, 0>> \o e /\ y = a \o <<c % 256, c \div 256>> \o e
    BY <1>4, <1>5, <1>6 DEF e
  <2>2. /\ a \o <<0, 0>> \o e \in Seq(Byte)
        /\ Len(a \o <<0, 0>> \o e) = Len(a) + 2 + Len(e)
        /\ h + 1 \in 1 .. Len(a \o <<0, 0>> \o e) \div 2
        /\ Filled(a \o <<0, 0>> \o e, h + 1, c, a \o <<c % 256, c \div 256>> \o e)
    BY <2>1, FilledBetween, Zenon
  <2> QED
    BY <2>1, <2>2, Zenon
<1>8. Len(a) + 2 + Len(e) = Len(a) + 2 + Len(b) + Len(d)
  BY <1>4 DEF e
<1> QED
  BY <1>7, <1>8, Zenon DEF HeaderFilled, x, y
=============================================================================
