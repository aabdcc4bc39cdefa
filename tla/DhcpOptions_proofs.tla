------------------------- MODULE DhcpOptions_proofs -------------------------
(***************************************************************************)
(* Theorems about DhcpOptions: what a reader finds in the options fields   *)
(* of dhtest, for any command line that fits in dhopt_buff, any custom     *)
(* options and any offers without padding between their options.           *)
(***************************************************************************)
EXTENDS DhcpOptions, Checksums_proofs

(* Sequences of sequences, one behind the other *)

UptoStep(s, g) == [k \in 0 .. Len(s) |-> IF k = 0 THEN <<>> ELSE g[k - 1] \o s[k]]

\* The first k sequences of s, for every k.
Upto(s) ==
  LET g[k \in 0 .. Len(s)] == IF k = 0 THEN <<>> ELSE g[k - 1] \o s[k] IN g

LEMMA UptoDef ==
  ASSUME NEW S, NEW s \in Seq(Seq(S))
  PROVE  /\ Upto(s) \in [0 .. Len(s) -> Seq(S)]
         /\ Upto(s)[0] = <<>>
         /\ \A k \in 1 .. Len(s) : Upto(s)[k] = Upto(s)[k - 1] \o s[k]
<1> DEFINE D == 0 .. Len(s)
           V == Seq(S)
           rank == [k \in D |-> k]
           F == [g \in [D -> V] |-> UptoStep(s, g)]
<1>1. Len(s) \in Nat /\ \A k \in 1 .. Len(s) : s[k] \in Seq(S)
  OBVIOUS
<1>2. ASSUME NEW g \in [D -> V] PROVE UptoStep(s, g) \in [D -> V]
  <2> SUFFICES ASSUME NEW k \in D
               PROVE  (IF k = 0 THEN <<>> ELSE g[k - 1] \o s[k]) \in Seq(S)
    BY DEF UptoStep
  <2>1. CASE k = 0
    BY <2>1, EmptySeq
  <2>2. CASE k # 0
    <3>1. k - 1 \in D /\ k \in 1 .. Len(s)
      BY <1>1, <2>2
    <3>2. g[k - 1] \in Seq(S) /\ s[k] \in Seq(S)
      BY <1>1, <3>1
    <3>3. g[k - 1] \o s[k] \in Seq(S)
      BY <3>2, ConcatProperties
    <3> QED
      BY <2>2, <3>3
  <2> QED
    BY <2>1, <2>2
<1>3. Recursion(D, V, rank, F)
  <2>1. ASSUME NEW g \in [D -> V], NEW h \in [D -> V], NEW x \in D,
               \A y \in D : rank[y] < rank[x] => g[y] = h[y]
        PROVE  F[g][x] = F[h][x]
    <3>1. x # 0 => g[x - 1] = h[x - 1]
      BY <1>1, <2>1
    <3> QED
      BY <3>1 DEF UptoStep
  <2>2. rank \in [D -> Nat]
    BY <1>1
  <2>3. F \in [[D -> V] -> [D -> V]]
    BY <1>2
  <2> HIDE DEF D, V, rank, F
  <2> QED
    BY <2>1, <2>2, <2>3 DEF Recursion
<1>4. \E g \in [D -> V] : g = UptoStep(s, g)
  <2>1. PICK start \in [D -> V] : TRUE
    <3>1. [k \in D |-> <<>>] \in [D -> V]
      BY EmptySeq
    <3> QED
      BY <3>1
  <2>2. \E g \in [D -> V] : g = F[g]
    <3> HIDE DEF D, V, rank, F
    <3> QED
      BY <1>3, <2>1, RecursionExists
  <2> QED
    BY <2>2
<1>5. Upto(s) = UptoStep(s, Upto(s))
  <2>1. Upto(s) = CHOOSE g : g = UptoStep(s, g)
    BY DEF Upto, UptoStep
  <2> HIDE DEF D, V, rank, F
  <2> QED
    BY <1>4, <2>1
<1>6. /\ Upto(s)[0] = <<>>
      /\ \A k \in 1 .. Len(s) : Upto(s)[k] = Upto(s)[k - 1] \o s[k]
  <2>1. \A k \in D : Upto(s)[k] = IF k = 0 THEN <<>> ELSE Upto(s)[k - 1] \o s[k]
    <3>1. \A k \in D : UptoStep(s, Upto(s))[k]
                         = IF k = 0 THEN <<>> ELSE Upto(s)[k - 1] \o s[k]
      BY DEF UptoStep
    <3> QED
      BY <1>5, <3>1
  <2>2. 0 \in D /\ \A k \in 1 .. Len(s) : k \in D /\ k # 0
    BY <1>1
  <2> QED
    BY <2>1, <2>2
<1> DEFINE T == {k \in Nat : k <= Len(s) => Upto(s)[k] \in Seq(S)}
<1>7. \A k \in Nat : k \in T
  <2>1. 0 \in T
    BY <1>6, EmptySeq
  <2>2. ASSUME NEW k \in Nat, k \in T PROVE k + 1 \in T
    <3> SUFFICES ASSUME k + 1 <= Len(s) PROVE Upto(s)[k + 1] \in Seq(S)
      OBVIOUS
    <3>1. PICK i \in 1 .. Len(s) : i = k + 1 /\ i - 1 = k /\ k <= Len(s)
      BY <1>1
    <3>2. Upto(s)[i - 1] \in Seq(S) /\ s[i] \in Seq(S)
      BY <1>1, <2>2, <3>1
    <3>3. Upto(s)[i - 1] \o s[i] \in Seq(S)
      BY <3>2, ConcatProperties
    <3>4. Upto(s)[i] = Upto(s)[i - 1] \o s[i]
      BY <1>6
    <3> QED
      BY <3>1, <3>3, <3>4
  <2> HIDE DEF T
  <2> QED
    BY <2>1, <2>2, FromZero
<1>8. Upto(s) \in [0 .. Len(s) -> Seq(S)]
  <2>1. \A k \in 0 .. Len(s) : Upto(s)[k] \in Seq(S)
    BY <1>1, <1>7
  <2>2. Upto(s) = [k \in 0 .. Len(s) |-> Upto(s)[k]]
    BY <1>5 DEF UptoStep
  <2> QED
    BY <2>1, <2>2
<1> QED
  BY <1>6, <1>8

\* FlattenSeq puts them all together.
LEMMA FlattenIs ==
  ASSUME NEW S, NEW s \in Seq(Seq(S))
  PROVE  FlattenSeq(s) = Upto(s)[Len(s)] /\ FlattenSeq(s) \in Seq(S)
<1> DEFINE n == Len(s)
           Step(g) == [i \in 1 .. n |-> IF i = 1 THEN s[i] ELSE g[i - 1] \o s[i]]
<1>1. /\ n \in Nat /\ Upto(s) \in [0 .. n -> Seq(S)] /\ Upto(s)[0] = <<>>
      /\ \A k \in 1 .. n : Upto(s)[k] = Upto(s)[k - 1] \o s[k]
      /\ \A k \in 1 .. n : s[k] \in Seq(S)
  <2>1. n \in Nat /\ \A k \in 1 .. n : s[k] \in Seq(S)
    OBVIOUS
  <2> QED
    BY <2>1, UptoDef
<1>2. CASE n = 0
  <2>1. s = <<>>
    BY <1>2, EmptySeq
  <2> QED
    BY <1>1, <1>2, <2>1, EmptySeq DEF FlattenSeq
<1>3. CASE n # 0
  <2> DEFINE f == [i \in 1 .. n |-> Upto(s)[i]]
             g == CHOOSE h : h = Step(h)
  <2>1. f = Step(f)
    <3>1. Upto(s)[1] = s[1]
      <4>1. 1 \in 1 .. n /\ 1 - 1 = 0
        BY <1>1, <1>3
      <4>2. Upto(s)[1] = <<>> \o s[1] /\ s[1] \in Seq(S)
        BY <1>1, <4>1
      <4> QED
        BY <4>2, ConcatEmptySeq
    <3>2. ASSUME NEW i \in 1 .. n, i # 1 PROVE Upto(s)[i] = f[i - 1] \o s[i]
      <4>1. i - 1 \in 1 .. n
        BY <1>1, <3>2
      <4> QED
        BY <1>1, <4>1
    <3> QED
      BY <3>1, <3>2
  <2>2. g = Step(g)
    <3> HIDE DEF f, Step
    <3> QED
      BY <2>1
  <2>3. FlattenSeq(s) = g[n]
    BY <1>3 DEF FlattenSeq
  <2> HIDE DEF g
  <2> DEFINE T == {k \in Nat : k + 1 <= n => g[k + 1] = Upto(s)[k + 1]}
  <2>4. \A k \in Nat : k \in T
    <3>1. 0 \in T
      <4>1. 0 + 1 = 1 /\ 1 \in 1 .. n
        BY <1>1, <1>3
      <4>2. g[1] = s[1] /\ f[1] = s[1] /\ f[1] = Upto(s)[1]
        BY <2>1, <2>2, <4>1
      <4> QED
        BY <4>1, <4>2
    <3>2. ASSUME NEW k \in Nat, k \in T PROVE k + 1 \in T
      <4> SUFFICES ASSUME k + 1 + 1 <= n PROVE g[k + 1 + 1] = Upto(s)[k + 1 + 1]
        OBVIOUS
      <4>1. PICK i \in 1 .. n : i = k + 1 + 1 /\ i # 1 /\ i - 1 = k + 1 /\ k + 1 <= n
        BY <1>1
      <4>2. g[i] = g[i - 1] \o s[i]
        BY <2>2, <4>1
      <4>3. Upto(s)[i] = Upto(s)[i - 1] \o s[i]
        BY <1>1
      <4>4. g[i - 1] = Upto(s)[i - 1]
        BY <3>2, <4>1
      <4> QED
        BY <4>1, <4>2, <4>3, <4>4
    <3> HIDE DEF T
    <3> QED
      BY <3>1, <3>2, FromZero
  <2>5. n - 1 \in Nat /\ n - 1 + 1 = n
    BY <1>1, <1>3
  <2>6. g[n] = Upto(s)[n]
    <3>1. n - 1 \in T
      BY <2>4, <2>5
    <3>2. n - 1 + 1 <= n => g[n - 1 + 1] = Upto(s)[n - 1 + 1]
      BY <3>1
    <3> QED
      BY <1>1, <2>5, <3>2
  <2> QED
    BY <1>1, <2>3, <2>6
<1> QED
  BY <1>2, <1>3

\* b and then d make c.
Joined(S, b, d, c) ==
  /\ b \in Seq(S) /\ d \in Seq(S) /\ c \in Seq(S)
  /\ Len(b) \in Nat /\ Len(d) \in Nat /\ Len(c) = Len(b) + Len(d)
  /\ \A i \in 1 .. Len(b) : c[i] = b[i]
  /\ \A i \in 1 .. Len(d) : c[Len(b) + i] = d[i]

LEMMA Joins ==
  ASSUME NEW S, NEW b \in Seq(S), NEW d \in Seq(S), NEW c, c = b \o d
  PROVE  Joined(S, b, d, c)
<1>1. /\ c \in Seq(S) /\ Len(c) = Len(b) + Len(d) /\ Len(b) \in Nat /\ Len(d) \in Nat
      /\ \A i \in 1 .. Len(b) + Len(d) : c[i] = IF i <= Len(b) THEN b[i] ELSE d[i - Len(b)]
  BY ConcatProperties, LenProperties
<1>2. ASSUME NEW i \in 1 .. Len(b) PROVE c[i] = b[i]
  <2>1. i \in 1 .. Len(b) + Len(d) /\ i <= Len(b)
    BY <1>1
  <2> QED
    BY <1>1, <2>1
<1>3. ASSUME NEW i \in 1 .. Len(d) PROVE c[Len(b) + i] = d[i]
  <2>1. /\ Len(b) + i \in 1 .. Len(b) + Len(d) /\ ~ (Len(b) + i <= Len(b))
        /\ Len(b) + i - Len(b) = i
    BY <1>1
  <2> QED
    BY <1>1, <2>1
<1> QED
  BY <1>1, <1>2, <1>3 DEF Joined

\* What a sequence adds to those before it.
LEMMA UptoNext ==
  ASSUME NEW S, NEW s \in Seq(Seq(S)), NEW k \in 1 .. Len(s)
  PROVE  Joined(S, Upto(s)[k - 1], s[k], Upto(s)[k])
<1> DEFINE a == Upto(s)[k - 1]
           b == s[k]
           c == Upto(s)[k]
<1>1. a \in Seq(S) /\ b \in Seq(S) /\ c = a \o b
  <2>1. k - 1 \in 0 .. Len(s) /\ s[k] \in Seq(S)
    OBVIOUS
  <2>2. /\ Upto(s) \in [0 .. Len(s) -> Seq(S)]
        /\ \A i \in 1 .. Len(s) : Upto(s)[i] = Upto(s)[i - 1] \o s[i]
    BY UptoDef
  <2> QED
    BY <2>1, <2>2
<1> HIDE DEF a, b, c
<1>2. Joined(S, a, b, c)
  BY <1>1, Joins
<1> QED
  BY <1>2 DEF a, b, c

\* The first sequences stay in front.
LEMMA UptoGrows ==
  ASSUME NEW S, NEW s \in Seq(Seq(S)), NEW j \in 0 .. Len(s), NEW k \in j .. Len(s)
  PROVE  /\ Len(Upto(s)[j]) <= Len(Upto(s)[k])
         /\ \A i \in 1 .. Len(Upto(s)[j]) : Upto(s)[k][i] = Upto(s)[j][i]
<1> DEFINE a == Upto(s)[j]
           T == {d \in Nat : j + d <= Len(s) =>
                   /\ Len(a) <= Len(Upto(s)[j + d])
                   /\ \A i \in 1 .. Len(a) : Upto(s)[j + d][i] = a[i]}
<1>1. a \in Seq(S) /\ Len(a) \in Nat
  <2>1. Upto(s) \in [0 .. Len(s) -> Seq(S)]
    BY UptoDef
  <2> QED
    BY <2>1
<1>2. 0 \in T
  <2>1. j + 0 = j
    OBVIOUS
  <2>2. /\ Len(a) <= Len(Upto(s)[j + 0])
        /\ \A i \in 1 .. Len(a) : Upto(s)[j + 0][i] = a[i]
    BY <1>1, <2>1
  <2> QED
    BY <2>2
<1>3. ASSUME NEW d \in Nat, d \in T PROVE d + 1 \in T
  <2> SUFFICES ASSUME j + (d + 1) <= Len(s)
               PROVE  /\ Len(a) <= Len(Upto(s)[j + (d + 1)])
                      /\ \A i \in 1 .. Len(a) : Upto(s)[j + (d + 1)][i] = a[i]
    OBVIOUS
  <2>1. PICK m \in 1 .. Len(s) : m = j + (d + 1) /\ m - 1 = j + d /\ j + d <= Len(s)
    OBVIOUS
  <2> DEFINE b == Upto(s)[m - 1]
             c == Upto(s)[m]
  <2>2. /\ b \in Seq(S) /\ Len(c) = Len(b) + Len(s[m]) /\ Len(s[m]) \in Nat
        /\ \A i \in 1 .. Len(b) : c[i] = b[i]
    <3>1. Joined(S, b, s[m], c)
      BY UptoNext
    <3> HIDE DEF b, c
    <3> QED
      BY <3>1 DEF Joined
  <2>3. Len(a) <= Len(b) /\ \A i \in 1 .. Len(a) : b[i] = a[i]
    BY <1>3, <2>1
  <2> HIDE DEF a, b, c
  <2>4. Len(b) \in Nat
    BY <2>2
  <2>5. Len(a) <= Len(c) /\ \A i \in 1 .. Len(a) : i \in 1 .. Len(b)
    BY <1>1, <2>2, <2>3, <2>4
  <2>6. \A i \in 1 .. Len(a) : c[i] = a[i]
    BY <2>2, <2>3, <2>5
  <2> QED
    BY <2>1, <2>5, <2>6 DEF c
<1>4. \A d \in Nat : d \in T
  <2> HIDE DEF T
  <2> QED
    BY <1>2, <1>3, FromZero
<1>5. k - j \in Nat /\ j + (k - j) = k /\ k <= Len(s)
  OBVIOUS
<1>6. k - j \in T
  BY <1>4, <1>5
<1>7. /\ Len(a) <= Len(Upto(s)[j + (k - j)])
      /\ \A i \in 1 .. Len(a) : Upto(s)[j + (k - j)][i] = a[i]
  BY <1>5, <1>6
<1> QED
  BY <1>5, <1>7

\* t is what s has from m to n.
Cut(S, s, m, n, t) ==
  /\ t \in Seq(S) /\ Len(t) = n - m + 1
  /\ \A i \in 1 .. n - m + 1 : t[i] = s[m + i - 1]

LEMMA Cuts ==
  ASSUME NEW S, NEW s \in Seq(S), NEW m \in Nat \ {0}, NEW n \in Nat, m <= n + 1, n <= Len(s)
  PROVE  Cut(S, s, m, n, SubSeq(s, m, n))
<1>1. \A i \in m .. n : s[i] \in S
  <2> SUFFICES ASSUME NEW i \in m .. n PROVE s[i] \in S
    OBVIOUS
  <2>1. i \in 1 .. Len(s)
    BY LenProperties
  <2> QED
    BY <2>1, ElementOfSeq
<1>2. m \in Int /\ n \in Int
  OBVIOUS
<1>3. /\ SubSeq(s, m, n) \in Seq(S)
      /\ Len(SubSeq(s, m, n)) = IF m <= n THEN n - m + 1 ELSE 0
      /\ \A i \in 1 .. n - m + 1 : SubSeq(s, m, n)[i] = s[m + i - 1]
  <2>1. SubSeq(s, m, n) \in Seq(S)
    BY <1>1, <1>2, SubSeqProperties
  <2>2. Len(SubSeq(s, m, n)) = IF m <= n THEN n - m + 1 ELSE 0
    BY <1>1, <1>2, SubSeqProperties
  <2>3. \A i \in 1 .. n - m + 1 : SubSeq(s, m, n)[i] = s[m + i - 1]
    BY <1>1, <1>2, SubSeqProperties
  <2> QED
    BY <2>1, <2>2, <2>3
<1>4. (IF m <= n THEN n - m + 1 ELSE 0) = n - m + 1
  OBVIOUS
<1> QED
  BY <1>3, <1>4 DEF Cut

\* bytes have f from p + 1 to q.
Placed(bytes, f, p, q) ==
  /\ p \in Nat /\ q \in Nat /\ q = p + Len(f)
  /\ \A i \in 1 .. Len(f) : bytes[p + i] = f[i]
  /\ SubSeq(bytes, p + 1, q) = f

\* Where the sequences of s are found in bytes that begin with all of them.
LEMMA Piece ==
  ASSUME NEW S, NEW s \in Seq(Seq(S)), NEW z \in Seq(S), NEW k \in 1 .. Len(s),
         NEW bytes, bytes = FlattenSeq(s) \o z
  PROVE  /\ Placed(bytes, s[k], Len(Upto(s)[k - 1]), Len(Upto(s)[k]))
         /\ Len(Upto(s)[k]) <= Len(FlattenSeq(s))
<1> DEFINE p == Len(Upto(s)[k - 1])
           q == Len(Upto(s)[k])
           flat == FlattenSeq(s)
           f == s[k]
<1>1. k \in 0 .. Len(s) /\ Len(s) \in k .. Len(s) /\ Len(s) \in Nat
  OBVIOUS
<1>2. /\ f \in Seq(S) /\ p \in Nat /\ q \in Nat /\ Len(f) \in Nat /\ q = p + Len(f)
      /\ \A i \in 1 .. Len(f) : Upto(s)[k][p + i] = f[i]
  <2> DEFINE a == Upto(s)[k - 1]
             b == Upto(s)[k]
  <2>1. Joined(S, a, f, b)
    BY UptoNext
  <2> HIDE DEF a, b, f
  <2>2. /\ f \in Seq(S) /\ Len(a) \in Nat /\ Len(f) \in Nat /\ Len(b) = Len(a) + Len(f)
        /\ \A i \in 1 .. Len(f) : b[Len(a) + i] = f[i]
    BY <2>1 DEF Joined
  <2>3. Len(b) \in Nat
    BY <2>2
  <2> QED
    BY <2>2, <2>3 DEF a, b
<1>3. flat = Upto(s)[Len(s)] /\ flat \in Seq(S) /\ Len(flat) \in Nat
  BY FlattenIs, LenProperties
<1>4. q <= Len(flat) /\ \A i \in 1 .. q : flat[i] = Upto(s)[k][i]
  <2>1. /\ q <= Len(Upto(s)[Len(s)])
        /\ \A i \in 1 .. q : Upto(s)[Len(s)][i] = Upto(s)[k][i]
    BY <1>1, UptoGrows
  <2> QED
    BY <1>3, <2>1
<1>5. Joined(S, flat, z, bytes)
  BY <1>3, Joins
<1>8. p \in Nat /\ q \in Nat /\ Len(f) \in Nat /\ q = p + Len(f)
  BY <1>2
<1> HIDE DEF p, q, flat, f
<1>6. ASSUME NEW i \in 1 .. Len(f) PROVE bytes[p + i] = f[i]
  <2>1. p + i \in 1 .. q /\ p + i \in 1 .. Len(flat)
    BY <1>3, <1>4, <1>8
  <2> QED
    BY <1>2, <1>4, <1>5, <2>1 DEF Joined
<1>7. SubSeq(bytes, p + 1, q) = f
  <2> DEFINE t == SubSeq(bytes, p + 1, q)
  <2>1. /\ bytes \in Seq(S) /\ Len(bytes) \in Nat /\ p + 1 \in Nat \ {0}
        /\ p + 1 <= q + 1 /\ q <= Len(bytes)
    BY <1>3, <1>4, <1>5, <1>8 DEF Joined
  <2>3. Cut(S, bytes, p + 1, q, t)
    BY <1>8, <2>1, Cuts
  <2> HIDE DEF t
  <2>4. t \in Seq(S) /\ Len(t) = Len(f)
    BY <1>8, <2>3 DEF Cut
  <2>5. ASSUME NEW i \in 1 .. Len(f) PROVE t[i] = f[i]
    <3>1. i \in 1 .. q - (p + 1) + 1 /\ (p + 1) + i - 1 = p + i
      BY <1>8
    <3> QED
      BY <1>6, <2>3, <3>1 DEF Cut
  <2>6. t = f
    BY <1>2, <2>4, <2>5, SeqEqual
  <2> QED
    BY <2>6 DEF t
<1>9. Placed(bytes, f, p, q)
  BY <1>6, <1>7, <1>8 DEF Placed
<1> QED
  BY <1>4, <1>9 DEF p, q, flat, f

LEMMA FlattenFew ==
  ASSUME NEW S, NEW x \in Seq(S)
  PROVE  /\ FlattenSeq(<<>>) = <<>>
         /\ <<x>> \in Seq(Seq(S)) /\ FlattenSeq(<<x>>) = x
<1>1. FlattenSeq(<<>>) = <<>>
  BY DEF FlattenSeq
<1>2. <<x>> \in Seq(Seq(S)) /\ Len(<<x>>) = 1 /\ <<x>>[1] = x
  OBVIOUS
<1> DEFINE s == <<x>>
<1> HIDE DEF s
<1>3. s \in Seq(Seq(S)) /\ Len(s) = 1 /\ s[1] = x
  BY <1>2 DEF s
<1>4. 1 \in 1 .. Len(s) /\ 1 - 1 = 0
  BY <1>3
<1>5. Upto(s)[0] = <<>> /\ \A k \in 1 .. Len(s) : Upto(s)[k] = Upto(s)[k - 1] \o s[k]
  BY <1>3, UptoDef
<1>6. Upto(s)[1] = <<>> \o s[1]
  BY <1>4, <1>5
<1>7. FlattenSeq(s) = x
  BY <1>3, <1>6, FlattenIs, ConcatEmptySeq
<1> QED
  BY <1>1, <1>2, <1>7 DEF s

Associative(x, y, w) == (x \o y) \o w = x \o (y \o w)

LEMMA Associates ==
  ASSUME NEW S, NEW x \in Seq(S), NEW y \in Seq(S), NEW w \in Seq(S)
  PROVE  Associative(x, y, w)
  BY ConcatAssociative DEF Associative

LEMMA FlattenConcat ==
  ASSUME NEW S, NEW a \in Seq(Seq(S)), NEW b \in Seq(Seq(S))
  PROVE  FlattenSeq(a \o b) = FlattenSeq(a) \o FlattenSeq(b)
<1> DEFINE c == a \o b
           n == Len(a)
           l == Len(b)
<1>1. Joined(Seq(S), a, b, c)
  BY Joins
<1> HIDE DEF c
<1>2. /\ c \in Seq(Seq(S)) /\ n \in Nat /\ l \in Nat /\ Len(c) = n + l
      /\ \A i \in 1 .. n : c[i] = a[i]
      /\ \A i \in 1 .. l : c[n + i] = b[i]
  BY <1>1 DEF Joined
<1>9. /\ Upto(a) \in [0 .. n -> Seq(S)] /\ Upto(a)[0] = <<>>
      /\ \A k \in 1 .. n : Upto(a)[k] = Upto(a)[k - 1] \o a[k]
  BY UptoDef
<1>5. /\ Upto(b) \in [0 .. l -> Seq(S)] /\ Upto(b)[0] = <<>>
      /\ \A k \in 1 .. l : Upto(b)[k] = Upto(b)[k - 1] \o b[k]
  BY UptoDef
<1>10. /\ Upto(c)[0] = <<>>
       /\ \A k \in 1 .. n + l : Upto(c)[k] = Upto(c)[k - 1] \o c[k]
  BY <1>2, UptoDef
<1>11. \A i \in 1 .. l : b[i] \in Seq(S)
  OBVIOUS
<1>8. /\ FlattenSeq(c) = Upto(c)[n + l]
      /\ FlattenSeq(a) = Upto(a)[n] /\ FlattenSeq(b) = Upto(b)[l]
  BY <1>2, FlattenIs
<1> HIDE DEF n, l
<1> DEFINE P == {k \in Nat : k <= n => Upto(c)[k] = Upto(a)[k]}
<1>3. \A k \in Nat : k \in P
  <2>1. 0 \in P
    BY <1>9, <1>10
  <2>2. ASSUME NEW k \in Nat, k \in P PROVE k + 1 \in P
    <3> SUFFICES ASSUME k + 1 <= n PROVE Upto(c)[k + 1] = Upto(a)[k + 1]
      OBVIOUS
    <3>1. PICK i \in 1 .. n : i = k + 1 /\ i - 1 = k /\ k <= n /\ i \in 1 .. n + l
      BY <1>2
    <3>2. Upto(c)[i] = Upto(c)[i - 1] \o c[i]
      BY <1>10, <3>1
    <3>3. Upto(a)[i] = Upto(a)[i - 1] \o a[i]
      BY <1>9
    <3>4. c[i] = a[i]
      BY <1>2
    <3>5. Upto(c)[i - 1] = Upto(a)[i - 1]
      BY <2>2, <3>1
    <3> QED
      BY <3>1, <3>2, <3>3, <3>4, <3>5
  <2> HIDE DEF P
  <2> QED
    BY <2>1, <2>2, FromZero
<1>4. Upto(c)[n] = Upto(a)[n] /\ Upto(a)[n] \in Seq(S)
  <2>1. n \in P /\ n <= n
    BY <1>2, <1>3
  <2>2. Upto(a) \in [0 .. n -> Seq(S)] /\ n \in 0 .. n
    BY <1>2, <1>9
  <2> QED
    BY <2>1, <2>2
<1> HIDE DEF P
<1> DEFINE Q == {k \in Nat : k <= l => Upto(c)[n + k] = Upto(a)[n] \o Upto(b)[k]}
<1>6. \A k \in Nat : k \in Q
  <2>1. 0 \in Q
    <3>1. n + 0 = n /\ Upto(a)[n] \o <<>> = Upto(a)[n]
      BY <1>2, <1>4, ConcatEmptySeq
    <3> QED
      BY <1>4, <1>5, <3>1
  <2>2. ASSUME NEW k \in Nat, k \in Q PROVE k + 1 \in Q
    <3>0. k + 1 \in Nat
      OBVIOUS
    <3> SUFFICES ASSUME k + 1 <= l
                 PROVE  Upto(c)[n + (k + 1)] = Upto(a)[n] \o Upto(b)[k + 1]
      BY <3>0, Zenon
    <3>1. PICK i \in 1 .. l : i = k + 1 /\ i - 1 = k /\ k <= l
      BY <1>2
    <3>2. PICK j \in 1 .. n + l : j = n + i /\ j - 1 = n + (i - 1)
      BY <1>2
    <3>3. Upto(c)[j] = Upto(c)[j - 1] \o c[j]
      BY <1>10
    <3>4. Upto(b)[i] = Upto(b)[i - 1] \o b[i]
      BY <1>5
    <3>5. c[j] = b[i]
      BY <1>2, <3>2
    <3>6. Upto(c)[j - 1] = Upto(a)[n] \o Upto(b)[i - 1]
      BY <2>2, <3>1, <3>2
    <3>7. Upto(b)[i - 1] \in Seq(S) /\ b[i] \in Seq(S)
      <4>1. i - 1 \in 0 .. l
        BY <1>2
      <4> QED
        BY <1>5, <1>11, <4>1
    <3>8. (Upto(a)[n] \o Upto(b)[i - 1]) \o b[i] = Upto(a)[n] \o (Upto(b)[i - 1] \o b[i])
      <4> DEFINE x == Upto(a)[n]
                 y == Upto(b)[i - 1]
                 w == b[i]
      <4>1. x \in Seq(S) /\ y \in Seq(S) /\ w \in Seq(S)
        BY <1>4, <3>7
      <4> HIDE DEF x, y, w
      <4>2. Associative(x, y, w)
        BY <4>1, Associates
      <4> QED
        BY <4>2 DEF x, y, w, Associative
    <3>9. Upto(c)[j] = Upto(a)[n] \o Upto(b)[i]
      BY <3>3, <3>4, <3>5, <3>6, <3>8
    <3> QED
      BY <3>1, <3>2, <3>9
  <2> HIDE DEF Q
  <2> QED
    BY <2>1, <2>2, FromZero
<1>7. Upto(c)[n + l] = Upto(a)[n] \o Upto(b)[l]
  <2>1. l \in Q
    <3> HIDE DEF Q
    <3> QED
      BY <1>2, <1>6
  <2>2. l <= l => Upto(c)[n + l] = Upto(a)[n] \o Upto(b)[l]
    BY <2>1, Zenon
  <2>3. l <= l
    BY <1>2
  <2> QED
    BY <2>2, <2>3, Zenon
<1> QED
  BY <1>7, <1>8 DEF c
-----------------------------------------------------------------------------
(* Reading an options field *)

LEMMA ByteNumber == \A x \in Byte : x \in Nat /\ x < 256
  BY DEF Byte

\* What a reader makes of the bytes from the i-th on, with g for the rest.
FieldAt(bytes, g, i) ==
  IF i > Len(bytes) THEN <<Bad>>
  ELSE IF bytes[i] = END THEN <<>>
  ELSE IF bytes[i] = PAD THEN g[i + 1]
  ELSE IF i = Len(bytes) \/ i + 2 + bytes[i + 1] > Len(bytes) THEN <<Bad>>
  ELSE <<SubSeq(bytes, i, i + 1 + bytes[i + 1])>> \o g[i + 2 + bytes[i + 1]]

FieldsStep(bytes, g) == [i \in 1 .. Len(bytes) + 1 |-> FieldAt(bytes, g, i)]

Reader(bytes) == CHOOSE g : g = FieldsStep(bytes, g)

LEMMA FieldsIs ==
  ASSUME NEW bytes
  PROVE  Fields(bytes) = Reader(bytes)[1]
  BY DEF Fields, Reader, FieldsStep, FieldAt

LEMMA FieldAtType ==
  ASSUME NEW bytes \in Seq(Byte), NEW i \in 1 .. Len(bytes) + 1, NEW g,
         \A j \in 1 .. Len(bytes) + 1 : j > i => g[j] \in Seq(Seq(Nat))
  PROVE  FieldAt(bytes, g, i) \in Seq(Seq(Nat))
<1> DEFINE n == Len(bytes)
<1>1. n \in Nat
  OBVIOUS
<1>2. CASE i > n
  <2>1. <<Bad>> \in Seq(Seq(Nat))
    <3>1. <<256>> \in Seq(Nat)
      OBVIOUS
    <3> QED
      BY <3>1 DEF Bad
  <2> QED
    BY <1>2, <2>1 DEF FieldAt
<1>3. CASE i <= n
  <2>1. i \in 1 .. n /\ ~ (i > n) /\ bytes[i] \in Byte
    BY <1>1, <1>3
  <2>2. CASE bytes[i] = END
    BY <2>1, <2>2, EmptySeq DEF FieldAt
  <2>3. CASE bytes[i] # END /\ bytes[i] = PAD
    <3>1. FieldAt(bytes, g, i) = g[i + 1]
      BY <2>1, <2>3 DEF FieldAt
    <3>2. i + 1 \in 1 .. n + 1 /\ i + 1 > i
      BY <2>1
    <3> QED
      BY <3>1, <3>2
  <2>4. CASE bytes[i] # END /\ bytes[i] # PAD
    <3>1. FieldAt(bytes, g, i) =
            IF i = Len(bytes) \/ i + 2 + bytes[i + 1] > Len(bytes) THEN <<Bad>>
            ELSE <<SubSeq(bytes, i, i + 1 + bytes[i + 1])>> \o g[i + 2 + bytes[i + 1]]
      BY <2>1, <2>4 DEF FieldAt
    <3>2. CASE i = Len(bytes) \/ i + 2 + bytes[i + 1] > Len(bytes)
      <4>1. <<256>> \in Seq(Nat)
        OBVIOUS
      <4> QED
        BY <3>1, <3>2, <4>1 DEF Bad
    <3>3. CASE ~ (i = Len(bytes) \/ i + 2 + bytes[i + 1] > Len(bytes))
      <4>1. i + 1 \in 1 .. n
        BY <1>1, <2>1, <3>3
      <4>2. PICK b \in Nat : b = bytes[i + 1]
        BY <4>1, ByteNumber
      <4>3. i + 2 + b <= n /\ i + 2 + b \in 1 .. n + 1 /\ i + 2 + b > i
        BY <1>1, <2>1, <3>3, <4>2
      <4>4. SubSeq(bytes, i, i + 1 + b) \in Seq(Byte)
        <5>1. i \in Nat \ {0} /\ i + 1 + b \in Nat /\ i <= (i + 1 + b) + 1 /\ i + 1 + b <= n
          BY <1>1, <2>1, <4>3
        <5>2. Cut(Byte, bytes, i, i + 1 + b, SubSeq(bytes, i, i + 1 + b))
          BY <5>1, Cuts
        <5> QED
          BY <5>2 DEF Cut
      <4> DEFINE f == SubSeq(bytes, i, i + 1 + b)
                 r == g[i + 2 + b]
      <4>5. f \in Seq(Nat)
        <5>1. Byte \subseteq Nat
          BY ByteNumber
        <5> QED
          BY <4>4, <5>1, SeqMonotonic
      <4>6. r \in Seq(Seq(Nat))
        BY <4>3
      <4>7. FieldAt(bytes, g, i) = <<f>> \o r
        BY <3>1, <3>3, <4>2
      <4> HIDE DEF f, r
      <4>8. <<f>> \in Seq(Seq(Nat))
        BY <4>5
      <4> QED
        BY <4>6, <4>7, <4>8, ConcatProperties
    <3> QED
      BY <3>2, <3>3
  <2> QED
    BY <2>2, <2>3, <2>4
<1> QED
  BY <1>1, <1>2, <1>3

LEMMA FieldAtSame ==
  ASSUME NEW bytes \in Seq(Byte), NEW i \in 1 .. Len(bytes) + 1, NEW g, NEW h,
         \A j \in 1 .. Len(bytes) + 1 : j > i => g[j] = h[j]
  PROVE  FieldAt(bytes, g, i) = FieldAt(bytes, h, i)
<1> DEFINE n == Len(bytes)
<1>1. n \in Nat
  OBVIOUS
<1>2. CASE i > n
  BY <1>2 DEF FieldAt
<1>3. CASE i <= n
  <2>1. i \in 1 .. n /\ i + 1 \in 1 .. n + 1 /\ i + 1 > i
    BY <1>1, <1>3
  <2>2. g[i + 1] = h[i + 1]
    BY <2>1
  <2>3. ASSUME ~ (i = Len(bytes) \/ i + 2 + bytes[i + 1] > Len(bytes))
        PROVE  g[i + 2 + bytes[i + 1]] = h[i + 2 + bytes[i + 1]]
    <3>1. i + 1 \in 1 .. n
      BY <1>1, <2>1, <2>3
    <3>2. PICK b \in Nat : b = bytes[i + 1]
      BY <3>1, ByteNumber
    <3>3. i + 2 + b \in 1 .. n + 1 /\ i + 2 + b > i
      BY <1>1, <2>1, <2>3, <3>2
    <3> QED
      BY <3>2, <3>3
  <2> QED
    BY <2>2, <2>3 DEF FieldAt
<1> QED
  BY <1>1, <1>2, <1>3

\* A reader comes to an end, whatever the bytes.
LEMMA ReaderDef ==
  ASSUME NEW bytes \in Seq(Byte)
  PROVE  \A i \in 1 .. Len(bytes) + 1 :
           /\ Reader(bytes)[i] = FieldAt(bytes, Reader(bytes), i)
           /\ Reader(bytes)[i] \in Seq(Seq(Nat))
<1> DEFINE n == Len(bytes)
           D == 1 .. n + 1
           V == Seq(Seq(Nat))
           rank == [i \in D |-> n + 1 - i]
           F == [g \in [D -> V] |-> FieldsStep(bytes, g)]
<1>1. n \in Nat
  OBVIOUS
<1>2. F \in [[D -> V] -> [D -> V]]
  <2> SUFFICES ASSUME NEW g \in [D -> V], NEW i \in D PROVE FieldAt(bytes, g, i) \in V
    BY DEF FieldsStep
  <2>1. \A j \in D : g[j] \in V
    OBVIOUS
  <2> QED
    BY <2>1, FieldAtType
<1>3. rank \in [D -> Nat]
  BY <1>1
<1>4. ASSUME NEW g \in [D -> V], NEW h \in [D -> V], NEW i \in D,
             \A j \in D : rank[j] < rank[i] => g[j] = h[j]
      PROVE  F[g][i] = F[h][i]
  <2>1. \A j \in D : j > i => g[j] = h[j]
    BY <1>1, <1>4
  <2>2. FieldAt(bytes, g, i) = FieldAt(bytes, h, i)
    BY <2>1, FieldAtSame
  <2> QED
    BY <2>2 DEF FieldsStep
<1>5. \E g \in [D -> V] : g = F[g]
  <2>1. [i \in D |-> <<>>] \in [D -> V]
    BY EmptySeq
  <2>2. PICK start \in [D -> V] : TRUE
    BY <2>1
  <2> HIDE DEF D, V, rank, F
  <2>3. Recursion(D, V, rank, F)
    BY <1>2, <1>3, <1>4 DEF Recursion
  <2> QED
    BY <2>2, <2>3, RecursionExists
<1> DEFINE r == Reader(bytes)
<1>6. r = FieldsStep(bytes, r)
  BY <1>5 DEF Reader
<1> HIDE DEF r
<1>7. \A i \in D : r[i] = FieldAt(bytes, r, i)
  <2>1. \A i \in D : FieldsStep(bytes, r)[i] = FieldAt(bytes, r, i)
    BY DEF FieldsStep
  <2> QED
    BY <1>6, <2>1
<1> DEFINE T == {d \in Nat : \A i \in D : n + 1 - i = d => r[i] \in V}
<1>8. \A d \in Nat : d \in T
  <2>1. ASSUME NEW d \in Nat, \A e \in Nat : e < d => e \in T PROVE d \in T
    <3> SUFFICES ASSUME NEW i \in D, n + 1 - i = d PROVE r[i] \in V
      OBVIOUS
    <3>1. ASSUME NEW j \in D, j > i PROVE r[j] \in V
      <4>1. n + 1 - j \in Nat /\ n + 1 - j < d
        BY <1>1, <3>1
      <4> QED
        BY <2>1, <4>1
    <3>2. FieldAt(bytes, r, i) \in V
      BY <3>1, FieldAtType
    <3> QED
      BY <1>7, <3>2
  <2> HIDE DEF T
  <2> QED
    BY <2>1, AllNumbers
<1>9. ASSUME NEW i \in D PROVE r[i] \in V
  <2>1. n + 1 - i \in Nat
    BY <1>1
  <2> QED
    BY <1>8, <2>1
<1> QED
  BY <1>7, <1>9 DEF r

\* A reader finds the options one after the other, up to END.
THEOREM ReadsBack ==
  ASSUME NEW s \in Seq(Seq(Byte)), \A k \in 1 .. Len(s) : IsOption(s[k]),
         NEW z \in Seq(Byte), NEW bytes, bytes = FlattenSeq(s) \o (<<END>> \o z)
  PROVE  Fields(bytes) = s
<1> DEFINE n == Len(s)
           t == <<END>> \o z
           flat == FlattenSeq(s)
           r == Reader(bytes)
           u == Upto(s)
           m == Len(flat)
           l == Len(bytes)
<1>1. /\ n \in Nat /\ flat \in Seq(Byte) /\ flat = u[n] /\ m \in Nat /\ u[0] = <<>>
  BY FlattenIs, UptoDef, LenProperties
<1>2. t \in Seq(Byte) /\ Len(t) \in Nat /\ Len(t) >= 1 /\ t[1] = END
  <2>1. <<END>> \in Seq(Byte) /\ Len(<<END>>) = 1 /\ <<END>>[1] = END
    BY DEF END, Byte
  <2> DEFINE e == <<END>>
  <2> HIDE DEF e
  <2>2. Joined(Byte, e, z, t)
    BY <2>1, Joins DEF e
  <2> HIDE DEF t
  <2>3. e \in Seq(Byte) /\ Len(e) = 1 /\ e[1] = END
    BY <2>1 DEF e
  <2> QED
    BY <2>2, <2>3 DEF Joined
<1>3. bytes \in Seq(Byte) /\ l \in Nat /\ l >= m + 1 /\ bytes[m + 1] = END
  <2> HIDE DEF t, flat
  <2>1. Joined(Byte, flat, t, bytes)
    BY <1>1, <1>2, Joins DEF flat, t
  <2>2. l = m + Len(t) /\ bytes \in Seq(Byte) /\ \A i \in 1 .. Len(t) : bytes[m + i] = t[i]
    BY <2>1 DEF Joined
  <2>3. 1 \in 1 .. Len(t)
    BY <1>2
  <2> HIDE DEF m, l
  <2>4. bytes[m + 1] = END
    BY <1>2, <2>2, <2>3
  <2>5. m \in Nat /\ Len(t) \in Nat /\ Len(t) >= 1 /\ l = m + Len(t)
    BY <1>1, <1>2, <2>2
  <2>6. l \in Nat /\ l >= m + 1
    BY <2>5
  <2> QED
    BY <2>2, <2>4, <2>6
<1>4. \A i \in 1 .. l + 1 : r[i] = FieldAt(bytes, r, i)
  BY <1>3, ReaderDef
<1>11. ASSUME NEW k \in 1 .. n
       PROVE  /\ Placed(bytes, s[k], Len(u[k - 1]), Len(u[k])) /\ Len(u[k]) <= m
              /\ IsOption(s[k])
  BY <1>2, Piece
<1>12. ASSUME NEW k \in 1 .. n PROVE SubSeq(s, k, n) = <<s[k]>> \o SubSeq(s, k + 1, n)
  <2>1. n \in k .. n
    BY <1>1
  <2> QED
    BY <2>1, SubSeqRecursiveFirst
<1>13. SubSeq(s, n + 1, n) = <<>> /\ SubSeq(s, 1, n) = s
  BY <1>1, SubSeqEmpty, SubSeqFull
<1> HIDE DEF n, t, r, u
<1> DEFINE T == {d \in Nat : d <= n => r[Len(u[n - d]) + 1] = SubSeq(s, n - d + 1, n)}
<1>5. 0 \in T
  <2> HIDE DEF m, l
  <2>1. n - 0 = n /\ m + 1 \in 1 .. l + 1 /\ ~ (m + 1 > l)
    BY <1>1, <1>3
  <2>2. r[m + 1] = <<>>
    BY <1>3, <1>4, <2>1 DEF FieldAt, l
  <2> QED
    BY <1>1, <1>13, <2>1, <2>2 DEF m
<1>6. ASSUME NEW d \in Nat, d \in T PROVE d + 1 \in T
  <2>0. d + 1 \in Nat
    OBVIOUS
  <2> SUFFICES ASSUME d + 1 <= n
               PROVE  r[Len(u[n - (d + 1)]) + 1] = SubSeq(s, n - (d + 1) + 1, n)
    BY <2>0, Zenon
  <2>1. PICK k \in 1 .. n : k = n - d /\ k - 1 = n - (d + 1) /\ d <= n
    BY <1>1
  <2>4. r[Len(u[k]) + 1] = SubSeq(s, k + 1, n)
    BY <1>6, <2>1
  <2> DEFINE p == Len(u[k - 1])
             q == Len(u[k])
             f == s[k]
             w == Len(f)
  <2>2. Placed(bytes, f, p, q) /\ q <= m /\ IsOption(f)
    BY <1>11
  <2>5. SubSeq(s, k, n) = <<f>> \o SubSeq(s, k + 1, n)
    BY <1>12
  <2> HIDE DEF p, q, f, T
  <2>3. p \in Nat /\ q \in Nat /\ q = p + w
    BY <2>2 DEF Placed
  <2>6. w \in Nat /\ w >= 2 /\ f[1] # PAD /\ f[1] # END /\ f[2] = w - 2
    BY <2>2 DEF IsOption
  <2> HIDE DEF w, l, m
  <2>7. bytes[p + 1] = f[1] /\ bytes[p + 2] = f[2]
    <3>1. 1 \in 1 .. w /\ 2 \in 1 .. w
      BY <2>6
    <3> QED
      BY <2>2, <3>1 DEF Placed, w
  <2>8. PICK i \in 1 .. l :
          /\ i = p + 1 /\ i + 1 = p + 2 /\ i # l /\ ~ (i > l) /\ i \in 1 .. l + 1
          /\ i + 2 + (w - 2) = q + 1 /\ ~ (q + 1 > l) /\ i + 1 + (w - 2) = q
    BY <1>1, <1>3, <2>2, <2>3, <2>6
  <2>9. r[i] = FieldAt(bytes, r, i)
    BY <1>4, <2>8
  <2>10. FieldAt(bytes, r, i) = <<SubSeq(bytes, i, q)>> \o r[q + 1]
    <3>1. bytes[i] # END /\ bytes[i] # PAD /\ bytes[i + 1] = w - 2
      BY <2>6, <2>7, <2>8
    <3> QED
      BY <2>8, <3>1, Zenon DEF FieldAt, l
  <2>11. SubSeq(bytes, i, q) = f
    BY <2>2, <2>8 DEF Placed
  <2>12. r[p + 1] = <<f>> \o SubSeq(s, k + 1, n)
    BY <2>4, <2>8, <2>9, <2>10, <2>11 DEF q
  <2>13. k = n - (d + 1) + 1
    BY <1>1, <2>1
  <2> QED
    BY <2>1, <2>5, <2>12, <2>13 DEF p
<1>7. n \in T
  <2> HIDE DEF T
  <2>1. \A d \in Nat : d \in T
    BY <1>5, <1>6, FromZero
  <2> QED
    BY <1>1, <2>1
<1>8. n <= n /\ n - n = 0 /\ Len(<<>>) + 1 = 1 /\ 0 + 1 = 1
  BY <1>1
<1>9. r[1] = SubSeq(s, 1, n)
  BY <1>1, <1>7, <1>8
<1> QED
  BY <1>9, <1>13, FieldsIs DEF r
-----------------------------------------------------------------------------
(* Putting options into the buffer *)

\* A buffer that holds x and no more.
Holding(x) == [buff |-> x, size |-> Len(x)]

LEMMA CopyType ==
  ASSUME NEW b \in Seq(Byte), NEW offset \in Nat, NEW bytes \in Seq(Byte)
  PROVE  Copy(b, offset, bytes) \in Seq(Byte)
<1> DEFINE n == IF offset + Len(bytes) > Len(b) THEN offset + Len(bytes) ELSE Len(b)
<1>1. n \in Nat
  BY LenProperties
<1>2. Copy(b, offset, bytes) \in [1 .. n -> Byte]
  <2> SUFFICES ASSUME NEW i \in 1 .. n
               PROVE  (IF i > offset /\ i <= offset + Len(bytes) THEN bytes[i - offset]
                       ELSE IF i <= Len(b) THEN b[i] ELSE 0) \in Byte
    BY DEF Copy
  <2>1. CASE i > offset /\ i <= offset + Len(bytes)
    <3>1. i - offset \in 1 .. Len(bytes)
      BY <2>1, LenProperties
    <3> QED
      BY <2>1, <3>1
  <2>2. CASE ~ (i > offset /\ i <= offset + Len(bytes))
    <3>1. i <= Len(b) => i \in 1 .. Len(b)
      BY LenProperties
    <3>2. 0 \in Byte
      BY DEF Byte
    <3> QED
      BY <2>2, <3>1, <3>2
  <2> QED
    BY <2>1, <2>2
<1> HIDE DEF n
<1> QED
  BY <1>1, <1>2, AsSequence

LEMMA CopyEnd ==
  ASSUME NEW b \in Seq(Byte), NEW bytes \in Seq(Byte)
  PROVE  Copy(b, Len(b), bytes) = b \o bytes
<1> DEFINE c == Copy(b, Len(b), bytes)
           m == Len(b)
           l == Len(bytes)
           n == IF m + l > m THEN m + l ELSE m
<1>1. Joined(Byte, b, bytes, b \o bytes)
  BY Joins
<1>2. c \in Seq(Byte)
  BY CopyType, LenProperties
<1>3. m \in Nat /\ l \in Nat
  BY LenProperties
<1>4. c = [i \in 1 .. n |-> IF i > m /\ i <= m + l THEN bytes[i - m]
                            ELSE IF i <= m THEN b[i] ELSE 0]
  BY DEF Copy
<1> HIDE DEF m, l, c
<1>5. n = m + l
  BY <1>3
<1>6. Len(c) = m + l
  <2>1. DOMAIN c = 1 .. m + l
    BY <1>4, <1>5
  <2>2. DOMAIN c = 1 .. Len(c) /\ Len(c) \in Nat
    BY <1>2, LenProperties
  <2> QED
    BY <1>3, <2>1, <2>2
<1>7. ASSUME NEW i \in 1 .. m + l PROVE c[i] = (b \o bytes)[i]
  <2>1. CASE i > m
    <3>1. PICK j \in 1 .. l : i = m + j /\ i - m = j /\ i <= m + l
      BY <1>3, <2>1
    <3>2. c[i] = bytes[j]
      BY <1>4, <1>5, <2>1, <3>1
    <3>3. (b \o bytes)[m + j] = bytes[j]
      BY <1>1 DEF Joined, m, l
    <3> QED
      BY <3>1, <3>2, <3>3
  <2>2. CASE i <= m
    <3>1. i \in 1 .. m /\ ~ (i > m)
      BY <1>3, <2>2
    <3>2. c[i] = b[i]
      BY <1>4, <1>5, <2>2, <3>1
    <3>3. (b \o bytes)[i] = b[i]
      BY <1>1, <3>1 DEF Joined, m
    <3> QED
      BY <3>2, <3>3
  <2>3. i > m \/ i <= m
    BY <1>3
  <2> QED
    BY <2>1, <2>2, <2>3
<1>8. b \o bytes \in Seq(Byte) /\ Len(b \o bytes) = m + l
  BY <1>1 DEF Joined, m, l
<1>9. c = b \o bytes
  BY <1>2, <1>6, <1>7, <1>8, SeqEqual
<1> QED
  BY <1>9 DEF c, m

LEMMA Puts ==
  ASSUME NEW x \in Seq(Byte), NEW y \in Seq(Byte)
  PROVE  Put(Holding(x), y) = Holding(x \o y)
<1>1. Joined(Byte, x, y, x \o y)
  BY Joins
<1>2. Len(x \o y) = Len(x) + Len(y)
  BY <1>1 DEF Joined
<1>3. Copy(x, Len(x), y) = x \o y
  BY CopyEnd
<1> QED
  BY <1>2, <1>3 DEF Put, Holding

\* The greatest of some numbers up to n.
LEMMA MaxIs ==
  ASSUME NEW n \in Nat, NEW T \in SUBSET (1 .. n), T # {}
  PROVE  Max(T) \in T /\ \A j \in T : j <= Max(T)
<1> DEFINE R == {n - i : i \in T}
<1>1. R \in SUBSET Nat /\ R # {}
  <2>1. \A i \in T : i \in 1 .. n /\ n - i \in Nat
    OBVIOUS
  <2>2. R \subseteq Nat
    BY <2>1
  <2>3. \E i \in T : n - i \in R
    BY Zenon
  <2> QED
    BY <2>2, <2>3
<1>2. PICK r \in R : \A q \in R : r <= q
  BY <1>1, LeastElement
<1>3. PICK i \in T : r = n - i
  BY <1>2
<1>4. \A j \in T : i >= j
  <2> SUFFICES ASSUME NEW j \in T PROVE i >= j
    OBVIOUS
  <2>1. n - j \in R
    OBVIOUS
  <2>2. n - i <= n - j /\ i \in 1 .. n /\ j \in 1 .. n
    BY <1>2, <1>3, <2>1
  <2> QED
    BY <2>2
<1>5. Max(T) \in T /\ \A j \in T : Max(T) >= j
  BY <1>3, <1>4 DEF Max
<1> QED
  BY <1>5

LEMMA MaxUpTo ==
  ASSUME NEW k \in Nat, k > 0
  PROVE  1 .. k # {} /\ Max(1 .. k) = k /\ (1 .. k) \ {Max(1 .. k)} = 1 .. (k - 1)
<1>1. k \in 1 .. k
  OBVIOUS
<1>2. Max(1 .. k) \in 1 .. k /\ \A j \in 1 .. k : j <= Max(1 .. k)
  BY <1>1, MaxIs
<1>3. Max(1 .. k) = k
  BY <1>1, <1>2
<1> QED
  BY <1>1, <1>3

Buffers == [buff : Seq(Byte), size : Nat]

LEMMA PutType ==
  ASSUME NEW b \in Buffers, NEW bytes \in Seq(Byte)
  PROVE  Put(b, bytes) \in Buffers
<1>1. b.buff \in Seq(Byte) /\ b.size \in Nat /\ Len(bytes) \in Nat
  BY LenProperties DEF Buffers
<1>2. Copy(b.buff, b.size, bytes) \in Seq(Byte)
  BY <1>1, CopyType
<1> QED
  BY <1>1, <1>2 DEF Put, Buffers

\* The fold of Put takes its elements away from the last one on.
FoldStep(b, s, g) ==
  [T \in SUBSET DOMAIN s |-> IF T = {} THEN b ELSE Put(g[T \ {Max(T)}], s[Max(T)])]

Folding(b, s) == CHOOSE g : g = FoldStep(b, s, g)

LEMMA FoldLeftIs ==
  ASSUME NEW b, NEW s
  PROVE  FoldLeft(Put, b, s) = Folding(b, s)[DOMAIN s]
  BY DEF FoldLeft, MapThenFoldSet, Folding, FoldStep

LEMMA FoldingDef ==
  ASSUME NEW b \in Buffers, NEW s \in Seq(Seq(Byte))
  PROVE  /\ Folding(b, s)[1 .. 0] = b
         /\ \A k \in 1 .. Len(s) : Folding(b, s)[1 .. k] = Put(Folding(b, s)[1 .. (k - 1)], s[k])
<1> DEFINE n == Len(s)
           D == SUBSET DOMAIN s
           V == Buffers
           rank == [T \in D |-> IF T = {} THEN 0 ELSE Max(T)]
           F == [g \in [D -> V] |-> FoldStep(b, s, g)]
<1>1. n \in Nat /\ DOMAIN s = 1 .. n
  BY LenProperties
<1>2. ASSUME NEW T \in D, T # {}
      PROVE  /\ Max(T) \in 1 .. n /\ T \ {Max(T)} \in D
             /\ rank[T \ {Max(T)}] < rank[T]
  <2>1. T \in SUBSET (1 .. n)
    BY <1>1
  <2>2. Max(T) \in T /\ \A j \in T : j <= Max(T)
    BY <1>1, <1>2, <2>1, MaxIs
  <2> DEFINE R == T \ {Max(T)}
  <2>3. R \in D /\ R \in SUBSET (1 .. n)
    BY <2>1
  <2>4. R # {} => Max(R) \in R
    <3> HIDE DEF R
    <3> QED
      BY <1>1, <2>3, MaxIs
  <2>5. (IF R = {} THEN 0 ELSE Max(R)) < Max(T)
    <3>1. CASE R = {}
      BY <2>1, <2>2, <3>1
    <3>2. CASE R # {}
      <4>1. Max(R) \in T /\ Max(R) # Max(T)
        BY <2>4, <3>2
      <4>2. Max(R) \in 1 .. n /\ Max(T) \in 1 .. n /\ Max(R) <= Max(T)
        BY <2>1, <2>2, <4>1
      <4>3. Max(R) < Max(T)
        BY <4>1, <4>2
      <4> QED
        BY <3>2, <4>3
    <3> QED
      BY <3>1, <3>2
  <2>6. rank[R] = (IF R = {} THEN 0 ELSE Max(R)) /\ rank[T] = Max(T)
    BY <1>2, <2>3
  <2>7. Max(T) \in 1 .. n
    BY <2>1, <2>2
  <2>8. rank[R] < rank[T]
    BY <2>5, <2>6
  <2> QED
    BY <2>3, <2>7, <2>8
<1>3. rank \in [D -> Nat]
  <2> SUFFICES ASSUME NEW T \in D PROVE (IF T = {} THEN 0 ELSE Max(T)) \in Nat
    OBVIOUS
  <2>1. T # {} => Max(T) \in 1 .. n
    BY <1>2
  <2> QED
    BY <2>1
<1>4. F \in [[D -> V] -> [D -> V]]
  <2> SUFFICES ASSUME NEW g \in [D -> V], NEW T \in D
               PROVE  (IF T = {} THEN b ELSE Put(g[T \ {Max(T)}], s[Max(T)])) \in V
    BY DEF FoldStep
  <2>1. CASE T = {}
    BY <2>1
  <2>2. CASE T # {}
    <3>1. Max(T) \in 1 .. n /\ T \ {Max(T)} \in D
      BY <1>2, <2>2
    <3>2. g[T \ {Max(T)}] \in V
      BY <3>1
    <3>3. s[Max(T)] \in Seq(Byte)
      BY <3>1
    <3>4. Put(g[T \ {Max(T)}], s[Max(T)]) \in V
      BY <3>2, <3>3, PutType
    <3> QED
      BY <2>2, <3>4
  <2> QED
    BY <2>1, <2>2
<1>5. ASSUME NEW g \in [D -> V], NEW h \in [D -> V], NEW T \in D,
             \A R \in D : rank[R] < rank[T] => g[R] = h[R]
      PROVE  F[g][T] = F[h][T]
  <2>1. T # {} => g[T \ {Max(T)}] = h[T \ {Max(T)}]
    <3> HIDE DEF rank, D
    <3> QED
      BY <1>2, <1>5
  <2> QED
    BY <2>1 DEF FoldStep
<1>6. \E g \in [D -> V] : g = F[g]
  <2>1. [T \in D |-> b] \in [D -> V]
    OBVIOUS
  <2>2. PICK start \in [D -> V] : TRUE
    BY <2>1
  <2> HIDE DEF D, V, rank, F
  <2>3. Recursion(D, V, rank, F)
    BY <1>3, <1>4, <1>5 DEF Recursion
  <2> QED
    BY <2>2, <2>3, RecursionExists
<1> DEFINE f == Folding(b, s)
<1>7. f = FoldStep(b, s, f)
  BY <1>6 DEF Folding
<1> HIDE DEF f
<1>8. \A T \in D : f[T] = IF T = {} THEN b ELSE Put(f[T \ {Max(T)}], s[Max(T)])
  <2>1. \A T \in D : FoldStep(b, s, f)[T]
                       = IF T = {} THEN b ELSE Put(f[T \ {Max(T)}], s[Max(T)])
    BY DEF FoldStep
  <2> QED
    BY <1>7, <2>1
<1>9. f[1 .. 0] = b
  <2>1. 1 .. 0 \in D /\ 1 .. 0 = {}
    BY <1>1
  <2> QED
    BY <1>8, <2>1
<1>10. ASSUME NEW k \in 1 .. n PROVE f[1 .. k] = Put(f[1 .. (k - 1)], s[k])
  <2> DEFINE T == 1 .. k
  <2>1. T \in D /\ T # {} /\ Max(T) = k /\ T \ {Max(T)} = 1 .. (k - 1)
    <3>1. T \in D
      BY <1>1
    <3>2. k \in Nat /\ k > 0
      BY <1>1
    <3> QED
      BY <3>1, <3>2, MaxUpTo
  <2> HIDE DEF T
  <2>2. f[T] = Put(f[T \ {Max(T)}], s[Max(T)])
    BY <1>8, <2>1
  <2> QED
    BY <2>1, <2>2 DEF T
<1> QED
  BY <1>9, <1>10 DEF f

\* The options of a message, one behind the other.
LEMMA FoldPuts ==
  ASSUME NEW x \in Seq(Byte), NEW s \in Seq(Seq(Byte))
  PROVE  FoldLeft(Put, Holding(x), s) = Holding(x \o FlattenSeq(s))
<1> DEFINE n == Len(s)
           f == Folding(Holding(x), s)
           u == Upto(s)
<1>1. /\ n \in Nat /\ DOMAIN s = 1 .. n /\ \A k \in 1 .. n : s[k] \in Seq(Byte)
  BY LenProperties, ElementOfSeq
<1>2. Holding(x) \in Buffers
  BY LenProperties DEF Holding, Buffers
<1>3. f[1 .. 0] = Holding(x) /\ \A k \in 1 .. n : f[1 .. k] = Put(f[1 .. (k - 1)], s[k])
  BY <1>2, FoldingDef
<1>4. u[0] = <<>> /\ \A k \in 1 .. n : u[k] = u[k - 1] \o s[k]
  BY UptoDef
<1>5. \A k \in 0 .. n : u[k] \in Seq(Byte)
  BY UptoDef
<1> HIDE DEF n, f, u
<1> DEFINE T == {k \in Nat : k <= n => f[1 .. k] = Holding(x \o u[k])}
<1>6. 0 \in T
  BY <1>3, <1>4, ConcatEmptySeq
<1>7. ASSUME NEW k \in Nat, k \in T PROVE k + 1 \in T
  <2>0. k + 1 \in Nat
    OBVIOUS
  <2> SUFFICES ASSUME k + 1 <= n PROVE f[1 .. (k + 1)] = Holding(x \o u[k + 1])
    BY <2>0, Zenon
  <2>1. PICK i \in 1 .. n : i = k + 1 /\ i - 1 = k /\ k <= n /\ i - 1 \in 0 .. n
    BY <1>1
  <2>2. f[1 .. (i - 1)] = Holding(x \o u[i - 1])
    BY <1>7, <2>1
  <2>3. f[1 .. i] = Put(Holding(x \o u[i - 1]), s[i])
    BY <1>3, <2>2
  <2> DEFINE y == u[i - 1]
             w == s[i]
  <2>4. y \in Seq(Byte) /\ w \in Seq(Byte)
    BY <1>1, <1>5, <2>1
  <2>5. u[i] = y \o w
    BY <1>4
  <2> HIDE DEF y, w
  <2>6. Joined(Byte, x, y, x \o y)
    BY <2>4, Joins
  <2>7. Put(Holding(x \o y), w) = Holding((x \o y) \o w)
    BY <2>4, <2>6, Puts DEF Joined
  <2>8. Associative(x, y, w)
    BY <2>4, Associates
  <2>9. f[1 .. i] = Holding(x \o u[i])
    BY <2>3, <2>5, <2>7, <2>8 DEF Associative, y, w
  <2> QED
    BY <2>1, <2>9
<1>8. n \in T
  <2> HIDE DEF T
  <2>1. \A k \in Nat : k \in T
    BY <1>6, <1>7, FromZero
  <2> QED
    BY <1>1, <2>1
<1>9. f[1 .. n] = Holding(x \o u[n])
  <2>1. n <= n
    BY <1>1
  <2> QED
    BY <1>8, <2>1
<1> QED
  BY <1>1, <1>9, FoldLeftIs, FlattenIs DEF n, f, u

\* One message: option 53, the options, END and padding.
Message(type, options) == Pad(Put(FoldLeft(Put, Put53(Reset, type), options), <<END>>))

Whole(type, options) == <<<<53, 1, type>>>> \o options
Closed(type, options) == FlattenSeq(Whole(type, options)) \o <<END>>

\* bytes are an options field of that type with these options, and padding with -p.
Carries(bytes, type, options, padded) ==
  /\ bytes \in Seq(Byte)
  /\ Fields(bytes) = Whole(type, options)
  /\ SubSeq(bytes, 1, Len(Closed(type, options))) = Closed(type, options)
  /\ Len(bytes) = IF padded /\ Len(Closed(type, options)) < 60 THEN 60
                  ELSE Len(Closed(type, options))

LEMMA Type53 ==
  ASSUME NEW type \in {1, 3, 7}
  PROVE  /\ <<53, 1, type>> \in Seq(Byte) /\ Len(<<53, 1, type>>) = 3
         /\ IsOption(<<53, 1, type>>)
<1>1. 53 \in Byte /\ 1 \in Byte /\ type \in Byte
  BY DEF Byte
<1>2. <<53, 1, type>> \in Seq(Byte)
  BY <1>1
<1> QED
  BY <1>2 DEF IsOption, PAD, END

LEMMA WholeIs ==
  ASSUME NEW type \in {1, 3, 7}, NEW options \in Seq(Seq(Byte)),
         \A k \in 1 .. Len(options) : IsOption(options[k])
  PROVE  /\ Whole(type, options) \in Seq(Seq(Byte))
         /\ \A k \in 1 .. Len(Whole(type, options)) : IsOption(Whole(type, options)[k])
         /\ FlattenSeq(Whole(type, options)) = <<53, 1, type>> \o FlattenSeq(options)
         /\ FlattenSeq(Whole(type, options)) \in Seq(Byte)
<1> DEFINE h == <<53, 1, type>>
           a == <<h>>
           w == a \o options
<1>1. h \in Seq(Byte) /\ IsOption(h)
  BY Type53
<1> HIDE DEF h
<1>2. a \in Seq(Seq(Byte)) /\ Len(a) = 1 /\ a[1] = h /\ FlattenSeq(a) = h
  BY <1>1, FlattenFew
<1> HIDE DEF a
<1>3. Joined(Seq(Byte), a, options, w)
  BY <1>2, Joins
<1>4. FlattenSeq(w) = h \o FlattenSeq(options)
  BY <1>2, FlattenConcat
<1> HIDE DEF w
<1>5. w \in Seq(Seq(Byte)) /\ Len(w) = 1 + Len(options) /\ Len(options) \in Nat
  BY <1>2, <1>3 DEF Joined
<1>6. ASSUME NEW k \in 1 .. Len(w) PROVE IsOption(w[k])
  <2>1. CASE k = 1
    <3>1. w[1] = a[1]
      BY <1>2, <1>3 DEF Joined
    <3> QED
      BY <1>1, <1>2, <2>1, <3>1
  <2>2. CASE k # 1
    <3>1. PICK j \in 1 .. Len(options) : k = 1 + j
      BY <1>5, <2>2
    <3>2. w[1 + j] = options[j]
      BY <1>2, <1>3 DEF Joined
    <3> QED
      BY <3>1, <3>2
  <2> QED
    BY <2>1, <2>2
<1>7. FlattenSeq(w) \in Seq(Byte)
  BY <1>5, FlattenIs
<1> QED
  BY <1>4, <1>5, <1>6, <1>7 DEF Whole, w, a, h

\* Two parts with a third between them.
LEMMA FrontOf ==
  ASSUME NEW x \in Seq(Byte), NEW z \in Seq(Byte)
  PROVE  SubSeq(x \o z, 1, Len(x)) = x
<1> DEFINE y == x \o z
           n == Len(x)
           t == SubSeq(y, 1, n)
<1>1. Joined(Byte, x, z, y)
  BY Joins
<1> HIDE DEF y
<1>2. /\ y \in Seq(Byte) /\ n \in Nat /\ Len(z) \in Nat /\ Len(y) = n + Len(z)
      /\ \A i \in 1 .. n : y[i] = x[i]
  BY <1>1 DEF Joined
<1> HIDE DEF n
<1>3. 1 \in Nat \ {0} /\ 1 <= n + 1 /\ n <= Len(y)
  BY <1>2
<1>4. Cut(Byte, y, 1, n, t)
  BY <1>2, <1>3, Cuts
<1> HIDE DEF t
<1>5. t \in Seq(Byte) /\ Len(t) = n
  BY <1>2, <1>4 DEF Cut
<1>6. ASSUME NEW i \in 1 .. n PROVE t[i] = x[i]
  <2>1. i \in 1 .. n - 1 + 1 /\ 1 + i - 1 = i
    BY <1>2
  <2> QED
    BY <1>2, <1>4, <2>1 DEF Cut
<1>7. t = x
  BY <1>5, <1>6, SeqEqual DEF n
<1> QED
  BY <1>7 DEF t, n, y

\* What main builds in an empty buffer is what a reader gets out of it.
THEOREM MessageCarries ==
  ASSUME NEW type \in {1, 3, 7}, NEW options \in Seq(Seq(Byte)),
         \A k \in 1 .. Len(options) : IsOption(options[k])
  PROVE  \E x \in Seq(Byte) :
           Message(type, options) = Holding(x) /\ Carries(x, type, options, Given("p"))
<1> DEFINE h == <<53, 1, type>>
           flat == FlattenSeq(Whole(type, options))
           e == <<END>>
           c == flat \o e
<1>1. h \in Seq(Byte) /\ Len(h) = 3
  BY Type53
<1>2. /\ Whole(type, options) \in Seq(Seq(Byte))
      /\ \A k \in 1 .. Len(Whole(type, options)) : IsOption(Whole(type, options)[k])
      /\ flat = h \o FlattenSeq(options) /\ flat \in Seq(Byte)
  BY WholeIs
<1>3. e \in Seq(Byte) /\ Len(e) = 1
  BY DEF END, Byte
<1>4. Put53(Reset, type) = Holding(h)
  <2>1. <<>> \in Seq(Byte) /\ Len(<<>>) = 0
    BY EmptySeq
  <2> HIDE DEF h
  <2>2. <<>> \o h = h
    BY <1>1, ConcatEmptySeq
  <2>3. Copy(<<>>, 0, h) = h
    BY <1>1, <2>1, <2>2, CopyEnd
  <2>4. Put53(Reset, type) = [buff |-> Copy(<<>>, 0, h), size |-> 0 + 3]
    BY DEF Put53, Reset, h
  <2> QED
    BY <1>1, <2>3, <2>4 DEF Holding
<1> HIDE DEF h, e, flat
<1>5. FoldLeft(Put, Put53(Reset, type), options) = Holding(flat)
  BY <1>1, <1>2, <1>4, FoldPuts
<1>6. Put(Holding(flat), e) = Holding(c)
  BY <1>2, <1>3, Puts
<1>7. Message(type, options) = Pad(Holding(c))
  BY <1>5, <1>6 DEF Message, e
<1>8. c = Closed(type, options)
  BY DEF Closed, flat, e
<1>9. c \in Seq(Byte) /\ Len(c) \in Nat
  <2>1. Joined(Byte, flat, e, c)
    BY <1>2, <1>3, Joins
  <2> HIDE DEF c
  <2> QED
    BY <2>1, LenProperties DEF Joined
<1>10. ASSUME NEW z \in Seq(Byte)
       PROVE  /\ Fields(c \o z) = Whole(type, options)
              /\ SubSeq(c \o z, 1, Len(c)) = c
  <2>1. Associative(flat, e, z)
    BY <1>2, <1>3, Associates
  <2>2. c \o z = flat \o (e \o z)
    BY <2>1 DEF Associative
  <2>3. Fields(c \o z) = Whole(type, options)
    <3> DEFINE b == c \o z
    <3>1. b = FlattenSeq(Whole(type, options)) \o (<<END>> \o z)
      BY <2>2 DEF flat, e
    <3> HIDE DEF b
    <3>2. Fields(b) = Whole(type, options)
      BY <1>2, <3>1, ReadsBack
    <3> QED
      BY <3>2 DEF b
  <2> HIDE DEF c
  <2>4. SubSeq(c \o z, 1, Len(c)) = c
    BY <1>9, FrontOf
  <2> QED
    BY <2>3, <2>4
<1> HIDE DEF c
<1>11. CASE Given("p") /\ 240 + Len(c) < 300
  <2> DEFINE z == [i \in 1 .. 60 - Len(c) |-> PAD]
             x == c \o z
  <2>1. Len(c) < 60 /\ 60 - Len(c) \in Nat
    BY <1>9, <1>11
  <2>2. z \in Seq(Byte) /\ Len(z) = 60 - Len(c)
    <3>1. PAD \in Byte
      BY DEF PAD, Byte
    <3>2. z \in [1 .. 60 - Len(c) -> Byte]
      BY <3>1
    <3> HIDE DEF z
    <3> QED
      BY <2>1, <3>2, AsSequence
  <2>3. Pad(Holding(c)) = [buff |-> Copy(c, Len(c), z), size |-> 60]
    BY <1>11 DEF Pad, Holding
  <2> HIDE DEF z
  <2>4. Copy(c, Len(c), z) = x
    BY <1>9, <2>2, CopyEnd
  <2>5. x \in Seq(Byte) /\ Len(x) = 60
    <3>1. Joined(Byte, c, z, x)
      BY <1>9, <2>2, Joins
    <3> HIDE DEF x
    <3>2. x \in Seq(Byte) /\ Len(x) = Len(c) + Len(z)
      BY <3>1 DEF Joined
    <3> QED
      BY <1>9, <2>1, <2>2, <3>2
  <2>6. Message(type, options) = Holding(x)
    BY <1>7, <2>3, <2>4, <2>5 DEF Holding
  <2>7. Carries(x, type, options, Given("p"))
    BY <1>8, <1>10, <1>11, <2>1, <2>2, <2>5 DEF Carries
  <2> QED
    BY <2>5, <2>6, <2>7
<1>12. CASE ~ (Given("p") /\ 240 + Len(c) < 300)
  <2>1. Message(type, options) = Holding(c)
    BY <1>7, <1>12 DEF Pad, Holding
  <2>2. ~ (Given("p") /\ Len(c) < 60)
    BY <1>9, <1>12
  <2>3. <<>> \in Seq(Byte) /\ c \o <<>> = c
    BY <1>9, EmptySeq, ConcatEmptySeq
  <2>4. Fields(c) = Whole(type, options) /\ SubSeq(c, 1, Len(c)) = c
    BY <1>10, <2>3
  <2>5. Carries(c, type, options, Given("p"))
    BY <1>8, <1>9, <2>2, <2>4 DEF Carries
  <2> QED
    BY <1>9, <2>1, <2>5
<1> QED
  BY <1>11, <1>12
-----------------------------------------------------------------------------
(* The options of a message *)

\* Options of at most n bytes in all, with these codes.
Part(s, n, codes) ==
  /\ s \in Seq(Seq(Byte))
  /\ n \in Nat /\ Len(FlattenSeq(s)) \in Nat /\ Len(FlattenSeq(s)) <= n
  /\ \A f \in ToSet(s) : IsOption(f) /\ f[1] \in codes

LEMMA ToSetConcat ==
  ASSUME NEW S, NEW a \in Seq(S), NEW b \in Seq(S)
  PROVE  ToSet(a \o b) = ToSet(a) \cup ToSet(b)
<1> DEFINE c == a \o b
           n == Len(a)
           l == Len(b)
<1>1. Joined(S, a, b, c)
  BY Joins
<1>2. DOMAIN a = 1 .. n /\ DOMAIN b = 1 .. l
  BY LenProperties
<1> HIDE DEF c
<1>3. /\ n \in Nat /\ l \in Nat /\ Len(c) = n + l /\ c \in Seq(S)
      /\ \A i \in 1 .. n : c[i] = a[i]
      /\ \A i \in 1 .. l : c[n + i] = b[i]
  BY <1>1 DEF Joined
<1>4. DOMAIN c = 1 .. n + l
  BY <1>3, LenProperties
<1> HIDE DEF n, l
<1>5. ASSUME NEW i \in 1 .. n + l PROVE c[i] \in ToSet(a) \cup ToSet(b)
  <2>1. CASE i <= n
    <3>1. i \in 1 .. n
      BY <1>3, <2>1
    <3> QED
      BY <1>2, <1>3, <3>1 DEF ToSet
  <2>2. CASE i > n
    <3>0. i - n \in 1 .. l /\ i = n + (i - n)
      BY <1>3, <2>2
    <3>1. PICK j \in 1 .. l : i = n + j
      BY <3>0
    <3> QED
      BY <1>2, <1>3, <3>1 DEF ToSet
  <2> QED
    BY <1>3, <2>1, <2>2
<1>6. ASSUME NEW i \in 1 .. n PROVE a[i] \in ToSet(c)
  <2>1. i \in 1 .. n + l
    BY <1>3
  <2> QED
    BY <1>3, <1>4, <2>1 DEF ToSet
<1>7. ASSUME NEW i \in 1 .. l PROVE b[i] \in ToSet(c)
  <2>1. n + i \in 1 .. n + l
    BY <1>3
  <2>2. c[n + i] \in ToSet(c)
    BY <1>4, <2>1 DEF ToSet
  <2> QED
    BY <1>3, <2>2
<1>8. /\ \A f \in ToSet(c) : f \in ToSet(a) \cup ToSet(b)
      /\ \A f \in ToSet(a) \cup ToSet(b) : f \in ToSet(c)
  BY <1>2, <1>4, <1>5, <1>6, <1>7 DEF ToSet
<1>9. ToSet(c) = ToSet(a) \cup ToSet(b)
  BY <1>8
<1> QED
  BY <1>9 DEF c

\* c has the options of a and b.
Adds(c, a, b, n, m, codes) == Part(c, n + m, codes) /\ ToSet(c) = ToSet(a) \cup ToSet(b)

LEMMA PartConcat ==
  ASSUME NEW codes, NEW a, NEW b, NEW n, NEW m, Part(a, n, codes), Part(b, m, codes),
         NEW c, c = a \o b
  PROVE  Adds(c, a, b, n, m, codes)
<1>1. /\ a \in Seq(Seq(Byte)) /\ b \in Seq(Seq(Byte)) /\ n \in Nat /\ m \in Nat
      /\ Len(FlattenSeq(a)) \in Nat /\ Len(FlattenSeq(b)) \in Nat
      /\ Len(FlattenSeq(a)) <= n /\ Len(FlattenSeq(b)) <= m
  BY DEF Part
<1>2. a \o b \in Seq(Seq(Byte))
  BY <1>1, ConcatProperties
<1>3. ToSet(a \o b) = ToSet(a) \cup ToSet(b)
  BY <1>1, ToSetConcat
<1>4. Joined(Byte, FlattenSeq(a), FlattenSeq(b), FlattenSeq(a \o b))
  <2>1. FlattenSeq(a) \in Seq(Byte) /\ FlattenSeq(b) \in Seq(Byte)
    BY <1>1, FlattenIs
  <2> QED
    BY <1>1, <2>1, FlattenConcat, Joins
<1>5. Len(FlattenSeq(a \o b)) = Len(FlattenSeq(a)) + Len(FlattenSeq(b))
  BY <1>4 DEF Joined
<1>6. /\ n + m \in Nat /\ Len(FlattenSeq(a \o b)) \in Nat
      /\ Len(FlattenSeq(a \o b)) <= n + m
  BY <1>1, <1>5
<1>7. \A f \in ToSet(a \o b) : IsOption(f) /\ f[1] \in codes
  BY <1>3 DEF Part
<1> QED
  BY <1>2, <1>3, <1>6, <1>7 DEF Part, Adds

\* Nothing, and one option.
LEMMA PartNone == ASSUME NEW codes PROVE Part(<<>>, 0, codes) /\ ToSet(<<>>) = {}
<1>1. <<>> \in Seq(Seq(Byte)) /\ <<>> \in Seq(Byte) /\ Len(<<>>) = 0
  BY EmptySeq
<1>2. FlattenSeq(<<>>) = <<>>
  BY <1>1, FlattenFew
<1>3. ToSet(<<>>) = {}
  BY DEF ToSet
<1> QED
  BY <1>1, <1>2, <1>3 DEF Part

LEMMA PartOne ==
  ASSUME NEW codes, NEW f, IsOption(f), f[1] \in codes
  PROVE  Part(<<f>>, Len(f), codes) /\ ToSet(<<f>>) = {f}
<1>1. f \in Seq(Byte) /\ Len(f) \in Nat
  BY LenProperties DEF IsOption
<1>2. <<f>> \in Seq(Seq(Byte)) /\ FlattenSeq(<<f>>) = f
  BY <1>1, FlattenFew
<1>3. ToSet(<<f>>) = {f}
  BY DEF ToSet
<1> QED
  BY <1>1, <1>2, <1>3 DEF Part

\* What Option makes.
LEMMA OptionIs ==
  ASSUME NEW code \in Byte, code \notin {PAD, END},
         NEW content \in Seq(Byte), Len(content) <= 255
  PROVE  /\ IsOption(Option(code, content)) /\ Option(code, content)[1] = code
         /\ Len(Option(code, content)) = 2 + Len(content)
         /\ \A i \in 1 .. Len(content) : Option(code, content)[2 + i] = content[i]
<1> DEFINE h == <<code, Len(content) % 256>>
           l == Len(content)
           f == h \o content
<1>1. l \in Nat /\ l <= 255 /\ l % 256 = l
  <2>1. l \in Nat /\ l <= 255
    BY LenProperties
  <2> HIDE DEF l
  <2> QED
    BY <2>1
<1>2. l \in Byte
  <2> HIDE DEF l
  <2>1. l \in Nat /\ l <= 255
    BY <1>1
  <2> QED
    BY ONLY <2>1 DEF Byte
<1>3. h \in Seq(Byte) /\ Len(h) = 2 /\ h[1] = code /\ h[2] = l
  BY <1>1, <1>2
<1> HIDE DEF h
<1>4. Joined(Byte, h, content, f)
  BY <1>3, Joins
<1>5. f = Option(code, content)
  BY DEF f, h, Option
<1> HIDE DEF f
<1>6. /\ f \in Seq(Byte) /\ Len(f) = 2 + l /\ f[1] = code /\ f[2] = l
      /\ \A i \in 1 .. l : f[2 + i] = content[i]
  BY <1>3, <1>4 DEF Joined
<1> HIDE DEF l
<1>7. Len(f) >= 2 /\ Len(f) - 2 = l
  BY <1>1, <1>6
<1>8. IsOption(f)
  BY <1>6, <1>7 DEF IsOption
<1> QED
  BY <1>5, <1>6, <1>8 DEF l

LEMMA TextIs ==
  ASSUME NEW n \in Nat
  PROVE  Text(n) \in Seq(Byte) /\ Len(Text(n)) = n
<1>1. Text(n) \in [1 .. n -> Byte]
  BY Parameters DEF Text
<1> QED
  BY <1>1, AsSequence

\* Options that hold 50 and 54 are not the command line's.
Own == Nat \ {50, 54}

LEMMA WhenPart ==
  ASSUME NEW flag, NEW code \in Byte, code \notin {PAD, END, 50, 54},
         NEW content \in Seq(Byte), Len(content) <= 255
  PROVE  Part(When(flag, code, content), IF Given(flag) THEN 2 + Len(content) ELSE 0, Own)
<1>1. code \in Own
  BY ByteNumber DEF Own
<1>2. CASE Given(flag)
  <2> DEFINE f == Option(code, content)
  <2>1. IsOption(f) /\ f[1] \in Own /\ Len(f) = 2 + Len(content)
    BY <1>1, OptionIs
  <2> HIDE DEF f
  <2>2. Part(<<f>>, Len(f), Own)
    BY <2>1, PartOne
  <2> QED
    BY <1>2, <2>1, <2>2 DEF When, f
<1>3. CASE ~Given(flag)
  BY <1>3, PartNone DEF When
<1> QED
  BY <1>2, <1>3

\* The bytes each option of the command line takes.
Size(flag, n) == IF Given(flag) THEN n ELSE 0
HSize == Size("h", 2 + cmd.strlen["h"])
DSize == Size("d", 5 + cmd.strlen["d"])
OSize == Size("o", 2 + cmd.strlen["o"])
LSize == Size("L", 6)
CSize == Len(FlattenSeq(CustomOptions(cmd.custom)))

LEMMA PartWider ==
  ASSUME NEW s, NEW n, NEW codes, NEW more, Part(s, n, codes), codes \subseteq more
  PROVE  Part(s, n, more)
  BY DEF Part

LEMMA ParamsPart ==
  /\ Part(Params, 7, Own) /\ ToSet(Params) = {Option(55, <<1, 28, 3, 15, 6>>)}
<1> DEFINE t == <<1, 28, 3, 15, 6>>
<1>1. 1 \in Byte /\ 28 \in Byte /\ 3 \in Byte /\ 15 \in Byte /\ 6 \in Byte /\ 55 \in Byte
  BY DEF Byte
<1>2. t \in Seq(Byte) /\ Len(t) = 5
  BY <1>1
<1> HIDE DEF t
<1>3. 55 \notin {PAD, END} /\ 55 \in Own /\ 5 <= 255
  BY DEF PAD, END, Own
<1> DEFINE f == Option(55, t)
<1>4. IsOption(f) /\ f[1] \in Own /\ Len(f) = 7
  <2>1. Len(t) <= 255 /\ 2 + Len(t) = 7
    BY <1>2
  <2>2. IsOption(f) /\ f[1] = 55 /\ Len(f) = 2 + Len(t)
    BY <1>1, <1>2, <1>3, <2>1, OptionIs
  <2> QED
    BY <1>3, <2>1, <2>2
<1> HIDE DEF f
<1>5. Part(<<f>>, 7, Own) /\ ToSet(<<f>>) = {f}
  BY <1>4, PartOne
<1> QED
  BY <1>5 DEF Params, f, t

LEMMA OwnParts ==
  ASSUME cmd \in Commands, Fits(cmd)
  PROVE  /\ Part(Hostname, HSize, Own) /\ Part(Fqdn, DSize, Own)
         /\ Part(Vci, OSize, Own) /\ Part(Lease, LSize, Own)
<1>1. cmd.strlen \in [Strings -> Byte] /\ cmd.strlen["d"] <= 252
  BY Parameters DEF Fits
<1>2. \A f \in Strings : cmd.strlen[f] \in Nat /\ cmd.strlen[f] <= 255
  <2>1. \A f \in Strings : cmd.strlen[f] \in Byte
    BY <1>1
  <2>2. \A x \in Byte : x <= 255
    BY DEF Byte
  <2> QED
    BY <2>1, <2>2, ByteNumber
<1>3. "h" \in Strings /\ "d" \in Strings /\ "o" \in Strings
  BY DEF Strings
<1>4. /\ 12 \in Byte /\ 81 \in Byte /\ 60 \in Byte /\ 51 \in Byte
      /\ {12, 81, 60, 51} \cap {PAD, END, 50, 54} = {}
  BY DEF Byte, PAD, END
<1>5. Part(Hostname, HSize, Own)
  <2> DEFINE n == cmd.strlen["h"]
  <2>1. n \in Nat /\ n <= 255
    BY <1>2, <1>3
  <2> HIDE DEF n
  <2>2. Text(n) \in Seq(Byte) /\ Len(Text(n)) = n
    BY <2>1, TextIs
  <2>3. Part(When("h", 12, Text(n)), IF Given("h") THEN 2 + n ELSE 0, Own)
    BY <1>4, <2>1, <2>2, WhenPart
  <2> QED
    BY <2>3 DEF Hostname, HSize, Size, n
<1>6. Part(Vci, OSize, Own)
  <2> DEFINE n == cmd.strlen["o"]
  <2>1. n \in Nat /\ n <= 255
    BY <1>2, <1>3
  <2> HIDE DEF n
  <2>2. Text(n) \in Seq(Byte) /\ Len(Text(n)) = n
    BY <2>1, TextIs
  <2>3. Part(When("o", 60, Text(n)), IF Given("o") THEN 2 + n ELSE 0, Own)
    BY <1>4, <2>1, <2>2, WhenPart
  <2> QED
    BY <2>3 DEF Vci, OSize, Size, n
<1>7. Part(Lease, LSize, Own)
  <2>1. LeaseTime \in Seq(Byte) /\ Len(LeaseTime) = 4
    BY TextIs DEF LeaseTime
  <2>2. Len(LeaseTime) <= 255 /\ 2 + Len(LeaseTime) = 6
    BY <2>1
  <2>3. Part(When("L", 51, LeaseTime), IF Given("L") THEN 2 + Len(LeaseTime) ELSE 0, Own)
    BY <1>4, <2>1, <2>2, WhenPart
  <2> QED
    BY <2>2, <2>3 DEF Lease, LSize, Size
<1>8. Part(Fqdn, DSize, Own)
  <2> DEFINE n == cmd.strlen["d"]
             h == <<FqdnFlags, 0, 0>>
             t == h \o Text(n)
  <2>1. n \in Nat /\ n <= 252
    BY <1>1, <1>2, <1>3
  <2>2. h \in Seq(Byte) /\ Len(h) = 3
    <3>1. FqdnFlags \in Byte /\ 0 \in Byte
      BY DEF FqdnFlags, Byte
    <3> QED
      BY <3>1
  <2> HIDE DEF n, h
  <2>3. Text(n) \in Seq(Byte) /\ Len(Text(n)) = n
    BY <2>1, TextIs
  <2>4. Joined(Byte, h, Text(n), t)
    BY <2>2, <2>3, Joins
  <2> HIDE DEF t
  <2>5. t \in Seq(Byte) /\ Len(t) = 3 + n
    BY <2>2, <2>3, <2>4 DEF Joined
  <2>6. Len(t) <= 255 /\ 2 + Len(t) = 5 + n
    BY <2>1, <2>5
  <2>7. Part(When("d", 81, t), IF Given("d") THEN 5 + n ELSE 0, Own)
    BY <1>4, <2>5, <2>6, WhenPart
  <2> QED
    BY <2>7 DEF Fqdn, DSize, Size, t, n, h
<1> QED
  BY <1>5, <1>6, <1>7, <1>8

LEMMA CustomIs ==
  ASSUME NEW a \in [code : Byte, kind : Kinds, len : Byte]
  PROVE  /\ Text(CustomLen(a)) \in Seq(Byte) /\ Len(Text(CustomLen(a))) <= 255
         /\ Option(a.code, Text(CustomLen(a))) \in Seq(Byte)
<1>1. a.len \in Nat /\ a.len <= 255
  <2>1. a.len \in Byte
    OBVIOUS
  <2>2. \A x \in Byte : x <= 255
    BY DEF Byte
  <2> QED
    BY <2>1, <2>2, ByteNumber
<1>2. CustomLen(a) \in Nat /\ CustomLen(a) <= 255
  <2>1. a.len \div 2 \in Nat /\ a.len \div 2 <= 255
    <3> DEFINE l == a.len
    <3>1. l \in Nat /\ l <= 255
      BY <1>1
    <3> HIDE DEF l
    <3>2. l \div 2 \in Nat /\ l \div 2 <= 255
      BY <3>1
    <3> QED
      BY <3>2 DEF l
  <2>2. CASE a.kind = "str"
    BY <1>1, <2>2 DEF CustomLen
  <2>3. CASE a.kind = "hex"
    BY <2>1, <2>3 DEF CustomLen
  <2>4. CASE a.kind # "str" /\ a.kind # "hex"
    BY <2>4 DEF CustomLen
  <2> QED
    BY <2>2, <2>3, <2>4
<1> DEFINE t == Text(CustomLen(a))
<1>3. t \in Seq(Byte) /\ Len(t) <= 255
  BY <1>2, TextIs
<1> HIDE DEF t
<1>4. Option(a.code, t) \in Seq(Byte)
  <2> DEFINE h == <<a.code, Len(t) % 256>>
  <2>1. Len(t) % 256 \in Byte /\ a.code \in Byte
    <3>1. Len(t) \in Nat
      BY <1>3, LenProperties
    <3> DEFINE l == Len(t)
    <3> HIDE DEF l
    <3>2. l \in Nat => l % 256 \in 0 .. 255
      OBVIOUS
    <3> QED
      BY <3>1, <3>2 DEF l, Byte
  <2>2. h \in Seq(Byte)
    BY <2>1
  <2> HIDE DEF h
  <2>3. h \o t \in Seq(Byte)
    BY <1>3, <2>2, ConcatProperties
  <2> QED
    BY <2>3 DEF Option, h
<1> QED
  BY <1>3, <1>4 DEF t

LEMMA CustomPart ==
  ASSUME cmd \in Commands, Fits(cmd)
  PROVE  Part(CustomOptions(cmd.custom), CSize, Own) /\ ToSet(CustomOptions(cmd.custom)) = Custom
<1> DEFINE u == cmd.custom
           s == CustomOptions(u)
           n == Len(u)
<1>1. /\ u \in Seq([code : Byte, kind : Kinds, len : Byte]) /\ n \in Nat
      /\ DOMAIN u = 1 .. n
      /\ \A i \in 1 .. n : u[i] \in [code : Byte, kind : Kinds, len : Byte]
  <2>1. u \in Seq([code : Byte, kind : Kinds, len : Byte])
    BY Parameters
  <2> HIDE DEF u
  <2> QED
    BY <2>1, LenProperties, ElementOfSeq
<1>2. \A i \in 1 .. n : u[i].code \notin {PAD, END, 50, 54} /\ u[i].code \in Byte
  BY <1>1 DEF Fits
<1>3. s = [i \in 1 .. n |-> Option(u[i].code, Text(CustomLen(u[i])))]
  BY <1>1 DEF CustomOptions
<1> HIDE DEF u, s, n
<1>4. \A i \in 1 .. n : s[i] \in Seq(Byte) /\ IsOption(s[i]) /\ s[i][1] \in Own
  <2> SUFFICES ASSUME NEW i \in 1 .. n
               PROVE  s[i] \in Seq(Byte) /\ IsOption(s[i]) /\ s[i][1] \in Own
    OBVIOUS
  <2> DEFINE a == u[i]
             t == Text(CustomLen(a))
  <2>1. a \in [code : Byte, kind : Kinds, len : Byte]
    BY <1>1
  <2>2. a.code \notin {PAD, END, 50, 54} /\ a.code \in Byte
    BY <1>2
  <2>3. s[i] = Option(a.code, t)
    BY <1>3
  <2> HIDE DEF a, t
  <2>4. t \in Seq(Byte) /\ Len(t) <= 255 /\ Option(a.code, t) \in Seq(Byte)
    BY <2>1, CustomIs DEF t
  <2>5. IsOption(Option(a.code, t)) /\ Option(a.code, t)[1] = a.code
    BY <2>2, <2>4, OptionIs
  <2>6. a.code \in Own
    BY <2>2, ByteNumber DEF Own
  <2> QED
    BY <2>3, <2>4, <2>5, <2>6
<1>5. s \in Seq(Seq(Byte)) /\ Len(s) = n
  <2>1. s \in [1 .. n -> Seq(Byte)]
    BY <1>3, <1>4
  <2>2. s \in Seq(Seq(Byte))
    BY <1>1, <2>1
  <2>3. DOMAIN s = 1 .. n /\ DOMAIN s = 1 .. Len(s) /\ Len(s) \in Nat
    BY <2>1, <2>2, LenProperties
  <2> QED
    BY <1>1, <2>2, <2>3
<1>6. ToSet(s) = {s[i] : i \in 1 .. n}
  BY <1>3 DEF ToSet
<1>7. FlattenSeq(s) \in Seq(Byte) /\ Len(FlattenSeq(s)) \in Nat /\ CSize = Len(FlattenSeq(s))
  BY <1>5, FlattenIs, LenProperties DEF CSize, s, u
<1>8. Part(s, CSize, Own)
  BY <1>4, <1>5, <1>6, <1>7 DEF Part
<1>9. ToSet(s) = Custom
  <2>1. ToSet(u) = {u[i] : i \in 1 .. n}
    BY <1>1 DEF ToSet
  <2>2. \A x : x \in ToSet(s) <=> x \in Custom
    BY <1>3, <1>6, <2>1 DEF Custom, u
  <2> QED
    BY <2>2
<1> QED
  BY <1>8, <1>9 DEF s, u

LEMMA OptionList ==
  ASSUME NEW code \in {50, 54}, NEW id \in Seq(Byte), Len(id) = 4
  PROVE  /\ Part(<<Option(code, id)>>, 6, {code}) /\ ToSet(<<Option(code, id)>>) = {Option(code, id)}
         /\ SubSeq(Option(code, id), 3, 6) = id
<1> DEFINE f == Option(code, id)
<1>1. code \in Byte /\ code \notin {PAD, END} /\ Len(id) <= 255 /\ 2 + Len(id) = 6
  <2>1. code \in Byte
    BY DEF Byte
  <2> QED
    BY <2>1 DEF PAD, END
<1>2. IsOption(f) /\ f[1] = code /\ Len(f) = 6 /\ \A i \in 1 .. Len(id) : f[2 + i] = id[i]
  <2>1. IsOption(f) /\ f[1] = code /\ Len(f) = 2 + Len(id)
    BY <1>1, OptionIs
  <2>2. \A i \in 1 .. Len(id) : f[2 + i] = id[i]
    BY <1>1, OptionIs
  <2> QED
    BY <1>1, <2>1, <2>2
<1> HIDE DEF f
<1>3. Part(<<f>>, 6, {code}) /\ ToSet(<<f>>) = {f}
  BY <1>2, PartOne
<1>4. SubSeq(f, 3, 6) = id
  <2> DEFINE t == SubSeq(f, 3, 6)
  <2>1. f \in Seq(Byte)
    BY <1>2 DEF IsOption
  <2>2. 3 \in Nat \ {0} /\ 6 \in Nat /\ 3 <= 6 + 1 /\ 6 <= Len(f)
    BY <1>2
  <2>3. Cut(Byte, f, 3, 6, t)
    BY <2>1, <2>2, Cuts
  <2> HIDE DEF t
  <2>4. t \in Seq(Byte) /\ Len(t) = Len(id)
    BY <2>3 DEF Cut
  <2>5. ASSUME NEW i \in 1 .. Len(id) PROVE t[i] = id[i]
    <3>1. i \in 1 .. 6 - 3 + 1 /\ 3 + i - 1 = 2 + i
      OBVIOUS
    <3> QED
      BY <1>2, <2>3, <3>1 DEF Cut
  <2>6. t = id
    BY <2>4, <2>5, SeqEqual
  <2> QED
    BY <2>6 DEF t
<1> QED
  BY <1>3, <1>4 DEF f

\* The DISCOVER asks for the address of -I.
Discovered ==
  Hostname \o Fqdn \o When("I", 50, Requested) \o Params \o Lease \o Vci \o custom_dhcp_options

\* The options that main builds from the command line: Asked, with the flags of
\* option 81 that are sent.
Composed(type) ==
  {<<53, 1, type>>}
    \cup ToSet(Hostname \o Fqdn)
    \cup (IF type = 7 THEN {} ELSE ToSet(Vci \o Lease \o Params) \cup Custom)
    \cup (IF type = 1 THEN ToSet(When("I", 50, Requested)) ELSE {})

\* All arguments are parsed.
Complete == cmd \in Commands /\ Fits(cmd) /\ custom_dhcp_options = CustomOptions(cmd.custom)

LEMMA WhenCode ==
  ASSUME NEW flag, NEW code \in Byte, code \notin {PAD, END}, NEW c \in Seq(Byte), Len(c) <= 255
  PROVE  \A f \in ToSet(When(flag, code, c)) : f[1] = code
<1> DEFINE x == Option(code, c)
<1>1. x[1] = code
  BY OptionIs
<1> HIDE DEF x
<1>2. ToSet(<<x>>) = {x} /\ ToSet(<<>>) = {}
  BY DEF ToSet
<1> QED
  BY <1>1, <1>2 DEF When, x

LEMMA FqdnCodes ==
  ASSUME cmd \in Commands, Fits(cmd)
  PROVE  \A f \in ToSet(Fqdn) \cup ToSet(AskedFqdn) : f[1] = 81
<1> DEFINE n == cmd.strlen["d"]
<1>1. n \in Nat /\ n <= 252
  <2>1. cmd.strlen \in [Strings -> Byte] /\ n <= 252
    BY Parameters DEF Fits
  <2>2. n \in Byte
    BY <2>1 DEF Strings
  <2> QED
    BY <2>1, <2>2, ByteNumber
<1>2. ASSUME NEW flags \in Byte
      PROVE  \A f \in ToSet(When("d", 81, <<flags, 0, 0>> \o Text(n))) : f[1] = 81
  <2> DEFINE h == <<flags, 0, 0>>
             t == h \o Text(n)
  <2>1. h \in Seq(Byte) /\ Len(h) = 3
    <3>1. 0 \in Byte
      BY DEF Byte
    <3> QED
      BY <3>1
  <2> HIDE DEF n, h
  <2>2. Text(n) \in Seq(Byte) /\ Len(Text(n)) = n
    BY <1>1, TextIs
  <2>3. Joined(Byte, h, Text(n), t)
    BY <2>1, <2>2, Joins
  <2> HIDE DEF t
  <2>4. t \in Seq(Byte) /\ Len(t) <= 255
    BY <1>1, <2>1, <2>2, <2>3 DEF Joined
  <2>5. 81 \in Byte /\ 81 \notin {PAD, END}
    BY DEF Byte, PAD, END
  <2>6. \A f \in ToSet(When("d", 81, t)) : f[1] = 81
    BY <2>4, <2>5, WhenCode
  <2> QED
    BY <2>6 DEF t, h
<1>3. FqdnFlags \in Byte /\ AskedFlags \in Byte
  BY DEF FqdnFlags, AskedFlags, Byte
<1>4. \A f \in ToSet(Fqdn) : f[1] = 81
  BY <1>2, <1>3 DEF Fqdn
<1>5. \A f \in ToSet(AskedFqdn) : f[1] = 81
  BY <1>2, <1>3 DEF AskedFqdn
<1> QED
  BY <1>4, <1>5

LEMMA OwnSets ==
  ASSUME cmd \in Commands, Fits(cmd)
  PROVE  /\ ToSet(Hostname \o Fqdn) = ToSet(Hostname) \cup ToSet(Fqdn)
         /\ ToSet(Vci \o Lease \o Params) = ToSet(Vci) \cup ToSet(Lease) \cup ToSet(Params)
<1>1. /\ Part(Hostname, HSize, Own) /\ Part(Fqdn, DSize, Own)
      /\ Part(Vci, OSize, Own) /\ Part(Lease, LSize, Own)
  BY OwnParts
<1>2. Adds(Hostname \o Fqdn, Hostname, Fqdn, HSize, DSize, Own)
  BY <1>1, PartConcat
<1>3. Adds(Vci \o Lease, Vci, Lease, OSize, LSize, Own)
  BY <1>1, PartConcat
<1>4. Part(Vci \o Lease, OSize + LSize, Own)
  BY <1>3 DEF Adds
<1>5. Adds((Vci \o Lease) \o Params, Vci \o Lease, Params, OSize + LSize, 7, Own)
  BY <1>4, ParamsPart, PartConcat
<1> QED
  BY <1>2, <1>3, <1>5 DEF Adds

LEMMA RoomIs ==
  ASSUME cmd \in Commands, Fits(cmd)
  PROVE  /\ HSize \in Nat /\ DSize \in Nat /\ OSize \in Nat /\ LSize \in Nat /\ CSize \in Nat
         /\ 23 + HSize + DSize + OSize + LSize + CSize <= BuffSize
         /\ 60 <= BuffSize
<1>1. HSize \in Nat /\ DSize \in Nat /\ OSize \in Nat /\ LSize \in Nat /\ CSize \in Nat
  BY OwnParts, CustomPart DEF Part
<1>2. Room(cmd) = 23 + HSize + DSize + OSize + LSize + CSize
  BY DEF Room, HSize, DSize, OSize, LSize, CSize, Size, Given
<1> QED
  BY <1>1, <1>2 DEF Fits

LEMMA AnyParts ==
  ASSUME cmd \in Commands, Fits(cmd)
  PROVE  /\ Part(Hostname, HSize, Nat) /\ Part(Fqdn, DSize, Nat)
         /\ Part(Vci, OSize, Nat) /\ Part(Lease, LSize, Nat)
         /\ Part(Params, 7, Nat) /\ Part(CustomOptions(cmd.custom), CSize, Nat)
<1>1. Own \subseteq Nat
  BY DEF Own
<1>2. /\ Part(Hostname, HSize, Own) /\ Part(Fqdn, DSize, Own)
      /\ Part(Vci, OSize, Own) /\ Part(Lease, LSize, Own)
      /\ Part(Params, 7, Own) /\ Part(CustomOptions(cmd.custom), CSize, Own)
  BY OwnParts, ParamsPart, CustomPart
<1> QED
  BY <1>1, <1>2, PartWider

\* What main puts into a message is what the command line asks for, and it fits.
LEMMA DiscoverList ==
  ASSUME Complete
  PROVE  /\ \E n \in Nat : n + 4 <= BuffSize /\ Part(Discovered, n, Nat)
         /\ {<<53, 1, 1>>} \cup ToSet(Discovered) = Composed(1)
<1>1. /\ Part(Hostname, HSize, Nat) /\ Part(Fqdn, DSize, Nat)
      /\ Part(Vci, OSize, Nat) /\ Part(Lease, LSize, Nat)
      /\ Part(Params, 7, Nat) /\ Part(custom_dhcp_options, CSize, Nat)
  BY AnyParts DEF Complete
<1> DEFINE i == When("I", 50, Requested)
<1>2. Part(i, 6, Nat)
  <2>1. CASE Given("I")
    <3>1. Requested \in Seq(Byte) /\ Len(Requested) = 4
      BY TextIs DEF Requested
    <3>2. Part(<<Option(50, Requested)>>, 6, {50})
      BY <3>1, OptionList
    <3>3. Part(<<Option(50, Requested)>>, 6, Nat)
      <4>1. {50} \subseteq Nat
        OBVIOUS
      <4> QED
        BY <3>2, <4>1, PartWider
    <3> QED
      BY <2>1, <3>3 DEF When
  <2>2. CASE ~Given("I")
    <3>1. Part(<<>>, 0, Nat)
      BY PartNone
    <3>2. Part(<<>>, 6, Nat)
      BY <3>1 DEF Part
    <3> QED
      BY <2>2, <3>2 DEF When
  <2> QED
    BY <2>1, <2>2
<1> HIDE DEF i
<1> DEFINE a == Hostname \o Fqdn
           b == a \o i
           c == b \o Params
           d == c \o Lease
           e == d \o Vci
           f == e \o custom_dhcp_options
<1>3. Adds(a, Hostname, Fqdn, HSize, DSize, Nat)
  BY <1>1, PartConcat
<1>4. Part(a, HSize + DSize, Nat)
  BY <1>3 DEF Adds
<1>5. Adds(b, a, i, HSize + DSize, 6, Nat)
  BY <1>2, <1>4, PartConcat
<1>6. Part(b, HSize + DSize + 6, Nat)
  BY <1>5 DEF Adds
<1>7. Adds(c, b, Params, HSize + DSize + 6, 7, Nat)
  BY <1>1, <1>6, PartConcat
<1>8. Part(c, HSize + DSize + 6 + 7, Nat)
  BY <1>7 DEF Adds
<1>9. Adds(d, c, Lease, HSize + DSize + 6 + 7, LSize, Nat)
  BY <1>1, <1>8, PartConcat
<1>10. Part(d, HSize + DSize + 6 + 7 + LSize, Nat)
  BY <1>9 DEF Adds
<1>11. Adds(e, d, Vci, HSize + DSize + 6 + 7 + LSize, OSize, Nat)
  BY <1>1, <1>10, PartConcat
<1>12. Part(e, HSize + DSize + 6 + 7 + LSize + OSize, Nat)
  BY <1>11 DEF Adds
<1>13. Adds(f, e, custom_dhcp_options, HSize + DSize + 6 + 7 + LSize + OSize, CSize, Nat)
  BY <1>1, <1>12, PartConcat
<1>14. f = Discovered
  BY DEF Discovered, a, b, c, d, e, f, i
<1>15. ASSUME NEW x, NEW y, NEW z, NEW n, NEW m, Adds(x, y, z, n, m, Nat)
       PROVE  Part(x, n + m, Nat) /\ ToSet(x) = ToSet(y) \cup ToSet(z)
  BY <1>15 DEF Adds
<1> HIDE DEF a, b, c, d, e, f
<1>16. \E n \in Nat : n + 4 <= BuffSize /\ Part(f, n, Nat)
  <2> DEFINE n == HSize + DSize + 6 + 7 + LSize + OSize + CSize
  <2>1. Part(f, n, Nat)
    BY <1>13, <1>15
  <2>2. n \in Nat /\ n + 4 <= BuffSize
    <3>1. /\ HSize \in Nat /\ DSize \in Nat /\ OSize \in Nat /\ LSize \in Nat /\ CSize \in Nat
          /\ 23 + HSize + DSize + OSize + LSize + CSize <= BuffSize /\ BuffSize \in Nat
      BY RoomIs, Parameters DEF Complete
    <3> QED
      BY <3>1
  <2> HIDE DEF n
  <2> QED
    BY <2>1, <2>2
<1>17. ToSet(f) = ToSet(Hostname) \cup ToSet(Fqdn) \cup ToSet(i) \cup ToSet(Params)
                    \cup ToSet(Lease) \cup ToSet(Vci) \cup ToSet(custom_dhcp_options)
  BY <1>3, <1>5, <1>7, <1>9, <1>11, <1>13, <1>15
<1>18. {<<53, 1, 1>>} \cup ToSet(f) = Composed(1)
  <2>1. ToSet(custom_dhcp_options) = Custom
    BY CustomPart DEF Complete
  <2>2. /\ ToSet(Hostname \o Fqdn) = ToSet(Hostname) \cup ToSet(Fqdn)
        /\ ToSet(Vci \o Lease \o Params) = ToSet(Vci) \cup ToSet(Lease) \cup ToSet(Params)
    BY OwnSets DEF Complete
  <2>3. Composed(1) = {<<53, 1, 1>>} \cup ToSet(Hostname \o Fqdn)
                     \cup (ToSet(Vci \o Lease \o Params) \cup Custom) \cup ToSet(i)
    BY DEF Composed, i
  <2> QED
    BY <1>17, <2>1, <2>2, <2>3
<1> QED
  BY <1>14, <1>16, <1>18

\* Options of the command line are not 50 or 54.
LEMMA OwnCodes ==
  ASSUME cmd \in Commands, Fits(cmd)
  PROVE  \A f \in ToSet(Hostname) \cup ToSet(Fqdn) \cup ToSet(Vci) \cup ToSet(Lease)
                    \cup ToSet(Params) \cup Custom : f[1] \notin {50, 54}
<1>1. /\ Part(Hostname, HSize, Own) /\ Part(Fqdn, DSize, Own)
      /\ Part(Vci, OSize, Own) /\ Part(Lease, LSize, Own) /\ Part(Params, 7, Own)
  BY OwnParts, ParamsPart
<1>2. Part(CustomOptions(cmd.custom), CSize, Own) /\ ToSet(CustomOptions(cmd.custom)) = Custom
  BY CustomPart
<1> QED
  BY <1>1, <1>2 DEF Part, Own

LEMMA RequestList ==
  ASSUME Complete, option50_ip \in Seq(Byte), Len(option50_ip) = 4,
         server_id \in Seq(Byte), Len(server_id) = 4
  PROVE  /\ \E n \in Nat : n + 4 <= BuffSize /\ Part(RequestOptions, n, Nat)
         /\ {<<53, 1, 3>>} \cup ToSet(RequestOptions)
              = Composed(3) \cup {Option(50, option50_ip), Option(54, server_id)}
<1>1. /\ Part(Hostname, HSize, Nat) /\ Part(Fqdn, DSize, Nat)
      /\ Part(Vci, OSize, Nat) /\ Part(Lease, LSize, Nat)
      /\ Part(Params, 7, Nat) /\ Part(custom_dhcp_options, CSize, Nat)
  BY AnyParts DEF Complete
<1> DEFINE x == <<Option(50, option50_ip)>>
           y == <<Option(54, server_id)>>
           z == <<Option(50, option50_ip), Option(54, server_id)>>
           a == z \o Hostname
           b == a \o Fqdn
           c == b \o Vci
           d == c \o Lease
           e == d \o Params
           f == e \o custom_dhcp_options
<1>2. /\ Part(x, 6, Nat) /\ ToSet(x) = {Option(50, option50_ip)}
      /\ Part(y, 6, Nat) /\ ToSet(y) = {Option(54, server_id)}
  <2>1. {50} \subseteq Nat /\ {54} \subseteq Nat
    OBVIOUS
  <2>2. Part(x, 6, {50}) /\ ToSet(x) = {Option(50, option50_ip)}
    BY OptionList
  <2>3. Part(y, 6, {54}) /\ ToSet(y) = {Option(54, server_id)}
    BY OptionList
  <2> HIDE DEF x, y
  <2> QED
    BY <2>1, <2>2, <2>3, PartWider
<1>3. z = x \o y
  OBVIOUS
<1> HIDE DEF x, y, z
<1>4. Adds(z, x, y, 6, 6, Nat)
  BY <1>2, <1>3, PartConcat
<1>5. ASSUME NEW p, NEW q, NEW r, NEW n, NEW m, Adds(p, q, r, n, m, Nat)
      PROVE  Part(p, n + m, Nat) /\ ToSet(p) = ToSet(q) \cup ToSet(r)
  BY <1>5 DEF Adds
<1>6. Part(z, 12, Nat)
  <2>1. Part(z, 6 + 6, Nat) /\ 6 + 6 = 12
    BY <1>4, <1>5
  <2> QED
    BY <2>1
<1>7. Adds(a, z, Hostname, 12, HSize, Nat)
  BY <1>1, <1>6, PartConcat
<1>8. Part(a, 12 + HSize, Nat)
  BY <1>7 DEF Adds
<1>9. Adds(b, a, Fqdn, 12 + HSize, DSize, Nat)
  BY <1>1, <1>8, PartConcat
<1>10. Part(b, 12 + HSize + DSize, Nat)
  BY <1>9 DEF Adds
<1>11. Adds(c, b, Vci, 12 + HSize + DSize, OSize, Nat)
  BY <1>1, <1>10, PartConcat
<1>12. Part(c, 12 + HSize + DSize + OSize, Nat)
  BY <1>11 DEF Adds
<1>13. Adds(d, c, Lease, 12 + HSize + DSize + OSize, LSize, Nat)
  BY <1>1, <1>12, PartConcat
<1>14. Part(d, 12 + HSize + DSize + OSize + LSize, Nat)
  BY <1>13 DEF Adds
<1>15. Adds(e, d, Params, 12 + HSize + DSize + OSize + LSize, 7, Nat)
  BY <1>1, <1>14, PartConcat
<1>16. Part(e, 12 + HSize + DSize + OSize + LSize + 7, Nat)
  BY <1>15 DEF Adds
<1>17. Adds(f, e, custom_dhcp_options, 12 + HSize + DSize + OSize + LSize + 7, CSize, Nat)
  BY <1>1, <1>16, PartConcat
<1>18. f = RequestOptions
  BY DEF RequestOptions, z
<1> HIDE DEF a, b, c, d, e, f
<1>19. \E n \in Nat : n + 4 <= BuffSize /\ Part(f, n, Nat)
  <2> DEFINE n == 12 + HSize + DSize + OSize + LSize + 7 + CSize
  <2>1. Part(f, n, Nat)
    BY <1>5, <1>17
  <2>2. n \in Nat /\ n + 4 <= BuffSize
    <3>1. /\ HSize \in Nat /\ DSize \in Nat /\ OSize \in Nat /\ LSize \in Nat /\ CSize \in Nat
          /\ 23 + HSize + DSize + OSize + LSize + CSize <= BuffSize /\ BuffSize \in Nat
      BY RoomIs, Parameters DEF Complete
    <3> QED
      BY <3>1
  <2> HIDE DEF n
  <2> QED
    BY <2>1, <2>2
<1>20. ToSet(f) = {Option(50, option50_ip), Option(54, server_id)} \cup ToSet(Hostname)
                    \cup ToSet(Fqdn) \cup ToSet(Vci) \cup ToSet(Lease) \cup ToSet(Params)
                    \cup ToSet(custom_dhcp_options)
  <2>1. ToSet(z) = {Option(50, option50_ip), Option(54, server_id)}
    BY <1>2, <1>4, <1>5
  <2> QED
    BY <1>5, <1>7, <1>9, <1>11, <1>13, <1>15, <1>17, <2>1
<1>21. {<<53, 1, 3>>} \cup ToSet(f)
         = Composed(3) \cup {Option(50, option50_ip), Option(54, server_id)}
  <2>1. ToSet(custom_dhcp_options) = Custom
    BY CustomPart DEF Complete
  <2>2. /\ ToSet(Hostname \o Fqdn) = ToSet(Hostname) \cup ToSet(Fqdn)
        /\ ToSet(Vci \o Lease \o Params) = ToSet(Vci) \cup ToSet(Lease) \cup ToSet(Params)
    BY OwnSets DEF Complete
  <2>3. Composed(3) = {<<53, 1, 3>>} \cup ToSet(Hostname \o Fqdn)
                     \cup (ToSet(Vci \o Lease \o Params) \cup Custom)
    BY DEF Composed
  <2> QED
    BY <1>20, <2>1, <2>2, <2>3
<1> QED
  BY <1>18, <1>19, <1>21

LEMMA ReleaseList ==
  ASSUME Complete, NEW id \in Seq(Byte), Len(id) = 4
  PROVE  /\ \E n \in Nat : n + 4 <= BuffSize /\ Part(ReleaseOptions(id), n, Nat)
         /\ {<<53, 1, 7>>} \cup ToSet(ReleaseOptions(id)) = Composed(7) \cup {Option(54, id)}
<1>1. Part(Hostname, HSize, Nat) /\ Part(Fqdn, DSize, Nat)
  BY AnyParts DEF Complete
<1> DEFINE y == <<Option(54, id)>>
           a == Hostname \o Fqdn
           b == a \o y
<1>2. Part(y, 6, Nat) /\ ToSet(y) = {Option(54, id)}
  <2>1. {54} \subseteq Nat
    OBVIOUS
  <2>2. Part(y, 6, {54}) /\ ToSet(y) = {Option(54, id)}
    BY OptionList
  <2> HIDE DEF y
  <2> QED
    BY <2>1, <2>2, PartWider
<1> HIDE DEF y
<1>3. Adds(a, Hostname, Fqdn, HSize, DSize, Nat)
  BY <1>1, PartConcat
<1>4. Part(a, HSize + DSize, Nat)
  BY <1>3 DEF Adds
<1>5. Adds(b, a, y, HSize + DSize, 6, Nat)
  BY <1>2, <1>4, PartConcat
<1>6. b = ReleaseOptions(id) /\ a = Hostname \o Fqdn
  BY DEF ReleaseOptions, y
<1> HIDE DEF a, b
<1>7. \E n \in Nat : n + 4 <= BuffSize /\ Part(b, n, Nat)
  <2> DEFINE n == HSize + DSize + 6
  <2>1. Part(b, n, Nat)
    BY <1>5 DEF Adds
  <2>2. n \in Nat /\ n + 4 <= BuffSize
    <3>1. /\ HSize \in Nat /\ DSize \in Nat /\ OSize \in Nat /\ LSize \in Nat /\ CSize \in Nat
          /\ 23 + HSize + DSize + OSize + LSize + CSize <= BuffSize /\ BuffSize \in Nat
      BY RoomIs, Parameters DEF Complete
    <3> QED
      BY <3>1
  <2> HIDE DEF n
  <2> QED
    BY <2>1, <2>2
<1>8. ToSet(b) = ToSet(a) \cup {Option(54, id)}
  BY <1>2, <1>5 DEF Adds
<1>9. Composed(7) = {<<53, 1, 7>>} \cup ToSet(a)
  BY <1>6 DEF Composed
<1> QED
  BY <1>6, <1>7, <1>8, <1>9

\* Built: bytes in the buffer and in the packet of the type.
Built(x, type, options) ==
  /\ x \in Seq(Byte) /\ Len(x) \in Nat /\ Len(x) <= BuffSize
  /\ Carries(x, type, options, Given("p"))
  /\ dhopt_buff' = x /\ dhopt_size' = Len(x)
  /\ packet' = [packet EXCEPT ![type] = x]

LEMMA Builds ==
  ASSUME NEW type \in {1, 3, 7}, NEW options, NEW n \in Nat,
         n + 4 <= BuffSize, 60 <= BuffSize, Part(options, n, Nat), Build(Reset, type, options)
  PROVE  \E x : Built(x, type, options)
<1>1. options \in Seq(Seq(Byte)) /\ \A k \in 1 .. Len(options) : IsOption(options[k])
  <2>1. options \in Seq(Seq(Byte)) /\ \A f \in ToSet(options) : IsOption(f)
    BY DEF Part
  <2>2. DOMAIN options = 1 .. Len(options)
    BY <2>1, LenProperties
  <2> QED
    BY <2>1, <2>2 DEF ToSet
<1>2. PICK x \in Seq(Byte) :
        Message(type, options) = Holding(x) /\ Carries(x, type, options, Given("p"))
  BY <1>1, MessageCarries
<1>3. Len(x) \in Nat /\ SubSeq(x, 1, Len(x)) = x
  BY LenProperties, SubSeqFull
<1>4. Len(x) <= BuffSize
  <2> DEFINE flat == FlattenSeq(options)
             whole == FlattenSeq(Whole(type, options))
             h == <<53, 1, type>>
             e == <<END>>
             c == whole \o e
  <2>1. flat \in Seq(Byte) /\ Len(flat) \in Nat /\ Len(flat) <= n
    BY <1>1, FlattenIs DEF Part
  <2>2. whole = h \o flat /\ whole \in Seq(Byte)
    BY <1>1, WholeIs
  <2>3. h \in Seq(Byte) /\ Len(h) = 3
    BY Type53
  <2>4. e \in Seq(Byte) /\ Len(e) = 1
    BY DEF END, Byte
  <2>5. c = Closed(type, options)
    BY DEF Closed
  <2> HIDE DEF flat, h, e
  <2>6. Joined(Byte, h, flat, h \o flat)
    BY <2>1, <2>3, Joins
  <2>7. Len(whole) = 3 + Len(flat)
    BY <2>2, <2>3, <2>6 DEF Joined
  <2> HIDE DEF whole
  <2>8. Joined(Byte, whole, e, c)
    BY <2>2, <2>4, Joins
  <2>9. Len(c) = 3 + Len(flat) + 1
    BY <2>4, <2>7, <2>8 DEF Joined
  <2> HIDE DEF c
  <2>10. Len(x) = 60 \/ Len(x) = Len(c)
    BY <1>2, <2>5 DEF Carries
  <2>11. BuffSize \in Nat
    BY Parameters
  <2>12. Len(c) \in Nat /\ Len(c) <= n + 4
    BY <2>1, <2>9
  <2>13. Len(c) <= BuffSize
    BY <2>11, <2>12
  <2>14. CASE Len(x) = 60
    BY <2>14
  <2>15. CASE Len(x) = Len(c)
    BY <2>13, <2>15
  <2> QED
    BY <2>10, <2>14, <2>15
<1>5. /\ dhopt_buff' = Holding(x).buff /\ dhopt_size' = Holding(x).size
      /\ packet' = [packet EXCEPT ![type] = SubSeq(Holding(x).buff, 1, Holding(x).size)]
  <2>1. /\ dhopt_buff' = Message(type, options).buff
        /\ dhopt_size' = Message(type, options).size
        /\ packet' = [packet EXCEPT ![type] = SubSeq(Message(type, options).buff, 1,
                                                     Message(type, options).size)]
    BY DEF Build, Message
  <2> QED
    BY <1>2, <2>1
<1>6. Holding(x).buff = x /\ Holding(x).size = Len(x)
  BY DEF Holding
<1> QED
  BY <1>2, <1>3, <1>4, <1>5, <1>6 DEF Built

\* The walk through an offer: what the first k options name.
Named(read, k) ==
  LET at == {i \in 1 .. k : read[i][1] = 54}
  IN  IF at = {} THEN NoServer ELSE SubSeq(read[Max(at)], 3, 6)

\* The pointer is behind the first k options.
Behind(k, read) ==
  dhopt_pointer_g = Len(Upto(read)[k]) + 1 /\ server_id = Named(read, k)
-----------------------------------------------------------------------------
(* The inductive invariant *)

\* Packets and addresses have their lengths.
Contents ==
  /\ packet \in [{1, 3, 7} -> Seq(Byte)]
  /\ server_id \in Seq(Byte) /\ Len(server_id) = 4
  /\ option50_ip \in Seq(Byte) /\ Len(option50_ip) = 4

\* Custom options are those of the arguments read so far.
Arguments ==
  /\ Parsed <= Len(cmd.custom)
  /\ custom_dhcp_options \in Seq(Seq(Byte))
  /\ \A i \in 1 .. Parsed :
       custom_dhcp_options[i] = Option(cmd.custom[i].code, Text(CustomLen(cmd.custom[i])))
  /\ pc \notin {"args", "exit"} => custom_dhcp_options = CustomOptions(cmd.custom)
  /\ wire # {} => custom_dhcp_options = CustomOptions(cmd.custom)

\* Before an offer nothing is read, built or chosen but what -I says.
Fresh ==
  /\ pc = "args" => dhopt_buff = <<>> /\ dhopt_size = 0 /\ wire = {}
  /\ pc \in {"args", "discover", "offer"} =>
       server_id = NoServer /\ (Given("I") => option50_ip = Requested)

\* The address and the server of the offer.
Chosen ==
  offer \in Offers /\ option50_ip = offer.yip /\ server_id = ServerOf(offer.options)

Walking ==
  pc = "walk" =>
    /\ offer \in Offers /\ option50_ip = offer.yip
    /\ \E k \in 0 .. Len(Fields(offer.options)) : Behind(k, Fields(offer.options))

\* A packet is as long as dhopt_size and carries its options.
Ready(type, options) ==
  dhopt_size = Len(packet[type]) /\ Carries(packet[type], type, options, Given("p"))

Released == ReleaseOptions(server_id)

Packets ==
  /\ pc \in {"discover", "offer"} => Ready(1, Discovered)
  /\ pc \in {"request", "ack"} => Ready(3, RequestOptions) /\ Chosen
  /\ pc = "release" => Ready(7, Released)

\* So does what was sent, and the choice has not changed since.
SentOf(m) ==
  \/ m.type = 1 /\ Carries(m.options, 1, Discovered, Given("p"))
  \/ /\ m.type = 3 /\ Carries(m.options, 3, RequestOptions, Given("p"))
     /\ pc \in {"request", "ack", "exit"} /\ Chosen
  \/ /\ m.type = 7 /\ Carries(m.options, 7, Released, Given("p"))
     /\ pc = "exit"

Sendings == \A m \in wire : SentOf(m) /\ Len(m.options) <= BuffSize

IInv == TypeOK /\ Contents /\ Arguments /\ Fresh /\ Walking /\ Packets /\ Sendings
-----------------------------------------------------------------------------
(* The walk *)

LEMMA SplitAt ==
  ASSUME NEW S, NEW b \in Seq(S), NEW n \in 0 .. Len(b)
  PROVE  \E z \in Seq(S) : b = SubSeq(b, 1, n) \o z
<1> DEFINE x == SubSeq(b, 1, n)
           z == SubSeq(b, n + 1, Len(b))
           y == x \o z
           l == Len(b)
<1>1. l \in Nat /\ n \in Nat /\ n <= l
  BY LenProperties
<1>2. Cut(S, b, 1, n, x)
  <2>1. 1 \in Nat \ {0} /\ n \in Nat /\ 1 <= n + 1 /\ n <= Len(b)
    BY <1>1
  <2> QED
    BY <2>1, Cuts
<1>3. Cut(S, b, n + 1, l, z)
  <2>1. n + 1 \in Nat \ {0} /\ l \in Nat /\ n + 1 <= l + 1 /\ l <= Len(b)
    BY <1>1
  <2> QED
    BY <2>1, Cuts
<1> HIDE DEF x, z, l
<1>4. x \in Seq(S) /\ Len(x) = n /\ \A i \in 1 .. n : x[i] = b[i]
  <2>1. x \in Seq(S) /\ Len(x) = n
    BY <1>1, <1>2 DEF Cut
  <2>2. ASSUME NEW i \in 1 .. n PROVE x[i] = b[i]
    <3>1. i \in 1 .. n - 1 + 1 /\ 1 + i - 1 = i
      BY <1>1
    <3> QED
      BY <1>2, <3>1 DEF Cut
  <2> QED
    BY <2>1, <2>2
<1>5. z \in Seq(S) /\ Len(z) = l - n /\ \A i \in 1 .. l - n : z[i] = b[n + i]
  <2>1. z \in Seq(S) /\ Len(z) = l - n
    BY <1>1, <1>3 DEF Cut
  <2>2. ASSUME NEW i \in 1 .. l - n PROVE z[i] = b[n + i]
    <3>1. i \in 1 .. l - (n + 1) + 1 /\ (n + 1) + i - 1 = n + i
      BY <1>1
    <3> QED
      BY <1>3, <3>1 DEF Cut
  <2> QED
    BY <2>1, <2>2
<1>6. Joined(S, x, z, y)
  BY <1>4, <1>5, Joins
<1> HIDE DEF y
<1>7. y \in Seq(S) /\ Len(y) = l
  BY <1>1, <1>4, <1>5, <1>6 DEF Joined
<1>8. ASSUME NEW i \in 1 .. l PROVE y[i] = b[i]
  <2>1. CASE i <= n
    <3>1. i \in 1 .. n
      BY <1>1, <2>1
    <3> QED
      BY <1>4, <1>6, <3>1 DEF Joined
  <2>2. CASE i > n
    <3>1. i - n \in 1 .. l - n /\ n + (i - n) = i
      BY <1>1, <2>2
    <3> QED
      BY <1>4, <1>5, <1>6, <3>1 DEF Joined
  <2> QED
    BY <1>1, <2>1, <2>2
<1>9. y = b
  BY <1>7, <1>8, SeqEqual DEF l
<1> QED
  BY <1>5, <1>9 DEF y, x

\* Where the options of a plain offer are, and its END.
Lies(b, read, m) ==
  /\ read \in Seq(Seq(Byte)) /\ m \in Nat /\ m + 1 <= Len(b) /\ b[m + 1] = END
  /\ Len(Upto(read)[Len(read)]) = m
  /\ \A k \in 1 .. Len(read) :
       /\ Placed(b, read[k], Len(Upto(read)[k - 1]), Len(Upto(read)[k]))
       /\ IsOption(read[k])
       /\ read[k][1] = 54 => Len(read[k]) = 6 /\ SubSeq(read[k], 3, 6) \in ServerIds
       /\ Len(Upto(read)[k]) <= m

LEMMA OfferLies ==
  ASSUME NEW o \in Offers, PlainOffer(o)
  PROVE  \E m : Lies(o.options, Fields(o.options), m)
<1> DEFINE b == o.options
           read == Fields(o.options)
           flat == FlattenSeq(read)
           m == Len(flat)
           e == <<END>>
           field == flat \o e
<1>1. b \in Seq(Byte) /\ Len(b) \in Nat
  BY Parameters, LenProperties
<1>2. /\ \A i \in DOMAIN read :
           /\ IsOption(read[i])
           /\ read[i][1] = 54 => Len(read[i]) = 6 /\ SubSeq(read[i], 3, 6) \in ServerIds
      /\ Len(field) <= Len(b) /\ SubSeq(b, 1, Len(field)) = field
  BY DEF PlainOffer
<1>3. read \in Seq(Seq(Byte)) /\ DOMAIN read = 1 .. Len(read) /\ Len(read) \in Nat
  <2>1. read = Reader(b)[1]
    BY FieldsIs
  <2>2. 1 \in 1 .. Len(b) + 1
    BY <1>1
  <2>3. read \in Seq(Seq(Nat))
    BY <1>1, <2>1, <2>2, ReaderDef
  <2> HIDE DEF read
  <2>4. Len(read) \in Nat /\ DOMAIN read = 1 .. Len(read)
    BY <2>3, LenProperties
  <2>5. \A i \in 1 .. Len(read) : read[i] \in Seq(Byte)
    BY <1>2, <2>4 DEF IsOption
  <2>6. read \in [1 .. Len(read) -> Seq(Byte)]
    <3>1. read = [i \in 1 .. Len(read) |-> read[i]]
      BY <2>3
    <3> QED
      BY <2>5, <3>1
  <2>7. read \in Seq(Seq(Byte))
    BY <2>4, <2>6
  <2> QED
    BY <2>4, <2>7
<1> HIDE DEF read, b
<1>4. flat \in Seq(Byte) /\ m \in Nat /\ flat = Upto(read)[Len(read)]
  BY <1>3, FlattenIs, LenProperties
<1>5. e \in Seq(Byte) /\ Len(e) = 1 /\ e[1] = END
  BY DEF END, Byte
<1> HIDE DEF flat, e
<1>6. Joined(Byte, flat, e, field)
  BY <1>4, <1>5, Joins
<1> HIDE DEF field
<1>7. /\ field \in Seq(Byte) /\ Len(field) = m + 1 /\ field[m + 1] = END
  <2>1. 1 \in 1 .. Len(e)
    BY <1>5
  <2> QED
    BY <1>5, <1>6, <2>1 DEF Joined
<1>8. Len(field) \in 0 .. Len(b)
  BY <1>1, <1>2, <1>4, <1>7
<1>9. PICK z \in Seq(Byte) : b = field \o z
  <2>1. \E z \in Seq(Byte) : b = SubSeq(b, 1, Len(field)) \o z
    BY <1>1, <1>8, SplitAt
  <2> QED
    BY <1>2, <2>1
<1>10. b[m + 1] = END
  <2>1. Joined(Byte, field, z, b)
    BY <1>7, <1>9, Joins
  <2>2. m + 1 \in 1 .. Len(field)
    BY <1>4, <1>7
  <2> QED
    BY <1>7, <2>1, <2>2 DEF Joined
<1>11. b = FlattenSeq(read) \o (e \o z) /\ e \o z \in Seq(Byte)
  <2>1. Associative(flat, e, z)
    BY <1>4, <1>5, Associates
  <2>2. Joined(Byte, e, z, e \o z)
    BY <1>5, Joins
  <2> QED
    BY <1>9, <2>1, <2>2 DEF Associative, Joined, field, flat
<1>12. ASSUME NEW k \in 1 .. Len(read)
       PROVE  /\ Placed(b, read[k], Len(Upto(read)[k - 1]), Len(Upto(read)[k]))
              /\ Len(Upto(read)[k]) <= m
  BY <1>3, <1>11, Piece DEF flat
<1>13. m + 1 <= Len(b)
  BY <1>2, <1>7
<1>14. Lies(b, read, m)
  BY <1>2, <1>3, <1>4, <1>10, <1>12, <1>13 DEF Lies
<1> QED
  BY <1>14 DEF b, read

LEMMA NamedNext ==
  ASSUME NEW read, NEW k \in Nat
  PROVE  Named(read, k + 1) = IF read[k + 1][1] = 54 THEN SubSeq(read[k + 1], 3, 6)
                              ELSE Named(read, k)
<1> DEFINE at(j) == {i \in 1 .. j : read[i][1] = 54}
<1>1. CASE read[k + 1][1] = 54
  <2>1. k + 1 \in Nat /\ k + 1 \in at(k + 1) /\ at(k + 1) \in SUBSET (1 .. k + 1)
    BY <1>1
  <2>2. \A i \in at(k + 1) : i \in Nat /\ i <= k + 1
    OBVIOUS
  <2> DEFINE T == at(k + 1)
  <2>3. T # {} /\ T \in SUBSET (1 .. k + 1)
    BY <2>1
  <2> HIDE DEF T
  <2>4. Max(T) \in T /\ \A j \in T : j <= Max(T)
    BY <2>1, <2>3, MaxIs
  <2>5. Max(T) = k + 1
    BY <2>1, <2>2, <2>4 DEF T
  <2> QED
    BY <1>1, <2>3, <2>5 DEF Named, T
<1>2. CASE read[k + 1][1] # 54
  <2>1. at(k + 1) = at(k)
    <3>1. \A i : i \in 1 .. k + 1 <=> i \in 1 .. k \/ i = k + 1
      OBVIOUS
    <3> QED
      BY <1>2, <3>1
  <2> QED
    BY <1>2, <2>1 DEF Named
<1> QED
  BY <1>1, <1>2

\* One turn of the loop: from behind k options to behind k + 1.
Turned(b, read, k, p) ==
  /\ p \in Nat \ {0} /\ p <= Len(b)
  /\ b[p] = END <=> k = Len(read)
  /\ k # Len(read) =>
       /\ k + 1 \in 1 .. Len(read)
       /\ p + b[p + 1] + 2 = Len(Upto(read)[k + 1]) + 1
       /\ b[p] = read[k + 1][1]
       /\ b[p] = 54 => SubSeq(b, p + 2, p + 5) = SubSeq(read[k + 1], 3, 6)

LEMMA Turn ==
  ASSUME NEW b, NEW read, NEW m, Lies(b, read, m), b \in Seq(Byte),
         NEW k \in 0 .. Len(read), NEW p, p = Len(Upto(read)[k]) + 1
  PROVE  Turned(b, read, k, p)
<1> DEFINE n == Len(read)
           u == Upto(read)
<1>1. /\ read \in Seq(Seq(Byte)) /\ n \in Nat /\ m \in Nat /\ m + 1 <= Len(b) /\ b[m + 1] = END
      /\ Len(u[n]) = m /\ Len(b) \in Nat
  BY LenProperties DEF Lies
<1>2. CASE k = n
  BY <1>1, <1>2 DEF Turned
<1>3. CASE k # n
  <2>1. PICK i \in 1 .. n : i = k + 1 /\ i - 1 = k
    BY <1>1, <1>3
  <2> DEFINE f == read[i]
             q == Len(u[i - 1])
             r == Len(u[i])
             w == Len(f)
  <2>2. Placed(b, f, q, r) /\ IsOption(f) /\ (f[1] = 54 => w = 6) /\ r <= m
    BY DEF Lies
  <2>3. f \in Seq(Byte)
    BY <2>2 DEF IsOption
  <2>4. p = q + 1
    BY <2>1
  <2> HIDE DEF f, q, r
  <2>5. q \in Nat /\ r \in Nat /\ r = q + w
    BY <2>2 DEF Placed
  <2>6. w \in Nat /\ w >= 2 /\ f[1] # END /\ f[2] = w - 2
    BY <2>2, <2>3, LenProperties DEF IsOption
  <2> HIDE DEF w
  <2>7. b[q + 1] = f[1] /\ b[q + 2] = f[2]
    <3>1. 1 \in 1 .. w /\ 2 \in 1 .. w
      BY <2>6
    <3> QED
      BY <2>2, <3>1 DEF Placed, w
  <2>8. p + 1 = q + 2 /\ b[p] = f[1] /\ b[p + 1] = w - 2
    BY <2>4, <2>5, <2>6, <2>7
  <2>9. p \in Nat \ {0} /\ p <= Len(b) /\ p + b[p + 1] + 2 = r + 1
    <3>1. p \in Nat \ {0} /\ p + (w - 2) + 2 = r + 1
      BY <2>4, <2>5, <2>6
    <3>2. p <= Len(b)
      BY <1>1, <2>2, <2>4, <2>5, <2>6
    <3> QED
      BY <2>8, <3>1, <3>2
  <2>10. ASSUME f[1] = 54 PROVE SubSeq(b, p + 2, p + 5) = SubSeq(f, 3, 6)
    <3> DEFINE s == SubSeq(b, p + 2, p + 5)
               t == SubSeq(f, 3, 6)
    <3>1. w = 6
      BY <2>2, <2>10
    <3>2. Cut(Byte, f, 3, 6, t)
      <4>1. 3 \in Nat \ {0} /\ 6 \in Nat /\ 3 <= 6 + 1 /\ 6 <= Len(f)
        BY <3>1 DEF w
      <4> QED
        BY <2>3, <4>1, Cuts
    <3>3. Cut(Byte, b, p + 2, p + 5, s)
      <4>1. /\ p + 2 \in Nat \ {0} /\ p + 5 \in Nat /\ p + 2 <= (p + 5) + 1
            /\ p + 5 <= Len(b)
        BY <1>1, <2>2, <2>4, <2>5, <3>1
      <4> QED
        BY <4>1, Cuts
    <3> HIDE DEF s, t
    <3>4. s \in Seq(Byte) /\ t \in Seq(Byte) /\ Len(s) = 4 /\ Len(t) = 4
      <4>1. (p + 5) - (p + 2) + 1 = 4 /\ 6 - 3 + 1 = 4
        BY <2>9
      <4> QED
        BY <3>2, <3>3, <4>1 DEF Cut
    <3>5. ASSUME NEW j \in 1 .. 4 PROVE s[j] = t[j]
      <4>1. /\ j \in 1 .. 6 - 3 + 1 /\ j \in 1 .. (p + 5) - (p + 2) + 1
            /\ 3 + j - 1 = 2 + j /\ (p + 2) + j - 1 = q + (2 + j) /\ 2 + j \in 1 .. w
        BY <2>4, <2>5, <3>1
      <4>2. t[j] = f[2 + j] /\ s[j] = b[q + (2 + j)]
        BY <3>2, <3>3, <4>1 DEF Cut
      <4>3. b[q + (2 + j)] = f[2 + j]
        BY <2>2, <4>1 DEF Placed, w
      <4> QED
        BY <4>2, <4>3
    <3>6. s = t
      BY <3>4, <3>5, SeqEqual
    <3> QED
      BY <3>6 DEF s, t
  <2> QED
    BY <1>3, <2>1, <2>6, <2>8, <2>9, <2>10 DEF f, r, Turned
<1> QED
  BY <1>2, <1>3
-----------------------------------------------------------------------------
(* Every step keeps the invariant *)

\* The command lines fit and the offers are plain.
Ordinary == (\A c \in Commands : Fits(c)) /\ (\A o \in Offers : PlainOffer(o))

LEMMA Same ==
  ASSUME cmd' = cmd, custom_dhcp_options' = custom_dhcp_options
  PROVE  Discovered' = Discovered
  BY DEF Discovered, Hostname, Fqdn, FqdnFlags, When, Given, Params, Lease, Vci, Option, Text,
         Requested, LeaseTime

LEMMA SameReleased ==
  ASSUME cmd' = cmd, server_id' = server_id
  PROVE  Released' = Released
  BY DEF Released, ReleaseOptions, Hostname, Fqdn, FqdnFlags, When, Given, Option, Text

LEMMA SameRequest ==
  ASSUME cmd' = cmd, custom_dhcp_options' = custom_dhcp_options,
         option50_ip' = option50_ip, server_id' = server_id
  PROVE  RequestOptions' = RequestOptions
  BY DEF RequestOptions, Hostname, Fqdn, FqdnFlags, When, Given, Params, Lease, Vci, Option,
         Text, LeaseTime

LEMMA SameChoice ==
  ASSUME offer' = offer, option50_ip' = option50_ip, server_id' = server_id, Chosen
  PROVE  Chosen'
  BY DEF Chosen

LEMMA Addresses ==
  /\ NoServer \in Seq(Byte) /\ Len(NoServer) = 4
  /\ Requested \in Seq(Byte) /\ Len(Requested) = 4
<1>1. 0 \in Byte
  BY DEF Byte
<1>2. NoServer \in Seq(Byte) /\ Len(NoServer) = 4
  BY <1>1 DEF NoServer
<1> QED
  BY <1>2, TextIs DEF Requested

LEMMA AllParsed ==
  ASSUME cmd \in Commands, Arguments, Parsed = Len(cmd.custom)
  PROVE  custom_dhcp_options = CustomOptions(cmd.custom)
<1> DEFINE u == cmd.custom
           n == Len(u)
           s == custom_dhcp_options
           t == CustomOptions(u)
<1>1. u \in Seq([code : Byte, kind : Kinds, len : Byte])
  BY Parameters
<1> HIDE DEF u
<1>2. DOMAIN u = 1 .. n
  BY <1>1, LenProperties
<1>3. t = [i \in 1 .. n |-> Option(u[i].code, Text(CustomLen(u[i])))]
  BY <1>2 DEF CustomOptions
<1>4. /\ s \in Seq(Seq(Byte)) /\ Len(s) = n
      /\ \A i \in 1 .. n : s[i] = Option(u[i].code, Text(CustomLen(u[i])))
  BY DEF Arguments, Parsed, u
<1> HIDE DEF s, t
<1>5. DOMAIN s = 1 .. n /\ s = [i \in DOMAIN s |-> s[i]]
  BY <1>4, LenProperties
<1>6. s = t
  BY <1>3, <1>4, <1>5
<1> QED
  BY <1>6 DEF s, t, u

LEMMA InitInv == Init => IInv
<1> SUFFICES ASSUME Init PROVE IInv
  OBVIOUS
<1> USE DEF Init
<1>1. TypeOK
  <2>1. <<>> \in Seq(Byte) /\ Len(<<>>) = 0 /\ 1 \in Nat \ {0}
    BY EmptySeq
  <2>2. Parsed = 0 /\ 0 <= MaxCustom /\ 0 <= BuffSize
    BY Parameters DEF Parsed
  <2> QED
    BY <2>1, <2>2 DEF TypeOK
<1>2. Contents
  <2>1. <<>> \in Seq(Byte)
    BY EmptySeq
  <2>2. packet \in [{1, 3, 7} -> Seq(Byte)]
    BY <2>1
  <2>3. option50_ip = Requested \/ option50_ip = NoServer
    OBVIOUS
  <2> QED
    BY <2>2, <2>3, Addresses DEF Contents
<1>3. Arguments
  <2>1. Len(cmd.custom) \in Nat
    BY Parameters, LenProperties
  <2>2. <<>> \in Seq(Seq(Byte)) /\ Parsed = 0 /\ 1 .. 0 = {}
    BY EmptySeq DEF Parsed
  <2> QED
    BY <2>1, <2>2 DEF Arguments
<1>4. Fresh
  BY DEF Fresh, Given
<1>5. Walking /\ Packets /\ Sendings
  BY DEF Walking, Packets, Sendings
<1> QED
  BY <1>1, <1>2, <1>3, <1>4, <1>5 DEF IInv

LEMMA CustomOptionStep == IInv /\ CustomOption => IInv'
<1> SUFFICES ASSUME IInv, CustomOption PROVE IInv'
  OBVIOUS
<1> USE DEF CustomOption
<1> DEFINE a == NextArg
           x == Option(a.code, Text(CustomLen(a)))
           n == Parsed
<1>1. /\ cmd \in Commands /\ n \in Nat /\ n < Len(cmd.custom) /\ Len(cmd.custom) \in Nat
      /\ cmd.custom \in Seq([code : Byte, kind : Kinds, len : Byte])
      /\ custom_dhcp_options \in Seq(Seq(Byte)) /\ n = Len(custom_dhcp_options)
  <2>1. cmd \in Commands /\ custom_dhcp_options \in Seq(Seq(Byte))
    BY DEF IInv, TypeOK, Arguments
  <2>2. cmd.custom \in Seq([code : Byte, kind : Kinds, len : Byte])
    BY <2>1, Parameters
  <2> QED
    BY <2>1, <2>2, LenProperties DEF Parsed
<1>2. x \in Seq(Byte)
  <2>1. n + 1 \in 1 .. Len(cmd.custom)
    BY <1>1
  <2>2. a \in [code : Byte, kind : Kinds, len : Byte]
    BY <1>1, <2>1, ElementOfSeq DEF NextArg
  <2> HIDE DEF a
  <2> QED
    BY <2>2, CustomIs
<1>3. /\ custom_dhcp_options' = Append(custom_dhcp_options, x)
      /\ custom_dhcp_options' \in Seq(Seq(Byte)) /\ Len(custom_dhcp_options') = n + 1
      /\ \A i \in 1 .. n : custom_dhcp_options'[i] = custom_dhcp_options[i]
      /\ custom_dhcp_options'[n + 1] = x
  <2>1. custom_dhcp_options' = Append(custom_dhcp_options, x)
    OBVIOUS
  <2> HIDE DEF x
  <2> QED
    BY <1>1, <1>2, <2>1, AppendProperties
<1>4. TypeOK'
  <2>1. Len(custom_dhcp_options') <= MaxCustom
    <3>1. MaxCustom \in Nat /\ n <= MaxCustom /\ n # MaxCustom
      BY Parameters DEF IInv, TypeOK
    <3> QED
      BY <1>1, <1>3, <3>1
  <2> QED
    BY <2>1 DEF IInv, TypeOK, Parsed
<1>5. Arguments'
  <2>1. Len(custom_dhcp_options') <= Len(cmd'.custom)
    BY <1>1, <1>3
  <2>2. ASSUME NEW i \in 1 .. n + 1
        PROVE  custom_dhcp_options'[i] = Option(cmd.custom[i].code, Text(CustomLen(cmd.custom[i])))
    <3>1. CASE i = n + 1
      BY <1>3, <3>1 DEF NextArg
    <3>2. CASE i # n + 1
      <4>1. i \in 1 .. n
        BY <1>1, <3>2
      <4> QED
        BY <1>3, <4>1 DEF IInv, Arguments
    <3> QED
      BY <3>1, <3>2
  <2>3. pc' = "args" /\ wire' = {}
    BY DEF IInv, Fresh
  <2>4. cmd' = cmd /\ Len(custom_dhcp_options') = n + 1
    BY <1>3
  <2>5. \A i \in 1 .. Len(custom_dhcp_options') :
          custom_dhcp_options'[i] = Option(cmd'.custom[i].code, Text(CustomLen(cmd'.custom[i])))
    BY <2>2, <2>4
  <2> QED
    BY <1>3, <2>1, <2>3, <2>5 DEF Arguments, Parsed
<1>6. Contents' /\ Fresh' /\ Walking' /\ Packets' /\ Sendings'
  BY DEF IInv, Contents, Fresh, Walking, Packets, Sendings, Given
<1> QED
  BY <1>4, <1>5, <1>6 DEF IInv

LEMMA CustomRejectedStep == IInv /\ CustomRejected => IInv'
<1> SUFFICES ASSUME IInv, CustomRejected PROVE IInv'
  OBVIOUS
<1> USE DEF CustomRejected
<1>1. wire' = {} /\ pc' = "exit"
  BY DEF IInv, Fresh
<1>2. TypeOK' /\ Contents'
  BY DEF IInv, TypeOK, Contents, Parsed
<1>3. Arguments'
  BY <1>1 DEF IInv, Arguments, Parsed
<1>4. Fresh' /\ Walking' /\ Packets' /\ Sendings'
  BY <1>1 DEF Fresh, Walking, Packets, Sendings
<1> QED
  BY <1>2, <1>3, <1>4 DEF IInv

LEMMA BuildDiscoverStep == Ordinary /\ IInv /\ BuildDiscover => IInv'
<1> SUFFICES ASSUME Ordinary, IInv, BuildDiscover PROVE IInv'
  OBVIOUS
<1>1. /\ pc = "args" /\ pc' = "discover" /\ wire = {} /\ wire' = {} /\ cmd' = cmd
      /\ custom_dhcp_options' = custom_dhcp_options /\ offer' = offer
      /\ dhopt_pointer_g' = dhopt_pointer_g /\ server_id' = server_id
      /\ option50_ip' = option50_ip
  BY DEF BuildDiscover, IInv, Fresh
<1>2. Complete
  BY AllParsed DEF BuildDiscover, IInv, TypeOK, Complete, Ordinary
<1>3. Build(Reset, 1, Discovered)
  <2>1. DiscoverOptions = Discovered
    BY <1>1 DEF IInv, Fresh, DiscoverOptions, Discovered, When
  <2>2. Current = Reset
    BY <1>1 DEF IInv, Fresh, Current, Reset
  <2> QED
    BY <2>1, <2>2 DEF BuildDiscover
<1>4. PICK x : Built(x, 1, Discovered)
  <2>1. PICK n \in Nat : n + 4 <= BuffSize /\ Part(Discovered, n, Nat)
    BY <1>2, DiscoverList
  <2>2. 60 <= BuffSize /\ 1 \in {1, 3, 7}
    BY <1>2 DEF Complete, Fits
  <2> QED
    BY <1>3, <2>1, <2>2, Builds
<1>5. /\ x \in Seq(Byte) /\ Len(x) \in Nat /\ Len(x) <= BuffSize
      /\ Carries(x, 1, Discovered, Given("p"))
      /\ dhopt_buff' = x /\ dhopt_size' = Len(x) /\ packet' = [packet EXCEPT ![1] = x]
  BY <1>4 DEF Built
<1>6. packet' \in [{1, 3, 7} -> Seq(Byte)] /\ packet'[1] = x
  BY <1>5 DEF IInv, Contents
<1>7. TypeOK'
  BY <1>1, <1>5 DEF IInv, TypeOK, Parsed
<1>8. Contents'
  BY <1>1, <1>6 DEF IInv, Contents
<1>9. Arguments'
  BY <1>1, <1>2 DEF IInv, Arguments, Parsed, Complete
<1>10. Fresh'
  BY <1>1 DEF IInv, Fresh, Given
<1>11. Discovered' = Discovered
  BY <1>1, Same
<1>12. Packets'
  BY <1>1, <1>5, <1>6, <1>11 DEF Packets, Ready, Given
<1>13. Walking' /\ Sendings'
  BY <1>1 DEF Walking, Sendings
<1> QED
  BY <1>7, <1>8, <1>9, <1>10, <1>12, <1>13 DEF IInv

LEMMA BuildReleaseStep == Ordinary /\ IInv /\ BuildRelease => IInv'
<1> SUFFICES ASSUME Ordinary, IInv, BuildRelease PROVE IInv'
  OBVIOUS
<1>1. /\ pc = "args" /\ pc' = "release" /\ wire = {} /\ wire' = {} /\ cmd' = cmd
      /\ custom_dhcp_options' = custom_dhcp_options /\ offer' = offer
      /\ dhopt_pointer_g' = dhopt_pointer_g /\ option50_ip' = option50_ip
  BY DEF BuildRelease, IInv, Fresh
<1>2. Complete
  BY AllParsed DEF BuildRelease, IInv, TypeOK, Complete, Ordinary
<1>3. PICK id \in ServerIds : server_id' = id /\ Build(Current, 7, ReleaseOptions(id))
  BY DEF BuildRelease
<1>4. Build(Reset, 7, ReleaseOptions(id)) /\ id \in Seq(Byte) /\ Len(id) = 4
  <2>1. Current = Reset
    BY <1>1 DEF IInv, Fresh, Current, Reset
  <2> QED
    BY <1>3, <2>1, Parameters
<1>5. PICK x : Built(x, 7, ReleaseOptions(id))
  <2>1. PICK n \in Nat : n + 4 <= BuffSize /\ Part(ReleaseOptions(id), n, Nat)
    BY <1>2, <1>4, ReleaseList
  <2>2. 60 <= BuffSize /\ 7 \in {1, 3, 7}
    BY <1>2 DEF Complete, Fits
  <2> QED
    BY <1>4, <2>1, <2>2, Builds
<1>6. /\ x \in Seq(Byte) /\ Len(x) \in Nat /\ Len(x) <= BuffSize
      /\ Carries(x, 7, ReleaseOptions(id), Given("p"))
      /\ dhopt_buff' = x /\ dhopt_size' = Len(x) /\ packet' = [packet EXCEPT ![7] = x]
  BY <1>5 DEF Built
<1>7. packet' \in [{1, 3, 7} -> Seq(Byte)] /\ packet'[7] = x
  BY <1>6 DEF IInv, Contents
<1>8. TypeOK'
  BY <1>1, <1>3, <1>6 DEF IInv, TypeOK, Parsed
<1>9. Contents'
  BY <1>1, <1>3, <1>4, <1>7 DEF IInv, Contents
<1>10. Arguments'
  BY <1>1, <1>2 DEF IInv, Arguments, Parsed, Complete
<1>11. Fresh' /\ Walking' /\ Sendings'
  BY <1>1 DEF Fresh, Walking, Sendings
<1>12. Released' = ReleaseOptions(id)
  BY <1>1, <1>3 DEF Released, ReleaseOptions, Hostname, Fqdn, FqdnFlags, When, Given, Option, Text
<1>13. Packets'
  BY <1>1, <1>6, <1>7, <1>12 DEF Packets, Ready, Given
<1> QED
  BY <1>8, <1>9, <1>10, <1>11, <1>13 DEF IInv

LEMMA BuildRequestStep == Ordinary /\ IInv /\ BuildRequest => IInv'
<1> SUFFICES ASSUME Ordinary, IInv, BuildRequest PROVE IInv'
  OBVIOUS
<1>1. /\ pc = "walk" /\ pc' = "request" /\ wire' = wire /\ cmd' = cmd
      /\ offer.options[dhopt_pointer_g] = END /\ Build(Reset, 3, RequestOptions)
      /\ custom_dhcp_options' = custom_dhcp_options /\ offer' = offer
      /\ dhopt_pointer_g' = dhopt_pointer_g /\ server_id' = server_id
      /\ option50_ip' = option50_ip
  BY DEF BuildRequest
<1>2. Complete
  BY <1>1 DEF IInv, TypeOK, Arguments, Complete, Ordinary
<1>3. Chosen
  <2> DEFINE b == offer.options
             read == Fields(b)
  <2>1. offer \in Offers /\ PlainOffer(offer) /\ option50_ip = offer.yip
    BY <1>1 DEF IInv, Walking, Ordinary
  <2>2. PICK k \in 0 .. Len(read) : Behind(k, read)
    BY <1>1 DEF IInv, Walking
  <2>3. PICK m : Lies(b, read, m)
    BY <2>1, OfferLies
  <2>4. b \in Seq(Byte) /\ dhopt_pointer_g = Len(Upto(read)[k]) + 1
    BY <2>1, <2>2, Parameters DEF Behind
  <2>5. k = Len(read)
    <3>1. Turned(b, read, k, dhopt_pointer_g)
      BY <2>3, <2>4, Turn
    <3> QED
      BY <1>1, <3>1 DEF Turned
  <2>6. DOMAIN read = 1 .. Len(read)
    BY <2>3, LenProperties DEF Lies
  <2>7. server_id = ServerOf(b)
    BY <2>2, <2>5, <2>6 DEF Behind, Named, ServerOf
  <2> QED
    BY <2>1, <2>7 DEF Chosen
<1>4. PICK x : Built(x, 3, RequestOptions)
  <2>1. /\ option50_ip \in Seq(Byte) /\ Len(option50_ip) = 4
        /\ server_id \in Seq(Byte) /\ Len(server_id) = 4
    BY DEF IInv, Contents
  <2>2. PICK n \in Nat : n + 4 <= BuffSize /\ Part(RequestOptions, n, Nat)
    BY <1>2, <2>1, RequestList
  <2>3. 60 <= BuffSize /\ 3 \in {1, 3, 7}
    BY <1>2 DEF Complete, Fits
  <2> QED
    BY <1>1, <2>2, <2>3, Builds
<1>5. /\ x \in Seq(Byte) /\ Len(x) \in Nat /\ Len(x) <= BuffSize
      /\ Carries(x, 3, RequestOptions, Given("p"))
      /\ dhopt_buff' = x /\ dhopt_size' = Len(x) /\ packet' = [packet EXCEPT ![3] = x]
  BY <1>4 DEF Built
<1>6. packet' \in [{1, 3, 7} -> Seq(Byte)] /\ packet'[3] = x
  BY <1>5 DEF IInv, Contents
<1>7. TypeOK'
  BY <1>1, <1>5 DEF IInv, TypeOK, Parsed
<1>8. Contents'
  BY <1>1, <1>6 DEF IInv, Contents
<1>9. Arguments'
  BY <1>1, <1>2 DEF IInv, Arguments, Parsed, Complete
<1>10. Fresh' /\ Walking'
  BY <1>1 DEF Fresh, Walking
<1>11. RequestOptions' = RequestOptions /\ Discovered' = Discovered
  BY <1>1, SameRequest, Same
<1>12. Chosen'
  BY <1>1, <1>3, SameChoice
<1>13. Packets'
  BY <1>1, <1>5, <1>6, <1>11, <1>12 DEF Packets, Ready, Given
<1>14. Sendings'
  <2>1. \A m \in wire : /\ m.type = 1 /\ Carries(m.options, 1, Discovered, Given("p"))
                       /\ Len(m.options) <= BuffSize
    BY <1>1 DEF IInv, Sendings, SentOf
  <2> QED
    BY <1>1, <1>11, <2>1 DEF Sendings, SentOf, Given
<1> QED
  BY <1>7, <1>8, <1>9, <1>10, <1>13, <1>14 DEF IInv

\* A packet as long as dhopt_size is sent as it is.
LEMMA SentIs ==
  ASSUME NEW type \in {1, 3, 7}, packet \in [{1, 3, 7} -> Seq(Byte)],
         dhopt_size = Len(packet[type])
  PROVE  Sent(type) = packet[type]
<1> DEFINE x == packet[type]
<1>1. x \in Seq(Byte) /\ <<>> \in Seq(Byte)
  BY EmptySeq
<1> HIDE DEF x
<1>2. Copy(x, Len(x), <<>>) = x \o <<>> /\ x \o <<>> = x
  BY <1>1, CopyEnd, ConcatEmptySeq
<1>3. SubSeq(x, 1, Len(x)) = x
  BY <1>1, SubSeqFull
<1> QED
  BY <1>2, <1>3 DEF Sent, x

LEMMA SendSteps == Ordinary /\ IInv /\ (SendDiscover \/ SendRequest \/ SendRelease) => IInv'
<1> SUFFICES ASSUME Ordinary, IInv, SendDiscover \/ SendRequest \/ SendRelease PROVE IInv'
  OBVIOUS
<1> DEFINE Step(at, type, to) ==
             /\ pc = at /\ pc' = to
             /\ wire' = wire \cup {[type |-> type, options |-> Sent(type)]}
<1>0. ASSUME NEW n \in Nat, dhopt_size = n PROVE n <= BuffSize
  <2>1. /\ dhopt_size <= Len(dhopt_buff) /\ Len(dhopt_buff) <= BuffSize /\ BuffSize \in Nat
        /\ dhopt_buff \in Seq(Byte)
    BY Parameters DEF IInv, TypeOK
  <2>2. Len(dhopt_buff) \in Nat
    BY <2>1, LenProperties
  <2> QED
    BY <1>0, <2>1, <2>2
<1>1. /\ UNCHANGED <<cmd, custom_dhcp_options, dhopt_buff, dhopt_size, packet, offer,
                     dhopt_pointer_g, server_id, option50_ip>>
      /\ Step("discover", 1, "offer") \/ Step("request", 3, "ack") \/ Step("release", 7, "exit")
  BY DEF SendDiscover, SendRequest, SendRelease, Send
<1>2. packet \in [{1, 3, 7} -> Seq(Byte)]
  BY DEF IInv, Contents
<1>3. TypeOK' /\ Contents'
  BY <1>1 DEF IInv, TypeOK, Contents, Parsed
<1>4. Arguments'
  BY <1>1 DEF IInv, Arguments, Parsed
<1>5. Fresh' /\ Walking'
  BY <1>1 DEF IInv, Fresh, Walking, Given
<1>6. Discovered' = Discovered /\ RequestOptions' = RequestOptions /\ Released' = Released
  BY <1>1, Same, SameRequest, SameReleased
<1>7. Chosen => Chosen'
  BY <1>1, SameChoice
<1>8. Packets'
  BY <1>1, <1>6, <1>7 DEF IInv, Packets, Ready, Given
<1>9. ASSUME NEW m \in wire PROVE SentOf(m)' /\ Len(m.options) <= BuffSize
  <2>1. SentOf(m) /\ Len(m.options) <= BuffSize
    BY DEF IInv, Sendings
  <2> QED
    BY <1>1, <1>6, <1>7, <2>1 DEF SentOf, Given
<1>10. CASE Step("discover", 1, "offer")
  <2> DEFINE m == [type |-> 1, options |-> Sent(1)]
  <2>1. Ready(1, Discovered) /\ 1 \in {1, 3, 7}
    BY <1>10 DEF IInv, Packets
  <2>2. Sent(1) = packet[1] /\ Len(packet[1]) <= BuffSize
    <3>1. dhopt_size = Len(packet[1])
      BY <2>1 DEF Ready
    <3>2. Len(packet[1]) \in Nat
      BY <1>2, LenProperties
    <3> QED
      BY <1>0, <1>2, <2>1, <3>1, <3>2, SentIs
  <2>3. /\ m.type = 1 /\ Carries(m.options, 1, Discovered, Given("p"))
        /\ Len(m.options) <= BuffSize
    BY <2>1, <2>2 DEF Ready
  <2> HIDE DEF m
  <2>4. wire' = wire \cup {m}
    BY <1>10 DEF m
  <2>5. ASSUME NEW w \in wire', w = m PROVE SentOf(w)' /\ Len(w.options) <= BuffSize
    BY <1>1, <1>6, <2>3, <2>5 DEF SentOf, Given
  <2> QED
    BY <1>3, <1>4, <1>5, <1>8, <1>9, <2>4, <2>5 DEF IInv, Sendings
<1>11. CASE Step("request", 3, "ack")
  <2> DEFINE m == [type |-> 3, options |-> Sent(3)]
  <2>1. Ready(3, RequestOptions) /\ Chosen /\ 3 \in {1, 3, 7}
    BY <1>11 DEF IInv, Packets
  <2>2. Sent(3) = packet[3] /\ Len(packet[3]) <= BuffSize
    <3>1. dhopt_size = Len(packet[3])
      BY <2>1 DEF Ready
    <3>2. Len(packet[3]) \in Nat
      BY <1>2, LenProperties
    <3> QED
      BY <1>0, <1>2, <2>1, <3>1, <3>2, SentIs
  <2>3. /\ m.type = 3 /\ Carries(m.options, 3, RequestOptions, Given("p"))
        /\ Len(m.options) <= BuffSize
    BY <2>1, <2>2 DEF Ready
  <2> HIDE DEF m
  <2>4. wire' = wire \cup {m} /\ pc' = "ack"
    BY <1>11 DEF m
  <2>5. ASSUME NEW w \in wire', w = m PROVE SentOf(w)' /\ Len(w.options) <= BuffSize
    BY <1>1, <1>6, <1>7, <2>1, <2>3, <2>4, <2>5 DEF SentOf, Given
  <2> QED
    BY <1>3, <1>4, <1>5, <1>8, <1>9, <2>4, <2>5 DEF IInv, Sendings
<1>12. CASE Step("release", 7, "exit")
  <2> DEFINE m == [type |-> 7, options |-> Sent(7)]
  <2>1. Ready(7, Released) /\ 7 \in {1, 3, 7}
    BY <1>12 DEF IInv, Packets
  <2>2. Sent(7) = packet[7] /\ Len(packet[7]) <= BuffSize
    <3>1. dhopt_size = Len(packet[7])
      BY <2>1 DEF Ready
    <3>2. Len(packet[7]) \in Nat
      BY <1>2, LenProperties
    <3> QED
      BY <1>0, <1>2, <2>1, <3>1, <3>2, SentIs
  <2>3. /\ m.type = 7 /\ Carries(m.options, 7, Released, Given("p"))
        /\ Len(m.options) <= BuffSize
    BY <2>1, <2>2 DEF Ready
  <2> HIDE DEF m
  <2>4. wire' = wire \cup {m} /\ pc' = "exit"
    BY <1>12 DEF m
  <2>5. ASSUME NEW w \in wire', w = m PROVE SentOf(w)' /\ Len(w.options) <= BuffSize
    BY <1>1, <1>6, <2>3, <2>4, <2>5 DEF SentOf, Given
  <2> QED
    BY <1>3, <1>4, <1>5, <1>8, <1>9, <2>4, <2>5 DEF IInv, Sendings
<1> QED
  BY <1>1, <1>10, <1>11, <1>12

LEMMA ResendSteps == IInv /\ (Resend \/ RecvAck) => IInv'
<1> SUFFICES ASSUME IInv, Resend \/ RecvAck PROVE IInv'
  OBVIOUS
<1>1. /\ UNCHANGED <<cmd, custom_dhcp_options, dhopt_buff, dhopt_size, packet, offer,
                     dhopt_pointer_g, server_id, option50_ip, wire>>
      /\ \/ pc = "offer" /\ pc' = "discover"
         \/ pc = "ack" /\ pc' \in {"request", "exit"}
  BY DEF Resend, RecvAck
<1>2. TypeOK' /\ Contents'
  BY <1>1 DEF IInv, TypeOK, Contents, Parsed
<1>3. Arguments'
  BY <1>1 DEF IInv, Arguments, Parsed
<1>4. Fresh' /\ Walking'
  BY <1>1 DEF IInv, Fresh, Walking, Given
<1>5. Discovered' = Discovered /\ RequestOptions' = RequestOptions /\ Released' = Released
  BY <1>1, Same, SameRequest, SameReleased
<1>6. Chosen => Chosen'
  BY <1>1, SameChoice
<1>7. Packets'
  BY <1>1, <1>5, <1>6 DEF IInv, Packets, Ready, Given
<1>8. ASSUME NEW m \in wire PROVE SentOf(m)' /\ Len(m.options) <= BuffSize
  <2>1. SentOf(m) /\ Len(m.options) <= BuffSize
    BY DEF IInv, Sendings
  <2> QED
    BY <1>1, <1>5, <1>6, <2>1 DEF SentOf, Given
<1> QED
  BY <1>1, <1>2, <1>3, <1>4, <1>7, <1>8 DEF IInv, Sendings

LEMMA RecvOfferStep == IInv /\ RecvOffer => IInv'
<1> SUFFICES ASSUME IInv, RecvOffer PROVE IInv'
  OBVIOUS
<1>1. /\ pc = "offer" /\ pc' = "walk" /\ dhopt_pointer_g' = 1
      /\ UNCHANGED <<cmd, custom_dhcp_options, dhopt_buff, dhopt_size, packet, server_id, wire>>
  BY DEF RecvOffer
<1>2. PICK o \in Offers : offer' = o /\ option50_ip' = o.yip
  BY DEF RecvOffer
<1>3. o.yip \in Seq(Byte) /\ Len(o.yip) = 4 /\ o.options \in Seq(Byte)
  BY Parameters
<1>4. TypeOK'
  BY <1>1, <1>2 DEF IInv, TypeOK, Parsed
<1>5. Contents'
  BY <1>1, <1>2, <1>3 DEF IInv, Contents
<1>6. Arguments'
  BY <1>1 DEF IInv, Arguments, Parsed
<1>7. Fresh' /\ Packets'
  BY <1>1 DEF Fresh, Packets
<1>8. Walking'
  <2> DEFINE read == Fields(o.options)
  <2>1. server_id = NoServer
    BY <1>1 DEF IInv, Fresh
  <2>2. read \in Seq(Seq(Nat))
    <3>1. 1 \in 1 .. Len(o.options) + 1
      BY <1>3, LenProperties
    <3> QED
      BY <1>3, <3>1, ReaderDef, FieldsIs
  <2> HIDE DEF read
  <2>3. Upto(read)[0] = <<>> /\ Len(<<>>) + 1 = 1 /\ 0 \in 0 .. Len(read)
    <3>1. Upto(read)[0] = <<>>
      BY <2>2, UptoDef
    <3>2. Len(read) \in Nat
      BY <2>2, LenProperties
    <3>3. Len(<<>>) = 0
      OBVIOUS
    <3> QED
      BY <3>1, <3>2, <3>3
  <2>4. Named(read, 0) = NoServer
    <3>1. {i \in 1 .. 0 : read[i][1] = 54} = {}
      OBVIOUS
    <3> QED
      BY <3>1 DEF Named
  <2>5. \E k \in 0 .. Len(read) :
          dhopt_pointer_g' = Len(Upto(read)[k]) + 1 /\ server_id' = Named(read, k)
    BY <1>1, <2>1, <2>3, <2>4
  <2> QED
    BY <1>2, <2>5 DEF Walking, Behind, read
<1>9. Discovered' = Discovered
  BY <1>1, Same
<1>10. Sendings'
  <2>1. \A m \in wire : /\ m.type = 1 /\ Carries(m.options, 1, Discovered, Given("p"))
                       /\ Len(m.options) <= BuffSize
    BY <1>1 DEF IInv, Sendings, SentOf
  <2> QED
    BY <1>1, <1>9, <2>1 DEF Sendings, SentOf, Given
<1> QED
  BY <1>4, <1>5, <1>6, <1>7, <1>8, <1>10 DEF IInv

LEMMA WalkOfferStep == Ordinary /\ IInv /\ WalkOffer => IInv'
<1> SUFFICES ASSUME Ordinary, IInv, WalkOffer PROVE IInv'
  OBVIOUS
<1> DEFINE p == dhopt_pointer_g
           b == offer.options
           read == Fields(b)
<1>1. /\ pc = "walk" /\ b[p] # END
      /\ server_id' = IF b[p] = 54 THEN SubSeq(b, p + 2, p + 5) ELSE server_id
      /\ p' = p + b[p + 1] + 2
      /\ UNCHANGED <<cmd, pc, custom_dhcp_options, dhopt_buff, dhopt_size, packet, offer,
                     option50_ip, wire>>
  BY DEF WalkOffer
<1>2. offer \in Offers /\ option50_ip = offer.yip /\ PlainOffer(offer) /\ b \in Seq(Byte)
  BY <1>1, Parameters DEF IInv, Walking, Ordinary
<1>3. PICK k \in 0 .. Len(read) : p = Len(Upto(read)[k]) + 1 /\ server_id = Named(read, k)
  BY <1>1 DEF IInv, Walking, Behind
<1>4. PICK m : Lies(b, read, m)
  BY <1>2, OfferLies
<1>5. /\ k # Len(read) /\ k + 1 \in 1 .. Len(read)
      /\ p + b[p + 1] + 2 = Len(Upto(read)[k + 1]) + 1
      /\ b[p] = read[k + 1][1]
      /\ b[p] = 54 => SubSeq(b, p + 2, p + 5) = SubSeq(read[k + 1], 3, 6)
  <2> HIDE DEF p, b, read
  <2>1. Turned(b, read, k, p)
    BY <1>2, <1>3, <1>4, Turn
  <2> QED
    BY <1>1, <2>1 DEF Turned
<1>6. server_id' = Named(read, k + 1)
  <2>1. k \in Nat
    BY <1>4, LenProperties DEF Lies
  <2> QED
    BY <1>1, <1>3, <1>5, <2>1, NamedNext
<1>7. server_id' \in ServerIds \cup {NoServer} /\ server_id' \in Seq(Byte) /\ Len(server_id') = 4
  <2>1. CASE b[p] = 54
    <3>1. SubSeq(read[k + 1], 3, 6) \in ServerIds
      BY <1>4, <1>5, <2>1 DEF Lies
    <3> QED
      BY <1>1, <1>5, <2>1, <3>1, Parameters
  <2>2. CASE b[p] # 54
    BY <1>1, <2>2 DEF IInv, TypeOK, Contents
  <2> QED
    BY <2>1, <2>2
<1>8. dhopt_pointer_g' \in Nat \ {0}
  <2>1. Len(Upto(read)[k + 1]) \in Nat
    BY <1>4, <1>5 DEF Lies, Placed
  <2> QED
    BY <1>1, <1>5, <2>1
<1>9. TypeOK'
  BY <1>1, <1>7, <1>8 DEF IInv, TypeOK, Parsed
<1>10. Contents' /\ Arguments'
  BY <1>1, <1>7 DEF IInv, Contents, Arguments, Parsed
<1>11. Fresh' /\ Packets'
  BY <1>1 DEF Fresh, Packets
<1>12. Walking'
  <2>1. k + 1 \in 0 .. Len(read)
    BY <1>5
  <2>2. /\ offer' = offer /\ dhopt_pointer_g' = Len(Upto(read)[k + 1]) + 1
        /\ server_id' = Named(read, k + 1)
    BY <1>1, <1>5, <1>6
  <2>3. \E j \in 0 .. Len(read) :
          dhopt_pointer_g' = Len(Upto(read)[j]) + 1 /\ server_id' = Named(read, j)
    BY <2>1, <2>2
  <2> HIDE DEF p
  <2> QED
    BY <1>1, <1>2, <2>3 DEF Walking, Behind
<1>13. Discovered' = Discovered
  BY <1>1, Same
<1>14. Sendings'
  <2>1. \A w \in wire : /\ w.type = 1 /\ Carries(w.options, 1, Discovered, Given("p"))
                       /\ Len(w.options) <= BuffSize
    BY <1>1 DEF IInv, Sendings, SentOf
  <2> QED
    BY <1>1, <1>13, <2>1 DEF Sendings, SentOf, Given
<1> QED
  BY <1>9, <1>10, <1>11, <1>12, <1>14 DEF IInv

LEMMA StepInv == Ordinary /\ IInv /\ [Next]_vars => IInv'
<1> SUFFICES ASSUME Ordinary, IInv, [Next]_vars PROVE IInv'
  OBVIOUS
<1>1. CASE CustomOption
  BY <1>1, CustomOptionStep
<1>2. CASE CustomRejected
  BY <1>2, CustomRejectedStep
<1>3. CASE BuildRelease
  BY <1>3, BuildReleaseStep
<1>4. CASE BuildDiscover
  BY <1>4, BuildDiscoverStep
<1>5. CASE BuildRequest
  BY <1>5, BuildRequestStep
<1>6. CASE SendDiscover \/ SendRequest \/ SendRelease
  BY <1>6, SendSteps
<1>7. CASE Resend \/ RecvAck
  BY <1>7, ResendSteps
<1>8. CASE RecvOffer
  BY <1>8, RecvOfferStep
<1>9. CASE WalkOffer
  BY <1>9, WalkOfferStep
<1>10. CASE UNCHANGED vars
  <2>1. UNCHANGED <<cmd, pc, custom_dhcp_options, dhopt_buff, dhopt_size, packet, offer,
                    dhopt_pointer_g, server_id, option50_ip, wire>>
    BY <1>10 DEF vars
  <2>2. TypeOK' /\ Contents' /\ Arguments'
    BY <2>1 DEF IInv, TypeOK, Contents, Arguments, Parsed
  <2>3. Fresh' /\ Walking'
    BY <2>1 DEF IInv, Fresh, Walking, Behind, Given
  <2>4. Discovered' = Discovered /\ RequestOptions' = RequestOptions /\ Released' = Released
    BY <2>1, Same, SameRequest, SameReleased
  <2>5. Chosen => Chosen'
    BY <2>1, SameChoice
  <2>6. Packets'
    BY <2>1, <2>4, <2>5 DEF IInv, Packets, Ready, Given
  <2>7. ASSUME NEW m \in wire PROVE SentOf(m)' /\ Len(m.options) <= BuffSize
    <3>1. SentOf(m) /\ Len(m.options) <= BuffSize
      BY DEF IInv, Sendings
    <3> QED
      BY <2>1, <2>4, <2>5, <3>1 DEF SentOf, Given
  <2> QED
    BY <2>1, <2>2, <2>3, <2>6, <2>7 DEF IInv, Sendings
<1> QED
  BY <1>1, <1>2, <1>3, <1>4, <1>5, <1>6, <1>7, <1>8, <1>9, <1>10 DEF Next

\* The inductive invariant of any run with such commands and offers.
THEOREM Inductive == ASSUME Ordinary PROVE Spec => []IInv
<1>1. Init => IInv
  BY InitInv
<1>2. IInv /\ [Next]_vars => IInv'
  BY StepInv
<1> QED
  BY <1>1, <1>2, PTL DEF Spec

\* Every variable keeps its type; dhopt_buff never holds more than its 500 bytes.
THEOREM TypeCorrect == ASSUME Ordinary PROVE Spec => []TypeOK
<1>1. IInv => TypeOK
  BY DEF IInv
<1> QED
  BY <1>1, Inductive, PTL

\* The walk of set_serv_id_opt50 stays in the field and finds the server
\* identifier that a reader of the offer finds.
THEOREM OfferReadSound == ASSUME Ordinary PROVE Spec => []OfferRead
<1>1. ASSUME IInv PROVE OfferRead
  <2> SUFFICES ASSUME pc = "walk"
               PROVE  /\ dhopt_pointer_g <= Len(offer.options)
                      /\ offer.options[dhopt_pointer_g] = END =>
                           server_id = ServerOf(offer.options)
    BY DEF OfferRead
  <2> DEFINE b == offer.options
             read == Fields(b)
  <2>1. offer \in Offers /\ PlainOffer(offer) /\ b \in Seq(Byte)
    BY <1>1, Parameters DEF IInv, Walking, Ordinary
  <2>2. PICK k \in 0 .. Len(read) : Behind(k, read)
    BY <1>1 DEF IInv, Walking
  <2>3. PICK m : Lies(b, read, m)
    BY <2>1, OfferLies
  <2>4. dhopt_pointer_g = Len(Upto(read)[k]) + 1
    BY <2>2 DEF Behind
  <2>5. Turned(b, read, k, dhopt_pointer_g)
    BY <2>1, <2>3, <2>4, Turn
  <2>6. DOMAIN read = 1 .. Len(read)
    BY <2>3, LenProperties DEF Lies
  <2>7. k = Len(read) => server_id = ServerOf(b)
    BY <2>2, <2>6 DEF Behind, Named, ServerOf
  <2> QED
    BY <2>5, <2>7 DEF Turned
<1> QED
  BY <1>1, Inductive, PTL

LEMMA WholeSet ==
  ASSUME NEW type, NEW options \in Seq(Seq(Byte)), <<53, 1, type>> \in Seq(Byte)
  PROVE  ToSet(Whole(type, options)) = {<<53, 1, type>>} \cup ToSet(options)
<1> DEFINE h == <<53, 1, type>>
           a == <<h>>
<1>1. a \in Seq(Seq(Byte)) /\ ToSet(a) = {h}
  BY DEF ToSet
<1> HIDE DEF h, a
<1>2. ToSet(a \o options) = ToSet(a) \cup ToSet(options)
  BY <1>1, ToSetConcat
<1> QED
  BY <1>1, <1>2 DEF Whole, a, h

\* Option 81 alone makes what is built differ from what is asked for.
LEMMA BuiltAsAsked ==
  ASSUME cmd \in Commands, Fits(cmd), NEW type \in {1, 3, 7}
  PROVE  {f \in Composed(type) : f[1] \notin Unlike} = {f \in Asked(type) : f[1] \notin Unlike}
<1>1. ToSet(Hostname \o Fqdn) = ToSet(Hostname) \cup ToSet(Fqdn)
  BY OwnSets
<1>2. CASE ~Given("s")
  <2>1. AskedFlags = FqdnFlags
    BY <1>2 DEF AskedFlags, FqdnFlags
  <2>2. AskedFqdn = Fqdn
    BY <2>1 DEF AskedFqdn, Fqdn
  <2> QED
    BY <1>1, <2>2 DEF Composed, Asked
<1>3. CASE Given("s")
  <2>1. \A f \in ToSet(Fqdn) \cup ToSet(AskedFqdn) : f[1] = 81
    BY FqdnCodes
  <2>2. Unlike = {81}
    BY <1>3 DEF Unlike
  <2> QED
    BY <1>1, <2>1, <2>2 DEF Composed, Asked
<1> QED
  BY <1>2, <1>3

LEMMA AskedCodes ==
  ASSUME cmd \in Commands, Fits(cmd), NEW type \in {3, 7}
  PROVE  \A f \in Composed(type) : f[1] \notin {50, 54}
<1>1. /\ ToSet(Hostname \o Fqdn) = ToSet(Hostname) \cup ToSet(Fqdn)
      /\ ToSet(Vci \o Lease \o Params) = ToSet(Vci) \cup ToSet(Lease) \cup ToSet(Params)
  BY OwnSets
<1>2. \A f \in ToSet(Hostname) \cup ToSet(Fqdn) \cup ToSet(Vci) \cup ToSet(Lease)
                 \cup ToSet(Params) \cup Custom : f[1] \notin {50, 54}
  BY OwnCodes
<1>3. <<53, 1, type>>[1] = 53
  OBVIOUS
<1>4. ASSUME NEW f \in Composed(type) PROVE f = <<53, 1, type>> \/ f[1] \notin {50, 54}
  BY <1>1, <1>2, <1>4 DEF Composed
<1> QED
  BY <1>3, <1>4

\* What the field of a message says: the form of SentAsAsked.
LEMMA CarriesAsked ==
  ASSUME NEW bytes, NEW type, NEW options, NEW padded, Carries(bytes, type, options, padded)
  PROVE  LET read  == Fields(bytes)
             field == FlattenSeq(read) \o <<END>>
         IN  /\ read = Whole(type, options)
             /\ SubSeq(bytes, 1, Len(field)) = field
             /\ Len(bytes) = IF padded /\ Len(field) < 60 THEN 60 ELSE Len(field)
<1>1. Closed(type, options) = FlattenSeq(Fields(bytes)) \o <<END>>
  BY DEF Carries, Closed
<1> QED
  BY <1>1 DEF Carries

\* The options read in a REQUEST.
LEMMA RequestRead ==
  ASSUME Ordinary, IInv, NEW m \in wire, m.type = 3
  PROVE  LET read == Fields(m.options) IN
           /\ read \in Seq(Seq(Byte)) /\ Carries(m.options, 3, RequestOptions, Given("p"))
           /\ ToSet(read) = Composed(3) \cup {Option(50, option50_ip), Option(54, server_id)}
           /\ {f \in ToSet(read) : f[1] \notin {50, 54}} = Composed(3)
           /\ \A f \in ToSet(read) : f[1] = 54 => f = Option(54, server_id)
           /\ Option(50, option50_ip)[1] = 50 /\ Option(54, server_id)[1] = 54
           /\ SubSeq(Option(54, server_id), 3, 6) = server_id
<1> DEFINE read == Fields(m.options)
<1>1. Complete
  BY DEF IInv, TypeOK, Arguments, Complete, Ordinary
<1>2. Carries(m.options, 3, RequestOptions, Given("p"))
  BY DEF IInv, Sendings, SentOf
<1>3. read = Whole(3, RequestOptions)
  BY <1>2 DEF Carries
<1>4. /\ option50_ip \in Seq(Byte) /\ Len(option50_ip) = 4
      /\ server_id \in Seq(Byte) /\ Len(server_id) = 4
  BY DEF IInv, Contents
<1>5. /\ RequestOptions \in Seq(Seq(Byte)) /\ \A f \in ToSet(RequestOptions) : IsOption(f)
      /\ {<<53, 1, 3>>} \cup ToSet(RequestOptions)
           = Composed(3) \cup {Option(50, option50_ip), Option(54, server_id)}
  <2>1. \E n \in Nat : Part(RequestOptions, n, Nat)
    BY <1>1, <1>4, RequestList
  <2>2. {<<53, 1, 3>>} \cup ToSet(RequestOptions)
           = Composed(3) \cup {Option(50, option50_ip), Option(54, server_id)}
    BY <1>1, <1>4, RequestList
  <2> QED
    BY <2>1, <2>2 DEF Part
<1>6. read \in Seq(Seq(Byte)) /\ ToSet(read) = {<<53, 1, 3>>} \cup ToSet(RequestOptions)
  <2>1. <<53, 1, 3>> \in Seq(Byte)
    BY Type53
  <2>2. \A k \in 1 .. Len(RequestOptions) : IsOption(RequestOptions[k])
    <3>1. DOMAIN RequestOptions = 1 .. Len(RequestOptions)
      BY <1>5, LenProperties
    <3> QED
      BY <1>5, <3>1 DEF ToSet
  <2>3. Whole(3, RequestOptions) \in Seq(Seq(Byte))
    BY <1>5, <2>2, WholeIs
  <2> QED
    BY <1>3, <1>5, <2>1, <2>3, WholeSet
<1>7. /\ Part(<<Option(50, option50_ip)>>, 6, {50}) /\ Part(<<Option(54, server_id)>>, 6, {54})
      /\ ToSet(<<Option(50, option50_ip)>>) = {Option(50, option50_ip)}
      /\ ToSet(<<Option(54, server_id)>>) = {Option(54, server_id)}
      /\ SubSeq(Option(54, server_id), 3, 6) = server_id
  BY <1>4, OptionList
<1>8. Option(50, option50_ip)[1] = 50 /\ Option(54, server_id)[1] = 54
  BY <1>7 DEF Part
<1>9. \A f \in Composed(3) : f[1] \notin {50, 54}
  BY <1>1, AskedCodes DEF Complete
<1> HIDE DEF read
<1>10. ToSet(read) = Composed(3) \cup {Option(50, option50_ip), Option(54, server_id)}
  BY <1>5, <1>6
<1>11. {f \in ToSet(read) : f[1] \notin {50, 54}} = Composed(3)
  BY <1>8, <1>9, <1>10
<1>12. \A f \in ToSet(read) : f[1] = 54 => f = Option(54, server_id)
  BY <1>8, <1>9, <1>10
<1> QED
  BY <1>2, <1>6, <1>7, <1>8, <1>10, <1>11, <1>12 DEF read

\* A REQUEST names the address and the server of the offer.
THEOREM RequestsNameOffer == ASSUME Ordinary PROVE Spec => []RequestNamesOffer
<1>1. ASSUME IInv PROVE RequestNamesOffer
  <2> SUFFICES ASSUME NEW m \in wire, m.type = 3
               PROVE  /\ Option(50, offer.yip) \in ToSet(Fields(m.options))
                      /\ ServerOf(m.options) = ServerOf(offer.options)
    BY DEF RequestNamesOffer
  <2> DEFINE read == Fields(m.options)
             at   == {i \in DOMAIN read : read[i][1] = 54}
  <2>1. option50_ip = offer.yip /\ server_id = ServerOf(offer.options)
    BY <1>1 DEF IInv, Sendings, SentOf, Chosen
  <2>2. /\ read \in Seq(Seq(Byte))
        /\ ToSet(read) = Composed(3) \cup {Option(50, option50_ip), Option(54, server_id)}
        /\ \A f \in ToSet(read) : f[1] = 54 => f = Option(54, server_id)
        /\ Option(54, server_id)[1] = 54
        /\ SubSeq(Option(54, server_id), 3, 6) = server_id
    BY <1>1, RequestRead
  <2> HIDE DEF read
  <2>3. Len(read) \in Nat /\ DOMAIN read = 1 .. Len(read)
    BY <2>2, LenProperties
  <2>4. at # {} /\ at \in SUBSET (1 .. Len(read))
    <3>1. Option(54, server_id) \in ToSet(read)
      BY <2>2
    <3>2. PICK i \in DOMAIN read : read[i] = Option(54, server_id)
      BY <3>1 DEF ToSet
    <3> QED
      BY <2>2, <2>3, <3>2
  <2>5. Max(at) \in at
    <3> HIDE DEF at
    <3> QED
      BY <2>3, <2>4, MaxIs
  <2>6. read[Max(at)] = Option(54, server_id)
    <3>1. read[Max(at)] \in ToSet(read) /\ read[Max(at)][1] = 54
      BY <2>5 DEF ToSet
    <3> QED
      BY <2>2, <3>1
  <2>7. ServerOf(m.options) = server_id
    BY <2>2, <2>4, <2>6 DEF ServerOf, read
  <2> QED
    BY <2>1, <2>2, <2>7 DEF read
<1> QED
  BY <1>1, Inductive, PTL

LEMMA Beside ==
  ASSUME NEW R, NEW A, NEW B, NEW C, NEW U,
         {f \in R : f[1] \notin A} = B,
         {f \in B : f[1] \notin U} = {f \in C : f[1] \notin U}
  PROVE  {f \in R : f[1] \notin A \cup U} = {f \in C : f[1] \notin U}
OBVIOUS

\* A reader of any message finds the options asked for and nothing else, but for
\* the flags of option 81 with -s.
THEOREM SentSound == ASSUME Ordinary PROVE Spec => []SentAsAsked
<1>1. ASSUME IInv PROVE SentAsAsked
  <2> DEFINE Says(m) ==
        LET read  == Fields(m.options)
            field == FlattenSeq(read) \o <<END>>
        IN  /\ {f \in ToSet(read) : f[1] \notin Answered(m.type) \cup Unlike}
                  = {f \in Asked(m.type) : f[1] \notin Unlike}
            /\ Answered(m.type) \subseteq {f[1] : f \in ToSet(read)}
            /\ SubSeq(m.options, 1, Len(field)) = field
            /\ Len(m.options) = IF Given("p") /\ Len(field) < 60 THEN 60 ELSE Len(field)
  <2> SUFFICES ASSUME NEW m \in wire PROVE Says(m)
    BY DEF SentAsAsked
  <2> DEFINE read == Fields(m.options)
             field == FlattenSeq(read) \o <<END>>
             Laid == /\ SubSeq(m.options, 1, Len(field)) = field
                     /\ Len(m.options) = IF Given("p") /\ Len(field) < 60 THEN 60
                                         ELSE Len(field)
  <2>1. Complete
    BY <1>1 DEF IInv, TypeOK, Arguments, Complete, Ordinary
  <2>2. SentOf(m)
    BY <1>1 DEF IInv, Sendings
  <2>3. CASE m.type = 1
    <3>1. Carries(m.options, 1, Discovered, Given("p"))
      BY <2>2, <2>3 DEF SentOf
    <3>2. read = Whole(1, Discovered) /\ Laid
      BY <3>1, CarriesAsked
    <3>3. ToSet(read) = Composed(1)
      <4>1. Discovered \in Seq(Seq(Byte))
        BY <2>1, DiscoverList DEF Part
      <4>2. <<53, 1, 1>> \in Seq(Byte)
        BY Type53
      <4>3. ToSet(Whole(1, Discovered)) = {<<53, 1, 1>>} \cup ToSet(Discovered)
        BY <4>1, <4>2, WholeSet
      <4> QED
        BY <2>1, <3>2, <4>3, DiscoverList
    <3> HIDE DEF read, Laid
    <3>4. Answered(1) = {}
      BY DEF Answered
    <3>5. /\ {f \in ToSet(read) : f[1] \notin Answered(1)} = Composed(1)
          /\ Answered(1) \subseteq {f[1] : f \in ToSet(read)}
      BY <3>3, <3>4
    <3>6. {f \in Composed(1) : f[1] \notin Unlike} = {f \in Asked(1) : f[1] \notin Unlike}
      BY <2>1, BuiltAsAsked DEF Complete
    <3>7. {f \in ToSet(read) : f[1] \notin Answered(1) \cup Unlike}
             = {f \in Asked(1) : f[1] \notin Unlike}
      BY <3>5, <3>6, Beside
    <3> QED
      BY <2>3, <3>2, <3>5, <3>7 DEF read, Laid
  <2>4. CASE m.type = 3
    <3>1. /\ Carries(m.options, 3, RequestOptions, Given("p"))
          /\ ToSet(read) = Composed(3) \cup {Option(50, option50_ip), Option(54, server_id)}
          /\ {f \in ToSet(read) : f[1] \notin {50, 54}} = Composed(3)
          /\ Option(50, option50_ip)[1] = 50 /\ Option(54, server_id)[1] = 54
      BY <1>1, <2>4, RequestRead
    <3>2. Laid
      BY <3>1, CarriesAsked
    <3> HIDE DEF read, Laid
    <3>3. Answered(3) = {50, 54}
      BY DEF Answered
    <3>4. /\ {f \in ToSet(read) : f[1] \notin Answered(3)} = Composed(3)
          /\ Answered(3) \subseteq {f[1] : f \in ToSet(read)}
      <4>1. 50 \in {f[1] : f \in ToSet(read)} /\ 54 \in {f[1] : f \in ToSet(read)}
        BY <3>1
      <4> QED
        BY <3>1, <3>3, <4>1
    <3>5. {f \in Composed(3) : f[1] \notin Unlike} = {f \in Asked(3) : f[1] \notin Unlike}
      BY <2>1, BuiltAsAsked DEF Complete
    <3>6. {f \in ToSet(read) : f[1] \notin Answered(3) \cup Unlike}
             = {f \in Asked(3) : f[1] \notin Unlike}
      BY <3>4, <3>5, Beside
    <3> QED
      BY <2>4, <3>2, <3>4, <3>6 DEF read, Laid
  <2>5. CASE m.type = 7
    <3> DEFINE x == Option(54, server_id)
    <3>1. Carries(m.options, 7, Released, Given("p"))
      BY <2>2, <2>5 DEF SentOf
    <3>2. read = Whole(7, Released) /\ Laid
      BY <3>1, CarriesAsked
    <3>3. server_id \in Seq(Byte) /\ Len(server_id) = 4
      BY <1>1 DEF IInv, Contents
    <3>4. ToSet(read) = Composed(7) \cup {x}
      <4>1. \E n \in Nat : Part(Released, n, Nat)
        BY <2>1, <3>3, ReleaseList DEF Released
      <4>2. Released \in Seq(Seq(Byte))
        BY <4>1 DEF Part
      <4>3. <<53, 1, 7>> \in Seq(Byte)
        BY Type53
      <4>4. ToSet(Whole(7, Released)) = {<<53, 1, 7>>} \cup ToSet(Released)
        BY <4>2, <4>3, WholeSet
      <4>5. {<<53, 1, 7>>} \cup ToSet(Released) = Composed(7) \cup {x}
        BY <2>1, <3>3, ReleaseList DEF Released
      <4> QED
        BY <3>2, <4>4, <4>5
    <3>5. x[1] = 54
      BY <3>3, OptionList DEF Part
    <3>6. \A f \in Composed(7) : f[1] \notin {50, 54}
      BY <2>1, AskedCodes DEF Complete
    <3> HIDE DEF read, Laid, x
    <3>7. Answered(7) = {54}
      BY DEF Answered
    <3>8. /\ {f \in ToSet(read) : f[1] \notin Answered(7)} = Composed(7)
          /\ Answered(7) \subseteq {f[1] : f \in ToSet(read)}
      <4>1. 54 \in {f[1] : f \in ToSet(read)}
        BY <3>4, <3>5
      <4>2. \A f : f \in ToSet(read) /\ f[1] # 54 <=> f \in Composed(7)
        BY <3>4, <3>5, <3>6
      <4> QED
        BY <3>7, <4>1, <4>2
    <3>9. {f \in Composed(7) : f[1] \notin Unlike} = {f \in Asked(7) : f[1] \notin Unlike}
      BY <2>1, BuiltAsAsked DEF Complete
    <3>10. {f \in ToSet(read) : f[1] \notin Answered(7) \cup Unlike}
              = {f \in Asked(7) : f[1] \notin Unlike}
      BY <3>8, <3>9, Beside
    <3> QED
      BY <2>5, <3>2, <3>8, <3>10 DEF read, Laid
  <2> QED
    BY <2>2, <2>3, <2>4, <2>5 DEF SentOf
<1> QED
  BY <1>1, Inductive, PTL
=============================================================================
