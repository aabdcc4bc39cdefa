------------------------- MODULE DhcpFrames_proofs -------------------------
(***************************************************************************)
(* Theorem about DhcpFrames: the checksums of the datagrams of dhtest, for *)
(* any headers and any options fields that DhcpOptions_proofs bounds.      *)
(***************************************************************************)
EXTENDS DhcpFrames, DhcpOptions_proofs

(* The parts of a header and their lengths *)

LEMMA ShortType ==
  ASSUME NEW n \in Nat
  PROVE  Short(n) \in Seq(Byte) /\ Len(Short(n)) = 2
<1> DEFINE x == (n \div 256) % 256
           y == n % 256
<1>1. x \in Byte /\ y \in Byte
  BY SMT DEF Byte
<1> HIDE DEF x, y
<1>2. <<x, y>> \in Seq(Byte) /\ Len(<<x, y>>) = 2
  BY <1>1
<1> QED
  BY <1>2 DEF Short, x, y

LEMMA ZerosType ==
  ASSUME NEW n \in Nat
  PROVE  Zeros(n) \in Seq(Byte) /\ Len(Zeros(n)) = n
<1>1. 0 \in Byte
  BY DEF Byte
<1>2. Zeros(n) \in [1 .. n -> Byte]
  BY <1>1 DEF Zeros
<1> QED
  BY <1>2, AsSequence

LEMMA AddressType ==
  ASSUME NEW a \in Address
  PROVE  a \in Seq(Byte) /\ Len(a) = 4
  BY AsSequence DEF Address

\* A checksum of zero and one that was filled in.
LEMMA WordIs ==
  ASSUME NEW c \in 0 .. W - 1
  PROVE  Zeros(2) = <<0, 0>> /\ Word(c) = <<c % 256, c \div 256>>
<1>1. Zeros(2) \in Seq(Byte) /\ Len(Zeros(2)) = 2 /\ Zeros(2)[1] = 0 /\ Zeros(2)[2] = 0
  BY ZerosType DEF Zeros
<1> QED
  BY <1>1 DEF Word

LEMMA HeaderTypes ==
  ASSUME NEW h \in Headers
  PROVE  /\ h.tos \in Byte /\ h.port \in Nat
         /\ h.unicast \in Address /\ h.server \in Address /\ h.acquired \in Address
         /\ h.giaddr \in Seq(Byte) /\ Len(h.giaddr) = 4
         /\ h.xid \in Seq(Byte) /\ Len(h.xid) = 4
         /\ h.flags \in Seq(Byte) /\ Len(h.flags) = 2
         /\ h.chaddr \in Seq(Byte) /\ Len(h.chaddr) = 6
<1>1. /\ h.tos \in Byte /\ h.port \in 1 .. W - 1
      /\ h.unicast \in Address /\ h.server \in Address /\ h.acquired \in Address
      /\ h.giaddr \in Address /\ h.xid \in Address
      /\ h.flags \in {<<0, 0>>, <<128, 0>>} /\ h.chaddr \in [1 .. 6 -> Byte]
  BY HeaderParameters
<1>2. h.port \in Nat
  <2>1. W \in Nat /\ \A n \in 1 .. W - 1 : n \in Nat
    BY DEF W
  <2> QED
    BY <1>1, <2>1
<1>3. h.flags \in Seq(Byte) /\ Len(h.flags) = 2
  <2>1. 0 \in Byte /\ 128 \in Byte
    BY DEF Byte
  <2>2. /\ <<0, 0>> \in Seq(Byte) /\ Len(<<0, 0>>) = 2
        /\ <<128, 0>> \in Seq(Byte) /\ Len(<<128, 0>>) = 2
    BY <2>1
  <2>3. h.flags = <<0, 0>> \/ h.flags = <<128, 0>>
    BY <1>1
  <2> QED
    BY <2>2, <2>3, Zenon
<1>4. h.chaddr \in Seq(Byte) /\ Len(h.chaddr) = 6
  <2>1. PICK n \in Nat : n = 6
    OBVIOUS
  <2>2. h.chaddr \in [1 .. n -> Byte]
    BY <1>1, <2>1
  <2>3. h.chaddr \in Seq(Byte) /\ Len(h.chaddr) = n
    BY <2>2, AsSequence
  <2> QED
    BY <2>1, <2>3
<1> QED
  BY <1>1, <1>2, <1>3, <1>4, AddressType, Zenon

LEMMA EndsAre ==
  ASSUME IInv, NEW h \in Headers, NEW m
  PROVE  Source(h, m) \in Address /\ Destination(h, m) \in Address
<1>1. server_id \in Address
  <2>1. server_id \in Seq(Byte) /\ Len(server_id) = 4
    BY DEF IInv, Contents
  <2>2. server_id \in [1 .. Len(server_id) -> Byte]
    BY <2>1, LenProperties
  <2> QED
    BY <2>1, <2>2 DEF Address
<1> QED
  BY <1>1, HeaderTypes DEF Source, Destination

Long(bytes, n) == bytes \in Seq(Byte) /\ Len(bytes) = n

LEMMA Longer ==
  ASSUME NEW a, NEW b, NEW m, NEW n, Long(a, m), Long(b, n)
  PROVE  Long(a \o b, m + n)
  BY Concat DEF Long

\* The 240 bytes of the DHCP header.
LEMMA DhcpHeaderType ==
  ASSUME NEW h \in Headers, NEW m, Source(h, m) \in Address
  PROVE  DhcpHeader(h, m) \in Seq(Byte) /\ Len(DhcpHeader(h, m)) = 240
<1> DEFINE front  == <<1, 1, 6, 0>>
           none   == <<0, 0>>
           cookie == <<99, 130, 83, 99>>
           names  == Zeros(10 + 64 + 128)
<1>1. Long(front, 4) /\ Long(none, 2) /\ Long(cookie, 4)
  <2>1. /\ 0 \in Byte /\ 1 \in Byte /\ 6 \in Byte /\ 99 \in Byte /\ 130 \in Byte
        /\ 83 \in Byte
    BY DEF Byte
  <2> QED
    BY <2>1 DEF Long
<1>2. Long(Source(h, m), 4)
  BY AddressType DEF Long
<1>3. Long(Zeros(8), 8) /\ Long(names, 202)
  <2>1. PICK k \in Nat, n \in Nat : k = 8 /\ n = 10 + 64 + 128 /\ n = 202
    OBVIOUS
  <2>2. Long(Zeros(k), k) /\ Long(Zeros(n), n)
    BY ZerosType DEF Long
  <2>3. Long(Zeros(8), 8)
    BY <2>1, <2>2, Zenon
  <2>4. names = Zeros(n)
    BY <2>1
  <2> QED
    BY <2>1, <2>2, <2>3, <2>4
<1>4. Long(h.xid, 4) /\ Long(h.flags, 2) /\ Long(h.giaddr, 4) /\ Long(h.chaddr, 6)
  BY HeaderTypes, Zenon DEF Long
<1> HIDE DEF front, none, cookie, names
<1>5. Long(front \o h.xid \o none \o h.flags, 4 + 4 + 2 + 2)
  BY <1>1, <1>4, Longer, Zenon
<1> DEFINE half == front \o h.xid \o none \o h.flags
           most == half \o Source(h, m) \o Zeros(8) \o h.giaddr
<1> HIDE DEF half, most
<1>6. Long(most, 4 + 4 + 2 + 2 + 4 + 8 + 4)
  BY <1>2, <1>3, <1>4, <1>5, Longer, Zenon DEF half, most
<1>7. Long(most \o h.chaddr \o names \o cookie, 4 + 4 + 2 + 2 + 4 + 8 + 4 + 6 + 202 + 4)
  <2>1. Long(most \o h.chaddr, 4 + 4 + 2 + 2 + 4 + 8 + 4 + 6)
    BY <1>4, <1>6, Longer, Zenon
  <2>2. Long(most \o h.chaddr \o names, 4 + 4 + 2 + 2 + 4 + 8 + 4 + 6 + 202)
    BY <1>3, <2>1, Longer, Zenon
  <2> QED
    BY <1>1, <2>2, Longer, Zenon
<1>8. 4 + 4 + 2 + 2 + 4 + 8 + 4 + 6 + 202 + 4 = 240
  OBVIOUS
<1> QED
  BY <1>7, <1>8, Zenon DEF DhcpHeader, Long, front, none, cookie, names, half, most

LEMMA Lengths ==
  ASSUME IInv, NEW m \in wire
  PROVE  /\ m.options \in Seq(Byte) /\ UdpLen(m) \in Nat /\ TotLen(m) \in Nat
         /\ UdpLen(m) = 248 + Len(m.options) /\ TotLen(m) < W /\ UdpLen(m) < W
<1>1. SentOf(m) /\ Len(m.options) <= BuffSize
  BY DEF IInv, Sendings
<1>2. m.options \in Seq(Byte)
  BY <1>1 DEF SentOf, Carries
<1>3. PICK n \in Nat : n = Len(m.options)
  BY <1>2, LenProperties
<1>4. BuffSize \in Nat /\ 268 + BuffSize < W /\ W \in Nat
  <2>1. BuffSize \in Nat /\ W \in Nat
    BY Parameters DEF W
  <2>2. 20 + 8 + 240 + BuffSize < W
    BY HeaderParameters, Zenon
  <2> QED
    BY <2>1, <2>2
<1>5. UdpLen(m) = 248 + n /\ TotLen(m) = 268 + n
  BY <1>3 DEF UdpLen, TotLen
<1> QED
  BY <1>1, <1>2, <1>3, <1>4, <1>5

(* Both headers, without their checksum and with it *)

LEMMA IpFilled ==
  ASSUME IInv, NEW h \in Headers, NEW m \in wire, NEW c \in 0 .. W - 1
  PROVE  LET x == IpHeader(h, m, Zeros(2))
         IN  /\ x \in Seq(Byte) /\ Len(x) = 20 /\ 6 \in 1 .. Len(x) \div 2
             /\ Filled(x, 6, c, IpHeader(h, m, Word(c)))
<1> DEFINE a == <<69, h.tos>> \o Short(TotLen(m)) \o <<0, 0, 0, 0, 64, 17>>
           s == Source(h, m)
           d == Destination(h, m)
           x == a \o <<0, 0>> \o s \o d
<1>1. Long(a, 10)
  <2>1. 0 \in Byte /\ 69 \in Byte /\ 64 \in Byte /\ 17 \in Byte /\ h.tos \in Byte
    BY HeaderTypes DEF Byte
  <2>2. Long(<<69, h.tos>>, 2) /\ Long(<<0, 0, 0, 0, 64, 17>>, 6)
    BY <2>1 DEF Long
  <2>3. Long(Short(TotLen(m)), 2)
    BY Lengths, ShortType, Zenon DEF Long
  <2>4. Long(a, 2 + 2 + 6)
    BY <2>2, <2>3, Longer, Zenon
  <2>5. 2 + 2 + 6 = 10
    OBVIOUS
  <2> QED
    BY <2>4, <2>5, Zenon
<1>2. Long(s, 4) /\ Long(d, 4)
  BY EndsAre, AddressType, Zenon DEF Long
<1> HIDE DEF a, s, d
<1>3. PICK k \in Nat : k = 5
  OBVIOUS
<1>4. HeaderFilled(a, s, d, k, c)
  <2>1. a \in Seq(Byte) /\ s \in Seq(Byte) /\ d \in Seq(Byte) /\ Len(a) = 2 * k
    BY <1>1, <1>2, <1>3 DEF Long
  <2> QED
    BY <2>1, FilledHeader
<1>5. /\ x \in Seq(Byte) /\ Len(x) = Len(a) + 2 + Len(s) + Len(d)
      /\ k + 1 \in 1 .. Len(x) \div 2
      /\ Filled(x, k + 1, c, a \o <<c % 256, c \div 256>> \o s \o d)
  BY <1>4, Zenon DEF HeaderFilled
<1>6. Len(a) + 2 + Len(s) + Len(d) = 20 /\ k + 1 = 6
  BY <1>1, <1>2, <1>3 DEF Long
<1>7. x = IpHeader(h, m, Zeros(2)) /\ a \o <<c % 256, c \div 256>> \o s \o d = IpHeader(h, m, Word(c))
  BY WordIs, Zenon DEF IpHeader, a, s, d
<1> HIDE DEF x
<1> QED
  BY <1>5, <1>6, <1>7, Zenon

LEMMA UdpFilled ==
  ASSUME IInv, NEW h \in Headers, NEW m \in wire, NEW c \in 0 .. W - 1
  PROVE  LET x == Udp(h, m, Zeros(2))
         IN  /\ x \in Seq(Byte) /\ Len(x) < W /\ Len(x) > 0 /\ 4 \in 1 .. Len(x) \div 2
             /\ Filled(x, 4, c, Udp(h, m, Word(c)))
<1> DEFINE a == Short(h.port + 1) \o Short(h.port) \o Short(UdpLen(m))
           b == DhcpHeader(h, m)
           d == m.options
           x == a \o <<0, 0>> \o b \o d
<1>1. Long(a, 6)
  <2>1. h.port + 1 \in Nat /\ h.port \in Nat /\ UdpLen(m) \in Nat
    BY HeaderTypes, Lengths
  <2>2. Long(Short(h.port + 1), 2) /\ Long(Short(h.port), 2) /\ Long(Short(UdpLen(m)), 2)
    BY <2>1, ShortType, Zenon DEF Long
  <2>3. Long(a, 2 + 2 + 2)
    BY <2>2, Longer, Zenon
  <2>4. 2 + 2 + 2 = 6
    OBVIOUS
  <2> QED
    BY <2>3, <2>4, Zenon
<1>2. b \in Seq(Byte) /\ Len(b) = 240
  BY EndsAre, DhcpHeaderType
<1>3. PICK n \in Nat : n = Len(d) /\ 248 + n < W
  <2>1. d \in Seq(Byte) /\ UdpLen(m) = 248 + Len(m.options) /\ UdpLen(m) < W
    BY Lengths
  <2>2. Len(d) \in Nat
    BY <2>1, LenProperties
  <2> QED
    BY <2>1, <2>2
<1>4. d \in Seq(Byte)
  BY Lengths
<1> HIDE DEF a, b, d
<1>5. PICK k \in Nat : k = 3
  OBVIOUS
<1>6. HeaderFilled(a, b, d, k, c)
  <2>1. a \in Seq(Byte) /\ Len(a) = 2 * k
    BY <1>1, <1>5 DEF Long
  <2> QED
    BY <1>2, <1>4, <2>1, FilledHeader
<1>7. /\ x \in Seq(Byte) /\ Len(x) = Len(a) + 2 + Len(b) + Len(d)
      /\ k + 1 \in 1 .. Len(x) \div 2
      /\ Filled(x, k + 1, c, a \o <<c % 256, c \div 256>> \o b \o d)
  BY <1>6, Zenon DEF HeaderFilled
<1>8. Len(a) + 2 + Len(b) + Len(d) = 248 + n /\ k + 1 = 4 /\ 248 + n > 0
  BY <1>1, <1>2, <1>3, <1>5 DEF Long
<1>9. x = Udp(h, m, Zeros(2)) /\ a \o <<c % 256, c \div 256>> \o b \o d = Udp(h, m, Word(c))
  BY WordIs, Zenon DEF Udp, a, b, d
<1> HIDE DEF x
<1> QED
  BY <1>3, <1>7, <1>8, <1>9, Zenon
-----------------------------------------------------------------------------
\* Both checksums of every message are right for a server unless adding the
\* carries carries again: every step of the run that sends one builds it so.
THEOREM DatagramsSound == ASSUME Ordinary PROVE Spec => []DatagramsAccepted
<1>1. ASSUME IInv PROVE DatagramsAccepted
  <2> DEFINE Right(h, m) ==
        LET d      == Datagram(h, m)
            pseudo == Pseudo(Source(h, m), Destination(h, m), 17, Len(d.udp))
        IN  /\ Accepts(Total(d.ip)) <=> ~CarriesAgain(Summed(IpHeader(h, m, Zeros(2))))
            /\ \/ SubSeq(d.udp, 7, 8) = Zeros(2)
               \/ Accepts(Total(d.udp) + pseudo)
                    <=> ~CarriesAgain(Summed(Udp(h, m, Zeros(2))) + pseudo)
  <2> SUFFICES ASSUME NEW h \in Headers, NEW m \in wire PROVE Right(h, m)
    BY Zenon DEF DatagramsAccepted
  <2> DEFINE s      == Source(h, m)
             t      == Destination(h, m)
             ip     == IpHeader(h, m, Zeros(2))
             udp    == Udp(h, m, Zeros(2))
             check  == ipchksum(ip)
             sum    == l4_sum(udp, s, t, 17)
             pseudo == Pseudo(s, t, 17, Len(udp))
  <2>1. 0 \in 0 .. W - 1
    BY WordRange DEF W
  <2>2. /\ ip \in Seq(Byte) /\ Len(ip) = 20 /\ 6 \in 1 .. Len(ip) \div 2
        /\ udp \in Seq(Byte) /\ Len(udp) < W /\ Len(udp) > 0 /\ 4 \in 1 .. Len(udp) \div 2
    BY <1>1, <2>1, IpFilled, UdpFilled, Zenon
  <2>3. /\ pseudo \in Nat /\ pseudo <= 6 * W
    <3>1. s \in [1 .. 4 -> Byte] /\ t \in [1 .. 4 -> Byte]
      BY <1>1, EndsAre, Zenon DEF Address
    <3>2. PICK p \in Nat : p = 17
      OBVIOUS
    <3>3. PICK n \in Nat : n = Len(udp)
      BY <2>2, LenProperties
    <3>4. Pseudo(s, t, p, n) \in Nat /\ Pseudo(s, t, p, n) <= 6 * W
      BY <3>1, PseudoType
    <3> QED
      BY <3>2, <3>3, <3>4, Zenon
  <2>4. check \in 0 .. W - 1
    BY <2>2, WordsBound, FoldType DEF ipchksum
  <2>5. sum = Complement(Fold(Words(udp) + LastWord(udp) + pseudo))
    BY Zenon DEF l4_sum
  <2>6. sum \in 0 .. W - 1
    <3> HIDE DEF udp, pseudo, sum
    <3>1. Words(udp) \in Nat /\ LastWord(udp) \in Nat
      BY <2>2, WordsBound, LastWordType, Zenon
    <3>2. Words(udp) + LastWord(udp) + pseudo \in Nat
      BY <2>3, <3>1
    <3> QED
      BY <2>5, <3>2, FoldType, Zenon
  <2>7. Filled(ip, 6, check, IpHeader(h, m, Word(check)))
    BY <1>1, <2>4, IpFilled, Zenon
  <2>8. Filled(udp, 4, sum, Udp(h, m, Word(sum)))
    BY <1>1, <2>6, UdpFilled, Zenon
  <2> DEFINE d == Datagram(h, m)
  <2>9. d.ip = IpHeader(h, m, Word(check)) /\ d.udp = Udp(h, m, Word(sum))
    BY DEF Datagram
  <2> HIDE DEF s, t, ip, udp, check, sum, pseudo, d
  <2>10. Accepts(Total(d.ip)) <=> ~CarriesAgain(Summed(ip))
    <3>1. Len(ip) < W /\ ~Odd(ip)
      BY <2>2 DEF W, Odd
    <3>2. Filled(ip, 6, ipchksum(ip), d.ip)
      BY <2>7, <2>9, Zenon DEF check
    <3> QED
      BY <2>2, <3>1, <3>2, HeaderAccepted
  <2>11. Accepts(Total(d.udp) + pseudo) <=> ~CarriesAgain(Summed(udp) + pseudo)
    BY <2>2, <2>3, <2>5, <2>8, <2>9, SumAccepted
  <2>12. Len(d.udp) = Len(udp)
    BY <2>8, <2>9 DEF Filled
  <2> QED
    BY <2>10, <2>11, <2>12, Zenon DEF s, t, ip, udp, pseudo, d
<1> QED
  BY <1>1, Inductive, PTL
=============================================================================
