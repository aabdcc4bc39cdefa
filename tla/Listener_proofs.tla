-------------------------- MODULE Listener_proofs --------------------------
(***************************************************************************)
(* What the replies of the listener are, for any traffic, and which tags   *)
(* it takes for its own.                                                   *)
(***************************************************************************)
EXTENDS Listener, Checksums_proofs

\* A swapped word by its bytes.
LEMMA Swapped ==
  ASSUME NEW hi \in Nat, NEW lo \in Nat, hi < 256, lo < 256
  PROVE  htons(256 * hi + lo) = 256 * lo + hi
<1>1. (256 * hi + lo) % 256 = lo /\ (256 * hi + lo) \div 256 = hi
  BY SMT
<1>2. hi % 256 = hi
  BY SMT
<1> QED
  BY <1>1, <1>2 DEF htons

\* Its low twelve bits.
LEMMA SwappedLow ==
  ASSUME NEW hi \in Nat, NEW lo \in Nat, hi < 256, lo < 256
  PROVE  htons(256 * hi + lo) % 4096 = 256 * (lo % 16) + hi
<1>1. (256 * lo + hi) % 4096 = 256 * (lo % 16) + hi
  BY SMT
<1> QED
  BY <1>1, Swapped

\* The bytes of a tag.
Low(tag)  == tag % 256
High(tag) == tag \div 256

\* Which tags the listener takes for its own VLAN: those whose low byte has the
\* right low half and whose high byte, priority included, is that of the VLAN
\* id, and none at all when the low byte of the VLAN id is 16 or more.
THEOREM TagsTaken ==
  ASSUME NEW vid \in Nat, NEW tag \in Nat, vid < 4096, tag < W
  PROVE  TagMatches(vid, tag) <=> Low(vid) = Low(tag) % 16 /\ High(vid) = High(tag)
<1>1. PICK vh \in Nat, vl \in Nat, th \in Nat, tl \in Nat :
        /\ vh < 16 /\ vl < 256 /\ th < 256 /\ tl < 256
        /\ vh = High(vid) /\ vl = Low(vid) /\ th = High(tag) /\ tl = Low(tag)
        /\ vid = 256 * vh + vl /\ tag = 256 * th + tl
  <2>1. /\ vid \div 256 \in Nat /\ vid \div 256 < 16 /\ vid % 256 \in Nat /\ vid % 256 < 256
        /\ vid = 256 * (vid \div 256) + (vid % 256)
    BY SMT
  <2>2. /\ tag \div 256 \in Nat /\ tag \div 256 < 256 /\ tag % 256 \in Nat /\ tag % 256 < 256
        /\ tag = 256 * (tag \div 256) + (tag % 256)
    BY SMT DEF W
  <2> QED
    BY <2>1, <2>2 DEF Low, High
<1>2. htons(vid) = 256 * vl + vh
  <2>1. vh < 256 /\ vl < 256
    BY <1>1
  <2>2. htons(256 * vh + vl) = 256 * vl + vh
    BY <2>1, Swapped
  <2> QED
    BY <1>1, <2>2
<1>3. htons(tag) % 4096 = 256 * (tl % 16) + th
  <2>1. th < 256 /\ tl < 256
    BY <1>1
  <2>2. htons(256 * th + tl) % 4096 = 256 * (tl % 16) + th
    BY <2>1, SwappedLow
  <2> QED
    BY <1>1, <2>2
<1>4. tl % 16 \in Nat /\ tl % 16 < 16
  BY SMT
<1>5. 256 * vl + vh = 256 * (tl % 16) + th <=> vl = tl % 16 /\ vh = th
  BY <1>1, <1>4, SMT
<1> QED
  BY <1>1, <1>2, <1>3, <1>5 DEF TagMatches
-----------------------------------------------------------------------------
(* The replies *)

\* The buffer at the time of send_packet: cleared, then written for the frame
\* in arp_icmp_packet.
Built ==
    \/ arp_icmp_packet.kind = "arp" /\ arp_icmp_reply = ArpReply(Blank)
    \/ /\ arp_icmp_packet.kind = "icmp" /\ icmp_len = Len(arp_icmp_packet.data)
       /\ arp_icmp_reply = IcmpReply(icmp_len)

IInv ==
    /\ vlan \in Vlans
    /\ pc \in {"check", "arp", "icmp", "send"} => arp_icmp_packet \in Frames
    /\ pc = "arp" => arp_icmp_packet.kind = "arp"
    /\ pc = "icmp" => arp_icmp_packet.kind = "icmp"
    /\ pc \in {"arp", "icmp", "send"} =>
         arp_icmp_packet.daddr = Ip /\ (vlan = 0 <=> arp_icmp_packet.tag = Untagged)
    /\ pc = "send" => Built

\* What is assumed of the traffic: an ARP request alone looks like one.
LEMMA LooksAlike ==
  ASSUME NEW f \in Frames, IsArp(f)
  PROVE  f.kind = "arp"
BY Parameters, Zenon DEF Parameters, IsArp

\* IInv holds on every step: between check_packet and send_packet nothing else
\* touches the two buffers or the length.
THEOREM Inductive == Spec => []IInv
<1>1. Init => IInv
  BY DEF Init, IInv
<1>2. IInv /\ [Next]_vars => IInv'
  <2> SUFFICES ASSUME IInv, [Next]_vars PROVE IInv'
    OBVIOUS
  <2> USE DEF IInv
  <2>1. CASE Listen
    BY <2>1 DEF Listen
  <2>2. CASE Tick
    BY <2>2 DEF Tick
  <2>3. CASE Timeout
    BY <2>3 DEF Timeout
  <2>4. CASE \E f \in Frames : Receive(f)
    BY <2>4 DEF Receive
  <2>5. CASE CheckPacket
    <3>1. pc' = "arp" => IsArp(arp_icmp_packet) /\ arp_icmp_packet.kind = "arp"
      BY <2>5, LooksAlike DEF CheckPacket
    <3> QED
      BY <2>5, <3>1 DEF CheckPacket, IsArp, IsIcmp, Readable
  <2>6. CASE BuildArp
    BY <2>6 DEF BuildArp, Built, ArpReply, Addressed, OwnTag
  <2>7. CASE BuildIcmp
    BY <2>7 DEF BuildIcmp, Built, IcmpReply, Addressed, OwnTag, Body, l2_hdr_size
  <2>8. CASE SendPacket
    BY <2>8 DEF SendPacket
  <2>9. CASE SendFails
    BY <2>9 DEF SendFails
  <2>10. CASE UNCHANGED vars
    <3>1. UNCHANGED <<vlan, arp_icmp_packet, arp_icmp_reply, icmp_len, pc>>
      BY <2>10 DEF vars
    <3>2. ArpReply(Blank)' = ArpReply(Blank)
      BY <3>1 DEF ArpReply, Addressed, OwnTag
    <3>3. IcmpReply(icmp_len)' = IcmpReply(icmp_len)
      BY <3>1 DEF IcmpReply, Addressed, OwnTag, Body, l2_hdr_size
    <3> QED
      BY <3>1, <3>2, <3>3 DEF Built
  <2> QED
    BY <2>1, <2>2, <2>3, <2>4, <2>5, <2>6, <2>7, <2>8, <2>9, <2>10 DEF Next, Program
<1> QED
  BY <1>1, <1>2, PTL DEF Spec

\* Some bytes of a cleared buffer.
LEMMA ClearedBytes ==
  ASSUME NEW m \in Nat, NEW n \in 1 .. m
  PROVE  ToSet(SubSeq(Zeros(m), 1, n)) = {0}
<1> DEFINE z == SubSeq(Zeros(m), 1, n)
<1>1. Zeros(m) \in Seq({0}) /\ Len(Zeros(m)) = m /\ \A i \in 1 .. m : Zeros(m)[i] = 0
  BY DEF Zeros
<1>2. DOMAIN z = 1 .. n /\ \A i \in 1 .. n : z[i] = 0
  BY <1>1
<1>3. 1 \in DOMAIN z /\ z[1] = 0
  BY <1>2
<1>4. ToSet(z) = {z[i] : i \in DOMAIN z}
  BY DEF ToSet
<1> QED
  BY <1>2, <1>3, <1>4

\* The copy of the request's payload, as long as the length in its IP header.
LEMMA CopiedBytes ==
  ASSUME NEW m \in Nat, NEW d \in Seq(Byte), NEW k \in Nat, Len(d) <= m
  PROVE  SubSeq([i \in 1 .. m |-> IF i <= Len(d) THEN (d \o Zeros(k))[i] ELSE 0], 1, Len(d)) = d
<1> DEFINE b == [i \in 1 .. m |-> IF i <= Len(d) THEN (d \o Zeros(k))[i] ELSE 0]
<1>1. Zeros(k) \in Seq({0}) /\ Len(Zeros(k)) = k
  BY DEF Zeros
<1>2. \A i \in 1 .. Len(d) : (d \o Zeros(k))[i] = d[i]
  BY <1>1
<1>3. \A i \in 1 .. Len(d) : b[i] = d[i]
  BY <1>2
<1>4. b \in Seq({b[i] : i \in 1 .. m}) /\ Len(b) = m
  OBVIOUS
<1>5. SubSeq(b, 1, Len(d)) = [i \in 1 .. Len(d) |-> b[i]]
  BY <1>4
<1> QED
  BY <1>3, <1>5

\* Every reply answers the request that is in arp_icmp_packet: no field of an
\* earlier request or reply is left in it, whatever the traffic was.
THEOREM RepliesSound == Spec => RepliesToRequest
<1> DEFINE Step == pc = "send" /\ pc' = "listen" => Answers(sent', arp_icmp_packet)
<1>1. IInv /\ [Next]_vars => Step
  <2> SUFFICES ASSUME IInv, [Next]_vars, pc = "send", pc' = "listen"
               PROVE  Answers(sent', arp_icmp_packet)
    OBVIOUS
  <2> DEFINE f == arp_icmp_packet
             r == arp_icmp_reply
  <2>1. SendPacket
    BY DEF Next, Program, Listen, Tick, Timeout, Receive, CheckPacket, BuildArp, BuildIcmp,
           SendFails, vars
  <2>2. sent' = [r EXCEPT !.body = SubSeq(r.body, 1, BodySent)]
    BY <2>1 DEF SendPacket
  <2>3. f \in Frames /\ f.daddr = Ip /\ Built
    BY DEF IInv
  <2>4. CASE f.kind = "arp" /\ r = ArpReply(Blank)
    <3>1. /\ r.kind = "arp" /\ r.dhost = f.shost /\ r.shost = Mac /\ r.tag = OwnTag
          /\ r.saddr = Ip /\ r.daddr = f.saddr /\ r.smac = Mac /\ r.tmac = f.smac
          /\ r.body = Zeros(BodySize)
      BY <2>4 DEF ArpReply, Addressed, Blank
    <3>2. BodySent \in 1 .. BodySize /\ BodySize \in Nat
      BY <3>1, Parameters DEF BodySent, l2_hdr_size
    <3>3. ToSet(SubSeq(r.body, 1, BodySent)) = {0}
      BY <3>1, <3>2, ClearedBytes
    <3>4. /\ sent'.kind = "arp" /\ sent'.dhost = f.shost /\ sent'.shost = Mac
          /\ sent'.tag = OwnTag /\ sent'.saddr = Ip /\ sent'.daddr = f.saddr
          /\ sent'.smac = Mac /\ sent'.tmac = f.smac
          /\ sent'.body = SubSeq(r.body, 1, BodySent)
      BY <2>2, <2>4 DEF ArpReply, Addressed, Blank
    <3> QED
      BY <2>3, <2>4, <3>3, <3>4 DEF Answers
  <2>5. CASE f.kind = "icmp" /\ icmp_len = Len(f.data) /\ r = IcmpReply(icmp_len)
    <3> DEFINE n == Len(f.data)
    <3>1. BodySent = n
      BY <2>5 DEF BodySent, IcmpReply, Addressed, Blank
    <3>2. r.body = [i \in 1 .. BodySize |-> IF i <= n THEN Body(f)[i] ELSE 0]
      BY <2>5 DEF IcmpReply, Addressed, Blank
    <3>3. /\ f.data \in Seq(Byte) /\ n <= BodySize /\ BodySize \in Nat
          /\ f.size - l2_hdr_size - 28 - n \in Nat
      <4>0. /\ \A g \in Frames :
                 /\ g.data \in Seq(Byte) /\ Len(g.data) <= BodySize /\ g.size \in Nat
                 /\ g.size >= Len(g.data) + 28 + (IF g.tag = Untagged THEN 14 ELSE 18)
            /\ BodySize \in Nat
        BY Parameters, Zenon DEF Parameters
      <4>1. /\ f.data \in Seq(Byte) /\ n <= BodySize /\ BodySize \in Nat /\ f.size \in Nat
        BY <2>3, <4>0, Zenon
      <4>2. n \in Nat
        BY <4>1
      <4>3. f.size >= n + 28 + (IF f.tag = Untagged THEN 14 ELSE 18)
        BY <2>3, <4>0, Zenon
      <4>4. CASE vlan = 0
        <5>1. f.tag = Untagged /\ l2_hdr_size = 14
          BY <4>4 DEF l2_hdr_size, IInv
        <5>2. f.size >= n + 28 + 14
          BY <4>3, <5>1
        <5> QED
          BY <4>1, <4>2, <5>1, <5>2
      <4>5. CASE vlan # 0
        <5>1. f.tag # Untagged /\ l2_hdr_size = 18
          BY <4>5 DEF l2_hdr_size, IInv
        <5>2. f.size >= n + 28 + 18
          BY <4>3, <5>1
        <5> QED
          BY <4>1, <4>2, <5>1, <5>2
      <4> QED
        BY <4>4, <4>5
    <3>4. SubSeq(r.body, 1, n) = f.data
      BY <3>2, <3>3, CopiedBytes DEF Body
    <3>5. /\ sent'.kind = "icmp" /\ sent'.dhost = f.shost /\ sent'.shost = Mac
          /\ sent'.tag = OwnTag
      BY <2>2, <2>5 DEF IcmpReply, Addressed, Blank
    <3>6. /\ sent'.saddr = Ip /\ sent'.daddr = f.saddr
          /\ sent'.id = f.id /\ sent'.seq = f.seq /\ sent'.tot_len = 28 + n
      BY <2>2, <2>5 DEF IcmpReply, Addressed, Blank
    <3>7. sent'.body = SubSeq(r.body, 1, BodySent)
      BY <2>2, <2>5 DEF IcmpReply, Addressed, Blank
    <3> QED
      BY <2>3, <2>5, <3>1, <3>4, <3>5, <3>6, <3>7 DEF Answers
  <2> QED
    BY <2>3, <2>4, <2>5 DEF Built
<1> QED
  BY <1>1, Inductive, PTL DEF Spec, RepliesToRequest
-----------------------------------------------------------------------------
(* Types and checksums *)

\* The first bytes of an IP header, before its checksum.
IpFront(tot) == <<69, Tos>> \o Bytes(htons(tot)) \o <<0, 0, 0, 0, 128, 1>>

LEMMA IpFrontType ==
  ASSUME NEW tot \in Nat
  PROVE  IpFront(tot) \in Seq(Byte) /\ Len(IpFront(tot)) = 2 * 5
<1>1. <<69, Tos>> \in Seq(Byte) /\ Len(<<69, Tos>>) = 2
  <2>1. 69 \in Byte /\ Tos \in Byte
    BY Parameters DEF Byte
  <2> QED
    BY <2>1
<1>2. Bytes(htons(tot)) \in Seq(Byte) /\ Len(Bytes(htons(tot))) = 2
  BY HtonsType, WordInMemory DEF Bytes
<1>3. <<0, 0, 0, 0, 128, 1>> \in Seq(Byte) /\ Len(<<0, 0, 0, 0, 128, 1>>) = 6
  <2>1. 0 \in Byte /\ 1 \in Byte /\ 128 \in Byte
    BY DEF Byte
  <2> QED
    BY <2>1
<1> DEFINE u == <<69, Tos>>
           v == Bytes(htons(tot))
           w == <<0, 0, 0, 0, 128, 1>>
<1>4. IpFront(tot) = u \o v \o w
  BY DEF IpFront
<1> HIDE DEF u, v, w
<1>5. /\ u \in Seq(Byte) /\ v \in Seq(Byte) /\ w \in Seq(Byte)
      /\ Len(u) = 2 /\ Len(v) = 2 /\ Len(w) = 6
  BY <1>1, <1>2, <1>3 DEF u, v, w
<1>6. u \o v \in Seq(Byte) /\ Len(u \o v) = Len(u) + Len(v)
  BY <1>5, Concat, Zenon
<1>7. u \o v \o w \in Seq(Byte) /\ Len(u \o v \o w) = Len(u \o v) + Len(w)
  BY <1>5, <1>6, Concat, Zenon
<1> QED
  BY <1>4, <1>5, <1>6, <1>7

\* The IP header of a reply without its checksum, and with it.
LEMMA IpFilled ==
  ASSUME NEW tot \in Nat, NEW s \in Address, NEW d \in Address, NEW c \in 0 .. W - 1
  PROVE  LET x == IpFront(tot) \o Bytes(0) \o s \o d
         IN  /\ x \in Seq(Byte) /\ Len(x) = 20 /\ 6 \in 1 .. Len(x) \div 2
             /\ Filled(x, 6, c, IpFront(tot) \o Bytes(c) \o s \o d)
<1> DEFINE a == IpFront(tot)
           x == a \o <<0, 0>> \o s \o d
<1>1. a \in Seq(Byte) /\ Len(a) = 2 * 5
  BY IpFrontType
<1>2. s \in Seq(Byte) /\ Len(s) = 4 /\ d \in Seq(Byte) /\ Len(d) = 4
  BY AsSequence DEF Address
<1> HIDE DEF a
<1>3. /\ x \in Seq(Byte) /\ Len(x) = Len(a) + 2 + Len(s) + Len(d)
      /\ 5 + 1 \in 1 .. Len(x) \div 2
      /\ Filled(x, 5 + 1, c, a \o <<c % 256, c \div 256>> \o s \o d)
  <2>1. PICK h \in Nat : h = 5
    OBVIOUS
  <2>2. Len(a) = 2 * h
    BY <1>1, <2>1
  <2>3. HeaderFilled(a, s, d, h, c)
    BY <1>1, <1>2, <2>2, FilledHeader
  <2> QED
    BY <2>1, <2>3, Zenon DEF HeaderFilled
<1>4. Bytes(0) = <<0, 0>> /\ Bytes(c) = <<c % 256, c \div 256>>
  BY WordInMemory, Zenon DEF Bytes
<1>5. Len(a) + 2 + Len(s) + Len(d) = 20 /\ 5 + 1 = 6
  BY <1>1, <1>2
<1> HIDE DEF x
<1>6. x \in Seq(Byte) /\ Len(x) = 20 /\ 6 \in 1 .. Len(x) \div 2
  BY <1>3, <1>5
<1>7. Filled(x, 6, c, a \o <<c % 256, c \div 256>> \o s \o d)
  BY <1>3, <1>5
<1> QED
  BY <1>4, <1>6, <1>7, Zenon DEF x, a

\* The same for an ICMP message.
LEMMA IcmpFilled ==
  ASSUME NEW op \in Byte, NEW id \in Pair, NEW seq \in Pair, NEW body \in Seq(Byte),
         NEW c \in 0 .. W - 1
  PROVE  LET x == <<op, 0>> \o Bytes(0) \o id \o seq \o body
         IN  /\ x \in Seq(Byte) /\ Len(x) = 8 + Len(body) /\ 2 \in 1 .. Len(x) \div 2
             /\ Filled(x, 2, c, <<op, 0>> \o Bytes(c) \o id \o seq \o body)
<1> DEFINE a == <<op, 0>>
           b == id \o seq
           x == a \o <<0, 0>> \o b \o body
<1>1. a \in Seq(Byte) /\ Len(a) = 2 * 1
  <2>1. op \in Byte /\ 0 \in Byte
    BY DEF Byte
  <2> QED
    BY <2>1
<1>2. id \in Seq(Byte) /\ Len(id) = 2 /\ seq \in Seq(Byte) /\ Len(seq) = 2
  BY AsSequence DEF Pair
<1>3. b \in Seq(Byte) /\ Len(b) = 2 + 2
  BY <1>2, Concat, Zenon
<1>4. /\ Bytes(0) = <<0, 0>> /\ Bytes(c) = <<c % 256, c \div 256>>
      /\ Bytes(c) \in Seq(Byte) /\ Bytes(0) \in Seq(Byte)
  <2>1. Bytes(0) = <<0, 0>> /\ Bytes(c) = <<c % 256, c \div 256>> /\ Bytes(c) \in Seq(Byte)
    BY WordInMemory, Zenon DEF Bytes
  <2>2. 0 \in Byte
    BY DEF Byte
  <2>3. <<0, 0>> \in Seq(Byte)
    BY <2>2
  <2> QED
    BY <2>1, <2>3, Zenon
<1> HIDE DEF a
<1>5. ASSUME NEW w \in Seq(Byte) PROVE a \o w \o id \o seq = a \o w \o b
  <2>1. a \o w \in Seq(Byte)
    BY <1>1, Concat, Zenon
  <2> QED
    BY <1>2, <2>1, ConcatRight, Zenon
<1>6. /\ a \o Bytes(0) \o id \o seq = a \o <<0, 0>> \o b
      /\ a \o Bytes(c) \o id \o seq = a \o <<c % 256, c \div 256>> \o b
  BY <1>4, <1>5, Zenon
<1> HIDE DEF b
<1>7. /\ x \in Seq(Byte) /\ Len(x) = Len(a) + 2 + Len(b) + Len(body)
      /\ 1 + 1 \in 1 .. Len(x) \div 2
      /\ Filled(x, 1 + 1, c, a \o <<c % 256, c \div 256>> \o b \o body)
  <2>1. PICK h \in Nat : h = 1
    OBVIOUS
  <2>2. Len(a) = 2 * h
    BY <1>1, <2>1
  <2>3. HeaderFilled(a, b, body, h, c)
    BY <1>1, <1>3, <2>2, FilledHeader
  <2> QED
    BY <2>1, <2>3, Zenon DEF HeaderFilled
<1>8. Len(a) + 2 + Len(b) + Len(body) = 8 + Len(body) /\ 1 + 1 = 2
  BY <1>1, <1>3
<1>9. x = a \o Bytes(0) \o id \o seq \o body
  BY <1>6, Zenon
<1> HIDE DEF x
<1>10. x \in Seq(Byte) /\ Len(x) = 8 + Len(body) /\ 2 \in 1 .. Len(x) \div 2
  BY <1>7, <1>8
<1>11. Filled(x, 2, c, a \o <<c % 256, c \div 256>> \o b \o body)
  BY <1>7, <1>8
<1> QED
  BY <1>6, <1>9, <1>10, <1>11, Zenon DEF a

\* What holds of the frames by assumption.
LEMMA FrameTypes ==
  ASSUME NEW f \in Frames
  PROVE  /\ f.saddr \in Address /\ f.daddr \in Address /\ f.id \in Pair /\ f.seq \in Pair
         /\ f.data \in Seq(Byte) /\ Len(f.data) \in Nat /\ Len(f.data) <= BodySize
         /\ f.size \in Nat
         /\ f.size >= Len(f.data) + 28 + (IF f.tag = Untagged THEN 14 ELSE 18)
         /\ BodySize \in Nat /\ BodySize <= MaxBody /\ Ip \in Address
<1>1. f.data \in Seq(Byte)
  BY Parameters, Zenon DEF Parameters
<1> QED
  BY <1>1, Parameters, Zenon, LenProperties DEF Parameters

\* The body of the reply to f: the data of the request, and the rest clear.
Copied(f, n) == [i \in 1 .. BodySize |-> IF i <= n THEN Body(f)[i] ELSE 0]

LEMMA Payload ==
  ASSUME NEW f \in Frames, vlan = 0 <=> f.tag = Untagged, NEW n, n = Len(f.data)
  PROVE  /\ Copied(f, n) \in Seq(Byte) /\ Len(Copied(f, n)) = BodySize
         /\ SubSeq(Copied(f, n), 1, n) = f.data
<1>1. /\ f.data \in Seq(Byte) /\ n \in Nat /\ n <= BodySize /\ BodySize \in Nat
      /\ f.size \in Nat
      /\ f.size >= n + 28 + (IF f.tag = Untagged THEN 14 ELSE 18)
  BY FrameTypes
<1> DEFINE k == f.size - l2_hdr_size - 28 - n
           body == [i \in 1 .. BodySize |-> IF i <= n THEN Body(f)[i] ELSE 0]
<1>2. k \in Nat
  <2>1. CASE vlan = 0
    <3>1. f.tag = Untagged /\ l2_hdr_size = 14
      BY <2>1 DEF l2_hdr_size
    <3>2. f.size >= n + 28 + 14
      BY <1>1, <3>1
    <3> QED
      BY <1>1, <3>1, <3>2
  <2>2. CASE vlan # 0
    <3>1. f.tag # Untagged /\ l2_hdr_size = 18
      BY <2>2 DEF l2_hdr_size
    <3>2. f.size >= n + 28 + 18
      BY <1>1, <3>1
    <3> QED
      BY <1>1, <3>1, <3>2
  <2> QED
    BY <2>1, <2>2
<1>3. Body(f) = f.data \o Zeros(k)
  BY DEF Body
<1> HIDE DEF k
<1>4. SubSeq(body, 1, n) = f.data
  BY <1>1, <1>2, <1>3, CopiedBytes
<1>5. ASSUME NEW i \in 1 .. BodySize PROVE (IF i <= n THEN Body(f)[i] ELSE 0) \in Byte
  <2>1. 0 \in Byte
    BY DEF Byte
  <2>2. CASE i <= n
    <3>1. Zeros(k) \in Seq({0}) /\ Len(Zeros(k)) = k /\ i \in 1 .. Len(f.data)
      BY <1>1, <1>2, <2>2 DEF Zeros
    <3>2. (f.data \o Zeros(k))[i] = f.data[i]
      BY <1>1, <1>2, <3>1
    <3> QED
      BY <1>1, <1>3, <2>2, <3>1, <3>2
  <2> QED
    BY <2>1, <2>2
<1>6. body \in [1 .. BodySize -> Byte]
  BY <1>5
<1>7. body \in Seq(Byte) /\ Len(body) = BodySize
  <2> HIDE DEF body
  <2> QED
    BY <1>1, <1>6, AsSequence
<1> QED
  BY <1>4, <1>7, Zenon DEF Copied

\* The echo reply to f: its fields, and its checksums, each right for the bytes
\* around it.
LEMMA EchoReply ==
  ASSUME NEW f \in Frames, arp_icmp_packet = f, vlan = 0 <=> f.tag = Untagged,
         NEW n, n = Len(f.data), NEW r, r = IcmpReply(n)
  PROVE  /\ r.kind = "icmp" /\ r.op = 0 /\ r.tot_len = 28 + n
         /\ r.saddr = Ip /\ r.daddr = f.saddr /\ r.id = f.id /\ r.seq = f.seq
         /\ Len(r.body) = BodySize /\ SubSeq(r.body, 1, n) = f.data
         /\ r.check = ipchksum(IpFront(28 + n) \o Bytes(0) \o Ip \o f.saddr)
         /\ r.sum = icmpchksum(<<0, 0>> \o Bytes(0) \o f.id \o f.seq \o f.data)
         /\ r.check \in 0 .. W - 1 /\ r.sum \in 0 .. W - 1
<1> DEFINE body == Copied(f, n)
           q == [Addressed(Blank) EXCEPT
                   !.kind = "icmp", !.op = ICMP_ECHOREPLY, !.saddr = Ip, !.daddr = f.saddr,
                   !.id = f.id, !.seq = f.seq, !.tot_len = 28 + n, !.body = body]
<1>1. body \in Seq(Byte) /\ Len(body) = BodySize /\ SubSeq(body, 1, n) = f.data
  BY Payload
<1> HIDE DEF body
<1>2. r = [q EXCEPT !.check = ipchksum(IpHeader(q)), !.sum = icmpchksum(Icmp(q, n))]
  BY DEF IcmpReply, Copied, body
<1>3. /\ q.kind = "icmp" /\ q.op = 0 /\ q.tot_len = 28 + n /\ q.saddr = Ip
      /\ q.daddr = f.saddr /\ q.id = f.id /\ q.seq = f.seq /\ q.body = body
      /\ q.check = 0 /\ q.sum = 0
  BY DEF Addressed, Blank, ICMP_ECHOREPLY
<1>4. /\ r.kind = "icmp" /\ r.op = 0 /\ r.tot_len = 28 + n /\ r.saddr = Ip
      /\ r.daddr = f.saddr /\ r.id = f.id /\ r.seq = f.seq /\ r.body = body
      /\ r.check = ipchksum(IpHeader(q)) /\ r.sum = icmpchksum(Icmp(q, n))
  BY <1>2 DEF Addressed, Blank, ICMP_ECHOREPLY
<1> HIDE DEF q
<1>5. IpHeader(q) = IpFront(28 + n) \o Bytes(0) \o Ip \o f.saddr
  BY <1>3 DEF IpHeader, IpFront
<1>6. Icmp(q, n) = <<0, 0>> \o Bytes(0) \o f.id \o f.seq \o f.data
  BY <1>1, <1>3 DEF Icmp
<1>7. /\ f.data \in Seq(Byte) /\ n \in Nat /\ Ip \in Address /\ f.saddr \in Address
      /\ f.id \in Pair /\ f.seq \in Pair
  BY FrameTypes
<1>8. r.check \in 0 .. W - 1
  <2>1. IpFront(28 + n) \o Bytes(0) \o Ip \o f.saddr \in Seq(Byte)
    <3>1. 0 \in 0 .. W - 1
      BY WordRange DEF W
    <3>2. 28 + n \in Nat
      BY <1>7
    <3> QED
      BY <1>7, <3>1, <3>2, IpFilled
  <2> QED
    BY <1>4, <1>5, <2>1, WordsBound, FoldType DEF ipchksum
<1>9. r.sum \in 0 .. W - 1
  <2> DEFINE x == <<0, 0>> \o Bytes(0) \o f.id \o f.seq \o f.data
  <2>1. x \in Seq(Byte) /\ Len(x) = 8 + Len(f.data)
    <3>1. 0 \in 0 .. W - 1 /\ 0 \in Byte
      BY WordRange DEF W, Byte
    <3> QED
      BY <1>7, <3>1, IcmpFilled
  <2> HIDE DEF x
  <2>2. LastWord(x) \in Nat
    BY <2>1, LastWordType
  <2>3. Words(x) + LastWord(x) \in Nat
    BY <2>1, <2>2, WordsBound
  <2>4. icmpchksum(x) \in 0 .. W - 1
    BY <2>3, FoldType DEF icmpchksum
  <2> QED
    BY <1>4, <1>6, <2>4 DEF x
<1> QED
  BY <1>1, <1>4, <1>5, <1>6, <1>8, <1>9

\* A receiver of both headers with the checksums of r.
LEMMA EchoAccepted ==
  ASSUME NEW f \in Frames, arp_icmp_packet = f, vlan = 0 <=> f.tag = Untagged,
         NEW n, n = Len(f.data), NEW r, r = IcmpReply(n)
  PROVE  /\ Accepts(Total(<<0, 0>> \o Bytes(r.sum) \o f.id \o f.seq \o f.data))
              <=> ~CarriesAgain(Summed(<<0, 0>> \o Bytes(0) \o f.id \o f.seq \o f.data))
         /\ Accepts(Total(IpFront(28 + n) \o Bytes(r.check) \o Ip \o f.saddr))
              <=> ~CarriesAgain(Summed(IpFront(28 + n) \o Bytes(0) \o Ip \o f.saddr))
<1> DEFINE icmp == <<0, 0>> \o Bytes(0) \o f.id \o f.seq \o f.data
           ip   == IpFront(28 + n) \o Bytes(0) \o Ip \o f.saddr
           sentIcmp == <<0, 0>> \o Bytes(r.sum) \o f.id \o f.seq \o f.data
           sentIp   == IpFront(28 + n) \o Bytes(r.check) \o Ip \o f.saddr
<1>1. /\ f.data \in Seq(Byte) /\ n \in Nat /\ n <= BodySize /\ Ip \in Address
      /\ f.saddr \in Address /\ f.id \in Pair /\ f.seq \in Pair
      /\ BodySize \in Nat /\ BodySize <= MaxBody
  BY FrameTypes
<1>2. /\ r.check = ipchksum(ip) /\ r.sum = icmpchksum(icmp)
      /\ r.check \in 0 .. W - 1 /\ r.sum \in 0 .. W - 1
  BY EchoReply
<1>3. /\ icmp \in Seq(Byte) /\ Len(icmp) = 8 + n /\ 2 \in 1 .. Len(icmp) \div 2
      /\ Filled(icmp, 2, r.sum, sentIcmp)
  <2>1. 0 \in Byte
    BY DEF Byte
  <2>2. f.id \in Pair /\ f.seq \in Pair /\ f.data \in Seq(Byte) /\ r.sum \in 0 .. W - 1
    BY <1>1, <1>2
  <2>3. LET x == <<0, 0>> \o Bytes(0) \o f.id \o f.seq \o f.data
        IN  /\ x \in Seq(Byte) /\ Len(x) = 8 + Len(f.data) /\ 2 \in 1 .. Len(x) \div 2
            /\ Filled(x, 2, r.sum, <<0, 0>> \o Bytes(r.sum) \o f.id \o f.seq \o f.data)
    BY ONLY <2>1, <2>2, IcmpFilled
  <2> QED
    BY <2>3
<1>4. /\ ip \in Seq(Byte) /\ Len(ip) = 20 /\ 6 \in 1 .. Len(ip) \div 2
      /\ Filled(ip, 6, r.check, sentIp)
  <2>1. 28 + n \in Nat
    BY <1>1
  <2> QED
    BY <1>1, <1>2, <2>1, IpFilled
<1> HIDE DEF icmp, ip, sentIcmp, sentIp
<1>5. Accepts(Total(sentIcmp)) <=> ~CarriesAgain(Summed(icmp))
  <2>1. Len(icmp) < W /\ Len(icmp) > 0
    BY <1>1, <1>3 DEF W, MaxBody
  <2> QED
    BY <1>2, <1>3, <2>1, IcmpAccepted
<1>6. Accepts(Total(sentIp)) <=> ~CarriesAgain(Summed(ip))
  <2>1. Len(ip) < W /\ ~Odd(ip)
    BY <1>4 DEF W, Odd
  <2> QED
    BY <1>2, <1>4, <2>1, HeaderAccepted
<1> QED
  BY <1>5, <1>6 DEF icmp, ip, sentIcmp, sentIp

LEMMA SendAccepted ==
  ASSUME IInv, SendPacket
  PROVE  RepliesAccepted'
<1> DEFINE f == arp_icmp_packet
           r == arp_icmp_reply
<1>1. /\ f \in Frames /\ (vlan = 0 <=> f.tag = Untagged) /\ Built
      /\ sent' = [r EXCEPT !.body = SubSeq(r.body, 1, BodySent)]
  BY DEF IInv, SendPacket
<1>2. CASE r = ArpReply(Blank)
  <2>1. sent'.kind = "arp"
    BY <1>1, <1>2 DEF ArpReply, Addressed, Blank
  <2> QED
    BY <2>1 DEF RepliesAccepted
<1>3. CASE icmp_len = Len(f.data) /\ r = IcmpReply(icmp_len)
  <2> DEFINE n == Len(f.data)
             t == sent'
             noSum == [t EXCEPT !.sum = 0]
             noCheck == [t EXCEPT !.check = 0]
  <2>1. /\ r.kind = "icmp" /\ r.op = 0 /\ r.tot_len = 28 + n
        /\ r.saddr = Ip /\ r.daddr = f.saddr /\ r.id = f.id /\ r.seq = f.seq
        /\ SubSeq(r.body, 1, n) = f.data
    BY <1>1, <1>3, EchoReply
  <2>2. BodySent = n
    BY <1>3, <2>1 DEF BodySent
  <2>3. t = [r EXCEPT !.body = f.data]
    BY <1>1, <2>1, <2>2
  <2> DEFINE fields == {"op", "id", "seq", "body", "sum", "tot_len", "saddr", "daddr", "check"}
  <2>a. fields \subseteq DOMAIN r
    BY <1>3 DEF IcmpReply, Addressed, Blank
  <2> HIDE DEF t
  <2>b. /\ \A a \in fields : a \in DOMAIN t /\ (a # "body" => t[a] = r[a])
        /\ t["body"] = f.data
    BY <2>3, <2>a
  <2>4. /\ t.op = r.op /\ t.id = r.id /\ t.seq = r.seq /\ t.body = f.data /\ t.sum = r.sum
        /\ t.tot_len = r.tot_len /\ t.saddr = r.saddr /\ t.daddr = r.daddr
        /\ t.check = r.check
    BY <2>b
  <2>5. /\ noSum.op = r.op /\ noSum.id = r.id /\ noSum.seq = r.seq /\ noSum.body = f.data
        /\ noSum.sum = 0
    BY <2>b
  <2>6. /\ noCheck.tot_len = r.tot_len /\ noCheck.saddr = r.saddr
        /\ noCheck.daddr = r.daddr /\ noCheck.check = 0
    BY <2>b
  <2> HIDE DEF noSum, noCheck
  <2>7. SubSeq(f.data, 1, n) = f.data
    BY <1>1, FrameTypes, SubSeqFull
  <2>8. /\ Icmp(t, n) = <<0, 0>> \o Bytes(r.sum) \o f.id \o f.seq \o f.data
        /\ Icmp(noSum, n) = <<0, 0>> \o Bytes(0) \o f.id \o f.seq \o f.data
    BY <2>1, <2>4, <2>5, <2>7 DEF Icmp
  <2>9. /\ IpHeader(t) = IpFront(28 + n) \o Bytes(r.check) \o Ip \o f.saddr
        /\ IpHeader(noCheck) = IpFront(28 + n) \o Bytes(0) \o Ip \o f.saddr
    BY <2>1, <2>4, <2>6 DEF IpHeader, IpFront
  <2>10. /\ Accepts(Total(Icmp(t, n))) <=> ~CarriesAgain(Summed(Icmp(noSum, n)))
         /\ Accepts(Total(IpHeader(t))) <=> ~CarriesAgain(Summed(IpHeader(noCheck)))
    BY <1>1, <1>3, <2>8, <2>9, EchoAccepted
  <2>11. Len(t.body) = n
    BY <2>4
  <2> QED
    BY <2>10, <2>11 DEF RepliesAccepted, t, noSum, noCheck
<1> QED
  BY <1>1, <1>2, <1>3 DEF Built

LEMMA ClearType ==
  /\ Zeros(BodySize) \in Seq({0}) /\ Len(Zeros(BodySize)) = BodySize
  /\ 0 \in 0 .. W - 1
<1>1. BodySize \in Nat
  BY Parameters DEF Parameters
<1>2. Zeros(BodySize) \in [1 .. BodySize -> {0}]
  BY DEF Zeros
<1>3. 0 \in 0 .. W - 1
  BY WordRange DEF W
<1> QED
  BY <1>1, <1>2, <1>3, AsSequence

\* The types: the buffer is as long as the reply of the largest request, the
\* length of the answer never more than that, and the checksums are words.
LEMMA TypeInv == IInv /\ TypeOK /\ [Next]_vars => TypeOK'
<1> SUFFICES ASSUME IInv, TypeOK, [Next]_vars PROVE TypeOK'
  OBVIOUS
<1> DEFINE Reply(r) == Len(r.body) = BodySize /\ r.sum \in 0 .. W - 1 /\ r.check \in 0 .. W - 1
<1>1. CASE Listen \/ Tick \/ Timeout \/ CheckPacket \/ SendPacket \/ SendFails
  BY <1>1 DEF Listen, Tick, Timeout, CheckPacket, SendPacket, SendFails, TypeOK
<1>2. CASE \E f \in Frames : Receive(f)
  BY <1>2 DEF Receive, TypeOK
<1>3. CASE BuildArp
  <2>1. arp_icmp_reply' = ArpReply(Blank)
    BY <1>3 DEF BuildArp
  <2>2. /\ arp_icmp_reply'.body = Zeros(BodySize) /\ arp_icmp_reply'.sum = 0
        /\ arp_icmp_reply'.check = 0
    BY <2>1 DEF ArpReply, Addressed, Blank
  <2>3. Reply(arp_icmp_reply')
    BY <2>2, ClearType
  <2> QED
    BY <1>3, <2>3 DEF BuildArp, TypeOK
<1>4. CASE BuildIcmp
  <2> DEFINE f == arp_icmp_packet
             n == Len(f.data)
  <2>1. /\ f \in Frames /\ (vlan = 0 <=> f.tag = Untagged)
        /\ arp_icmp_reply' = IcmpReply(n) /\ icmp_len' = n
    BY <1>4 DEF BuildIcmp, IInv
  <2>2. Reply(arp_icmp_reply')
    BY <2>1, EchoReply
  <2>3. n \in 0 .. BodySize
    <3>1. n \in Nat /\ n <= BodySize /\ BodySize \in Nat
      BY <2>1, FrameTypes
    <3> QED
      BY <3>1
  <2> QED
    BY <1>4, <2>1, <2>2, <2>3 DEF BuildIcmp, TypeOK
<1>5. CASE UNCHANGED vars
  BY <1>5 DEF vars, TypeOK
<1> QED
  BY <1>1, <1>2, <1>3, <1>4, <1>5 DEF Next, Program

LEMMA TypeInit == Init => TypeOK
<1> SUFFICES ASSUME Init PROVE TypeOK
  OBVIOUS
<1>1. \A t \in Timeouts : t \in Nat
  BY Parameters DEF Parameters
<1>2. vlan \in Vlans /\ tval_listen \in Nat
  BY <1>1 DEF Init
<1>3. /\ arp_icmp_reply.body = Zeros(BodySize) /\ arp_icmp_reply.sum = 0
      /\ arp_icmp_reply.check = 0
  BY DEF Init, Blank
<1>4. icmp_len \in 0 .. BodySize
  BY Parameters DEF Init, Parameters
<1> QED
  BY <1>2, <1>3, <1>4, ClearType DEF Init, TypeOK

\* Every variable keeps its type, whatever is received.
THEOREM TypeCorrect == Spec => []TypeOK
  BY Inductive, TypeInit, TypeInv, PTL DEF Spec

\* Whatever was received and answered before, a receiver accepts a reply's two
\* checksums unless folding carries again, for data of any length that fits.
THEOREM RepliesAcceptedSound == Spec => []RepliesAccepted
<1>1. Init => RepliesAccepted
  BY DEF Init, Blank, RepliesAccepted
<1>2. IInv /\ RepliesAccepted /\ [Next]_vars => RepliesAccepted'
  <2> SUFFICES ASSUME IInv, RepliesAccepted, [Next]_vars PROVE RepliesAccepted'
    OBVIOUS
  <2>1. CASE SendPacket
    BY <2>1, SendAccepted
  <2>2. CASE sent' = sent
    BY <2>2 DEF RepliesAccepted, Icmp, IpHeader
  <2>3. SendPacket \/ sent' = sent
    BY DEF Next, Program, Listen, Tick, Timeout, Receive, CheckPacket, BuildArp, BuildIcmp,
           SendFails, vars
  <2> QED
    BY <2>1, <2>2, <2>3
<1> QED
  BY Inductive, <1>1, <1>2, PTL DEF Spec
-----------------------------------------------------------------------------
(* Which requests are recognised *)

\* A VLAN id whose low byte is above 15 is out of reach of VLAN_VIDMASK.
Reachable(vid) == Low(vid) < 16

\* Tags the comparison is right for: no priority, and a low byte up to 15.
Plain(tag) == tag = Untagged \/ (tag < 4096 /\ Low(tag) < 16)

LEMMA TagsAgree ==
  ASSUME NEW vid \in VlanIds, NEW tag \in Tags, tag # Untagged,
         Reachable(vid), Plain(tag)
  PROVE  TagMatches(vid, tag) <=> tag % 4096 = vid
<1>1. vid \in Nat /\ vid < 4096
  BY DEF VlanIds
<1>2. tag \in Nat /\ tag < 4096 /\ tag % 4096 = tag
  <2>1. \A n \in Tags : n \in Nat
    <3>1. W \in Nat
      BY DEF W
    <3> QED
      BY <3>1 DEF Tags
  <2>2. tag \in Nat /\ tag < 4096
    BY <2>1 DEF Plain
  <2> QED
    BY <2>2
<1>3. TagMatches(vid, tag) <=> Low(vid) = Low(tag) % 16 /\ High(vid) = High(tag)
  <2>1. tag < W
    BY <1>2 DEF W
  <2> QED
    BY <1>1, <1>2, <2>1, TagsTaken
<1>4. Low(tag) % 16 = Low(tag)
  <2>1. Low(tag) \in Nat /\ Low(tag) < 16
    BY <1>2 DEF Plain, Low
  <2> QED
    BY <2>1
<1>5. Low(vid) = Low(tag) /\ High(vid) = High(tag) <=> tag = vid
  <2>1. /\ vid = 256 * (vid \div 256) + (vid % 256)
        /\ tag = 256 * (tag \div 256) + (tag % 256)
    BY <1>1, <1>2, SMT
  <2> QED
    BY <2>1 DEF Low, High
<1> QED
  BY <1>2, <1>3, <1>4, <1>5

\* Where no tag has a priority and neither a VLAN id nor a tag a low byte above
\* 15, check_packet takes the requests for this client and nothing else.
THEOREM RequestsSound ==
  ASSUME \A vid \in Vlans : Reachable(vid), \A f \in Frames : Plain(f.tag)
  PROVE  Spec => RequestsRecognised
<1> DEFINE Step == pc = "check" => (pc' \in {"arp", "icmp"} <=> ForMe(arp_icmp_packet))
<1>1. IInv /\ [Next]_vars => Step \/ UNCHANGED vars
  <2> SUFFICES ASSUME IInv, Next, pc = "check"
               PROVE  pc' \in {"arp", "icmp"} <=> ForMe(arp_icmp_packet)
    OBVIOUS
  <2> DEFINE f == arp_icmp_packet
  <2>1. CheckPacket /\ f \in Frames /\ vlan \in Vlans
    BY DEF IInv, Next, Program, Listen, Tick, Timeout, Receive, BuildArp, BuildIcmp,
           SendPacket, SendFails
  <2>2. vlan \in VlanIds /\ f.tag \in Tags /\ f.size \in Nat
    BY <2>1, Parameters, FrameTypes, Zenon DEF Parameters
  <2>3. Reachable(vlan) /\ Plain(f.tag)
    BY <2>1
  <2>4. Readable(f) <=> IF vlan = 0 THEN f.tag = Untagged
                        ELSE f.tag # Untagged /\ f.tag % 4096 = vlan
    BY <2>2, <2>3, TagsAgree DEF Readable
  <2>5. pc' \in {"arp", "icmp"} <=> ~(f.size < 60) /\ (IsArp(f) \/ IsIcmp(f))
    BY <2>1 DEF CheckPacket
  <2>6. ~(f.size < 60) <=> f.size >= 60
    BY <2>2
  <2>7. IsArp(f) \/ IsIcmp(f) <=>
          /\ Readable(f) /\ f.daddr = Ip
          /\ <<f.kind, f.op>> \in {<<"arp", ARPOP_REQUEST>>, <<"icmp", ICMP_ECHO>>}
    BY <2>1, LooksAlike DEF IsArp, IsIcmp
  <2> QED
    BY <2>4, <2>5, <2>6, <2>7 DEF ForMe
<1> QED
  BY <1>1, Inductive, PTL DEF Spec, RequestsRecognised
=============================================================================
