------------------------------ MODULE Listener ------------------------------
(***************************************************************************)
(* dhtest -b: after the lease is logged, main answers ARP requests and     *)
(* ICMP echo requests for the acquired address until the listen window is  *)
(* over.  Time passes in half seconds, and only while select waits.        *)
(*                                                                         *)
(* The payload of a frame is a head of 28 bytes (an ARP packet, or the IP  *)
(* and the ICMP header) and a body behind it.  The fields of the head are  *)
(* fields of a record, the body is bytes.                                  *)
(***************************************************************************)
EXTENDS Checksums, SequencesExt

CONSTANTS
    Vlans,     \* values of -v; 0 stands for none
    Timeouts,  \* values of -k, in seconds
    Tos,       \* value of -t
    Frames,    \* frames that arrive
    Mac,       \* dhmac, the address of -m
    Ip,        \* the acquired address
    BodySize   \* bytes behind the head in arp_icmp_reply

VlanIds  == 0 .. 4095
Untagged == W
Tags     == 0 .. W
Address  == [1 .. 4 -> Byte]
Pair     == [1 .. 2 -> Byte]

ARPOP_REQUEST  == 1
ARPOP_REPLY    == 2
ICMP_ECHO      == 8
ICMP_ECHOREPLY == 0

\* arp_icmp_reply has 1514 bytes, 42 of them before the body of an untagged frame.
MaxBody == 1514 - 42

\* In a frame "arp", op is the operation, saddr the sender's and daddr the
\* target's address; in a frame "icmp" they are the type and the addresses of
\* the IP header, and data is what that header's length covers; in a frame
\* "other" they are what lies where an ARP packet has them.
\* check_packet looks at the ether type of a ping but not of an ARP request, and
\* build_packet takes the length of an echo request from its IP header. It is
\* assumed of the traffic that nothing but an ARP request looks like one, and
\* that an echo request arrives whole and fits in the reply.
ASSUME Parameters ==
    /\ Vlans \subseteq VlanIds /\ Timeouts \subseteq Nat
    /\ Tos \in Byte /\ Ip \in Address
    /\ BodySize \in Nat /\ BodySize >= 18 /\ BodySize <= MaxBody
    /\ \A f \in Frames :
         /\ f.kind \in {"arp", "icmp", "other"} /\ f.tag \in Tags /\ f.op \in Nat
         /\ f.saddr \in Address /\ f.daddr \in Address
         /\ f.id \in Pair /\ f.seq \in Pair
         /\ f.data \in Seq(Byte) /\ Len(f.data) <= BodySize
         /\ f.kind = "other" => f.op # ARPOP_REQUEST \/ f.daddr # Ip
         /\ f.size \in Nat /\ f.size >= Len(f.data) + 28 + (IF f.tag = Untagged THEN 14 ELSE 18)

VARIABLES
    vlan,            \* of the command line
    tval_listen,     \* half seconds left of the window
    arp_icmp_packet, \* the frame received last
    arp_icmp_reply,  \* the reply built last
    icmp_len,
    pc,              \* where main and recv_packet are
    sent             \* the reply sent last

vars == <<vlan, tval_listen, arp_icmp_packet, arp_icmp_reply, icmp_len, pc, sent>>

l2_hdr_size == IF vlan = 0 THEN 14 ELSE 18
Zeros(n)    == [i \in 1 .. n |-> 0]
NoAddress   == Zeros(4)
NoFrame     == [kind |-> "none"]

\* bzero(arp_icmp_reply)
Blank == [kind |-> "none", dhost |-> "none", shost |-> "none", tag |-> Untagged, op |-> 0,
          smac |-> "none", saddr |-> NoAddress, tmac |-> "none", daddr |-> NoAddress,
          id |-> Zeros(2), seq |-> Zeros(2), tot_len |-> 0, check |-> 0, sum |-> 0,
          body |-> Zeros(BodySize)]

Init ==
    /\ vlan \in Vlans
    /\ tval_listen \in {2 * t : t \in Timeouts}
    /\ arp_icmp_packet = NoFrame
    /\ arp_icmp_reply = Blank
    /\ icmp_len = 0
    /\ pc = "listen"
    /\ sent = Blank
-----------------------------------------------------------------------------
(* recv_packet(ARP_ICMP_RCV) *)

\* Mutant of Listen: every call starts a new window.
ListenAgain ==
    /\ pc = "listen"
    /\ pc' = IF tval_listen >= 2 THEN "select" ELSE "done"
    /\ tval_listen' = IF tval_listen >= 2 THEN 4 ELSE tval_listen
    /\ UNCHANGED <<vlan, arp_icmp_packet, arp_icmp_reply, icmp_len, sent>>

\* while(tval_listen.tv_sec != 0), on a call and after a frame that is none of ours.
Listen ==
    /\ pc = "listen"
    /\ pc' = IF tval_listen >= 2 THEN "select" ELSE "done"
    /\ UNCHANGED <<vlan, tval_listen, arp_icmp_packet, arp_icmp_reply, icmp_len, sent>>

\* select counts the time it waits down in its argument.
Tick ==
    /\ pc = "select" /\ tval_listen > 0
    /\ tval_listen' = tval_listen - 1
    /\ UNCHANGED <<vlan, arp_icmp_packet, arp_icmp_reply, icmp_len, pc, sent>>

Timeout ==
    /\ pc = "select" /\ tval_listen = 0
    /\ pc' = "done"
    /\ UNCHANGED <<vlan, tval_listen, arp_icmp_packet, arp_icmp_reply, icmp_len, sent>>

Receive(f) ==
    /\ pc = "select"
    /\ arp_icmp_packet' = f
    /\ pc' = "check"
    /\ UNCHANGED <<vlan, tval_listen, arp_icmp_reply, icmp_len, sent>>
-----------------------------------------------------------------------------
(* check_packet(ARP_ICMP_RCV) *)

\* The tag's word is compared as it lies in memory: its bytes are swapped on a
\* little-endian machine, and VLAN_VIDMASK takes the low twelve bits of that.
TagMatches(vid, tag) == htons(vid) = htons(tag) % 4096

\* With -v the word behind the addresses and the type is compared, whether the
\* type says that it is a tag or not; without -v it is where the payload begins.
\* Frames hold none laid out in the one way that reads as a request in the other.
Readable(f) ==
    IF vlan = 0 THEN f.tag = Untagged
    ELSE f.tag # Untagged /\ TagMatches(vlan, f.tag)

\* The ether type is not among what tells an ARP request.
IsArp(f) ==
    f.kind \in {"arp", "other"} /\ Readable(f) /\ f.op = ARPOP_REQUEST /\ f.daddr = Ip

\* Mutant of IsIcmp: replies to this address are answered too.
IsIcmpAny(f) == f.kind = "icmp" /\ Readable(f) /\ f.daddr = Ip
IsIcmp(f) == f.kind = "icmp" /\ Readable(f) /\ f.op = ICMP_ECHO /\ f.daddr = Ip

CheckPacket ==
    /\ pc = "check"
    /\ pc' = IF arp_icmp_packet.size < 60 THEN "listen"
             ELSE IF IsArp(arp_icmp_packet) THEN "arp"
             ELSE IF IsIcmp(arp_icmp_packet) THEN "icmp"
             ELSE "listen"
    /\ UNCHANGED <<vlan, tval_listen, arp_icmp_packet, arp_icmp_reply, icmp_len, sent>>
-----------------------------------------------------------------------------
(* build_packet and send_packet *)

OwnTag == IF vlan = 0 THEN Untagged ELSE vlan

\* The Ethernet header, written into a buffer.
Addressed(buffer) ==
    [buffer EXCEPT !.dhost = arp_icmp_packet.shost, !.shost = Mac,
                   !.tag = OwnTag]

ArpReply(buffer) ==
    [Addressed(buffer) EXCEPT
        !.kind = "arp", !.op = ARPOP_REPLY, !.smac = Mac, !.saddr = Ip,
        !.tmac = arp_icmp_packet.smac, !.daddr = arp_icmp_packet.saddr]

\* Mutant of BuildArp: the buffer still holds the reply before.
BuildArpUncleared ==
    /\ pc = "arp"
    /\ arp_icmp_reply' = ArpReply(arp_icmp_reply)
    /\ pc' = "send"
    /\ UNCHANGED <<vlan, tval_listen, arp_icmp_packet, icmp_len, sent>>

BuildArp ==
    /\ pc = "arp"
    /\ arp_icmp_reply' = ArpReply(Blank)
    /\ pc' = "send"
    /\ UNCHANGED <<vlan, tval_listen, arp_icmp_packet, icmp_len, sent>>

\* Bytes of the headers; words lie in memory with the low byte first.
Bytes(word) == <<word % 256, word \div 256>>
IpHeader(r) == <<69, Tos>> \o Bytes(htons(r.tot_len)) \o <<0, 0, 0, 0, 128, 1>>
                 \o Bytes(r.check) \o r.saddr \o r.daddr
Icmp(r, n)  == <<r.op, 0>> \o Bytes(r.sum) \o r.id \o r.seq \o SubSeq(r.body, 1, n)

\* What follows the head in a frame received: the data and Ethernet's padding.
Body(f) == f.data \o Zeros(f.size - l2_hdr_size - 28 - Len(f.data))

\* The request's id, sequence number and data with both checksums; the IP header's
\* is taken first, and icmp_len is set before what depends on it.
IcmpReply(n) ==
    LET f == arp_icmp_packet
        r == [Addressed(Blank) EXCEPT
                !.kind = "icmp", !.op = ICMP_ECHOREPLY, !.saddr = Ip, !.daddr = f.saddr,
                !.id = f.id, !.seq = f.seq, !.tot_len = 28 + n,
                !.body = [i \in 1 .. BodySize |-> IF i <= n THEN Body(f)[i] ELSE 0]]
    IN  [r EXCEPT !.check = ipchksum(IpHeader(r)), !.sum = icmpchksum(Icmp(r, n))]

\* Mutant of BuildIcmp: the length of the request before.
BuildIcmpStale ==
    /\ pc = "icmp"
    /\ icmp_len' = Len(arp_icmp_packet.data)
    /\ arp_icmp_reply' = IcmpReply(icmp_len)
    /\ pc' = "send"
    /\ UNCHANGED <<vlan, tval_listen, arp_icmp_packet, sent>>

BuildIcmp ==
    /\ pc = "icmp"
    /\ icmp_len' = Len(arp_icmp_packet.data)
    /\ arp_icmp_reply' = IcmpReply(Len(arp_icmp_packet.data))
    /\ pc' = "send"
    /\ UNCHANGED <<vlan, tval_listen, arp_icmp_packet, sent>>

\* An ARP reply is sent with 60 bytes, an echo reply with its own length.
BodySent == IF arp_icmp_reply.kind = "arp" THEN 60 - l2_hdr_size - 28 ELSE icmp_len

SendPacket ==
    /\ pc = "send"
    /\ sent' = [arp_icmp_reply EXCEPT !.body = SubSeq(arp_icmp_reply.body, 1, BodySent)]
    /\ pc' = "listen"
    /\ UNCHANGED <<vlan, tval_listen, arp_icmp_packet, arp_icmp_reply, icmp_len>>

\* sendto fails: the program is over.
SendFails ==
    /\ pc = "send"
    /\ pc' = "exit"
    /\ UNCHANGED <<vlan, tval_listen, arp_icmp_packet, arp_icmp_reply, icmp_len, sent>>
-----------------------------------------------------------------------------
Program == Listen \/ Timeout \/ CheckPacket \/ BuildArp \/ BuildIcmp \/ SendPacket \/ SendFails

Next == Program \/ Tick \/ (\E f \in Frames : Receive(f))

\* The program is scheduled, and the segment is not saturated: again and again
\* select has to wait.
Spec == Init /\ [][Next]_vars /\ WF_vars(Program) /\ SF_vars(Tick)
-----------------------------------------------------------------------------
(* Properties *)

TypeOK ==
    /\ vlan \in Vlans /\ tval_listen \in Nat
    /\ arp_icmp_packet \in Frames \cup {NoFrame}
    /\ icmp_len \in 0 .. BodySize
    /\ pc \in {"listen", "select", "check", "arp", "icmp", "send", "done", "exit"}
    /\ Len(arp_icmp_reply.body) = BodySize
    /\ arp_icmp_reply.sum \in 0 .. W - 1 /\ arp_icmp_reply.check \in 0 .. W - 1

\* An ARP request or an echo request for the acquired address, in the VLAN of
\* the command line whatever its priority.
ForMe(f) ==
    /\ f.size >= 60 /\ f.daddr = Ip
    /\ IF vlan = 0 THEN f.tag = Untagged ELSE f.tag # Untagged /\ f.tag % 4096 = vlan
    /\ <<f.kind, f.op>> \in {<<"arp", ARPOP_REQUEST>>, <<"icmp", ICMP_ECHO>>}

\* check_packet takes exactly the requests for this client out of the traffic
\* of the segment: none is passed over and nothing else is answered, be it a
\* request in another VLAN, for another address, or somebody's reply.
RequestsRecognised ==
    [][pc = "check" =>
         (pc' \in {"arp", "icmp"} <=> ForMe(arp_icmp_packet))]_vars

\* Whatever was received and answered before, a reply goes back to the sender
\* of the request in the VLAN of the command line, an ARP reply with the address asked for and
\* an echo reply with the identifier, the sequence number and the data of this
\* request; neither has anything behind that.
Answers(r, f) ==
    /\ r.kind = f.kind /\ r.dhost = f.shost /\ r.shost = Mac /\ r.tag = OwnTag
    /\ r.saddr = f.daddr /\ r.daddr = f.saddr
    /\ r.kind = "arp" => r.smac = Mac /\ r.tmac = f.smac /\ ToSet(r.body) = {0}
    /\ r.kind = "icmp" =>
         /\ r.id = f.id /\ r.seq = f.seq /\ r.body = f.data
         /\ r.tot_len = 28 + Len(f.data)

RepliesToRequest == [][pc = "send" /\ pc' = "listen" => Answers(sent', arp_icmp_packet)]_vars

\* The receiver of an echo reply finds both checksums right unless folding the
\* sum carries again, which the code does not add: then it finds them wrong.
RepliesAccepted ==
    sent.kind = "icmp" =>
        LET n    == Len(sent.body)
            icmp == Icmp([sent EXCEPT !.sum = 0], n)
            ip   == IpHeader([sent EXCEPT !.check = 0])
        IN  /\ Accepts(Total(Icmp(sent, n))) <=> ~CarriesAgain(Summed(icmp))
            /\ Accepts(Total(IpHeader(sent))) <=> ~CarriesAgain(Summed(ip))

\* Listening comes to an end however many requests are answered: the window is
\* one for all of them.
ListenEnds == <>(pc \in {"done", "exit"})
=============================================================================
