----------------------------- MODULE DhcpFrames -----------------------------
(***************************************************************************)
(* The datagrams around the options fields of DhcpOptions: the IP, UDP and *)
(* DHCP headers that build_dhpacket writes for DISCOVER, REQUEST and       *)
(* RELEASE, and their checksums.                                           *)
(***************************************************************************)
EXTENDS DhcpOptions

CONSTANT Headers  \* what the command line and the log file give for them

Address == [1 .. 4 -> Byte]

\* The longest datagram, with a full buffer, has a length of two bytes.
ASSUME HeaderParameters ==
    /\ 20 + 8 + 240 + BuffSize < W
    /\ \A h \in Headers :
         /\ h.tos \in Byte /\ h.port \in 1 .. W - 1
         /\ {h.unicast, h.server, h.giaddr, h.xid, h.acquired} \subseteq Address
         /\ h.flags \in {<<0, 0>>, <<128, 0>>} /\ h.chaddr \in [1 .. 6 -> Byte]
-----------------------------------------------------------------------------
Zeros(n)    == [i \in 1 .. n |-> 0]
\* htons cuts a number to two bytes; a checksum lies in memory as it is added.
Short(n)    == <<(n \div 256) % 256, n % 256>>
Word(sum)   == <<sum % 256, sum \div 256>>

\* A RELEASE goes from the address of the log file to the server of the log
\* file, everything else from the address of -u to that of -S.
Source(h, m)      == IF m.type = 7 THEN h.acquired ELSE h.unicast
Destination(h, m) == IF m.type = 7 THEN server_id ELSE h.server

\* tot_len and uh->len
UdpLen(m) == 8 + 240 + Len(m.options)
TotLen(m) == 20 + UdpLen(m)

IpHeader(h, m, check) ==
    <<69, h.tos>> \o Short(TotLen(m)) \o <<0, 0, 0, 0, 64, 17>> \o check
      \o Source(h, m) \o Destination(h, m)

DhcpHeader(h, m) ==
    <<1, 1, 6, 0>> \o h.xid \o <<0, 0>> \o h.flags \o Source(h, m) \o Zeros(8) \o h.giaddr
      \o h.chaddr \o Zeros(10 + 64 + 128) \o <<99, 130, 83, 99>>

Udp(h, m, check) ==
    Short(h.port + 1) \o Short(h.port) \o Short(UdpLen(m)) \o check
      \o DhcpHeader(h, m) \o m.options

\* Both checksums are taken with their own fields zero.
Datagram(h, m) ==
    [ip  |-> IpHeader(h, m, Word(ipchksum(IpHeader(h, m, Zeros(2))))),
     udp |-> Udp(h, m, Word(l4_sum(Udp(h, m, Zeros(2)), Source(h, m), Destination(h, m), 17)))]
-----------------------------------------------------------------------------
(* Property *)

\* A server finds the checksums of every message right, whatever its options
\* and however many bytes they are, unless adding the carries carries again;
\* a UDP checksum of zero is none.
DatagramsAccepted ==
    \A h \in Headers, m \in wire :
        LET d      == Datagram(h, m)
            pseudo == Pseudo(Source(h, m), Destination(h, m), 17, Len(d.udp))
        IN  /\ Accepts(Total(d.ip)) <=> ~CarriesAgain(Summed(IpHeader(h, m, Zeros(2))))
            /\ \/ SubSeq(d.udp, 7, 8) = Zeros(2)
               \/ Accepts(Total(d.udp) + pseudo)
                    <=> ~CarriesAgain(Summed(Udp(h, m, Zeros(2))) + pseudo)
=============================================================================
