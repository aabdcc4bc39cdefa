----------------------------- MODULE MCListener -----------------------------
(***************************************************************************)
(* Traffic of a segment with requests for this client and frames that come *)
(* close to one, with data of odd and even length, padded and not, and one *)
(* whose checksum carries when it is folded.                               *)
(***************************************************************************)
EXTENDS Listener

MyIp   == <<10, 0, 0, 7>>
PeerIp == <<10, 0, 0, 9>>

Frame(tag, size) ==
    [kind |-> "other", size |-> size, tag |-> tag, shost |-> "router", smac |-> "peer",
     saddr |-> PeerIp, daddr |-> MyIp, op |-> 0, id |-> <<0, 0>>, seq |-> <<0, 0>>,
     data |-> <<>>]
Arp(tag, op, daddr) ==
    [Frame(tag, 64) EXCEPT !.kind = "arp", !.op = op, !.daddr = daddr]
Ping(tag, op, daddr, data) ==
    [Frame(tag, 64) EXCEPT !.kind = "icmp", !.op = op, !.daddr = daddr, !.shost = "peer",
                           !.id = <<255, 255>>, !.seq = <<255, 255>>, !.data = data]

\* Tags are words: the priority in the upper four bits, then the VLAN.
Traffic(tags) ==
    UNION {{Frame(t, 60), [Frame(t, 60) EXCEPT !.op = 1, !.daddr = PeerIp],
            Arp(t, 1, MyIp), Arp(t, 1, PeerIp), Arp(t, 2, MyIp),
            [Arp(t, 1, MyIp) EXCEPT !.size = 46],
            Ping(t, 8, MyIp, <<9, 8, 7, 6>>), Ping(t, 8, MyIp, <<1, 0>>),
            Ping(t, 8, MyIp, <<200, 100, 50>>), Ping(t, 8, MyIp, <<>>),
            Ping(t, 8, PeerIp, <<1>>), Ping(t, 0, MyIp, <<5>>)} : t \in tags}

SmallTags == Traffic({Untagged, 5, 6})
LargeTags == {Arp(100, 1, MyIp), Ping(100, 8, MyIp, <<1, 2>>)}
=============================================================================
