--------------------------- MODULE MCDhcpOptions ---------------------------
(***************************************************************************)
(* DhcpOptions with short and long strings and offers whose contents hold  *)
(* bytes that are codes elsewhere. One string is long at a time, so that   *)
(* the fields fit in dhopt_buff, which the command line does not ensure.   *)
(***************************************************************************)
EXTENDS DhcpFrames

Server1 == <<10, 0, 54, 255>>
Server2 == <<10, 0, 0, 2>>
Servers == {Server1, Server2}

Sizes == {[h |-> 1, d |-> 252, o |-> 2], [h |-> 255, d |-> 0, o |-> 1],
          [h |-> 3, d |-> 4, o |-> 200]}
Customs == {<<>>,
            <<[code |-> 43, kind |-> "str", len |-> 20], [code |-> 82, kind |-> "hex", len |-> 6]>>,
            <<[code |-> 9, kind |-> "num", len |-> 1], [code |-> 82, kind |-> "hex", len |-> 5]>>,
            <<[code |-> 9, kind |-> "ip", len |-> 7], [code |-> 66, kind |-> "str", len |-> 1],
              [code |-> 3, kind |-> "ip", len |-> 7]>>}

FewCommands == {[flags |-> f \cup x, strlen |-> s, custom |-> c] :
                  f \in SUBSET {"h", "d", "o"}, x \in {{"p", "n"}, {"I", "L"}, {"r", "n"}, {"s"}},
                  s \in Sizes, c \in Customs}
OneCommand == {[flags |-> {}, strlen |-> [h |-> 0, d |-> 0, o |-> 0], custom |-> <<>>]}

\* An offer: its options after option 53, in any order.
Field(options) == FoldLeft(LAMBDA b, o : b \o o, <<53, 1, 2>>, options) \o <<END>>
Offer(ip, options) == [yip |-> ip, options |-> Field(options)]

Plain == {Offer(<<10, 0, 0, 7>>, <<Option(54, Server1), Option(51, <<0, 54, 4, 255>>)>>),
          Offer(<<10, 0, 0, 8>>, <<Option(43, <<54, 4, 1, 1, 1, 1, 255>>), Option(80, <<>>),
                                   Option(54, Server2)>>),
          Offer(<<10, 0, 0, 9>>, <<Option(54, Server2), Option(1, <<255, 255, 255, 0>>),
                                   Option(54, Server1)>>)}
Padded == {Offer(<<10, 0, 0, 7>>, <<Option(54, Server1), <<PAD>>, Option(51, <<0, 0, 4, 0>>)>>)}

ASSUME PlainConstants ==
    (\A c \in FewCommands \cup OneCommand : Fits(c)) /\ \A o \in Plain : PlainOffer(o)

\* Header fields: the defaults, with two transaction ids of which the second
\* makes the sum of a padded DISCOVER carry again, and a relayed unicast request.
Default(xid) ==
    [tos |-> 0, unicast |-> NoServer, server |-> <<255, 255, 255, 255>>, port |-> 67,
     flags |-> <<128, 0>>, giaddr |-> NoServer, xid |-> xid,
     chaddr |-> <<0, 0, 0, 17, 17, 17>>, acquired |-> <<10, 0, 0, 7>>]
Relayed ==
    [tos |-> 255, unicast |-> <<10, 255, 0, 200>>, server |-> Server2, port |-> 65535,
     flags |-> <<0, 0>>, giaddr |-> <<10, 0, 0, 3>>, xid |-> <<255, 255, 255, 255>>,
     chaddr |-> <<255, 255, 255, 255, 255, 255>>, acquired |-> <<192, 168, 255, 255>>]
FewHeaders == {Default(<<1, 2, 3, 4>>), Default(<<73, 179, 0, 0>>), Relayed}
=============================================================================
