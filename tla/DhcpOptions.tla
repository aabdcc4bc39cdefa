---------------------------- MODULE DhcpOptions ----------------------------
(***************************************************************************)
(* The options field of the DHCP messages of one run of dhtest, byte by    *)
(* byte: how main puts it together in dhopt_buff, a buffer that DISCOVER   *)
(* and REQUEST share, and how set_serv_id_opt50 walks the field of the     *)
(* OFFER in between.  DhcpClient takes both for granted: there a message   *)
(* simply carries its type, address and server.                            *)
(***************************************************************************)
EXTENDS Checksums, SequencesExt

CONSTANTS
    Commands,  \* command lines
    Offers,    \* options fields and addresses that servers offer
    ServerIds, \* identifiers of servers, four bytes each
    MaxCustom, \* MAX_CUSTOM_DHCP_OPTIONS
    BuffSize,  \* size of dhopt_buff
    Filler     \* the byte that strings are made of

PAD      == 0
END      == 255
NoServer == <<0, 0, 0, 0>>
Flags    == {"r", "h", "d", "n", "s", "I", "L", "o", "p"}
Strings  == {"h", "d", "o"}
Kinds    == {"str", "num", "hex", "ip", "bad"}

ASSUME Parameters ==
    /\ \A c \in Commands :
         /\ c.flags \subseteq Flags
         /\ c.strlen \in [Strings -> Byte]
         /\ c.custom \in Seq([code : Byte, kind : Kinds, len : Byte])
    /\ \A o \in Offers : o.yip \in Seq(Byte) /\ Len(o.yip) = 4 /\ o.options \in Seq(Byte)
    /\ \A id \in ServerIds : id \in Seq(Byte) /\ Len(id) = 4
    /\ Filler \in Byte
    /\ MaxCustom \in Nat /\ BuffSize \in Nat

VARIABLES
    cmd,                 \* the command line
    pc,                  \* where main is
    custom_dhcp_options, \* parsed so far
    dhopt_buff, dhopt_size,
    packet,              \* options in dhcp_packet_disc, _request and _release
    offer,               \* the offer in dhcp_packet_offer
    dhopt_pointer_g,     \* index into its options
    server_id, option50_ip,
    wire                 \* the options fields sent, by message type

vars == <<cmd, pc, custom_dhcp_options, dhopt_buff, dhopt_size, packet, offer,
          dhopt_pointer_g, server_id, option50_ip, wire>>
-----------------------------------------------------------------------------
(* Options: a code, a length of one byte and the content *)

Option(code, content) == <<code, Len(content) % 256>> \o content
Text(n)  == [i \in 1 .. n |-> Filler]
Given(f) == f \in cmd.flags
When(f, code, content) == IF Given(f) THEN <<Option(code, content)>> ELSE <<>>

Requested == Text(4)   \* the address of -I
LeaseTime == Text(4)   \* the number of -L

Hostname == When("h", 12, Text(cmd.strlen["h"]))

\* FQDN_N_FLAG is 0x08 and FQDN_S_FLAG 0x1a, which has the bit of the former.
FqdnFlags == IF Given("s") THEN 26 ELSE IF Given("n") THEN 8 ELSE 0
Fqdn     == When("d", 81, <<FqdnFlags, 0, 0>> \o Text(cmd.strlen["d"]))
Vci      == When("o", 60, Text(cmd.strlen["o"]))
Lease    == When("L", 51, LeaseTime)
Params   == <<Option(55, <<1, 28, 3, 15, 6>>)>>

\* What main appends after option 53, in its order.
DiscoverOptions ==
    Hostname \o Fqdn \o When("I", 50, option50_ip) \o Params \o Lease \o Vci
      \o custom_dhcp_options
RequestOptions ==
    <<Option(50, option50_ip), Option(54, server_id)>> \o Hostname \o Fqdn \o Vci
      \o Lease \o Params \o custom_dhcp_options
ReleaseOptions(id) == Hostname \o Fqdn \o <<Option(54, id)>>

\* memcpy to an offset of the buffer, which is zero where nothing was written.
Copy(b, offset, bytes) ==
    [i \in 1 .. (IF offset + Len(bytes) > Len(b) THEN offset + Len(bytes) ELSE Len(b)) |->
        IF i > offset /\ i <= offset + Len(bytes) THEN bytes[i - offset]
        ELSE IF i <= Len(b) THEN b[i] ELSE 0]

Put(b, bytes) == [buff |-> Copy(b.buff, b.size, bytes), size |-> b.size + Len(bytes)]

\* build_option53 writes at the start of the buffer, whatever its size.
Put53(b, type) == [buff |-> Copy(b.buff, 0, <<53, 1, type>>), size |-> b.size + 3]

\* build_dhpacket, with -p: the message is filled up to MINIMUM_PACKET_SIZE.
Pad(b) ==
    IF Given("p") /\ 240 + b.size < 300
    THEN [buff |-> Copy(b.buff, b.size, [i \in 1 .. 60 - b.size |-> PAD]), size |-> 60]
    ELSE b

\* One message from option 53 to its packet.
Build(b, type, options) ==
    LET done == Pad(Put(FoldLeft(Put, Put53(b, type), options), <<END>>))
    IN  /\ dhopt_buff' = done.buff
        /\ dhopt_size' = done.size
        /\ packet' = [packet EXCEPT ![type] = SubSeq(done.buff, 1, done.size)]

Current == [buff |-> dhopt_buff, size |-> dhopt_size]
Reset   == [buff |-> <<>>, size |-> 0]

\* send_packet takes the length from the global dhopt_size.
Sent(type) == SubSeq(Copy(packet[type], dhopt_size, <<>>), 1, dhopt_size)

\* An options field as print_dhinfo and any server read it: code and content.
\* A field that does not come to its END yields Bad, whose code is no byte.
Bad == <<256>>

Fields(bytes) ==
    LET n == Len(bytes)
        from[i \in 1 .. n + 1] ==
            IF i > n THEN <<Bad>>
            ELSE IF bytes[i] = END THEN <<>>
            ELSE IF bytes[i] = PAD THEN from[i + 1]
            ELSE IF i = n \/ i + 2 + bytes[i + 1] > n THEN <<Bad>>
            ELSE <<SubSeq(bytes, i, i + 1 + bytes[i + 1])>> \o from[i + 2 + bytes[i + 1]]
    IN  from[1]

\* An option that is as long as it says and is no padding.
IsOption(f) == f \in Seq(Byte) /\ Len(f) >= 2 /\ f[1] \notin {PAD, END} /\ f[2] = Len(f) - 2
-----------------------------------------------------------------------------
Init ==
    /\ cmd \in Commands
    /\ pc = "args"
    /\ custom_dhcp_options = <<>>
    /\ dhopt_buff = <<>> /\ dhopt_size = 0
    /\ packet = [type \in {1, 3, 7} |-> <<>>]
    /\ offer = [yip |-> NoServer, options |-> <<>>]
    /\ dhopt_pointer_g = 1
    /\ server_id = NoServer
    /\ option50_ip = IF "I" \in cmd.flags THEN Requested ELSE NoServer
    /\ wire = {}

(* -c: the value of a custom option, sized by its kind *)

Parsed  == Len(custom_dhcp_options)
NextArg == cmd.custom[Parsed + 1]

Rejected(a) == a.kind = "bad" \/ (a.kind = "hex" /\ a.len % 2 = 1)
CustomLen(a) == CASE a.kind = "str" -> a.len
                  [] a.kind = "hex" -> a.len \div 2
                  [] OTHER          -> 4

CustomOption ==
    /\ pc = "args" /\ Parsed < Len(cmd.custom)
    /\ Parsed # MaxCustom /\ ~Rejected(NextArg)
    /\ custom_dhcp_options' =
         Append(custom_dhcp_options, Option(NextArg.code, Text(CustomLen(NextArg))))
    /\ UNCHANGED <<cmd, pc, dhopt_buff, dhopt_size, packet, offer, dhopt_pointer_g,
                   server_id, option50_ip, wire>>

CustomRejected ==
    /\ pc = "args" /\ Parsed < Len(cmd.custom)
    /\ Parsed = MaxCustom \/ Rejected(NextArg)
    /\ pc' = "exit"
    /\ UNCHANGED <<cmd, custom_dhcp_options, dhopt_buff, dhopt_size, packet, offer,
                   dhopt_pointer_g, server_id, option50_ip, wire>>
-----------------------------------------------------------------------------
(* Building and sending *)

\* The server identifier of a RELEASE comes from the log file.
BuildRelease ==
    /\ pc = "args" /\ Parsed = Len(cmd.custom) /\ Given("r")
    /\ \E id \in ServerIds :
         server_id' = id /\ Build(Current, 7, ReleaseOptions(id))
    /\ pc' = "release"
    /\ UNCHANGED <<cmd, custom_dhcp_options, offer, dhopt_pointer_g, option50_ip, wire>>

BuildDiscover ==
    /\ pc = "args" /\ Parsed = Len(cmd.custom) /\ ~Given("r")
    /\ Build(Current, 1, DiscoverOptions)
    /\ pc' = "discover"
    /\ UNCHANGED <<cmd, custom_dhcp_options, offer, dhopt_pointer_g, server_id,
                   option50_ip, wire>>

\* Mutant of BuildRequest: the buffer is not reset.
BuildRequestNoReset ==
    /\ pc = "walk" /\ offer.options[dhopt_pointer_g] = END
    /\ Build(Current, 3, RequestOptions)
    /\ pc' = "request"
    /\ UNCHANGED <<cmd, custom_dhcp_options, offer, dhopt_pointer_g, server_id,
                   option50_ip, wire>>

\* The walk is over; the options of the REQUEST are built in an empty buffer.
BuildRequest ==
    /\ pc = "walk" /\ offer.options[dhopt_pointer_g] = END
    /\ Build(Reset, 3, RequestOptions)
    /\ pc' = "request"
    /\ UNCHANGED <<cmd, custom_dhcp_options, offer, dhopt_pointer_g, server_id,
                   option50_ip, wire>>

Send(at, type, to) ==
    /\ pc = at
    /\ wire' = wire \cup {[type |-> type, options |-> Sent(type)]}
    /\ pc' = to
    /\ UNCHANGED <<cmd, custom_dhcp_options, dhopt_buff, dhopt_size, packet, offer,
                   dhopt_pointer_g, server_id, option50_ip>>

SendDiscover == Send("discover", 1, "offer")
SendRequest  == Send("request", 3, "ack")
SendRelease  == Send("release", 7, "exit")

\* recv_packet returns without an answer and the packet is sent again.
Resend ==
    /\ \/ pc = "offer" /\ pc' = "discover"
       \/ pc = "ack" /\ pc' = "request"
    /\ UNCHANGED <<cmd, custom_dhcp_options, dhopt_buff, dhopt_size, packet, offer,
                   dhopt_pointer_g, server_id, option50_ip, wire>>

RecvAck ==
    /\ pc = "ack" /\ pc' = "exit"
    /\ UNCHANGED <<cmd, custom_dhcp_options, dhopt_buff, dhopt_size, packet, offer,
                   dhopt_pointer_g, server_id, option50_ip, wire>>
-----------------------------------------------------------------------------
(* Reading the offer *)

\* Mutant of RecvOffer: the address of -I is kept.
RecvOfferKeeps ==
    /\ pc = "offer"
    /\ \E o \in Offers :
         /\ o.options[3] = 2
         /\ offer' = o
         /\ option50_ip' = IF Given("I") THEN option50_ip ELSE o.yip
    /\ dhopt_pointer_g' = 1
    /\ pc' = "walk"
    /\ UNCHANGED <<cmd, custom_dhcp_options, dhopt_buff, dhopt_size, packet, server_id,
                   wire>>

\* check_packet looks at the third byte, where option 53 has its content when
\* it is the first option.
RecvOffer ==
    /\ pc = "offer"
    /\ \E o \in Offers :
         o.options[3] = 2 /\ offer' = o /\ option50_ip' = o.yip
    /\ dhopt_pointer_g' = 1
    /\ pc' = "walk"
    /\ UNCHANGED <<cmd, custom_dhcp_options, dhopt_buff, dhopt_size, packet, server_id,
                   wire>>

\* Mutants of WalkOffer: the identifier is taken from the length byte on; the
\* pointer moves by the length of the content only.
WalkOfferFromLength ==
    /\ pc = "walk" /\ dhopt_pointer_g < Len(offer.options)
    /\ LET p == dhopt_pointer_g  b == offer.options
       IN  /\ b[p] # END
           /\ server_id' = IF b[p] = 54 THEN SubSeq(b, p + 1, p + 4) ELSE server_id
           /\ dhopt_pointer_g' = p + b[p + 1] + 2
    /\ UNCHANGED <<cmd, pc, custom_dhcp_options, dhopt_buff, dhopt_size, packet, offer,
                   option50_ip, wire>>

WalkOfferShort ==
    /\ pc = "walk" /\ dhopt_pointer_g < Len(offer.options)
    /\ LET p == dhopt_pointer_g  b == offer.options
       IN  /\ b[p] # END
           /\ server_id' = IF b[p] = 54 THEN SubSeq(b, p + 2, p + 5) ELSE server_id
           /\ dhopt_pointer_g' = p + b[p + 1] + 1
    /\ UNCHANGED <<cmd, pc, custom_dhcp_options, dhopt_buff, dhopt_size, packet, offer,
                   option50_ip, wire>>

\* One turn of the loop of set_serv_id_opt50. What it does beyond the end of
\* the field depends on the memory there and is not modelled.
WalkOffer ==
    /\ pc = "walk" /\ dhopt_pointer_g < Len(offer.options)
    /\ LET p == dhopt_pointer_g  b == offer.options
       IN  /\ b[p] # END
           /\ server_id' = IF b[p] = 54 THEN SubSeq(b, p + 2, p + 5) ELSE server_id
           /\ dhopt_pointer_g' = p + b[p + 1] + 2
    /\ UNCHANGED <<cmd, pc, custom_dhcp_options, dhopt_buff, dhopt_size, packet, offer,
                   option50_ip, wire>>
-----------------------------------------------------------------------------
Next ==
    \/ CustomOption \/ CustomRejected
    \/ BuildRelease \/ BuildDiscover \/ BuildRequest
    \/ SendDiscover \/ SendRequest \/ SendRelease \/ Resend
    \/ RecvOffer \/ WalkOffer \/ RecvAck

Spec == Init /\ [][Next]_vars
-----------------------------------------------------------------------------
(* Properties *)

TypeOK ==
    /\ cmd \in Commands
    /\ pc \in {"args", "discover", "offer", "walk", "request", "ack", "release", "exit"}
    /\ Parsed <= MaxCustom
    /\ dhopt_buff \in Seq(Byte) /\ Len(dhopt_buff) <= BuffSize
    /\ dhopt_size \in 0 .. Len(dhopt_buff)
    /\ offer \in Offers \cup {[yip |-> NoServer, options |-> <<>>]}
    /\ dhopt_pointer_g \in Nat \ {0}
    /\ server_id \in ServerIds \cup {NoServer}
    /\ option50_ip \in {NoServer, Requested} \cup {o.yip : o \in Offers}

Custom == {Option(a.code, Text(CustomLen(a))) : a \in ToSet(cmd.custom)}

\* The flags of option 81 that -n and -s ask for: N (0x08), which tells the server
\* not to update, and S (0x01), which tells it to.
AskedFlags == (IF Given("n") THEN 8 ELSE 0) + (IF Given("s") THEN 1 ELSE 0)
AskedFqdn  == When("d", 81, <<AskedFlags, 0, 0>> \o Text(cmd.strlen["d"]))

\* The options that the command line asks for in a message of a type; 50 and 54
\* of a REQUEST and 54 of a RELEASE are not the command line's.
Asked(type) ==
    {<<53, 1, type>>}
      \cup ToSet(Hostname) \cup ToSet(AskedFqdn)
      \cup (IF type = 7 THEN {} ELSE ToSet(Vci \o Lease \o Params) \cup Custom)
      \cup (IF type = 1 THEN ToSet(When("I", 50, Requested)) ELSE {})

Answered(type) == IF type = 1 THEN {} ELSE IF type = 3 THEN {50, 54} ELSE {54}

\* With -s the flags that are sent, 0x1a, are not those asked for.
Unlike == IF Given("s") THEN {81} ELSE {}

\* Whatever is given on the command line, whichever message was built in the
\* buffer before, and when it is sent again: a reader of the options field finds
\* the options asked for, all of them and no other, and nothing behind their END
\* but padding, and that only with -p and up to 300 bytes. Left aside with -s is
\* option 81, the one that is not as asked then.
SentAsAsked ==
    \A m \in wire :
        LET read  == Fields(m.options)
            field == FlattenSeq(read) \o <<END>>
        IN  /\ {f \in ToSet(read) : f[1] \notin Answered(m.type) \cup Unlike}
                  = {f \in Asked(m.type) : f[1] \notin Unlike}
            /\ Answered(m.type) \subseteq {f[1] : f \in ToSet(read)}
            /\ SubSeq(m.options, 1, Len(field)) = field
            /\ Len(m.options) = IF Given("p") /\ Len(field) < 60 THEN 60 ELSE Len(field)

\* The last server identifier of an options field.
ServerOf(bytes) ==
    LET read == Fields(bytes)
        at   == {i \in DOMAIN read : read[i][1] = 54}
    IN  IF at = {} THEN NoServer ELSE SubSeq(read[Max(at)], 3, 6)

(* What the theorems ask of the constants; main checks neither *)

CustomOptions(custom) ==
    [i \in DOMAIN custom |-> Option(custom[i].code, Text(CustomLen(custom[i])))]

\* Bytes of the longest message: 53, 50, 54, 55 and END in any case.
Room(c) ==
    LET If(f, n) == IF f \in c.flags THEN n ELSE 0
    IN  23 + If("h", 2 + c.strlen["h"]) + If("d", 5 + c.strlen["d"])
           + If("o", 2 + c.strlen["o"]) + If("L", 6) + Len(FlattenSeq(CustomOptions(c.custom)))

\* A command line whose options fit in the buffer and in their length bytes and
\* of which none is padding, an end, or an option that main adds itself.
Fits(c) ==
    /\ 60 <= BuffSize /\ Room(c) <= BuffSize
    /\ c.strlen["d"] <= 252
    /\ \A i \in DOMAIN c.custom : c.custom[i].code \notin {PAD, END, 50, 54}

\* An offer with nothing between its options and server identifiers of 4 bytes.
PlainOffer(o) ==
    LET read  == Fields(o.options)
        field == FlattenSeq(read) \o <<END>>
    IN  /\ \A i \in DOMAIN read :
             /\ IsOption(read[i])
             /\ read[i][1] = 54 => Len(read[i]) = 6 /\ SubSeq(read[i], 3, 6) \in ServerIds
        /\ Len(field) <= Len(o.options)
        /\ SubSeq(o.options, 1, Len(field)) = field

\* The walk stays inside the field and has read, when it is over, the server
\* identifier that any other reader of the offer finds, also when the content
\* of an option looks like a code.
OfferRead ==
    pc = "walk" =>
        /\ dhopt_pointer_g <= Len(offer.options)
        /\ offer.options[dhopt_pointer_g] = END =>
             server_id = ServerOf(offer.options)

\* A REQUEST asks the server of the offer for the address of the offer, never
\* for the address of -I and never in the name of another server.
RequestNamesOffer ==
    \A m \in wire : m.type = 3 =>
        LET read == Fields(m.options)
        IN  /\ Option(50, offer.yip) \in ToSet(read)
            /\ ServerOf(m.options) = ServerOf(offer.options)
=============================================================================
