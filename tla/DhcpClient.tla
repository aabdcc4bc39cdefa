----------------------------- MODULE DhcpClient -----------------------------
(***************************************************************************)
(* Runs of dhtest (src/dhcp_test) on one host.  Every element of Proc is   *)
(* one run of the program: it opens a packet socket, puts the interface it *)
(* shares with every other run in promiscuous mode, and either acquires a  *)
(* lease (DISCOVER, OFFER, REQUEST, ACK), possibly answering ARP for the   *)
(* acquired address afterwards (-b), or releases one (-r).  The file named *)
(* after the MAC address outlives the run that wrote it.                   *)
(*                                                                         *)
(* The DHCP servers and the wire are not part of the repository: they are  *)
(* the environment, modelled from what dhtest sends and expects.  A frame  *)
(* once sent stays in net, so that it may be delivered late, in any order, *)
(* more than once, or never.                                               *)
(***************************************************************************)
EXTENDS Naturals, FiniteSets

CONSTANTS
    Proc,      \* runs of dhtest
    Mac,       \* client hardware addresses
    Xid,       \* transaction identifiers
    Ip,        \* addresses the servers lease
    Server,    \* DHCP servers
    NoProc, NoMac, NoIp, NoServer,
    dhmac,     \* [Proc -> Mac]: option -m
    dhcp_xid,  \* [Proc -> Xid]: option --dhcp_xid or the random default
    req_ip,    \* [Proc -> Ip or NoIp]: option -I
    PoolOf,    \* [Ip -> Server]: the server that leases an address
    Timed,     \* runs with -T
    Bind,      \* runs with -b
    Nagios,    \* runs with -a
    Bcast,     \* runs with -f: the servers answer them by broadcast
    Releaser,  \* runs with -r
    Residue,   \* what the uninitialised locals of get_dhinfo may hold
    Reserve,   \* whether an offered address is kept for that client
    Faults     \* subset of {"socket", "send", "file", "disk", "kill"} that may happen

Lease == [ip : Ip \cup {NoIp}, sid : Server \cup {NoServer},
          pid : Proc \cup {NoProc}]

ASSUME ConstantTypes ==
    /\ NoProc \notin Proc /\ NoMac \notin Mac
    /\ NoIp \notin Ip /\ NoServer \notin Server
    /\ dhmac \in [Proc -> Mac] /\ dhcp_xid \in [Proc -> Xid]
    /\ req_ip \in [Proc -> Ip \cup {NoIp}] /\ PoolOf \in [Ip -> Server]
    /\ Timed \subseteq Proc /\ Bind \subseteq Proc
    /\ Nagios \subseteq Proc /\ Bcast \subseteq Proc /\ Releaser \subseteq Proc
    /\ Residue \subseteq Lease /\ Reserve \in BOOLEAN
    /\ Faults \subseteq {"socket", "send", "file", "disk", "kill"}

\* srand(time ^ pid << 16): runs started together differ in their pid.
ASSUME DistinctXids ==
    \A p, q \in Proc : dhcp_xid[p] = dhcp_xid[q] => p = q

VARIABLES
    pc,           \* where each run is in main()
    option50_ip,  \* the address it asks for
    server_id,    \* the server it asks
    ip_address,   \* the address it holds, set where the lease is logged
    expired,      \* whether more than -T seconds have passed since it began
    promisc,      \* promiscuous flag of the shared interface
    dhinfo,       \* the log file of each MAC
    linked,       \* runs whose open log file is still the one of that name
    net,          \* every frame sent so far
    owner         \* the servers' lease tables

client == <<pc, option50_ip, server_id, ip_address, expired>>
vars   == <<client, promisc, dhinfo, linked, net, owner>>

-----------------------------------------------------------------------------
NoFile  == [ip |-> NoIp, sid |-> NoServer, pid |-> NoProc, exists |-> FALSE]
LogFile == [ip : Ip \cup {NoIp}, sid : Server \cup {NoServer},
            pid : Proc \cup {NoProc}, exists : BOOLEAN]

\* exit0, exit1 and exit2 are the exit statuses, killed is SIGKILL.
Ended   == {"exit0", "exit1", "exit2", "killed"}
Running == {"discover", "offer", "request", "ack", "log", "listen", "finish",
            "getinfo", "scan", "release"}
Control == {"idle"} \cup Running \cup Ended

MsgType == {"DISCOVER", "OFFER", "REQUEST", "ACK", "NAK", "RELEASE", "ARP"}
Message == [type : MsgType, xid : Xid, mac : Mac,
            ip : Ip \cup {NoIp}, sid : Server \cup {NoServer}]

Msg(type, xid, mac, ip, sid) ==
    [type |-> type, xid |-> xid, mac |-> mac, ip |-> ip, sid |-> sid]

\* A frame run p builds from its own state.
Frame(p, type, ip, sid) == Msg(type, dhcp_xid[p], dhmac[p], ip, sid)

\* Mutant of IsFor: any client's answer is taken.
IsForAnyRun(m, type, p) == m.type = type

\* check_packet: the message type and the transaction id decide, nothing else.
IsFor(m, type, p) == m.type = type /\ m.xid = dhcp_xid[p]

Init ==
    /\ pc = [p \in Proc |-> "idle"]
    /\ option50_ip = req_ip
    /\ server_id = [p \in Proc |-> NoServer]
    /\ ip_address = [p \in Proc |-> NoIp]
    /\ expired = [p \in Proc |-> FALSE]
    /\ promisc = FALSE
    /\ dhinfo = [m \in Mac |-> NoFile]
    /\ linked = {}
    /\ net = {}
    /\ owner = [i \in Ip |-> NoMac]

Goto(p, l) == pc' = [pc EXCEPT ![p] = l]

-----------------------------------------------------------------------------
(* Start and end of a run *)

\* open_socket, set_promisc, set_rand_dhcp_xid; -r branches off here.
Start(p) ==
    /\ pc[p] = "idle"
    /\ Goto(p, IF p \in Releaser THEN "getinfo" ELSE "discover")
    /\ promisc' = TRUE
    /\ UNCHANGED <<option50_ip, server_id, ip_address, expired, dhinfo, linked, net, owner>>

\* The socket or an ioctl is refused: exit(2).  With -u this may come after
\* the promiscuous mode was set.
StartFails(p) ==
    /\ pc[p] = "idle" /\ "socket" \in Faults
    /\ Goto(p, "exit2")
    /\ promisc' \in {promisc, TRUE}
    /\ UNCHANGED <<option50_ip, server_id, ip_address, expired, dhinfo, linked, net, owner>>

\* clear_promisc and close_socket at the end of main.
Finish(p) ==
    /\ pc[p] = "finish"
    /\ promisc' = FALSE
    /\ Goto(p, "exit0")
    /\ UNCHANGED <<option50_ip, server_id, ip_address, expired, dhinfo, linked, net, owner>>

FinishFails(p) ==
    /\ pc[p] = "finish" /\ "socket" \in Faults
    /\ Goto(p, "exit2")
    /\ UNCHANGED <<option50_ip, server_id, ip_address, expired, promisc, dhinfo, linked, net, owner>>

-----------------------------------------------------------------------------
(* Sending.  A failed sendto exits at once and leaves the interface alone. *)

SendDiscover(p) ==
    /\ pc[p] = "discover"
    /\ net' = net \cup {Frame(p, "DISCOVER", option50_ip[p], NoServer)}
    /\ Goto(p, "offer")
    /\ UNCHANGED <<option50_ip, server_id, ip_address, expired, promisc, dhinfo, linked, owner>>

SendRequest(p) ==
    /\ pc[p] = "request"
    /\ net' = net \cup {Frame(p, "REQUEST", option50_ip[p], server_id[p])}
    /\ Goto(p, "ack")
    /\ UNCHANGED <<option50_ip, server_id, ip_address, expired, promisc, dhinfo, linked, owner>>

SendRelease(p) ==
    /\ pc[p] = "release"
    /\ net' = net \cup {Frame(p, "RELEASE", option50_ip[p], server_id[p])}
    /\ Goto(p, "finish")
    /\ UNCHANGED <<option50_ip, server_id, ip_address, expired, promisc, dhinfo, linked, owner>>

SendFails(p) ==
    /\ pc[p] \in {"discover", "request", "release", "listen"} /\ "send" \in Faults
    /\ Goto(p, "exit2")
    /\ UNCHANGED <<option50_ip, server_id, ip_address, expired, promisc, dhinfo, linked, net, owner>>

-----------------------------------------------------------------------------
(* Waiting for the OFFER.  recv_packet returns on an OFFER of this run or  *)
(* when its window is over; -T is looked at only then, and first.          *)

\* A unicast frame to a made-up MAC needs the promiscuous mode to be seen.
Hears(p) == promisc \/ p \in Bcast

\* Mutants of RecvOffer: address and server swapped; an OFFER taken while the
\* ACK is awaited; the server identifier not kept.
RecvOfferSwapped(p) ==
    /\ pc[p] = "offer" /\ ~expired[p] /\ Hears(p)
    /\ \E m \in net :
         /\ IsFor(m, "OFFER", p)
         /\ option50_ip' = [option50_ip EXCEPT ![p] = m.sid]
         /\ server_id' = [server_id EXCEPT ![p] = m.ip]
    /\ Goto(p, "request")
    /\ UNCHANGED <<ip_address, expired, promisc, dhinfo, linked, net, owner>>

RecvOfferAnyTime(p) ==
    /\ pc[p] \in {"offer", "ack"} /\ ~expired[p] /\ Hears(p)
    /\ \E m \in net :
         /\ IsFor(m, "OFFER", p)
         /\ option50_ip' = [option50_ip EXCEPT ![p] = m.ip]
         /\ server_id' = [server_id EXCEPT ![p] = m.sid]
    /\ Goto(p, "request")
    /\ UNCHANGED <<ip_address, expired, promisc, dhinfo, linked, net, owner>>

RecvOfferNoServer(p) ==
    /\ pc[p] = "offer" /\ ~expired[p] /\ Hears(p)
    /\ \E m \in net :
         /\ IsFor(m, "OFFER", p)
         /\ option50_ip' = [option50_ip EXCEPT ![p] = m.ip]
    /\ Goto(p, "request")
    /\ UNCHANGED <<server_id, ip_address, expired, promisc, dhinfo, linked, net, owner>>

RecvOffer(p) ==
    /\ pc[p] = "offer" /\ ~expired[p] /\ Hears(p)
    /\ \E m \in net :
         /\ IsFor(m, "OFFER", p)
         /\ option50_ip' = [option50_ip EXCEPT ![p] = m.ip]
         /\ server_id' = [server_id EXCEPT ![p] = m.sid]
    /\ Goto(p, "request")
    /\ UNCHANGED <<ip_address, expired, promisc, dhinfo, linked, net, owner>>

ResendDiscover(p) ==
    /\ pc[p] = "offer" /\ ~expired[p]
    /\ Goto(p, "discover")
    /\ UNCHANGED <<option50_ip, server_id, ip_address, expired, promisc, dhinfo, linked, net, owner>>

DiscoverTimeout(p) ==
    /\ pc[p] = "offer" /\ expired[p]
    /\ Goto(p, "exit2")
    /\ UNCHANGED <<option50_ip, server_id, ip_address, expired, promisc, dhinfo, linked, net, owner>>

-----------------------------------------------------------------------------
(* Waiting for the answer to the REQUEST *)

\* Mutants of RecvAck: the clock not looked at; a NAK taken for an ACK.
RecvAckLate(p) ==
    /\ pc[p] = "ack" /\ Hears(p)
    /\ \E m \in net :
         /\ IsFor(m, "ACK", p)
         /\ ip_address' = [ip_address EXCEPT ![p] = m.ip]
    /\ dhinfo' = [dhinfo EXCEPT ![dhmac[p]] = NoFile]
    /\ linked' = linked \cup {p}
    /\ Goto(p, "log")
    /\ UNCHANGED <<option50_ip, server_id, expired, promisc, net, owner>>

RecvAckOrNak(p) ==
    /\ pc[p] = "ack" /\ ~expired[p] /\ Hears(p)
    /\ \E m \in net : IsFor(m, "ACK", p) \/ IsFor(m, "NAK", p)
    /\ ip_address' = [ip_address EXCEPT ![p] = option50_ip[p]]
    /\ dhinfo' = [dhinfo EXCEPT ![dhmac[p]] = NoFile]
    /\ linked' = linked \cup {p}
    /\ Goto(p, "log")
    /\ UNCHANGED <<option50_ip, server_id, expired, promisc, net, owner>>

\* An ACK in time: log_dhinfo opens the file, which empties it at once.  The
\* address, which only the run itself reads, is the one of the ACK.
RecvAck(p) ==
    /\ pc[p] = "ack" /\ ~expired[p] /\ Hears(p)
    /\ \E m \in net :
         /\ IsFor(m, "ACK", p)
         /\ ip_address' = [ip_address EXCEPT ![p] = m.ip]
    /\ dhinfo' = [dhinfo EXCEPT ![dhmac[p]] = NoFile]
    /\ linked' = linked \cup {p}
    /\ Goto(p, "log")
    /\ UNCHANGED <<option50_ip, server_id, expired, promisc, net, owner>>

\* log_dhinfo cannot open the file: the run exits, the server keeps the lease.
RecvAckLogFails(p) ==
    /\ pc[p] = "ack" /\ ~expired[p] /\ Hears(p) /\ "file" \in Faults
    /\ \E m \in net : IsFor(m, "ACK", p)
    /\ Goto(p, "exit2")
    /\ UNCHANGED <<option50_ip, server_id, ip_address, expired, promisc, dhinfo, linked, net, owner>>

\* What the run logs: the address of the ACK, the server of the OFFER.
LogEntry(p) == [ip |-> ip_address[p], sid |-> server_id[p],
                pid |-> IF p \in Bind THEN p ELSE NoProc, exists |-> TRUE]

AfterLog(p) == IF p \in Bind \ Nagios THEN "listen" ELSE "finish"

\* Mutants of WriteLog: what another run wrote into the file in the meantime
\* is appended to; -b is not looked at.
WriteLogAppends(p) ==
    /\ pc[p] = "log"
    /\ \/ p \in linked /\ dhinfo' = [dhinfo EXCEPT ![dhmac[p]] =
              IF @.exists THEN [@ EXCEPT !.pid = LogEntry(p).pid] ELSE LogEntry(p)]
       \/ p \notin linked /\ UNCHANGED dhinfo
    /\ linked' = linked \ {p}
    /\ Goto(p, AfterLog(p))
    /\ UNCHANGED <<option50_ip, server_id, ip_address, expired, promisc, net, owner>>

WriteLogNoPid(p) ==
    /\ pc[p] = "log"
    /\ \/ p \in linked /\ dhinfo' = [dhinfo EXCEPT ![dhmac[p]] =
              [LogEntry(p) EXCEPT !.pid = NoProc]]
       \/ p \notin linked /\ UNCHANGED dhinfo
    /\ linked' = linked \ {p}
    /\ Goto(p, AfterLog(p))
    /\ UNCHANGED <<option50_ip, server_id, ip_address, expired, promisc, net, owner>>

\* stdio writes the few lines at fclose, from the start of the file that was
\* opened.  If a release has unlinked it since, they go nowhere.
WriteLog(p) ==
    /\ pc[p] = "log"
    /\ \/ p \in linked /\ dhinfo' = [dhinfo EXCEPT ![dhmac[p]] = LogEntry(p)]
       \/ p \notin linked /\ UNCHANGED dhinfo
    /\ linked' = linked \ {p}
    /\ Goto(p, AfterLog(p))
    /\ UNCHANGED <<option50_ip, server_id, ip_address, expired, promisc, net, owner>>

\* Nobody looks at what fprintf and fclose return: a full disk goes unnoticed.
WriteLogFails(p) ==
    /\ pc[p] = "log" /\ "disk" \in Faults
    /\ linked' = linked \ {p}
    /\ Goto(p, AfterLog(p))
    /\ UNCHANGED <<option50_ip, server_id, ip_address, expired, promisc, dhinfo, net, owner>>

\* A NAK, always broadcast, only ends the wait: the same REQUEST is sent again.
RecvNak(p) ==
    /\ pc[p] = "ack" /\ ~expired[p]
    /\ \E m \in net : IsFor(m, "NAK", p)
    /\ Goto(p, "request")
    /\ UNCHANGED <<option50_ip, server_id, ip_address, expired, promisc, dhinfo, linked, net, owner>>

ResendRequest(p) ==
    /\ pc[p] = "ack" /\ ~expired[p]
    /\ Goto(p, "request")
    /\ UNCHANGED <<option50_ip, server_id, ip_address, expired, promisc, dhinfo, linked, net, owner>>

\* Mutants of RequestTimeout: the loop is left as after an ACK; the request is
\* sent again with the clock set back.
RequestTimeoutFinishes(p) ==
    /\ pc[p] = "ack" /\ expired[p]
    /\ Goto(p, "finish")
    /\ UNCHANGED <<option50_ip, server_id, ip_address, expired, promisc, dhinfo, linked, net, owner>>

RequestTimeoutRestarts(p) ==
    /\ pc[p] = "ack" /\ expired[p]
    /\ Goto(p, "request")
    /\ expired' = [expired EXCEPT ![p] = FALSE]
    /\ UNCHANGED <<option50_ip, server_id, ip_address, promisc, dhinfo, linked, net, owner>>

RequestTimeout(p) ==
    /\ pc[p] = "ack" /\ expired[p]
    /\ Goto(p, "exit1")
    /\ UNCHANGED <<option50_ip, server_id, ip_address, expired, promisc, dhinfo, linked, net, owner>>

-----------------------------------------------------------------------------
(* Listening on the acquired address (-b).  -T is not looked at any more.  *)
(* ARP requests and ICMP echo requests are answered the same way.          *)

\* Mutant of ReplyArp: the address asked for is answered for at once.
ReplyArpRequested(p) ==
    /\ pc[p] \in {"ack", "listen"}
    /\ net' = net \cup {Frame(p, "ARP", option50_ip[p], NoServer)}
    /\ UNCHANGED <<client, promisc, dhinfo, linked, owner>>

ReplyArp(p) ==
    /\ pc[p] = "listen"
    /\ net' = net \cup {Frame(p, "ARP", ip_address[p], NoServer)}
    /\ UNCHANGED <<client, promisc, dhinfo, linked, owner>>

ListenTimeout(p) ==
    /\ pc[p] = "listen"
    /\ Goto(p, "finish")
    /\ UNCHANGED <<option50_ip, server_id, ip_address, expired, promisc, dhinfo, linked, net, owner>>

-----------------------------------------------------------------------------
(* Releasing (-r).  get_dhinfo opens the file with mode "w", which empties *)
(* it, and then scans it: the scan assigns nothing, so the address, the    *)
(* server and the pid of the listener to kill are whatever the locals held *)
(* (even its own pid).  Then the file is unlinked.  An empty file and no   *)
(* file record the same lease: none.                                       *)

OpenDhinfo(p) ==
    /\ pc[p] = "getinfo"
    /\ Goto(p, "scan")
    /\ dhinfo' = [dhinfo EXCEPT ![dhmac[p]] = NoFile]
    /\ UNCHANGED <<option50_ip, server_id, ip_address, expired, promisc, linked, net, owner>>

GetDhinfo(p) ==
    /\ pc[p] = "scan"
    /\ \E r \in Residue :
         /\ option50_ip' = [option50_ip EXCEPT ![p] = r.ip]
         /\ server_id' = [server_id EXCEPT ![p] = r.sid]
         /\ pc' = [q \in Proc |->
                     IF q = r.pid /\ pc[q] \in Running THEN "killed"
                     ELSE IF q = p THEN "release" ELSE pc[q]]
         /\ \/ r.pid = p /\ UNCHANGED <<dhinfo, linked>>
            \/ /\ r.pid # p
               /\ dhinfo' = [dhinfo EXCEPT ![dhmac[p]] = NoFile]
               /\ linked' = {q \in linked : dhmac[q] # dhmac[p]}
    /\ UNCHANGED <<ip_address, expired, promisc, net, owner>>

\* The file cannot even be created: ERR_FILE_OPEN, exit(2).
GetDhinfoFails(p) ==
    /\ pc[p] = "getinfo" /\ "file" \in Faults
    /\ Goto(p, "exit2")
    /\ UNCHANGED <<option50_ip, server_id, ip_address, expired, promisc, dhinfo, linked, net, owner>>

-----------------------------------------------------------------------------
(* Environment: the clock, signals, the DHCP servers *)

Expire(p) ==
    /\ p \in Timed /\ pc[p] \in {"discover", "offer", "request", "ack"}
    /\ ~expired[p]
    /\ expired' = [expired EXCEPT ![p] = TRUE]
    /\ UNCHANGED <<pc, option50_ip, server_id, ip_address, promisc, dhinfo, linked, net, owner>>

Kill(p) ==
    /\ pc[p] \in Running /\ "kill" \in Faults
    /\ Goto(p, "killed")
    /\ UNCHANGED <<option50_ip, server_id, ip_address, expired, promisc, dhinfo, linked, net, owner>>

FreeFor(i, m) == owner[i] \in {NoMac, m}

\* Every client is offered one address and every address to one client.
SteadyOffer(i, m) ==
    \A o \in net : o.type = "OFFER" => (o.ip = i <=> o.mac = m)

ServerOffer(x) ==
    /\ \E m \in net, i \in Ip :
         /\ m.type = "DISCOVER" /\ m.xid = x
         /\ FreeFor(i, m.mac)
         /\ Reserve => SteadyOffer(i, m.mac)
         /\ net' = net \cup {Msg("OFFER", x, m.mac, i, PoolOf[i])}
    /\ UNCHANGED <<client, promisc, dhinfo, linked, owner>>

ServerAck(x) ==
    /\ \E m \in net :
         /\ m.type = "REQUEST" /\ m.xid = x /\ m.ip \in Ip
         /\ m.sid = PoolOf[m.ip] /\ FreeFor(m.ip, m.mac)
         /\ owner' = [owner EXCEPT ![m.ip] = m.mac]
         /\ net' = net \cup {Msg("ACK", x, m.mac, m.ip, m.sid)}
    /\ UNCHANGED <<client, promisc, dhinfo, linked>>

ServerNak(x) ==
    /\ \E m \in net :
         /\ m.type = "REQUEST" /\ m.xid = x /\ m.ip \in Ip
         /\ m.sid = PoolOf[m.ip] /\ ~FreeFor(m.ip, m.mac)
         /\ net' = net \cup {Msg("NAK", x, m.mac, NoIp, m.sid)}
    /\ UNCHANGED <<client, promisc, dhinfo, linked, owner>>

ServerRelease(x) ==
    /\ \E m \in net :
         /\ m.type = "RELEASE" /\ m.xid = x /\ m.ip \in Ip
         /\ m.sid = PoolOf[m.ip] /\ owner[m.ip] = m.mac
         /\ owner' = [owner EXCEPT ![m.ip] = NoMac]
    /\ UNCHANGED <<client, promisc, dhinfo, linked, net>>

-----------------------------------------------------------------------------
Step(p) ==
    \/ Start(p) \/ Finish(p)
    \/ SendDiscover(p) \/ SendRequest(p) \/ SendRelease(p)
    \/ RecvOffer(p) \/ ResendDiscover(p) \/ DiscoverTimeout(p)
    \/ RecvAck(p) \/ RecvNak(p) \/ ResendRequest(p) \/ RequestTimeout(p)
    \/ WriteLog(p) \/ ReplyArp(p) \/ ListenTimeout(p)
    \/ OpenDhinfo(p) \/ GetDhinfo(p)

Fault(p) ==
    \/ StartFails(p) \/ FinishFails(p) \/ SendFails(p)
    \/ RecvAckLogFails(p) \/ WriteLogFails(p) \/ GetDhinfoFails(p) \/ Kill(p)

ServerStep(x) ==
    ServerOffer(x) \/ ServerAck(x) \/ ServerNak(x) \/ ServerRelease(x)

Next ==
    \/ \E p \in Proc : Step(p) \/ Fault(p) \/ Expire(p)
    \/ \E x \in Xid : ServerStep(x)

Spec == Init /\ [][Next]_vars

\* The scheduler runs every process, select() returns when its time is up,
\* the clock advances past -T.  Nothing is promised by the servers.
ClientFairness ==
    \A p \in Proc :
        /\ WF_vars(Step(p)) /\ WF_vars(ListenTimeout(p)) /\ WF_vars(Expire(p))

\* In addition frames that keep being sent get through, both ways.
NetworkFairness ==
    /\ \A x \in Xid : SF_vars(ServerOffer(x)) /\ SF_vars(ServerAck(x))
    /\ \A p \in Proc : SF_vars(RecvOffer(p)) /\ SF_vars(RecvAck(p))

FairSpec == Spec /\ ClientFairness
LiveSpec == FairSpec /\ NetworkFairness
-----------------------------------------------------------------------------
(* Properties *)

TypeOK ==
    /\ pc \in [Proc -> Control]
    /\ option50_ip \in [Proc -> Ip \cup {NoIp}]
    /\ server_id \in [Proc -> Server \cup {NoServer}]
    /\ ip_address \in [Proc -> Ip \cup {NoIp}]
    /\ expired \in [Proc -> BOOLEAN]
    /\ promisc \in BOOLEAN
    /\ dhinfo \in [Mac -> LogFile]
    /\ linked \subseteq Proc
    /\ net \subseteq Message
    /\ owner \in [Ip -> Mac \cup {NoMac}]

\* The server that granted address i to client m says so in an ACK.
Granted(m, i, s) ==
    \E k \in net : k.type = "ACK" /\ k.mac = m /\ k.ip = i /\ k.sid = s

\* The address a file records comes from the ACK, its server from the OFFER
\* accepted earlier, and check_packet filters on the transaction id alone:
\* still the pair is a lease that very server granted to that very client.
LoggedLeaseGranted ==
    \A m \in Mac :
        dhinfo[m].exists => Granted(m, dhinfo[m].ip, dhinfo[m].sid)

\* However many OFFERs arrive, late or twice, and however often the loop of
\* main sends the REQUEST again, a run asks one server for one address, and
\* it is one that server offered to this client.
OneRequestPerRun ==
    \A a \in net : a.type = "REQUEST" =>
        /\ \A b \in net : b.type = "REQUEST" /\ b.xid = a.xid => b = a
        /\ \E o \in net : o = [a EXCEPT !.type = "OFFER"]

\* Two clients simulated on the host never hold the same address, whatever
\* the order in which their frames and their answers cross.
NoSharedAddress ==
    \A p, q \in Proc :
        ip_address[p] = ip_address[q] /\ ip_address[p] # NoIp
            => dhmac[p] = dhmac[q]

\* The process a file names, which a release is to kill, is a run for that MAC
\* that was given -b, has acquired the very address in the file and is past
\* writing it, however runs for the same MAC interleave.  It may have ended
\* since, and with -a it has not listened at all.
LogNamesItsListener ==
    \A m \in Mac, p \in Proc :
        dhinfo[m].pid = p =>
            /\ dhmac[p] = m /\ p \in Bind /\ ip_address[p] = dhinfo[m].ip
            /\ pc[p] \in {"listen", "finish"} \cup Ended

\* The runs that may have opened their log file.
Touched == {"log", "scan", "release", "listen", "finish", "exit0", "exit2", "killed"}

\* Conversely, a run that listens can be found by a release: the file of its
\* MAC names it, as long as what was written reached the disk and no other run
\* for the MAC has opened the file.  Only such a run leaves a listener behind
\* that no file names.
ListenerOnRecord ==
    "disk" \notin Faults =>
        \A p \in Proc : pc[p] = "listen" =>
            \/ dhinfo[dhmac[p]].pid = p
            \/ \E q \in Proc \ {p} : dhmac[q] = dhmac[p] /\ pc[q] \in Touched

\* Nobody is told that an address lives at a MAC it was not granted to: the
\* listen loop answers ARP and ICMP for the acknowledged address only.
ArpOnlyForLease ==
    \A a \in net : a.type = "ARP" =>
        \E s \in Server : Granted(a.mac, a.ip, s)

\* The exit status tells a caller (nagios, ovirt-remote) what happened: 0 from
\* an acquiring run means it holds a granted lease, 1 that it had asked for an
\* offered address and got no answer in time.
ExitStatusTruthful ==
    \A p \in Proc \ Releaser :
        /\ pc[p] = "exit0" =>
             \E s \in Server : Granted(dhmac[p], ip_address[p], s)
        /\ pc[p] = "exit1" =>
             /\ ip_address[p] = NoIp
             /\ \E m \in net : IsFor(m, "REQUEST", p)

\* An answer that arrives after -T seconds is too late: recv_packet may return
\* it, but main looks at the clock first.  A run that is over time neither takes
\* the address it is told nor opens the log file.
LateAnswerIgnored ==
    [][\A p \in Proc : expired[p] /\ ip_address[p] = NoIp =>
         /\ ip_address'[p] = NoIp /\ option50_ip'[p] = option50_ip[p]
         /\ pc'[p] \notin {"log", "listen", "finish", "exit0"}
         /\ p \notin linked']_vars

\* A run given -T ends, whatever the servers do and whatever is lost.
TimedTerminates ==
    \A p \in Timed : (pc[p] # "idle") ~> (pc[p] \in Ended)

\* A run without -T that has begun ends up holding an address, as long as
\* what is sent again and again gets through.
UntimedAcquires ==
    \A p \in Proc \ (Timed \cup Releaser) :
        (pc[p] = "discover") ~> (ip_address[p] # NoIp)

\* A release names the lease the log file holds when it begins (comment at
\* dhtest.c:473-477).
ReleaseNamesLoggedLease ==
    \A p \in Releaser, i \in Ip, s \in Server :
        (pc[p] = "getinfo" /\ dhinfo[dhmac[p]].ip = i /\ dhinfo[dhmac[p]].sid = s)
            ~> (\E m \in net : IsFor(m, "RELEASE", p) /\ m.ip = i /\ m.sid = s)
-----------------------------------------------------------------------------
(* The client implements the lease book: ACKs are the grants. *)

GrantsIn(frames) ==
    {[mac |-> k.mac, ip |-> k.ip, sid |-> k.sid] :
        k \in {f \in frames : f.type = "ACK"}}

Outcome(c) == IF c = "exit0" THEN "success"
              ELSE IF c \in Ended THEN "failure" ELSE "running"

Book == INSTANCE LeaseBook WITH
    granted <- GrantsIn(net), held <- ip_address, book <- dhinfo,
    entering <- {p \in Proc : pc[p] = "log"},
    outcome <- [p \in Proc |-> Outcome(pc[p])]

\* Every step of the exchange, with its resends, late and stray answers,
\* failures and kills, is a step of the lease book or invisible to it: a run
\* strikes the entry of its MAC when it comes to hold a lease, may then enter
\* that lease once, only one granted to it, and ends once.
ImplementsLeaseBook == Book!Spec
=============================================================================
