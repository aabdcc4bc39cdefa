-------------------------- MODULE DhcpClient_proofs --------------------------
(***************************************************************************)
(* Proofs about DhcpClient, for every set of runs, MACs, addresses,        *)
(* servers, options and failures.                                          *)
(***************************************************************************)
EXTENDS DhcpClient, TLAPS

\* The absent file is a file record like any other.
LEMMA NoFileType == NoFile \in LogFile
  BY DEF NoFile, LogFile

\* A lease record has the three fields get_dhinfo reads.
LEMMA ResidueType ==
  \A r \in Residue : r.ip \in Ip \cup {NoIp} /\ r.sid \in Server \cup {NoServer}
  BY ConstantTypes DEF Lease

\* So is what a run logs.
LEMMA LogEntryType ==
  ASSUME TypeOK, NEW p \in Proc
  PROVE  LogEntry(p) \in LogFile
  BY DEF TypeOK, LogEntry, LogFile

\* After logging main listens or comes to its end.
LEMMA AfterLogIs == \A p \in Proc : AfterLog(p) \in {"listen", "finish"}
  BY DEF AfterLog

\* Every field of every variable keeps to its range.
THEOREM TypeCorrect == Spec => []TypeOK
<1>1. Init => TypeOK
  <2> SUFFICES ASSUME Init PROVE TypeOK
    OBVIOUS
  <2>1. option50_ip \in [Proc -> Ip \cup {NoIp}]
    BY ConstantTypes DEF Init
  <2>2. pc \in [Proc -> Control]
    BY DEF Init, Control
  <2>3. dhinfo \in [Mac -> LogFile] /\ net \subseteq Message
    BY NoFileType DEF Init
  <2> QED
    BY <2>1, <2>2, <2>3 DEF Init, TypeOK
<1> USE DEF TypeOK, Message, Control, Running, Ended, MsgType
<1>2. TypeOK /\ [Next]_vars => TypeOK'
  <2> SUFFICES ASSUME TypeOK, [Next]_vars PROVE TypeOK'
    OBVIOUS
  <2> USE ConstantTypes DEF Goto, Frame, Msg, IsFor, Hears
  <2>1. ASSUME NEW p \in Proc, Start(p) PROVE TypeOK'
    BY <2>1 DEF Start
  <2>2. ASSUME NEW p \in Proc, Finish(p) PROVE TypeOK'
    BY <2>2 DEF Finish
  <2>3. ASSUME NEW p \in Proc, SendDiscover(p) PROVE TypeOK'
    BY <2>3 DEF SendDiscover
  <2>4. ASSUME NEW p \in Proc, SendRequest(p) PROVE TypeOK'
    BY <2>4 DEF SendRequest
  <2>5. ASSUME NEW p \in Proc, SendRelease(p) PROVE TypeOK'
    BY <2>5 DEF SendRelease
  <2>6. ASSUME NEW p \in Proc, RecvOffer(p) PROVE TypeOK'
    BY <2>6 DEF RecvOffer
  <2>7. ASSUME NEW p \in Proc, RecvAck(p) PROVE TypeOK'
    BY <2>7, NoFileType DEF RecvAck
  <2>8. ASSUME NEW p \in Proc, ReplyArp(p) PROVE TypeOK'
    BY <2>8 DEF ReplyArp, client
  <2>9. ASSUME NEW p \in Proc, GetDhinfo(p) PROVE TypeOK'
    BY <2>9, NoFileType, ResidueType DEF GetDhinfo
  <2>10. ASSUME NEW p \in Proc, Expire(p) PROVE TypeOK'
    BY <2>10 DEF Expire
  <2>11. ASSUME NEW p \in Proc,
                \/ ResendDiscover(p) \/ DiscoverTimeout(p) \/ RecvNak(p)
                \/ ResendRequest(p) \/ RequestTimeout(p) \/ ListenTimeout(p)
                \/ Fault(p)
         PROVE TypeOK'
    BY <2>11 DEF ResendDiscover, DiscoverTimeout, RecvNak, ResendRequest,
         RequestTimeout, ListenTimeout, Fault, StartFails, FinishFails,
         SendFails, RecvAckLogFails, WriteLogFails, AfterLog,
         GetDhinfoFails, Kill
  <2>14. ASSUME NEW p \in Proc, WriteLog(p) PROVE TypeOK'
    BY <2>14, LogEntryType DEF WriteLog, AfterLog
  <2>15. ASSUME NEW p \in Proc, OpenDhinfo(p) PROVE TypeOK'
    BY <2>15, NoFileType DEF OpenDhinfo
  <2>12. ASSUME NEW x \in Xid, ServerStep(x) PROVE TypeOK'
    BY <2>12 DEF ServerStep, ServerOffer, ServerAck, ServerNak, ServerRelease,
         client
  <2>13. CASE UNCHANGED vars
    BY <2>13 DEF vars, client
  <2> QED
    BY <2>1, <2>2, <2>3, <2>4, <2>5, <2>6, <2>7, <2>8, <2>9, <2>10, <2>11,
       <2>12, <2>13, <2>14, <2>15 DEF Next, Step
<1> QED
  BY <1>1, <1>2, PTL DEF Spec
-----------------------------------------------------------------------------
(* The inductive invariant.  Frames are never withdrawn, so a fact about   *)
(* one frame and the run it belongs to, once true, only depends on what    *)
(* that run does to the address and the server it remembers.               *)

\* A transaction id and a hardware address in a frame belong to one run.
FramesOfRuns ==
    \A m \in net : \E p \in Proc : m.xid = dhcp_xid[p] /\ m.mac = dhmac[p]

\* A REQUEST repeats an OFFER, and what its run remembers still agrees with it.
RequestsKept ==
    \A m \in net : m.type = "REQUEST" =>
        /\ [m EXCEPT !.type = "OFFER"] \in net
        /\ \A p \in Proc : m.xid = dhcp_xid[p] =>
             /\ m.ip = option50_ip[p] /\ m.sid = server_id[p]
             /\ pc[p] \in {"request", "ack", "log", "listen", "finish"} \cup Ended

\* A run that asks has been offered what it asks for.
AskingOffered ==
    \A p \in Proc : pc[p] \in {"request", "ack"} =>
        Frame(p, "OFFER", option50_ip[p], server_id[p]) \in net

\* An ACK repeats a REQUEST, for an address that exists.
AcksAnswer ==
    \A k \in net : k.type = "ACK" =>
        /\ k.ip \in Ip /\ k.sid \in Server
        /\ [k EXCEPT !.type = "REQUEST"] \in net

\* An address held was granted, to the run that holds it.
HeldGranted ==
    \A p \in Proc : ip_address[p] # NoIp =>
        \E s \in Server : Granted(dhmac[p], ip_address[p], s)

\* What a run is about to log was granted: address, server and all.
ToLogGranted ==
    \A p \in Proc : pc[p] = "log" => Granted(dhmac[p], ip_address[p], server_id[p])

\* Where a run is tells whether it holds an address and has sent its REQUEST.
Phases ==
    \A p \in Proc :
        /\ pc[p] \in {"idle", "discover", "offer", "request", "ack", "getinfo",
                     "scan", "release", "exit1"} => ip_address[p] = NoIp
        /\ pc[p] \in {"log", "listen"} => ip_address[p] # NoIp
        /\ pc[p] \in {"finish", "exit0"} /\ p \notin Releaser => ip_address[p] # NoIp
        /\ pc[p] \in {"getinfo", "scan", "release"} => p \in Releaser
        /\ pc[p] \in {"discover", "offer", "request", "ack", "log", "listen"}
           \/ expired[p]
             => p \notin Releaser
        /\ pc[p] \in {"ack", "exit1"} => \E m \in net : IsFor(m, "REQUEST", p)

IInv ==
    /\ TypeOK /\ FramesOfRuns /\ RequestsKept /\ AskingOffered /\ AcksAnswer
    /\ HeldGranted /\ ToLogGranted /\ Phases /\ ArpOnlyForLease /\ LoggedLeaseGranted
-----------------------------------------------------------------------------
\* The actions that send, and what they add to net; every other one leaves
\* net alone.  No frame is ever withdrawn.
LEMMA NetGrows == [Next]_vars => net \subseteq net'
  BY DEF Next, Step, Fault, ServerStep, Start, Finish, SendDiscover, SendRequest,
     SendRelease, RecvOffer, ResendDiscover, DiscoverTimeout, RecvAck, RecvNak,
     ResendRequest, RequestTimeout, ReplyArp, ListenTimeout, GetDhinfo,
     StartFails, FinishFails, SendFails, WriteLog, WriteLogFails, AfterLog, OpenDhinfo,
     RecvAckLogFails, GetDhinfoFails, Kill,
     Expire, ServerOffer, ServerAck, ServerNak, ServerRelease, vars, client

\* A frame carrying the transaction id of a run carries its MAC.
LEMMA FrameMac ==
  ASSUME FramesOfRuns, NEW m \in net, NEW p \in Proc, m.xid = dhcp_xid[p]
  PROVE  m.mac = dhmac[p]
  BY DistinctXids DEF FramesOfRuns

\* A frame is determined by its type, its run, its address and its server.
LEMMA FrameIs ==
  ASSUME TypeOK, FramesOfRuns, NEW m \in net, NEW p \in Proc, NEW t,
         IsFor(m, t, p)
  PROVE  m = Frame(p, t, m.ip, m.sid)
  BY FrameMac DEF TypeOK, Message, IsFor, Frame, Msg

\* Whoever sends copies the transaction id and the MAC from the run or from
\* the frame that is answered, so no step mixes those of two runs.
LEMMA FramesOfRunsStep == IInv /\ TypeOK' /\ [Next]_vars => FramesOfRuns'
<1> SUFFICES ASSUME IInv, [Next]_vars PROVE FramesOfRuns'
  OBVIOUS
<1> USE DEF IInv, FramesOfRuns
<1>1. ASSUME NEW p \in Proc,
             SendDiscover(p) \/ SendRequest(p) \/ SendRelease(p) \/ ReplyArp(p)
      PROVE  FramesOfRuns'
  BY <1>1 DEF SendDiscover, SendRequest, SendRelease, ReplyArp, Frame, Msg
<1>2. ASSUME NEW x \in Xid, ServerOffer(x) \/ ServerAck(x) \/ ServerNak(x)
      PROVE  FramesOfRuns'
  BY <1>2 DEF ServerOffer, ServerAck, ServerNak, Msg
<1>3. CASE UNCHANGED net
  BY <1>3
<1> QED
  BY <1>1, <1>2, <1>3 DEF Next, Step, Fault, ServerStep, Start, Finish,
     RecvOffer, ResendDiscover, DiscoverTimeout, RecvAck, RecvNak,
     ResendRequest, RequestTimeout, ListenTimeout, GetDhinfo, StartFails,
     FinishFails, SendFails, WriteLog, WriteLogFails, AfterLog, OpenDhinfo,
     RecvAckLogFails, GetDhinfoFails, Kill, Expire,
     ServerRelease, vars
-----------------------------------------------------------------------------
\* Actions that touch neither net nor anything a run remembers.
Quiet(p) ==
    \/ Start(p) \/ Finish(p) \/ ResendDiscover(p) \/ DiscoverTimeout(p)
    \/ RecvNak(p) \/ ResendRequest(p) \/ RequestTimeout(p) \/ ListenTimeout(p)
    \/ WriteLog(p) \/ OpenDhinfo(p) \/ Fault(p) \/ Expire(p)

\* The steps that end a run without a lease being held for the caller.
Ends(p) ==
    \/ DiscoverTimeout(p) \/ RequestTimeout(p) \/ StartFails(p) \/ FinishFails(p)
    \/ SendFails(p) \/ RecvAckLogFails(p) \/ GetDhinfoFails(p) \/ Kill(p)

\* They change nothing else than where the run is, and the interface.
LEMMA EndsOnly ==
  ASSUME NEW p \in Proc, Ends(p)
  PROVE  /\ \/ Goto(p, "exit1") /\ pc[p] = "ack"
            \/ Goto(p, "exit2") \/ Goto(p, "killed")
         /\ UNCHANGED <<option50_ip, server_id, ip_address, expired, dhinfo,
                        linked, net>>
  BY DEF Ends, DiscoverTimeout, RequestTimeout, StartFails, FinishFails,
     SendFails, RecvAckLogFails, GetDhinfoFails, Kill

\* No step changes what a run remembers once its REQUEST is out: OFFERs are
\* only taken in the loop that main has left by then.
LEMMA RequestsKeptStep == IInv /\ [Next]_vars => RequestsKept'
<1> SUFFICES ASSUME IInv, [Next]_vars PROVE RequestsKept'
  OBVIOUS
<1> USE DEF IInv, RequestsKept, TypeOK, Ended
<1>1. ASSUME NEW p \in Proc, SendRequest(p) PROVE RequestsKept'
  <2>1. [Frame(p, "REQUEST", option50_ip[p], server_id[p]) EXCEPT !.type = "OFFER"]
          = Frame(p, "OFFER", option50_ip[p], server_id[p])
    BY DEF Frame, Msg
  <2>2. Frame(p, "OFFER", option50_ip[p], server_id[p]) \in net
    BY <1>1 DEF SendRequest, AskingOffered
  <2> QED
    BY <1>1, <2>1, <2>2, DistinctXids DEF SendRequest, Frame, Msg, Goto
<1>2. ASSUME NEW p \in Proc, SendDiscover(p) \/ SendRelease(p) \/ ReplyArp(p)
      PROVE  RequestsKept'
  BY <1>2 DEF SendDiscover, SendRelease, ReplyArp, Frame, Msg, Goto, client
<1>3. ASSUME NEW p \in Proc, RecvOffer(p) PROVE RequestsKept'
  BY <1>3 DEF RecvOffer, Goto
<1>4. ASSUME NEW p \in Proc, RecvAck(p) PROVE RequestsKept'
  BY <1>4 DEF RecvAck, Goto
<1>5. ASSUME NEW p \in Proc, GetDhinfo(p) PROVE RequestsKept'
  BY <1>5 DEF GetDhinfo
<1>6. ASSUME NEW p \in Proc, Quiet(p) PROVE RequestsKept'
  <2>1. ASSUME WriteLog(p) \/ WriteLogFails(p) PROVE RequestsKept'
    <3>1. /\ pc[p] = "log" /\ pc' = [pc EXCEPT ![p] = AfterLog(p)]
          /\ UNCHANGED <<option50_ip, server_id, ip_address, expired, net>>
      BY <2>1 DEF WriteLog, WriteLogFails, Goto
    <3>2. AfterLog(p) = "listen" \/ AfterLog(p) = "finish"
      BY AfterLogIs
    <3> QED
      BY <3>1, <3>2
  <2>2. ASSUME Ends(p) PROVE RequestsKept'
    BY <2>2, EndsOnly DEF Goto
  <2>4. ASSUME Expire(p) PROVE RequestsKept'
    BY <2>4 DEF Expire
  <2>3. ASSUME \/ Start(p) \/ Finish(p) \/ ResendDiscover(p) \/ RecvNak(p)
               \/ ResendRequest(p) \/ ListenTimeout(p) \/ OpenDhinfo(p)
        PROVE  RequestsKept'
    BY <2>3 DEF Start, Finish, ResendDiscover, RecvNak, ResendRequest,
       ListenTimeout, OpenDhinfo, Goto
  <2> QED
    BY <1>6, <2>1, <2>2, <2>3, <2>4 DEF Quiet, Fault, Ends
<1>7. ASSUME NEW x \in Xid, ServerStep(x) PROVE RequestsKept'
  BY <1>7 DEF ServerStep, ServerOffer, ServerAck, ServerNak, ServerRelease,
     client, Msg
<1>8. CASE UNCHANGED vars
  BY <1>8 DEF vars, client
<1> QED
  BY <1>1, <1>2, <1>3, <1>4, <1>5, <1>6, <1>7, <1>8 DEF Next, Step, Quiet

\* The address and the server of a REQUEST come from one and the same OFFER.
LEMMA AskingOfferedStep == IInv /\ [Next]_vars => AskingOffered'
<1> SUFFICES ASSUME IInv, [Next]_vars PROVE AskingOffered'
  OBVIOUS
<1>a. net \subseteq net'
  BY NetGrows
<1> USE <1>a DEF IInv, AskingOffered, TypeOK, Ended, Frame
<1>1. ASSUME NEW p \in Proc, RecvOffer(p) PROVE AskingOffered'
  <2>1. PICK m \in net : /\ IsFor(m, "OFFER", p)
                         /\ option50_ip' = [option50_ip EXCEPT ![p] = m.ip]
                         /\ server_id' = [server_id EXCEPT ![p] = m.sid]
    BY <1>1 DEF RecvOffer
  <2>2. m = Frame(p, "OFFER", m.ip, m.sid)
    BY <2>1, FrameIs
  <2> QED
    BY <1>1, <2>1, <2>2 DEF RecvOffer, Goto
<1>2. ASSUME NEW p \in Proc,
             \/ SendDiscover(p) \/ SendRequest(p) \/ SendRelease(p)
             \/ ReplyArp(p) \/ RecvAck(p)
      PROVE  AskingOffered'
  BY <1>2 DEF SendDiscover, SendRequest, SendRelease, ReplyArp, RecvAck, Goto, client
<1>3. ASSUME NEW p \in Proc, GetDhinfo(p) PROVE AskingOffered'
  BY <1>3 DEF GetDhinfo
<1>4. ASSUME NEW p \in Proc, Quiet(p) PROVE AskingOffered'
  BY <1>4 DEF Quiet, Start, Finish, ResendDiscover, DiscoverTimeout, RecvNak,
     ResendRequest, RequestTimeout, ListenTimeout, Fault, StartFails,
     FinishFails, SendFails, WriteLog, WriteLogFails, AfterLog, OpenDhinfo,
     RecvAckLogFails, GetDhinfoFails, Kill, Expire, Goto
<1>5. ASSUME NEW x \in Xid, ServerStep(x) PROVE AskingOffered'
  BY <1>5 DEF ServerStep, ServerOffer, ServerAck, ServerNak, ServerRelease, client
<1>6. CASE UNCHANGED vars
  BY <1>6 DEF vars, client
<1> QED
  BY <1>1, <1>2, <1>3, <1>4, <1>5, <1>6 DEF Next, Step, Quiet

\* Servers acknowledge only what was requested of them.
LEMMA AcksAnswerStep == IInv /\ [Next]_vars => AcksAnswer'
<1> SUFFICES ASSUME IInv, [Next]_vars PROVE AcksAnswer'
  OBVIOUS
<1> USE DEF IInv, AcksAnswer, TypeOK
<1>1. ASSUME NEW x \in Xid, ServerAck(x) PROVE AcksAnswer'
  <2>1. PICK m \in net :
          /\ m.type = "REQUEST" /\ m.xid = x /\ m.ip \in Ip
          /\ m.sid = PoolOf[m.ip]
          /\ net' = net \cup {Msg("ACK", x, m.mac, m.ip, m.sid)}
    BY <1>1 DEF ServerAck
  <2>2. [Msg("ACK", x, m.mac, m.ip, m.sid) EXCEPT !.type = "REQUEST"] = m
    BY <2>1 DEF Msg, Message
  <2> QED
    BY <2>1, <2>2, ConstantTypes DEF Msg
<1>2. ASSUME NEW x \in Xid, ServerOffer(x) \/ ServerNak(x) \/ ServerRelease(x)
      PROVE  AcksAnswer'
  BY <1>2 DEF ServerOffer, ServerNak, ServerRelease, Msg
<1>3. ASSUME NEW p \in Proc,
             SendDiscover(p) \/ SendRequest(p) \/ SendRelease(p) \/ ReplyArp(p)
      PROVE  AcksAnswer'
  BY <1>3 DEF SendDiscover, SendRequest, SendRelease, ReplyArp, Frame, Msg
<1>4. CASE UNCHANGED net
  BY <1>4
<1> QED
  BY <1>1, <1>2, <1>3, <1>4 DEF Next, Step, Fault, ServerStep, Start, Finish,
     RecvOffer, ResendDiscover, DiscoverTimeout, RecvAck, RecvNak,
     ResendRequest, RequestTimeout, ListenTimeout, GetDhinfo, StartFails,
     FinishFails, SendFails, WriteLog, WriteLogFails, AfterLog, OpenDhinfo,
     RecvAckLogFails, GetDhinfoFails, Kill, Expire, vars
-----------------------------------------------------------------------------
\* The heart of the argument: the ACK a run accepts names the server the run
\* remembers from the OFFER and the MAC of the run, though check_packet looks
\* at neither.
LEMMA AcceptedAck ==
  ASSUME IInv, NEW p \in Proc, NEW m \in net, IsFor(m, "ACK", p)
  PROVE  /\ m.ip \in Ip /\ m.ip # NoIp
         /\ m.sid = server_id[p] /\ m.sid \in Server
         /\ Granted(dhmac[p], m.ip, server_id[p])
<1>1. m.ip \in Ip /\ m.sid \in Server /\ [m EXCEPT !.type = "REQUEST"] \in net
  BY DEF IInv, AcksAnswer, IsFor
<1>2. m \in Message
  BY DEF IInv, TypeOK
<1>3. m.sid = server_id[p]
  <2> DEFINE r == [m EXCEPT !.type = "REQUEST"]
  <2>1. r.type = "REQUEST" /\ r.xid = dhcp_xid[p] /\ r.sid = m.sid
    BY <1>2 DEF IsFor, Message
  <2> QED
    BY <1>1, <2>1 DEF IInv, RequestsKept
<1>4. m.mac = dhmac[p]
  BY FrameMac DEF IInv, IsFor
<1> QED
  BY <1>1, <1>3, <1>4, ConstantTypes DEF Granted, IsFor

\* log_dhinfo is the only place that sets ip_address, from an ACK.
LEMMA HeldGrantedStep == IInv /\ [Next]_vars => HeldGranted'
<1> SUFFICES ASSUME IInv, [Next]_vars PROVE HeldGranted'
  OBVIOUS
<1>1. ASSUME NEW p \in Proc, RecvAck(p) PROVE HeldGranted'
  <2>1. PICK m \in net : IsFor(m, "ACK", p)
                         /\ ip_address' = [ip_address EXCEPT ![p] = m.ip]
    BY <1>1 DEF RecvAck
  <2> SUFFICES ASSUME NEW q \in Proc, ip_address'[q] # NoIp
               PROVE  \E s \in Server, k \in net :
                        /\ k.type = "ACK" /\ k.mac = dhmac[q]
                        /\ k.ip = ip_address'[q] /\ k.sid = s
    BY <1>1 DEF HeldGranted, Granted, RecvAck
  <2>2. CASE q = p
    <3>1. Granted(dhmac[p], m.ip, server_id[p]) /\ server_id[p] \in Server
      BY <2>1, AcceptedAck
    <3>2. ip_address'[p] = m.ip
      BY <2>1 DEF IInv, TypeOK
    <3> QED
      BY <2>2, <3>1, <3>2 DEF Granted
  <2>3. CASE q # p
    BY <2>1, <2>3 DEF IInv, TypeOK, HeldGranted, Granted
  <2> QED
    BY <2>2, <2>3
<1>2. CASE UNCHANGED ip_address
  BY <1>2, NetGrows DEF IInv, HeldGranted, Granted
<1> QED
  BY <1>1, <1>2 DEF Next, Step, Fault, ServerStep, Start, Finish, SendDiscover,
     SendRequest, SendRelease, RecvOffer, ResendDiscover, DiscoverTimeout,
     RecvNak, ResendRequest, RequestTimeout, ReplyArp, ListenTimeout, GetDhinfo,
     StartFails, FinishFails, SendFails, WriteLog, WriteLogFails, AfterLog, OpenDhinfo,
     RecvAckLogFails, GetDhinfoFails, Kill,
     Expire, ServerOffer, ServerAck, ServerNak, ServerRelease, vars, client

\* The ACK a run accepts and what it remembers of the OFFER are one grant,
\* and it still remembers it when it comes to write.
LEMMA ToLogGrantedStep == IInv /\ [Next]_vars => ToLogGranted'
<1> SUFFICES ASSUME IInv, [Next]_vars, NEW p \in Proc, pc'[p] = "log"
             PROVE  (Granted(dhmac[p], ip_address[p], server_id[p]))'
  BY DEF ToLogGranted
<1> USE DEF IInv, TypeOK
<1>1. CASE RecvAck(p)
  <2>1. PICK m \in net : IsFor(m, "ACK", p)
                         /\ ip_address' = [ip_address EXCEPT ![p] = m.ip]
    BY <1>1 DEF RecvAck
  <2>2. Granted(dhmac[p], m.ip, server_id[p])
    BY <2>1, AcceptedAck
  <2> QED
    BY <1>1, <2>1, <2>2 DEF RecvAck, Granted
<1>2. ASSUME pc[p] = "log", ip_address'[p] = ip_address[p],
             server_id'[p] = server_id[p]
      PROVE  (Granted(dhmac[p], ip_address[p], server_id[p]))'
  BY <1>2, NetGrows DEF ToLogGranted, Granted
<1>3. ASSUME NEW q \in Proc, RecvAck(q), q # p
      PROVE  /\ pc[p] = "log" /\ ip_address'[p] = ip_address[p]
             /\ server_id'[p] = server_id[p]
  BY <1>3 DEF RecvAck, Goto
<1>4. ASSUME NEW q \in Proc, Quiet(q)
      PROVE  /\ pc[p] = "log" /\ ip_address'[p] = ip_address[p]
             /\ server_id'[p] = server_id[p]
  BY <1>4 DEF Quiet, Start, Finish, ResendDiscover, DiscoverTimeout, RecvNak,
     ResendRequest, RequestTimeout, ListenTimeout, Fault, StartFails,
     FinishFails, SendFails, WriteLog, WriteLogFails, AfterLog, OpenDhinfo,
     RecvAckLogFails, GetDhinfoFails, Kill, Expire, Goto
<1>5. ASSUME NEW q \in Proc,
             \/ SendDiscover(q) \/ SendRequest(q) \/ SendRelease(q)
             \/ ReplyArp(q) \/ RecvOffer(q) \/ GetDhinfo(q)
      PROVE  /\ pc[p] = "log" /\ ip_address'[p] = ip_address[p]
             /\ server_id'[p] = server_id[p]
  BY <1>5 DEF SendDiscover, SendRequest, SendRelease, ReplyArp, RecvOffer,
     GetDhinfo, Goto, client
<1>6. ASSUME (\E x \in Xid : ServerStep(x)) \/ UNCHANGED vars
      PROVE  /\ pc[p] = "log" /\ ip_address'[p] = ip_address[p]
             /\ server_id'[p] = server_id[p]
  BY <1>6 DEF ServerStep, ServerOffer, ServerAck, ServerNak, ServerRelease,
     vars, client
<1> QED
  BY <1>1, <1>2, <1>3, <1>4, <1>5, <1>6 DEF Next, Step, Quiet

\* What is written was granted; opening and releasing only empty the file.
LEMMA LoggedLeaseStep == IInv /\ [Next]_vars => LoggedLeaseGranted'
<1> SUFFICES ASSUME IInv, [Next]_vars PROVE LoggedLeaseGranted'
  OBVIOUS
<1>1. ASSUME NEW p \in Proc, WriteLog(p) PROVE LoggedLeaseGranted'
  <2>1. Granted(dhmac[p], ip_address[p], server_id[p])
    BY <1>1 DEF WriteLog, IInv, ToLogGranted
  <2> QED
    BY <1>1, <2>1 DEF WriteLog, LogEntry, IInv, TypeOK, LoggedLeaseGranted, Granted
<1>2. ASSUME NEW p \in Proc, RecvAck(p) \/ OpenDhinfo(p) \/ GetDhinfo(p)
      PROVE  LoggedLeaseGranted'
  BY <1>2 DEF RecvAck, OpenDhinfo, GetDhinfo, NoFile, IInv, TypeOK,
     LoggedLeaseGranted, Granted
<1>3. CASE UNCHANGED dhinfo
  BY <1>3, NetGrows DEF IInv, LoggedLeaseGranted, Granted
<1> QED
  BY <1>1, <1>2, <1>3 DEF Next, Step, Fault, ServerStep, Start, Finish,
     SendDiscover, SendRequest, SendRelease, RecvOffer, ResendDiscover,
     DiscoverTimeout, RecvNak, ResendRequest, RequestTimeout, ReplyArp,
     ListenTimeout, StartFails, FinishFails, SendFails, RecvAckLogFails,
     WriteLogFails, GetDhinfoFails, Kill, Expire, ServerOffer, ServerAck,
     ServerNak, ServerRelease, vars, client

\* The listen loop answers with ip_address, which is granted by then.
LEMMA ArpOnlyStep == IInv /\ [Next]_vars => ArpOnlyForLease'
<1> SUFFICES ASSUME IInv, [Next]_vars PROVE ArpOnlyForLease'
  OBVIOUS
<1>1. ASSUME NEW p \in Proc, ReplyArp(p) PROVE ArpOnlyForLease'
  <2>1. PICK s \in Server : Granted(dhmac[p], ip_address[p], s)
    BY <1>1 DEF ReplyArp, IInv, Phases, HeldGranted
  <2> QED
    BY <1>1, <2>1, NetGrows
       DEF ReplyArp, Frame, Msg, IInv, ArpOnlyForLease, Granted
<1>2. ASSUME NEW p \in Proc, SendDiscover(p) \/ SendRequest(p) \/ SendRelease(p)
      PROVE  ArpOnlyForLease'
  BY <1>2, NetGrows DEF SendDiscover, SendRequest, SendRelease, Frame, Msg,
     IInv, ArpOnlyForLease, Granted
<1>3. ASSUME NEW x \in Xid, ServerStep(x) PROVE ArpOnlyForLease'
  BY <1>3, NetGrows DEF ServerStep, ServerOffer, ServerAck, ServerNak,
     ServerRelease, Msg, IInv, ArpOnlyForLease, Granted
<1>4. CASE UNCHANGED net
  BY <1>4 DEF IInv, ArpOnlyForLease, Granted
<1> QED
  BY <1>1, <1>2, <1>3, <1>4 DEF Next, Step, Fault, Start, Finish, RecvOffer,
     ResendDiscover, DiscoverTimeout, RecvAck, RecvNak, ResendRequest,
     RequestTimeout, ListenTimeout, GetDhinfo, StartFails, FinishFails,
     SendFails, WriteLog, WriteLogFails, AfterLog, OpenDhinfo, RecvAckLogFails,
     GetDhinfoFails, Kill, Expire, vars

\* main reaches its listen loop and its normal end through log_dhinfo only.
LEMMA PhasesStep == IInv /\ [Next]_vars => Phases'
<1> SUFFICES ASSUME IInv, [Next]_vars PROVE Phases'
  OBVIOUS
<1>a. net \subseteq net'
  BY NetGrows
<1> USE <1>a DEF IInv, TypeOK, Phases, Ended, Running, IsFor
<1>1. ASSUME NEW p \in Proc, SendRequest(p) PROVE Phases'
  <2> DEFINE f == Frame(p, "REQUEST", option50_ip[p], server_id[p])
  <2>1. f \in net' /\ f.type = "REQUEST" /\ f.xid = dhcp_xid[p]
    BY <1>1 DEF SendRequest, Frame, Msg
  <2> HIDE DEF f
  <2> QED
    BY <1>1, <2>1 DEF SendRequest, Goto
<1>2. ASSUME NEW p \in Proc,
             SendDiscover(p) \/ SendRelease(p) \/ ReplyArp(p) \/ RecvOffer(p)
      PROVE  Phases'
  BY <1>2 DEF SendDiscover, SendRelease, ReplyArp, RecvOffer, Goto, client
<1>3. ASSUME NEW p \in Proc, RecvAck(p) PROVE Phases'
  <2>1. PICK m \in net : IsFor(m, "ACK", p)
                         /\ ip_address' = [ip_address EXCEPT ![p] = m.ip]
    BY <1>3 DEF RecvAck
  <2>2. m.ip # NoIp
    BY <2>1, AcceptedAck
  <2> QED
    BY <1>3, <2>1, <2>2 DEF RecvAck, Goto
<1>4. ASSUME NEW p \in Proc, GetDhinfo(p) PROVE Phases'
  BY <1>4 DEF GetDhinfo
<1>5. ASSUME NEW p \in Proc, Quiet(p) PROVE Phases'
  <2>1. ASSUME WriteLog(p) \/ WriteLogFails(p) PROVE Phases'
    <3>1. /\ pc[p] = "log" /\ pc' = [pc EXCEPT ![p] = AfterLog(p)]
          /\ UNCHANGED <<option50_ip, server_id, ip_address, expired, net>>
      BY <2>1 DEF WriteLog, WriteLogFails, Goto
    <3>2. AfterLog(p) = "listen" \/ AfterLog(p) = "finish"
      BY AfterLogIs
    <3> QED
      BY <3>1, <3>2
  <2>2. ASSUME Ends(p) PROVE Phases'
    BY <2>2, EndsOnly DEF Goto
  <2>4. ASSUME Expire(p) PROVE Phases'
    BY <2>4 DEF Expire
  <2>3. ASSUME \/ Start(p) \/ Finish(p) \/ ResendDiscover(p) \/ RecvNak(p)
               \/ ResendRequest(p) \/ ListenTimeout(p) \/ OpenDhinfo(p)
        PROVE  Phases'
    BY <2>3 DEF Start, Finish, ResendDiscover, RecvNak, ResendRequest,
       ListenTimeout, OpenDhinfo, Goto
  <2> QED
    BY <1>5, <2>1, <2>2, <2>3, <2>4 DEF Quiet, Fault, Ends
<1>6. ASSUME NEW x \in Xid, ServerStep(x) PROVE Phases'
  BY <1>6 DEF ServerStep, ServerOffer, ServerAck, ServerNak, ServerRelease, client
<1>7. CASE UNCHANGED vars
  BY <1>7 DEF vars, client
<1> QED
  BY <1>1, <1>2, <1>3, <1>4, <1>5, <1>6, <1>7 DEF Next, Step, Quiet
-----------------------------------------------------------------------------
\* The inductive invariant holds: Init establishes it, every step keeps it.
THEOREM Invariance == Spec => []IInv
<1>1. Init /\ TypeOK => IInv
  BY DEF Init, IInv, FramesOfRuns, RequestsKept, AskingOffered, AcksAnswer,
     HeldGranted, ToLogGranted, Phases, ArpOnlyForLease, LoggedLeaseGranted, NoFile
<1>2. IInv /\ TypeOK' /\ [Next]_vars => IInv'
  BY FramesOfRunsStep, RequestsKeptStep, AskingOfferedStep, AcksAnswerStep,
     HeldGrantedStep, ToLogGrantedStep, PhasesStep, ArpOnlyStep, LoggedLeaseStep DEF IInv
<1> QED
  BY <1>1, <1>2, TypeCorrect, PTL DEF Spec

\* Whatever a log file records is a lease that server granted to that client,
\* for any number of runs, servers and addresses and any delivery of frames.
THEOREM LoggedLeases == Spec => []LoggedLeaseGranted
<1>1. IInv => LoggedLeaseGranted
  BY DEF IInv
<1> QED
  BY <1>1, Invariance, PTL

\* A run never asks for two things, and only for what it was offered.
THEOREM OneRequest == Spec => []OneRequestPerRun
<1>1. IInv => OneRequestPerRun
  <2> SUFFICES ASSUME IInv, NEW a \in net, a.type = "REQUEST"
               PROVE  /\ [a EXCEPT !.type = "OFFER"] \in net
                      /\ \A b \in net :
                           b.type = "REQUEST" /\ b.xid = a.xid => b = a
    BY DEF OneRequestPerRun
  <2>1. [a EXCEPT !.type = "OFFER"] \in net
    BY DEF IInv, RequestsKept
  <2>2. PICK p \in Proc : a.xid = dhcp_xid[p]
    BY DEF IInv, FramesOfRuns
  <2>3. ASSUME NEW b \in net, b.type = "REQUEST", b.xid = a.xid PROVE b = a
    <3>1. a = Frame(p, "REQUEST", a.ip, a.sid) /\ b = Frame(p, "REQUEST", b.ip, b.sid)
      BY <2>2, <2>3, FrameIs DEF IInv, IsFor
    <3>2. a.ip = b.ip /\ a.sid = b.sid
      BY <2>2, <2>3 DEF IInv, RequestsKept
    <3> QED
      BY <3>1, <3>2
  <2> QED
    BY <2>1, <2>3
<1> QED
  BY <1>1, Invariance, PTL

\* ARP and ICMP are answered for granted addresses only.
THEOREM ArpOnly == Spec => []ArpOnlyForLease
<1>1. IInv => ArpOnlyForLease
  BY DEF IInv
<1> QED
  BY <1>1, Invariance, PTL

\* The exit status of an acquiring run can be relied on.
THEOREM ExitStatus == Spec => []ExitStatusTruthful
<1>1. IInv => ExitStatusTruthful
  BY DEF IInv, Phases, HeldGranted, ExitStatusTruthful
<1> QED
  BY <1>1, Invariance, PTL

\* A run that is over time takes no answer any more.
THEOREM LateAnswers == Spec => LateAnswerIgnored
<1> DEFINE Late(p) ==
      expired[p] /\ ip_address[p] = NoIp =>
        /\ ip_address'[p] = NoIp /\ option50_ip'[p] = option50_ip[p]
        /\ pc'[p] \notin {"log", "listen", "finish", "exit0"}
        /\ p \notin linked'
<1> DEFINE L == \A p \in linked : ip_address[p] # NoIp
<1>a. Init => L
  BY DEF Init
<1>b. IInv /\ L /\ [Next]_vars => L'
  <2> SUFFICES ASSUME IInv, L, [Next]_vars PROVE L'
    OBVIOUS
  <2>1. ASSUME NEW p \in Proc, RecvAck(p) PROVE L'
    <3>1. PICK m \in net : IsFor(m, "ACK", p)
                           /\ ip_address' = [ip_address EXCEPT ![p] = m.ip]
      BY <2>1 DEF RecvAck
    <3>2. m.ip # NoIp
      BY <3>1, AcceptedAck
    <3> QED
      BY <2>1, <3>1, <3>2 DEF RecvAck, IInv, TypeOK
  <2>2. CASE linked' \subseteq linked /\ UNCHANGED ip_address
    BY <2>2
  <2> QED
    BY <2>1, <2>2 DEF Next, Step, Fault, ServerStep, Start, Finish, SendDiscover,
       SendRequest, SendRelease, RecvOffer, ResendDiscover, DiscoverTimeout,
       RecvNak, ResendRequest, RequestTimeout, WriteLog, ReplyArp, ListenTimeout,
       OpenDhinfo, GetDhinfo, StartFails, FinishFails, SendFails, RecvAckLogFails,
       WriteLogFails, GetDhinfoFails, Kill, Expire, ServerOffer, ServerAck,
       ServerNak, ServerRelease, vars, client
<1>1. IInv /\ L /\ [Next]_vars => \A p \in Proc : Late(p)
  <2> SUFFICES ASSUME IInv, L, [Next]_vars, NEW p \in Proc,
                      expired[p], ip_address[p] = NoIp
               PROVE  /\ ip_address'[p] = NoIp /\ option50_ip'[p] = option50_ip[p]
                      /\ pc'[p] \notin {"log", "listen", "finish", "exit0"}
                      /\ p \notin linked'
    OBVIOUS
  <2>1. pc[p] \notin {"log", "listen", "finish", "exit0", "getinfo",
                     "scan", "release"}
    BY DEF IInv, Phases
  <2> USE <2>1 DEF IInv, TypeOK, Goto
  <2>2. ASSUME NEW q \in Proc, RecvOffer(q) \/ RecvAck(q)
        PROVE  /\ p # q /\ ip_address'[p] = ip_address[p] /\ pc'[p] = pc[p]
               /\ option50_ip'[p] = option50_ip[p]
    BY <2>2 DEF RecvOffer, RecvAck
  <2>3. ASSUME NEW q \in Proc, GetDhinfo(q)
        PROVE  /\ p # q /\ ip_address'[p] = ip_address[p]
               /\ pc'[p] \in {pc[p], "killed"} /\ option50_ip'[p] = option50_ip[p]
    BY <2>3 DEF GetDhinfo
  <2>4. ASSUME NEW q \in Proc, Quiet(q)
        PROVE  /\ ip_address' = ip_address /\ option50_ip' = option50_ip
               /\ pc'[p] \notin {"log", "listen", "finish", "exit0"}
    BY <2>4 DEF Quiet, Start, Finish, ResendDiscover, DiscoverTimeout, RecvNak,
       ResendRequest, RequestTimeout, ListenTimeout, Fault, StartFails,
       FinishFails, SendFails, WriteLog, WriteLogFails, AfterLog, OpenDhinfo,
       RecvAckLogFails, GetDhinfoFails, Kill, Expire
  <2>5. ASSUME NEW q \in Proc,
               \/ SendDiscover(q) \/ SendRequest(q) \/ SendRelease(q) \/ ReplyArp(q)
        PROVE  /\ ip_address' = ip_address /\ option50_ip' = option50_ip
               /\ pc'[p] \notin {"log", "listen", "finish", "exit0"}
    BY <2>5 DEF SendDiscover, SendRequest, SendRelease, ReplyArp, client
  <2>6. CASE (\E x \in Xid : ServerStep(x)) \/ UNCHANGED vars
    BY <2>6 DEF ServerStep, ServerOffer, ServerAck, ServerNak, ServerRelease,
       vars, client
  <2>7. /\ ip_address'[p] = NoIp /\ option50_ip'[p] = option50_ip[p]
        /\ pc'[p] \notin {"log", "listen", "finish", "exit0"}
    BY <2>1, <2>2, <2>3, <2>4, <2>5, <2>6 DEF Next, Step, Quiet
  <2> QED
    BY <2>7, <1>b
<1> QED
  BY <1>a, <1>b, <1>1, Invariance, PTL DEF Spec, LateAnswerIgnored
-----------------------------------------------------------------------------
(* Addresses are not shared as long as no release run happens to name one. *)

NothingReleased == \A r \in Residue : r.ip = NoIp

\* The servers' tables still hold every lease they acknowledged.
LeasesKept ==
    /\ \A k \in net : k.type = "ACK" => owner[k.ip] = k.mac
    /\ \A m \in net : m.type = "RELEASE" => m.ip = NoIp
    /\ \A p \in Proc : pc[p] = "release" => option50_ip[p] = NoIp

\* Without a RELEASE that names an address no lease is taken back.
LEMMA LeasesKeptStep ==
  ASSUME NothingReleased
  PROVE  IInv /\ LeasesKept /\ [Next]_vars => LeasesKept'
<1> SUFFICES ASSUME IInv, LeasesKept, [Next]_vars PROVE LeasesKept'
  OBVIOUS
<1> USE DEF IInv, TypeOK, LeasesKept
<1>1. ASSUME NEW p \in Proc,
             SendDiscover(p) \/ SendRequest(p) \/ SendRelease(p) \/ ReplyArp(p)
      PROVE  LeasesKept'
  BY <1>1 DEF SendDiscover, SendRequest, SendRelease, ReplyArp, Frame, Msg,
     Goto, client
<1>2. ASSUME NEW p \in Proc, RecvOffer(p) \/ RecvAck(p) PROVE LeasesKept'
  BY <1>2 DEF RecvOffer, RecvAck, Goto
<1>3. ASSUME NEW p \in Proc, GetDhinfo(p) PROVE LeasesKept'
  <2>1. PICK r \in Residue :
          /\ option50_ip' = [option50_ip EXCEPT ![p] = r.ip]
          /\ pc' = [q \in Proc |->
                      IF q = r.pid /\ pc[q] \in Running THEN "killed"
                      ELSE IF q = p THEN "release" ELSE pc[q]]
    BY <1>3 DEF GetDhinfo
  <2>2. ASSUME NEW q \in Proc, pc'[q] = "release" PROVE option50_ip'[q] = NoIp
    BY <2>1, <2>2 DEF NothingReleased
  <2> QED
    BY <1>3, <2>2 DEF GetDhinfo
<1>4. ASSUME NEW p \in Proc, Quiet(p) PROVE LeasesKept'
  BY <1>4 DEF Quiet, Start, Finish, ResendDiscover, DiscoverTimeout, RecvNak,
     ResendRequest, RequestTimeout, ListenTimeout, Fault, StartFails,
     FinishFails, SendFails, WriteLog, WriteLogFails, AfterLog, OpenDhinfo,
     RecvAckLogFails, GetDhinfoFails, Kill, Expire, Goto
<1>5. ASSUME NEW x \in Xid, ServerAck(x) PROVE LeasesKept'
  <2>1. PICK m \in net :
          /\ m.type = "REQUEST" /\ m.ip \in Ip /\ FreeFor(m.ip, m.mac)
          /\ owner' = [owner EXCEPT ![m.ip] = m.mac]
          /\ net' = net \cup {Msg("ACK", x, m.mac, m.ip, m.sid)}
    BY <1>5 DEF ServerAck
  <2>2. ASSUME NEW k \in net, k.type = "ACK" PROVE owner'[k.ip] = k.mac
    <3>1. k.mac \in Mac /\ m.mac \in Mac /\ k.ip \in Ip
      BY <2>2 DEF Message, AcksAnswer
    <3> QED
      BY <2>1, <2>2, <3>1, ConstantTypes DEF FreeFor
  <2> QED
    BY <1>5, <2>1, <2>2 DEF ServerAck, Msg, client
<1>6. ASSUME NEW x \in Xid, ServerOffer(x) \/ ServerNak(x) PROVE LeasesKept'
  BY <1>6 DEF ServerOffer, ServerNak, Msg, client
<1>7. ASSUME NEW x \in Xid, ServerRelease(x) PROVE LeasesKept'
  BY <1>7, ConstantTypes DEF ServerRelease
<1>8. CASE UNCHANGED vars
  BY <1>8 DEF vars, client
<1> QED
  BY <1>1, <1>2, <1>3, <1>4, <1>5, <1>6, <1>7, <1>8 DEF Next, Step, Quiet, ServerStep

\* Two simulated clients never hold one address.
THEOREM AddressesNotShared ==
  ASSUME NothingReleased
  PROVE  Spec => []NoSharedAddress
<1>1. Init => LeasesKept
  BY DEF Init, LeasesKept
<1>2. IInv /\ LeasesKept /\ [Next]_vars => LeasesKept'
  BY NothingReleased, LeasesKeptStep
<1>3. IInv /\ LeasesKept => NoSharedAddress
  <2> SUFFICES ASSUME IInv, LeasesKept, NEW p \in Proc, NEW q \in Proc,
                      ip_address[p] = ip_address[q], ip_address[p] # NoIp
               PROVE  dhmac[p] = dhmac[q]
    BY DEF NoSharedAddress
  <2>1. PICK k \in net : /\ k.type = "ACK" /\ k.mac = dhmac[p]
                         /\ k.ip = ip_address[p]
    BY DEF IInv, HeldGranted, Granted
  <2>2. PICK l \in net : /\ l.type = "ACK" /\ l.mac = dhmac[q]
                         /\ l.ip = ip_address[q]
    BY DEF IInv, HeldGranted, Granted
  <2> QED
    BY <2>1, <2>2 DEF LeasesKept
<1> QED
  BY <1>1, <1>2, <1>3, Invariance, PTL DEF Spec

-----------------------------------------------------------------------------
\* The process named by a log file has the MAC of the file, was given -b and has
\* acquired the address in it: a run writes its entry once, when it holds the
\* address, and whoever opens the file empties it.
THEOREM LogNames == Spec => []LogNamesItsListener
<1>1. Init => LogNamesItsListener
  BY ConstantTypes DEF Init, NoFile, LogNamesItsListener
<1>2. IInv /\ LogNamesItsListener /\ [Next]_vars => LogNamesItsListener'
  <2> SUFFICES ASSUME IInv, LogNamesItsListener, [Next]_vars
               PROVE  LogNamesItsListener'
    OBVIOUS
  <2> USE ConstantTypes DEF LogNamesItsListener, Ended, IInv, TypeOK
  <2>1. ASSUME NEW p \in Proc, WriteLog(p) PROVE LogNamesItsListener'
    BY <2>1 DEF WriteLog, LogEntry, AfterLog, Goto
  <2>2. ASSUME NEW p \in Proc, RecvAck(p) PROVE LogNamesItsListener'
    BY <2>2 DEF RecvAck, NoFile, Goto
  <2>3. ASSUME NEW p \in Proc, OpenDhinfo(p) PROVE LogNamesItsListener'
    BY <2>3 DEF OpenDhinfo, NoFile, Goto
  <2>4. ASSUME NEW p \in Proc, GetDhinfo(p) PROVE LogNamesItsListener'
    BY <2>4 DEF GetDhinfo, NoFile
  <2>5. CASE /\ UNCHANGED <<dhinfo, ip_address>>
             /\ \A p \in Proc : pc[p] \in {"listen", "finish"} \cup Ended =>
                                  pc'[p] \in {"listen", "finish"} \cup Ended
    BY <2>5
  <2>6. ASSUME NEW p \in Proc,
               \/ Start(p) \/ Finish(p) \/ ResendDiscover(p) \/ RecvNak(p)
               \/ ResendRequest(p) \/ ListenTimeout(p) \/ SendDiscover(p)
               \/ SendRequest(p) \/ SendRelease(p) \/ ReplyArp(p) \/ RecvOffer(p)
        PROVE  LogNamesItsListener'
    <3>1. UNCHANGED <<dhinfo, ip_address>>
      BY <2>6 DEF Start, Finish, ResendDiscover, RecvNak, ResendRequest,
         ListenTimeout, SendDiscover, SendRequest, SendRelease, ReplyArp,
         RecvOffer, client
    <3>2. \A q \in Proc : pc[q] \in {"listen", "finish"} \cup Ended =>
                          pc'[q] \in {"listen", "finish"} \cup Ended
      BY <2>6 DEF Start, Finish, ResendDiscover, RecvNak, ResendRequest,
         ListenTimeout, SendDiscover, SendRequest, SendRelease, ReplyArp,
         RecvOffer, Goto, client
    <3> QED
      BY <3>1, <3>2, <2>5
  <2>9. ASSUME NEW p \in Proc, Ends(p) PROVE LogNamesItsListener'
    BY <2>5, <2>9, EndsOnly DEF Goto
  <2>10. ASSUME NEW p \in Proc, Expire(p) PROVE LogNamesItsListener'
    BY <2>5, <2>10 DEF Expire
  <2>8. ASSUME NEW p \in Proc, WriteLogFails(p) PROVE LogNamesItsListener'
    BY <2>8, AfterLogIs DEF WriteLogFails, Goto
  <2>7. CASE (\E x \in Xid : ServerStep(x)) \/ UNCHANGED vars
    BY <2>7 DEF ServerStep, ServerOffer, ServerAck, ServerNak, ServerRelease,
       vars, client
  <2> QED
    BY <2>1, <2>2, <2>3, <2>4, <2>5, <2>6, <2>7, <2>8, <2>9, <2>10
       DEF Next, Step, Fault, Ends
<1> QED
  BY <1>1, <1>2, Invariance, PTL DEF Spec

\* Another run for the MAC of p may have opened the file of that MAC.
FileTouched(p) ==
    \E q \in Proc \ {p} : dhmac[q] = dhmac[p] /\ pc[q] \in Touched

\* A run whose open file has lost its name, and one that listens unnamed, have
\* met another run for their MAC.
UnnamedTouched ==
    \A p \in Proc :
        /\ pc[p] = "log" => p \in linked \/ FileTouched(p)
        /\ pc[p] = "listen" => dhinfo[dhmac[p]].pid = p \/ FileTouched(p)

\* A run that has opened its file has for good.
LEMMA TouchedStays ==
  ASSUME IInv, [Next]_vars, NEW q \in Proc, pc[q] \in Touched
  PROVE  pc'[q] \in Touched
<1> USE DEF Touched, Ended, IInv, TypeOK
<1>1. ASSUME NEW p \in Proc, Quiet(p) PROVE pc'[q] \in Touched
  BY <1>1 DEF Quiet, Start, Finish, ResendDiscover, DiscoverTimeout, RecvNak,
     ResendRequest, RequestTimeout, ListenTimeout, Fault, StartFails,
     FinishFails, SendFails, WriteLog, WriteLogFails, AfterLog, OpenDhinfo,
     RecvAckLogFails, GetDhinfoFails, Kill, Expire, Goto
<1>2. ASSUME NEW p \in Proc,
             \/ SendDiscover(p) \/ SendRequest(p) \/ SendRelease(p)
             \/ ReplyArp(p) \/ RecvOffer(p) \/ RecvAck(p) \/ GetDhinfo(p)
      PROVE  pc'[q] \in Touched
  BY <1>2 DEF SendDiscover, SendRequest, SendRelease, ReplyArp, RecvOffer,
     RecvAck, GetDhinfo, Goto, client
<1>3. CASE (\E x \in Xid : ServerStep(x)) \/ UNCHANGED vars
  BY <1>3 DEF ServerStep, ServerOffer, ServerAck, ServerNak, ServerRelease,
     vars, client
<1> QED
  BY <1>1, <1>2, <1>3 DEF Next, Step, Quiet

\* Each step that may take the name of a listener out of its file is one of
\* another run for that MAC.
LEMMA UnnamedStep ==
  ASSUME "disk" \notin Faults
  PROVE  IInv /\ UnnamedTouched /\ [Next]_vars => UnnamedTouched'
<1> SUFFICES ASSUME IInv, UnnamedTouched, [Next]_vars, NEW p \in Proc
             PROVE  /\ pc'[p] = "log" => p \in linked' \/ FileTouched(p)'
                    /\ pc'[p] = "listen" =>
                          dhinfo'[dhmac[p]].pid = p \/ FileTouched(p)'
  BY DEF UnnamedTouched
<1>1. FileTouched(p) => FileTouched(p)'
  BY TouchedStays DEF FileTouched
<1>2. ASSUME NEW q \in Proc \ {p}, dhmac[q] = dhmac[p], pc'[q] \in Touched
      PROVE  FileTouched(p)'
  BY <1>2 DEF FileTouched
<1> USE DEF IInv, TypeOK
<1>3. CASE WriteLog(p)
  <2>1. CASE p \in linked
    <3>1. dhinfo'[dhmac[p]] = LogEntry(p) /\ pc'[p] = AfterLog(p)
      BY <1>3, <2>1, ConstantTypes DEF WriteLog, Goto
    <3>2. pc'[p] # "log" /\ (pc'[p] = "listen" => LogEntry(p).pid = p)
      BY <3>1 DEF AfterLog, LogEntry
    <3> QED
      BY <3>1, <3>2
  <2>2. CASE p \notin linked
    <3>1. FileTouched(p)'
      BY <1>1, <1>3, <2>2 DEF WriteLog, UnnamedTouched
    <3> QED
      BY <3>1
  <2> QED
    BY <2>1, <2>2
<1>4. CASE RecvAck(p)
  BY <1>4 DEF RecvAck, Goto
<1>5. ASSUME NEW q \in Proc \ {p}, dhmac[q] = dhmac[p],
             RecvAck(q) \/ WriteLog(q) \/ OpenDhinfo(q) \/ GetDhinfo(q)
      PROVE  FileTouched(p)'
  <2>1. pc'[q] \in Touched
    BY <1>5 DEF RecvAck, WriteLog, OpenDhinfo, GetDhinfo, AfterLog, Goto, Touched
  <2> QED
    BY <1>2, <1>5, <2>1
<1>6. CASE OpenDhinfo(p) \/ GetDhinfo(p)
  <2>1. pc'[p] \notin {"log", "listen"}
    BY <1>6 DEF OpenDhinfo, GetDhinfo, Goto
  <2> QED
    BY <2>1
<1>7. ASSUME /\ pc'[p] = "log" => pc[p] = "log" /\ (p \in linked => p \in linked')
             /\ pc'[p] = "listen" =>
                   pc[p] = "listen" /\ dhinfo'[dhmac[p]] = dhinfo[dhmac[p]]
      PROVE  /\ pc'[p] = "log" => p \in linked' \/ FileTouched(p)'
             /\ pc'[p] = "listen" => dhinfo'[dhmac[p]].pid = p \/ FileTouched(p)'
  BY <1>1, <1>7 DEF UnnamedTouched
<1>8. ASSUME NEW q \in Proc \ {p}, dhmac[q] # dhmac[p],
             RecvAck(q) \/ WriteLog(q) \/ OpenDhinfo(q) \/ GetDhinfo(q)
      PROVE  /\ pc'[p] = "log" => pc[p] = "log" /\ (p \in linked => p \in linked')
             /\ pc'[p] = "listen" =>
                   pc[p] = "listen" /\ dhinfo'[dhmac[p]] = dhinfo[dhmac[p]]
  <2>1. dhmac[p] \in Mac /\ dhmac[q] \in Mac
    BY ConstantTypes
  <2>2. CASE RecvAck(q)
    BY <1>8, <2>1, <2>2 DEF RecvAck, Goto
  <2>3. CASE WriteLog(q)
    BY <1>8, <2>1, <2>3 DEF WriteLog, Goto
  <2>4. CASE OpenDhinfo(q)
    BY <1>8, <2>1, <2>4 DEF OpenDhinfo, Goto
  <2>5. CASE GetDhinfo(q)
    BY <1>8, <2>1, <2>5 DEF GetDhinfo
  <2> QED
    BY <1>8, <2>2, <2>3, <2>4, <2>5
<1>9. ASSUME NEW q \in Proc,
             \/ Start(q) \/ Finish(q) \/ ResendDiscover(q) \/ DiscoverTimeout(q)
             \/ RecvNak(q) \/ ResendRequest(q) \/ RequestTimeout(q)
             \/ ListenTimeout(q) \/ Fault(q) \/ Expire(q) \/ SendDiscover(q)
             \/ SendRequest(q) \/ SendRelease(q) \/ ReplyArp(q) \/ RecvOffer(q)
      PROVE  /\ pc'[p] = "log" => pc[p] = "log" /\ (p \in linked => p \in linked')
             /\ pc'[p] = "listen" =>
                   pc[p] = "listen" /\ dhinfo'[dhmac[p]] = dhinfo[dhmac[p]]
  BY <1>9 DEF Start, Finish, ResendDiscover, DiscoverTimeout, RecvNak,
     ResendRequest, RequestTimeout, ListenTimeout, Fault, StartFails,
     FinishFails, SendFails, WriteLogFails, RecvAckLogFails, GetDhinfoFails,
     Kill, Expire, SendDiscover, SendRequest, SendRelease, ReplyArp, RecvOffer,
     Goto, client
<1>10. ASSUME (\E x \in Xid : ServerStep(x)) \/ UNCHANGED vars
       PROVE  /\ pc'[p] = "log" => pc[p] = "log" /\ (p \in linked => p \in linked')
              /\ pc'[p] = "listen" =>
                    pc[p] = "listen" /\ dhinfo'[dhmac[p]] = dhinfo[dhmac[p]]
  BY <1>10 DEF ServerStep, ServerOffer, ServerAck, ServerNak, ServerRelease,
     vars, client
<1> QED
  BY <1>3, <1>4, <1>5, <1>6, <1>7, <1>8, <1>9, <1>10 DEF Next, Step

\* A listener that no file names has met another run for its MAC.
THEOREM ListenersNamed == Spec => []ListenerOnRecord
<1>1. CASE "disk" \in Faults
  <2>1. ListenerOnRecord
    BY <1>1 DEF ListenerOnRecord
  <2> QED
    BY <2>1, PTL
<1>2. CASE "disk" \notin Faults
  <2>1. Init => UnnamedTouched
    BY DEF Init, UnnamedTouched
  <2>2. IInv /\ UnnamedTouched /\ [Next]_vars => UnnamedTouched'
    BY <1>2, UnnamedStep
  <2>3. UnnamedTouched => ListenerOnRecord
    BY DEF UnnamedTouched, ListenerOnRecord, FileTouched
  <2> QED
    BY <2>1, <2>2, <2>3, Invariance, PTL DEF Spec
<1> QED
  BY <1>1, <1>2
-----------------------------------------------------------------------------
(* The client implements LeaseBook. *)

\* A frame that is not an ACK grants nothing.
LEMMA NoGrant ==
  ASSUME NEW frames, NEW f, f.type # "ACK"
  PROVE  GrantsIn(frames \cup {f}) = GrantsIn(frames)
  BY DEF GrantsIn

\* An ACK adds one grant.
LEMMA OneGrant ==
  ASSUME NEW frames, NEW f, f.type = "ACK"
  PROVE  GrantsIn(frames \cup {f}) =
           GrantsIn(frames) \cup {[mac |-> f.mac, ip |-> f.ip, sid |-> f.sid]}
  BY DEF GrantsIn

\* A run that moves on without ending is still running for the lease book.
LEMMA GoOn ==
  ASSUME TypeOK, NEW p \in Proc, NEW c, Goto(p, c),
         Outcome(pc[p]) = Outcome(c)
  PROVE  [q \in Proc |-> Outcome(pc'[q])] = [q \in Proc |-> Outcome(pc[q])]
  BY DEF TypeOK, Goto

\* A run that ends is the only one whose outcome changes.
LEMMA OneEnds ==
  ASSUME TypeOK, NEW p \in Proc, NEW c, Goto(p, c)
  PROVE  [q \in Proc |-> Outcome(pc'[q])] =
           [[q \in Proc |-> Outcome(pc[q])] EXCEPT ![p] = Outcome(c)]
  BY DEF TypeOK, Goto

\* The outcome of each place main can be in.
LEMMA Outcomes ==
  /\ \A c \in Running \cup {"idle"} : Outcome(c) = "running"
  /\ \A c \in {"exit1", "exit2", "killed"} : Outcome(c) = "failure"
  /\ Outcome("exit0") = "success"
  BY DEF Running, Ended, Outcome

\* The steps of a run that the lease book does not see.
Unseen(p) ==
    \/ Start(p) \/ SendDiscover(p) \/ SendRequest(p) \/ SendRelease(p)
    \/ RecvOffer(p) \/ ResendDiscover(p) \/ RecvNak(p) \/ ResendRequest(p)
    \/ ReplyArp(p) \/ ListenTimeout(p) \/ Expire(p)

\* The runs that the lease book sees entering.
Entering == {p \in Proc : pc[p] = "log"}

\* Sending, waiting and resending leave the lease book alone.
LEMMA UnseenStep ==
  ASSUME IInv, NEW p \in Proc, Unseen(p)
  PROVE  UNCHANGED <<GrantsIn(net), ip_address, dhinfo, Entering,
                     [q \in Proc |-> Outcome(pc[q])]>>
<1> USE DEF IInv, TypeOK, Running, Goto
<1>1. UNCHANGED <<ip_address, dhinfo>>
  BY DEF Unseen, Start, SendDiscover, SendRequest, SendRelease, RecvOffer,
     ResendDiscover, RecvNak, ResendRequest, ReplyArp, ListenTimeout, Expire, client
<1>2. GrantsIn(net') = GrantsIn(net)
  <2>1. ASSUME NEW t \in {"DISCOVER", "REQUEST", "RELEASE", "ARP"}, NEW i, NEW s
        PROVE  GrantsIn(net \cup {Frame(p, t, i, s)}) = GrantsIn(net)
    <3>1. Frame(p, t, i, s).type # "ACK"
      BY DEF Frame, Msg
    <3> QED
      BY <3>1, NoGrant
  <2> QED
    BY <2>1 DEF Unseen, Start, SendDiscover, SendRequest, SendRelease, RecvOffer,
       ResendDiscover, RecvNak, ResendRequest, ReplyArp, ListenTimeout, Expire
<1>3. \A q \in Proc : Outcome(pc'[q]) = Outcome(pc[q])
  BY Outcomes DEF Unseen, Start, SendDiscover, SendRequest, SendRelease, RecvOffer,
     ResendDiscover, RecvNak, ResendRequest, ReplyArp, ListenTimeout, Expire, client
<1>4. \A q \in Proc : pc'[q] = "log" <=> pc[q] = "log"
  BY DEF Unseen, Start, SendDiscover, SendRequest, SendRelease, RecvOffer,
     ResendDiscover, RecvNak, ResendRequest, ReplyArp, ListenTimeout, Expire, client
<1> QED
  BY <1>1, <1>2, <1>3, <1>4 DEF Entering

\* Every step of every run and server is a step of the lease book or leaves
\* it as it is.
LEMMA BookStep == IInv /\ [Next]_vars => [Book!Next]_(Book!vars)
<1> SUFFICES ASSUME IInv, [Next]_vars PROVE [Book!Next]_(Book!vars)
  OBVIOUS
<1>1. ASSUME NEW p \in Proc, Unseen(p) PROVE UNCHANGED Book!vars
  BY <1>1, UnseenStep DEF Book!vars, Entering
<1>2. ASSUME NEW p \in Proc, RecvAck(p) PROVE Book!Acquire(p)
  <2>1. PICK m \in net : /\ IsFor(m, "ACK", p)
                         /\ ip_address' = [ip_address EXCEPT ![p] = m.ip]
    BY <1>2 DEF RecvAck
  <2> DEFINE g == [mac |-> m.mac, ip |-> m.ip, sid |-> m.sid]
  <2>2. g \in GrantsIn(net) /\ g.mac = dhmac[p] /\ g.ip = m.ip
    BY <2>1, FrameMac DEF IsFor, GrantsIn, IInv
  <2>3. pc[p] = "ack" /\ p \notin Releaser /\ ip_address[p] = NoIp /\ net' = net
    BY <1>2 DEF RecvAck, IInv, Phases
  <2>4. [q \in Proc |-> Outcome(pc'[q])] = [q \in Proc |-> Outcome(pc[q])]
    BY <1>2, <2>3, GoOn, Outcomes DEF RecvAck, Running, IInv
  <2>5. Outcome(pc[p]) = "running"
    BY <2>3, Outcomes DEF Running
  <2>6. Entering' = Entering \cup {p}
    BY <1>2 DEF RecvAck, Goto, Entering, IInv, TypeOK
  <2>7. dhinfo' = [dhinfo EXCEPT ![dhmac[p]] = Book!NoEntry]
    BY <1>2 DEF RecvAck, NoFile, Book!NoEntry
  <2> HIDE DEF g
  <2> QED
    BY <2>1, <2>2, <2>3, <2>4, <2>5, <2>6, <2>7 DEF Book!Acquire, Entering
<1>3. ASSUME NEW p \in Proc, WriteLog(p) \/ WriteLogFails(p) PROVE Book!Enter(p)
  <2>1. pc[p] = "log" /\ Goto(p, AfterLog(p)) /\ UNCHANGED <<net, ip_address>>
    BY <1>3 DEF WriteLog, WriteLogFails
  <2>2. [q \in Proc |-> Outcome(pc'[q])] = [q \in Proc |-> Outcome(pc[q])]
    BY <2>1, AfterLogIs, GoOn, Outcomes DEF Running, IInv
  <2>3. p \in Entering /\ Entering' = Entering \ {p}
    BY <2>1, AfterLogIs DEF Goto, Entering, IInv, TypeOK
  <2>4. CASE UNCHANGED dhinfo
    BY <2>1, <2>2, <2>3, <2>4 DEF Book!Enter, Entering
  <2>5. CASE dhinfo' = [dhinfo EXCEPT ![dhmac[p]] = LogEntry(p)]
    <3>1. PICK k \in net : /\ k.type = "ACK" /\ k.mac = dhmac[p]
                           /\ k.ip = ip_address[p] /\ k.sid = server_id[p]
      BY <2>1 DEF IInv, ToLogGranted, Granted
    <3> DEFINE g == [mac |-> k.mac, ip |-> k.ip, sid |-> k.sid]
    <3>2. g \in GrantsIn(net)
      BY <3>1 DEF GrantsIn
    <3>3. g.mac = dhmac[p] /\ g.ip = ip_address[p] /\ g.sid = server_id[p]
      BY <3>1
    <3>4. LogEntry(p) = [ip |-> g.ip, sid |-> g.sid,
                         pid |-> IF p \in Bind THEN p ELSE NoProc, exists |-> TRUE]
      BY <3>3 DEF LogEntry
    <3> HIDE DEF g
    <3>5. \E h \in GrantsIn(net) :
            /\ h.mac = dhmac[p] /\ h.ip = ip_address[p]
            /\ dhinfo' = [dhinfo EXCEPT ![h.mac] =
                  [ip |-> h.ip, sid |-> h.sid,
                   pid |-> IF p \in Bind THEN p ELSE NoProc, exists |-> TRUE]]
      BY <2>5, <3>2, <3>3, <3>4
    <3> QED
      BY <2>1, <2>2, <2>3, <3>5 DEF Book!Enter, Entering
  <2> QED
    BY <1>3, <2>4, <2>5 DEF WriteLog, WriteLogFails
<1>4. ASSUME NEW p \in Proc, Finish(p) PROVE Book!Succeed(p)
  <2>1. pc[p] = "finish" /\ Goto(p, "exit0") /\ (ip_address[p] # NoIp \/ p \in Releaser)
    BY <1>4 DEF Finish, IInv, Phases
  <2>2. Outcome(pc[p]) = "running"
    BY <2>1, Outcomes DEF Running
  <2>3. p \notin Entering /\ Entering' = Entering
    BY <2>1 DEF Goto, Entering, IInv, TypeOK
  <2> QED
    BY <1>4, <2>1, <2>2, <2>3, OneEnds, Outcomes
       DEF Finish, Book!Succeed, IInv, Entering
<1>5. ASSUME NEW p \in Proc, Ends(p) PROVE Book!Fail(p)
  <2>1. /\ pc[p] \in Running \cup {"idle"}
        /\ UNCHANGED <<net, ip_address, dhinfo>>
        /\ \E c \in {"exit1", "exit2", "killed"} : Goto(p, c)
    BY <1>5 DEF Ends, DiscoverTimeout, RequestTimeout, StartFails, FinishFails,
       SendFails, RecvAckLogFails, GetDhinfoFails, Kill, Running
  <2>2. PICK c \in {"exit1", "exit2", "killed"} : Goto(p, c)
    BY <2>1
  <2>3. Entering' = Entering \ {p}
    BY <2>2 DEF Goto, Entering, IInv, TypeOK
  <2>4. Outcome(pc[p]) = "running" /\ Outcome(c) = "failure"
    BY <2>1, Outcomes
  <2> QED
    BY <2>1, <2>2, <2>3, <2>4, OneEnds DEF Book!Fail, IInv, Entering
<1>9. ASSUME NEW p \in Proc, OpenDhinfo(p) PROVE Book!Strike(p)
  <2>1. pc[p] = "getinfo" /\ p \in Releaser /\ Goto(p, "scan")
    BY <1>9 DEF OpenDhinfo, IInv, Phases
  <2>2. Outcome(pc[p]) = "running"
    BY <2>1, Outcomes DEF Running
  <2>3. [q \in Proc |-> Outcome(pc'[q])] = [q \in Proc |-> Outcome(pc[q])]
    BY <2>1, GoOn, Outcomes DEF Running, IInv
  <2>4. Entering' = Entering
    BY <2>1 DEF Goto, Entering, IInv, TypeOK
  <2> QED
    BY <1>9, <2>1, <2>2, <2>3, <2>4
       DEF OpenDhinfo, Book!Strike, Book!NoEntry, NoFile, Entering
<1>10. ASSUME NEW p \in Proc, GetDhinfo(p)
       PROVE  Book!Strike(p) \/ Book!Fail(p)
  <2>1. PICK r \in Residue :
          /\ pc' = [q \in Proc |->
                      IF q = r.pid /\ pc[q] \in Running THEN "killed"
                      ELSE IF q = p THEN "release" ELSE pc[q]]
          /\ \/ r.pid = p /\ UNCHANGED dhinfo
             \/ r.pid # p /\ dhinfo' = [dhinfo EXCEPT ![dhmac[p]] = Book!NoEntry]
    BY <1>10 DEF GetDhinfo, NoFile, Book!NoEntry
  <2> DEFINE o == [q \in Proc |-> Outcome(pc[q])]
             k == r.pid \in Proc /\ pc[r.pid] \in Running
  <2>2. pc[p] = "scan" /\ p \in Releaser /\ o[p] = "running"
        /\ UNCHANGED <<net, ip_address>>
    BY <1>10, Outcomes DEF GetDhinfo, IInv, Phases, Running
  <2>3. CASE k
    <3>1. o[r.pid] = "running"
      BY <2>3, Outcomes
    <3>2. o' = [o EXCEPT ![r.pid] = "failure"]
      BY <2>1, <2>2, <2>3, Outcomes DEF Running
    <3>3. Entering' = Entering \ {r.pid}
      BY <2>1, <2>2, <2>3 DEF Entering
    <3> HIDE DEF o
    <3>4. CASE r.pid = p
      BY <2>1, <2>2, <3>2, <3>3, <3>4 DEF o, Book!Fail, Entering
    <3>5. CASE r.pid # p
      <4>1. \E q \in Proc \ {p} :
              /\ o[q] = "running" /\ o' = [o EXCEPT ![q] = "failure"]
              /\ Entering' = Entering \ {q}
        BY <2>3, <3>1, <3>2, <3>3, <3>5
      <4> QED
        BY <2>1, <2>2, <3>5, <4>1 DEF o, Book!Strike, Entering
    <3> QED
      BY <3>4, <3>5
  <2>4. CASE ~k
    <3>1. o' = o
      BY <2>1, <2>2, <2>4, Outcomes DEF Running
    <3>2. Entering' = Entering
      BY <2>1, <2>2, <2>4 DEF Entering
    <3>3. r.pid # p
      BY <2>2, <2>4 DEF Running
    <3> QED
      BY <2>1, <2>2, <3>1, <3>2, <3>3 DEF Book!Strike, Entering
  <2> QED
    BY <2>3, <2>4
<1>6. ASSUME NEW x \in Xid, ServerAck(x) PROVE Book!Grant
  <2>1. PICK m \in net :
          /\ m.type = "REQUEST" /\ m.ip \in Ip /\ m.sid = PoolOf[m.ip]
          /\ net' = net \cup {Msg("ACK", x, m.mac, m.ip, m.sid)}
    BY <1>6 DEF ServerAck
  <2> DEFINE g == [mac |-> m.mac, ip |-> m.ip, sid |-> m.sid]
  <2>2. GrantsIn(net') = GrantsIn(net) \cup {g}
    <3> DEFINE f == Msg("ACK", x, m.mac, m.ip, m.sid)
    <3>1. f.type = "ACK" /\ f.mac = m.mac /\ f.ip = m.ip /\ f.sid = m.sid
      BY DEF Msg
    <3> HIDE DEF f
    <3>2. GrantsIn(net \cup {f}) = GrantsIn(net) \cup {g}
      BY <3>1, OneGrant
    <3> QED
      BY <2>1, <3>2 DEF f
  <2>3. g \in Book!Grants
    BY <2>1, ConstantTypes DEF IInv, TypeOK, Message, Book!Grants
  <2> QED
    BY <1>6, <2>2, <2>3 DEF ServerAck, Book!Grant, client
<1>7. ASSUME NEW x \in Xid, ServerOffer(x) \/ ServerNak(x) \/ ServerRelease(x)
      PROVE  UNCHANGED Book!vars
  <2>1. UNCHANGED <<pc, ip_address, dhinfo>>
    BY <1>7 DEF ServerOffer, ServerNak, ServerRelease, client
  <2>2. GrantsIn(net') = GrantsIn(net)
    <3>1. ASSUME NEW t \in {"OFFER", "NAK"}, NEW a, NEW i, NEW s
          PROVE  GrantsIn(net \cup {Msg(t, x, a, i, s)}) = GrantsIn(net)
      <4>1. Msg(t, x, a, i, s).type # "ACK"
        BY DEF Msg
      <4> QED
        BY <4>1, NoGrant
    <3> QED
      BY <1>7, <3>1 DEF ServerOffer, ServerNak, ServerRelease
  <2> QED
    BY <2>1, <2>2 DEF Book!vars, Entering
<1>8. CASE UNCHANGED vars
  BY <1>8 DEF vars, client, Book!vars
<1> QED
  BY <1>1, <1>2, <1>3, <1>4, <1>5, <1>6, <1>7, <1>8, <1>9, <1>10
     DEF Next, Step, Fault, ServerStep, Unseen, Ends, Book!Next

\* dhtest keeps the promise of the lease book, for every number of runs and
\* servers, every delivery of frames and every failure.
THEOREM Implements == Spec => ImplementsLeaseBook
<1>1. Init => Book!Init
  BY Outcomes DEF Init, Book!Init, Book!NoEntry, GrantsIn, NoFile
<1> QED
  BY <1>1, BookStep, Invariance, PTL DEF Spec, ImplementsLeaseBook, Book!Spec
=============================================================================
