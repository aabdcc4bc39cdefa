---------------------------- MODULE MCDhcpClient ----------------------------
(***************************************************************************)
(* DhcpClient on small instances: two runs with MACs of their own, or     *)
(* three for the same MAC; two servers with a pool of one address each.    *)
(***************************************************************************)
EXTENDS DhcpClient, TLC

CONSTANTS p1, p2, p3, m1, m2, x1, x2, x3, i1, i2, s1, s2

OwnMacs == [p \in Proc |-> IF p = p1 THEN m1 ELSE m2]
OneMac  == [p \in Proc |-> m1]
OwnXids == [p \in Proc |-> CASE p = p1 -> x1 [] p = p2 -> x2 [] p = p3 -> x3]

NoReqIp  == [p \in Proc |-> NoIp]
TwoPools == (i1 :> s1) @@ (i2 :> s2)

\* What is made of buffers that were never written: no address, or, by
\* accident, one that is leased, or the pid of a process, its own included.
Garbage == {[ip |-> NoIp, sid |-> NoServer, pid |-> NoProc],
            [ip |-> i1, sid |-> s1, pid |-> NoProc]}
           \cup {[ip |-> NoIp, sid |-> NoServer, pid |-> p] : p \in Releaser \cup {p1}}
=============================================================================
