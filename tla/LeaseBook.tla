----------------------------- MODULE LeaseBook -----------------------------
(***************************************************************************)
(* What dhtest promises to whoever starts it: every run ends by success or *)
(* by failure, and comes to hold at most one lease, which a server has     *)
(* granted to its MAC.  When it does it strikes the entry of that MAC in   *)
(* the book (the log file), and then enters the new lease, once and before *)
(* it succeeds.  A run that fails in between leaves the MAC without an     *)
(* entry.  How leases are obtained is not said.                            *)
(***************************************************************************)
EXTENDS FiniteSets

CONSTANTS Proc, Mac, Ip, Server, NoProc, NoIp, NoServer, dhmac, Bind, Releaser

VARIABLES
    granted,  \* the leases servers have granted so far
    held,     \* the address each run holds
    book,     \* the entry of each MAC
    entering, \* runs that hold a lease they have not entered yet
    outcome   \* how each run ended

vars == <<granted, held, book, entering, outcome>>

Grants  == [mac : Mac, ip : Ip, sid : Server]
NoEntry == [ip |-> NoIp, sid |-> NoServer, pid |-> NoProc, exists |-> FALSE]

Init ==
    /\ granted = {}
    /\ held = [p \in Proc |-> NoIp]
    /\ book = [m \in Mac |-> NoEntry]
    /\ entering = {}
    /\ outcome = [p \in Proc |-> "running"]

Grant ==
    /\ \E g \in Grants : granted' = granted \cup {g}
    /\ UNCHANGED <<held, book, entering, outcome>>

Acquire(p) ==
    /\ outcome[p] = "running" /\ p \notin Releaser /\ held[p] = NoIp
    /\ \E g \in granted : g.mac = dhmac[p] /\ held' = [held EXCEPT ![p] = g.ip]
    /\ book' = [book EXCEPT ![dhmac[p]] = NoEntry]
    /\ entering' = entering \cup {p}
    /\ UNCHANGED <<granted, outcome>>

\* An entry names a process to be killed on release only if -b was given.
\* Nothing is entered when the entry cannot be written, or when a release
\* has meanwhile struck it again.
Enter(p) ==
    /\ p \in entering
    /\ \/ \E g \in granted :
            /\ g.mac = dhmac[p] /\ g.ip = held[p]
            /\ book' = [book EXCEPT ![g.mac] =
                   [ip |-> g.ip, sid |-> g.sid,
                    pid |-> IF p \in Bind THEN p ELSE NoProc, exists |-> TRUE]]
       \/ UNCHANGED book
    /\ entering' = entering \ {p}
    /\ UNCHANGED <<granted, held, outcome>>

\* A release run strikes out the entry and may kill one process.
Strike(p) ==
    /\ outcome[p] = "running" /\ p \in Releaser
    /\ book' = [book EXCEPT ![dhmac[p]] = NoEntry]
    /\ \/ UNCHANGED <<outcome, entering>>
       \/ \E q \in Proc \ {p} :
            /\ outcome[q] = "running"
            /\ outcome' = [outcome EXCEPT ![q] = "failure"]
            /\ entering' = entering \ {q}
    /\ UNCHANGED <<granted, held>>

Succeed(p) ==
    /\ outcome[p] = "running" /\ p \notin entering
    /\ held[p] # NoIp \/ p \in Releaser
    /\ outcome' = [outcome EXCEPT ![p] = "success"]
    /\ UNCHANGED <<granted, held, book, entering>>

Fail(p) ==
    /\ outcome[p] = "running"
    /\ outcome' = [outcome EXCEPT ![p] = "failure"]
    /\ entering' = entering \ {p}
    /\ UNCHANGED <<granted, held, book>>

Next ==
    \/ Grant
    \/ \E p \in Proc :
         Acquire(p) \/ Enter(p) \/ Strike(p) \/ Succeed(p) \/ Fail(p)

Spec == Init /\ [][Next]_vars
=============================================================================
