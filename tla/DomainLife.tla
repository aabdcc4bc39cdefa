----------------------------- MODULE DomainLife -----------------------------
(***************************************************************************)
(* What a user of delete and new may rely on for one name of a storage     *)
(* domain: domains of that name come and go one after the other, and a     *)
(* delete that reports success is the one that removed its domain.  How    *)
(* domains are attached, put into maintenance or detached, what is looked  *)
(* up again and which calls fail does not show here.                       *)
(***************************************************************************)
EXTENDS Naturals

CONSTANT Proc   \* runs of ovirt-remote

VARIABLES
    id,       \* the present or, when there is none, the last domain
    exists,   \* whether it exists
    removed   \* the domain each run reports to have removed, 0 for none

vars == <<id, exists, removed>>

Init == id = 1 /\ exists \in BOOLEAN /\ removed = [p \in Proc |-> 0]

Create == ~exists /\ exists' = TRUE /\ id' = id + 1 /\ UNCHANGED removed

Remove(p) ==
    /\ exists /\ removed[p] = 0
    /\ exists' = FALSE
    /\ removed' = [removed EXCEPT ![p] = id]
    /\ UNCHANGED id

Next == Create \/ \E p \in Proc : Remove(p)

Spec == Init /\ [][Next]_vars
=============================================================================
