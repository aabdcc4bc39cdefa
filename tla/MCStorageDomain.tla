-------------------------- MODULE MCStorageDomain --------------------------
(***************************************************************************)
(* StorageDomain with four commands at once: deletes alone when all goes   *)
(* well, and mixtures with every fault.  A domain is created at most once  *)
(* per new command, which bounds the ids.                                  *)
(***************************************************************************)
EXTENDS StorageDomain, TLC

CONSTANTS c1, c2, c3, c4

Commands(w, x, y, z) == (c1 :> w) @@ (c2 :> x) @@ (c3 :> y) @@ (c4 :> z)

CalmDeletes ==
    [command : {Commands("delete", "delete", "delete", "new")},
     status : {"active"}, inTime : {TRUE}, faults : {{}}]

Faulty ==
    [command : {Commands("delete", "new", "delete", "maintenance"),
                Commands("delete", "newblock", "detach", "up")},
     status : {"absent", "active"}, inTime : {FALSE},
     faults : {{"refuse", "deactivate", "storage"}}]

\* A single delete of a domain outside any data centre, and of a missing one.
Alone ==
    [command : {Commands("delete", "maintenance", "maintenance", "maintenance")},
     status : {"absent", "unattached"}, inTime : {TRUE}, faults : {{}}]

CalmAndFaulty == CalmDeletes \cup Faulty \cup Alone
=============================================================================
