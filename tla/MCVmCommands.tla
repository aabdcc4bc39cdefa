---------------------------- MODULE MCVmCommands ----------------------------
(***************************************************************************)
(* Two commands at a time on one VM, undisturbed or with one kind of       *)
(* fault.                                                                  *)
(***************************************************************************)
EXTENDS VmCommands, TLC

CONSTANTS p1, p2

On(c, d, one, domain, exists, faults) ==
    [command |-> (p1 :> c @@ p2 :> d), oneHost |-> one, domain |-> domain, vm |-> exists,
     faults |-> faults]

Pairs == {<<c, d>> \in Command \X Command : c \in {"install", "delete", "delete_all"}}

Several ==
    {On(x[1], x[2], one, TRUE, TRUE, {}) : x \in Pairs, one \in BOOLEAN}
      \cup {On(x[1], "new", FALSE, domain, FALSE, {}) : x \in Pairs, domain \in BOOLEAN}
      \cup {On("install", d, TRUE, TRUE, TRUE, {f}) :
              d \in {"new", "install", "poweroff", "delete"},
              f \in {"password", "ssh", "wget", "kill", "slow", "pause"}}
      \cup {On("install", "new", FALSE, TRUE, FALSE, {f}) : f \in {"wget", "kill", "slow"}}
=============================================================================
