----------------------------- MODULE VmCommands -----------------------------
(***************************************************************************)
(* Commands of ovirt-remote on one VM: new, set vm, set operating_system,  *)
(* the script that watches an installation, delete vm and                  *)
(* all_vms_and_disks.  Each call of the engine is a step of its own;       *)
(* a command works on objects that show the VM as it was when fetched.     *)
(***************************************************************************)
EXTENDS Naturals, Sequences

CONSTANTS
    Proc,     \* running commands
    Settings  \* what they are and what surrounds them

Command == {"new", "up", "poweroff", "install", "watch", "delete", "delete_all"}

\* oneHost: the engine has a single host. domain: the storage domain of new
\* exists. faults: "password" (none is configured for the host), "ssh" (no session
\* opens), "wget" (a download fails), "kill" (a command is killed), "slow" (a VM
\* may take more than the 150 seconds of a sleep to boot), "pause" (a VM that is
\* up may leave that state for another than down).
Setting == [command : [Proc -> Command], oneHost : BOOLEAN, domain : BOOLEAN,
            vm : BOOLEAN,
            faults : SUBSET {"password", "ssh", "wget", "kill", "slow", "pause"}]

ASSUME Parameters == Settings \subseteq Setting

VARIABLES
    setting,
    vm,      \* the engine's VM of that name, id 0 when there is none
    nextId,
    files,   \* kernel and initrd on the host
    pc,
    seen,    \* the VM object a command holds
    host,    \* what select_host_on_cluster returns
    result   \* what a command that is over returned

vars == <<setting, vm, nextId, files, pc, seen, host, result>>

Files  == {"kernel", "initrd"}
\* "booting" is wait_for_launch and powering_up, "leaving" powering_down, "paused"
\* any other state of a VM on a host: paused, not_responding, reboot_in_progress.
States == {"down", "booting", "up", "leaving", "paused"}
NoVm   == [id |-> 0, state |-> "down", boot |-> "disk", disk |-> "none"]
Vm     == [id : Nat, state : States, boot : {"disk", "install", "broken"},
           disk : {"none", "blank", "installed"}]

command  == setting.command
Fault(f) == f \in setting.faults

\* wget -O makes the file when it starts.
Exists(f) == files[f].content # "none" \/ files[f].writers # {}
Whole(f)  == files[f].content = "whole" /\ files[f].writers = {}

Wget == [kernel |-> "wget_kernel", initrd |-> "wget_initrd"]

\* Where a command is, and what one that is over returned.
Labels  == {"get", "up", "poweroff", "delete", "delete_all", "remove", "add", "addnic",
            "adddisk", "host", "host_again", "password", "kernel", "initrd", "wget_kernel",
            "wget_initrd", "stop", "wait_down", "prepared", "boot", "installing", "poll",
            "stop_again", "get_again", "wait_again", "restart", "end"}
Results == {"none", "nothing", "successful", "pair", "0", "1", "exit 0", "traceback",
            "killed"}

\* Where a command begins; the script is started while the VM installs.
First(c) ==
    CASE c = "new" -> "add" [] c = "watch" -> "installing" [] OTHER -> "get"

Init ==
    /\ setting \in Settings
    /\ vm = IF setting.vm THEN [NoVm EXCEPT !.id = 1, !.disk = "blank"] ELSE NoVm
    /\ nextId = 2
    /\ files = [f \in Files |-> [content |-> "none", writers |-> {}]]
    /\ pc = [p \in Proc |-> First(command[p])]
    /\ seen = [p \in Proc |-> [id |-> 0, state |-> "down"]]
    /\ host = [p \in Proc |-> "none"]
    /\ result = [p \in Proc |-> "none"]
-----------------------------------------------------------------------------
(* The engine's side of a call *)

\* The object still denotes the VM of that name.
Current(p) == vm.id # 0 /\ vm.id = seen[p].id

Startable(p)  == Current(p) /\ vm.state = "down"
Stoppable(p)  == Current(p) /\ vm.state # "down"

\* api.vms.get(name): an object, or None.
Fetch(p) == seen' = [seen EXCEPT ![p] = [id |-> vm.id, state |-> vm.state]]

Go(p, to)   == pc' = [pc EXCEPT ![p] = to] /\ UNCHANGED result
End(p, res) == pc' = [pc EXCEPT ![p] = "end"] /\ result' = [result EXCEPT ![p] = res]

\* An exception that nothing catches.
Traceback(p) == End(p, "traceback")

SetState(s) == vm' = [vm EXCEPT !.state = s]
Boot(kind)  == vm' = [vm EXCEPT !.state = "booting", !.boot = kind]

\* Fetch, then go on with what depends on the state seen; a method of None raises.
FetchThen(p, to) ==
    /\ Fetch(p)
    /\ IF vm.id = 0 THEN Traceback(p) ELSE Go(p, to)
    /\ UNCHANGED <<setting, vm, nextId, files, host>>

\* stop, with an exception swallowed.
TryStop(p, to) ==
    /\ IF Stoppable(p) THEN SetState("leaving") ELSE UNCHANGED vm
    /\ Go(p, to)
    /\ UNCHANGED <<setting, nextId, files, seen, host>>
-----------------------------------------------------------------------------
(* set vm *)

Get(p) ==
    /\ pc[p] = "get"
    /\ IF command[p] \in {"up", "poweroff", "delete_all"}
       THEN /\ Fetch(p)
            /\ IF command[p] = "delete_all" /\ vm.id = 0 THEN End(p, "successful")
               ELSE Go(p, command[p])
            /\ UNCHANGED <<setting, vm, nextId, files, host>>
       ELSE FetchThen(p, IF command[p] = "install" THEN "host" ELSE command[p])

\* Any exception is printed, and the command returns nothing either way.
VmUp(p) ==
    /\ pc[p] = "up"
    /\ IF Startable(p) THEN Boot("disk") ELSE UNCHANGED vm
    /\ End(p, "nothing")
    /\ UNCHANGED <<setting, nextId, files, seen, host>>

VmPoweroff(p) ==
    /\ pc[p] = "poweroff"
    /\ IF Stoppable(p) THEN SetState("leaving") ELSE UNCHANGED vm
    /\ End(p, "nothing")
    /\ UNCHANGED <<setting, nextId, files, seen, host>>
-----------------------------------------------------------------------------
(* delete vm, delete all_vms_and_disks *)

StopBeforeDelete(p) ==
    /\ \/ pc[p] = "delete" /\ seen[p].state # "down"
       \/ pc[p] = "delete_all" /\ seen[p].state = "up"
    /\ TryStop(p, "remove")

\* Mutant of DeleteVm: the refusal is swallowed.
DeleteVmSwallows(p) ==
    /\ \/ pc[p] = "remove" /\ command[p] = "delete"
       \/ pc[p] = "delete" /\ seen[p].state = "down"
    /\ IF Startable(p) THEN vm' = NoVm ELSE UNCHANGED vm
    /\ End(p, "successful")
    /\ UNCHANGED <<setting, nextId, files, seen, host>>

\* The engine refuses to delete a VM that is not down.
DeleteVm(p) ==
    /\ \/ pc[p] = "remove" /\ command[p] = "delete"
       \/ pc[p] = "delete" /\ seen[p].state = "down"
    /\ IF Startable(p) THEN vm' = NoVm /\ End(p, "successful")
       ELSE Traceback(p) /\ UNCHANGED vm
    /\ UNCHANGED <<setting, nextId, files, seen, host>>

DeleteAll(p) ==
    /\ \/ pc[p] = "remove" /\ command[p] = "delete_all"
       \/ pc[p] = "delete_all" /\ seen[p].state # "up"
    /\ IF Startable(p) THEN vm' = NoVm ELSE UNCHANGED vm
    /\ End(p, "successful")
    /\ UNCHANGED <<setting, nextId, files, seen, host>>
-----------------------------------------------------------------------------
(* new: vm_and_bootable_disk *)

\* Mutant of AddVm: a name in use ends the command without a word.
AddVmUnchecked(p) ==
    /\ pc[p] = "add"
    /\ IF vm.id # 0 THEN End(p, "none") /\ UNCHANGED <<vm, nextId, seen>>
       ELSE /\ vm' = [NoVm EXCEPT !.id = nextId]
            /\ nextId' = nextId + 1
            /\ seen' = [seen EXCEPT ![p] = [id |-> nextId, state |-> "down"]]
            /\ Go(p, "addnic")
    /\ UNCHANGED <<setting, files, host>>

\* The engine refuses a name that is in use.
AddVm(p) ==
    /\ pc[p] = "add"
    /\ IF vm.id # 0 THEN Traceback(p) /\ UNCHANGED <<vm, nextId, seen>>
       ELSE /\ vm' = [NoVm EXCEPT !.id = nextId]
            /\ nextId' = nextId + 1
            /\ seen' = [seen EXCEPT ![p] = [id |-> nextId, state |-> "down"]]
            /\ Go(p, "addnic")
    /\ UNCHANGED <<setting, files, host>>

\* nics.add and update; then the domain is looked up.
AddNic(p) ==
    /\ pc[p] = "addnic"
    /\ IF ~Current(p) THEN Traceback(p)
       ELSE IF setting.domain THEN Go(p, "adddisk") ELSE End(p, "nothing")
    /\ UNCHANGED <<setting, vm, nextId, files, seen, host>>

\* Mutant of AddDisk: an exception is swallowed.
AddDiskSwallows(p) ==
    /\ pc[p] = "adddisk"
    /\ \/ Current(p) /\ vm' = [vm EXCEPT !.disk = "blank"]
       \/ UNCHANGED vm
    /\ End(p, "pair")
    /\ UNCHANGED <<setting, nextId, files, seen, host>>

\* The engine may refuse a disk, as when the domain is not active.
AddDisk(p) ==
    /\ pc[p] = "adddisk"
    /\ \/ Current(p) /\ vm' = [vm EXCEPT !.disk = "blank"] /\ End(p, "pair")
       \/ Traceback(p) /\ UNCHANGED vm
    /\ UNCHANGED <<setting, nextId, files, seen, host>>
-----------------------------------------------------------------------------
(* set operating_system: select_host_on_cluster and ini_host *)

\* Whether the object tells its host: a VM that runs has one, one that boots may.
KnowsHost(p) ==
    IF setting.oneHost \/ seen[p].state \in {"up", "leaving", "paused"} THEN {TRUE}
    ELSE IF seen[p].state = "booting" THEN BOOLEAN ELSE {FALSE}

\* Without a host the VM is started to get one.
SelectHost(p) ==
    /\ pc[p] = "host"
    /\ \/ TRUE \in KnowsHost(p) /\ Go(p, "password") /\ UNCHANGED vm
       \/ /\ FALSE \in KnowsHost(p)
          /\ IF Startable(p) THEN Boot("disk") /\ Go(p, "host_again")
             ELSE Traceback(p) /\ UNCHANGED vm
    /\ UNCHANGED <<setting, nextId, files, seen, host>>

HostAgain(p) == pc[p] = "host_again" /\ FetchThen(p, "host")

\* Without a password 1 is returned in the place of a host; without a session
\* the program exits, with status 0.
OpenSession(p) ==
    /\ pc[p] = "password"
    /\ \/ /\ Fault("password")
          /\ host' = [host EXCEPT ![p] = "1"] /\ Go(p, "prepared")
       \/ ~Fault("password") /\ Fault("ssh") /\ End(p, "exit 0") /\ UNCHANGED host
       \/ /\ ~Fault("password")
          /\ host' = [host EXCEPT ![p] = "host"]
          /\ Go(p, IF Exists("kernel") THEN "stop" ELSE "kernel")
    /\ UNCHANGED <<setting, vm, nextId, files, seen>>

\* The file looked for is the URL, which is never there: both are downloaded.
StartDownload(p, f) ==
    /\ pc[p] = f
    /\ files' = [files EXCEPT ![f] = [content |-> @.content, writers |-> @.writers \cup {p}]]
    /\ Go(p, Wget[f])
    /\ UNCHANGED <<setting, vm, nextId, seen, host>>

\* A download that fails goes unnoticed.
EndDownload(p, f) ==
    /\ pc[p] = Wget[f]
    /\ \E content \in {"whole"} \cup (IF Fault("wget") THEN {"broken"} ELSE {}) :
         files' = [files EXCEPT ![f] = [content |-> content, writers |-> @.writers \ {p}]]
    /\ Go(p, IF f = "kernel" THEN "initrd" ELSE "stop")
    /\ UNCHANGED <<setting, vm, nextId, seen, host>>

StopForInstall(p) == pc[p] = "stop" /\ TryStop(p, "wait_down")

\* The first look is at the object fetched before the stop.
WaitDown(p) ==
    /\ pc[p] = "wait_down"
    /\ IF seen[p].state # "down" THEN FetchThen(p, "wait_down")
       ELSE Go(p, "prepared") /\ UNCHANGED <<setting, vm, nextId, files, seen, host>>

\* "hypervisor preppered", whatever came of it.
Prepared(p) == pc[p] = "prepared" /\ FetchThen(p, "boot")
-----------------------------------------------------------------------------
(* set operating_system: the installation *)

\* update pins the VM to the host, then it is started with kernel and initrd.
BootInstall(p) ==
    /\ pc[p] = "boot"
    /\ IF host[p] = "1" \/ ~Current(p) THEN Traceback(p) /\ UNCHANGED vm
       ELSE IF Startable(p)
            THEN /\ Boot(IF \A f \in Files : Whole(f) THEN "install" ELSE "broken")
                 /\ Go(p, "installing")
            ELSE End(p, "1") /\ UNCHANGED vm
    /\ UNCHANGED <<setting, nextId, files, seen, host>>

\* sleep(150), which is longer than a VM takes to boot unless it is slow.
Slept(p) ==
    /\ pc[p] = "installing"
    /\ vm.state = "booting" => Fault("slow")
    /\ FetchThen(p, "poll")

\* Mutant of Poll: the loop waits for the wrong state.
PollInverted(p) ==
    /\ pc[p] = "poll"
    /\ IF seen[p].state # "up" THEN FetchThen(p, "poll")
       ELSE Go(p, "stop_again") /\ UNCHANGED <<setting, vm, nextId, files, seen, host>>

\* while the VM is up: any other state ends the wait, whatever it means.
Poll(p) ==
    /\ pc[p] = "poll"
    /\ IF seen[p].state = "up" THEN FetchThen(p, "poll")
       ELSE Go(p, "stop_again") /\ UNCHANGED <<setting, vm, nextId, files, seen, host>>

\* stop raises when the VM is down already, as it is after its last poweroff.
StopAgain(p) ==
    /\ pc[p] = "stop_again"
    /\ IF Stoppable(p) THEN SetState("leaving") /\ Go(p, "get_again")
       ELSE Traceback(p) /\ UNCHANGED vm
    /\ UNCHANGED <<setting, nextId, files, seen, host>>

GetAgain(p) == pc[p] = "get_again" /\ FetchThen(p, "wait_again")

\* Mutant of WaitAgain: the object is not fetched again.
WaitAgainStale(p) ==
    /\ pc[p] = "wait_again"
    /\ Go(p, IF seen[p].state # "down" THEN "wait_again" ELSE "restart")
    /\ UNCHANGED <<setting, vm, nextId, files, seen, host>>

WaitAgain(p) ==
    /\ pc[p] = "wait_again"
    /\ IF seen[p].state # "down" THEN FetchThen(p, "wait_again")
       ELSE Go(p, "restart") /\ UNCHANGED <<setting, vm, nextId, files, seen, host>>

Restart(p) ==
    /\ pc[p] = "restart"
    /\ IF Startable(p) THEN Boot("disk") /\ End(p, "0") ELSE Traceback(p) /\ UNCHANGED vm
    /\ UNCHANGED <<setting, nextId, files, seen, host>>

\* A command is killed; the file it was downloading stays as it is.
Killed(p) ==
    /\ Fault("kill") /\ pc[p] # "end"
    /\ End(p, "killed")
    /\ files' = [f \in Files |->
                   IF p \in files[f].writers
                   THEN [content |-> "broken", writers |-> files[f].writers \ {p}]
                   ELSE files[f]]
    /\ UNCHANGED <<setting, vm, nextId, seen, host>>
-----------------------------------------------------------------------------
(* The engine and the guest *)

BootsUp == vm.state = "booting" /\ SetState("up")

GoesDown == vm.state = "leaving" /\ SetState("down")

\* The kernel line asks for a poweroff after the installation; without its
\* files or a disk the guest never gets that far.
Installed ==
    /\ vm.state = "up" /\ vm.boot = "install" /\ vm.disk # "none"
    /\ \E s \in {"leaving", "down"} :
         vm' = [vm EXCEPT !.state = s, !.disk = "installed"]

Engine ==
    /\ BootsUp \/ GoesDown \/ Installed
    /\ UNCHANGED <<setting, nextId, files, pc, seen, host, result>>

\* The engine pauses a VM whose storage fails, loses its host from sight for a
\* while or sees it reboot.
Pauses ==
    /\ Fault("pause")
    /\ \/ vm.state = "up" /\ SetState("paused")
       \/ vm.state = "paused" /\ SetState("up")
    /\ UNCHANGED <<setting, nextId, files, pc, seen, host, result>>
-----------------------------------------------------------------------------
Step(p) ==
    \/ Get(p) \/ VmUp(p) \/ VmPoweroff(p)
    \/ StopBeforeDelete(p) \/ DeleteVm(p) \/ DeleteAll(p)
    \/ AddVm(p) \/ AddNic(p) \/ AddDisk(p)
    \/ SelectHost(p) \/ HostAgain(p) \/ OpenSession(p)
    \/ (\E f \in Files : StartDownload(p, f) \/ EndDownload(p, f))
    \/ StopForInstall(p) \/ WaitDown(p) \/ Prepared(p) \/ BootInstall(p)
    \/ Slept(p) \/ Poll(p) \/ StopAgain(p) \/ GetAgain(p) \/ WaitAgain(p) \/ Restart(p)

Next == Engine \/ Pauses \/ (\E p \in Proc : Step(p) \/ Killed(p))

\* Commands are scheduled, and the engine and the guest finish what they began.
Spec == Init /\ [][Next]_vars /\ WF_vars(Engine) /\ \A p \in Proc : WF_vars(Step(p))
-----------------------------------------------------------------------------
(* Properties *)

TypeOK ==
    /\ setting \in Settings
    /\ vm \in Vm /\ nextId \in Nat
    /\ files \in [Files -> [content : {"none", "whole", "broken"}, writers : SUBSET Proc]]
    /\ pc \in [Proc -> Labels]
    /\ seen \in [Proc -> [id : Nat, state : States]]
    /\ host \in [Proc -> {"none", "1", "host"}]
    /\ result \in [Proc -> Results]
    /\ \A p \in Proc : pc[p] = "end" <=> result[p] # "none"

\* A delete vm that reports success has removed the VM it fetched, and it stays
\* removed whoever makes another one of that name.
DeleteMeansGone ==
    \A p \in Proc :
        command[p] = "delete" /\ result[p] = "successful" => vm.id # seen[p].id

Others(p) == {command[q] : q \in Proc \ {p}}

\* The VM boots within the sleep and is up until it powers off.
Timely == ~Fault("slow") /\ ~Fault("pause")

\* When operating_system returns 0 and no command but new was beside it, the VM
\* is on and booted from its disk, and if it was timely the installation ran to
\* its end. (A VM that still boots, or is paused, when the loop looks is stopped
\* there and started again, and 0 is returned with nothing installed.)
InstallReported ==
    \A p \in Proc :
        command[p] = "install" /\ result[p] = "0" /\ Others(p) \subseteq {"new"} =>
            /\ vm.boot = "disk" /\ vm.state # "down"
            /\ Timely => vm.disk = "installed"

\* A VM without a disk is never what a successful command leaves: some new is
\* under way, or ended without reporting a VM and a disk.
DisklessIsReported ==
    vm.id # 0 /\ vm.disk = "none" =>
        \E p \in Proc : command[p] = "new" /\ result[p] # "pair" /\ seen[p].id = vm.id

\* With everything on the host in order, a command that waits for the VM ends,
\* whatever other commands stop or delete the VM meanwhile. (It may wait for ever
\* when another one starts the VM again: then it misses the moment it is down.)
WaitsEnd ==
    \A p \in Proc :
        [](setting.faults = {}
             /\ Others(p) \subseteq {"poweroff", "delete", "delete_all"}
             /\ command[p] \notin {"watch"})
          => <>(pc[p] = "end")
=============================================================================
