-------------------------- MODULE VmCommands_proofs --------------------------
(***************************************************************************)
(* Theorems about VmCommands: types, DeleteMeansGone, DisklessIsReported   *)
(* and InstallReported, for any commands and any faults.                   *)
(***************************************************************************)
EXTENDS VmCommands, TLAPS

\* The places of new, which no other command passes.
NewLabels == {"add", "addnic", "adddisk"}

\* The places where other commands are after their first look.
Places == Labels \ ({"get", "delete_all", "end"} \cup NewLabels)

\* An id given to a VM is never given again.
IdsGrow ==
    /\ 0 < nextId /\ vm.id < nextId
    /\ \A p \in Proc : seen[p].id < nextId
    /\ \A p \in Proc :
         command[p] = "delete" /\ result[p] = "successful" => 0 < seen[p].id

\* Commands stay in their own code.
OwnCode ==
    \A p \in Proc :
        /\ pc[p] # "end" => (command[p] = "new" <=> pc[p] \in NewLabels)
        /\ pc[p] = "delete_all" => command[p] = "delete_all"
        /\ pc[p] = "get" => command[p] # "watch"

IInv ==
    /\ TypeOK
    /\ IdsGrow
    /\ OwnCode
    /\ DeleteMeansGone
    /\ DisklessIsReported
-----------------------------------------------------------------------------
(* Types *)

LEMMA Commands ==
    ASSUME TypeOK, NEW p \in Proc
    PROVE  command[p] \in Command
  BY Parameters DEF TypeOK, Setting, command

LEMMA InitType == Init => TypeOK
  <1>1. SUFFICES ASSUME Init PROVE TypeOK
    OBVIOUS
  <1>2. setting \in Setting
    BY <1>1, Parameters DEF Init
  <1>3. \A p \in Proc : First(command[p]) \in Labels \ {"end"}
    BY <1>2 DEF Setting, command, Command, First, Labels
  <1>4. vm \in Vm
    BY <1>1 DEF Init, NoVm, Vm, States
  <1>5. files \in [Files -> [content : {"none", "whole", "broken"}, writers : SUBSET Proc]]
    BY <1>1 DEF Init
  <1> QED
    BY <1>1, <1>3, <1>4, <1>5 DEF Init, TypeOK, States, Results, Labels

\* The ways a step moves its command on.
LEMMA GoType ==
    ASSUME TypeOK, NEW p \in Proc, NEW to \in Labels \ {"end"}, pc[p] # "end", Go(p, to)
    PROVE  /\ pc' \in [Proc -> Labels] /\ result' \in [Proc -> Results]
           /\ \A q \in Proc : pc'[q] = "end" <=> result'[q] # "none"
  BY DEF TypeOK, Go

LEMMA EndType ==
    ASSUME TypeOK, NEW p \in Proc, NEW res \in Results \ {"none"}, End(p, res)
    PROVE  /\ pc' \in [Proc -> Labels] /\ result' \in [Proc -> Results]
           /\ \A q \in Proc : pc'[q] = "end" <=> result'[q] # "none"
  BY DEF TypeOK, End, Labels

LEMMA StateType ==
    ASSUME TypeOK, NEW s \in States, SetState(s)
    PROVE  vm' \in Vm /\ vm'.id = vm.id /\ vm'.disk = vm.disk
  BY DEF TypeOK, SetState, Vm

LEMMA BootType ==
    ASSUME TypeOK, NEW kind \in {"disk", "install", "broken"}, Boot(kind)
    PROVE  vm' \in Vm /\ vm'.id = vm.id /\ vm'.disk = vm.disk
  BY DEF TypeOK, Boot, Vm, States

LEMMA FetchType ==
    ASSUME TypeOK, NEW p \in Proc, Fetch(p)
    PROVE  seen' \in [Proc -> [id : Nat, state : States]]
  BY DEF TypeOK, Fetch, Vm
-----------------------------------------------------------------------------
(* Steps that neither make nor remove a VM or a disk nor report success *)

Quiet(p) ==
    /\ setting' = setting /\ nextId' = nextId
    /\ vm'.id = vm.id /\ vm'.disk = vm.disk
    /\ command[p] # "new"
    /\ \A q \in Proc \ {p} : pc'[q] = pc[q] /\ seen'[q] = seen[q] /\ result'[q] = result[q]
    /\ seen'[p].id \in {seen[p].id, vm.id}
    /\ pc'[p] \notin NewLabels
    /\ pc'[p] = "delete_all" => command[p] = "delete_all"
    /\ pc'[p] # "get"
    /\ result'[p] = "successful" => command[p] # "delete"

LEMMA QuietInv ==
    ASSUME IInv, TypeOK', NEW p \in Proc, Quiet(p)
    PROVE  IInv'
  <1>1. \A q \in Proc : command'[q] = command[q]
    BY DEF Quiet, command
  <1>2. IdsGrow'
    BY <1>1 DEF Quiet, IInv, IdsGrow
  <1>3. OwnCode'
    BY <1>1 DEF Quiet, IInv, OwnCode
  <1>4. DeleteMeansGone'
    BY <1>1 DEF Quiet, IInv, DeleteMeansGone
  <1>5. DisklessIsReported'
    BY <1>1 DEF Quiet, IInv, DisklessIsReported
  <1> QED
    BY <1>2, <1>3, <1>4, <1>5 DEF IInv

\* What moves a command on and reports no success.
Moves(p) ==
    \/ \E to \in Places : Go(p, to)
    \/ \E res \in Results \ {"none", "successful"} : End(p, res)

\* Where a command other than new may move.
Elsewhere(p) ==
    /\ pc[p] \notin NewLabels \cup {"end"}
    /\ Moves(p)

LEMMA MovesType ==
    ASSUME IInv, NEW p \in Proc, pc[p] # "end", Moves(p)
    PROVE  /\ pc' \in [Proc -> Labels] /\ result' \in [Proc -> Results]
           /\ \A q \in Proc : pc'[q] = "end" <=> result'[q] # "none"
           /\ \A q \in Proc \ {p} : pc'[q] = pc[q] /\ result'[q] = result[q]
           /\ pc'[p] \notin NewLabels \cup {"get", "delete_all"} /\ result'[p] # "successful"
  <1>1. CASE \E to \in Places : Go(p, to)
    <2>1. PICK to \in Places : Go(p, to)
      BY <1>1
    <2> QED
      BY <2>1, GoType DEF IInv, TypeOK, Go, Places, Labels, NewLabels
  <1>2. CASE \E res \in Results \ {"none", "successful"} : End(p, res)
    <2>1. PICK res \in Results \ {"none", "successful"} : End(p, res)
      BY <1>2
    <2> QED
      BY <2>1, EndType DEF IInv, TypeOK, End, Labels, NewLabels
  <1> QED
    BY <1>1, <1>2 DEF Moves

\* A step that moves on and changes the VM's state or its boot, no more.
LEMMA CallInv ==
    ASSUME IInv, NEW p \in Proc, Elsewhere(p),
           vm' \in Vm, vm'.id = vm.id, vm'.disk = vm.disk,
           UNCHANGED <<setting, nextId, seen>>,
           files' \in [Files -> [content : {"none", "whole", "broken"}, writers : SUBSET Proc]],
           host' \in [Proc -> {"none", "1", "host"}]
    PROVE  IInv'
  <1>1. command[p] # "new"
    BY DEF Elsewhere, IInv, OwnCode
  <1>2. TypeOK'
    BY MovesType DEF Elsewhere, IInv, TypeOK
  <1>3. Quiet(p)
    BY <1>1, MovesType DEF Elsewhere, Quiet
  <1> QED
    BY <1>2, <1>3, QuietInv

\* The same with a new look at the VM.
LEMMA LookInv ==
    ASSUME IInv, NEW p \in Proc, pc[p] \notin NewLabels \cup {"end"},
           NEW to \in Places, FetchThen(p, to)
    PROVE  IInv'
  <1>1. command[p] # "new"
    BY DEF IInv, OwnCode
  <1>2. Moves(p)
    BY DEF Moves, FetchThen, Traceback, Results
  <1>3. seen' \in [Proc -> [id : Nat, state : States]]
    BY FetchType DEF IInv, FetchThen
  <1>4. TypeOK'
    BY <1>2, <1>3, MovesType DEF IInv, TypeOK, FetchThen
  <1>5. /\ seen'[p].id = vm.id
        /\ \A q \in Proc \ {p} : seen'[q] = seen[q]
    BY DEF FetchThen, Fetch, IInv, TypeOK
  <1>6. Quiet(p)
    BY <1>1, <1>2, <1>5, MovesType DEF Quiet, FetchThen
  <1> QED
    BY <1>4, <1>6, QuietInv
-----------------------------------------------------------------------------
(* The actions *)

LEMMA SameVm ==
    ASSUME TypeOK, UNCHANGED vm
    PROVE  vm' \in Vm /\ vm'.id = vm.id /\ vm'.disk = vm.disk
  BY DEF TypeOK

\* stop, and what becomes of the VM when it is refused.
LEMMA Stopping ==
    ASSUME TypeOK, NEW p \in Proc,
           (IF Stoppable(p) THEN SetState("leaving") ELSE UNCHANGED vm)
    PROVE  vm' \in Vm /\ vm'.id = vm.id /\ vm'.disk = vm.disk
  BY StateType, SameVm DEF States

LEMMA TryStopInv ==
    ASSUME IInv, NEW p \in Proc, pc[p] \notin NewLabels \cup {"end"},
           NEW to \in Places, TryStop(p, to)
    PROVE  IInv'
  <1>1. vm' \in Vm /\ vm'.id = vm.id /\ vm'.disk = vm.disk
    BY Stopping DEF IInv, TryStop
  <1>2. Elsewhere(p)
    BY DEF Elsewhere, Moves, TryStop
  <1> QED
    BY <1>1, <1>2, CallInv DEF TryStop, IInv, TypeOK

\* The first look of up, poweroff and delete_all, which takes None for an answer.
LEMMA GetInv ==
    ASSUME IInv, NEW p \in Proc, Get(p)
    PROVE  IInv'
  <1>1. /\ command[p] \in Command \ {"new", "watch"}
        /\ pc[p] = "get"
    BY Commands DEF Get, IInv, OwnCode, NewLabels
  <1>2. CASE command[p] \notin {"up", "poweroff", "delete_all"}
    <2> DEFINE to == IF command[p] = "install" THEN "host" ELSE command[p]
    <2>1. to \in Places
      BY <1>1, <1>2 DEF Command, Places, Labels, NewLabels
    <2>2. FetchThen(p, to)
      BY <1>2 DEF Get
    <2> QED
      BY <1>1, <2>1, <2>2, LookInv DEF NewLabels
  <1>3. CASE command[p] \in {"up", "poweroff", "delete_all"}
    <2>1. /\ Fetch(p) /\ UNCHANGED <<setting, vm, nextId, files, host>>
          /\ Go(p, command[p]) \/ (command[p] = "delete_all" /\ End(p, "successful"))
      BY <1>3 DEF Get
    <2>2. seen' \in [Proc -> [id : Nat, state : States]]
      BY <2>1, FetchType DEF IInv
    <2>3. /\ pc' \in [Proc -> Labels] /\ result' \in [Proc -> Results]
          /\ \A q \in Proc : pc'[q] = "end" <=> result'[q] # "none"
      BY <1>1, <1>3, <2>1, GoType, EndType DEF IInv, Labels, Results
    <2>4. TypeOK'
      BY <2>1, <2>2, <2>3 DEF IInv, TypeOK
    <2>5. /\ \A q \in Proc \ {p} : pc'[q] = pc[q] /\ result'[q] = result[q]
          /\ pc'[p] \in {command[p], "end"}
          /\ result'[p] = "successful" => command[p] = "delete_all"
      BY <1>1, <2>1 DEF Go, End, IInv, TypeOK
    <2>6. seen'[p].id = vm.id /\ \A q \in Proc \ {p} : seen'[q] = seen[q]
      BY <2>1 DEF Fetch, IInv, TypeOK
    <2>7. Quiet(p)
      BY <1>1, <1>3, <2>1, <2>5, <2>6 DEF Quiet, NewLabels
    <2> QED
      BY <2>4, <2>7, QuietInv
  <1> QED
    BY <1>2, <1>3

\* up and poweroff: the call is made once, whatever comes of it.
LEMMA VmStateInv ==
    ASSUME IInv, NEW p \in Proc, VmUp(p) \/ VmPoweroff(p)
    PROVE  IInv'
  <1>1. vm' \in Vm /\ vm'.id = vm.id /\ vm'.disk = vm.disk
    <2>1. CASE VmUp(p)
      BY <2>1, BootType, SameVm DEF VmUp, IInv
    <2>2. CASE VmPoweroff(p)
      BY <2>2, Stopping DEF VmPoweroff, IInv
    <2> QED
      BY <2>1, <2>2
  <1>2. Elsewhere(p)
    BY DEF VmUp, VmPoweroff, Elsewhere, Moves, Results, NewLabels
  <1> QED
    BY <1>1, <1>2, CallInv DEF VmUp, VmPoweroff, IInv, TypeOK

LEMMA StopsInv ==
    ASSUME IInv, NEW p \in Proc, StopBeforeDelete(p) \/ StopForInstall(p)
    PROVE  IInv'
  <1>1. pc[p] \in {"delete", "delete_all", "stop"}
    BY DEF StopBeforeDelete, StopForInstall
  <1>2. \E to \in {"remove", "wait_down"} : TryStop(p, to)
    BY DEF StopBeforeDelete, StopForInstall
  <1>3. {"remove", "wait_down"} \subseteq Places
    BY DEF Places, Labels, NewLabels
  <1> QED
    BY <1>1, <1>2, <1>3, TryStopInv DEF NewLabels

LEMMA SelectHostInv ==
    ASSUME IInv, NEW p \in Proc, SelectHost(p)
    PROVE  IInv'
  <1>1. vm' \in Vm /\ vm'.id = vm.id /\ vm'.disk = vm.disk
    BY BootType, SameVm DEF SelectHost, IInv
  <1>2. Elsewhere(p)
    BY DEF SelectHost, Elsewhere, Moves, Traceback, Results, Places, Labels, NewLabels
  <1> QED
    BY <1>1, <1>2, CallInv DEF SelectHost, IInv, TypeOK

LEMMA OpenSessionInv ==
    ASSUME IInv, NEW p \in Proc, OpenSession(p)
    PROVE  IInv'
  <1>1. vm' \in Vm /\ vm'.id = vm.id /\ vm'.disk = vm.disk
    BY SameVm DEF OpenSession, IInv
  <1>2. Elsewhere(p)
    BY DEF OpenSession, Elsewhere, Moves, Results, Places, Labels, NewLabels
  <1>3. host' \in [Proc -> {"none", "1", "host"}]
    BY DEF OpenSession, IInv, TypeOK
  <1> QED
    BY <1>1, <1>2, <1>3, CallInv DEF OpenSession, IInv, TypeOK

LEMMA DownloadInv ==
    ASSUME IInv, NEW p \in Proc, NEW f \in Files, StartDownload(p, f) \/ EndDownload(p, f)
    PROVE  IInv'
  <1>1. vm' \in Vm /\ vm'.id = vm.id /\ vm'.disk = vm.disk
    BY SameVm DEF StartDownload, EndDownload, IInv
  <1>2. f \in {"kernel", "initrd"} /\ Wget[f] \in {"wget_kernel", "wget_initrd"}
    BY DEF Files, Wget
  <1>3. Elsewhere(p)
    BY <1>2 DEF StartDownload, EndDownload, Elsewhere, Moves, Places, Labels, NewLabels
  <1>4. files' \in [Files -> [content : {"none", "whole", "broken"}, writers : SUBSET Proc]]
    <2>1. CASE StartDownload(p, f)
      BY <2>1 DEF StartDownload, IInv, TypeOK
    <2>2. CASE EndDownload(p, f)
      BY <2>2 DEF EndDownload, IInv, TypeOK
    <2> QED
      BY <2>1, <2>2
  <1> QED
    BY <1>1, <1>3, <1>4, CallInv DEF StartDownload, EndDownload, IInv, TypeOK

\* Loops and looks of operating_system: another look, or on to the next place.
LEMMA LoopsInv ==
    ASSUME IInv, NEW p \in Proc,
           HostAgain(p) \/ WaitDown(p) \/ Prepared(p) \/ Slept(p) \/ Poll(p)
             \/ GetAgain(p) \/ WaitAgain(p)
    PROVE  IInv'
  <1>1. pc[p] \notin NewLabels \cup {"end"}
    BY DEF HostAgain, WaitDown, Prepared, Slept, Poll, GetAgain, WaitAgain, NewLabels
  <1>2. \E to \in Places :
           \/ FetchThen(p, to)
           \/ Go(p, to) /\ UNCHANGED <<setting, vm, nextId, files, seen, host>>
    BY DEF HostAgain, WaitDown, Prepared, Slept, Poll, GetAgain, WaitAgain,
           Places, Labels, NewLabels
  <1>3. PICK to \in Places :
           \/ FetchThen(p, to)
           \/ Go(p, to) /\ UNCHANGED <<setting, vm, nextId, files, seen, host>>
    BY <1>2
  <1>4. CASE FetchThen(p, to)
    BY <1>1, <1>4, LookInv
  <1>5. CASE Go(p, to) /\ UNCHANGED <<setting, vm, nextId, files, seen, host>>
    BY <1>1, <1>5, CallInv, SameVm DEF Elsewhere, Moves, IInv, TypeOK
  <1> QED
    BY <1>3, <1>4, <1>5

LEMMA BootsInv ==
    ASSUME IInv, NEW p \in Proc, BootInstall(p) \/ StopAgain(p) \/ Restart(p)
    PROVE  IInv'
  <1>1. vm' \in Vm /\ vm'.id = vm.id /\ vm'.disk = vm.disk
    <2>1. CASE BootInstall(p)
      BY <2>1, BootType, SameVm DEF BootInstall, IInv
    <2>2. CASE StopAgain(p)
      BY <2>2, StateType, SameVm DEF StopAgain, IInv, States
    <2>3. CASE Restart(p)
      BY <2>3, BootType, SameVm DEF Restart, IInv
    <2> QED
      BY <2>1, <2>2, <2>3
  <1>2. Elsewhere(p)
    BY DEF BootInstall, StopAgain, Restart, Elsewhere, Moves, Traceback, Results, Places,
           Labels, NewLabels
  <1> QED
    BY <1>1, <1>2, CallInv DEF BootInstall, StopAgain, Restart, IInv, TypeOK
-----------------------------------------------------------------------------
(* Steps that make or remove a VM or a disk *)

LEMMA DeletesInv ==
    ASSUME IInv, NEW p \in Proc, DeleteVm(p) \/ DeleteAll(p)
    PROVE  IInv'
  <1>1. /\ pc[p] \notin NewLabels \cup {"end"}
        /\ UNCHANGED <<setting, nextId, files, seen, host>>
        /\ vm' = vm \/ (Current(p) /\ vm' = NoVm)
        /\ \/ End(p, "traceback")
           \/ End(p, "successful") /\ (command[p] = "delete" => Current(p) /\ vm' = NoVm)
    BY DEF DeleteVm, DeleteAll, Startable, Traceback, NewLabels, IInv, OwnCode
  <1>2. command[p] # "new" /\ \A q \in Proc : command'[q] = command[q]
    BY <1>1 DEF IInv, OwnCode, command
  <1>3. TypeOK'
    <2>1. NoVm \in Vm
      BY DEF NoVm, Vm, States
    <2>2. /\ pc' \in [Proc -> Labels] /\ result' \in [Proc -> Results]
          /\ \A q \in Proc : pc'[q] = "end" <=> result'[q] # "none"
      BY <1>1, EndType DEF IInv, Results
    <2> QED
      BY <1>1, <2>1, <2>2 DEF IInv, TypeOK
  <1>4. /\ pc'[p] = "end" /\ result'[p] \in {"traceback", "successful"}
        /\ result'[p] = "successful" /\ command[p] = "delete" => Current(p) /\ vm' = NoVm
        /\ \A q \in Proc \ {p} : pc'[q] = pc[q] /\ result'[q] = result[q]
    BY <1>1 DEF End, IInv, TypeOK
  <1>5. IdsGrow'
    BY <1>1, <1>2, <1>4 DEF IInv, IdsGrow, Current, NoVm, TypeOK, Vm
  <1>6. OwnCode'
    BY <1>2, <1>4 DEF IInv, OwnCode
  <1>7. DeleteMeansGone'
    BY <1>1, <1>2, <1>4, <1>5 DEF IInv, DeleteMeansGone, Current, NoVm, IdsGrow
  <1>8. DisklessIsReported'
    BY <1>1, <1>2, <1>4 DEF IInv, DisklessIsReported, NoVm
  <1> QED
    BY <1>3, <1>5, <1>6, <1>7, <1>8 DEF IInv

LEMMA AddVmInv ==
    ASSUME IInv, NEW p \in Proc, AddVm(p)
    PROVE  IInv'
  <1>1. command[p] = "new" /\ \A q \in Proc : command'[q] = command[q]
    BY DEF AddVm, IInv, OwnCode, NewLabels, command
  <1>2. \A q \in Proc \ {p} : pc'[q] = pc[q] /\ result'[q] = result[q] /\ seen'[q] = seen[q]
    BY DEF AddVm, Traceback, Go, End, IInv, TypeOK
  <1>3. CASE vm.id # 0
    <2>1. End(p, "traceback") /\ UNCHANGED <<setting, vm, nextId, files, seen, host>>
      BY <1>3 DEF AddVm, Traceback
    <2>2. pc'[p] = "end" /\ result'[p] = "traceback"
      BY <2>1 DEF End, IInv, TypeOK
    <2>3. TypeOK'
      BY <2>1, EndType DEF IInv, TypeOK, Results
    <2>4. IdsGrow' /\ OwnCode'
      BY <1>1, <1>2, <2>1, <2>2 DEF IInv, IdsGrow, OwnCode
    <2>5. DeleteMeansGone' /\ DisklessIsReported'
      BY <1>1, <1>2, <2>1, <2>2 DEF IInv, DeleteMeansGone, DisklessIsReported
    <2> QED
      BY <2>3, <2>4, <2>5 DEF IInv
  <1>4. CASE vm.id = 0
    <2>1. /\ vm' = [NoVm EXCEPT !.id = nextId] /\ nextId' = nextId + 1
          /\ seen' = [seen EXCEPT ![p] = [id |-> nextId, state |-> "down"]]
          /\ pc[p] = "add" /\ Go(p, "addnic") /\ UNCHANGED <<setting, files, host>>
      BY <1>4 DEF AddVm
    <2>2. pc'[p] = "addnic" /\ result'[p] = "none"
      BY <2>1 DEF Go, IInv, TypeOK
    <2>3. TypeOK'
      <3>1. vm' \in Vm /\ nextId' \in Nat
        BY <2>1 DEF IInv, TypeOK, NoVm, Vm, States
      <3>2. seen' \in [Proc -> [id : Nat, state : States]]
        BY <2>1 DEF IInv, TypeOK, States
      <3> QED
        BY <2>1, <3>1, <3>2, GoType DEF IInv, TypeOK, Labels
    <2>4. seen'[p].id = nextId /\ vm'.id = nextId
      BY <2>1 DEF IInv, TypeOK, NoVm
    <2>5. IdsGrow'
      BY <1>1, <1>2, <2>1, <2>2, <2>4 DEF IInv, IdsGrow, TypeOK
    <2>6. OwnCode'
      BY <1>1, <1>2, <2>2 DEF IInv, OwnCode, NewLabels
    <2>7. DeleteMeansGone'
      BY <1>1, <1>2, <2>4 DEF IInv, DeleteMeansGone, IdsGrow, TypeOK
    <2>8. DisklessIsReported'
      BY <1>1, <2>2, <2>4 DEF DisklessIsReported
    <2> QED
      BY <2>3, <2>5, <2>6, <2>7, <2>8 DEF IInv
  <1> QED
    BY <1>3, <1>4

\* The rest of new: only a disk makes it return a pair.
LEMMA NewGoesOnInv ==
    ASSUME IInv, NEW p \in Proc, AddNic(p) \/ AddDisk(p)
    PROVE  IInv'
  <1>1. command[p] = "new" /\ pc[p] # "end" /\ \A q \in Proc : command'[q] = command[q]
    BY DEF AddNic, AddDisk, IInv, OwnCode, NewLabels, command
  <1>2. /\ UNCHANGED <<setting, nextId, files, seen, host>>
        /\ vm' = vm \/ vm' = [vm EXCEPT !.disk = "blank"]
        /\ \/ Go(p, "adddisk")
           \/ \E res \in {"traceback", "nothing"} : End(p, res)
           \/ End(p, "pair") /\ vm' = [vm EXCEPT !.disk = "blank"]
    BY DEF AddNic, AddDisk, Traceback
  <1>3. vm' \in Vm /\ vm'.id = vm.id /\ vm'.disk \in {vm.disk, "blank"}
    BY <1>2 DEF IInv, TypeOK, Vm
  <1>4. /\ pc' \in [Proc -> Labels] /\ result' \in [Proc -> Results]
        /\ \A q \in Proc : pc'[q] = "end" <=> result'[q] # "none"
    BY <1>1, <1>2, GoType, EndType DEF IInv, Labels, Results
  <1>5. TypeOK'
    BY <1>2, <1>3, <1>4 DEF IInv, TypeOK
  <1>6. /\ \A q \in Proc \ {p} : pc'[q] = pc[q] /\ result'[q] = result[q]
        /\ pc'[p] \in {"adddisk", "end"}
        /\ result'[p] = "pair" => vm'.disk = "blank"
    BY <1>1, <1>2 DEF Go, End, IInv, TypeOK, Vm
  <1>7. IdsGrow' /\ OwnCode'
    BY <1>1, <1>2, <1>3, <1>6 DEF IInv, IdsGrow, OwnCode, NewLabels
  <1>8. DeleteMeansGone' /\ DisklessIsReported'
    BY <1>1, <1>2, <1>3, <1>6 DEF IInv, DeleteMeansGone, DisklessIsReported
  <1> QED
    BY <1>5, <1>7, <1>8 DEF IInv

LEMMA KilledInv ==
    ASSUME IInv, NEW p \in Proc, Killed(p)
    PROVE  IInv'
  <1>1. \A q \in Proc : command'[q] = command[q]
    BY DEF Killed, command
  <1>2. /\ pc'[p] = "end" /\ result'[p] = "killed"
        /\ \A q \in Proc \ {p} : pc'[q] = pc[q] /\ result'[q] = result[q]
    BY DEF Killed, End, IInv, TypeOK
  <1>3. files' \in [Files -> [content : {"none", "whole", "broken"}, writers : SUBSET Proc]]
    BY DEF Killed, IInv, TypeOK
  <1>4. TypeOK'
    BY <1>3, EndType DEF Killed, IInv, TypeOK, Results
  <1>5. IdsGrow' /\ OwnCode'
    BY <1>1, <1>2 DEF Killed, IInv, IdsGrow, OwnCode
  <1>6. DeleteMeansGone' /\ DisklessIsReported'
    BY <1>1, <1>2 DEF Killed, IInv, DeleteMeansGone, DisklessIsReported
  <1> QED
    BY <1>4, <1>5, <1>6 DEF IInv

LEMMA EngineInv ==
    ASSUME IInv, Engine \/ Pauses
    PROVE  IInv'
  <1>1. vm' \in Vm /\ vm'.id = vm.id /\ vm'.disk \in {vm.disk, "installed"}
    BY DEF Engine, BootsUp, GoesDown, Installed, Pauses, SetState, IInv, TypeOK, Vm, States
  <1>2. UNCHANGED <<setting, nextId, files, pc, seen, host, result>>
    BY DEF Engine, Pauses
  <1>3. \A q \in Proc : command'[q] = command[q]
    BY <1>2 DEF command
  <1>4. TypeOK'
    BY <1>1, <1>2 DEF IInv, TypeOK
  <1>5. IdsGrow' /\ OwnCode'
    BY <1>1, <1>2, <1>3 DEF IInv, IdsGrow, OwnCode
  <1>6. DeleteMeansGone' /\ DisklessIsReported'
    BY <1>1, <1>2, <1>3 DEF IInv, DeleteMeansGone, DisklessIsReported
  <1> QED
    BY <1>4, <1>5, <1>6 DEF IInv
-----------------------------------------------------------------------------
(* The theorems *)

LEMMA InitInv == Init => IInv
  <1>1. SUFFICES ASSUME Init PROVE IInv
    OBVIOUS
  <1>2. TypeOK
    BY <1>1, InitType
  <1>3. IdsGrow
    BY <1>1 DEF Init, IdsGrow, NoVm
  <1>4. OwnCode
    BY <1>1, <1>2, Commands DEF Init, OwnCode, First, Command, NewLabels
  <1>5. DeleteMeansGone /\ DisklessIsReported
    BY <1>1 DEF Init, DeleteMeansGone, DisklessIsReported, NoVm
  <1> QED
    BY <1>2, <1>3, <1>4, <1>5 DEF IInv

LEMMA StepInv ==
    ASSUME IInv, NEW p \in Proc, Step(p)
    PROVE  IInv'
  BY GetInv, VmStateInv, StopsInv, DeletesInv, AddVmInv, NewGoesOnInv, SelectHostInv,
     OpenSessionInv, DownloadInv, LoopsInv, BootsInv DEF Step

LEMMA NextInv == IInv /\ [Next]_vars => IInv'
  <1>1. SUFFICES ASSUME IInv, [Next]_vars PROVE IInv'
    OBVIOUS
  <1>2. CASE Next
    BY <1>1, <1>2, EngineInv, StepInv, KilledInv DEF Next
  <1>3. CASE UNCHANGED vars
    <2>1. \A q \in Proc : command'[q] = command[q]
      BY <1>3 DEF vars, command
    <2> QED
      BY <1>1, <1>3, <2>1 DEF vars, IInv, TypeOK, IdsGrow, OwnCode, DeleteMeansGone,
                              DisklessIsReported
  <1> QED
    BY <1>1, <1>2, <1>3

\* The invariant all others follow from.
THEOREM Inductive == Spec => []IInv
  BY InitInv, NextInv, PTL DEF Spec

\* Every variable keeps its type, whichever commands run and fail.
THEOREM TypeCorrect == Spec => []TypeOK
  BY Inductive, PTL DEF IInv

\* delete.vm: a VM reported deleted is gone, and stays gone whoever makes
\* another one of its name.
THEOREM DeleteSound == Spec => []DeleteMeansGone
  BY Inductive, PTL DEF IInv

\* new.vm_and_bootable_disk: a VM without a disk is the work of a new that has
\* not reported a pair, and of no other command.
THEOREM DisklessSound == Spec => []DisklessIsReported
  BY Inductive, PTL DEF IInv
-----------------------------------------------------------------------------
(* The installation *)

\* Where operating_system is; no other command's code is among it.
InstallLabels == {"get", "host", "host_again", "password", "kernel", "initrd", "wget_kernel",
                  "wget_initrd", "stop", "wait_down", "prepared", "boot", "installing",
                  "poll", "stop_again", "get_again", "wait_again", "restart", "end"}

InstallCode == \A p \in Proc : command[p] = "install" => pc[p] \in InstallLabels

\* The VM of a new that has not come to its disk has none, and no two of them
\* have the same VM.
NewVms ==
    \A p \in Proc : pc[p] \in {"addnic", "adddisk"} =>
        /\ 0 < seen[p].id
        /\ vm.id = seen[p].id => vm.disk = "none"
        /\ \A q \in Proc \ {p} : pc[q] \in {"addnic", "adddisk"} => seen[q].id # seen[p].id

\* What a VM that is timely has behind it when it is off again.
Done == Timely => vm.disk = "installed"

\* The VM is off: by the guest's poweroff after the installation, if it is timely.
PoweredOff == vm.id # 0 /\ Done /\ vm.state \in {"leaving", "down"}

\* From the installation's boot on: the VM comes up, and a timely one leaves that
\* state by its own poweroff only.
Progress(p) ==
    /\ pc[p] \in {"installing", "poll", "stop_again"} => vm.id # 0
    /\ pc[p] = "installing" /\ Timely => vm.state \in {"booting", "up"} \/ PoweredOff
    /\ pc[p] = "poll" /\ Timely => /\ vm.state = "up" \/ PoweredOff
                                   /\ seen[p].state # "up" => PoweredOff
    /\ pc[p] = "stop_again" /\ Timely => PoweredOff
    /\ pc[p] \in {"get_again", "wait_again", "restart"} => PoweredOff
    /\ result[p] = "0" => /\ vm.id # 0 /\ Done /\ vm.boot = "disk"
                          /\ vm.state \in {"booting", "up", "paused"}

Alone(p) == command[p] = "install" /\ Others(p) \subseteq {"new"}

InstallInv ==
    /\ InstallCode
    /\ NewVms
    /\ \A p \in Proc : Alone(p) => Progress(p)

IInstall == IInv /\ InstallInv

LEMMA InstallInit == Init => InstallInv
  <1>1. SUFFICES ASSUME Init PROVE InstallInv
    OBVIOUS
  <1>2. \A p \in Proc : /\ pc[p] \in {"add", "installing", "get"} /\ result[p] = "none"
                        /\ command[p] = "install" => pc[p] = "get"
    BY <1>1 DEF Init, First
  <1>3. InstallCode
    BY <1>2 DEF InstallCode, InstallLabels
  <1>4. NewVms
    BY <1>2 DEF NewVms
  <1>5. ASSUME NEW p \in Proc, Alone(p) PROVE Progress(p)
    <2>1. pc[p] = "get" /\ result[p] = "none"
      BY <1>2, <1>5 DEF Alone
    <2> QED
      BY <2>1 DEF Progress
  <1> QED
    BY <1>3, <1>4, <1>5 DEF InstallInv

\* A command other than new touches no VM in the making: it takes a VM away or
\* leaves it, and its disk, as they are.
Apart(p) ==
    /\ vm'.id = 0 \/ (vm'.id = vm.id /\ vm'.disk = vm.disk)
    /\ \A q \in Proc \ {p} : pc'[q] = pc[q] /\ seen'[q] = seen[q] /\ result'[q] = result[q]
    /\ pc'[p] \notin NewLabels
    /\ command[p] = "install" => pc'[p] \in InstallLabels
    /\ setting' = setting

LEMMA ApartFirst ==
    ASSUME IInv, InstallCode, NEW p \in Proc,
           Get(p) \/ VmUp(p) \/ VmPoweroff(p) \/ StopBeforeDelete(p) \/ DeleteVm(p)
             \/ DeleteAll(p) \/ Killed(p)
    PROVE  Apart(p)
  <1>1. command[p] \in Command
    BY Commands DEF IInv
  <1>2. CASE Get(p)
    BY <1>1, <1>2 DEF Get, FetchThen, Fetch, Traceback, Go, End, Apart, IInv, TypeOK, OwnCode,
                      Command, NewLabels, InstallLabels
  <1>3. CASE VmUp(p) \/ VmPoweroff(p)
    BY <1>3, BootType, StateType DEF VmUp, VmPoweroff, End, Apart, IInv, TypeOK, NewLabels,
                                     InstallLabels, States
  <1>4. CASE StopBeforeDelete(p)
    <2>1. vm'.id = vm.id /\ vm'.disk = vm.disk
      BY <1>4, Stopping DEF StopBeforeDelete, TryStop, IInv
    <2>2. command[p] # "install"
      BY <1>4 DEF StopBeforeDelete, InstallCode, InstallLabels
    <2> QED
      BY <1>4, <2>1, <2>2 DEF StopBeforeDelete, TryStop, Go, Apart, IInv, TypeOK, NewLabels
  <1>5. CASE DeleteVm(p) \/ DeleteAll(p) \/ Killed(p)
    BY <1>5 DEF DeleteVm, DeleteAll, Killed, Traceback, End, NoVm, Apart, IInv, TypeOK,
                NewLabels, InstallLabels
  <1> QED
    BY <1>2, <1>3, <1>4, <1>5

\* The steps of operating_system.
InstallStep(p) ==
    \/ SelectHost(p) \/ HostAgain(p) \/ OpenSession(p)
    \/ (\E f \in Files : StartDownload(p, f) \/ EndDownload(p, f))
    \/ StopForInstall(p) \/ WaitDown(p) \/ Prepared(p) \/ BootInstall(p)
    \/ Slept(p) \/ Poll(p) \/ StopAgain(p) \/ GetAgain(p) \/ WaitAgain(p) \/ Restart(p)

LEMMA ApartInstall ==
    ASSUME IInv, NEW p \in Proc, InstallStep(p)
    PROVE  Apart(p)
  <1>1. CASE SelectHost(p) \/ OpenSession(p)
    BY <1>1, BootType DEF SelectHost, OpenSession, Traceback, Go, End, Apart, IInv, TypeOK,
                NewLabels, InstallLabels
  <1>5. ASSUME NEW f \in Files, StartDownload(p, f) \/ EndDownload(p, f) PROVE Apart(p)
    <2>1. f \in {"kernel", "initrd"} /\ Wget[f] \in {"wget_kernel", "wget_initrd"}
      BY DEF Files, Wget
    <2> QED
      BY <1>5, <2>1 DEF StartDownload, EndDownload, Go, Apart, IInv, TypeOK, NewLabels,
                        InstallLabels
  <1>2. CASE HostAgain(p) \/ WaitDown(p) \/ Prepared(p) \/ Slept(p) \/ Poll(p)
               \/ GetAgain(p) \/ WaitAgain(p)
    BY <1>2 DEF HostAgain, WaitDown, Prepared, Slept, Poll, GetAgain, WaitAgain, FetchThen,
                Fetch, Traceback, Go, End, Apart, IInv, TypeOK, NewLabels, InstallLabels
  <1>3. CASE StopForInstall(p) \/ StopAgain(p)
    BY <1>3, StateType DEF StopForInstall, TryStop, StopAgain, Traceback, Go, End, Apart,
                IInv, TypeOK, NewLabels, InstallLabels, States
  <1>4. CASE BootInstall(p) \/ Restart(p)
    BY <1>4, BootType DEF BootInstall, Restart, Traceback, Go, End, Apart,
                IInv, TypeOK, NewLabels, InstallLabels
  <1> QED
    BY <1>1, <1>2, <1>3, <1>4, <1>5 DEF InstallStep

\* Whom a step belongs to.
LEMMA Steps ==
    ASSUME IInv, NEW p \in Proc, Step(p)
    PROVE  \/ Get(p) \/ VmUp(p) \/ VmPoweroff(p) \/ StopBeforeDelete(p) \/ DeleteVm(p)
              \/ DeleteAll(p) \/ InstallStep(p)
           \/ command[p] = "new" /\ (AddVm(p) \/ AddNic(p) \/ AddDisk(p))
  BY DEF Step, InstallStep, AddVm, AddNic, AddDisk, IInv, OwnCode, NewLabels

\* new makes a VM where there is none, under an id nobody has seen, and gives
\* a disk to the VM it made.
Makes(p) ==
    /\ setting' = setting /\ command[p] = "new"
    /\ \A q \in Proc \ {p} : pc'[q] = pc[q] /\ seen'[q] = seen[q] /\ result'[q] = result[q]
    /\ \/ /\ pc'[p] = "addnic" /\ seen'[p].id = nextId
          /\ vm.id = 0 /\ vm'.id = nextId /\ vm'.disk = "none"
       \/ /\ pc[p] \in {"addnic", "adddisk"} /\ pc'[p] = "adddisk" /\ seen'[p] = seen[p]
          /\ vm' = vm
       \/ pc'[p] = "end" /\ vm' = vm
       \/ /\ pc'[p] = "end" /\ pc[p] = "adddisk" /\ vm.id # 0 /\ vm.id = seen[p].id
          /\ vm' = [vm EXCEPT !.disk = "blank"]

LEMMA NewMakes ==
    ASSUME IInv, NEW p \in Proc, command[p] = "new", AddVm(p) \/ AddNic(p) \/ AddDisk(p)
    PROVE  Makes(p)
  <1>1. CASE AddVm(p)
    BY <1>1 DEF AddVm, Traceback, Go, End, NoVm, Makes, IInv, TypeOK
  <1>2. CASE AddNic(p)
    BY <1>2 DEF AddNic, Traceback, Go, End, Makes, IInv, TypeOK
  <1>3. CASE AddDisk(p)
    BY <1>3 DEF AddDisk, Current, Traceback, End, Makes, IInv, TypeOK
  <1> QED
    BY <1>1, <1>2, <1>3
-----------------------------------------------------------------------------
(* The parts of InstallInv *)

LEMMA SameCommands ==
    ASSUME setting' = setting
    PROVE  /\ command' = command
           /\ \A p \in Proc : Alone(p)' <=> Alone(p)
  BY DEF command, Alone, Others

LEMMA ApartCode ==
    ASSUME IInstall, NEW p \in Proc, Apart(p)
    PROVE  InstallCode' /\ NewVms'
  <1>1. InstallCode'
    BY SameCommands DEF IInstall, InstallInv, InstallCode, Apart
  <1>2. NewVms'
    BY DEF IInstall, InstallInv, NewVms, Apart, NewLabels
  <1> QED
    BY <1>1, <1>2

LEMMA MakesCode ==
    ASSUME IInstall, NEW p \in Proc, Makes(p)
    PROVE  InstallCode' /\ NewVms'
  <1>1. InstallCode'
    BY SameCommands DEF IInstall, InstallInv, InstallCode, Makes
  <1>2. /\ nextId \in Nat /\ 0 < nextId /\ vm \in Vm
        /\ \A q \in Proc : seen[q].id \in Nat /\ seen[q].id < nextId
    BY DEF IInstall, IInv, IdsGrow, TypeOK
  <1>3. NewVms'
    BY <1>2 DEF IInstall, InstallInv, NewVms, Makes, Vm
  <1> QED
    BY <1>1, <1>3

\* A new beside it does not disturb an installation: it makes no VM while there
\* is one, and its disk goes to a VM without one.
LEMMA MakesProgress ==
    ASSUME IInstall, NEW p \in Proc, NEW q \in Proc, p # q, Makes(q), Progress(p)
    PROVE  Progress(p)'
  <1>1. pc'[p] = pc[p] /\ seen'[p] = seen[p] /\ result'[p] = result[p] /\ setting' = setting
    BY DEF Makes
  <1>2. CASE vm' = vm
    BY <1>1, <1>2 DEF Progress, PoweredOff, Done, Timely, Fault
  <1>3. CASE vm.id = 0
    BY <1>1, <1>3 DEF Progress, PoweredOff, Done, Timely, Fault
  <1>4. CASE pc[q] = "adddisk" /\ vm.id = seen[q].id /\ vm' = [vm EXCEPT !.disk = "blank"]
    <2>1. vm.disk = "none"
      BY <1>4 DEF IInstall, InstallInv, NewVms
    <2>2. vm'.id = vm.id /\ vm'.state = vm.state /\ vm'.boot = vm.boot
      BY <1>4 DEF IInstall, IInv, TypeOK, Vm
    <2>3. Timely' <=> Timely
      BY <1>1 DEF Timely, Fault
    <2>4. Done => Done'
      BY <2>1, <2>3 DEF Done
    <2> QED
      BY <1>1, <2>2, <2>3, <2>4 DEF Progress, PoweredOff
  <1> QED
    BY <1>2, <1>3, <1>4 DEF Makes

\* What operating_system does to the VM, and what it waits for.
LEMMA OwnProgress ==
    ASSUME IInv, NEW p \in Proc, InstallStep(p), Progress(p)
    PROVE  Progress(p)'
  <1>1. vm \in Vm
    BY DEF IInv, TypeOK
  <1>2. CASE SelectHost(p) \/ HostAgain(p) \/ OpenSession(p) \/ StopForInstall(p)
               \/ WaitDown(p) \/ Prepared(p)
    <2>1. /\ pc'[p] \in {"password", "host_again", "host", "prepared", "kernel", "stop",
                        "wait_down", "boot", "end"}
          /\ result'[p] # "0"
      BY <1>2 DEF SelectHost, HostAgain, OpenSession, StopForInstall, WaitDown, Prepared,
                  TryStop, FetchThen, Traceback, Go, End, IInv, TypeOK
    <2> QED
      BY <2>1 DEF Progress
  <1>3. ASSUME NEW f \in Files, StartDownload(p, f) \/ EndDownload(p, f)
        PROVE  Progress(p)'
    <2>1. f \in {"kernel", "initrd"} /\ Wget[f] \in {"wget_kernel", "wget_initrd"}
      BY DEF Files, Wget
    <2>2. /\ pc'[p] \in {"wget_kernel", "wget_initrd", "initrd", "stop"}
          /\ result'[p] # "0"
      BY <1>3, <2>1 DEF StartDownload, EndDownload, Go, IInv, TypeOK
    <2> QED
      BY <2>2 DEF Progress
  <1>4. CASE BootInstall(p)
    BY <1>1, <1>4 DEF BootInstall, Startable, Current, Boot, Traceback, Go, End, IInv, TypeOK,
                      Progress, Vm
  <1>5. CASE Slept(p)
    BY <1>1, <1>5 DEF Slept, FetchThen, Fetch, Traceback, Go, End, IInv, TypeOK, Progress,
                      PoweredOff, Done, Timely, Fault
  <1>6. CASE Poll(p)
    BY <1>1, <1>6 DEF Poll, FetchThen, Fetch, Traceback, Go, End, IInv, TypeOK, Progress,
                      PoweredOff, Done, Timely, Fault
  <1>7. CASE StopAgain(p)
    BY <1>1, <1>7 DEF StopAgain, SetState, Traceback, Go, End, IInv, TypeOK, Progress,
                      PoweredOff, Done, Timely, Fault, Vm
  <1>8. CASE GetAgain(p) \/ WaitAgain(p)
    BY <1>1, <1>8 DEF GetAgain, WaitAgain, FetchThen, Fetch, Traceback, Go, End, IInv, TypeOK,
                      Progress, PoweredOff, Done, Timely, Fault
  <1>9. CASE Restart(p)
    BY <1>1, <1>9 DEF Restart, Boot, Traceback, Go, End, IInv, TypeOK, Progress,
                      PoweredOff, Done, Timely, Fault, Vm
  <1> QED
    BY <1>2, <1>3, <1>4, <1>5, <1>6, <1>7, <1>8, <1>9 DEF InstallStep

LEMMA StepInstall ==
    ASSUME IInstall, NEW q \in Proc, Step(q)
    PROVE  InstallInv'
  <1>1. IInv /\ InstallCode
    BY DEF IInstall, InstallInv
  <1>2. \/ Apart(q) /\ (Get(q) \/ command[q] # "install" \/ InstallStep(q))
        \/ Makes(q)
    <2>1. CASE Get(q) \/ VmUp(q) \/ VmPoweroff(q) \/ StopBeforeDelete(q) \/ DeleteVm(q)
               \/ DeleteAll(q)
      BY <1>1, <2>1, ApartFirst DEF VmUp, VmPoweroff, StopBeforeDelete, DeleteVm, DeleteAll,
                                    InstallCode, InstallLabels
    <2>2. CASE InstallStep(q)
      BY <1>1, <2>2, ApartInstall
    <2>3. CASE command[q] = "new" /\ (AddVm(q) \/ AddNic(q) \/ AddDisk(q))
      BY <1>1, <2>3, NewMakes
    <2> QED
      BY <1>1, <2>1, <2>2, <2>3, Steps
  <1>3. InstallCode' /\ NewVms'
    BY <1>2, ApartCode, MakesCode
  <1>4. setting' = setting
    BY <1>2 DEF Apart, Makes
  <1>5. ASSUME NEW p \in Proc, Alone(p) PROVE Progress(p)'
    <2>1. Progress(p)
      BY <1>5 DEF IInstall, InstallInv
    <2>2. CASE p # q
      <3>1. command[q] = "new"
        BY <1>5, <2>2 DEF Alone, Others
      <3>2. pc[q] \in NewLabels \cup {"end"}
        BY <1>1, <3>1 DEF IInv, OwnCode
      <3>3. ~InstallStep(q)
        <4>1. \A f \in Files : ~StartDownload(q, f) /\ ~EndDownload(q, f)
          BY <3>2 DEF StartDownload, EndDownload, Files, Wget, NewLabels
        <4> QED
          BY <3>2, <4>1 DEF InstallStep, SelectHost, HostAgain, OpenSession, StopForInstall,
               WaitDown, Prepared, BootInstall, Slept, Poll, StopAgain, GetAgain, WaitAgain,
               Restart, NewLabels
      <3>4. ~(Get(q) \/ VmUp(q) \/ VmPoweroff(q) \/ StopBeforeDelete(q) \/ DeleteVm(q)
                \/ DeleteAll(q))
        BY <3>2 DEF Get, VmUp, VmPoweroff, StopBeforeDelete, DeleteVm, DeleteAll, NewLabels
      <3>5. Makes(q)
        BY <1>1, <3>3, <3>4, Steps, NewMakes
      <3> QED
        BY <2>1, <2>2, <3>5, MakesProgress
    <2>3. CASE p = q /\ InstallStep(q)
      BY <1>1, <2>1, <2>3, OwnProgress
    <2>4. CASE p = q /\ Get(q)
      <3>1. command[p] = "install"
        BY <1>5 DEF Alone
      <3>2. pc'[p] \in {"host", "end"} /\ result'[p] # "0"
        BY <1>1, <2>4, <3>1 DEF Get, FetchThen, Traceback, Go, End, IInv, TypeOK
      <3> QED
        BY <3>2 DEF Progress
    <2> QED
      BY <1>2, <1>5, <2>2, <2>3, <2>4 DEF Alone, Makes
  <1> QED
    BY <1>3, <1>4, <1>5, SameCommands DEF InstallInv

LEMMA KilledInstall ==
    ASSUME IInstall, NEW q \in Proc, Killed(q)
    PROVE  InstallInv'
  <1>1. Apart(q)
    BY ApartFirst DEF IInstall, InstallInv
  <1>2. /\ pc'[q] = "end" /\ result'[q] = "killed" /\ vm' = vm /\ setting' = setting
        /\ \A p \in Proc \ {q} : pc'[p] = pc[p] /\ seen'[p] = seen[p] /\ result'[p] = result[p]
    BY DEF Killed, End, IInstall, IInv, TypeOK
  <1>3. ASSUME NEW p \in Proc, Alone(p) PROVE Progress(p)'
    <2>1. Progress(p)
      BY <1>3 DEF IInstall, InstallInv
    <2> QED
      BY <1>2, <2>1 DEF Progress, PoweredOff, Done, Timely, Fault
  <1> QED
    BY <1>1, <1>2, <1>3, ApartCode, SameCommands DEF InstallInv

LEMMA EngineInstall ==
    ASSUME IInstall, Engine \/ Pauses
    PROVE  InstallInv'
  <1>1. UNCHANGED <<setting, nextId, files, pc, seen, host, result>>
    BY DEF Engine, Pauses
  <1>2. vm \in Vm
    BY DEF IInstall, IInv, TypeOK
  <1>3. /\ vm'.id = vm.id /\ vm'.boot = vm.boot
        /\ \/ vm.state = "booting" /\ vm'.state = "up" /\ vm'.disk = vm.disk
           \/ vm.state = "leaving" /\ vm'.state = "down" /\ vm'.disk = vm.disk
           \/ /\ vm.state = "up" /\ vm.boot = "install" /\ vm.disk # "none"
              /\ vm'.state \in {"leaving", "down"} /\ vm'.disk = "installed"
           \/ /\ ~Timely /\ {vm.state, vm'.state} \subseteq {"up", "paused"}
              /\ vm'.disk = vm.disk
    BY <1>2 DEF Engine, BootsUp, GoesDown, Installed, Pauses, Timely, SetState, Vm
  <1>4. InstallCode' /\ NewVms'
    BY <1>1, <1>3, SameCommands DEF IInstall, InstallInv, InstallCode, NewVms
  <1>5. ASSUME NEW p \in Proc, Alone(p) PROVE Progress(p)'
    <2>1. Progress(p)
      BY <1>5 DEF IInstall, InstallInv
    <2> QED
      BY <1>1, <1>3, <2>1 DEF Progress, PoweredOff, Done, Timely, Fault
  <1> QED
    BY <1>1, <1>4, <1>5, SameCommands DEF InstallInv

LEMMA InstallNext == IInstall /\ [Next]_vars => IInstall'
  <1>1. SUFFICES ASSUME IInstall, [Next]_vars PROVE IInstall'
    OBVIOUS
  <1>2. IInv'
    BY <1>1, NextInv DEF IInstall
  <1>3. CASE Next
    BY <1>1, <1>2, <1>3, EngineInstall, StepInstall, KilledInstall DEF Next, IInstall
  <1>4. CASE UNCHANGED vars
    <2>1. InstallCode' /\ NewVms'
      BY <1>1, <1>4, SameCommands DEF vars, IInstall, InstallInv, InstallCode, NewVms
    <2>2. ASSUME NEW p \in Proc, Alone(p) PROVE Progress(p)'
      BY <1>1, <1>4, <2>2 DEF vars, IInstall, InstallInv, Progress, PoweredOff, Done, Timely, Fault
    <2> QED
      BY <1>2, <1>4, <2>1, <2>2, SameCommands DEF vars, IInstall, InstallInv
  <1> QED
    BY <1>1, <1>3, <1>4

\* set operating_system: when no command but new is at work, a 0 means that the
\* VM was started from its disk, and that the guest was installed unless the VM
\* took longer to boot than the sleep or was paused. Failures on the host (no
\* password, no session, a failed download) and kills are among the steps.
THEOREM InstallSound == Spec => []InstallReported
  <1>1. Init => IInstall
    BY InitInv, InstallInit DEF IInstall
  <1>2. IInstall => InstallReported
    BY DEF IInstall, InstallInv, InstallReported, Alone, Progress,
            Done
  <1> QED
    BY <1>1, <1>2, InstallNext, PTL DEF Spec
=============================================================================
