--------------------------- MODULE StorageDomain ---------------------------
(***************************************************************************)
(* Runs of ovirt-remote that work on one storage domain, known to them by  *)
(* its name: delete domain, set domain (maintenance, detach, up) and new   *)
(* nfs-domain.  Every call to the engine is a step; what a run has read    *)
(* from the engine is a snapshot that may be out of date at its next call. *)
(*                                                                         *)
(* The engine is not part of the repository.  It accepts or refuses a call *)
(* at once and carries an accepted one out later.  A domain created again  *)
(* under the name is a different one: objects are called by id.            *)
(***************************************************************************)
EXTENDS Naturals

CONSTANTS
    Proc,      \* runs of ovirt-remote
    Settings   \* the circumstances they may meet in

Command == {"delete", "maintenance", "detach", "up", "new", "newblock"}
Status  == {"absent", "unattached", "activating", "active", "inactive",
            "deactivating", "maintenance", "detaching"}

\* What each run is asked to do, the domain's status at first, whether
\* detaching takes less than the sleep(10) of delete, what may go wrong.
Setting == [command : [Proc -> Command], status : Status, inTime : BOOLEAN,
            faults : SUBSET {"refuse", "deactivate", "storage"}]

ASSUME Parameters == Settings \subseteq Setting

VARIABLES
    setting,  \* never changed
    pc,       \* the next call of each run
    ret,      \* what its command returned
    sd,       \* the domain as last read, NoSd for None
    dc,       \* whether the domain was in a data centre when looked up
    sd_no_dc, \* the id of the domain as read outside its data centre
    domain    \* the engine's domain of that name

run  == <<setting, pc, ret, sd, dc, sd_no_dc>>
vars == <<run, domain>>
-----------------------------------------------------------------------------
NoSd   == [id |-> 0, status |-> "absent"]
Domain == [id : Nat, status : Status]

command == setting.command

Attached == domain.status \notin {"absent", "unattached"}
InDc     == IF Attached THEN domain ELSE NoSd
AtTop    == IF domain.status = "absent" THEN NoSd ELSE domain

\* Whether the engine takes a call on the object with this id, which it may do
\* only while the domain has one of these statuses.
Answers(id, statuses) ==
    IF domain.id = id /\ domain.status \in statuses
    THEN IF "refuse" \in setting.faults THEN BOOLEAN ELSE {TRUE}
    ELSE {FALSE}

\* The id behind sd, 0 when it has none of the methods of a domain in a data
\* centre: None, or the domain as found outside.
Member(p) == IF dc[p] THEN sd[p].id ELSE 0

Become(status) == domain' = [domain EXCEPT !.status = status]

Return(p, r) == /\ pc' = [pc EXCEPT ![p] = "done"]
                /\ ret' = [ret EXCEPT ![p] = r]
                /\ UNCHANGED setting
GoTo(p, l)   == pc' = [pc EXCEPT ![p] = l] /\ UNCHANGED <<ret, setting>>

Init ==
    /\ setting \in Settings
    /\ pc = [p \in Proc |-> "start"]
    /\ ret = [p \in Proc |-> "running"]
    /\ sd = [p \in Proc |-> NoSd]
    /\ dc = [p \in Proc |-> FALSE]
    /\ sd_no_dc = [p \in Proc |-> 0]
    /\ domain = [id |-> 1, status |-> setting.status]
-----------------------------------------------------------------------------
(* get_sd_dc_objects: the domain by name, then again in its data centre *)

\* Mutant of GetTop: a missing domain is not told from an existing one.
GetTopUnchecked(p) ==
    /\ pc[p] = "start" /\ command[p] \notin {"new", "newblock"}
    /\ sd' = [sd EXCEPT ![p] = domain]
    /\ dc' = [dc EXCEPT ![p] = Attached]
    /\ GoTo(p, IF Attached THEN "indc" ELSE "first")
    /\ UNCHANGED <<sd_no_dc, domain>>

GetTop(p) ==
    /\ pc[p] = "start" /\ command[p] \notin {"new", "newblock"}
    /\ sd' = [sd EXCEPT ![p] = AtTop]
    /\ dc' = [dc EXCEPT ![p] = Attached]
    /\ GoTo(p, IF Attached THEN "indc" ELSE "first")
    /\ UNCHANGED <<sd_no_dc, domain>>

GetInDc(p) ==
    /\ pc[p] = "indc"
    /\ sd' = [sd EXCEPT ![p] = InDc]
    /\ GoTo(p, "first")
    /\ UNCHANGED <<dc, sd_no_dc, domain>>
-----------------------------------------------------------------------------
(* delete domain *)

DeleteNotFound(p) ==
    /\ pc[p] = "first" /\ command[p] = "delete" /\ sd[p] = NoSd
    /\ Return(p, "1")
    /\ UNCHANGED <<sd, dc, sd_no_dc, domain>>

\* An active domain is deactivated; when that is refused, delete gives up.
DeleteDeactivate(p) ==
    /\ pc[p] = "first" /\ command[p] = "delete" /\ sd[p].status = "active"
    /\ \E ok \in Answers(Member(p), {"active", "inactive"}) :
         IF ok THEN Become("deactivating") /\ GoTo(p, "nodc")
               ELSE UNCHANGED domain /\ Return(p, "1")
    /\ UNCHANGED <<sd, dc, sd_no_dc>>

DeleteSkip(p) ==
    /\ pc[p] = "first" /\ command[p] = "delete"
    /\ sd[p] # NoSd /\ sd[p].status # "active"
    /\ GoTo(p, "nodc")
    /\ UNCHANGED <<sd, dc, sd_no_dc, domain>>

\* Without a data centre dc is None where the hosts are looped over, or there
\* is no host and sd_no_dc was never assigned: a traceback either way.
DeleteGetTop(p) ==
    /\ pc[p] = "nodc"
    /\ IF dc[p]
       THEN sd_no_dc' = [sd_no_dc EXCEPT ![p] = AtTop.id] /\ GoTo(p, "poll")
       ELSE UNCHANGED sd_no_dc /\ Return(p, "traceback")
    /\ UNCHANGED <<sd, dc, domain>>

\* Mutants of Remove: the domain is looked up once more; an exception is
\* swallowed, as domain_state does.
RemoveByName(p) ==
    /\ pc[p] = "hosts"
    /\ setting.inTime => domain.status # "detaching"
    /\ \E ok \in Answers(domain.id, {"unattached"}) :
         IF ok THEN Become("absent") /\ Return(p, "successful")
               ELSE UNCHANGED domain /\ Return(p, "traceback")
    /\ UNCHANGED <<sd, dc, sd_no_dc>>

RemoveSwallows(p) ==
    /\ pc[p] = "hosts"
    /\ setting.inTime => domain.status # "detaching"
    /\ \E ok \in Answers(sd_no_dc[p], {"unattached"}) :
         IF ok THEN Become("absent") ELSE UNCHANGED domain
    /\ Return(p, "successful")
    /\ UNCHANGED <<sd, dc, sd_no_dc>>

\* The last call, ten seconds after the domain left its data centre.
Remove(p) ==
    /\ pc[p] = "hosts"
    /\ setting.inTime => domain.status # "detaching"
    /\ \E ok \in Answers(sd_no_dc[p], {"unattached"}) :
         IF ok THEN Become("absent") /\ Return(p, "successful")
               ELSE UNCHANGED domain /\ Return(p, "traceback")
    /\ UNCHANGED <<sd, dc, sd_no_dc>>
-----------------------------------------------------------------------------
(* Waiting for maintenance and leaving the data centre: delete and detach *)

\* Mutant of Poll: the loop looks at the object it has.
PollStale(p) ==
    /\ pc[p] = "poll" /\ sd[p].status # "maintenance"
    /\ UNCHANGED vars

Poll(p) ==
    /\ pc[p] = "poll" /\ sd[p].status # "maintenance"
    /\ sd' = [sd EXCEPT ![p] = InDc]
    /\ IF Attached THEN GoTo(p, "poll") ELSE Return(p, "traceback")
    /\ UNCHANGED <<dc, sd_no_dc, domain>>

\* Mutants of LeaveDc: delete ends where detach does; a refusal is swallowed.
LeaveDcOnly(p) ==
    /\ pc[p] = "poll" /\ sd[p].status = "maintenance"
    /\ \E ok \in Answers(Member(p), {"maintenance"}) :
         IF ok THEN Become("detaching") /\ Return(p, "0")
               ELSE UNCHANGED domain /\ Return(p, "traceback")
    /\ UNCHANGED <<sd, dc, sd_no_dc>>

LeaveDcSwallows(p) ==
    /\ pc[p] = "poll" /\ sd[p].status = "maintenance"
    /\ \E ok \in Answers(Member(p), {"maintenance"}) :
         IF ok THEN Become("detaching") ELSE UNCHANGED domain
    /\ IF command[p] = "delete" THEN GoTo(p, "hosts") ELSE Return(p, "0")
    /\ UNCHANGED <<sd, dc, sd_no_dc>>

LeaveDc(p) ==
    /\ pc[p] = "poll" /\ sd[p].status = "maintenance"
    /\ \E ok \in Answers(Member(p), {"maintenance"}) :
         IF ok THEN /\ Become("detaching")
                    /\ IF command[p] = "delete" THEN GoTo(p, "hosts") ELSE Return(p, "0")
               ELSE UNCHANGED domain /\ Return(p, "traceback")
    /\ UNCHANGED <<sd, dc, sd_no_dc>>
-----------------------------------------------------------------------------
(* set domain: None and a domain outside any data centre have none of the  *)
(* methods called here; only maintenance catches what is raised.           *)

SetMaintenance(p) ==
    /\ pc[p] = "first" /\ command[p] = "maintenance"
    /\ \E ok \in Answers(Member(p), {"active", "inactive"}) :
         IF ok THEN Become("deactivating") ELSE UNCHANGED domain
    /\ Return(p, "0")
    /\ UNCHANGED <<sd, dc, sd_no_dc>>

SetDetach(p) ==
    /\ pc[p] = "first" /\ command[p] = "detach"
    /\ \E ok \in Answers(Member(p), {"active", "inactive"}) :
         IF ok THEN Become("deactivating") /\ GoTo(p, "poll")
               ELSE UNCHANGED domain /\ Return(p, "traceback")
    /\ UNCHANGED <<sd, dc, sd_no_dc>>

SetUp(p) ==
    /\ pc[p] = "first" /\ command[p] = "up"
    /\ \E ok \in Answers(Member(p), {"maintenance", "inactive"}) :
         IF ok THEN Become("activating") /\ Return(p, "0")
               ELSE UNCHANGED domain /\ Return(p, "traceback")
    /\ UNCHANGED <<sd, dc, sd_no_dc>>
-----------------------------------------------------------------------------
(* new nfs-domain, fcp-domain, iscsi-domain: created, then attached.  Only  *)
(* nfs-domain catches and prints the second failure.                       *)

AddDomain(p) ==
    /\ pc[p] = "start" /\ command[p] \in {"new", "newblock"}
    /\ \E ok \in Answers(domain.id, {"absent"}) :
         IF ok THEN /\ domain' = [id |-> domain.id + 1, status |-> "unattached"]
                    /\ sd' = [sd EXCEPT ![p] = domain']
                    /\ GoTo(p, "attach")
               ELSE UNCHANGED <<domain, sd>> /\ Return(p, "traceback")
    /\ UNCHANGED <<dc, sd_no_dc>>

\* Mutant of AttachDomain: the failure is printed and the object returned.
AttachSwallows(p) ==
    /\ pc[p] = "attach"
    /\ \E ok \in Answers(sd[p].id, {"unattached"}) :
         IF ok THEN Become("activating") ELSE UNCHANGED domain
    /\ Return(p, "object")
    /\ UNCHANGED <<sd, dc, sd_no_dc>>

AttachDomain(p) ==
    /\ pc[p] = "attach"
    /\ \E ok \in Answers(sd[p].id, {"unattached"}) :
         IF ok THEN Become("activating") /\ Return(p, "object")
               ELSE /\ UNCHANGED domain
                    /\ Return(p, IF command[p] = "new" THEN "None" ELSE "traceback")
    /\ UNCHANGED <<sd, dc, sd_no_dc>>
-----------------------------------------------------------------------------
(* The engine *)

EngineFinishes ==
    /\ \/ domain.status = "deactivating" /\ Become("maintenance")
       \/ domain.status = "detaching" /\ Become("unattached")
       \/ domain.status = "activating" /\ Become("active")
    /\ UNCHANGED run

EngineFails ==
    /\ \/ /\ "deactivate" \in setting.faults
          /\ domain.status = "deactivating" /\ Become("active")
       \/ /\ "storage" \in setting.faults
          /\ domain.status \in {"active", "activating"} /\ Become("inactive")
    /\ UNCHANGED run
-----------------------------------------------------------------------------
Step(p) ==
    \/ GetTop(p) \/ GetInDc(p)
    \/ DeleteNotFound(p) \/ DeleteDeactivate(p) \/ DeleteSkip(p)
    \/ DeleteGetTop(p) \/ Remove(p)
    \/ Poll(p) \/ LeaveDc(p)
    \/ SetMaintenance(p) \/ SetDetach(p) \/ SetUp(p)
    \/ AddDomain(p) \/ AttachDomain(p)

Next == (\E p \in Proc : Step(p)) \/ EngineFinishes \/ EngineFails

Spec == Init /\ [][Next]_vars

\* Commands are run to their end, the engine carries out what it accepted.
FairSpec == Spec /\ WF_vars(EngineFinishes) /\ \A p \in Proc : WF_vars(Step(p))
-----------------------------------------------------------------------------
(* Properties *)

TypeOK ==
    /\ setting \in Setting
    /\ pc \in [Proc -> {"start", "indc", "first", "nodc", "poll", "hosts",
                        "attach", "done"}]
    /\ ret \in [Proc -> {"running", "0", "1", "successful", "object", "None",
                         "traceback"}]
    /\ sd \in [Proc -> {NoSd} \cup {d \in Domain : d.status # "absent"}]
    /\ dc \in [Proc -> BOOLEAN]
    /\ sd_no_dc \in [Proc -> Nat]
    /\ domain \in Domain

\* A delete that says successful has removed the domain it set out to remove,
\* and no two commands claim to have removed the same one, however many
\* deletes, detaches and creations under the same name cross each other.
SuccessMeansGone ==
    \A p \in Proc : ret[p] = "successful" =>
        /\ domain.id = sd_no_dc[p] => domain.status = "absent"
        /\ \A q \in Proc \ {p} :
             ret[q] = "successful" => sd_no_dc[q] # sd_no_dc[p]

\* delete looks the domain up by name again and again, with other commands in
\* between. Even so, from the moment it has taken a domain out of its data
\* centre to the call that removes it, that very domain stays out, whatever the
\* others call, and nobody else is about to remove it.
RemovesWhatItDetached ==
    \A p \in Proc : pc[p] = "hosts" =>
        /\ sd[p].id = domain.id
        /\ domain.status \in {"detaching", "unattached"}
        /\ \A q \in Proc \ {p} : pc[q] # "hosts"

\* A command that waits for maintenance ends, unless the domain is in service
\* again: somebody activated it or its deactivation failed.
WaitEnds ==
    \A p \in Proc :
        pc[p] = "poll" ~>
            (pc[p] # "poll" \/ domain.status \in {"activating", "active", "inactive"})

\* Deletes racing for one domain, all calls taken and detaching done in the ten
\* seconds of delete.py:45: each may make another fail, at any call, but not
\* all of them: the domain is removed.  (Another may be created after it.)
Calm == /\ setting.inTime /\ setting.faults = {}
        /\ \A p \in Proc : command[p] \in {"delete", "new"}

SomeDeleteWins ==
    (Calm /\ domain = [id |-> 1, status |-> "active"])
        ~> (domain.id # 1 \/ domain.status = "absent")

\* A domain found outside any data centre when all have ended is there because
\* a detach was asked for and done, or because a command that failed, and says
\* so, had created it or taken it out: nothing leaves one there silently.
LeftOutsideIsReported ==
    /\ setting.status \notin {"unattached", "detaching"}
    /\ domain.status \in {"unattached", "detaching"}
    /\ \A p \in Proc : pc[p] = "done"
    => \E p \in Proc :
         /\ sd[p].id = domain.id
         /\ \/ command[p] = "detach" /\ ret[p] = "0"
            \/ ret[p] \in {"None", "traceback"}

\* What the engine and the commands make of the domain, and no more, is that
\* domains are created one after the other and each is removed at most once,
\* by a delete that reports it.
Life == INSTANCE DomainLife WITH
    id      <- domain.id,
    exists  <- domain.status # "absent",
    removed <- [p \in Proc |-> IF ret[p] = "successful" THEN sd_no_dc[p] ELSE 0]

ImplementsDomainLife == Life!Spec
=============================================================================
