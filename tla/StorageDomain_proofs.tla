------------------------ MODULE StorageDomain_proofs ------------------------
(***************************************************************************)
(* Proofs about StorageDomain, for any number of commands in any setting.  *)
(***************************************************************************)
EXTENDS StorageDomain, TLAPS

\* Every field of every variable keeps to its range.
THEOREM TypeCorrect == Spec => []TypeOK
<1> USE Parameters DEF TypeOK, Domain, command
<1>1. Init => TypeOK
  BY DEF Init, NoSd, Setting
<1>2. TypeOK /\ [Next]_vars => TypeOK'
  <2> SUFFICES ASSUME TypeOK, [Next]_vars PROVE TypeOK'
    OBVIOUS
  <2>1. ASSUME NEW p \in Proc, GetTop(p) PROVE TypeOK'
    BY <2>1 DEF GetTop, AtTop, Attached, GoTo, Status, NoSd
  <2>2. ASSUME NEW p \in Proc, GetInDc(p) PROVE TypeOK'
    BY <2>2 DEF GetInDc, InDc, Attached, GoTo, Status, NoSd
  <2>3. ASSUME NEW p \in Proc, DeleteNotFound(p) PROVE TypeOK'
    BY <2>3 DEF DeleteNotFound, Return, Status, NoSd
  <2>4. ASSUME NEW p \in Proc, DeleteDeactivate(p) PROVE TypeOK'
    BY <2>4 DEF DeleteDeactivate, Answers, Member, Become, Return, GoTo, Status, NoSd
  <2>5. ASSUME NEW p \in Proc, DeleteSkip(p) PROVE TypeOK'
    BY <2>5 DEF DeleteSkip, GoTo, Status, NoSd
  <2>6. ASSUME NEW p \in Proc, DeleteGetTop(p) PROVE TypeOK'
    BY <2>6 DEF DeleteGetTop, AtTop, Return, GoTo, Status, NoSd
  <2>7. ASSUME NEW p \in Proc, Remove(p) PROVE TypeOK'
    BY <2>7 DEF Remove, Answers, Become, Return, Status, NoSd
  <2>8. ASSUME NEW p \in Proc, Poll(p) PROVE TypeOK'
    BY <2>8 DEF Poll, InDc, Attached, Return, GoTo, Status, NoSd
  <2>9. ASSUME NEW p \in Proc, LeaveDc(p) PROVE TypeOK'
    BY <2>9 DEF LeaveDc, Answers, Member, Become, Return, GoTo, Status, NoSd
  <2>10. ASSUME NEW p \in Proc, SetMaintenance(p) PROVE TypeOK'
    BY <2>10 DEF SetMaintenance, Answers, Member, Become, Return, Status, NoSd
  <2>11. ASSUME NEW p \in Proc, SetDetach(p) PROVE TypeOK'
    BY <2>11 DEF SetDetach, Answers, Member, Become, Return, GoTo, Status, NoSd
  <2>12. ASSUME NEW p \in Proc, SetUp(p) PROVE TypeOK'
    BY <2>12 DEF SetUp, Answers, Member, Become, Return, Status, NoSd
  <2>13. ASSUME NEW p \in Proc, AddDomain(p) PROVE TypeOK'
    BY <2>13 DEF AddDomain, Answers, Return, GoTo, Status, NoSd
  <2>14. ASSUME NEW p \in Proc, AttachDomain(p) PROVE TypeOK'
    BY <2>14 DEF AttachDomain, Answers, Become, Return, Status, NoSd
  <2>15. CASE EngineFinishes
    BY <2>15 DEF EngineFinishes, Become, run, Status, NoSd
  <2>16. CASE EngineFails
    BY <2>16 DEF EngineFails, Become, run, Status, NoSd
  <2>17. CASE UNCHANGED vars
    BY <2>17 DEF vars, run, Status, NoSd
  <2> QED
    BY <2>1, <2>2, <2>3, <2>4, <2>5, <2>6, <2>7, <2>8, <2>9, <2>10, <2>11, <2>12, <2>13, <2>14, <2>15, <2>16, <2>17 DEF Next, Step
<1> QED
  BY <1>1, <1>2, PTL DEF Spec
-----------------------------------------------------------------------------
(* The inductive invariant.  Ids only grow, so what a command knows of an  *)
(* id is out of date for ever once the domain is another; and the two      *)
(* places between a call that changed the domain and the call that relies  *)
(* on it, "hosts" and "attach", exclude each other for one domain.         *)

\* No command knows an id the engine has not given out.
IdsKnown ==
    /\ domain.id > 0
    /\ \A p \in Proc : sd[p].id <= domain.id /\ sd_no_dc[p] <= domain.id

\* Only a command that has ended has returned something, and only some
\* commands come to the calls in the middle.
Places ==
    \A p \in Proc :
        /\ ret[p] = "running" <=> pc[p] # "done"
        /\ pc[p] = "nodc" => command[p] = "delete"
        /\ pc[p] = "poll" => command[p] \in {"delete", "detach"}

\* From creating a domain to attaching it, it is outside, and no other command
\* is about to attach or remove it.
AttachesWhatItCreated ==
    \A p \in Proc : pc[p] = "attach" /\ sd[p].id = domain.id =>
        /\ domain.status = "unattached"
        /\ \A q \in Proc \ {p} :
             /\ pc[q] # "hosts"
             /\ pc[q] = "attach" => sd[q].id # domain.id

\* Somebody answers for a domain outside any data centre.
OutsideAnsweredFor ==
    /\ setting.status \notin {"unattached", "detaching"}
    /\ domain.status \in {"unattached", "detaching"}
    => \E p \in Proc :
         /\ sd[p].id = domain.id
         /\ \/ pc[p] \in {"hosts", "attach"}
            \/ pc[p] = "done" /\ command[p] = "detach" /\ ret[p] = "0"
            \/ pc[p] = "done" /\ ret[p] \in {"None", "traceback"}

IInv ==
    /\ TypeOK /\ IdsKnown /\ Places /\ SuccessMeansGone
    /\ RemovesWhatItDetached /\ AttachesWhatItCreated /\ OutsideAnsweredFor
-----------------------------------------------------------------------------
(* What the calls that change the domain do, once it is known whether the *)
(* engine took them.                                                       *)

\* The object behind a call the engine takes is the present domain.
LEMMA Taken ==
  ASSUME TypeOK, IdsKnown, NEW p \in Proc, NEW S,
         NEW ok \in Answers(Member(p), S), ok
  PROVE  sd[p].id = domain.id /\ domain.status \in S
<1>1. domain.id = Member(p) /\ domain.status \in S
  BY DEF Answers
<1>2. dc[p]
  BY <1>1 DEF Member, IdsKnown, TypeOK, Domain
<1> QED
  BY <1>1, <1>2 DEF Member

\* deactivate and activate.
LEMMA Switches ==
  ASSUME TypeOK, IdsKnown, NEW p \in Proc,
         DeleteDeactivate(p) \/ SetMaintenance(p) \/ SetDetach(p) \/ SetUp(p)
  PROVE  /\ UNCHANGED <<setting, sd, dc, sd_no_dc>>
         /\ pc[p] = "first"
         /\ \E l \in {"nodc", "poll", "done"} : pc' = [pc EXCEPT ![p] = l]
         /\ \E r \in {ret[p], "0", "1", "traceback"} : ret' = [ret EXCEPT ![p] = r]
         /\ domain'.id = domain.id
         /\ \/ domain' = domain
            \/ /\ domain.status \in {"active", "inactive", "maintenance"}
               /\ domain'.status \in {"deactivating", "activating"}
<1> USE DEF TypeOK, Domain, Return, GoTo
<1>1. CASE DeleteDeactivate(p)
  <2> PICK ok \in Answers(Member(p), {"active", "inactive"}) :
         IF ok THEN Become("deactivating") /\ GoTo(p, "nodc")
               ELSE UNCHANGED domain /\ Return(p, "1")
    BY <1>1 DEF DeleteDeactivate
  <2>1. CASE ok
    BY <1>1, <2>1, Taken DEF DeleteDeactivate, Become
  <2>2. CASE ~ok
    BY <1>1, <2>2 DEF DeleteDeactivate
  <2> QED
    BY <2>1, <2>2
<1>2. CASE SetMaintenance(p)
  <2> PICK ok \in Answers(Member(p), {"active", "inactive"}) :
         IF ok THEN Become("deactivating") ELSE UNCHANGED domain
    BY <1>2 DEF SetMaintenance
  <2>1. CASE ok
    BY <1>2, <2>1, Taken DEF SetMaintenance, Become
  <2>2. CASE ~ok
    BY <1>2, <2>2 DEF SetMaintenance
  <2> QED
    BY <2>1, <2>2
<1>3. CASE SetDetach(p)
  <2> PICK ok \in Answers(Member(p), {"active", "inactive"}) :
         IF ok THEN Become("deactivating") /\ GoTo(p, "poll")
               ELSE UNCHANGED domain /\ Return(p, "traceback")
    BY <1>3 DEF SetDetach
  <2>1. CASE ok
    BY <1>3, <2>1, Taken DEF SetDetach, Become
  <2>2. CASE ~ok
    BY <1>3, <2>2 DEF SetDetach
  <2> QED
    BY <2>1, <2>2
<1>4. CASE SetUp(p)
  <2> PICK ok \in Answers(Member(p), {"maintenance", "inactive"}) :
         IF ok THEN Become("activating") /\ Return(p, "0")
               ELSE UNCHANGED domain /\ Return(p, "traceback")
    BY <1>4 DEF SetUp
  <2>1. CASE ok
    BY <1>4, <2>1, Taken DEF SetUp, Become
  <2>2. CASE ~ok
    BY <1>4, <2>2 DEF SetUp
  <2> QED
    BY <2>1, <2>2
<1> QED
  BY <1>1, <1>2, <1>3, <1>4

\* sd.delete(): the domain leaves its data centre.
LEMMA LeaveDcDoes ==
  ASSUME TypeOK, IdsKnown, NEW p \in Proc, LeaveDc(p)
  PROVE  /\ UNCHANGED <<setting, sd, dc, sd_no_dc>>
         /\ pc[p] = "poll"
         /\ \/ /\ sd[p].id = domain.id /\ domain.status = "maintenance"
               /\ domain' = [id |-> domain.id, status |-> "detaching"]
               /\ \/ /\ pc' = [pc EXCEPT ![p] = "hosts"]
                     /\ ret' = ret
                  \/ /\ command[p] # "delete"
                     /\ pc' = [pc EXCEPT ![p] = "done"]
                     /\ ret' = [ret EXCEPT ![p] = "0"]
            \/ /\ domain' = domain
               /\ pc' = [pc EXCEPT ![p] = "done"]
               /\ ret' = [ret EXCEPT ![p] = "traceback"]
<1> USE DEF TypeOK, Domain, Return, GoTo
<1> PICK ok \in Answers(Member(p), {"maintenance"}) :
       IF ok THEN /\ Become("detaching")
                  /\ IF command[p] = "delete" THEN GoTo(p, "hosts") ELSE Return(p, "0")
             ELSE UNCHANGED domain /\ Return(p, "traceback")
  BY DEF LeaveDc
<1>1. CASE ok
  BY <1>1, Taken DEF LeaveDc, Become
<1>2. CASE ~ok
  BY <1>2 DEF LeaveDc
<1> QED
  BY <1>1, <1>2

\* sd_no_dc.delete(): the domain is removed.
LEMMA RemoveDoes ==
  ASSUME TypeOK, NEW p \in Proc, Remove(p)
  PROVE  /\ UNCHANGED <<setting, sd, dc, sd_no_dc>>
         /\ pc[p] = "hosts" /\ pc' = [pc EXCEPT ![p] = "done"]
         /\ \/ /\ sd_no_dc[p] = domain.id /\ domain.status = "unattached"
               /\ domain' = [id |-> domain.id, status |-> "absent"]
               /\ ret' = [ret EXCEPT ![p] = "successful"]
            \/ domain' = domain /\ ret' = [ret EXCEPT ![p] = "traceback"]
  BY DEF Remove, Answers, Become, Return, TypeOK, Domain

\* storagedomains.add: the domain is created.
LEMMA AddDoes ==
  ASSUME TypeOK, NEW p \in Proc, AddDomain(p)
  PROVE  /\ UNCHANGED <<setting, dc, sd_no_dc>>
         /\ pc[p] = "start"
         /\ \/ /\ domain.status = "absent"
               /\ domain' = [id |-> domain.id + 1, status |-> "unattached"]
               /\ sd' = [sd EXCEPT ![p] = domain']
               /\ pc' = [pc EXCEPT ![p] = "attach"] /\ ret' = ret
            \/ /\ UNCHANGED <<domain, sd>>
               /\ pc' = [pc EXCEPT ![p] = "done"]
               /\ ret' = [ret EXCEPT ![p] = "traceback"]
  BY DEF AddDomain, Answers, Return, GoTo, TypeOK, Domain

\* dc.storagedomains.add: it is attached.
LEMMA AttachDoes ==
  ASSUME TypeOK, NEW p \in Proc, AttachDomain(p)
  PROVE  /\ UNCHANGED <<setting, sd, dc, sd_no_dc>>
         /\ pc[p] = "attach" /\ pc' = [pc EXCEPT ![p] = "done"]
         /\ \/ /\ sd[p].id = domain.id /\ domain.status = "unattached"
               /\ domain' = [id |-> domain.id, status |-> "activating"]
               /\ ret' = [ret EXCEPT ![p] = "object"]
            \/ /\ domain' = domain
               /\ \E r \in {"None", "traceback"} : ret' = [ret EXCEPT ![p] = r]
  BY DEF AttachDomain, Answers, Become, Return, TypeOK, Domain
-----------------------------------------------------------------------------
\* Ids are given out in ascending order, and looked up.
LEMMA IdsKnownStep ==
  ASSUME TypeOK, IdsKnown, [Next]_vars
  PROVE  IdsKnown'
<1> USE DEF TypeOK, IdsKnown, Domain, NoSd
<1>1. ASSUME NEW p \in Proc, GetTop(p) PROVE IdsKnown'
  BY <1>1 DEF GetTop, AtTop, Attached, GoTo
<1>2. ASSUME NEW p \in Proc, GetInDc(p) PROVE IdsKnown'
  BY <1>2 DEF GetInDc, InDc, Attached, GoTo
<1>3. ASSUME NEW p \in Proc, DeleteNotFound(p) PROVE IdsKnown'
  BY <1>3 DEF DeleteNotFound, Return
<1>4. ASSUME NEW p \in Proc, DeleteDeactivate(p) PROVE IdsKnown'
  BY <1>4 DEF DeleteDeactivate, Answers, Member, Become, Return, GoTo
<1>5. ASSUME NEW p \in Proc, DeleteSkip(p) PROVE IdsKnown'
  BY <1>5 DEF DeleteSkip, GoTo
<1>6. ASSUME NEW p \in Proc, DeleteGetTop(p) PROVE IdsKnown'
  BY <1>6 DEF DeleteGetTop, AtTop, Return, GoTo
<1>7. ASSUME NEW p \in Proc, Remove(p) PROVE IdsKnown'
  BY <1>7 DEF Remove, Answers, Become, Return
<1>8. ASSUME NEW p \in Proc, Poll(p) PROVE IdsKnown'
  BY <1>8 DEF Poll, InDc, Attached, Return, GoTo
<1>9. ASSUME NEW p \in Proc, LeaveDc(p) PROVE IdsKnown'
  BY <1>9 DEF LeaveDc, Answers, Member, Become, Return, GoTo
<1>10. ASSUME NEW p \in Proc, SetMaintenance(p) PROVE IdsKnown'
  BY <1>10 DEF SetMaintenance, Answers, Member, Become, Return
<1>11. ASSUME NEW p \in Proc, SetDetach(p) PROVE IdsKnown'
  BY <1>11 DEF SetDetach, Answers, Member, Become, Return, GoTo
<1>12. ASSUME NEW p \in Proc, SetUp(p) PROVE IdsKnown'
  BY <1>12 DEF SetUp, Answers, Member, Become, Return
<1>13. ASSUME NEW p \in Proc, AddDomain(p) PROVE IdsKnown'
  BY <1>13 DEF AddDomain, Answers, Return, GoTo
<1>14. ASSUME NEW p \in Proc, AttachDomain(p) PROVE IdsKnown'
  BY <1>14 DEF AttachDomain, Answers, Become, Return
<1>15. CASE EngineFinishes
  BY <1>15 DEF EngineFinishes, Become, run
<1>16. CASE EngineFails
  BY <1>16 DEF EngineFails, Become, run
<1>17. CASE UNCHANGED vars
  BY <1>17 DEF vars, run
<1> QED
  BY <1>1, <1>2, <1>3, <1>4, <1>5, <1>6, <1>7, <1>8, <1>9, <1>10, <1>11, <1>12, <1>13, <1>14, <1>15, <1>16, <1>17 DEF Next, Step

\* A command returns where it ends.
LEMMA PlacesStep ==
  ASSUME TypeOK, Places, [Next]_vars
  PROVE  Places'
<1> USE DEF TypeOK, Places, Domain, command, NoSd
<1>1. ASSUME NEW p \in Proc, GetTop(p) PROVE Places'
  BY <1>1 DEF GetTop, AtTop, Attached, GoTo
<1>2. ASSUME NEW p \in Proc, GetInDc(p) PROVE Places'
  BY <1>2 DEF GetInDc, InDc, Attached, GoTo
<1>3. ASSUME NEW p \in Proc, DeleteNotFound(p) PROVE Places'
  BY <1>3 DEF DeleteNotFound, Return
<1>4. ASSUME NEW p \in Proc, DeleteDeactivate(p) PROVE Places'
  BY <1>4 DEF DeleteDeactivate, Answers, Member, Become, Return, GoTo
<1>5. ASSUME NEW p \in Proc, DeleteSkip(p) PROVE Places'
  BY <1>5 DEF DeleteSkip, GoTo
<1>6. ASSUME NEW p \in Proc, DeleteGetTop(p) PROVE Places'
  BY <1>6 DEF DeleteGetTop, AtTop, Return, GoTo
<1>7. ASSUME NEW p \in Proc, Remove(p) PROVE Places'
  BY <1>7 DEF Remove, Answers, Become, Return
<1>8. ASSUME NEW p \in Proc, Poll(p) PROVE Places'
  BY <1>8 DEF Poll, InDc, Attached, Return, GoTo
<1>9. ASSUME NEW p \in Proc, LeaveDc(p) PROVE Places'
  BY <1>9 DEF LeaveDc, Answers, Member, Become, Return, GoTo
<1>10. ASSUME NEW p \in Proc, SetMaintenance(p) PROVE Places'
  BY <1>10 DEF SetMaintenance, Answers, Member, Become, Return
<1>11. ASSUME NEW p \in Proc, SetDetach(p) PROVE Places'
  BY <1>11 DEF SetDetach, Answers, Member, Become, Return, GoTo
<1>12. ASSUME NEW p \in Proc, SetUp(p) PROVE Places'
  BY <1>12 DEF SetUp, Answers, Member, Become, Return
<1>13. ASSUME NEW p \in Proc, AddDomain(p) PROVE Places'
  BY <1>13 DEF AddDomain, Answers, Return, GoTo
<1>14. ASSUME NEW p \in Proc, AttachDomain(p) PROVE Places'
  BY <1>14 DEF AttachDomain, Answers, Become, Return
<1>15. CASE EngineFinishes
  BY <1>15 DEF EngineFinishes, Become, run
<1>16. CASE EngineFails
  BY <1>16 DEF EngineFails, Become, run
<1>17. CASE UNCHANGED vars
  BY <1>17 DEF vars, run
<1> QED
  BY <1>1, <1>2, <1>3, <1>4, <1>5, <1>6, <1>7, <1>8, <1>9, <1>10, <1>11, <1>12, <1>13, <1>14, <1>15, <1>16, <1>17 DEF Next, Step

\* A successful removal stays one: nothing but a new id follows an absent domain.
LEMMA SuccessStep ==
  ASSUME TypeOK, IdsKnown, Places, RemovesWhatItDetached, SuccessMeansGone, [Next]_vars
  PROVE  SuccessMeansGone'
<1> USE DEF TypeOK, SuccessMeansGone, IdsKnown, Places, RemovesWhatItDetached, Domain, NoSd
<1>1. ASSUME NEW p \in Proc, GetTop(p) \/ GetInDc(p) \/ Poll(p)
      PROVE  SuccessMeansGone'
  BY <1>1 DEF GetTop, GetInDc, Poll, AtTop, InDc, Attached, Return, GoTo
<1>2. ASSUME NEW p \in Proc, DeleteNotFound(p) \/ DeleteSkip(p) \/ DeleteGetTop(p)
      PROVE  SuccessMeansGone'
  BY <1>2 DEF DeleteNotFound, DeleteSkip, DeleteGetTop, AtTop, Return, GoTo
<1>3. ASSUME NEW p \in Proc, \/ DeleteDeactivate(p) \/ SetMaintenance(p)
                   \/ SetDetach(p) \/ SetUp(p)
      PROVE  SuccessMeansGone'
  BY <1>3, Switches
<1>4. ASSUME NEW p \in Proc, LeaveDc(p)
      PROVE  SuccessMeansGone'
  BY <1>4, LeaveDcDoes
<1>5. ASSUME NEW p \in Proc, Remove(p)
      PROVE  SuccessMeansGone'
  BY <1>5, RemoveDoes
<1>6. ASSUME NEW p \in Proc, AddDomain(p)
      PROVE  SuccessMeansGone'
  BY <1>6, AddDoes
<1>7. ASSUME NEW p \in Proc, AttachDomain(p)
      PROVE  SuccessMeansGone'
  BY <1>7, AttachDoes
<1>8. CASE EngineFinishes
  BY <1>8 DEF EngineFinishes, Become, run
<1>9. CASE EngineFails
  BY <1>9 DEF EngineFails, Become, run
<1>10. CASE UNCHANGED vars
  BY <1>10 DEF vars, run
<1> QED
  BY <1>1, <1>2, <1>3, <1>4, <1>5, <1>6, <1>7, <1>8, <1>9, <1>10 DEF Next, Step

\* Nothing disturbs a delete between its last two calls.
LEMMA RemovesStep ==
  ASSUME TypeOK, IdsKnown, Places, RemovesWhatItDetached, AttachesWhatItCreated, [Next]_vars
  PROVE  RemovesWhatItDetached'
<1> USE DEF TypeOK, RemovesWhatItDetached, IdsKnown, Places, AttachesWhatItCreated, Domain, NoSd
<1>1. ASSUME NEW p \in Proc, GetTop(p) \/ GetInDc(p) \/ Poll(p)
      PROVE  RemovesWhatItDetached'
  BY <1>1 DEF GetTop, GetInDc, Poll, AtTop, InDc, Attached, Return, GoTo
<1>2. ASSUME NEW p \in Proc, DeleteNotFound(p) \/ DeleteSkip(p) \/ DeleteGetTop(p)
      PROVE  RemovesWhatItDetached'
  BY <1>2 DEF DeleteNotFound, DeleteSkip, DeleteGetTop, AtTop, Return, GoTo
<1>3. ASSUME NEW p \in Proc, \/ DeleteDeactivate(p) \/ SetMaintenance(p)
                   \/ SetDetach(p) \/ SetUp(p)
      PROVE  RemovesWhatItDetached'
  BY <1>3, Switches
<1>4. ASSUME NEW p \in Proc, LeaveDc(p)
      PROVE  RemovesWhatItDetached'
  BY <1>4, LeaveDcDoes
<1>5. ASSUME NEW p \in Proc, Remove(p)
      PROVE  RemovesWhatItDetached'
  BY <1>5, RemoveDoes
<1>6. ASSUME NEW p \in Proc, AddDomain(p)
      PROVE  RemovesWhatItDetached'
  BY <1>6, AddDoes
<1>7. ASSUME NEW p \in Proc, AttachDomain(p)
      PROVE  RemovesWhatItDetached'
  BY <1>7, AttachDoes
<1>8. CASE EngineFinishes
  BY <1>8 DEF EngineFinishes, Become, run
<1>9. CASE EngineFails
  BY <1>9 DEF EngineFails, Become, run
<1>10. CASE UNCHANGED vars
  BY <1>10 DEF vars, run
<1> QED
  BY <1>1, <1>2, <1>3, <1>4, <1>5, <1>6, <1>7, <1>8, <1>9, <1>10 DEF Next, Step

\* Nothing disturbs a creation between its two calls.
LEMMA AttachesStep ==
  ASSUME TypeOK, IdsKnown, Places, RemovesWhatItDetached, AttachesWhatItCreated, [Next]_vars
  PROVE  AttachesWhatItCreated'
<1> USE DEF TypeOK, AttachesWhatItCreated, IdsKnown, Places, RemovesWhatItDetached, Domain, NoSd
<1>1. ASSUME NEW p \in Proc, GetTop(p) \/ GetInDc(p) \/ Poll(p)
      PROVE  AttachesWhatItCreated'
  BY <1>1 DEF GetTop, GetInDc, Poll, AtTop, InDc, Attached, Return, GoTo
<1>2. ASSUME NEW p \in Proc, DeleteNotFound(p) \/ DeleteSkip(p) \/ DeleteGetTop(p)
      PROVE  AttachesWhatItCreated'
  BY <1>2 DEF DeleteNotFound, DeleteSkip, DeleteGetTop, AtTop, Return, GoTo
<1>3. ASSUME NEW p \in Proc, \/ DeleteDeactivate(p) \/ SetMaintenance(p)
                   \/ SetDetach(p) \/ SetUp(p)
      PROVE  AttachesWhatItCreated'
  BY <1>3, Switches
<1>4. ASSUME NEW p \in Proc, LeaveDc(p)
      PROVE  AttachesWhatItCreated'
  BY <1>4, LeaveDcDoes
<1>5. ASSUME NEW p \in Proc, Remove(p)
      PROVE  AttachesWhatItCreated'
  BY <1>5, RemoveDoes
<1>6. ASSUME NEW p \in Proc, AddDomain(p)
      PROVE  AttachesWhatItCreated'
  BY <1>6, AddDoes
<1>7. ASSUME NEW p \in Proc, AttachDomain(p)
      PROVE  AttachesWhatItCreated'
  BY <1>7, AttachDoes
<1>8. CASE EngineFinishes
  BY <1>8 DEF EngineFinishes, Become, run
<1>9. CASE EngineFails
  BY <1>9 DEF EngineFails, Become, run
<1>10. CASE UNCHANGED vars
  BY <1>10 DEF vars, run
<1> QED
  BY <1>1, <1>2, <1>3, <1>4, <1>5, <1>6, <1>7, <1>8, <1>9, <1>10 DEF Next, Step

\* Whoever takes a domain out, or fails to attach or remove it, answers for it.
LEMMA OutsideStep ==
  ASSUME TypeOK, IdsKnown, Places, OutsideAnsweredFor, [Next]_vars
  PROVE  OutsideAnsweredFor'
<1> USE DEF TypeOK, OutsideAnsweredFor, IdsKnown, Places, Domain, command, NoSd
<1>1. ASSUME NEW p \in Proc, GetTop(p) \/ GetInDc(p) \/ Poll(p)
      PROVE  OutsideAnsweredFor'
  BY <1>1 DEF GetTop, GetInDc, Poll, AtTop, InDc, Attached, Return, GoTo
<1>2. ASSUME NEW p \in Proc, DeleteNotFound(p) \/ DeleteSkip(p) \/ DeleteGetTop(p)
      PROVE  OutsideAnsweredFor'
  BY <1>2 DEF DeleteNotFound, DeleteSkip, DeleteGetTop, AtTop, Return, GoTo
<1>3. ASSUME NEW p \in Proc, \/ DeleteDeactivate(p) \/ SetMaintenance(p)
                   \/ SetDetach(p) \/ SetUp(p)
      PROVE  OutsideAnsweredFor'
  BY <1>3, Switches
<1>4. ASSUME NEW p \in Proc, LeaveDc(p)
      PROVE  OutsideAnsweredFor'
  BY <1>4, LeaveDcDoes
<1>5. ASSUME NEW p \in Proc, Remove(p)
      PROVE  OutsideAnsweredFor'
  BY <1>5, RemoveDoes
<1>6. ASSUME NEW p \in Proc, AddDomain(p)
      PROVE  OutsideAnsweredFor'
  BY <1>6, AddDoes
<1>7. ASSUME NEW p \in Proc, AttachDomain(p)
      PROVE  OutsideAnsweredFor'
  BY <1>7, AttachDoes
<1>8. CASE EngineFinishes
  BY <1>8 DEF EngineFinishes, Become, run
<1>9. CASE EngineFails
  BY <1>9 DEF EngineFails, Become, run
<1>10. CASE UNCHANGED vars
  BY <1>10 DEF vars, run
<1> QED
  BY <1>1, <1>2, <1>3, <1>4, <1>5, <1>6, <1>7, <1>8, <1>9, <1>10 DEF Next, Step

\* All of it holds at first and is kept by every step.
THEOREM Inductive == Spec => []IInv
<1>1. Init => IInv
  <2> SUFFICES ASSUME Init PROVE IInv
    OBVIOUS
  <2>1. TypeOK
    BY Parameters DEF Init, TypeOK, NoSd, Setting, Domain
  <2> QED
    BY <2>1 DEF Init, IInv, IdsKnown, Places, SuccessMeansGone, NoSd,
       RemovesWhatItDetached, AttachesWhatItCreated, OutsideAnsweredFor
<1>2. IInv /\ [Next]_vars => IdsKnown' /\ Places' /\ SuccessMeansGone'
                             /\ RemovesWhatItDetached' /\ AttachesWhatItCreated'
                             /\ OutsideAnsweredFor'
  BY IdsKnownStep, PlacesStep, SuccessStep, RemovesStep, AttachesStep,
     OutsideStep DEF IInv
<1> QED
  BY <1>1, <1>2, TypeCorrect, PTL DEF Spec, IInv

\* The domain a successful delete set out to remove is gone, and it alone
\* claims to have removed it.
THEOREM SuccessSound == Spec => []SuccessMeansGone
  BY Inductive, PTL DEF IInv

\* No command comes between a delete's detaching and its removing.
THEOREM RemovesSound == Spec => []RemovesWhatItDetached
  BY Inductive, PTL DEF IInv

\* No command leaves a domain outside any data centre without saying so.
THEOREM LeftOutsideSound == Spec => []LeftOutsideIsReported
<1>1. IInv => LeftOutsideIsReported
  BY DEF IInv, OutsideAnsweredFor, LeftOutsideIsReported
<1> QED
  BY <1>1, Inductive, PTL
-----------------------------------------------------------------------------
(* StorageDomain implements DomainLife: only two calls show.               *)

\* Every other call is a stutter.
LEMMA LifeStep == IInv /\ [Next]_vars => [Life!Next]_Life!vars
<1> SUFFICES ASSUME IInv, [Next]_vars PROVE [Life!Next]_Life!vars
  OBVIOUS
<1> USE DEF IInv, TypeOK, Places, IdsKnown, Domain, NoSd
<1> DEFINE Reported(p) == IF ret[p] = "successful" THEN sd_no_dc[p] ELSE 0
           Same == /\ domain'.id = domain.id
                   /\ domain'.status = "absent" <=> domain.status = "absent"
                   /\ \A p \in Proc : Reported(p)' = Reported(p)
<1>1. ASSUME NEW p \in Proc, GetTop(p) \/ GetInDc(p) \/ Poll(p)
      PROVE  UNCHANGED Life!vars
  <2>1. Same
    BY <1>1 DEF GetTop, GetInDc, Poll, AtTop, InDc, Attached, Return, GoTo
  <2> QED
    BY <2>1 DEF Life!vars
<1>2. ASSUME NEW p \in Proc, DeleteNotFound(p) \/ DeleteSkip(p) \/ DeleteGetTop(p)
      PROVE  UNCHANGED Life!vars
  <2>1. Same
    BY <1>2 DEF DeleteNotFound, DeleteSkip, DeleteGetTop, AtTop, Return, GoTo
  <2> QED
    BY <2>1 DEF Life!vars
<1>3. ASSUME NEW p \in Proc, \/ DeleteDeactivate(p) \/ SetMaintenance(p)
                   \/ SetDetach(p) \/ SetUp(p)
      PROVE  UNCHANGED Life!vars
  <2>1. Same
    BY <1>3, Switches
  <2> QED
    BY <2>1 DEF Life!vars
<1>4. ASSUME NEW p \in Proc, LeaveDc(p)
      PROVE  UNCHANGED Life!vars
  <2>1. Same
    BY <1>4, LeaveDcDoes
  <2> QED
    BY <2>1 DEF Life!vars
<1>5. ASSUME NEW p \in Proc, AttachDomain(p)
      PROVE  UNCHANGED Life!vars
  <2>1. Same
    BY <1>5, AttachDoes
  <2> QED
    BY <2>1 DEF Life!vars
<1>6. ASSUME NEW p \in Proc, AddDomain(p) PROVE Life!Create \/ UNCHANGED Life!vars
  <2>1. \A q \in Proc : Reported(q)' = Reported(q)
    BY <1>6, AddDoes
  <2>2. \/ /\ domain.status = "absent" /\ domain'.status # "absent"
           /\ domain'.id = domain.id + 1
        \/ domain' = domain
    BY <1>6, AddDoes
  <2> QED
    BY <2>1, <2>2 DEF Life!Create, Life!vars
<1>7. ASSUME NEW p \in Proc, Remove(p) PROVE Life!Remove(p) \/ UNCHANGED Life!vars
  <2>1. CASE domain' = domain /\ ret' = [ret EXCEPT ![p] = "traceback"]
    <3>1. Same
      BY <1>7, <2>1, RemoveDoes
    <3> QED
      BY <3>1 DEF Life!vars
  <2>2. CASE /\ sd_no_dc[p] = domain.id /\ domain.status = "unattached"
             /\ domain' = [id |-> domain.id, status |-> "absent"]
             /\ ret' = [ret EXCEPT ![p] = "successful"]
    <3>1. /\ Reported(p) = 0 /\ Reported(p)' = domain.id
          /\ \A q \in Proc \ {p} : Reported(q)' = Reported(q)
      BY <1>7, <2>2, RemoveDoes
    <3> QED
      BY <2>2, <3>1 DEF Life!Remove
  <2> QED
    BY <1>7, <2>1, <2>2, RemoveDoes
<1>8. CASE EngineFinishes \/ EngineFails \/ UNCHANGED vars
  <2>1. Same
    BY <1>8 DEF EngineFinishes, EngineFails, Become, run, vars
  <2> QED
    BY <2>1 DEF Life!vars
<1> QED
  BY <1>1, <1>2, <1>3, <1>4, <1>5, <1>6, <1>7, <1>8 DEF Next, Step, Life!Next

\* Whatever crosses whatever, the domains of one name are created one after the
\* other and each is removed once, by the delete that says so.
THEOREM Implements == Spec => ImplementsDomainLife
<1>1. Init => Life!Init
  BY DEF Init, Life!Init
<1> QED
  BY <1>1, LifeStep, Inductive, PTL DEF Spec, ImplementsDomainLife, Life!Spec
=============================================================================
