--------------------------- MODULE SchoolProfiles ---------------------------
(***************************************************************************)
(* Custom school profiles on disk: their provisioning under a journal      *)
(* (CustomProfileProvisioningRuntime), the index that lists them, their    *)
(* deletion behind a tombstone (CustomProfileDeletionRuntime), and the     *)
(* start-up that recovers both (multi-school-startup-runtime.js), together *)
(* with the profile switch, which keeps a journal of its own and asks the  *)
(* same registry for its destination.                                      *)
(*                                                                         *)
(* Provisioning is synchronous: it is one step that ends after any of its  *)
(* writes, because a write failed or because the process died.  A deletion *)
(* waits for Chromium to clear the profile's partition, and everything     *)
(* else may happen meanwhile.                                              *)
(***************************************************************************)
EXTENDS Integers, FiniteSets

CONSTANTS Profiles,   \* custom profiles ever provisioned: identities are drawn fresh and never reused
          FileKinds,      \* files of a profile
          MaxFaults   \* failed writes and crashes in a behaviour

VARIABLES
  disk,      \* what the file system holds
  process,   \* the application: "off", "running" or "relaunching"
  live,      \* the profile of this process
  flight,    \* CustomProfileDeletionRuntime.inFlight
  faults,
  \* History, read by the property only.
  born,      \* profiles whose provisioning began
  condemned, \* profiles whose deletion became durable
  touched,   \* the pending provisioning lost its footing: its profile or the index was used or deleted
  refused    \* why the last start was refused

profileVars == <<disk, process, live, flight, faults, born, condemned, touched, refused>>

Home == "reviewed"          \* the packaged profile, which cannot be deleted
None == "none"
ASSUME ProfilesAssumption == /\ Profiles # {} /\ FileKinds # {} /\ MaxFaults \in Nat
                             /\ Home \notin Profiles /\ None \notin Profiles /\ "rewritten" \notin FileKinds
Torn == [state |-> "torn", profile |-> None, before |-> {}, after |-> {}]
NoJournal == [Torn EXCEPT !.state = "absent"]
NoFlight == [kind |-> "none", profile |-> None, plan |-> {}, left |-> {}]

\* A journal binds the profile to the index before and after it is added.
Journals == [state : {"absent", "torn", "prepared", "materialized", "indexed"},
             profile : Profiles \cup {None}, before : SUBSET Profiles, after : SUBSET Profiles]
Tombstones == {"absent", "prepared", "browser-cleared"}
Flights == [kind : {"none", "delete", "recover"}, profile : Profiles \cup {None},
            plan : SUBSET Profiles, left : SUBSET Profiles]

ProfilesTypeOK ==
  /\ disk.index \subseteq Profiles
  /\ disk.journal \in Journals
  /\ disk.files \in [Profiles -> SUBSET (FileKinds \cup {"rewritten"})]
  /\ disk.place \in [Profiles -> {"absent", "normal", "quarantine"}]
  /\ disk.tombstone \in [Profiles -> Tombstones]
  /\ disk.partition \subseteq Profiles
  /\ disk.switch \in Profiles \cup {None, Home}
  /\ disk.active \in Profiles \cup {Home}
  /\ process \in {"off", "running", "relaunching"} /\ live \in Profiles \cup {Home}
  /\ flight \in Flights /\ faults \in 0..MaxFaults /\ born \subseteq Profiles /\ condemned \subseteq Profiles
  /\ touched \in BOOLEAN /\ refused \in {"", "journal", "switch", "active"}

ProfilesInit ==
  /\ disk = [index |-> {}, journal |-> NoJournal, files |-> [p \in Profiles |-> {}],
             place |-> [p \in Profiles |-> "absent"], tombstone |-> [p \in Profiles |-> "absent"],
             partition |-> {}, switch |-> None, active |-> Home]
  /\ process = "running" /\ live = Home /\ flight = NoFlight /\ faults = 0
  /\ born = {} /\ condemned = {} /\ touched = FALSE /\ refused = ""

-----------------------------------------------------------------------------
(* How a run of synchronous writes ends: a set of [disk, end].              *)

Ends(d, end) == [disk |-> d, end |-> end]
WroteAll(d) == {Ends(d, "done")}
ThrewAt(d) == {Ends(d, "threw")}
\* A write that fails throws; a process that dies leaves what was written.
Cut(d) == {Ends(d, "failed"), Ends(d, "crashed")}

-----------------------------------------------------------------------------
(* The registry.                                                            *)

Tombstoned(d, p) == d.tombstone[p] # "absent"
Complete(d, p) == FileKinds \subseteq d.files[p] /\ d.place[p] = "normal"

\* CustomSchoolProfileRegistry.load skips a profile with a tombstone and throws for one that is not whole.
Listed(d) == {p \in d.index : ~Tombstoned(d, p)}
RegistryLoads(d) == \A p \in Listed(d) : Complete(d, p)
Candidate(d, p) == p = Home \/ (RegistryLoads(d) /\ p \in Listed(d))

-----------------------------------------------------------------------------
(* Provisioning.                                                            *)

State(d, s) == [d EXCEPT !.journal.state = s]

\* CustomProfileMaterializer: what is there must be exact, what is missing is written.
Verified(d) == LET p == d.journal.profile IN d.files[p] = FileKinds /\ d.place[p] = "normal"
Conflicts(d) == "rewritten" \in d.files[d.journal.profile]
Written(d, fs) == [d EXCEPT !.files[d.journal.profile] = @ \cup fs, !.place[d.journal.profile] = "normal"]

FromIndexed(d) ==
  IF Verified(d) /\ d.index = d.journal.after
  THEN Cut(d) \cup WroteAll([d EXCEPT !.journal = NoJournal])
  ELSE ThrewAt(d)

\* CustomProfileIndexStore.applyAdd: the index is as planned before the addition, or after it.
Indexed(d) == [d EXCEPT !.index = d.journal.after]
\* Mutant: an addition already made is taken for a foreign change.
AddsOnce(d) ==
  IF Verified(d) /\ d.index = d.journal.before
  THEN Cut(d) \cup Cut(Indexed(d)) \cup FromIndexed(State(Indexed(d), "indexed"))
  ELSE ThrewAt(d)
FromMaterialized(d) ==
  IF Verified(d) /\ d.index \in {d.journal.before, d.journal.after}
  THEN Cut(d) \cup Cut(Indexed(d)) \cup FromIndexed(State(Indexed(d), "indexed"))
  ELSE ThrewAt(d)

FromPrepared(d) ==
  IF Conflicts(d) \/ d.place[d.journal.profile] = "quarantine" THEN ThrewAt(d)
  ELSE (UNION {Cut(Written(d, fs)) : fs \in SUBSET FileKinds})
       \cup FromMaterialized(State(Written(d, FileKinds), "materialized"))

\* #resume
Resumes(d) ==
  CASE d.journal.state = "prepared" -> FromPrepared(d)
    [] d.journal.state = "materialized" -> FromMaterialized(d)
    [] d.journal.state = "indexed" -> FromIndexed(d)
    [] d.journal.state = "absent" -> WroteAll(d)
    [] OTHER -> ThrewAt(d)

\* The plan: what the files will hold, and the entry of the index.
Planned(d, p) == [state |-> "prepared", profile |-> p, before |-> d.index, after |-> d.index \cup {p}]

\* begin: the journal is created in place, so a crash there leaves it torn, and a failure removes it.
Created(d, p) ==
  {Ends(d, "failed"), Ends([d EXCEPT !.journal = Torn], "crashed")} \cup Cut([d EXCEPT !.journal = Planned(d, p)])
BeginsProvisioning(d, p) == Created(d, p) \cup FromPrepared([d EXCEPT !.journal = Planned(d, p)])

-----------------------------------------------------------------------------
(* Deletion, after the partition is clear.                                  *)

\* #writeTombstone: an atomic replacement.
Marked(d, p, s) == [d EXCEPT !.tombstone[p] = s]
Quarantined(d, p) == [d EXCEPT !.place[p] = "quarantine"]
Unindexed(d, p) == [d EXCEPT !.index = @ \ {p}]
Gone(d, p) == [d EXCEPT !.place[p] = "absent", !.files[p] = {}, !.tombstone[p] = "absent"]

\* #removeQuarantine: a removal cut off leaves some files, with the tombstone or without it.
LeftBehind(d, p, fs, t) == [d EXCEPT !.files[p] = fs, !.tombstone[p] = t]
Removes(d, p) ==
  (UNION {Cut(LeftBehind(d, p, fs, t)) : fs \in SUBSET d.files[p], t \in {d.tombstone[p], "absent"}})
  \cup Cut(Gone(d, p)) \cup WroteAll(Gone(d, p))

\* applyRemove with the plan made at index `plan`.
RetiresRecord(d, p, plan) ==
  IF d.index \in {plan, plan \ {p}}
  THEN Cut(d) \cup Cut(Unindexed(d, p)) \cup Removes(Unindexed(d, p), p)
  ELSE ThrewAt(d)

\* #delete after #clearBrowser: the index was planned before the wait.
Deletes(d, p, plan) ==
  LET cleared == Marked(d, p, "browser-cleared")
  IN Cut(d) \cup Cut(cleared) \cup Cut(Quarantined(cleared, p)) \cup RetiresRecord(Quarantined(cleared, p), p, plan)

\* #recover after #clearBrowser: the index is planned after the wait.
Recovers(d, p) == Cut(d) \cup Cut(Quarantined(d, p)) \cup RetiresRecord(Quarantined(d, p), p, d.index)

\* #removeRetiredQuarantines: each quarantine that still holds its tombstone.
Retired(d) == {p \in Profiles : d.place[p] = "quarantine" /\ Tombstoned(d, p)}
GoneAll(d, ps) == [d EXCEPT !.place = [p \in Profiles |-> IF p \in ps THEN "absent" ELSE @[p]],
                            !.files = [p \in Profiles |-> IF p \in ps THEN {} ELSE @[p]],
                            !.tombstone = [p \in Profiles |-> IF p \in ps THEN "absent" ELSE @[p]]]
Sweeps(d) ==
  (UNION {{r \in Removes(GoneAll(d, ps), p) : r.end # "done"} : ps \in SUBSET Retired(d), p \in Retired(d)})
  \cup WroteAll(GoneAll(d, Retired(d)))

-----------------------------------------------------------------------------
(* The process.                                                             *)

CanFault == faults < MaxFaults
Up == process # "off"

\* A crash takes the flight with it.
Dies == process' = "off" /\ flight' = NoFlight

\* One of the ends of a run of writes, and the deletion in flight afterwards.
Ended(ends, after, failed) ==
  \E e \in ends :
    /\ disk' = e.disk
    /\ e.end \in {"failed", "crashed"} => CanFault
    /\ faults' = faults + (IF e.end \in {"failed", "crashed"} THEN 1 ELSE 0)
    /\ IF e.end = "crashed" THEN Dies
       ELSE flight' = (IF e.end = "done" THEN after ELSE failed) /\ UNCHANGED process

Rewritten(d, p) == IF p = Home THEN d ELSE [d EXCEPT !.files[p] = @ \cup {"rewritten"}]
Touches(p) == touched \/ p = disk.journal.profile
NoHistory == UNCHANGED <<born, condemned, touched, refused>>

\* begin, for a confirmation of a new profile.
Begin(p) ==
  /\ Up /\ p \notin born /\ disk.journal.state = "absent"
  /\ Ended(BeginsProvisioning(disk, p), flight, flight)
  /\ born' = born \cup {p} /\ touched' = FALSE
  /\ UNCHANGED <<live, condemned, refused>>

\* The profile in use: its workspace and its partition change.
Use ==
  /\ process = "running" /\ live # Home
  /\ disk' = [Rewritten(disk, live) EXCEPT !.partition = @ \cup {live}]
  /\ touched' = Touches(live)
  /\ UNCHANGED <<process, live, flight, faults, born, condemned, refused>>

\* switchTo: the destination must be a candidate.  A step that fails leaves the
\* journal; the activation rewrites the workspace state of the destination.
Switched(d, p) == [Rewritten(d, p) EXCEPT !.switch = None, !.active = p]
SwitchFails(p) ==
  /\ process = "running" /\ p # live /\ disk.switch = None /\ Candidate(disk, p) /\ CanFault
  /\ disk' = [disk EXCEPT !.switch = p] /\ faults' = faults + 1
  /\ UNCHANGED <<process, live, flight>> /\ NoHistory
Switch(p) ==
  /\ process = "running" /\ p # live /\ disk.switch = None /\ Candidate(disk, p)
  /\ disk' = Switched(disk, p) /\ process' = "relaunching" /\ touched' = Touches(p)
  /\ UNCHANGED <<live, flight, faults, born, condemned, refused>>

\* deleteProfile: neither the packaged profile nor the profile of this process.
Delete(p) ==
  /\ Up /\ flight = NoFlight /\ p # live /\ RegistryLoads(disk) /\ p \in Listed(disk)
  /\ disk' = Marked(disk, p, "prepared")
  /\ flight' = [kind |-> "delete", profile |-> p, plan |-> disk.index, left |-> {}]
  /\ condemned' = condemned \cup {p} /\ touched' = (touched \/ disk.journal # NoJournal)
  /\ UNCHANGED <<process, live, faults, born, refused>>

\* recover: the next entry of the index with a tombstone.
RecoverNext(p) ==
  /\ Up /\ flight.kind = "recover" /\ flight.profile = None /\ p \in flight.left /\ Tombstoned(disk, p)
  /\ flight' = [flight EXCEPT !.profile = p, !.left = @ \ {p}]
  /\ UNCHANGED <<disk, process, live, faults>> /\ NoHistory

\* #clearBrowser comes back; what follows is synchronous.
ClearFails ==
  /\ Up /\ flight.profile # None /\ CanFault
  /\ flight' = NoFlight /\ faults' = faults + 1
  /\ UNCHANGED <<disk, process, live>> /\ NoHistory
PartitionCleared ==
  /\ Up /\ flight.profile # None
  /\ LET p == flight.profile
         d == [disk EXCEPT !.partition = @ \ {p}]
     IN IF flight.kind = "delete" THEN Ended(Deletes(d, p, flight.plan), NoFlight, NoFlight)
        ELSE Ended(Recovers(d, p), [flight EXCEPT !.profile = None], NoFlight)
  /\ touched' = (touched \/ disk.journal # NoJournal)
  /\ UNCHANGED <<live, born, condemned, refused>>
Swept ==
  /\ Up /\ flight.kind = "recover" /\ flight.profile = None
  /\ \A p \in flight.left : ~Tombstoned(disk, p)
  /\ Ended(Sweeps(disk), NoFlight, NoFlight)
  /\ UNCHANGED live /\ NoHistory

\* A crash between steps, or the exit of a relaunch.
Exit ==
  /\ Up /\ (process = "running" => CanFault)
  /\ faults' = faults + (IF process = "running" THEN 1 ELSE 0)
  /\ Dies /\ UNCHANGED <<disk, live>> /\ NoHistory

-----------------------------------------------------------------------------
(* The start: the active profile, the switch journal, the provisioning      *)
(* journal, the candidates, and then the recovery of deletions on the side. *)

\* The controller made before the application is ready resolves the active profile by its key.
PreReady(d) == Candidate(d, d.active)

RefusesStart(why) == refused' = why /\ UNCHANGED <<disk, process, live, flight, faults, touched>>

StartsServices(d) ==
  /\ disk' = d /\ process' = "running" /\ live' = d.active /\ refused' = ""
  /\ flight' = [NoFlight EXCEPT !.kind = "recover", !.left = d.index]
  /\ UNCHANGED <<faults, touched>>

RecoversProvisioning ==
  \E e \in Resumes(disk) :
    IF e.end = "done" /\ RegistryLoads(e.disk) THEN StartsServices(e.disk)
    ELSE IF e.end \in {"done", "threw"} THEN RefusesStart("journal")
    ELSE /\ CanFault /\ disk' = e.disk /\ faults' = faults + 1
         /\ UNCHANGED <<process, live, flight, touched, refused>>

Start ==
  /\ process = "off" /\ UNCHANGED <<born, condemned>>
  /\ IF ~PreReady(disk) THEN RefusesStart("active")
     ELSE IF disk.switch = None THEN RecoversProvisioning
     ELSE IF ~Candidate(disk, disk.switch) THEN RefusesStart("switch")
     ELSE /\ disk' = Switched(disk, disk.switch) /\ touched' = Touches(disk.switch) /\ refused' = ""
          /\ UNCHANGED <<process, live, flight, faults>>

ProfilesNext ==
  \/ Use \/ ClearFails \/ PartitionCleared \/ Swept \/ Exit \/ Start
  \/ \E p \in Profiles : Begin(p) \/ Delete(p) \/ RecoverNext(p)
  \/ \E p \in Profiles \cup {Home} : SwitchFails(p) \/ Switch(p)

ProfilesSpec == ProfilesInit /\ [][ProfilesNext]_profileVars

-----------------------------------------------------------------------------
(* Properties.                                                              *)

\* What the index shows without a tombstone is whole, so that no profile half
\* provisioned or half deleted can be chosen.
ListedIsWhole == RegistryLoads(disk)

\* A deletion that became durable is never undone, whatever fails or crashes:
\* the profile is never listed again, and its record leaves the index only
\* after Chromium cleared its partition.
DeletionStands ==
  \A p \in condemned : p \notin Listed(disk) /\ (p \notin disk.index => p \notin disk.partition)

\* The profile of a running process is not deleted under it.
LiveIsKept == process = "running" => live \notin condemned

\* A start is refused for a journal only if the profile or the index it is
\* bound to was used or deleted in between, or if its creation was cut off; for
\* an active profile or a destination only if that profile was deleted.
StartRefusedForCause ==
  /\ refused = "journal" => touched \/ disk.journal = Torn
  /\ refused = "active" => disk.active \in condemned
  /\ refused = "switch" => disk.switch \in condemned

ProfilesSafety ==
  ProfilesTypeOK /\ ListedIsWhole /\ DeletionStands /\ LiveIsKept /\ StartRefusedForCause
=============================================================================
