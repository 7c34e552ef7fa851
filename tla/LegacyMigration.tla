-------------------------- MODULE LegacyMigration ---------------------------
(***************************************************************************)
(* The move of a flat 1.x installation into the Profile Workspace          *)
(* (persistence/migration/legacy-hkust): the start-up that chooses between *)
(* the two authorities, the journalled migration, the retirement of the    *)
(* flat files and, later, of the old credential kept for a rollback.       *)
(*                                                                         *)
(* All of it is synchronous: a start or a change of the credential is one  *)
(* step that ends after any of its writes, because a write failed (which   *)
(* ends the process as well, main.js:652) or because the process died.     *)
(* File contents are numbers: 0 is no file, and every edit makes a new     *)
(* one.  What a build makes of the clock or of fresh encryption carries    *)
(* the number of the build.                                                *)
(***************************************************************************)
EXTENDS Integers, Sequences

CONSTANTS MaxEdits,     \* bound: changes of the flat files and of the credential
          MaxFailures   \* bound: failed writes and crashes

ASSUME MigrationAssumption == MaxEdits \in Nat \ {0} /\ MaxFailures \in Nat

VARIABLES
  storage,   \* what the file system holds
  session,   \* the process: "off", "relaunching", or the mode it serves
  edits, failures,
  builds,    \* builds of a destination that wrote a file
  \* History, read by the properties only.
  last,      \* the flat files as the user last left them
  replaced,  \* the credential was replaced or cleared in the workspace
  refusal    \* why the last start was refused

migrationVars == <<storage, session, edits, failures, builds, last, replaced, refusal>>

\* LEGACY_SOURCE_IDS by their part: "copied" are those taken over byte by byte
\* (rules, PAC files, site passwords, trust, logs); "owner" is the record of a
\* running engine, which REQUIRED_ABSENT_LEGACY_SOURCE_IDS names.
Sources == {"settings", "credential", "copied", "owner"}
\* The order in which retireLegacyFlatSources removes them: settings last.
Retirement == <<"credential", "copied", "settings">>

\* DESTINATION_RECEIPT_IDS in their order, in which the files are written.
Order == <<"settings", "account", "credential", "blob", "state", "copied">>
Files == {Order[i] : i \in DOMAIN Order}

NoFile == [from |-> 0, stamp |-> 0]
FileContents == [from : 0..MaxEdits + 1, stamp : 0..MaxFailures + 1]
Flat == [Sources -> 0..MaxEdits + 1]
Empty == [s \in Sources |-> 0]
Nowhere == [f \in Files |-> NoFile]
NoMigration == [state |-> "absent", sources |-> Empty, files |-> Nowhere]

MigrationTypeOK ==
  /\ storage.flat \in Flat /\ storage.files \in [Files -> FileContents]
  /\ storage.journal.state \in {"absent", "torn", "prepared", "committed"}
  /\ storage.journal.sources \in Flat /\ storage.journal.files \in [Files -> FileContents]
  /\ storage.retired \in BOOLEAN /\ storage.intent \in BOOLEAN
  /\ session \in {"off", "relaunching", "legacy-flat", "profile-workspace"}
  /\ edits \in 0..MaxEdits /\ failures \in 0..MaxFailures /\ builds \in 0..MaxFailures + 1
  /\ last \in Flat /\ replaced \in BOOLEAN
  /\ refusal \in {"", "torn", "orphan", "owner", "conflict", "ambiguous", "missing", "changed",
                  "rollback", "relaunch loop"}

\* A new installation, or one of release 1.x, perhaps with a leftover record of an engine.
MigrationInit ==
  /\ \E flat \in [Sources -> 0..1] :
       /\ flat # Empty => flat["settings"] = 1
       /\ storage = [flat |-> flat, files |-> Nowhere, journal |-> NoMigration, retired |-> FALSE, intent |-> FALSE]
       /\ last = flat
  /\ session = "off" /\ edits = 0 /\ failures = 0 /\ builds = 0 /\ replaced = FALSE /\ refusal = ""

-----------------------------------------------------------------------------
(* How a run of writes ends: [store, end].                                *)

EndsAt(d, end) == {[store |-> d, end |-> end]}
CutOff(d) == EndsAt(d, "cut")
Finishes(d) == EndsAt(d, "done")
Then(ends, Next(_)) == UNION {IF e.end = "done" THEN Next(e.store) ELSE {e} : e \in ends}

-----------------------------------------------------------------------------
(* The old credential kept for a rollback: LegacyCredentialRollbackStore.   *)

Blob(d) == d.files["blob"] # NoFile

\* #resumeIntent: the blob goes first, then the state says so, then the intent goes.
ResumesIntent(d) ==
  LET unlinked == [d EXCEPT !.files["blob"] = NoFile]
      stated == [unlinked EXCEPT !.retired = TRUE]
      cleared == [stated EXCEPT !.intent = FALSE]
  IN CutOff(d) \cup CutOff(unlinked) \cup CutOff(stated) \cup CutOff(cleared) \cup Finishes(cleared)

Intends(d) == ResumesIntent([d EXCEPT !.intent = TRUE])

\* reconcile, whose factory reads the state first.
Reconciles(d) ==
  IF d.files["state"] = NoFile THEN EndsAt(d, "rollback")
  ELSE IF d.intent THEN ResumesIntent(d)
  ELSE IF d.retired THEN IF Blob(d) THEN CutOff(d) \cup Intends(d) ELSE Finishes(d)
  ELSE IF Blob(d) THEN Finishes(d) ELSE EndsAt(d, "rollback")

\* Mutant: a retirement that is already intended is left to the next start.
RetiresBlobLater(d) == IF d.intent THEN Finishes(d)
                       ELSE Then(Reconciles(d), LAMBDA r : IF r.retired THEN Finishes(r) ELSE CutOff(r) \cup Intends(r))

\* retire
RetiresBlob(d) == Then(Reconciles(d), LAMBDA r : IF r.retired THEN Finishes(r) ELSE CutOff(r) \cup Intends(r))

-----------------------------------------------------------------------------
(* The migration: ProfileWorkspaceMigrationCoordinator.                     *)

Destined(d) == d.files["settings"] # NoFile

\* createHkustMigrationDestinationPlan: Account, envelope and rollback state carry the time of the build.
DestinationPlan(flat, stamp) ==
  LET held == flat["credential"] IN
  [f \in Files |->
    CASE f \in {"settings", "copied"} -> [from |-> flat[f], stamp |-> 0]
      [] f \in {"account", "state"} -> [from |-> held, stamp |-> stamp]
      [] f = "credential" -> IF held = 0 THEN NoFile ELSE [from |-> held, stamp |-> stamp]
      [] f = "blob" -> [from |-> held, stamp |-> 0]]

\* retireLegacyFlatSources after its first n removals.
Removed(d, n) == [d EXCEPT !.flat = [s \in Sources |-> IF \E i \in 1..n : Retirement[i] = s THEN 0 ELSE @[s]]]

ResumesCommitted(d) ==
  LET left == Removed(d, Len(Retirement)) IN
  IF ~Destined(d) THEN EndsAt(d, "missing")
  ELSE IF d.files # d.journal.files \/ \E s \in Sources : d.flat[s] \notin {0, d.journal.sources[s]}
  THEN EndsAt(d, "changed")
  ELSE (UNION {CutOff(Removed(d, n)) : n \in 0..Len(Retirement)})
       \cup CutOff([left EXCEPT !.journal = NoMigration]) \cup Finishes([left EXCEPT !.journal = NoMigration])

\* materializeDestinationFiles after its first n files: what is there stays.
Materialized(d, plan, n) ==
  [d EXCEPT !.files = [f \in Files |-> IF @[f] = NoFile /\ \E i \in 1..n : Order[i] = f THEN plan[f] ELSE @[f]],
            !.retired = IF n >= 5 THEN d.flat["credential"] = 0 ELSE @]

ResumesPrepared(d) ==
  LET plan == DestinationPlan(d.flat, builds + 1)
      built == Materialized(d, plan, Len(Order))
      committed == [built EXCEPT !.journal.state = "committed", !.journal.files = plan]
  IN IF d.flat["settings"] = 0 THEN EndsAt(d, "missing")
     ELSE IF d.flat # d.journal.sources THEN EndsAt(d, "changed")
     ELSE IF \E f \in Files : d.files[f] \notin {NoFile, plan[f]} THEN EndsAt(d, "conflict")
     ELSE (UNION {CutOff(Materialized(d, plan, n)) : n \in 0..Len(Order)})
          \cup CutOff(committed) \cup ResumesCommitted(committed)

\* prepare creates the journal in place: a failure removes it, a crash may leave it torn.
Prepares(d) ==
  LET journal == [state |-> "prepared", sources |-> d.flat, files |-> Nowhere]
  IN CutOff(d) \cup CutOff([d EXCEPT !.journal.state = "torn"]) \cup CutOff([d EXCEPT !.journal = journal])
     \cup ResumesPrepared([d EXCEPT !.journal = journal])

BeginsMigration(d) ==
  LET legacy == d.flat["settings"] # 0 IN
  IF ~legacy /\ d.flat # Empty THEN EndsAt(d, "orphan")
  ELSE IF legacy /\ Destined(d) THEN EndsAt(d, "ambiguous")
  ELSE IF ~legacy THEN Finishes(d)
  ELSE IF d.flat["owner"] # 0 THEN EndsAt(d, "owner")
  ELSE Prepares(d)

\* ProfileWorkspaceStartupRuntime.initialize
Initializes(d) ==
  LET migrates ==
        CASE d.journal.state = "torn" -> EndsAt(d, "torn")
          [] d.journal.state = "prepared" -> ResumesPrepared(d)
          [] d.journal.state = "committed" -> ResumesCommitted(d)
          [] d.journal.state = "absent" -> IF Destined(d) THEN Then(Reconciles(d), BeginsMigration) ELSE BeginsMigration(d)
  IN Then(migrates, LAMBDA m : IF Destined(m) THEN Reconciles(m) ELSE Finishes(m))

-----------------------------------------------------------------------------
(* The process.                                                             *)

CanFail == failures < MaxFailures
Fault == CanFail /\ failures' = failures + 1 /\ session' = "off"

\* selectProfileWorkspacePreReadyStorage chooses the paths before the start knows the outcome.
PreReadyMode(d) == IF d.journal.state = "absent" /\ Destined(d) THEN "profile-workspace" ELSE "legacy-flat"
Mode(d) == IF Destined(d) THEN "profile-workspace" ELSE "legacy-flat"

\* Every start writes the PAC file of its mode (DesktopStartupRuntime, refreshPacFile).
Booted(d) == IF Destined(d) THEN {d} ELSE {d, [d EXCEPT !.flat["copied"] = edits + 1]}

\* A build that wrote a file.
Built(d) == builds' = builds + (IF PreReadyMode(storage) = "legacy-flat" /\ d.files # storage.files THEN 1 ELSE 0)

Refused(why) == refusal' = why /\ session' = "off" /\ UNCHANGED <<storage, failures, builds, last>>

StartUp ==
  /\ session \in {"off", "relaunching"}
  /\ \E e \in Initializes(storage) :
       \/ e.end = "cut" /\ Fault /\ storage' = e.store /\ Built(e.store) /\ UNCHANGED <<last, refusal>>
       \/ e.end \notin {"cut", "done"} /\ Refused(e.end)
       \/ /\ e.end = "done" /\ PreReadyMode(storage) # Mode(e.store)
          /\ IF session = "relaunching" THEN Refused("relaunch loop")
             ELSE /\ storage' = e.store /\ session' = "relaunching" /\ refusal' = "" /\ Built(e.store)
                  /\ UNCHANGED <<failures, last>>
       \/ /\ e.end = "done" /\ PreReadyMode(storage) = Mode(e.store)
          /\ \E d \in Booted(e.store) :
               /\ storage' = d /\ session' = Mode(d) /\ refusal' = ""
               /\ last' = (IF Destined(d) THEN last ELSE d.flat)
               /\ UNCHANGED <<failures, builds>>
  /\ UNCHANGED <<edits, replaced>>

\* A user of the flat installation: settings, the credential with its settings, the other files.
Edit ==
  /\ session = "legacy-flat" /\ edits < MaxEdits
  /\ \E changed \in {{"settings"}, {"copied"}, {"settings", "credential"}} :
       storage' = [storage EXCEPT !.flat = [s \in Sources |-> IF s \in changed THEN edits + 2 ELSE @[s]]]
  /\ edits' = edits + 1 /\ last' = storage'.flat
  /\ UNCHANGED <<session, failures, builds, replaced, refusal>>

\* The record of the engine's owner, kept while an engine runs.
Connect ==
  /\ session = "legacy-flat" /\ storage.flat["credential"] # 0
  /\ storage' = [storage EXCEPT !.flat["owner"] = 1 - @]
  /\ last' = storage'.flat
  /\ UNCHANGED <<session, edits, failures, builds, replaced, refusal>>

\* #mutate: no credential changes before the retirement is proven.
Mutate ==
  /\ session = "profile-workspace" /\ edits < MaxEdits
  /\ \E e \in RetiresBlob(storage), to \in {0, edits + 2} :
       \/ /\ e.end = "done"
          /\ storage' = [e.store EXCEPT !.files["credential"] = [NoFile EXCEPT !.from = to]]
          /\ replaced' = TRUE /\ edits' = edits + 1
          /\ UNCHANGED <<session, failures>>
       \/ /\ e.end = "cut" /\ CanFail /\ failures' = failures + 1
          /\ storage' = e.store /\ session' \in {session, "off"} /\ UNCHANGED <<edits, replaced>>
  /\ UNCHANGED <<builds, last, refusal>>

\* The exit of a relaunch, a quit, which stops the engine, or a crash, which does not.
Quit ==
  /\ session \in {"legacy-flat", "profile-workspace"}
  /\ \/ session' = "off" /\ storage' = [storage EXCEPT !.flat["owner"] = 0] /\ last' = storage'.flat
        /\ UNCHANGED failures
     \/ Fault /\ UNCHANGED <<storage, last>>
  /\ UNCHANGED <<edits, builds, replaced, refusal>>

MigrationNext == StartUp \/ Edit \/ Connect \/ Mutate \/ Quit

MigrationSpec == MigrationInit /\ [][MigrationNext]_migrationVars

-----------------------------------------------------------------------------
(* Properties.                                                              *)

\* A process that serves one authority finds nothing of the other, whatever was cut before.
OneAuthority ==
  /\ session = "profile-workspace" => storage.flat = Empty /\ storage.journal = NoMigration
  /\ session = "legacy-flat" => storage.files = Nowhere /\ storage.journal = NoMigration

\* What the user left in a flat file is there until a committed destination
\* holds it; the credential may be changed there later.
NothingLost ==
  \A s \in {"settings", "credential", "copied"} :
    \/ storage.flat[s] = last[s]
    \/ /\ storage.journal.state \notin {"torn", "prepared"}
       /\ storage.files[s].from = last[s] \/ (s = "credential" /\ replaced)

\* The flat settings, which make the other files an authority, go last.
SettingsLast == storage.journal.state = "committed" /\ storage.flat["settings"] = 0 => storage.flat = Empty

\* Once the credential has changed, the old one cannot be restored
\* (docs/adr/0004-profile-account-workspace-scope.md:510), and the state that
\* vouches for it follows the blob, never the other way round.
OldCredentialGone ==
  /\ replaced => ~Blob(storage) /\ storage.retired
  /\ storage.files["state"] # NoFile /\ storage.journal.state # "prepared" /\ ~storage.retired /\ ~storage.intent
       => Blob(storage)

\* A start is refused only for a journal whose creation was cut off, a build
\* cut off after a file that carries its time, files left without settings ever
\* saved, or the record of an engine that a crash or release 1.x left behind.
\* None of the other codes is ever the answer to the program's own faults.
RefusedForCause ==
  /\ refusal \in {"", "torn", "conflict", "orphan", "owner"}
  /\ refusal = "torn" => storage.journal.state = "torn"
  /\ refusal = "conflict" => storage.journal.state = "prepared" /\ storage.files["account"].stamp > 0
  /\ refusal = "orphan" => last["settings"] = 0 /\ storage.files = Nowhere
  /\ refusal = "owner" => last["owner"] # 0

MigrationSafety ==
  MigrationTypeOK /\ OneAuthority /\ NothingLost /\ SettingsLast /\ OldCredentialGone /\ RefusedForCause

\* docs/adr/0009-p3-migration-coordinator.md:35: "A crash before/during
\* destination construction retains `prepared`; the next run resumes with the
\* same identity."
PreparedResumes == refusal # "conflict"
=============================================================================
