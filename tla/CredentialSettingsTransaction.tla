-------------------- MODULE CredentialSettingsTransaction --------------------
(***************************************************************************)
(* The crash-safe transaction that changes the account name in the         *)
(* settings document and the encrypted VPN credential together, in a flat  *)
(* user-data directory: the rollback journal, the two writers it brackets, *)
(* its recovery, and the block that recovery leaves behind.                *)
(*                                                                         *)
(* An action is one change of one file with the fsync of its directory.    *)
(* It succeeds, fails with no effect, or takes effect without being        *)
(* durable; the process or the machine may stop between any two of them.   *)
(* `view' is what the program reads, `disk' the directory contents that a  *)
(* power loss may leave: changes reach the disk in the order they are      *)
(* made, and a directory fsync makes every change so far durable.          *)
(***************************************************************************)
EXTENDS Naturals

CONSTANTS
  Users,    \* account names
  NoUser,   \* the empty account name of a logged-out user
  Absent,   \* no such file
  Torn,     \* a journal whose bytes were not all written
  Marker    \* the commit marker that replaces the rollback snapshots

ASSUME UsersAssumption ==
  /\ Absent \notin Users \cup {NoUser}
  /\ NoUser \notin Users

VARIABLES
  view,      \* the files as the running program reads them
  disk,      \* the views that may survive a power loss
  step,      \* the next step of the running operation, "idle" or "down"
  job,       \* the operation: why it runs, the pair it is to store
  intact,    \* every file restored so far by this recovery was restored
  blocked,   \* the last recovery ended "blocked": no write, no connection
  saved,     \* history: the last save with a durable marker or reported to the user
  orphaned   \* history: an outsider removed the journal of an open transaction

vars == <<view, disk, step, job, intact, blocked, saved, orphaned>>

Documents == Users \cup {NoUser, Absent}
Credentials == Users \cup {Absent}

\* The stored documents and credential as the journal keeps them.
Snapshots == [settings : Documents, backup : Documents, credential : Credentials]

ASSUME JournalAssumption ==
  /\ {Absent, Torn, Marker} \cap Snapshots = {}
  /\ Torn # Absent /\ Marker # Absent /\ Torn # Marker

Journals == Snapshots \cup {Absent, Torn, Marker}

Views == [settings : Documents, backup : Documents,
          credential : Credentials, journal : Journals]

MutationSteps == {"credential", "retire", "settings", "backup", "commit"}
RecoverySteps == {"recover", "restore settings", "restore backup",
                  "restore credential", "drop journal", "retreat",
                  "forget", "clear", "isolate"}

Causes == {"none", "save", "mutation", "begin", "commit", "startup", "retry"}

NoJob == [cause |-> "none", user |-> NoUser, credential |-> Absent]

NothingSaved == [user |-> NoUser, credential |-> Absent, proven |-> FALSE]

TypeOK ==
  /\ view \in Views
  /\ disk \in SUBSET Views
  /\ step \in {"down", "idle", "tidy"} \cup MutationSteps \cup RecoverySteps
  /\ job \in [cause : Causes, user : Users \cup {NoUser}, credential : Credentials]
  /\ intact \in BOOLEAN
  /\ blocked \in BOOLEAN
  /\ saved \in [user : Users \cup {NoUser}, credential : Credentials, proven : BOOLEAN]
  /\ orphaned \in BOOLEAN

Init ==
  /\ view = [settings |-> Absent, backup |-> Absent,
             credential |-> Absent, journal |-> Absent]
  /\ disk = {view}
  /\ step = "down"
  /\ job = NoJob
  /\ intact = TRUE
  /\ blocked = FALSE
  /\ saved = NothingSaved
  /\ orphaned = FALSE

-----------------------------------------------------------------------------
(* One change of one file.                                                 *)

Unchanged == UNCHANGED <<view, disk>>

Durably(f, content) ==
  /\ view' = [view EXCEPT ![f] = content]
  /\ disk' = {view'}

Visibly(f, content) ==
  /\ view' = [view EXCEPT ![f] = content]
  /\ disk' = disk \cup {view'}

\* A temporary file is written, fsynced and renamed over f, or f is unlinked;
\* then the directory is fsynced.  Unlinking what is not there succeeds as it
\* is, with no fsync.
PutDone(f, content) ==
  \/ Durably(f, content) /\ (content # Absent \/ view[f] # Absent)
  \/ Unchanged /\ content = Absent /\ view[f] = Absent

PutFails(f, content) ==
  /\ content # Absent \/ view[f] # Absent
  /\ Visibly(f, content) \/ Unchanged

Goto(next) == step' = next

Continue == UNCHANGED <<job, intact, blocked, saved, orphaned>>

-----------------------------------------------------------------------------
(* The mutation: journal, credential, settings, commit marker.             *)

LoadedUser(v) ==
  IF v.settings # Absent THEN v.settings
  ELSE IF v.backup # Absent THEN v.backup ELSE NoUser

Snapshot ==
  [settings |-> view.settings, backup |-> view.backup, credential |-> view.credential]

Recovering(cause) ==
  /\ Goto("recover")
  /\ job' = [job EXCEPT !.cause = cause]
  /\ UNCHANGED <<intact, blocked, saved, orphaned>>

\* The journal is created in place and exclusively: an existing journal or
\* an early error leaves nothing new, a later one a torn or undurable journal.
Begin(user, credential) ==
  /\ step = "idle" /\ ~blocked
  /\ \/ /\ view.journal = Absent
        /\ Durably("journal", Snapshot)
        /\ Goto("credential")
        /\ job' = [cause |-> "mutation", user |-> user, credential |-> credential]
     \/ /\ \/ view.journal = Absent /\ \E j \in {Torn, Snapshot} : Visibly("journal", j)
           \/ Unchanged
        /\ Goto("recover")
        /\ job' = [cause |-> "begin", user |-> user, credential |-> credential]
  /\ UNCHANGED <<intact, blocked, saved, orphaned>>

\* The password is stored, kept in memory only, or removed with the account.
SavePassword == \E u \in Users : Begin(u, u)
SaveInMemory == \E u \in Users : Begin(u, Absent)
Logout == Begin(NoUser, Absent)

\* A save that leaves the account alone runs without a journal.
SaveSettings ==
  /\ step = "idle" /\ ~blocked
  /\ Goto("retire")
  /\ job' = [cause |-> "save", user |-> LoadedUser(view), credential |-> view.credential]
  /\ UNCHANGED <<view, disk, intact, blocked, saved, orphaned>>

Journaled == job.cause = "mutation"

\* A settings write that throws ends the save, or fails the transaction.
SaveThrows ==
  IF Journaled THEN Recovering("mutation")
  ELSE /\ Goto("idle") /\ job' = NoJob
       /\ UNCHANGED <<intact, blocked, saved, orphaned>>

MutateCredential ==
  /\ step = "credential"
  /\ \/ PutDone("credential", job.credential) /\ Goto("retire") /\ Continue
     \/ PutFails("credential", job.credential) /\ Recovering("mutation")

RetireBackup ==
  /\ step = "retire"
  /\ \/ PutDone("backup", Absent) /\ Goto("settings") /\ Continue
     \/ PutFails("backup", Absent) /\ SaveThrows

WriteSettings ==
  /\ step = "settings"
  /\ \/ PutDone("settings", job.user) /\ Goto("backup") /\ Continue
     \/ PutFails("settings", job.user) /\ SaveThrows

\* The backup is recovery metadata: its failure is ignored.
WriteBackup ==
  /\ step = "backup"
  /\ PutDone("backup", job.user) \/ PutFails("backup", job.user)
  /\ IF Journaled THEN Goto("commit") /\ UNCHANGED job ELSE Goto("idle") /\ job' = NoJob
  /\ UNCHANGED <<intact, blocked, saved, orphaned>>

\* Mutant: the directory fsync after the marker's rename is not checked.
CommitUnsynced ==
  /\ step = "commit"
  /\ PutDone("journal", Marker) \/ Visibly("journal", Marker)
  /\ Goto("tidy")
  /\ saved' = [user |-> job.user, credential |-> job.credential, proven |-> TRUE]
  /\ UNCHANGED <<job, intact, blocked, orphaned>>

Commit ==
  /\ step = "commit"
  /\ \/ /\ PutDone("journal", Marker) /\ Goto("tidy")
        /\ saved' = [user |-> job.user, credential |-> job.credential, proven |-> TRUE]
        /\ UNCHANGED job
     \/ /\ PutFails("journal", Marker) /\ Goto("recover")
        /\ saved' = IF view'.journal = Marker THEN NothingSaved ELSE saved
        /\ job' = [job EXCEPT !.cause = "commit"]
  /\ UNCHANGED <<intact, blocked, orphaned>>

\* The marker is removed if it can be, and the user is told of the save.
Tidy ==
  /\ step = "tidy"
  /\ PutDone("journal", Absent) \/ PutFails("journal", Absent)
  /\ Goto("idle") /\ job' = NoJob
  /\ blocked' = FALSE /\ orphaned' = FALSE
  /\ UNCHANGED <<intact, saved>>

-----------------------------------------------------------------------------
(* Recovery: at startup, after a failed transaction, and before every      *)
(* connection, save or logout while the block stands.                      *)

\* A commit that fails is reported as a success when its recovery finds the
\* marker, or no journal at all.
ReportedAsCommit(status) == job.cause = "commit" /\ status \in {"committed", "none"}

\* The pair is known again once it was committed or its password is gone, and
\* no old journal can come back.
Explained(status) ==
  /\ \A v \in disk' : v.journal \notin Snapshots
  /\ \/ status = "committed"
     \/ status = "none" /\ job.cause \in {"commit", "mutation"}
     \/ \A v \in disk' : v.credential = Absent

Ends(status) ==
  /\ Goto("idle") /\ job' = NoJob /\ intact' = TRUE
  /\ blocked' = (status = "blocked")
  /\ orphaned' = (orphaned /\ ~Explained(status))
  /\ IF ReportedAsCommit(status)
       THEN saved' = [user |-> job.user, credential |-> job.credential, proven |-> FALSE]
       ELSE UNCHANGED saved

\* Mutant: a journal lost during the mutation counts as no transaction.
RecoverNothingBenign ==
  step = "recover" /\ view.journal = Absent /\ Unchanged /\ Ends("none")

\* No journal: nothing to do, except after a mutation that had one.
RecoverNothing ==
  /\ step = "recover" /\ view.journal = Absent
  /\ Unchanged
  /\ IF job.cause = "mutation" THEN Goto("clear") /\ Continue ELSE Ends("none")

\* The journal cannot be examined now: it stays, and so does the credential.
RecoverUnreadable == step = "recover" /\ Unchanged /\ Ends("blocked")

RecoverTorn ==
  step = "recover" /\ view.journal = Torn /\ Unchanged /\ Goto("clear") /\ Continue

RecoverMarker ==
  step = "recover" /\ view.journal = Marker /\ Unchanged /\ Goto("forget") /\ Continue

RecoverSnapshots ==
  /\ step = "recover" /\ view.journal \in Snapshots
  /\ Unchanged /\ Goto("restore settings") /\ Continue

\* Every file is restored, whether or not the one before it was.
Restore(here, f, content, next) ==
  /\ step = here
  /\ \/ PutDone(f, content) /\ UNCHANGED intact
     \/ PutFails(f, content) /\ intact' = FALSE
  /\ Goto(next)
  /\ UNCHANGED <<job, blocked, saved, orphaned>>

RestoreSettings ==
  Restore("restore settings", "settings", view.journal.settings, "restore backup")
RestoreBackup ==
  Restore("restore backup", "backup", view.journal.backup, "restore credential")
RestoreCredential ==
  Restore("restore credential", "credential", view.journal.credential, "drop journal")

\* Mutant: the journal goes whether or not every file was restored.
DropJournalAnyway ==
  /\ step = "drop journal"
  /\ \/ PutDone("journal", Absent) /\ Ends("recovered")
     \/ PutFails("journal", Absent) /\ Goto("retreat") /\ Continue

DropJournal ==
  /\ step = "drop journal"
  /\ \/ intact /\ PutDone("journal", Absent) /\ Ends("recovered")
     \/ /\ \/ intact /\ PutFails("journal", Absent)
           \/ ~intact /\ Unchanged
        /\ Goto("retreat") /\ Continue

\* What could not be restored must not be used: the password goes as well.
Retreat ==
  /\ step = "retreat"
  /\ PutDone("credential", Absent) \/ PutFails("credential", Absent)
  /\ Goto("idle") /\ job' = NoJob /\ intact' = TRUE /\ blocked' = TRUE
  /\ saved' = NothingSaved
  /\ UNCHANGED orphaned

Forget ==
  /\ step = "forget"
  /\ PutDone("journal", Absent) \/ PutFails("journal", Absent)
  /\ Ends("committed")

\* Without a usable snapshot the password is removed before anything else.
Clear ==
  /\ step = "clear"
  /\ \/ /\ PutDone("credential", Absent)
        /\ IF view.journal = Absent
             THEN /\ Goto("idle") /\ job' = NoJob /\ intact' = TRUE
                  /\ blocked' = FALSE
                  /\ orphaned' = (orphaned /\ ~Explained("cleared"))
             ELSE Goto("isolate") /\ UNCHANGED <<job, intact, blocked, orphaned>>
     \/ /\ PutFails("credential", Absent)
        /\ Goto("idle") /\ job' = NoJob /\ intact' = TRUE
        /\ blocked' = TRUE /\ UNCHANGED orphaned
  /\ saved' = NothingSaved

\* The damaged journal is renamed away or removed, if that can be done.
Isolate ==
  /\ step = "isolate"
  /\ PutDone("journal", Absent) \/ PutFails("journal", Absent)
  /\ Ends("cleared")

Retry ==
  /\ step = "idle" /\ blocked
  /\ Goto("recover") /\ job' = [NoJob EXCEPT !.cause = "retry"]
  /\ UNCHANGED <<view, disk, intact, blocked, saved, orphaned>>

-----------------------------------------------------------------------------
(* Around the transaction.                                                 *)

\* Reading settings whose primary is missing restores it from the backup.
LoadFromBackup ==
  /\ step = "idle" /\ view.settings = Absent /\ view.backup # Absent
  /\ PutDone("settings", view.backup) \/ PutFails("settings", view.backup)
  /\ UNCHANGED <<step, job, intact, blocked, saved, orphaned>>

\* A cleaner or an antivirus product removes the journal of a transaction
\* that is under way, at the latest between recovery's lstat and its open.
JournalVanishes ==
  /\ \/ step \in MutationSteps /\ Journaled /\ UNCHANGED step
     \/ step = "recover" /\ Goto("clear")
  /\ view.journal # Absent
  /\ Visibly("journal", Absent)
  /\ orphaned' = TRUE /\ saved' = NothingSaved
  /\ UNCHANGED <<job, intact, blocked>>

Down ==
  /\ Goto("down") /\ job' = NoJob /\ intact' = TRUE /\ blocked' = FALSE
  /\ UNCHANGED <<saved, orphaned>>

ProcessExits == step # "down" /\ Down /\ Unchanged

PowerLoss ==
  /\ step # "down" /\ Down
  /\ view' \in disk
  /\ disk' = {view'}

Starts ==
  /\ step = "down"
  /\ Goto("recover") /\ job' = [NoJob EXCEPT !.cause = "startup"]
  /\ UNCHANGED <<view, disk, intact, blocked, saved, orphaned>>

Mutation ==
  \/ SavePassword \/ SaveInMemory \/ Logout \/ SaveSettings
  \/ MutateCredential \/ RetireBackup \/ WriteSettings \/ WriteBackup
  \/ Commit \/ Tidy

Recovery ==
  \/ Starts \/ Retry
  \/ RecoverNothing \/ RecoverUnreadable \/ RecoverTorn \/ RecoverMarker
  \/ RecoverSnapshots \/ RestoreSettings \/ RestoreBackup \/ RestoreCredential
  \/ DropJournal \/ Retreat \/ Forget \/ Clear \/ Isolate

Environment == LoadFromBackup \/ JournalVanishes \/ ProcessExits \/ PowerLoss

Next == Mutation \/ Recovery \/ Environment

Spec == Init /\ [][Next]_vars

-----------------------------------------------------------------------------
(* Properties.                                                             *)

\* A password may be presented for no account but the one it was saved with.
Matches(v) == v.credential # Absent => LoadedUser(v) = v.credential

\* Whenever the program may connect (no operation under way, not blocked), the
\* password it would present belongs to the account the settings name, whatever
\* failed, was lost or was interrupted before; only a journal that an outsider
\* took away and that nothing has replaced since is excused.
MatchingPair == step = "idle" /\ ~blocked /\ ~orphaned => Matches(view)

\* What a recovery makes of the files a power loss leaves.
Recovered(v) ==
  IF v.journal \in Snapshots THEN v.journal
  ELSE IF v.journal = Torn THEN [v EXCEPT !.credential = Absent] ELSE v

\* At every instant, whatever a power loss may leave is something that startup
\* recovery turns into a matching pair: the journal is durable before the first
\* file changes and stays until the last one is durable.  (With the types.)
CrashImagesRecover ==
  TypeOK /\ (~orphaned => \A v \in disk : Matches(Recovered(v)))

SavedIsStored ==
  LoadedUser(view) = saved.user /\ view.credential = saved.credential

\* A save whose commit marker is durable stays in force until the next save, or
\* until a recovery announces that it removed the password: no crash and no
\* later failed transaction rolls it back.
CommittedSaveSurvives ==
  step = "idle" /\ ~blocked /\ ~orphaned /\ saved.proven => SavedIsStored
=============================================================================
