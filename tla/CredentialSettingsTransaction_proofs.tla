----------------- MODULE CredentialSettingsTransaction_proofs -----------------
(* Proof that the credential-and-settings transaction is crash-safe, for any  *)
(* number of accounts and any number of changes that are not yet durable.     *)
(* The promises are about the files between operations; the invariant says,   *)
(* for every step of an operation, what its journal and its files hold.       *)
EXTENDS CredentialSettingsTransaction, TLAPS

\* Stronger than Matches: a credential never depends on the backup.
Paired(v) == v.credential # Absent => v.settings = v.credential

\* The files hold the pair the operation stores, or the pair last saved.
Wrote(v) == v.settings = job.user /\ v.credential = job.credential
Holds(v) == v.settings = saved.user /\ v.credential = saved.credential

\* The files a recovery ends with, unless it removes the password of a torn journal
Base(v) == IF v.journal \in Snapshots THEN v.journal ELSE v

SaveSteps == {"retire", "settings", "backup"}
RestoreSteps == {"restore settings", "restore backup", "restore credential", "drop journal"}

JobPaired == job.credential # Absent => job.user = job.credential

Saving == job.cause = "save" /\ step \in SaveSteps

Mutating == Journaled /\ step \in MutationSteps

\* No journal stands for files that are not those it would restore.
Settled ==
  /\ view.journal \notin Snapshots
  /\ view.journal = Torn => view.credential = Absent /\ ~saved.proven

-----------------------------------------------------------------------------
(* The invariant *)

\* What a power loss leaves recovers to a pair, and to the pair last saved.
ImagesRecover ==
  /\ view \in disk
  /\ ~orphaned => \A v \in disk : Paired(Recovered(v))
  /\ \A v \in disk : v.journal = Marker => Paired(v)
  /\ view.journal = Marker => \A v \in disk : Paired(v)
  /\ saved.proven => \A v \in disk : v.journal = Torn \/ Holds(Base(v))

\* A mutation has its journal, unless an outsider removed it, and has written
\* what the steps behind it write.
MutationWrites ==
  /\ step \in SaveSteps => job.cause \in {"mutation", "save"}
  /\ step \in {"credential", "commit"} => Journaled
  /\ Mutating =>
       \/ view.journal \in Snapshots
       \/ view.journal = Absent /\ orphaned /\ ~saved.proven
  /\ Mutating => JobPaired
  /\ Mutating /\ step # "credential" => view.credential = job.credential
  /\ Mutating /\ step \in {"backup", "commit"} => \A v \in disk : Wrote(v)
  /\ step = "recover" /\ job.cause = "commit" => JobPaired /\ \A v \in disk : Wrote(v)
  /\ step = "tidy" => view.journal = Marker /\ disk = {view}

\* A save without a journal leaves the pair as it is.
SaveKeepsPair ==
  Saving =>
    /\ Settled
    /\ view.credential = job.credential
    /\ ~orphaned \/ view.journal = Marker => JobPaired
    /\ saved.proven => job.user = saved.user

\* A recovery finds the journal its step is about, and restores from it.
RecoveryRestores ==
  /\ step \in RestoreSteps => view.journal \in Snapshots
  /\ step \in RestoreSteps \ {"restore settings"} /\ intact =>
       view.settings = view.journal.settings
  /\ step = "drop journal" /\ intact => view.credential = view.journal.credential
  /\ step = "retreat" => view.journal \in Snapshots \cup {Absent}
  /\ step = "clear" => view.journal \in {Absent, Torn}
  /\ step = "isolate" => view.journal = Torn /\ view.credential = Absent /\ ~saved.proven
  /\ step = "forget" => view.journal = Marker

IdleSettled == step = "idle" /\ ~blocked => Settled

IInv == ImagesRecover /\ MutationWrites /\ SaveKeepsPair /\ RecoveryRestores /\ IdleSettled

-----------------------------------------------------------------------------
(* One change of one file *)

Files == {"settings", "backup", "credential", "journal"}

LEMMA PutEffect ==
  ASSUME TypeOK, view \in disk, NEW f \in Files, NEW c,
         \/ PutDone(f, c) \/ PutFails(f, c) \/ Durably(f, c) \/ Visibly(f, c) \/ Unchanged
  PROVE  /\ view' = view \/ view' = [view EXCEPT ![f] = c]
         /\ disk' \subseteq disk \cup {view'} /\ view' \in disk'
BY DEF PutDone, PutFails, Durably, Visibly, Unchanged

LEMMA PutStores ==
  ASSUME TypeOK, NEW f \in Files, NEW c, PutDone(f, c) \/ Durably(f, c)
  PROVE  /\ view'[f] = c
         /\ c # Absent => disk' = {view'}
BY DEF PutDone, Durably, Unchanged, TypeOK, Views, Files

LEMMA PutType ==
  ASSUME TypeOK, view \in disk, NEW f \in Files, NEW c,
         \/ PutDone(f, c) \/ PutFails(f, c) \/ Durably(f, c) \/ Visibly(f, c) \/ Unchanged,
         f \in {"settings", "backup"} => c \in Documents,
         f = "credential" => c \in Credentials,
         f = "journal" => c \in Journals
  PROVE  view' \in Views /\ disk' \in SUBSET Views
<1>1. [view EXCEPT ![f] = c] \in Views
  BY DEF TypeOK, Views, Files
<1>. QED  BY <1>1, PutEffect DEF TypeOK

-----------------------------------------------------------------------------
(* Types *)

JobType == [cause : Causes, user : Users \cup {NoUser}, credential : Credentials]

LEMMA NoJobType == NoJob \in JobType /\ \A c \in Causes : [NoJob EXCEPT !.cause = c] \in JobType
BY DEF NoJob, JobType, Causes, Credentials

SavedType == [user : Users \cup {NoUser}, credential : Credentials, proven : BOOLEAN]

LEMMA SavedTypes ==
  ASSUME TypeOK
  PROVE  /\ NothingSaved \in SavedType
         /\ \A b \in BOOLEAN :
              [user |-> job.user, credential |-> job.credential, proven |-> b] \in SavedType
BY DEF TypeOK, NothingSaved, SavedType, Credentials

LEMMA MutationType ==
  ASSUME TypeOK, IInv, Mutation
  PROVE  TypeOK'
<1>0. /\ view \in Views /\ view \in disk /\ job \in JobType
      /\ view.settings \in Documents /\ view.backup \in Documents
      /\ view.credential \in Credentials /\ view.journal \in Journals
      /\ job.user \in Users \cup {NoUser} /\ job.credential \in Credentials
      /\ job.user \in Documents
  BY DEF TypeOK, Views, JobType, IInv, ImagesRecover, Documents
<1>1. ASSUME NEW u \in Users \cup {NoUser}, NEW c \in Credentials, Begin(u, c)
      PROVE  TypeOK'
  <2>1. Snapshot \in Snapshots
    BY <1>0 DEF Snapshot, Snapshots
  <2>2. view' \in Views /\ disk' \in SUBSET Views
    BY <1>0, <1>1, <2>1, PutType DEF Begin, Journals, Files
  <2>3. job' \in JobType
    BY <1>1 DEF Begin, JobType, Causes
  <2>. QED
    BY <1>1, <2>2, <2>3 DEF Begin, TypeOK, Goto, MutationSteps, RecoverySteps, JobType
<1>2. CASE SavePassword \/ SaveInMemory \/ Logout
  BY <1>1, <1>2 DEF SavePassword, SaveInMemory, Logout, Credentials
<1>3. CASE SaveSettings
  <2>1. LoadedUser(view) \in Users \cup {NoUser}
    BY <1>0 DEF LoadedUser, Documents
  <2>. QED
    BY <1>0, <1>3, <2>1 DEF SaveSettings, TypeOK, Goto, MutationSteps, Causes
<1>4. ASSUME Recovering("mutation")
      PROVE  /\ job' \in JobType /\ UNCHANGED <<intact, blocked, saved, orphaned>>
             /\ step' \in RecoverySteps
  BY <1>0, <1>4 DEF Recovering, Goto, RecoverySteps, JobType, Causes
<1>5. ASSUME NEW f \in Files \ {"journal"}, PutDone(f, job.user) \/ PutFails(f, job.user)
               \/ PutDone(f, Absent) \/ PutFails(f, Absent),
             f \in {"settings", "backup"}
      PROVE  view' \in Views /\ disk' \in SUBSET Views
  BY <1>0, <1>5, PutType DEF Documents
<1>6. ASSUME SaveThrows \/ Continue
      PROVE  /\ job' \in JobType /\ UNCHANGED <<intact, blocked, saved, orphaned>>
             /\ SaveThrows => step' \in RecoverySteps \cup {"idle"}
  BY <1>0, <1>4, <1>6, NoJobType DEF SaveThrows, Continue, Goto
<1>7. CASE MutateCredential
  <2>1. view' \in Views /\ disk' \in SUBSET Views
    BY <1>0, <1>7, PutType DEF MutateCredential, Files
  <2>. QED
    BY <1>4, <1>6, <1>7, <2>1 DEF MutateCredential, TypeOK, Goto, MutationSteps, JobType, Continue
<1>8. CASE RetireBackup
  <2>1. view' \in Views /\ disk' \in SUBSET Views
    BY <1>5, <1>8 DEF RetireBackup, Files
  <2>. QED
    BY <1>6, <1>8, <2>1 DEF RetireBackup, TypeOK, Goto, MutationSteps, JobType
<1>9. CASE WriteSettings
  <2>1. view' \in Views /\ disk' \in SUBSET Views
    BY <1>5, <1>9 DEF WriteSettings, Files
  <2>. QED
    BY <1>6, <1>9, <2>1 DEF WriteSettings, TypeOK, Goto, MutationSteps, JobType
<1>10. CASE WriteBackup
  <2>1. view' \in Views /\ disk' \in SUBSET Views
    BY <1>5, <1>10 DEF WriteBackup, Files
  <2>. QED
    BY <1>0, <1>10, <2>1, NoJobType DEF WriteBackup, TypeOK, Goto, MutationSteps, JobType
<1>11. CASE Commit
  <2>1. view' \in Views /\ disk' \in SUBSET Views
    BY <1>0, <1>11, PutType DEF Commit, Files, Journals
  <2>2. job' \in JobType
    BY <1>0, <1>11 DEF Commit, JobType, Causes
  <2>3. saved' \in SavedType
    <3>1. NothingSaved \in SavedType
      BY SavedTypes
    <3>2. [user |-> job.user, credential |-> job.credential, proven |-> TRUE] \in SavedType
      BY <1>0 DEF SavedType
    <3>. QED  BY <1>11, <3>1, <3>2 DEF Commit, TypeOK, SavedType
  <2>. QED
    BY <1>11, <2>1, <2>2, <2>3 DEF Commit, TypeOK, Goto, MutationSteps, RecoverySteps, JobType,
       SavedType
<1>12. CASE Tidy
  <2>1. view' \in Views /\ disk' \in SUBSET Views
    BY <1>0, <1>12, PutType DEF Tidy, Files, Journals
  <2>. QED
    BY <1>12, <2>1, NoJobType DEF Tidy, TypeOK, Goto, JobType
<1>. QED
  BY <1>2, <1>3, <1>7, <1>8, <1>9, <1>10, <1>11, <1>12 DEF Mutation

LEMMA EndsType ==
  ASSUME TypeOK, NEW status, Ends(status)
  PROVE  /\ step' = "idle" /\ job' \in JobType /\ intact' \in BOOLEAN /\ blocked' \in BOOLEAN
         /\ saved' \in SavedType /\ orphaned' \in BOOLEAN
<1>1. saved' \in SavedType
  BY SavedTypes DEF Ends, TypeOK, SavedType
<1>2. (orphaned /\ ~Explained(status)) \in BOOLEAN /\ (status = "blocked") \in BOOLEAN
  OBVIOUS
<1>. QED  BY <1>1, <1>2, NoJobType DEF Ends, Goto

LEMMA RecoveryType ==
  ASSUME TypeOK, IInv, Recovery
  PROVE  TypeOK'
<1>0. /\ view \in Views /\ view \in disk /\ job \in JobType
      /\ view.settings \in Documents /\ view.backup \in Documents
      /\ view.credential \in Credentials /\ view.journal \in Journals
      /\ Absent \in Credentials /\ Absent \in Journals
  BY DEF TypeOK, Views, JobType, IInv, ImagesRecover, Credentials, Journals
<1> USE DEF JobType, SavedType
<1>1. ASSUME Unchanged
      PROVE  view' \in Views /\ disk' \in SUBSET Views
  BY <1>1 DEF Unchanged, TypeOK
<1>2. CASE Starts \/ Retry
  BY <1>0, <1>2, NoJobType DEF Starts, Retry, TypeOK, Goto, RecoverySteps, Causes
<1>3. CASE RecoverNothing \/ RecoverUnreadable
  BY <1>1, <1>3, EndsType
    DEF RecoverNothing, RecoverUnreadable, TypeOK, Goto, RecoverySteps, Continue
<1>4. CASE RecoverTorn \/ RecoverMarker \/ RecoverSnapshots
  BY <1>1, <1>4
    DEF RecoverTorn, RecoverMarker, RecoverSnapshots, TypeOK, Goto, RecoverySteps, Continue
<1>5. CASE RestoreSettings \/ RestoreBackup \/ RestoreCredential
  <2>1. /\ view.journal.settings \in Documents /\ view.journal.backup \in Documents
        /\ view.journal.credential \in Credentials
    BY <1>5 DEF RestoreSettings, RestoreBackup, RestoreCredential, Restore, IInv,
                RecoveryRestores, RestoreSteps, Snapshots
  <2>2. view' \in Views /\ disk' \in SUBSET Views
    BY <1>0, <1>5, <2>1, PutType DEF RestoreSettings, RestoreBackup, RestoreCredential, Restore, Files
  <2>. QED
    BY <1>5, <2>2
      DEF RestoreSettings, RestoreBackup, RestoreCredential, Restore, TypeOK, Goto, RecoverySteps
<1>6. CASE DropJournal
  <2>1. view' \in Views /\ disk' \in SUBSET Views
    BY <1>0, <1>6, PutType DEF DropJournal, Files
  <2>. QED  BY <1>6, <2>1, EndsType DEF DropJournal, TypeOK, Goto, RecoverySteps, Continue
<1>7. CASE Retreat
  <2>1. view' \in Views /\ disk' \in SUBSET Views
    BY <1>0, <1>7, PutType DEF Retreat, Files
  <2>. QED  BY <1>7, <2>1, NoJobType, SavedTypes DEF Retreat, TypeOK, Goto
<1>8. CASE Forget \/ Isolate
  <2>1. view' \in Views /\ disk' \in SUBSET Views
    BY <1>0, <1>8, PutType DEF Forget, Isolate, Files
  <2>. QED  BY <1>8, <2>1, EndsType DEF Forget, Isolate, TypeOK
<1>9. CASE Clear
  <2>1. view' \in Views /\ disk' \in SUBSET Views
    BY <1>0, <1>9, PutType DEF Clear, Files
  <2>2. orphaned' \in BOOLEAN
    <3>1. (orphaned /\ ~Explained("cleared")) \in BOOLEAN
      OBVIOUS
    <3>. QED  BY <1>9, <3>1 DEF Clear, TypeOK
  <2>. QED  BY <1>9, <2>1, <2>2, NoJobType, SavedTypes DEF Clear, TypeOK, Goto, RecoverySteps
<1>. QED
  BY <1>2, <1>3, <1>4, <1>5, <1>6, <1>7, <1>8, <1>9 DEF Recovery

LEMMA EnvironmentType ==
  ASSUME TypeOK, IInv, Environment
  PROVE  TypeOK'
<1>0. /\ view \in Views /\ view \in disk /\ disk \subseteq Views
      /\ view.backup \in Documents /\ Absent \in Journals
  BY DEF TypeOK, Views, IInv, ImagesRecover, Journals
<1> USE DEF JobType
<1>1. CASE LoadFromBackup
  <2>1. view' \in Views /\ disk' \in SUBSET Views
    BY <1>0, <1>1, PutType DEF LoadFromBackup, Files
  <2>. QED  BY <1>1, <2>1 DEF LoadFromBackup, TypeOK
<1>2. CASE JournalVanishes
  <2>1. view' \in Views /\ disk' \in SUBSET Views
    BY <1>0, <1>2, PutType DEF JournalVanishes, Files
  <2>. QED
    BY <1>2, <2>1, SavedTypes DEF JournalVanishes, TypeOK, SavedType, Goto, RecoverySteps
<1>3. CASE ProcessExits \/ PowerLoss
  <2>1. view' \in Views /\ disk' \in SUBSET Views
    BY <1>0, <1>3 DEF ProcessExits, PowerLoss, Unchanged
  <2>. QED  BY <1>3, <2>1, NoJobType DEF ProcessExits, PowerLoss, Down, TypeOK, Goto
<1>. QED  BY <1>1, <1>2, <1>3 DEF Environment

LEMMA TypeStep ==
  ASSUME TypeOK, IInv, [Next]_vars
  PROVE  TypeOK'
<1>1. CASE UNCHANGED vars
  BY <1>1 DEF vars, TypeOK
<1>. QED  BY <1>1, MutationType, RecoveryType, EnvironmentType DEF Next

-----------------------------------------------------------------------------
(* The invariant, action by action *)

\* A step adds at most one image, the new view: what the images recover to
\* follows from what that one recovers to.
LEMMA ImagesStep ==
  ASSUME IInv, view' \in disk', disk' \subseteq disk \cup {view'},
         ~orphaned' => Paired(Recovered(view')),
         orphaned /\ ~orphaned' => \A v \in disk' : Paired(Recovered(v)),
         view'.journal = Marker => \A v \in disk' : Paired(v),
         saved'.proven =>
           /\ saved.proven /\ saved' = saved
           /\ view'.journal = Torn \/ Holds(Base(view'))
  PROVE  ImagesRecover'
<1>1. (~orphaned => \A v \in disk : Paired(Recovered(v)))'
  BY DEF IInv, ImagesRecover
<1>2. (\A v \in disk : v.journal = Marker => Paired(v))'
  BY DEF IInv, ImagesRecover
<1>3. (saved.proven => \A v \in disk : v.journal = Torn \/ Holds(Base(v)))'
  BY DEF IInv, ImagesRecover, Holds
<1>. QED  BY <1>1, <1>2, <1>3 DEF ImagesRecover

\* A step that touches no file and no history keeps what the images say.
LEMMA ImagesKept ==
  ASSUME IInv, UNCHANGED <<view, disk, saved, orphaned>>
  PROVE  ImagesRecover'
BY DEF IInv, ImagesRecover, Holds

LEMMA PutFields ==
  ASSUME TypeOK, IInv, NEW f \in Files, NEW c,
         \/ PutDone(f, c) \/ PutFails(f, c) \/ Durably(f, c) \/ Visibly(f, c) \/ Unchanged
  PROVE  /\ view' \in disk' /\ disk' \subseteq disk \cup {view'}
         /\ f # "settings" => view'.settings = view.settings
         /\ f # "backup" => view'.backup = view.backup
         /\ f # "credential" => view'.credential = view.credential
         /\ f # "journal" => view'.journal = view.journal
         /\ f = "settings" => view'.settings \in {view.settings, c}
         /\ f = "credential" => view'.credential \in {view.credential, c}
         /\ f = "journal" => view'.journal \in {view.journal, c}
<1>1. view \in disk /\ view \in Views
  BY DEF IInv, ImagesRecover, TypeOK
<1>. QED  BY <1>1, PutEffect DEF Views, Files

\* While a rollback journal stands, a change of another file changes nothing.
LEMMA BehindJournal ==
  ASSUME TypeOK, IInv, view' \in disk', disk' \subseteq disk \cup {view'},
         view.journal \in Snapshots, view'.journal = view.journal,
         UNCHANGED orphaned,
         saved' = saved \/ ~saved'.proven
  PROVE  ImagesRecover'
<1>1. view'.journal # Marker /\ view.journal # Torn
  BY JournalAssumption
<1>2. Recovered(view') = Recovered(view) /\ Base(view') = Base(view)
  BY DEF Recovered, Base
<1>3. /\ ~orphaned => Paired(Recovered(view))
      /\ saved.proven => Holds(Base(view))
  BY <1>1 DEF IInv, ImagesRecover
<1>. QED  BY <1>1, <1>2, <1>3, ImagesStep

\* What an image recovers to, by what its journal holds.
LEMMA RecoveredIs ==
  ASSUME NEW v
  PROVE  /\ v.journal \in Snapshots => Recovered(v) = v.journal /\ Base(v) = v.journal
         /\ v.journal \notin Snapshots => Base(v) = v
         /\ v \in Views /\ v.journal \notin Snapshots =>
              (Paired(Recovered(v)) <=> v.journal = Torn \/ Paired(v))
BY DEF Recovered, Base, Paired, Views

LEMMA Facts ==
  ASSUME TypeOK, IInv
  PROVE  /\ view \in Views /\ view \in disk
         /\ job.user # Absent /\ saved.user # Absent
         /\ Marker # Absent /\ Torn # Absent /\ Torn # Marker
         /\ Absent \notin Snapshots /\ Torn \notin Snapshots /\ Marker \notin Snapshots
         /\ ~orphaned => Paired(Recovered(view))
         /\ view.journal = Marker => \A v \in disk : Paired(v)
         /\ saved.proven => view.journal = Torn \/ Holds(Base(view))
BY UsersAssumption, JournalAssumption DEF TypeOK, IInv, ImagesRecover

LEMMA BeginStep ==
  ASSUME TypeOK, TypeOK', IInv, NEW u, NEW c, c # Absent => u = c, Begin(u, c)
  PROVE  IInv'
<1>. USE Facts
<1>1. Settled /\ view' \in Views
  BY DEF IInv, IdleSettled, Begin, TypeOK
<1>2. /\ view' \in disk' /\ disk' \subseteq disk \cup {view'}
      /\ view'.settings = view.settings /\ view'.credential = view.credential
      /\ \/ view'.journal = view.journal
         \/ view.journal = Absent /\ view'.journal \in {Torn, Snapshot}
      /\ step' = "credential" => view'.journal = Snapshot
  <2>1. ASSUME NEW j \in {Torn, Snapshot}, Visibly("journal", j) \/ Durably("journal", j)
        PROVE  /\ view' \in disk' /\ disk' \subseteq disk \cup {view'}
               /\ view'.settings = view.settings /\ view'.credential = view.credential
               /\ view'.journal \in {view.journal, j}
    BY <2>1, PutFields DEF Files
  <2>2. Durably("journal", Snapshot) => view'.journal = Snapshot
    BY PutStores DEF Files
  <2>. QED  BY <2>1, <2>2 DEF Begin, Goto, Unchanged
<1>3. /\ Snapshot \in Snapshots /\ Snapshot.settings = view.settings
      /\ Snapshot.credential = view.credential
  BY DEF Snapshot, Snapshots, Views
<1>4. UNCHANGED <<saved, orphaned>>
  BY DEF Begin
<1>5. ImagesRecover'
  <2>1. CASE view'.journal = view.journal
    <3>1. ~orphaned' => Paired(Recovered(view'))
      BY <1>1, <1>2, <1>4, <2>1, RecoveredIs DEF Settled, Paired
    <3>2. view'.journal = Marker => \A v \in disk' : Paired(v)
      BY <1>2, <2>1 DEF Paired
    <3>3. saved'.proven => view'.journal = Torn \/ Holds(Base(view'))
      BY <1>1, <1>2, <1>4, <2>1, RecoveredIs DEF Settled, Holds
    <3>. QED  BY <1>2, <1>4, <3>1, <3>2, <3>3, ImagesStep
  <2>2. CASE view'.journal # view.journal
    <3>1. ~orphaned' => Paired(Recovered(view'))
      BY <1>1, <1>2, <1>3, <1>4, <2>2, RecoveredIs DEF Paired
    <3>2. saved'.proven => view'.journal = Torn \/ Holds(Base(view'))
      BY <1>1, <1>2, <1>3, <1>4, <2>2, RecoveredIs DEF Holds
    <3>. QED  BY <1>2, <1>3, <1>4, <2>2, <3>1, <3>2, ImagesStep
  <2>. QED  BY <2>1, <2>2
<1>6. /\ step' \in {"credential", "recover"}
      /\ step' = "credential" => job' = [cause |-> "mutation", user |-> u, credential |-> c]
      /\ step' = "recover" => job' = [cause |-> "begin", user |-> u, credential |-> c]
  BY DEF Begin, Goto
<1>7. MutationWrites'
  BY <1>2, <1>3, <1>6 DEF MutationWrites, Mutating, Journaled, MutationSteps, SaveSteps, JobPaired
<1>. QED
  BY <1>5, <1>6, <1>7
    DEF IInv, SaveKeepsPair, Saving, SaveSteps, RecoveryRestores, RestoreSteps, IdleSettled

LEMMA SaveSettingsStep ==
  ASSUME TypeOK, IInv, SaveSettings
  PROVE  IInv'
<1>. USE Facts DEF SaveSettings, Goto
<1>1. Settled
  BY DEF IInv, IdleSettled
<1>2. ImagesRecover'
  BY ImagesKept
<1>3. ~orphaned \/ view.journal = Marker => (view.credential # Absent => LoadedUser(view) = view.credential)
  BY <1>1, RecoveredIs DEF Settled, Paired, LoadedUser
<1>4. saved.proven => LoadedUser(view) = saved.user
  BY <1>1, RecoveredIs DEF Settled, Holds, LoadedUser
<1>5. SaveKeepsPair'
  BY <1>1, <1>3, <1>4 DEF SaveKeepsPair, Saving, JobPaired, Settled
<1>. QED
  BY <1>2, <1>5
    DEF IInv, MutationWrites, Mutating, Journaled, SaveSteps, RecoveryRestores, RestoreSteps, IdleSettled

LEMMA MutatingImages ==
  ASSUME TypeOK, IInv, Mutating, view' \in disk', disk' \subseteq disk \cup {view'},
         view'.journal = view.journal, UNCHANGED <<saved, orphaned>>
  PROVE  ImagesRecover'
<1>1. CASE view.journal \in Snapshots
  BY <1>1, BehindJournal
<1>2. CASE view.journal = Absent /\ orphaned /\ ~saved.proven
  BY <1>2, Facts, ImagesStep
<1>. QED  BY <1>1, <1>2 DEF IInv, MutationWrites

\* A save without a journal never changes what the files recover to.
LEMMA SavingImages ==
  ASSUME TypeOK, TypeOK', IInv, Saving, view' \in disk', disk' \subseteq disk \cup {view'},
         view'.journal = view.journal, view'.credential = view.credential,
         view'.settings \in {view.settings, job.user}, UNCHANGED <<saved, orphaned>>
  PROVE  ImagesRecover' /\ Settled'
<1>. USE Facts
<1>1. /\ Settled /\ view' \in Views
      /\ view.credential = job.credential
      /\ ~orphaned \/ view.journal = Marker => JobPaired
      /\ saved.proven => job.user = saved.user
  BY DEF IInv, SaveKeepsPair, TypeOK
<1>2. ~orphaned' => Paired(Recovered(view'))
  BY <1>1, RecoveredIs DEF Settled, Paired, JobPaired
<1>3. view'.journal = Marker => \A v \in disk' : Paired(v)
  BY <1>1 DEF Paired, JobPaired
<1>4. saved'.proven => view'.journal = Torn \/ Holds(Base(view'))
  BY <1>1, RecoveredIs DEF Settled, Holds
<1>. QED  BY <1>1, <1>2, <1>3, <1>4, ImagesStep DEF Settled

LEMMA MutateCredentialStep ==
  ASSUME TypeOK, IInv, MutateCredential
  PROVE  IInv'
<1>1. /\ Mutating /\ JobPaired /\ job.cause = "mutation"
      /\ \/ view.journal \in Snapshots
         \/ view.journal = Absent /\ orphaned /\ ~saved.proven
  BY DEF IInv, MutationWrites, MutateCredential, Mutating, Journaled, MutationSteps
<1>2. /\ view' \in disk' /\ disk' \subseteq disk \cup {view'}
      /\ view'.journal = view.journal
  BY PutFields DEF MutateCredential, Files
<1>3. /\ UNCHANGED <<saved, orphaned>>
      /\ step' = "retire" => UNCHANGED job /\ view'.credential = job.credential
      /\ step' = "recover" => job'.cause # "commit"
      /\ step' \in {"retire", "recover"}
  BY PutStores, <1>1 DEF MutateCredential, Continue, Recovering, Goto, Files, TypeOK
<1>4. ImagesRecover'
  BY <1>1, <1>2, <1>3, MutatingImages
<1>5. MutationWrites'
  BY <1>1, <1>2, <1>3 DEF MutationWrites, Mutating, Journaled, MutationSteps, SaveSteps, JobPaired
<1>6. (~Saving)'
  BY <1>1, <1>3 DEF Saving, SaveSteps
<1>. QED
  BY <1>3, <1>4, <1>5, <1>6 DEF IInv, SaveKeepsPair, RecoveryRestores, RestoreSteps, IdleSettled

\* The steps of a save, with a journal and without one.
LEMMA SaveStep ==
  ASSUME TypeOK, TypeOK', IInv, step \in SaveSteps,
         view' \in disk', disk' \subseteq disk \cup {view'},
         view'.journal = view.journal, view'.credential = view.credential,
         view'.settings \in {view.settings, job.user},
         UNCHANGED <<saved, orphaned>>,
         \/ UNCHANGED job /\ step' \in {"settings", "backup", "commit"}
         \/ Journaled /\ step' = "recover" /\ job' = [job EXCEPT !.cause = "mutation"]
         \/ ~Journaled /\ step' = "idle" /\ job' = NoJob,
         step' \in {"backup", "commit"} /\ Journaled => \A v \in disk' : Wrote(v),
         step' = "commit" => Journaled
  PROVE  IInv'
<1>. USE Facts
<1>1. job.cause \in {"mutation", "save"} /\ (Mutating \/ Saving)
  BY DEF IInv, MutationWrites, Mutating, Saving, Journaled, SaveSteps, MutationSteps
<1>2. CASE Mutating
  <2>1. /\ JobPaired /\ job.cause = "mutation" /\ view.credential = job.credential
        /\ \/ view.journal \in Snapshots
           \/ view.journal = Absent /\ orphaned /\ ~saved.proven
    BY <1>2 DEF IInv, MutationWrites, Mutating, Journaled, SaveSteps
  <2>2. ImagesRecover'
    BY <1>2, MutatingImages
  <2>3. \/ UNCHANGED job /\ step' \in {"settings", "backup", "commit"}
        \/ step' = "recover" /\ job'.cause = "mutation"
    BY <2>1 DEF Journaled, TypeOK
  <2>4. step' \in {"backup", "commit"} => (\A v \in disk : Wrote(v))'
    BY <2>1, <2>3 DEF Wrote, Journaled
  <2>5. MutationWrites'
    BY <2>1, <2>3, <2>4 DEF MutationWrites, Mutating, Journaled, MutationSteps, SaveSteps, JobPaired
  <2>6. (~Saving)'
    BY <2>1, <2>3 DEF Saving, SaveSteps
  <2>. QED
    BY <2>2, <2>3, <2>5, <2>6 DEF IInv, SaveKeepsPair, RecoveryRestores, RestoreSteps, IdleSettled
<1>3. CASE Saving
  <2>1. ImagesRecover' /\ Settled'
    BY <1>3, SavingImages
  <2>2. job.cause = "save" /\ ~Journaled /\ step' # "commit"
    BY <1>3 DEF Saving, Journaled
  <2>3. \/ UNCHANGED job /\ step' \in {"settings", "backup"}
        \/ step' = "idle" /\ job' = NoJob
    BY <2>2
  <2>4. SaveKeepsPair'
    BY <1>3, <2>1, <2>3 DEF IInv, SaveKeepsPair, Saving, SaveSteps, JobPaired
  <2>5. MutationWrites'
    BY <2>2, <2>3 DEF MutationWrites, Mutating, Journaled, MutationSteps, SaveSteps, NoJob
  <2>. QED
    BY <2>1, <2>3, <2>4, <2>5 DEF IInv, RecoveryRestores, RestoreSteps, IdleSettled
<1>. QED  BY <1>1, <1>2, <1>3

LEMMA RetireBackupStep ==
  ASSUME TypeOK, TypeOK', IInv, RetireBackup
  PROVE  IInv'
<1>1. /\ view' \in disk' /\ disk' \subseteq disk \cup {view'}
      /\ view'.settings = view.settings /\ view'.credential = view.credential
      /\ view'.journal = view.journal
  BY PutFields DEF RetireBackup, Files
<1>2. /\ step \in SaveSteps /\ UNCHANGED <<saved, orphaned>>
      /\ \/ UNCHANGED job /\ step' = "settings"
         \/ Journaled /\ step' = "recover" /\ job' = [job EXCEPT !.cause = "mutation"]
         \/ ~Journaled /\ step' = "idle" /\ job' = NoJob
  BY DEF RetireBackup, Goto, Continue, SaveThrows, Recovering, SaveSteps
<1>. QED  BY <1>1, <1>2, SaveStep

LEMMA WriteSettingsStep ==
  ASSUME TypeOK, TypeOK', IInv, WriteSettings
  PROVE  IInv'
<1>1. /\ view' \in disk' /\ disk' \subseteq disk \cup {view'}
      /\ view'.settings \in {view.settings, job.user} /\ view'.credential = view.credential
      /\ view'.journal = view.journal
  BY PutFields DEF WriteSettings, Files
<1>2. /\ step \in SaveSteps /\ UNCHANGED <<saved, orphaned>>
      /\ \/ UNCHANGED job /\ step' = "backup"
         \/ Journaled /\ step' = "recover" /\ job' = [job EXCEPT !.cause = "mutation"]
         \/ ~Journaled /\ step' = "idle" /\ job' = NoJob
  BY DEF WriteSettings, Goto, Continue, SaveThrows, Recovering, SaveSteps
<1>3. step' = "backup" => view'.settings = job.user /\ disk' = {view'}
  BY Facts, PutStores DEF WriteSettings, SaveThrows, Recovering, Goto, Files
<1>4. Journaled => view.credential = job.credential
  BY DEF IInv, MutationWrites, Mutating, MutationSteps, WriteSettings
<1>. QED  BY <1>1, <1>2, <1>3, <1>4, SaveStep DEF Wrote

LEMMA WriteBackupStep ==
  ASSUME TypeOK, TypeOK', IInv, WriteBackup
  PROVE  IInv'
<1>1. /\ view' \in disk' /\ disk' \subseteq disk \cup {view'}
      /\ view'.settings = view.settings /\ view'.credential = view.credential
      /\ view'.journal = view.journal
  BY PutFields DEF WriteBackup, Files
<1>2. /\ step \in SaveSteps /\ UNCHANGED <<saved, orphaned>>
      /\ \/ Journaled /\ UNCHANGED job /\ step' = "commit"
         \/ ~Journaled /\ step' = "idle" /\ job' = NoJob
  BY DEF WriteBackup, Goto, SaveSteps
<1>3. Journaled => \A v \in disk : Wrote(v)
  BY DEF IInv, MutationWrites, Mutating, MutationSteps, WriteBackup
<1>4. Journaled => \A v \in disk' : Wrote(v)
  BY <1>1, <1>3, Facts DEF Wrote
<1>. QED  BY <1>1, <1>2, <1>4, SaveStep

LEMMA CommitStep ==
  ASSUME TypeOK, TypeOK', IInv, Commit
  PROVE  IInv'
<1>. USE Facts
<1>1. /\ Mutating /\ JobPaired /\ job.cause = "mutation"
      /\ \A v \in disk : Wrote(v)
  BY DEF IInv, MutationWrites, Commit, Mutating, Journaled, MutationSteps
<1>2. /\ view' \in disk' /\ disk' \subseteq disk \cup {view'}
      /\ view'.settings = view.settings /\ view'.credential = view.credential
      /\ view'.journal \in {view.journal, Marker}
  BY PutFields DEF Commit, Files
<1>3. \A v \in disk' : Wrote(v) /\ Paired(v)
  BY <1>1, <1>2 DEF Wrote, JobPaired, Paired
<1>4. /\ job'.user = job.user /\ job'.credential = job.credential
      /\ UNCHANGED orphaned
      /\ \/ /\ step' = "tidy" /\ job' = job
            /\ view'.journal = Marker /\ disk' = {view'}
            /\ saved' = [user |-> job.user, credential |-> job.credential, proven |-> TRUE]
         \/ /\ step' = "recover" /\ job'.cause = "commit"
            /\ saved' = IF view'.journal = Marker THEN NothingSaved ELSE saved
  BY PutStores DEF Commit, Goto, Files, TypeOK
<1>5. ImagesRecover'
  <2>1. CASE view'.journal = view.journal /\ view'.journal # Marker
    BY <1>1, <1>2, <1>4, <2>1, MutatingImages
  <2>2. CASE view'.journal = Marker
    <3>1. Recovered(view') = view' /\ Base(view') = view'
      BY <2>2 DEF Recovered, Base
    <3>2. (~orphaned => \A v \in disk : Paired(Recovered(v)))'
      BY <1>2, <1>3, <1>4, <3>1 DEF IInv, ImagesRecover
    <3>3. (saved.proven => \A v \in disk : v.journal = Torn \/ Holds(Base(v)))'
      <4>1. saved'.proven => disk' = {view'} /\ Holds(view)'
        BY <1>3, <1>4, <2>2 DEF Wrote, Holds, NothingSaved
      <4>. QED  BY <3>1, <4>1
    <3>. QED  BY <1>2, <1>3, <3>2, <3>3 DEF ImagesRecover
  <2>. QED  BY <1>2, <2>1, <2>2
<1>6. (\A v \in disk : Wrote(v))' /\ JobPaired'
  BY <1>1, <1>3, <1>4 DEF Wrote, JobPaired
<1>7. MutationWrites'
  BY <1>4, <1>6 DEF MutationWrites, Mutating, MutationSteps, SaveSteps
<1>. QED
  BY <1>4, <1>5, <1>7
    DEF IInv, SaveKeepsPair, Saving, SaveSteps, RecoveryRestores, RestoreSteps, IdleSettled

LEMMA TidyStep ==
  ASSUME TypeOK, TypeOK', IInv, Tidy
  PROVE  IInv'
<1>. USE Facts
<1>1. view.journal = Marker /\ disk = {view} /\ Paired(view)
  BY DEF IInv, MutationWrites, Tidy
<1>2. /\ view' \in disk' /\ disk' \subseteq disk \cup {view'}
      /\ view'.settings = view.settings /\ view'.credential = view.credential
      /\ view'.journal \in {Marker, Absent}
  BY <1>1, PutFields DEF Tidy, Files
<1>3. \A v \in disk' : Paired(v) /\ Recovered(v) = v /\ Base(v) = v
  BY <1>1, <1>2 DEF Paired, Recovered, Base
<1>4. UNCHANGED saved /\ step' = "idle" /\ job' = NoJob
  BY DEF Tidy, Goto
<1>5. saved.proven => Holds(Base(view'))
  BY <1>1, <1>2, <1>3, RecoveredIs DEF Holds
<1>6. ImagesRecover'
  BY <1>2, <1>3, <1>4, <1>5, ImagesStep
<1>. QED
  BY <1>2, <1>4, <1>6
    DEF IInv, MutationWrites, Mutating, MutationSteps, SaveKeepsPair, Saving, SaveSteps,
        RecoveryRestores, RestoreSteps, IdleSettled, Settled

\* A recovery that ends leaves the files settled, or blocked; it clears the
\* orphan mark only when every image recovers to a pair.
LEMMA EndsStep ==
  ASSUME TypeOK, TypeOK', IInv, NEW status, Ends(status),
         view' \in disk', disk' \subseteq disk \cup {view'},
         ~orphaned => Paired(Recovered(view')),
         view'.journal = Marker => \A v \in disk' : Paired(v),
         saved.proven => view'.journal = Torn \/ Holds(Base(view')),
         \/ status = "blocked"
         \/ /\ view'.journal \notin Snapshots
            /\ view'.journal = Torn => view'.credential = Absent /\ ~saved.proven,
         \/ status = "committed" /\ view.journal = Marker /\ Paired(view')
         \/ status = "none" /\ job.cause # "mutation" /\ view' = view /\ step = "recover"
         \/ status \in {"blocked", "recovered", "cleared"}
  PROVE  IInv'
<1>. USE Facts
<1>1. /\ step' = "idle" /\ job' = NoJob /\ blocked' = (status = "blocked")
      /\ orphaned' = (orphaned /\ ~Explained(status))
      /\ saved' = saved \/ ~saved'.proven
  BY DEF Ends, Goto
<1>2. ASSUME Explained(status)
      PROVE  \A v \in disk' : Paired(Recovered(v))
  <2>0. disk' \subseteq Views /\ \A v \in disk' : v.journal \notin Snapshots
    BY <1>2 DEF TypeOK, Explained
  <2>1. CASE status = "committed"
    <3>1. \A v \in disk' : Paired(v)
      BY <2>1
    <3>. QED  BY <2>0, <3>1, RecoveredIs
  <2>2. CASE status = "none" /\ job.cause = "commit"
    <3>1. JobPaired /\ \A v \in disk : Wrote(v)
      BY <2>2 DEF IInv, MutationWrites
    <3>2. \A v \in disk' : Paired(v)
      BY <2>2, <3>1 DEF Wrote, JobPaired, Paired
    <3>. QED  BY <2>0, <3>2, RecoveredIs
  <2>3. CASE \A v \in disk' : v.credential = Absent
    BY <2>0, <2>3, RecoveredIs DEF Paired
  <2>. QED  BY <1>2, <2>1, <2>2, <2>3 DEF Explained
<1>3. ImagesRecover'
  <2>1. CASE orphaned'
    BY <1>1, <2>1, ImagesStep
  <2>2. CASE ~orphaned'
    <3>1. orphaned => \A v \in disk' : Paired(Recovered(v))
      BY <1>1, <1>2, <2>2
    <3>2. Paired(Recovered(view'))
      BY <3>1
    <3>. QED  BY <1>1, <3>1, <3>2, ImagesStep
  <2>. QED  BY <2>1, <2>2
<1>4. (step = "idle" /\ ~blocked => Settled)'
  BY <1>1 DEF Settled
<1>. QED
  BY <1>1, <1>3, <1>4
    DEF IInv, MutationWrites, Mutating, MutationSteps, SaveKeepsPair, Saving, SaveSteps,
        RecoveryRestores, RestoreSteps, IdleSettled

\* A recovery step that only moves on, with the files as they are.
LEMMA MovesOn ==
  ASSUME TypeOK, IInv, UNCHANGED <<view, disk, intact, saved, orphaned>>,
         \/ step' = "recover" /\ job'.cause \in {"startup", "retry"}
         \/ step' = "clear" /\ view.journal \in {Absent, Torn}
         \/ step' = "forget" /\ view.journal = Marker
         \/ step' = "restore settings" /\ view.journal \in Snapshots
  PROVE  IInv'
<1>1. ImagesRecover'
  BY ImagesKept
<1>. QED
  BY <1>1
    DEF IInv, MutationWrites, Mutating, MutationSteps, SaveKeepsPair, Saving, SaveSteps,
        RecoveryRestores, RestoreSteps, IdleSettled

LEMMA RecoverStep ==
  ASSUME TypeOK, TypeOK', IInv,
         \/ Starts \/ Retry \/ RecoverNothing \/ RecoverUnreadable
         \/ RecoverTorn \/ RecoverMarker \/ RecoverSnapshots
  PROVE  IInv'
<1>1. CASE Starts \/ Retry
  BY <1>1, MovesOn DEF Starts, Retry, NoJob, Goto
<1>2. CASE RecoverTorn \/ RecoverMarker \/ RecoverSnapshots
  BY <1>2, MovesOn DEF RecoverTorn, RecoverMarker, RecoverSnapshots, Unchanged, Goto, Continue
<1>3. CASE RecoverNothing /\ job.cause = "mutation"
  BY <1>3, MovesOn DEF RecoverNothing, Unchanged, Goto, Continue
<1>4. CASE RecoverNothing /\ job.cause # "mutation"
  BY <1>4, Facts, EndsStep DEF RecoverNothing, Unchanged
<1>5. CASE RecoverUnreadable
  BY <1>5, Facts, EndsStep DEF RecoverUnreadable, Unchanged
<1>. QED  BY <1>1, <1>2, <1>3, <1>4, <1>5

LEMMA RestoreStep ==
  ASSUME TypeOK, IInv, RestoreSettings \/ RestoreBackup \/ RestoreCredential
  PROVE  IInv'
<1>. USE DEF RestoreSettings, RestoreBackup, RestoreCredential, Restore, Goto
<1>1. view.journal \in Snapshots
  BY DEF IInv, RecoveryRestores, RestoreSteps
<1>2. /\ view' \in disk' /\ disk' \subseteq disk \cup {view'}
      /\ view'.journal = view.journal
      /\ ~RestoreSettings => view'.settings = view.settings
  BY PutFields DEF Files
<1>3. ImagesRecover'
  BY <1>1, <1>2, BehindJournal
<1>4. /\ RestoreSettings /\ intact' => view'.settings = view.journal.settings
      /\ RestoreCredential /\ intact' => view'.credential = view.journal.credential
  BY PutStores DEF Files
<1>5. intact' => intact
  <2>1. ASSUME NEW here, NEW f, NEW content, NEW next, Restore(here, f, content, next)
        PROVE  intact' => intact
    BY <2>1
  <2>. QED  BY <2>1
<1>6. \/ RestoreSettings /\ step' = "restore backup"
      \/ RestoreBackup /\ step' = "restore credential" /\ step = "restore backup"
      \/ RestoreCredential /\ step' = "drop journal" /\ step = "restore credential"
  OBVIOUS
<1>7. RecoveryRestores'
  BY <1>1, <1>2, <1>4, <1>5, <1>6 DEF IInv, RecoveryRestores, RestoreSteps
<1>. QED
  BY <1>3, <1>6, <1>7
    DEF IInv, MutationWrites, Mutating, MutationSteps, SaveKeepsPair, Saving, SaveSteps, IdleSettled

LEMMA DropJournalStep ==
  ASSUME TypeOK, TypeOK', IInv, DropJournal
  PROVE  IInv'
<1>. USE Facts DEF DropJournal, Goto
<1>1. /\ view.journal \in Snapshots
      /\ intact => /\ view.settings = view.journal.settings
                   /\ view.credential = view.journal.credential
  BY DEF IInv, RecoveryRestores, RestoreSteps
<1>2. /\ view' \in disk' /\ disk' \subseteq disk \cup {view'}
      /\ view'.settings = view.settings /\ view'.credential = view.credential
      /\ view'.journal \in {view.journal, Absent}
      /\ view' = view \/ intact
  BY PutFields DEF Files, Unchanged
<1>3. ~orphaned => Paired(Recovered(view'))
  BY <1>1, <1>2, RecoveredIs DEF Paired, TypeOK
<1>4. saved.proven => view'.journal = Torn \/ Holds(Base(view'))
  BY <1>1, <1>2, RecoveredIs DEF Holds
<1>5. view'.journal \notin {Marker, Torn}
  BY <1>1, <1>2
<1>6. CASE PutDone("journal", Absent) /\ Ends("recovered")
  <2>1. view'.journal = Absent
    BY <1>6, PutStores DEF Files
  <2>. QED  BY <1>2, <1>3, <1>4, <1>6, <2>1, EndsStep
<1>7. CASE step' = "retreat" /\ Continue
  <2>1. ImagesRecover'
    BY <1>2, <1>3, <1>4, <1>5, <1>7, ImagesStep DEF Continue
  <2>. QED
    BY <1>1, <1>2, <1>7, <2>1
      DEF IInv, MutationWrites, Mutating, MutationSteps, SaveKeepsPair, Saving, SaveSteps,
          RecoveryRestores, RestoreSteps, IdleSettled
<1>. QED  BY <1>6, <1>7

LEMMA RetreatStep ==
  ASSUME TypeOK, TypeOK', IInv, Retreat
  PROVE  IInv'
<1>. USE Facts DEF Retreat, Goto
<1>1. view.journal \in Snapshots \cup {Absent}
  BY DEF IInv, RecoveryRestores
<1>2. /\ view' \in disk' /\ disk' \subseteq disk \cup {view'}
      /\ view'.settings = view.settings /\ view'.credential \in {view.credential, Absent}
      /\ view'.journal = view.journal
  BY PutFields DEF Files
<1>3. ~orphaned' => Paired(Recovered(view'))
  BY <1>1, <1>2, RecoveredIs DEF Paired, TypeOK
<1>4. ImagesRecover'
  BY <1>1, <1>2, <1>3, ImagesStep DEF NothingSaved
<1>. QED
  BY <1>4
    DEF IInv, MutationWrites, Mutating, MutationSteps, SaveKeepsPair, Saving, SaveSteps,
        RecoveryRestores, RestoreSteps, IdleSettled

LEMMA ForgetStep ==
  ASSUME TypeOK, TypeOK', IInv, Forget
  PROVE  IInv'
<1>. USE Facts DEF Forget
<1>1. view.journal = Marker /\ \A v \in disk : Paired(v)
  BY DEF IInv, RecoveryRestores
<1>2. /\ view' \in disk' /\ disk' \subseteq disk \cup {view'}
      /\ view'.settings = view.settings /\ view'.credential = view.credential
      /\ view'.journal \in {Marker, Absent}
  BY <1>1, PutFields DEF Files
<1>3. Paired(view') /\ \A v \in disk' : Paired(v)
  BY <1>1, <1>2 DEF Paired
<1>4. Recovered(view') = view' /\ Base(view') = view'
  BY <1>2 DEF Recovered, Base
<1>5. saved.proven => Holds(view')
  BY <1>1, <1>2, RecoveredIs DEF Holds
<1>. QED  BY <1>1, <1>2, <1>3, <1>4, <1>5, EndsStep

LEMMA ClearStep ==
  ASSUME TypeOK, TypeOK', IInv, Clear
  PROVE  IInv'
<1>. USE Facts DEF Clear, Goto
<1>1. view.journal \in {Absent, Torn}
  BY DEF IInv, RecoveryRestores
<1>2. /\ view' \in disk' /\ disk' \subseteq disk \cup {view'}
      /\ view'.settings = view.settings /\ view'.credential \in {view.credential, Absent}
      /\ view'.journal = view.journal
      /\ PutDone("credential", Absent) => view'.credential = Absent
  BY PutFields, PutStores DEF Files
<1>3. ~orphaned => Paired(Recovered(view'))
  BY <1>1, <1>2, RecoveredIs DEF Paired, TypeOK
<1>4. orphaned /\ ~orphaned' => \A v \in disk' : Paired(Recovered(v))
  <2>1. Explained("cleared") => \A v \in disk' : v \in Views /\ v.journal \notin Snapshots /\ v.credential = Absent
    BY DEF Explained, TypeOK
  <2>2. Explained("cleared") => \A v \in disk' : Paired(Recovered(v))
    BY <2>1, RecoveredIs DEF Paired
  <2>. QED  BY <2>2
<1>5. ~orphaned' => Paired(Recovered(view'))
  BY <1>2, <1>3, <1>4
<1>6. ~saved'.proven
  BY DEF NothingSaved
<1>7. ImagesRecover'
  BY <1>1, <1>2, <1>4, <1>5, <1>6, ImagesStep
<1>8. \/ step' = "idle" /\ (blocked' \/ view'.journal = Absent)
      \/ step' = "isolate" /\ view'.journal = Torn /\ view'.credential = Absent
  BY <1>1, <1>2
<1>. QED
  BY <1>6, <1>7, <1>8
    DEF IInv, MutationWrites, Mutating, MutationSteps, SaveKeepsPair, Saving, SaveSteps,
        RecoveryRestores, RestoreSteps, IdleSettled, Settled

LEMMA IsolateStep ==
  ASSUME TypeOK, TypeOK', IInv, Isolate
  PROVE  IInv'
<1>. USE Facts DEF Isolate
<1>1. view.journal = Torn /\ view.credential = Absent /\ ~saved.proven
  BY DEF IInv, RecoveryRestores
<1>2. /\ view' \in disk' /\ disk' \subseteq disk \cup {view'}
      /\ view'.credential = view.credential
      /\ view'.journal \in {Torn, Absent}
  BY <1>1, PutFields DEF Files
<1>3. Paired(Recovered(view'))
  BY <1>1, <1>2, RecoveredIs DEF Paired, TypeOK
<1>. QED  BY <1>1, <1>2, <1>3, EndsStep

LEMMA LoadFromBackupStep ==
  ASSUME TypeOK, TypeOK', IInv, LoadFromBackup
  PROVE  IInv'
<1>. USE Facts DEF LoadFromBackup
<1>1. /\ view' \in disk' /\ disk' \subseteq disk \cup {view'}
      /\ view'.credential = view.credential /\ view'.journal = view.journal
  BY PutFields DEF Files
<1>2. CASE view.journal \in Snapshots
  <2>1. ImagesRecover' /\ (blocked /\ step = "idle")
    BY <1>1, <1>2, BehindJournal DEF IInv, IdleSettled, Settled
  <2>. QED
    BY <2>1
      DEF IInv, MutationWrites, Mutating, MutationSteps, SaveKeepsPair, Saving, SaveSteps,
          RecoveryRestores, RestoreSteps, IdleSettled
<1>3. CASE view.journal \notin Snapshots
  <2>1. ~orphaned' => Paired(Recovered(view'))
    BY <1>1, <1>3, RecoveredIs DEF Paired, TypeOK
  <2>2. view'.journal = Marker => \A v \in disk' : Paired(v)
    BY <1>1 DEF Paired
  <2>3. saved.proven => view.journal = Torn
    BY <1>3, RecoveredIs DEF Holds
  <2>4. ImagesRecover'
    BY <1>1, <2>1, <2>2, <2>3, ImagesStep
  <2>. QED
    BY <1>1, <2>4
      DEF IInv, MutationWrites, Mutating, MutationSteps, SaveKeepsPair, Saving, SaveSteps,
          RecoveryRestores, RestoreSteps, IdleSettled, Settled
<1>. QED  BY <1>2, <1>3

LEMMA JournalVanishesStep ==
  ASSUME TypeOK, TypeOK', IInv, JournalVanishes
  PROVE  IInv'
<1>. USE Facts DEF JournalVanishes, Goto
<1>1. /\ view' \in disk' /\ disk' \subseteq disk \cup {view'}
      /\ view'.settings = view.settings /\ view'.credential = view.credential
      /\ view'.journal = Absent
  BY DEF Visibly, Views
<1>2. UNCHANGED job /\ orphaned' /\ ~saved'.proven
  BY DEF NothingSaved
<1>3. ImagesRecover'
  BY <1>1, <1>2, ImagesStep
<1>4. CASE step' = "clear"
  BY <1>1, <1>3, <1>4
    DEF IInv, MutationWrites, Mutating, MutationSteps, SaveKeepsPair, Saving, SaveSteps,
        RecoveryRestores, RestoreSteps, IdleSettled
<1>5. CASE step \in MutationSteps /\ Journaled /\ UNCHANGED step
  <2>1. (\A v \in disk : Wrote(v)) => (\A v \in disk : Wrote(v))'
    BY <1>1, <1>2 DEF Wrote
  <2>2. MutationWrites'
    BY <1>1, <1>2, <1>5, <2>1
      DEF IInv, MutationWrites, Mutating, Journaled, MutationSteps, SaveSteps, JobPaired
  <2>. QED
    BY <1>2, <1>3, <1>5, <2>2
      DEF IInv, SaveKeepsPair, Saving, Journaled, MutationSteps, SaveSteps, RecoveryRestores,
          RestoreSteps, IdleSettled
<1>. QED  BY <1>4, <1>5

\* The machine stops between any two changes: what is left is one of the images.
LEMMA StopsStep ==
  ASSUME TypeOK, IInv, ProcessExits \/ PowerLoss
  PROVE  IInv'
<1>1. step' = "down" /\ UNCHANGED <<saved, orphaned>>
  BY DEF ProcessExits, PowerLoss, Down, Goto
<1>2. ImagesRecover'
  <2>1. CASE ProcessExits
    BY <1>1, <2>1, ImagesKept DEF ProcessExits, Unchanged
  <2>2. CASE PowerLoss
    <3>1. view' \in disk /\ disk' = {view'}
      BY <2>2 DEF PowerLoss
    <3>2. /\ ~orphaned' => Paired(Recovered(view'))
          /\ view'.journal = Marker => \A v \in disk' : Paired(v)
          /\ saved'.proven => view'.journal = Torn \/ Holds(Base(view'))
      BY <1>1, <3>1 DEF IInv, ImagesRecover
    <3>. QED  BY <1>1, <3>1, <3>2, ImagesStep
  <2>. QED  BY <2>1, <2>2
<1>. QED
  BY <1>1, <1>2
    DEF IInv, MutationWrites, Mutating, MutationSteps, SaveKeepsPair, Saving, SaveSteps,
        RecoveryRestores, RestoreSteps, IdleSettled

LEMMA IInvInit == Init => TypeOK /\ IInv
<1>. SUFFICES ASSUME Init PROVE TypeOK /\ IInv
  OBVIOUS
<1>1. TypeOK
  <2>1. view \in Views /\ disk \in SUBSET Views
    BY DEF Init, Views, Documents, Credentials, Journals
  <2>2. NothingSaved \in SavedType
    BY DEF NothingSaved, SavedType, Credentials
  <2>. QED  BY <2>1, <2>2, NoJobType DEF Init, TypeOK, JobType, SavedType
<1>2. ImagesRecover
  BY JournalAssumption DEF Init, ImagesRecover, Paired, Recovered, NothingSaved
<1>. QED
  BY <1>1, <1>2
    DEF Init, IInv, MutationWrites, Mutating, MutationSteps, SaveKeepsPair, Saving, SaveSteps,
        RecoveryRestores, RestoreSteps, IdleSettled

LEMMA IInvStep ==
  ASSUME TypeOK, IInv, [Next]_vars
  PROVE  TypeOK' /\ IInv'
<1>1. TypeOK'
  BY TypeStep
<1>2. CASE UNCHANGED vars
  <2>1. ImagesRecover'
    BY <1>2, ImagesKept DEF vars
  <2>2. MutationWrites'
    BY <1>2 DEF vars, IInv, MutationWrites, Mutating, Journaled, JobPaired, Wrote
  <2>3. SaveKeepsPair' /\ IdleSettled' /\ RecoveryRestores'
    BY <1>2 DEF vars, IInv, SaveKeepsPair, Saving, Settled, JobPaired, IdleSettled, RecoveryRestores
  <2>. QED  BY <1>1, <2>1, <2>2, <2>3 DEF IInv
<1>3. CASE Mutation
  <2>1. CASE SavePassword \/ SaveInMemory \/ Logout
    BY <1>1, <2>1, BeginStep DEF SavePassword, SaveInMemory, Logout
  <2>. QED
    BY <1>1, <1>3, <2>1, SaveSettingsStep, MutateCredentialStep, RetireBackupStep,
       WriteSettingsStep, WriteBackupStep, CommitStep, TidyStep DEF Mutation
<1>4. CASE Recovery
  BY <1>1, <1>4, RecoverStep, RestoreStep, DropJournalStep, RetreatStep, ForgetStep, ClearStep,
     IsolateStep DEF Recovery
<1>5. CASE Environment
  BY <1>1, <1>5, LoadFromBackupStep, JournalVanishesStep, StopsStep DEF Environment
<1>. QED  BY <1>1, <1>2, <1>3, <1>4, <1>5 DEF Next

\* The invariant holds in every reachable state, for any number of accounts
\* and of changes that are not yet durable.
THEOREM InvariantCorrect == Spec => [](TypeOK /\ IInv)
<1>1. Init => TypeOK /\ IInv
  BY IInvInit
<1>2. (TypeOK /\ IInv) /\ [Next]_vars => (TypeOK /\ IInv)'
  BY IInvStep
<1>. QED  BY <1>1, <1>2, PTL DEF Spec

-----------------------------------------------------------------------------
(* What the transaction promises *)

\* At every instant, startup recovery turns whatever a power loss may leave of
\* the documents, the credential and the journal into a matching pair.
THEOREM CrashSafe == Spec => []CrashImagesRecover
<1>1. ASSUME NEW v, Paired(v)
      PROVE  Matches(v)
  BY <1>1 DEF Paired, Matches, LoadedUser
<1>2. TypeOK /\ IInv => CrashImagesRecover
  BY <1>1 DEF IInv, ImagesRecover, CrashImagesRecover
<1>. QED  BY <1>2, InvariantCorrect, PTL

\* Between operations, a password is never presented for another account than
\* the one it was saved with.
THEOREM PairMatches == Spec => []MatchingPair
<1>1. TypeOK /\ IInv => MatchingPair
  <2>. SUFFICES ASSUME TypeOK, IInv, step = "idle", ~blocked, ~orphaned
                PROVE  Matches(view)
    BY DEF MatchingPair
  <2>1. Settled
    BY DEF IInv, IdleSettled
  <2>. QED  BY <2>1, Facts, RecoveredIs DEF Settled, Paired, Matches, LoadedUser
<1>. QED  BY <1>1, InvariantCorrect, PTL

\* A save whose commit marker is durable is still what the files hold, after
\* any crash, failed transaction or recovery that does not announce a loss.
THEOREM SaveSurvives == Spec => []CommittedSaveSurvives
<1>1. TypeOK /\ IInv => CommittedSaveSurvives
  <2>. SUFFICES ASSUME TypeOK, IInv, step = "idle", ~blocked, saved.proven
                PROVE  SavedIsStored
    BY DEF CommittedSaveSurvives
  <2>1. Settled
    BY DEF IInv, IdleSettled
  <2>. QED  BY <2>1, Facts, RecoveredIs DEF Settled, Holds, SavedIsStored, LoadedUser
<1>. QED  BY <1>1, InvariantCorrect, PTL
===============================================================================
