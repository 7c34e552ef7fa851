------------------------- MODULE ContextSwitch_proofs -------------------------
(* Proof that the switch between school profiles keeps its promises, for any  *)
(* number of profiles, of switches and of changes that are not yet durable.   *)
(* Three invariants carry it: what every image a power loss may leave holds,  *)
(* what each step of the coordinator has behind it, and what is already gone. *)
EXTENDS ContextSwitch, TLAPS

Journaled(v) == v.journal \notin {Absent, Torn}

\* No other Workspace has an epoch that can be taken for the active one's.
Latest(v) ==
  \A p \in Profiles \ {v.active} : v.epoch[p] = 1 \/ v.epoch[p] < v.epoch[v.active]

\* The epoch the journal gives to its destination is above every other.
NextIsLatest(v) ==
  LET j == v.journal IN
    /\ j.from # j.to
    /\ j.toEpoch < j.next
    /\ \A p \in Profiles \ {j.to} : v.epoch[p] = 1 \/ v.epoch[p] < j.next

Sound(v) ==
  IF Journaled(v) THEN NextIsLatest(v) /\ Resumable(v) ELSE Latest(v)

-----------------------------------------------------------------------------
(* The invariant *)

\* An image is one a start can carry on from, and all name the same active
\* profile unless the selection itself may be lost.
ImagesSound ==
  /\ view \in disk
  /\ \A v \in disk : Sound(v)
  /\ (\A v \in disk : v.active = view.active) \/ Unconfirmed(view.active)

\* A running coordinator has its journal, in the state of its step; while the
\* program is open the journal gates it.
StepHasJournal ==
  /\ step # "idle" => proc \in {"open", "recovering"} /\ Journaled(view)
  /\ step \in {"source", "drain", "stop", "clear"} => view.journal.state = "prepared"
  /\ step \in {"workspace", "global", "commit"} => view.journal.state = "ready"
  /\ step = "finish" => view.journal.state = "committed"
  /\ proc = "leaving" => view.journal = Absent
  /\ proc = "open" /\ Journaled(view) =>
       ~lease /\ (view.journal.state = "prepared" => view.journal.from = self)
  /\ proc = "open" /\ lease => view.active = self

\* Only an open program, or one that is leaving, has attempts and logouts.
OnlyOpenActs == proc \in {"down", "recovering"} => ~attempt /\ ~logout

\* The recorded engine is gone once its stop is behind the coordinator.
EngineGone ==
  Journaled(view) /\ view.journal.engine
    /\ (step = "clear" \/ view.journal.state # "prepared") =>
      engine \notin {"running", "left"}

IInv == ImagesSound /\ StepHasJournal /\ OnlyOpenActs /\ EngineGone

-----------------------------------------------------------------------------
(* The files after one change *)

LEMMA Facts ==
  ASSUME TypeOK
  PROVE  /\ view \in Views /\ self \in Profiles /\ Absent # Torn
         /\ view.active \in Profiles /\ view.options \in Options
         /\ view.epoch \in [Profiles -> Counters] /\ view.rev \in [Profiles -> Counters]
         /\ Journaled(view) => view.journal \in Journals
         /\ ~Journaled(view) => view.journal \in {Absent, Torn}
         /\ view.redo # Absent => view.redo \in Intents
BY FilesAssumption DEF TypeOK, Views, Journaled

LEMMA JournalFields ==
  ASSUME NEW j \in Journals
  PROVE  /\ j.from \in Profiles /\ j.to \in Profiles
         /\ j.fromRev \in Nat /\ j.fromEpoch \in Nat /\ j.toRev \in Nat /\ j.toEpoch \in Nat
         /\ j.next \in Nat /\ j.next \in Counters /\ j.state \in {"prepared", "ready", "committed"}
         /\ j \notin {Absent, Torn}
BY FilesAssumption DEF Journals, Counters

LEMMA WrittenIs ==
  ASSUME TypeOK, Journaled(view), NEW s \in {"ready", "committed"}
  PROVE  LET w == Written(s) IN
           /\ w \in Views /\ Journaled(w)
           /\ w.active = view.active /\ w.options = view.options
           /\ w.epoch = view.epoch /\ w.rev = view.rev
           /\ w.journal \in Journals /\ w.journal.state = s
           /\ w.journal.from = view.journal.from /\ w.journal.to = view.journal.to
           /\ w.journal.toEpoch = view.journal.toEpoch /\ w.journal.next = view.journal.next
           /\ w.journal.options = view.journal.options
           /\ w.journal.engine = view.journal.engine
<1>. DEFINE w == Written(s)
<1>1. view \in Views /\ view.journal \in Journals
  BY Facts
<1>2. /\ w.journal = [view.journal EXCEPT !.state = s]
      /\ w.active = view.active /\ w.options = view.options
      /\ w.epoch = view.epoch /\ w.rev = view.rev /\ w.redo = view.redo
  BY <1>1 DEF Written, Views
<1>3. [view.journal EXCEPT !.state = s] \in Journals
  BY <1>1 DEF Journals
<1>4. w \in Views
  BY <1>1, <1>3 DEF Written, Views
<1>. QED
  BY <1>1, <1>2, <1>3, <1>4, JournalFields DEF Journaled, Journals

LEMMA ActivatedIs ==
  ASSUME TypeOK, Journaled(view)
  PROVE  LET w == Activated IN
           /\ w \in Views
           /\ w.active = view.active /\ w.options = view.options /\ w.rev = view.rev
           /\ w.journal = view.journal
           /\ w.epoch = [view.epoch EXCEPT ![view.journal.to] = view.journal.next]
BY Facts, JournalFields DEF Activated, Views

LEMMA SelectedIs ==
  ASSUME TypeOK, Journaled(view)
  PROVE  LET w == Selected IN
           /\ w \in Views
           /\ w.active = view.journal.to /\ w.options = view.options /\ w.rev = view.rev
           /\ w.journal = view.journal /\ w.epoch = view.epoch
BY Facts, JournalFields DEF Selected, Views

LEMMA JournalIs ==
  ASSUME TypeOK, NEW j \in Journals \cup {Absent, Torn}
  PROVE  LET w == [view EXCEPT !.journal = j] IN
           /\ w \in Views
           /\ w.active = view.active /\ w.options = view.options
           /\ w.epoch = view.epoch /\ w.rev = view.rev /\ w.journal = j
BY Facts DEF Views

LEMMA PreparedIs ==
  ASSUME TypeOK, NEW to \in Profiles
  PROVE  LET j == Prepared(to) IN
           /\ j \in Journals /\ j.state = "prepared"
           /\ j.from = self /\ j.to = to
           /\ j.fromRev = view.rev[self] /\ j.fromEpoch = view.epoch[self]
           /\ j.toRev = view.rev[to] /\ j.toEpoch = view.epoch[to]
           /\ j.options = view.options
           /\ j.next > view.epoch[self] /\ j.next > view.epoch[to]
<1>1. /\ view.rev[self] \in Counters /\ view.rev[to] \in Counters
      /\ view.epoch[self] \in Counters /\ view.epoch[to] \in Counters
      /\ view.options \in Options /\ self \in Profiles
  BY Facts
<1>2. DEFINE n == Maximum(view.epoch[self], view.epoch[to]) + 1
<1>3. n \in Counters /\ n > view.epoch[self] /\ n > view.epoch[to]
  BY <1>1 DEF Maximum, Counters
<1>. QED  BY <1>1, <1>3 DEF Prepared, Journals

LEMMA CredentialIs ==
  ASSUME TypeOK
  PROVE  LET w == CredentialChanged IN
           /\ w \in Views
           /\ w.active = view.active /\ w.options = view.options /\ w.epoch = view.epoch
           /\ w.journal = view.journal
           /\ w.rev = [view.rev EXCEPT ![self] = @ + 1]
<1>1. [view.rev EXCEPT ![self] = @ + 1] \in [Profiles -> Counters]
  BY Facts DEF Counters
<1>. QED  BY <1>1, Facts DEF CredentialChanged, Views

LEMMA OptionsAre ==
  ASSUME TypeOK, NEW o \in Options
  PROVE  /\ LET w == [view EXCEPT !.options = o, !.redo = Absent] IN
              /\ w \in Views /\ w.active = view.active /\ w.epoch = view.epoch
              /\ w.journal = view.journal
         /\ \A w \in {Intended(o), [Intended(o) EXCEPT !.options = o]} :
              /\ w \in Views /\ w.active = view.active /\ w.epoch = view.epoch
              /\ w.journal = view.journal
<1>1. [profile |-> self, rev |-> view.rev[self], options |-> o] \in Intents
  BY Facts DEF Intents
<1>. QED  BY <1>1, Facts DEF Intended, Views

-----------------------------------------------------------------------------
(* Types *)

LEMMA FileType ==
  ASSUME TypeOK, NEW w \in Views, Durably(w) \/ Visibly(w)
  PROVE  view' \in Views /\ disk' \in SUBSET Views
BY DEF Durably, Visibly, TypeOK

LEMMA UnchangedType ==
  ASSUME TypeOK, Unchanged
  PROVE  view' \in Views /\ disk' \in SUBSET Views
BY DEF Unchanged, TypeOK

LEMMA CoordinatorType ==
  ASSUME TypeOK, IInv,
         \/ \E to \in Profiles : Switch(to)
         \/ SwitchRefused \/ StepFails
         \/ SourceProven \/ Drained \/ EngineStopped \/ Ready
         \/ WriteWorkspace \/ WriteGlobal \/ TargetUndurable
         \/ Commit \/ Finish \/ FinishUndurable
  PROVE  TypeOK'
<1>. USE DEF Goto, KeepConnection, connection, Steps
<1>0. step # "idle" => Journaled(view)
  BY DEF IInv, StepHasJournal
<1>1. ASSUME NEW to \in Profiles, Switch(to)
      PROVE  TypeOK'
  <2>1. view' \in Views /\ disk' \in SUBSET Views
    BY <1>1, PreparedIs, JournalIs, FileType DEF Switch
  <2>. QED  BY <1>1, <2>1 DEF Switch, TypeOK
<1>2. CASE SwitchRefused
  <2>1. view' \in Views /\ disk' \in SUBSET Views
    BY <1>2, JournalIs, FileType DEF SwitchRefused, TornView, TypeOK
  <2>. QED  BY <1>2, <2>1 DEF SwitchRefused, TypeOK
<1>3. CASE StepFails
  BY <1>3, UnchangedType DEF StepFails, Abandon, TypeOK
<1>4. CASE SourceProven \/ Drained \/ EngineStopped
  BY <1>4, UnchangedType DEF SourceProven, Drained, EngineStopped, TypeOK
<1>5. CASE Ready \/ Commit
  <2>1. view' \in Views /\ disk' \in SUBSET Views
    BY <1>0, <1>5, WrittenIs, FileType DEF Ready, Commit
  <2>. QED  BY <1>5, <2>1 DEF Ready, Commit, TypeOK
<1>6. CASE WriteWorkspace \/ WriteGlobal \/ TargetUndurable
  <2>1. view' \in Views /\ disk' \in SUBSET Views
    BY <1>0, <1>6, ActivatedIs, SelectedIs, FileType, UnchangedType
      DEF WriteWorkspace, WriteGlobal, TargetUndurable, Put
  <2>. QED  BY <1>6, <2>1 DEF WriteWorkspace, WriteGlobal, TargetUndurable, Abandon, TypeOK
<1>7. CASE Finish \/ FinishUndurable
  <2>1. view' \in Views /\ disk' \in SUBSET Views
    BY <1>7, JournalIs, FileType DEF Finish, FinishUndurable, Cleared
  <2>. QED  BY <1>7, <2>1 DEF Finish, FinishUndurable, Abandon, TypeOK
<1>. QED  BY <1>1, <1>2, <1>3, <1>4, <1>5, <1>6, <1>7

LEMMA BesideType ==
  ASSUME TypeOK, IInv,
         \/ \E o \in Options : Save(o) \/ SaveFails(o)
         \/ ReplaceCredential \/ LogoutStarts \/ LogoutEnds
         \/ Connect \/ Spawn \/ AttemptGivesUp \/ EngineExits \/ Disconnect
  PROVE  TypeOK'
<1>. USE DEF Coordinator, KeepConnection, connection
<1>1. ASSUME NEW o \in Options, Save(o)
      PROVE  TypeOK'
  <2>1. view' \in Views /\ disk' \in SUBSET Views
    BY <1>1, OptionsAre, FileType DEF Save
  <2>. QED  BY <1>1, <2>1 DEF Save, TypeOK
<1>2. ASSUME NEW o \in Options, SaveFails(o)
      PROVE  TypeOK'
  <2>1. view' \in Views /\ disk' \in SUBSET Views
    BY <1>2, OptionsAre DEF SaveFails, TypeOK
  <2>. QED  BY <1>2, <2>1 DEF SaveFails, TypeOK
<1>3. CASE ReplaceCredential \/ LogoutEnds
  <2>1. view' \in Views /\ disk' \in SUBSET Views
    BY <1>3, CredentialIs, FileType, UnchangedType DEF ReplaceCredential, LogoutEnds
  <2>. QED  BY <1>3, <2>1 DEF ReplaceCredential, LogoutEnds, TypeOK
<1>4. CASE LogoutStarts \/ Connect \/ Spawn \/ AttemptGivesUp \/ EngineExits \/ Disconnect
  BY <1>4, UnchangedType
    DEF LogoutStarts, Connect, Spawn, AttemptGivesUp, EngineExits, Disconnect, TypeOK
<1>. QED  BY <1>1, <1>2, <1>3, <1>4

LEMMA ProcessType ==
  ASSUME TypeOK, IInv, Recover \/ Opens \/ ProcessExits \/ PowerLoss
  PROVE  TypeOK'
<1>. USE DEF KeepConnection, connection
<1>1. CASE Recover
  <2>1. view.journal.state \in {"prepared", "ready", "committed"} /\ view.active \in Profiles
    BY <1>1, Facts, JournalFields DEF Recover, Journaled
  <2>2. FirstStep(view.journal.state) \in Steps
    BY <2>1 DEF FirstStep, Steps
  <2>. QED  BY <1>1, <2>1, <2>2, UnchangedType DEF Recover, TypeOK
<1>2. CASE Opens
  <2>1. view' \in Views /\ disk' \in SUBSET Views
    <3>1. view.redo # Absent => view.redo.options \in Options
      BY Facts DEF Intents
    <3>. QED  BY <1>2, <3>1, OptionsAre, FileType, UnchangedType DEF Opens
  <2>. QED  BY <1>2, <2>1, Facts DEF Opens, TypeOK
<1>3. CASE ProcessExits
  <2>1. view' \in Views /\ disk' \in SUBSET Views
    BY <1>3, JournalIs, FileType, UnchangedType DEF ProcessExits, TornView
  <2>. QED  BY <1>3, <2>1 DEF ProcessExits, Down, TypeOK, Steps
<1>4. CASE PowerLoss
  <2>1. view' \in Views /\ disk' \in SUBSET Views
    BY <1>4 DEF PowerLoss, TypeOK
  <2>. QED  BY <1>4, <2>1 DEF PowerLoss, Down, TypeOK, Steps
<1>. QED  BY <1>1, <1>2, <1>3, <1>4

LEMMA TypeStep ==
  ASSUME TypeOK, IInv, [Next]_vars
  PROVE  TypeOK'
<1>1. CASE UNCHANGED vars
  BY <1>1 DEF vars, connection, TypeOK
<1>. QED  BY <1>1, CoordinatorType, BesideType, ProcessType DEF Next

-----------------------------------------------------------------------------
(* Images *)

\* A step adds images that are sound; the active profile changes only with the
\* whole disk, or beside the image that still has the old one.
LEMMA ImagesStep ==
  ASSUME ImagesSound, view' \in disk',
         \A v \in disk' : v \in disk \/ (Sound(v) /\ v.active = view'.active),
         \/ disk' = {view'}
         \/ disk \subseteq disk' /\ view'.active = view.active
  PROVE  ImagesSound'
<1>1. \A v \in disk' : Sound(v)
  BY DEF ImagesSound
<1>2. CASE disk' = {view'}
  BY <1>1, <1>2 DEF ImagesSound
<1>3. CASE disk \subseteq disk' /\ view'.active = view.active
  <2>1. Unconfirmed(view.active) => Unconfirmed(view.active)'
    BY <1>3 DEF Unconfirmed
  <2>. QED  BY <1>1, <1>3, <2>1 DEF ImagesSound
<1>. QED  BY <1>2, <1>3

LEMMA ImagesKept ==
  ASSUME ImagesSound, Unchanged
  PROVE  ImagesSound'
BY DEF ImagesSound, Unchanged, Unconfirmed

\* The change of one file, durable or visible, that selects no other profile.
LEMMA ImagesPut ==
  ASSUME ImagesSound, NEW w, Durably(w) \/ Visibly(w),
         Sound(w), w.active = view.active
  PROVE  ImagesSound'
<1>1. /\ view' = w /\ view' \in disk'
      /\ disk' = {view'} \/ disk' = disk \cup {view'}
  BY DEF Durably, Visibly
<1>. QED  BY <1>1, ImagesStep

LEMMA ViewSound ==
  ASSUME TypeOK, IInv, Journaled(view)
  PROVE  /\ view.journal \in Journals /\ Sound(view)
         /\ view.journal.from # view.journal.to
         /\ view.journal.toEpoch < view.journal.next
         /\ \A p \in Profiles \ {view.journal.to} :
              view.epoch[p] = 1 \/ view.epoch[p] < view.journal.next
         /\ Resumable(view)
BY Facts DEF IInv, ImagesSound, Sound, NextIsLatest

LEMMA UnjournaledSound ==
  ASSUME IInv, ~Journaled(view), NEW w, ~Journaled(w),
         w.active = view.active, w.epoch = view.epoch
  PROVE  Sound(w)
BY DEF IInv, ImagesSound, Sound, Latest

LEMMA PreparedSound ==
  ASSUME TypeOK, IInv, ~Journaled(view), NEW to \in Profiles, to # self, view.active = self
  PROVE  Sound([view EXCEPT !.journal = Prepared(to)])
<1>. DEFINE w == [view EXCEPT !.journal = Prepared(to)]
<1>. DEFINE j == Prepared(to)
<1>1. /\ j \in Journals /\ j.state = "prepared"
      /\ j.from = self /\ j.to = to
      /\ j.fromRev = view.rev[self] /\ j.fromEpoch = view.epoch[self]
      /\ j.toRev = view.rev[to] /\ j.toEpoch = view.epoch[to]
      /\ j.options = view.options
      /\ j.next > view.epoch[self] /\ j.next > view.epoch[to]
  BY PreparedIs
<1>2. /\ w.active = self /\ w.options = view.options
      /\ w.epoch = view.epoch /\ w.rev = view.rev /\ w.journal = j
  BY <1>1, JournalIs
<1>3. Journaled(w)
  BY <1>1, <1>2, JournalFields DEF Journaled
<1>4. /\ self \in Profiles /\ j.next \in Nat /\ view.rev[self] \in Nat
      /\ \A p \in Profiles : view.epoch[p] \in Nat
  BY <1>1, Facts, JournalFields DEF Counters
<1>5. NextIsLatest(w)
  <2>1. \A p \in Profiles \ {self} : view.epoch[p] = 1 \/ view.epoch[p] < view.epoch[self]
    BY DEF IInv, ImagesSound, Sound, Latest
  <2>. QED  BY <1>1, <1>2, <1>4, <2>1 DEF NextIsLatest
<1>6. Resumable(w)
  <2>1. SourceIs(w, j, {j.fromRev + 0})
    BY <1>1, <1>2, <1>4 DEF SourceIs
  <2>2. IsBefore(w, j) /\ DestinationIs(w, j)
    BY <1>1, <1>2 DEF IsBefore, GlobalStatus, WorkspaceStatus, DestinationIs
  <2>3. 0 \in 0..w.rev[j.from]
    BY <1>1, <1>2, <1>4
  <2>. QED  BY <1>1, <1>2, <2>1, <2>2, <2>3 DEF Resumable
<1>. QED  BY <1>3, <1>5, <1>6 DEF Sound

LEMMA ReadySound ==
  ASSUME TypeOK, IInv, Journaled(view), view.journal.state = "prepared"
  PROVE  Sound(Written("ready"))
<1>. DEFINE w == Written("ready")
<1>1. /\ Journaled(w) /\ w.active = view.active /\ w.options = view.options
      /\ w.epoch = view.epoch /\ w.journal.state = "ready"
      /\ w.journal.from = view.journal.from /\ w.journal.to = view.journal.to
      /\ w.journal.toEpoch = view.journal.toEpoch /\ w.journal.next = view.journal.next
      /\ w.journal.options = view.journal.options
  BY WrittenIs
<1>2. IsBefore(view, view.journal)
  BY ViewSound DEF Resumable
<1>3. IsKnown(w, w.journal)
  BY <1>1, <1>2 DEF IsBefore, IsKnown, GlobalStatus, WorkspaceStatus
<1>4. NextIsLatest(w)
  BY <1>1, ViewSound DEF NextIsLatest
<1>. QED  BY <1>1, <1>3, <1>4 DEF Sound, Resumable

LEMMA CommittedSound ==
  ASSUME TypeOK, IInv, Journaled(view), IsAfter(view, view.journal)
  PROVE  Sound(Written("committed"))
<1>. DEFINE w == Written("committed")
<1>1. /\ Journaled(w) /\ w.active = view.active /\ w.options = view.options
      /\ w.epoch = view.epoch /\ w.journal.state = "committed"
      /\ w.journal.from = view.journal.from /\ w.journal.to = view.journal.to
      /\ w.journal.toEpoch = view.journal.toEpoch /\ w.journal.next = view.journal.next
      /\ w.journal.options = view.journal.options
  BY WrittenIs
<1>2. IsAfter(w, w.journal)
  BY <1>1 DEF IsAfter, GlobalStatus, WorkspaceStatus
<1>3. NextIsLatest(w)
  BY <1>1, ViewSound DEF NextIsLatest
<1>. QED  BY <1>1, <1>2, <1>3 DEF Sound, Resumable

LEMMA ActivatedSound ==
  ASSUME TypeOK, IInv, Journaled(view), view.journal.state = "ready"
  PROVE  Sound(Activated) /\ Journaled(Activated)
<1>. DEFINE w == Activated
<1>. DEFINE j == view.journal
<1>1. /\ w.active = view.active /\ w.options = view.options /\ w.journal = j
      /\ w.epoch = [view.epoch EXCEPT ![j.to] = j.next]
  BY ActivatedIs
<1>2. /\ view.epoch \in [Profiles -> Counters] /\ j.to \in Profiles
      /\ j.next \in Nat /\ j.toEpoch \in Nat
  BY Facts, JournalFields
<1>3. IsKnown(view, j)
  BY ViewSound DEF Resumable
<1>4. IsKnown(w, j)
  BY <1>1, <1>2, <1>3 DEF IsKnown, GlobalStatus, WorkspaceStatus
<1>5. NextIsLatest(w)
  BY <1>1, <1>2, ViewSound DEF NextIsLatest
<1>. QED  BY <1>1, <1>4, <1>5 DEF Sound, Resumable, Journaled

LEMMA SelectedSound ==
  ASSUME TypeOK, IInv, Journaled(view), view.journal.state = "ready"
  PROVE  Sound(Selected) /\ Journaled(Selected)
<1>. DEFINE w == Selected
<1>. DEFINE j == view.journal
<1>1. /\ w.active = j.to /\ w.options = view.options /\ w.journal = j
      /\ w.epoch = view.epoch
  BY SelectedIs
<1>3. IsKnown(view, j)
  BY ViewSound DEF Resumable
<1>4. IsKnown(w, j)
  BY <1>1, <1>3 DEF IsKnown, GlobalStatus, WorkspaceStatus
<1>5. NextIsLatest(w)
  BY <1>1, ViewSound DEF NextIsLatest
<1>. QED  BY <1>1, <1>4, <1>5 DEF Sound, Resumable, Journaled

LEMMA ClearedSound ==
  ASSUME TypeOK, IInv, Journaled(view), IsAfter(view, view.journal)
  PROVE  Sound(Cleared) /\ Cleared.active = view.active /\ Cleared.journal = Absent
<1>1. /\ Cleared.active = view.active /\ Cleared.epoch = view.epoch
      /\ Cleared.journal = Absent
  BY JournalIs DEF Cleared
<1>2. view.active = view.journal.to /\ view.epoch[view.journal.to] = view.journal.next
  BY ViewSound DEF IsAfter, GlobalStatus, WorkspaceStatus
<1>3. Latest(Cleared)
  BY <1>1, <1>2, ViewSound DEF Latest
<1>. QED  BY <1>1, <1>3 DEF Sound, Journaled

\* A credential changes in the profile the program was composed for, which is
\* not the destination of a prepared switch.
LEMMA CredentialSound ==
  ASSUME TypeOK, IInv, Journaled(view) => (view.journal.state = "prepared" => view.journal.from = self)
  PROVE  /\ Sound(CredentialChanged)
         /\ CredentialChanged.active = view.active
         /\ CredentialChanged.journal = view.journal
<1>. DEFINE w == CredentialChanged
<1>. DEFINE j == view.journal
<1>1. /\ w.active = view.active /\ w.options = view.options /\ w.epoch = view.epoch
      /\ w.journal = j
      /\ w.rev = [view.rev EXCEPT ![self] = @ + 1]
  BY CredentialIs
<1>2. /\ self \in Profiles /\ view.rev \in [Profiles -> Counters]
      /\ \A p \in Profiles : view.rev[p] \in Nat
  BY Facts DEF Counters
<1>3. CASE ~Journaled(view)
  BY <1>1, <1>3, UnjournaledSound DEF Journaled
<1>4. CASE Journaled(view)
  <2>1. NextIsLatest(w) /\ j.from # j.to /\ Resumable(view) /\ j \in Journals
    BY <1>1, <1>4, ViewSound DEF NextIsLatest
  <2>2. CASE j.state = "prepared"
    <3>1. /\ IsBefore(view, j) /\ DestinationIs(view, j)
          /\ \E n \in 0..view.rev[j.from] : SourceIs(view, j, {j.fromRev + n})
      BY <2>1, <2>2 DEF Resumable
    <3>2. PICK n \in 0..view.rev[j.from] : SourceIs(view, j, {j.fromRev + n})
      BY <3>1
    <3>3. j.from = self /\ j.fromRev \in Nat /\ n \in Nat /\ view.rev[self] = j.fromRev + n
      BY <1>2, <1>4, <2>1, <2>2, <3>2, JournalFields DEF SourceIs
    <3>4. w.rev[self] = j.fromRev + (n + 1) /\ n + 1 \in 0..w.rev[self]
      BY <1>1, <1>2, <3>2, <3>3
    <3>5. SourceIs(w, j, {j.fromRev + (n + 1)})
      BY <1>1, <3>2, <3>3, <3>4 DEF SourceIs
    <3>6. IsBefore(w, j) /\ DestinationIs(w, j)
      BY <1>1, <2>1, <3>1, <3>3 DEF IsBefore, GlobalStatus, WorkspaceStatus, DestinationIs
    <3>. QED  BY <1>1, <1>4, <2>1, <2>2, <3>3, <3>4, <3>5, <3>6 DEF Sound, Resumable, Journaled
  <2>3. CASE j.state # "prepared"
    <3>1. /\ IsKnown(view, j) => IsKnown(w, j)
          /\ IsAfter(view, j) => IsAfter(w, j)
      BY <1>1 DEF IsKnown, IsAfter, GlobalStatus, WorkspaceStatus
    <3>2. j.state \in {"ready", "committed"}
      BY <2>1, <2>3, JournalFields
    <3>. QED  BY <1>1, <1>4, <2>1, <3>1, <3>2 DEF Sound, Resumable, Journaled
  <2>. QED  BY <2>2, <2>3
<1>. QED  BY <1>1, <1>3, <1>4

-----------------------------------------------------------------------------
(* The coordinator's steps *)

\* What the invariant says of a step of the coordinator.
LEMMA AtStep ==
  ASSUME IInv, step # "idle"
  PROVE  /\ proc \in {"open", "recovering"} /\ Journaled(view) /\ view.journal # Absent
         /\ step \in {"source", "drain", "stop", "clear"} => view.journal.state = "prepared"
         /\ step \in {"workspace", "global", "commit"} => view.journal.state = "ready"
         /\ step = "finish" => view.journal.state = "committed"
         /\ proc = "open" => ~lease
         /\ proc = "open" /\ view.journal.state = "prepared" => view.journal.from = self
BY DEF IInv, StepHasJournal, Journaled

LEMMA SwitchStep ==
  ASSUME TypeOK, IInv, NEW to \in Profiles, Switch(to)
  PROVE  IInv'
<1>. DEFINE w == [view EXCEPT !.journal = Prepared(to)]
<1>1. /\ proc = "open" /\ step = "idle" /\ ~Journaled(view) /\ view.active = self /\ to # self
      /\ Durably(w) \/ Visibly(w)
      /\ step' = "source" /\ ~lease' /\ UNCHANGED <<proc, self, attempt, engine, logout>>
  BY DEF Switch, CanSwitch, Journaled
<1>2. /\ w.active = view.active /\ w.journal = Prepared(to)
      /\ Prepared(to) \in Journals /\ Prepared(to).state = "prepared" /\ Prepared(to).from = self
  BY PreparedIs, JournalIs
<1>3. ImagesSound'
  BY <1>1, <1>2, PreparedSound, ImagesPut DEF IInv
<1>4. view'.journal = Prepared(to) /\ Journaled(view')
  BY <1>1, <1>2, JournalFields DEF Durably, Visibly, Journaled
<1>5. StepHasJournal'
  BY <1>1, <1>2, <1>4 DEF StepHasJournal
<1>6. OnlyOpenActs' /\ EngineGone'
  BY <1>1, <1>2, <1>4 DEF OnlyOpenActs, EngineGone
<1>. QED  BY <1>3, <1>5, <1>6 DEF IInv

LEMMA SwitchRefusedStep ==
  ASSUME TypeOK, IInv, SwitchRefused
  PROVE  IInv'
<1>1. /\ proc = "open" /\ step = "idle" /\ ~Journaled(view) /\ view.active = self
      /\ UNCHANGED <<proc, self, lease, step, attempt, engine, bound, logout>>
  BY DEF SwitchRefused, CanSwitch, Journaled, connection
<1>2. /\ TornView.active = view.active /\ TornView.epoch = view.epoch
      /\ TornView.journal = Torn /\ ~Journaled(TornView)
  BY JournalIs DEF TornView, Journaled
<1>3. Sound(TornView)
  BY <1>1, <1>2, UnjournaledSound
<1>4. view \in disk
  BY DEF IInv, ImagesSound
<1>5. /\ view' \in {view, TornView} /\ view' \in disk' /\ disk' = disk \cup {TornView}
  BY <1>4 DEF SwitchRefused, Visibly
<1>6. ImagesSound'
  BY <1>2, <1>3, <1>5, ImagesStep DEF IInv
<1>7. view'.active = view.active /\ ~Journaled(view')
  BY <1>1, <1>2, <1>5
<1>. QED
  BY <1>1, <1>6, <1>7 DEF IInv, StepHasJournal, OnlyOpenActs, EngineGone

\* A flight that ends leaves the files as the last change made them.
LEMMA AbandonStep ==
  ASSUME IInv, step # "idle", Abandon, KeepConnection, ImagesSound',
         Journaled(view') => view'.journal = view.journal
  PROVE  IInv'
<1>1. /\ step' = "idle" /\ ~lease' /\ UNCHANGED <<self, logout, attempt, engine, bound>>
      /\ proc' = IF proc = "recovering" THEN "down" ELSE proc
      /\ proc \in {"open", "recovering"} /\ Journaled(view)
  BY AtStep DEF Abandon, KeepConnection, connection
<1>2. StepHasJournal'
  BY <1>1 DEF IInv, StepHasJournal
<1>3. OnlyOpenActs'
  BY <1>1 DEF IInv, OnlyOpenActs
<1>4. EngineGone'
  BY <1>1 DEF IInv, EngineGone
<1>. QED  BY <1>2, <1>3, <1>4 DEF IInv

LEMMA StepFailsStep ==
  ASSUME IInv, StepFails
  PROVE  IInv'
<1>1. ImagesSound' /\ view' = view
  BY ImagesKept DEF StepFails, IInv, Unchanged
<1>. QED  BY <1>1, AbandonStep DEF StepFails

LEMMA BarrierStep ==
  ASSUME TypeOK, IInv, SourceProven \/ Drained \/ EngineStopped
  PROVE  IInv'
<1>1. /\ step \in {"source", "drain", "stop"} /\ step' \in {"drain", "stop", "clear"}
      /\ Unchanged /\ view' = view /\ UNCHANGED <<proc, self, lease, logout>>
      /\ step' = "clear" => EngineStopped
      /\ ~EngineStopped => UNCHANGED <<attempt, engine>>
  BY DEF SourceProven, Drained, EngineStopped, Goto, KeepConnection, connection, Unchanged
<1>2. ImagesSound'
  BY <1>1, ImagesKept DEF IInv
<1>3. StepHasJournal'
  BY <1>1, AtStep DEF IInv, StepHasJournal
<1>4. OnlyOpenActs'
  BY <1>1 DEF IInv, OnlyOpenActs, EngineStopped, KeepConnection, connection
<1>5. EngineGone'
  BY <1>1, AtStep DEF IInv, EngineGone, EngineStopped
<1>. QED  BY <1>2, <1>3, <1>4, <1>5 DEF IInv

\* The step of the coordinator that changes a file and goes on.
LEMMA GoesOn ==
  ASSUME IInv, step # "idle", KeepConnection, UNCHANGED logout, NEW next, Goto(next),
         ImagesSound', Journaled(view'),
         view'.journal.from = view.journal.from, view'.journal.engine = view.journal.engine,
         \/ next \in {"workspace", "global", "commit"} /\ view'.journal.state = "ready"
         \/ next = "finish" /\ view'.journal.state = "committed",
         step = "clear" \/ view.journal.state # "prepared"
  PROVE  IInv'
<1>1. /\ step' = next /\ UNCHANGED <<proc, self, lease, attempt, engine, bound, logout>>
      /\ view'.journal.state # "prepared"
      /\ proc \in {"open", "recovering"} /\ Journaled(view) /\ (proc = "open" => ~lease)
  BY AtStep DEF Goto, KeepConnection, connection
<1>2. StepHasJournal'
  BY <1>1 DEF StepHasJournal
<1>3. OnlyOpenActs'
  BY <1>1 DEF IInv, OnlyOpenActs
<1>4. EngineGone'
  BY <1>1 DEF IInv, EngineGone
<1>. QED  BY <1>2, <1>3, <1>4 DEF IInv

LEMMA ReadyStep ==
  ASSUME TypeOK, IInv, Ready
  PROVE  IInv'
<1>1. Journaled(view) /\ view.journal.state = "prepared" /\ step = "clear"
  BY AtStep DEF Ready
<1>2. Durably(Written("ready")) \/ Visibly(Written("ready"))
  BY DEF Ready
<1>3. ImagesSound'
  BY <1>1, <1>2, ReadySound, WrittenIs, ImagesPut DEF IInv
<1>4. view' = Written("ready")
  BY <1>2 DEF Durably, Visibly
<1>. QED  BY <1>1, <1>3, <1>4, WrittenIs, GoesOn DEF Ready

LEMMA CommitStep ==
  ASSUME TypeOK, IInv, Commit
  PROVE  IInv'
<1>1. Journaled(view) /\ view.journal.state = "ready" /\ step = "commit"
  BY AtStep DEF Commit
<1>2. Durably(Written("committed")) \/ Visibly(Written("committed"))
  BY DEF Commit
<1>3. ImagesSound'
  BY <1>1, <1>2, CommittedSound, WrittenIs, ImagesPut DEF IInv, Commit
<1>4. view' = Written("committed")
  BY <1>2 DEF Durably, Visibly
<1>. QED  BY <1>1, <1>3, <1>4, WrittenIs, GoesOn DEF Commit

LEMMA WriteWorkspaceStep ==
  ASSUME TypeOK, IInv, WriteWorkspace
  PROVE  IInv'
<1>1. Journaled(view) /\ view.journal.state = "ready" /\ step = "workspace"
  BY AtStep DEF WriteWorkspace
<1>2. Durably(Activated) \/ Unchanged
  BY DEF WriteWorkspace, Put
<1>3. ImagesSound'
  BY <1>1, <1>2, ActivatedSound, ActivatedIs, ImagesPut, ImagesKept DEF IInv
<1>4. view'.journal = view.journal /\ Journaled(view')
  BY <1>1, <1>2, ActivatedIs DEF Durably, Unchanged, Journaled
<1>. QED  BY <1>1, <1>3, <1>4, GoesOn DEF WriteWorkspace

LEMMA WriteGlobalStep ==
  ASSUME TypeOK, IInv, WriteGlobal
  PROVE  IInv'
<1>1. Journaled(view) /\ view.journal.state = "ready" /\ step = "global"
  BY AtStep DEF WriteGlobal
<1>2. Durably(Selected) \/ Unchanged
  BY DEF WriteGlobal, Put
<1>3. ImagesSound'
  <2>1. CASE Durably(Selected)
    BY <1>1, <2>1, SelectedSound, ImagesStep DEF Durably, IInv
  <2>. QED  BY <1>2, <2>1, ImagesKept DEF IInv
<1>4. view'.journal = view.journal /\ Journaled(view')
  BY <1>1, <1>2, SelectedIs DEF Durably, Unchanged, Journaled
<1>. QED  BY <1>1, <1>3, <1>4, GoesOn DEF WriteGlobal

LEMMA TargetUndurableStep ==
  ASSUME TypeOK, IInv, TargetUndurable
  PROVE  IInv'
<1>1. Journaled(view) /\ view.journal.state = "ready" /\ step \in {"workspace", "global"}
  BY AtStep DEF TargetUndurable
<1>2. CASE Visibly(Activated)
  <2>1. ImagesSound'
    BY <1>1, <1>2, ActivatedSound, ActivatedIs, ImagesPut DEF IInv
  <2>2. view'.journal = view.journal
    BY <1>1, <1>2, ActivatedIs DEF Visibly
  <2>. QED  BY <1>1, <2>1, <2>2, AbandonStep DEF TargetUndurable
\* The image before the selection stays possible.
<1>3. CASE GlobalStatus(view, view.journal) = "before" /\ Visibly(Selected)
  <2>1. /\ view' = Selected /\ disk' = disk \cup {view'}
        /\ view'.active = view.journal.to /\ view'.journal = view.journal
        /\ view.active = view.journal.from
    BY <1>1, <1>3, SelectedIs DEF Visibly, GlobalStatus
  <2>2. view \in disk /\ \A v \in disk : Sound(v)
    BY DEF IInv, ImagesSound
  <2>3. Unconfirmed(view.active)'
    BY <1>1, <2>1, <2>2 DEF Unconfirmed, Journaled
  <2>4. ImagesSound'
    BY <1>1, <2>1, <2>2, <2>3, SelectedSound DEF ImagesSound
  <2>. QED  BY <1>1, <2>1, <2>4, AbandonStep DEF TargetUndurable
<1>. QED  BY <1>2, <1>3 DEF TargetUndurable

LEMMA FinishStep ==
  ASSUME TypeOK, IInv, Finish \/ FinishUndurable
  PROVE  IInv'
<1>1. Journaled(view) /\ step = "finish" /\ IsAfter(view, view.journal)
  BY AtStep DEF Finish, FinishUndurable
<1>2. Durably(Cleared) \/ Visibly(Cleared)
  BY DEF Finish, FinishUndurable
<1>3. ImagesSound'
  BY <1>1, <1>2, ClearedSound, ImagesPut DEF IInv
<1>4. view'.journal = Absent /\ ~Journaled(view')
  BY <1>1, <1>2, ClearedSound DEF Durably, Visibly, Journaled
<1>5. CASE FinishUndurable
  BY <1>1, <1>3, <1>4, <1>5, AbandonStep DEF FinishUndurable
<1>6. CASE Finish
  BY <1>3, <1>4, <1>6
    DEF Finish, KeepConnection, connection, IInv, StepHasJournal, OnlyOpenActs, EngineGone
<1>. QED  BY <1>5, <1>6

-----------------------------------------------------------------------------
(* Beside the coordinator *)

\* What goes on beside the coordinator keeps the journal and its step, and
\* starts no engine for a gated context.
LEMMA BesideStep ==
  ASSUME IInv, Coordinator, ImagesSound',
         view'.journal = view.journal, view'.active = view.active,
         engine' \in {engine, "none", "unleased"} \/ (engine' = "running" /\ proc = "open" /\ lease)
           \/ (engine' = "running" /\ proc = "leaving"),
         proc \in {"down", "recovering"} => ~attempt' /\ ~logout'
  PROVE  IInv'
<1>1. UNCHANGED <<proc, self, lease, step>>
  BY DEF Coordinator
<1>2. StepHasJournal'
  BY <1>1 DEF IInv, StepHasJournal, Journaled
<1>3. OnlyOpenActs'
  BY <1>1 DEF OnlyOpenActs
<1>4. EngineGone'
  BY <1>1 DEF IInv, StepHasJournal, EngineGone, Journaled
<1>. QED  BY <1>2, <1>3, <1>4 DEF IInv

LEMMA SaveStep ==
  ASSUME TypeOK, IInv, NEW o \in Options, Save(o) \/ SaveFails(o)
  PROVE  IInv'
<1>1. proc = "open" /\ ~Journaled(view) /\ Coordinator /\ KeepConnection /\ UNCHANGED logout
  BY DEF IInv, StepHasJournal, Save, SaveFails
<1>2. CASE Save(o)
  <2>. DEFINE w == [view EXCEPT !.options = o, !.redo = Absent]
  <2>1. w.active = view.active /\ w.epoch = view.epoch /\ w.journal = view.journal
    BY OptionsAre
  <2>2. Sound(w)
    BY <1>1, <2>1, UnjournaledSound DEF Journaled
  <2>3. ImagesSound' /\ view' = w
    BY <1>2, <2>1, <2>2, ImagesPut DEF IInv, Save, Durably
  <2>. QED  BY <1>1, <2>1, <2>3, BesideStep DEF KeepConnection, connection
<1>3. CASE SaveFails(o)
  <2>1. \A w \in {Intended(o), [Intended(o) EXCEPT !.options = o]} :
          /\ w.active = view.active /\ w.journal = view.journal /\ Sound(w)
    BY <1>1, OptionsAre, UnjournaledSound DEF Journaled
  <2>2. /\ view' \in {Intended(o), [Intended(o) EXCEPT !.options = o]}
        /\ disk' = disk \cup {Intended(o), view'}
    BY <1>3 DEF SaveFails
  <2>3. ImagesSound'
    BY <2>1, <2>2, ImagesStep DEF IInv
  <2>. QED  BY <1>1, <2>1, <2>2, <2>3, BesideStep DEF KeepConnection, connection
<1>. QED  BY <1>2, <1>3

LEMMA CredentialStep ==
  ASSUME TypeOK, IInv, ReplaceCredential \/ LogoutEnds
  PROVE  IInv'
<1>1. /\ Coordinator /\ KeepConnection /\ proc \in {"open", "leaving"}
      /\ Durably(CredentialChanged) \/ Visibly(CredentialChanged) \/ Unchanged
      /\ logout' => logout
  BY DEF ReplaceCredential, LogoutEnds, IInv, OnlyOpenActs, TypeOK
<1>2. Journaled(view) => (view.journal.state = "prepared" => view.journal.from = self)
  BY <1>1 DEF IInv, StepHasJournal, Journaled
<1>3. CASE Unchanged
  <2>1. ImagesSound' /\ view' = view
    BY <1>3, ImagesKept DEF IInv, Unchanged
  <2>. QED  BY <1>1, <2>1, BesideStep DEF KeepConnection, connection
<1>4. CASE Durably(CredentialChanged) \/ Visibly(CredentialChanged)
  <2>1. ImagesSound' /\ view' = CredentialChanged
    BY <1>2, <1>4, CredentialSound, ImagesPut DEF IInv, Durably, Visibly
  <2>. QED  BY <1>1, <1>2, <2>1, CredentialSound, BesideStep DEF KeepConnection, connection
<1>. QED  BY <1>1, <1>3, <1>4

LEMMA ConnectionStep ==
  ASSUME TypeOK, IInv,
         LogoutStarts \/ Connect \/ Spawn \/ AttemptGivesUp \/ EngineExits \/ Disconnect
  PROVE  IInv'
<1>1. Unchanged /\ Coordinator /\ view' = view
  BY DEF LogoutStarts, Connect, Spawn, AttemptGivesUp, EngineExits, Disconnect, Unchanged
<1>2. ImagesSound'
  BY <1>1, ImagesKept DEF IInv
<1>3. \/ engine' \in {engine, "none", "unleased"}
      \/ engine' = "running" /\ lease /\ attempt
  BY DEF LogoutStarts, Connect, Spawn, AttemptGivesUp, EngineExits, Disconnect, KeepConnection,
         connection
<1>4. attempt => proc \in {"open", "leaving"}
  BY DEF IInv, OnlyOpenActs, TypeOK
<1>5. proc \in {"down", "recovering"} => ~attempt' /\ ~logout'
  BY DEF LogoutStarts, Connect, Spawn, AttemptGivesUp, EngineExits, Disconnect, KeepConnection,
         connection, IInv, OnlyOpenActs
<1>. QED  BY <1>1, <1>2, <1>3, <1>4, <1>5, BesideStep

-----------------------------------------------------------------------------
(* The process *)

LEMMA RecoverStep ==
  ASSUME TypeOK, IInv, Recover
  PROVE  IInv'
<1>1. Unchanged /\ view' = view /\ Journaled(view) /\ proc = "down" /\ proc' = "recovering"
      /\ step' = FirstStep(view.journal.state)
      /\ UNCHANGED <<attempt, engine, bound, logout>>
  BY DEF Recover, Unchanged, Journaled, KeepConnection, connection
<1>2. view.journal.state \in {"prepared", "ready", "committed"}
  BY <1>1, Facts, JournalFields
<1>3. \/ step' = "source" /\ view.journal.state = "prepared"
      \/ step' = "workspace" /\ view.journal.state = "ready"
      \/ step' = "finish" /\ view.journal.state = "committed"
  BY <1>1, <1>2 DEF FirstStep
<1>4. ImagesSound'
  BY <1>1, ImagesKept DEF IInv
<1>5. StepHasJournal'
  BY <1>1, <1>3 DEF StepHasJournal
<1>6. OnlyOpenActs'
  BY <1>1 DEF IInv, OnlyOpenActs
<1>7. EngineGone'
  BY <1>1, <1>3 DEF IInv, EngineGone
<1>. QED  BY <1>4, <1>5, <1>6, <1>7 DEF IInv

LEMMA OpensStep ==
  ASSUME TypeOK, IInv, Opens
  PROVE  IInv'
<1>1. /\ proc = "down" /\ view.journal = Absent /\ ~Journaled(view)
      /\ proc' = "open" /\ self' = view.active /\ lease'
      /\ UNCHANGED <<attempt, engine, bound, step, logout>>
  BY DEF Opens, Journaled, KeepConnection, connection
<1>2. step = "idle"
  BY <1>1 DEF IInv, StepHasJournal
<1>3. ImagesSound' /\ view'.journal = Absent /\ view'.active = view.active
  <2>1. CASE view.redo = Absent
    BY <1>1, <2>1, ImagesKept DEF Opens, Unchanged, IInv
  <2>2. CASE view.redo # Absent
    <3>. DEFINE w == [view EXCEPT !.options = view.redo.options, !.redo = Absent]
    <3>1. view.redo.options \in Options
      BY <2>2, Facts DEF Intents
    <3>2. w.active = view.active /\ w.epoch = view.epoch /\ w.journal = Absent
      BY <1>1, <3>1, OptionsAre
    <3>3. Sound(w)
      BY <1>1, <3>2, UnjournaledSound DEF Journaled
    <3>. QED  BY <2>2, <3>2, <3>3, ImagesPut DEF Opens, Durably, IInv
  <2>. QED  BY <2>1, <2>2
<1>. QED
  BY <1>1, <1>2, <1>3 DEF IInv, StepHasJournal, OnlyOpenActs, EngineGone, Journaled

LEMMA StopsStep ==
  ASSUME TypeOK, IInv, ProcessExits \/ PowerLoss
  PROVE  IInv'
<1>1. proc' = "down" /\ ~lease' /\ step' = "idle" /\ ~attempt' /\ ~bound' /\ ~logout'
  BY DEF ProcessExits, PowerLoss, Down
<1>2. CASE PowerLoss
  <2>1. engine' = "none" /\ view' \in disk /\ disk' = {view'}
    BY <1>2 DEF PowerLoss
  <2>2. ImagesSound'
    BY <2>1 DEF IInv, ImagesSound
  <2>. QED
    BY <1>1, <2>1, <2>2 DEF IInv, StepHasJournal, OnlyOpenActs, EngineGone
<1>3. CASE ProcessExits
  <2>1. engine' \in {"none", "left", engine}
        /\ (engine' = "left" => engine \in {"running", "left"}) /\ engine' # "running"
    BY <1>3 DEF ProcessExits, TypeOK
  <2>2. CASE Unchanged
    <3>1. ImagesSound' /\ view' = view
      BY <2>2, ImagesKept DEF IInv, Unchanged
    <3>. QED
      BY <1>1, <2>1, <3>1 DEF IInv, StepHasJournal, OnlyOpenActs, EngineGone
  <2>3. CASE CanSwitch /\ Visibly(TornView)
    <3>1. /\ ~Journaled(view) /\ ~Journaled(TornView)
          /\ TornView.active = view.active /\ TornView.epoch = view.epoch
      BY <2>3, JournalIs DEF CanSwitch, TornView, Journaled
    <3>2. ImagesSound' /\ view' = TornView
      BY <2>3, <3>1, UnjournaledSound, ImagesPut DEF IInv, Visibly
    <3>. QED
      BY <1>1, <3>1, <3>2 DEF IInv, StepHasJournal, OnlyOpenActs, EngineGone
  <2>. QED  BY <1>3, <2>2, <2>3 DEF ProcessExits
<1>. QED  BY <1>2, <1>3

-----------------------------------------------------------------------------
(* The theorems *)

LEMMA IInvInit == Init => TypeOK /\ IInv
<1>. SUFFICES ASSUME Init PROVE TypeOK /\ IInv
  OBVIOUS
<1>1. PICK p \in Profiles, o \in Options :
        /\ view = [active |-> p, options |-> o, epoch |-> [q \in Profiles |-> 1],
                   rev |-> [q \in Profiles |-> 1], journal |-> Absent, redo |-> Absent]
        /\ disk = {view}
        /\ proc = "down" /\ self = p /\ lease = FALSE /\ step = "idle"
        /\ attempt = FALSE /\ engine = "none" /\ bound = FALSE /\ logout = FALSE
  BY DEF Init
<1>2. [q \in Profiles |-> 1] \in [Profiles -> Counters]
  BY DEF Counters
<1>3. view \in Views
  BY <1>1, <1>2 DEF Views
<1>4. TypeOK
  BY <1>1, <1>3 DEF TypeOK, Steps
<1>5. view \in disk /\ ~Journaled(view) /\ Sound(view)
  BY <1>1 DEF Journaled, Sound, Latest
<1>6. ImagesSound
  BY <1>1, <1>5 DEF ImagesSound
<1>7. StepHasJournal /\ OnlyOpenActs /\ EngineGone
  BY <1>1, <1>5 DEF StepHasJournal, OnlyOpenActs, EngineGone
<1>. QED  BY <1>4, <1>6, <1>7 DEF IInv

LEMMA IInvStep ==
  ASSUME TypeOK, IInv, [Next]_vars
  PROVE  TypeOK' /\ IInv'
<1>1. TypeOK'
  BY TypeStep
<1>2. CASE UNCHANGED vars
  <2>1. ImagesSound'
    BY <1>2, ImagesKept DEF vars, Unchanged, IInv
  <2>2. StepHasJournal' /\ OnlyOpenActs' /\ EngineGone'
    BY <1>2 DEF vars, connection, IInv, StepHasJournal, OnlyOpenActs, EngineGone
  <2>. QED  BY <1>1, <2>1, <2>2 DEF IInv
<1>3. CASE Next
  <2>1. IInv'
    BY <1>3, SwitchStep, SwitchRefusedStep, StepFailsStep, BarrierStep, ReadyStep, CommitStep,
       WriteWorkspaceStep, WriteGlobalStep, TargetUndurableStep, FinishStep, SaveStep,
       CredentialStep, ConnectionStep, RecoverStep, OpensStep, StopsStep DEF Next
  <2>. QED  BY <1>1, <2>1
<1>. QED  BY <1>2, <1>3

\* The invariant holds in every reachable state, for any number of profiles, of
\* switches and of changes that are not yet durable.
THEOREM InvariantCorrect == Spec => [](TypeOK /\ IInv)
<1>1. Init => TypeOK /\ IInv
  BY IInvInit
<1>2. (TypeOK /\ IInv) /\ [Next]_vars => (TypeOK /\ IInv)'
  BY IInvStep
<1>. QED  BY <1>1, <1>2, PTL DEF Spec

\* Whatever image a power loss leaves, a start can carry on the journal in it:
\* nothing beside the switch disturbs what it has recorded.
THEOREM AlwaysResumable == Spec => []JournalResumable
<1>1. TypeOK /\ IInv => JournalResumable
  BY DEF IInv, ImagesSound, Sound, Journaled, JournalResumable
<1>. QED  BY <1>1, InvariantCorrect, PTL

\* The program never serves a profile that a power loss could replace by
\* another, unless no change since the selection was confirmed.
THEOREM ServesStored == Spec => []ServedIsStored
<1>1. TypeOK /\ IInv => ServedIsStored
  <2>1. IInv /\ lease /\ proc = "open" => view.active = self
    BY DEF IInv, StepHasJournal
  <2>. QED  BY <2>1 DEF IInv, ImagesSound, ServedIsStored
<1>. QED  BY <1>1, InvariantCorrect, PTL

\* Without an unfinished switch, the epoch of the active Workspace is above
\* every other that was ever given.
THEOREM EpochIsLatest == Spec => []ActiveEpochIsLatest
<1>1. TypeOK /\ IInv => ActiveEpochIsLatest
  BY DEF IInv, ImagesSound, Sound, Latest, Journaled, ActiveEpochIsLatest
<1>. QED  BY <1>1, InvariantCorrect, PTL

\* The destination is activated only when the engine the journal has recorded
\* is gone, whatever crashes, retries or connection attempts lie between.
THEOREM OldEngineIsRetired == Spec => []OldEngineRetired
<1>1. TypeOK /\ IInv => OldEngineRetired
  BY DEF IInv, EngineGone, Journaled, OldEngineRetired
<1>. QED  BY <1>1, InvariantCorrect, PTL
===============================================================================
