---------------------------- MODULE ContextSwitch ----------------------------
(***************************************************************************)
(* The switch of the program from one school profile to another: the       *)
(* coordinator and its journal, the activation of the destination, the     *)
(* recovery at start-up, and what may go on beside them in the running     *)
(* program: settings, credentials, a logout, connection attempts.          *)
(*                                                                         *)
(* An action of the coordinator ends at an await or after one change of    *)
(* one file with the fsync of its directory, which is durable, or visible  *)
(* without being durable; any step may also fail with no effect.  `view'   *)
(* is what the program reads, `disk' the images a power loss may leave.    *)
(***************************************************************************)
EXTENDS Naturals

CONSTANTS
  Profiles,   \* installed school profiles, each with its primary account
  Options,    \* contents of GlobalSettings besides the active profile
  Absent,     \* no such file
  Torn        \* a journal whose creation was cut off

VARIABLES
  view,     \* the files as the running program reads them
  disk,     \* the images that may survive a power loss
  proc,     \* "down", "recovering" (before its services), "open" or "leaving"
  self,     \* the profile the process was composed for
  lease,    \* ActiveContextLease holds a context
  step,     \* the coordinator's next step, "idle" when it is not running
  attempt,  \* a connection attempt is being prepared
  engine,   \* "none", "running" (leased), "unleased", or "left" by a process
  bound,    \* the supervisor's generation is the one the journal has recorded
  logout    \* a logout is waiting for its disconnect

connection == <<attempt, engine, bound>>
vars == <<view, disk, proc, self, lease, step, attempt, engine, bound, logout>>

Counters == Nat \ {0}

Journals ==
  [state : {"prepared", "ready", "committed"}, from : Profiles, to : Profiles,
   fromRev : Counters, fromEpoch : Counters, toRev : Counters, toEpoch : Counters,
   next : Counters, options : Options, engine : BOOLEAN]

\* A settings intent names the profile and the Account revision it is bound to.
Intents == [profile : Profiles, rev : Counters, options : Options]

ASSUME FilesAssumption ==
  /\ Absent # Torn
  /\ {Absent, Torn} \cap Journals = {}
  /\ Absent \notin Intents

\* GlobalSettings (active profile, other options), activeContextEpoch of each
\* Workspace, accountCredentialRevision of each Account, the two logs.
Views ==
  [active : Profiles, options : Options,
   epoch : [Profiles -> Counters], rev : [Profiles -> Counters],
   journal : Journals \cup {Absent, Torn}, redo : Intents \cup {Absent}]

Steps == {"idle", "source", "drain", "stop", "clear",
          "workspace", "global", "commit", "finish"}

TypeOK ==
  /\ view \in Views
  /\ disk \in SUBSET Views
  /\ proc \in {"down", "recovering", "open", "leaving"}
  /\ self \in Profiles
  /\ lease \in BOOLEAN
  /\ step \in Steps
  /\ attempt \in BOOLEAN
  /\ engine \in {"none", "running", "unleased", "left"}
  /\ bound \in BOOLEAN
  /\ logout \in BOOLEAN

\* Migration and provisioning leave every Workspace at epoch 1.
Init ==
  \E p \in Profiles, o \in Options :
    /\ view = [active |-> p, options |-> o, epoch |-> [q \in Profiles |-> 1],
               rev |-> [q \in Profiles |-> 1], journal |-> Absent, redo |-> Absent]
    /\ disk = {view}
    /\ proc = "down" /\ self = p /\ lease = FALSE /\ step = "idle"
    /\ attempt = FALSE /\ engine = "none" /\ bound = FALSE /\ logout = FALSE

-----------------------------------------------------------------------------
(* Files.                                                                  *)

Unchanged == UNCHANGED <<view, disk>>

Durably(v) == view' = v /\ disk' = {v}

Visibly(v) == view' = v /\ disk' = disk \cup {v}

Written(state) == [view EXCEPT !.journal.state = state]

\* The receipts a journal has of its two activation targets.
GlobalStatus(v, j) ==
  IF v.options # j.options THEN "unknown"
  ELSE IF v.active = j.from THEN "before"
  ELSE IF v.active = j.to THEN "after" ELSE "unknown"

WorkspaceStatus(v, j) ==
  IF v.epoch[j.to] = j.toEpoch THEN "before"
  ELSE IF v.epoch[j.to] = j.next THEN "after" ELSE "unknown"

IsBefore(v, j) == GlobalStatus(v, j) = "before" /\ WorkspaceStatus(v, j) = "before"

IsAfter(v, j) == GlobalStatus(v, j) = "after" /\ WorkspaceStatus(v, j) = "after"

IsKnown(v, j) == GlobalStatus(v, j) # "unknown" /\ WorkspaceStatus(v, j) # "unknown"

\* The source is the recorded context.  Start-up also takes one whose
\* credential has been replaced or retired after the journal was prepared.
SourceIs(v, j, revisions) ==
  /\ v.active = j.from
  /\ v.epoch[j.from] = j.fromEpoch
  /\ v.rev[j.from] \in revisions

DestinationIs(v, j) == v.epoch[j.to] = j.toEpoch /\ v.rev[j.to] = j.toRev

Maximum(a, b) == IF a > b THEN a ELSE b

-----------------------------------------------------------------------------
(* The coordinator.                                                        *)

Goto(next) == step' = next /\ UNCHANGED <<proc, self, lease>>

KeepConnection == UNCHANGED connection

\* A step that does not confirm ends the flight.  The running program stays
\* open and gated; a start ends.  The journal stays for the next start.
Abandon ==
  /\ step' = "idle"
  /\ lease' = FALSE
  /\ proc' = IF proc = "recovering" THEN "down" ELSE proc
  /\ UNCHANGED <<self, logout>>

StepFails == step # "idle" /\ Abandon /\ Unchanged /\ KeepConnection

\* Mutant: the destination's own epoch is raised.
PreparedFromDestination(to) ==
  [state |-> "prepared", from |-> self, to |-> to,
   fromRev |-> view.rev[self], fromEpoch |-> view.epoch[self],
   toRev |-> view.rev[to], toEpoch |-> view.epoch[to],
   next |-> view.epoch[to] + 1,
   options |-> view.options, engine |-> engine \in {"running", "unleased"}]

Prepared(to) ==
  [state |-> "prepared", from |-> self, to |-> to,
   fromRev |-> view.rev[self], fromEpoch |-> view.epoch[self],
   toRev |-> view.rev[to], toEpoch |-> view.epoch[to],
   next |-> Maximum(view.epoch[self], view.epoch[to]) + 1,
   options |-> view.options, engine |-> engine \in {"running", "unleased"}]

CanSwitch == proc = "open" /\ step = "idle" /\ view.journal = Absent /\ view.active = self

\* Mutant: the lease is not invalidated with the Browser gate.
SwitchUngated(to) ==
  /\ CanSwitch /\ to # self
  /\ LET v == [view EXCEPT !.journal = Prepared(to)] IN Durably(v) \/ Visibly(v)
  /\ step' = "source"
  /\ bound' = TRUE
  /\ UNCHANGED <<proc, self, lease, attempt, engine, logout>>

\* The plan is made from the files, the journal is created, and the lease is
\* invalidated, all before the next event; then the Browser is suspended.
Switch(to) ==
  /\ CanSwitch /\ to # self
  /\ LET v == [view EXCEPT !.journal = Prepared(to)] IN Durably(v) \/ Visibly(v)
  /\ step' = "source"
  /\ lease' = FALSE
  /\ bound' = TRUE
  /\ UNCHANGED <<proc, self, attempt, engine, logout>>

TornView == [view EXCEPT !.journal = Torn]

\* The journal cannot be written: it is unlinked again, if that succeeds.
SwitchRefused ==
  /\ CanSwitch
  /\ \/ view' = view /\ disk' = disk \cup {TornView}
     \/ Visibly(TornView)
  /\ UNCHANGED <<proc, self, lease, step, connection, logout>>

\* Mutant: recovery insists on the recorded credential revision.
ExactRevisions == {view.journal.fromRev}

\* The running program insists on the recorded credential revision.
CurrentRevisions ==
  IF proc = "open" THEN {view.journal.fromRev} ELSE view.journal.fromRev..view.rev[self]

SourceProven ==
  /\ step = "source"
  /\ IsBefore(view, view.journal) /\ SourceIs(view, view.journal, CurrentRevisions)
  /\ Goto("drain")
  /\ Unchanged /\ KeepConnection /\ UNCHANGED logout

\* Authentication, connectivity and queued mutations are cancelled, the running
\* mutation has ended, and the Browser workspace is closed.
Drained ==
  /\ step = "drain" /\ ~logout
  /\ Goto("stop")
  /\ Unchanged /\ KeepConnection /\ UNCHANGED logout

\* Mutant: a generation that is not current counts as stopped.
StopAssumed ==
  /\ step = "stop"
  /\ IF view.journal.engine /\ bound
       THEN engine' = "none" /\ attempt' = FALSE /\ bound' = FALSE
       ELSE KeepConnection
  /\ Goto("clear")
  /\ Unchanged /\ UNCHANGED logout

\* A journal without a generation skips the stop.  The running program stops
\* the recorded generation only; a start removes the engine a process has left.
EngineStopped ==
  /\ step = "stop"
  /\ IF view.journal.engine
       THEN /\ bound \/ proc = "recovering"
            /\ engine' = "none" /\ attempt' = FALSE /\ bound' = FALSE
       ELSE KeepConnection
  /\ Goto("clear")
  /\ Unchanged /\ UNCHANGED logout

\* Proxy access and server state are gone and the destination is the one the
\* journal names: the journal is marked, durably or not.
Ready ==
  /\ step = "clear" /\ DestinationIs(view, view.journal)
  /\ Durably(Written("ready")) \/ Visibly(Written("ready"))
  /\ Goto("workspace")
  /\ KeepConnection /\ UNCHANGED logout

Activated == [view EXCEPT !.epoch[view.journal.to] = view.journal.next]

Selected == [view EXCEPT !.active = view.journal.to]

\* A target that is already written is skipped; a write must be durable.
Put(status, v) == (status = "before" /\ Durably(v)) \/ (status = "after" /\ Unchanged)

WriteWorkspace ==
  /\ step = "workspace" /\ IsKnown(view, view.journal)
  /\ Put(WorkspaceStatus(view, view.journal), Activated)
  /\ Goto("global")
  /\ KeepConnection /\ UNCHANGED logout

WriteGlobal ==
  /\ step = "global" /\ IsKnown(view, view.journal)
  /\ Put(GlobalStatus(view, view.journal), Selected)
  /\ Goto("commit")
  /\ KeepConnection /\ UNCHANGED logout

TargetUndurable ==
  /\ step \in {"workspace", "global"} /\ IsKnown(view, view.journal)
  /\ \/ step = "workspace" /\ WorkspaceStatus(view, view.journal) = "before" /\ Visibly(Activated)
     \/ step = "global" /\ GlobalStatus(view, view.journal) = "before" /\ Visibly(Selected)
  /\ Abandon
  /\ KeepConnection

Commit ==
  /\ step = "commit" /\ IsAfter(view, view.journal)
  /\ Durably(Written("committed")) \/ Visibly(Written("committed"))
  /\ Goto("finish")
  /\ KeepConnection /\ UNCHANGED logout

Cleared == [view EXCEPT !.journal = Absent]

\* The journal is removed and the program is to be relaunched.
Finish ==
  /\ step = "finish" /\ IsAfter(view, view.journal)
  /\ Durably(Cleared)
  /\ step' = "idle" /\ proc' = "leaving"
  /\ KeepConnection /\ UNCHANGED <<self, lease, logout>>

FinishUndurable ==
  /\ step = "finish" /\ IsAfter(view, view.journal)
  /\ Visibly(Cleared)
  /\ Abandon
  /\ KeepConnection

-----------------------------------------------------------------------------
(* Beside the coordinator.                                                 *)

Coordinator == UNCHANGED <<proc, self, lease, step>>

IntentBound == view.redo # Absent => view.redo.profile = view.active
                                     /\ view.redo.rev = view.rev[view.active]

\* Mutant: the queue does not look at the token again.
SaveAnytime(o) ==
  /\ proc = "open" /\ IntentBound
  /\ Durably([view EXCEPT !.options = o, !.redo = Absent])
  /\ Coordinator /\ KeepConnection /\ UNCHANGED logout

\* A save of the global options finishes an intent of an earlier save first.
Save(o) ==
  /\ proc = "open" /\ lease /\ IntentBound
  /\ Durably([view EXCEPT !.options = o, !.redo = Absent])
  /\ Coordinator /\ KeepConnection /\ UNCHANGED logout

Intended(o) ==
  [view EXCEPT !.redo = [profile |-> self, rev |-> view.rev[self], options |-> o]]

\* The save fails after its intent, before or after GlobalSettings is written.
SaveFails(o) ==
  /\ proc = "open" /\ lease /\ view.redo = Absent
  /\ view' \in {Intended(o), [Intended(o) EXCEPT !.options = o]}
  /\ disk' = disk \cup {Intended(o), view'}
  /\ Coordinator /\ KeepConnection /\ UNCHANGED logout

CredentialChanged == [view EXCEPT !.rev[self] = @ + 1]

ReplaceCredential ==
  /\ proc = "open" /\ lease
  /\ Durably(CredentialChanged) \/ Visibly(CredentialChanged)
  /\ Coordinator /\ KeepConnection /\ UNCHANGED logout

LogoutStarts ==
  /\ proc = "open" /\ lease /\ ~logout
  /\ logout' = TRUE
  /\ Unchanged /\ Coordinator /\ KeepConnection

\* Past its disconnect, a logout does not ask for the context again.
LogoutEnds ==
  /\ logout
  /\ logout' = FALSE
  /\ \/ engine = "none" /\ (Durably(CredentialChanged) \/ Visibly(CredentialChanged))
     \/ Unchanged
  /\ Coordinator /\ KeepConnection

\* A connection is wanted: by the user, at start-up or by a retry.
Connect ==
  /\ proc = "open" /\ ~attempt /\ engine \in {"none", "left"}
  /\ attempt' = TRUE
  /\ Unchanged /\ Coordinator /\ UNCHANGED <<engine, bound, logout>>

\* The engine is started, in place of one a process has left; then the lease is
\* captured, which throws when the context is gated.
Spawn ==
  /\ attempt /\ engine \in {"none", "left"}
  /\ attempt' = FALSE
  /\ engine' = IF lease THEN "running" ELSE "unleased"
  /\ bound' = FALSE
  /\ Unchanged /\ Coordinator /\ UNCHANGED logout

AttemptGivesUp ==
  /\ attempt /\ attempt' = FALSE
  /\ Unchanged /\ Coordinator /\ UNCHANGED <<engine, bound, logout>>

EngineExits ==
  /\ engine # "none" /\ engine' = "none"
  /\ Unchanged /\ Coordinator /\ UNCHANGED <<attempt, bound, logout>>

\* The user, an outage or a logout stops whatever there is.
Disconnect ==
  /\ proc = "open"
  /\ attempt' = FALSE /\ bound' = FALSE
  /\ engine' = IF engine = "left" THEN engine ELSE "none"
  /\ Unchanged /\ Coordinator /\ UNCHANGED logout

-----------------------------------------------------------------------------
(* The process.                                                            *)

FirstStep(state) ==
  CASE state = "prepared" -> "source"
    [] state = "ready" -> "workspace"
    [] state = "committed" -> "finish"

\* A start with a journal recovers before anything else.
Recover ==
  /\ proc = "down" /\ view.journal \notin {Absent, Torn}
  /\ proc' = "recovering" /\ self' = view.active
  /\ step' = FirstStep(view.journal.state)
  /\ lease' = (view.journal.state # "prepared")
  /\ Unchanged /\ KeepConnection /\ UNCHANGED logout

\* A start without one finishes a settings intent and opens the program.
Opens ==
  /\ proc = "down" /\ view.journal = Absent /\ IntentBound
  /\ proc' = "open" /\ self' = view.active /\ lease' = TRUE
  /\ IF view.redo = Absent THEN Unchanged
     ELSE Durably([view EXCEPT !.options = view.redo.options, !.redo = Absent])
  /\ KeepConnection /\ UNCHANGED <<step, logout>>

Down ==
  /\ proc # "down"
  /\ proc' = "down" /\ lease' = FALSE /\ step' = "idle"
  /\ attempt' = FALSE /\ bound' = FALSE /\ logout' = FALSE
  /\ UNCHANGED self

\* An engine outlives its process, except one that was never given its input.
ProcessExits ==
  /\ Down
  /\ engine' = IF engine = "unleased" THEN "none" ELSE IF engine = "running" THEN "left" ELSE engine
  /\ Unchanged \/ (CanSwitch /\ Visibly(TornView))

PowerLoss ==
  /\ Down
  /\ engine' = "none"
  /\ view' \in disk
  /\ disk' = {view'}

Next ==
  \/ \E to \in Profiles : Switch(to)
  \/ SwitchRefused \/ StepFails
  \/ SourceProven \/ Drained \/ EngineStopped \/ Ready
  \/ WriteWorkspace \/ WriteGlobal \/ TargetUndurable
  \/ Commit \/ Finish \/ FinishUndurable
  \/ \E o \in Options : Save(o) \/ SaveFails(o)
  \/ ReplaceCredential \/ LogoutStarts \/ LogoutEnds
  \/ Connect \/ Spawn \/ AttemptGivesUp \/ EngineExits \/ Disconnect
  \/ Recover \/ Opens \/ ProcessExits \/ PowerLoss

Spec == Init /\ [][Next]_vars

\* A program that is gated, or is to be relaunched, is left.
Leave == proc = "leaving" \/ (proc = "open" /\ ~lease /\ step = "idle")

Settles ==
  \/ SourceProven \/ Drained \/ EngineStopped \/ Ready
  \/ WriteWorkspace \/ WriteGlobal \/ Commit \/ Finish \/ StepFails

\* Every step settles one way or the other, and one that is tried again and
\* again succeeds some time; the user leaves a program that is gated and starts
\* it again.
Fairness ==
  /\ WF_vars(Settles)
  /\ SF_vars(SourceProven) /\ SF_vars(Drained) /\ SF_vars(EngineStopped)
  /\ SF_vars(Ready) /\ SF_vars(WriteWorkspace) /\ SF_vars(WriteGlobal)
  /\ SF_vars(Commit) /\ SF_vars(Finish)
  /\ WF_vars(LogoutEnds) /\ WF_vars(Recover) /\ WF_vars(Leave /\ ProcessExits)

-----------------------------------------------------------------------------
(* Properties.                                                             *)

Resumable(v) ==
  LET j == v.journal IN
    CASE j.state = "prepared" ->
           /\ IsBefore(v, j) /\ DestinationIs(v, j)
           /\ \E n \in 0..v.rev[j.from] : SourceIs(v, j, {j.fromRev + n})
      [] j.state = "ready" -> IsKnown(v, j)
      [] j.state = "committed" -> IsAfter(v, j)

\* Whatever image a power loss leaves, a journal in it finds its source, its
\* destination and both activation targets as it has recorded them: nothing
\* that goes on beside the switch changes them, so a start can carry it on.
\* (With the types.)
JournalResumable ==
  TypeOK /\ \A v \in disk \cup {view} : v.journal \in {Absent, Torn} \/ Resumable(v)

\* No change has become durable since the destination p was selected: the image
\* just before its selection may still come back.
Unconfirmed(p) ==
  \E v \in disk : /\ v.journal \notin {Absent, Torn} /\ v.journal.state = "ready"
                 /\ v.journal.to = p /\ v.active = v.journal.from

\* While the program serves a context, every image a power loss may leave names
\* the same active profile: an activation is never taken back, and never made
\* beneath a program that still works for the old profile.  Excused is an
\* activation none of whose changes were confirmed by their fsync, up to the
\* removal of the journal: a start that finds a target written does not sync it.
ServedIsStored ==
  lease /\ proc = "open" =>
    (\A v \in disk \cup {view} : v.active = self) \/ Unconfirmed(self)

\* Without an unfinished switch the active Workspace has the latest epoch, so
\* no token of an earlier context can be taken for one of the current context.
ActiveEpochIsLatest ==
  \A v \in disk \cup {view} :
    v.journal = Absent =>
      \A p \in Profiles \ {v.active} : v.epoch[p] = 1 \/ v.epoch[p] < v.epoch[v.active]

\* Once the destination may be activated, the engine that the journal has
\* recorded is gone: neither running in this process nor left by another.
OldEngineRetired ==
  view.journal \notin {Absent, Torn} /\ view.journal.engine
    /\ view.journal.state # "prepared" =>
      engine \notin {"running", "left"}

Pending == view.journal \notin {Absent, Torn}

\* A switch that was begun is finished, or was never durable: no journal stays
\* for ever, whatever fails on the way.
SwitchEnds == Pending ~> ~Pending

\* ADR-0029: a start that carries a switch on confirms that no engine of an
\* earlier process remains before it activates the destination.
RecoveryLeavesNoEngine ==
  proc = "recovering" /\ step \in {"workspace", "global", "commit", "finish"} =>
    engine = "none"
=============================================================================
