-------------------------- MODULE WorkspaceRedoLogs --------------------------
(***************************************************************************)
(* The two redo logs of one Profile Workspace: the credential transaction  *)
(* (VPN credential and Account document) and the settings transaction      *)
(* (global and Workspace settings), the operations that write them, and    *)
(* the start-up of the program that resumes them.                          *)
(*                                                                         *)
(* An action is one change of one file with the fsync of its directory, as *)
(* in CredentialSettingsTransaction: it succeeds, takes effect without     *)
(* being durable, or fails with no effect, and the process or the machine  *)
(* may stop between any two of them.  `view' is what the program reads,    *)
(* `disk' the images a power loss may leave.                               *)
(***************************************************************************)
EXTENDS Naturals, Sequences

CONSTANTS
  Users,    \* account names
  NoUser,   \* nobody is logged in, or a password is kept in memory only
  Values,   \* contents of a settings document
  Absent,   \* no such file
  Open      \* nothing was reported that must stay in effect

ASSUME NamesAssumption ==
  /\ NoUser \notin Users
  /\ Absent \notin Users \cup Values \cup {NoUser}
  /\ Open \notin Users \cup Values \cup {NoUser}

VARIABLES
  view,      \* the files as the running program reads them
  disk,      \* the images that may survive a power loss
  at,        \* "down", "refused" (the start failed), "idle" or "busy"
  job,       \* the last operation: what it stores, and the settings before it
  plan,      \* the phases the operation still has to go through
  shown,     \* the settings snapshot the program works with
  promise    \* history: the user and settings last reported to be in effect

vars == <<view, disk, at, job, plan, shown, promise>>

Accounts == [rev : Nat \ {0}, stored : BOOLEAN]
Envelopes == [rev : Nat \ {0}, user : Users]

ASSUME FilesAssumption == Absent \notin Envelopes

CredentialTransactions ==
  [oldAccount : Accounts, account : Accounts,
   oldCredential : Envelopes \cup {Absent}, credential : Envelopes \cup {Absent}]

SettingsTransactions == [rev : Nat \ {0}, old : Values, new : Values]

ASSUME LogsAssumption == Absent \notin CredentialTransactions \cup SettingsTransactions

Views ==
  [account : Accounts, credential : Envelopes \cup {Absent},
   redo : CredentialTransactions \cup {Absent},
   global : Values, workspace : Values,
   settingsRedo : SettingsTransactions \cup {Absent}]

Phases == {"load", "credential:redo", "credential:intent", "open",
           "settings:redo", "settings:intent", "apply"}

Operations == {"start", "login", "logout", "save", "rollback", "connect"}

TypeOK ==
  /\ view \in Views
  /\ disk \in SUBSET Views
  /\ at \in {"down", "refused", "idle", "busy"}
  /\ job \in [op : Operations, user : Users \cup {NoUser}, settings : Values,
              previous : Values, failed : BOOLEAN]
  /\ plan \in Seq(Phases)
  /\ shown \in Values
  /\ promise \in [user : Users \cup {NoUser, Open}, settings : Values \cup {Open}]

-----------------------------------------------------------------------------
(* What the files say.                                                     *)

\* loadProfileWorkspaceAuthorityByKeys and loadActiveProfileWorkspaceAuthority
\* read the Account only when the credential is present exactly if it says so.
Complete(v) == v.account.stored = (v.credential # Absent)

StoredUser(v) == IF v.credential = Absent THEN NoUser ELSE v.credential.user

\* Whose credential an image holds, and which settings, once its logs are resumed.
UserOf(v) ==
  IF v.redo = Absent THEN StoredUser(v)
  ELSE IF v.redo.credential = Absent THEN NoUser ELSE v.redo.credential.user

SettingsOf(v) == IF v.settingsRedo = Absent THEN v.global ELSE v.settingsRedo.new

\* A program that starts for the first time after the migration.
Init ==
  \E s \in Values :
    /\ view = [account |-> [rev |-> 1, stored |-> FALSE], credential |-> Absent,
               redo |-> Absent, global |-> s, workspace |-> s, settingsRedo |-> Absent]
    /\ disk = {view}
    /\ at = "down"
    /\ job = [op |-> "start", user |-> NoUser, settings |-> s,
              previous |-> s, failed |-> FALSE]
    /\ plan = <<>>
    /\ shown = s
    /\ promise = [user |-> Open, settings |-> Open]

-----------------------------------------------------------------------------
(* One change of one file.                                                 *)

Unchanged == UNCHANGED <<view, disk>>

Durably(f, content) ==
  /\ view' = [view EXCEPT ![f] = content]
  /\ disk' = {view'}

Undurably(f, content) ==
  \/ Unchanged
  \/ /\ view' = [view EXCEPT ![f] = content]
     /\ disk' = disk \cup {view'}

Continue == UNCHANGED <<at, job, plan, shown>>

NextPhase == plan' = Tail(plan) /\ UNCHANGED <<at, job, shown>>

\* Anything that throws ends the start of the program, or the operation.  The
\* Workspace stores are not bracketed by a rollback: what they wrote stays.
Throws ==
  /\ at' = IF job.op = "start" THEN "refused" ELSE "idle"
  /\ job' = [job EXCEPT !.failed = TRUE]
  /\ UNCHANGED <<plan, shown>>

\* The file is written and the operation goes on, or it throws.
Put(f, content) ==
  \/ Durably(f, content) /\ Continue
  \/ Undurably(f, content) /\ Throws

\* The log is written or removed, which ends the phase, or it throws.
PutLog(f, content) ==
  \/ Durably(f, content) /\ NextPhase
  \/ Undurably(f, content) /\ Throws

KeepPromise == UNCHANGED promise

InPhase(phase) == at = "busy" /\ plan # <<>> /\ Head(plan) = phase

-----------------------------------------------------------------------------
(* The operations.                                                         *)

Settle(log, intent) == <<log, intent, log>>

SaveCredential == Settle("credential:redo", "credential:intent")

SaveSettings == Settle("settings:redo", "settings:intent")

Start == <<"load", "credential:redo", "settings:redo", "open">>

Begin(op, user, settings, phases) ==
  /\ at' = "busy"
  /\ job' = [op |-> op, user |-> user, settings |-> settings,
             previous |-> shown, failed |-> FALSE]
  /\ plan' = phases
  /\ Unchanged /\ KeepPromise /\ UNCHANGED shown

\* settings:save with a password, which is stored, or kept in memory only; the
\* settings of the same patch follow the credential.
Login ==
  /\ at = "idle"
  /\ \E user \in Users \cup {NoUser}, settings \in Values :
       Begin("login", user, settings, SaveCredential \o SaveSettings)

Logout ==
  /\ at = "idle"
  /\ Begin("logout", NoUser, shown, SaveCredential \o SaveSettings)

\* settings:save without a password, and every other change of the settings.
Save ==
  /\ at = "idle"
  /\ \E settings \in Values :
       Begin("save", job.user, settings, SaveSettings \o <<"apply">>)

\* The credential is opened for a connection.
Connect ==
  /\ at = "idle"
  /\ Begin("connect", job.user, shown, <<"credential:redo", "open">>)

Starts ==
  /\ at \in {"down", "refused"}
  /\ Begin("start", NoUser, shown, Start)

-----------------------------------------------------------------------------
(* The credential transaction.                                             *)

\* The pre-ready controller is created when the program is loaded, before
\* anything is recovered, from the complete authority of the active Profile.
Load ==
  /\ InPhase("load")
  /\ \/ Complete(view) /\ NextPhase
     \/ ~Complete(view) /\ Throws
  /\ Unchanged /\ KeepPromise

ResumingCredential == InPhase("credential:redo") /\ view.redo # Absent

\* A target that is neither what the log replaces nor what it stores makes the
\* program throw for good; LogsResumable says that there is none.
WriteCredential ==
  /\ ResumingCredential
  /\ view.credential = view.redo.oldCredential
  /\ view.credential # view.redo.credential
  /\ Put("credential", view.redo.credential)
  /\ KeepPromise

\* Mutant: the Account may be written before the credential.
WriteAccountInAnyOrder ==
  /\ ResumingCredential
  /\ view.account = view.redo.oldAccount
  /\ Put("account", view.redo.account)
  /\ KeepPromise

WriteAccount ==
  /\ ResumingCredential
  /\ view.credential = view.redo.credential
  /\ view.account = view.redo.oldAccount
  /\ Put("account", view.redo.account)
  /\ KeepPromise

\* Mutant: the log is removed as soon as the credential is written.
ClearEarly ==
  /\ ResumingCredential
  /\ view.credential = view.redo.credential
  /\ PutLog("redo", Absent)
  /\ KeepPromise

ClearCredentialRedo ==
  /\ ResumingCredential
  /\ view.credential = view.redo.credential
  /\ view.account = view.redo.account
  /\ PutLog("redo", Absent)
  /\ KeepPromise

NoCredentialRedo ==
  /\ InPhase("credential:redo")
  /\ view.redo = Absent
  /\ NextPhase
  /\ Unchanged /\ KeepPromise

NextAccount == [rev |-> view.account.rev + 1, stored |-> job.user # NoUser]

\* Mutant: the envelope is bound to the revision before the change.
EnvelopeOfOldRevision ==
  IF job.user = NoUser THEN Absent ELSE [rev |-> view.account.rev, user |-> job.user]

NextEnvelope ==
  IF job.user = NoUser THEN Absent
  ELSE [rev |-> view.account.rev + 1, user |-> job.user]

NothingToClear == job.user = NoUser /\ view.credential = Absent

IntendCredential ==
  /\ InPhase("credential:intent")
  /\ ~NothingToClear
  /\ PutLog("redo", [oldAccount |-> view.account, account |-> NextAccount,
                     oldCredential |-> view.credential, credential |-> NextEnvelope])
  /\ promise' = [promise EXCEPT !.user = Open]

NoCredentialChange ==
  /\ InPhase("credential:intent")
  /\ NothingToClear
  /\ NextPhase
  /\ Unchanged /\ KeepPromise

OpenCredential ==
  /\ InPhase("open")
  /\ NextPhase
  /\ Unchanged /\ KeepPromise

-----------------------------------------------------------------------------
(* The settings transaction.  The Account revision is part of its binding.  *)

BindingMatches ==
  view.settingsRedo # Absent => view.settingsRedo.rev = view.account.rev

SettingsRedoRefused ==
  /\ InPhase("settings:redo")
  /\ ~Complete(view) \/ ~BindingMatches
  /\ Throws
  /\ Unchanged /\ KeepPromise

ResumingSettings ==
  /\ InPhase("settings:redo")
  /\ Complete(view) /\ BindingMatches
  /\ view.settingsRedo # Absent

WriteGlobal ==
  /\ ResumingSettings
  /\ view.global = view.settingsRedo.old /\ view.global # view.settingsRedo.new
  /\ Put("global", view.settingsRedo.new)
  /\ KeepPromise

WriteWorkspace ==
  /\ ResumingSettings
  /\ view.global = view.settingsRedo.new
  /\ view.workspace = view.settingsRedo.old /\ view.workspace # view.settingsRedo.new
  /\ Put("workspace", view.settingsRedo.new)
  /\ KeepPromise

ClearSettingsRedo ==
  /\ ResumingSettings
  /\ view.global = view.settingsRedo.new
  /\ view.workspace = view.settingsRedo.new
  /\ PutLog("settingsRedo", Absent)
  /\ KeepPromise

NoSettingsRedo ==
  /\ InPhase("settings:redo")
  /\ Complete(view)
  /\ view.settingsRedo = Absent
  /\ NextPhase
  /\ Unchanged /\ KeepPromise

\* Mutant: the program's own snapshot decides.
NoDifferenceToSnapshot == job.settings = shown

\* The receipts of the files decide whether there is anything to write.
NoDifference == job.settings = view.global /\ job.settings = view.workspace

IntendSettings ==
  /\ InPhase("settings:intent")
  /\ ~NoDifference
  /\ PutLog("settingsRedo", [rev |-> view.account.rev,
                             old |-> view.global, new |-> job.settings])
  /\ promise' = [promise EXCEPT !.settings = Open]

NoSettingsChange ==
  /\ InPhase("settings:intent")
  /\ NoDifference
  /\ NextPhase
  /\ Unchanged /\ KeepPromise

Apply ==
  /\ InPhase("apply")
  /\ NextPhase
  /\ Unchanged /\ KeepPromise

\* The new policy is saved but cannot be applied: the old settings are saved.
ApplyFails ==
  /\ InPhase("apply")
  /\ job' = [job EXCEPT !.op = "rollback", !.settings = job.previous]
  /\ plan' = SaveSettings
  /\ shown' = job.settings
  /\ promise' = [promise EXCEPT !.settings = Open]
  /\ Unchanged /\ UNCHANGED at

-----------------------------------------------------------------------------
(* The end of an operation, of the process and of the machine.             *)

Reported ==
  CASE job.op = "start" -> [user |-> StoredUser(view), settings |-> view.global]
    [] job.op = "connect" -> [promise EXCEPT !.user = StoredUser(view)]
    [] job.op \in {"login", "logout"} -> [user |-> job.user, settings |-> job.settings]
    [] OTHER -> [promise EXCEPT !.settings = job.settings]

\* Neither the log that brings about u, or s, nor a change since is durable: an
\* image w from before the log v may still come back.
UserUnconfirmed(u) ==
  \E v, w \in disk :
    /\ v.redo # Absent /\ UserOf(v) = u
    /\ w.redo = Absent
    /\ w.credential = v.redo.oldCredential /\ w.account = v.redo.oldAccount

SettingsUnconfirmed(s) ==
  \E v, w \in disk :
    /\ v.settingsRedo # Absent /\ v.settingsRedo.new = s
    /\ w.settingsRedo = Absent /\ w.global = v.settingsRedo.old

\* What is reported binds the program, unless not one change of its transaction
\* was confirmed by an fsync: a retry that finds a file written, or the log gone,
\* does not sync it.
Binding ==
  [user |-> IF UserUnconfirmed(Reported.user) THEN Open ELSE Reported.user,
   settings |-> IF SettingsUnconfirmed(Reported.settings) THEN Open ELSE Reported.settings]

Report ==
  /\ at = "busy" /\ plan = <<>>
  /\ at' = "idle"
  /\ promise' = Binding
  /\ shown' = IF job.op = "start" THEN view.global
              ELSE IF job.op = "connect" THEN shown ELSE job.settings
  /\ Unchanged /\ UNCHANGED <<job, plan>>

Down == at' = "down" /\ UNCHANGED <<job, plan, shown, promise>>

ProcessExits ==
  /\ at \in {"idle", "busy"}
  /\ Down
  /\ Unchanged

PowerLoss ==
  /\ view' \in disk
  /\ disk' = {view'}
  /\ Down

Next ==
  \/ Login \/ Logout \/ Save \/ Connect \/ Starts
  \/ Load \/ WriteCredential \/ WriteAccount \/ ClearCredentialRedo
  \/ NoCredentialRedo \/ IntendCredential \/ NoCredentialChange \/ OpenCredential
  \/ SettingsRedoRefused \/ WriteGlobal \/ WriteWorkspace \/ ClearSettingsRedo
  \/ NoSettingsRedo \/ IntendSettings \/ NoSettingsChange
  \/ Apply \/ ApplyFails
  \/ Report \/ ProcessExits \/ PowerLoss

Spec == Init /\ [][Next]_vars

-----------------------------------------------------------------------------
(* Properties.                                                             *)

Settled(v) ==
  /\ v.redo = Absent =>
       /\ Complete(v)
       /\ v.credential # Absent => v.credential.rev = v.account.rev
  /\ v.settingsRedo = Absent => v.global = v.workspace

\* Whatever image a power loss leaves, one without a credential log holds a
\* complete authority whose envelope opens under the Account revision, and one
\* without a settings log holds one version of the settings.  (With the types.)
ImagesSettled == TypeOK /\ \A v \in disk \cup {view} : Settled(v)

Resumable(v) ==
  /\ v.redo # Absent =>
       \/ v.credential = v.redo.oldCredential /\ v.account = v.redo.oldAccount
       \/ v.credential = v.redo.credential
            /\ v.account \in {v.redo.oldAccount, v.redo.account}
  /\ v.settingsRedo # Absent =>
       \/ v.global = v.settingsRedo.old /\ v.workspace = v.settingsRedo.old
       \/ v.global = v.settingsRedo.new
            /\ v.workspace \in {v.settingsRedo.old, v.settingsRedo.new}

\* Whatever image a power loss leaves, a log in it finds its targets at a stage
\* from which it can be resumed: no change outside the log comes between.
LogsResumable == \A v \in disk \cup {view} : Resumable(v)

\* What the program last reported, or showed when it started, stays in effect in
\* every image a power loss may leave, until a transaction that changes it begins
\* (see Binding).
PromiseKept ==
  \A v \in disk \cup {view} :
    /\ promise.user # Open => UserOf(v) = promise.user
    /\ promise.settings # Open => SettingsOf(v) = promise.settings

\* A start of the program gets past the credential log a stop left behind.
RestartRecovers == at = "refused" => Head(plan) # "load"
=============================================================================
