----------------------- MODULE WorkspaceRedoLogs_proofs ------------------------
(* Proof that the redo logs of a Workspace keep what was reported, for any    *)
(* accounts, any settings and any number of changes not yet durable.  The     *)
(* invariant says what every image a power loss may leave holds, and what the *)
(* phases an operation has behind it have brought about.                      *)
EXTENDS WorkspaceRedoLogs, SequenceTheorems, TLAPS

\* Operation op comes to a phase when this one and n - 1 others are left.
Comes(phase, op, n) ==
  \/ phase = "load" /\ op = "start" /\ n = 4
  \/ /\ phase = "credential:redo"
     /\ \/ op = "start" /\ n = 3
        \/ op = "connect" /\ n = 2
        \/ op \in {"login", "logout"} /\ n \in {4, 6}
  \/ phase = "credential:intent" /\ op \in {"login", "logout"} /\ n = 5
  \/ /\ phase = "settings:redo"
     /\ \/ op = "start" /\ n = 2
        \/ op = "save" /\ n \in {2, 4}
        \/ op \in {"login", "logout", "rollback"} /\ n \in {1, 3}
  \/ /\ phase = "settings:intent"
     /\ \/ op = "save" /\ n = 3
        \/ op \in {"login", "logout", "rollback"} /\ n = 2
  \/ phase = "apply" /\ op = "save" /\ n = 1
  \/ phase = "open" /\ op \in {"start", "connect"} /\ n = 1

Follows(p, op) == \A i \in 1..Len(p) : Comes(p[i], op, Len(p) + 1 - i)

\* A credential log stores what its Account revision says.
LogSound(v) ==
  v.redo # Absent =>
    /\ v.redo.account.stored = (v.redo.credential # Absent)
    /\ v.redo.credential # Absent => v.redo.credential.rev = v.redo.account.rev

Sound(v) == Settled(v) /\ Resumable(v) /\ LogSound(v)

\* The image has a log of the credential, or of the settings, to be new.
NewUserLog(v) ==
  /\ view.redo = Absent /\ v.redo # Absent
  /\ v.redo.oldCredential = view.credential /\ v.redo.oldAccount = view.account

NewSettingsLog(v) ==
  /\ view.settingsRedo = Absent /\ v.settingsRedo # Absent
  /\ v.settingsRedo.old = view.global

-----------------------------------------------------------------------------
(* The invariant *)

\* Every image can be started from, and all say the same as the files that the
\* program reads, unless nothing of what these say is confirmed.
ImagesSound ==
  /\ view \in disk
  /\ \A v \in disk : Sound(v)
  /\ \/ \A v \in disk : UserOf(v) = UserOf(view)
     \/ UserUnconfirmed(UserOf(view))
  /\ \/ \A v \in disk : SettingsOf(v) = SettingsOf(view)
     \/ SettingsUnconfirmed(SettingsOf(view))

\* The phases an operation has left tell what is behind it.
CredentialStored == job.op \in {"login", "logout"} /\ Len(plan) <= 4

CredentialSettled ==
  \/ job.op \in {"login", "logout"} /\ Len(plan) = 5
  \/ job.op = "start" /\ Len(plan) <= 2
  \/ job.op = "connect" /\ Len(plan) <= 1

SettingsStored ==
  \/ job.op \in {"login", "logout", "rollback"} /\ Len(plan) <= 1
  \/ job.op = "save" /\ Len(plan) <= 2

SettingsSettled ==
  \/ job.op \in {"login", "logout", "rollback"} /\ Len(plan) = 2
  \/ job.op = "save" /\ Len(plan) = 3
  \/ job.op = "start" /\ Len(plan) <= 1

Progress ==
  at = "busy" =>
    /\ Follows(plan, job.op)
    /\ CredentialSettled => view.redo = Absent
    /\ CredentialStored => UserOf(view) = job.user
    /\ SettingsSettled => view.settingsRedo = Absent
    /\ SettingsStored => SettingsOf(view) = job.settings

IInv == ImagesSound /\ PromiseKept /\ Progress

-----------------------------------------------------------------------------
(* Plans *)

LEMMA Shift ==
  ASSUME NEW n \in Nat \ {0}, NEW i \in 1..(n - 1)
  PROVE  i + 1 \in 1..n /\ n + 1 - (i + 1) = (n - 1) + 1 - i
OBVIOUS

LEMMA TailFollows ==
  ASSUME NEW op, NEW p \in Seq(Phases), Follows(p, op), p # <<>>
  PROVE  /\ Tail(p) \in Seq(Phases)
         /\ Len(Tail(p)) = Len(p) - 1
         /\ Len(p) \in Nat \ {0}
         /\ Follows(Tail(p), op)
<1>1. /\ Tail(p) \in Seq(Phases)
      /\ Len(Tail(p)) = Len(p) - 1
      /\ Len(p) \in Nat \ {0}
      /\ \A i \in 1..Len(Tail(p)) : Tail(p)[i] = p[i + 1]
  OBVIOUS
<1>2. ASSUME NEW i \in 1..Len(Tail(p))
      PROVE  Comes(Tail(p)[i], op, Len(Tail(p)) + 1 - i)
  <2>1. i \in 1..(Len(p) - 1)
    BY <1>1
  <2>2. i + 1 \in 1..Len(p) /\ Len(p) + 1 - (i + 1) = Len(Tail(p)) + 1 - i
    BY <1>1, <2>1, Shift
  <2>. QED  BY <1>1, <2>2 DEF Follows
<1>. QED  BY <1>1, <1>2 DEF Follows

\* Where an operation is tells how many phases it has left.
LEMMA Whereabouts ==
  ASSUME TypeOK, Progress, at = "busy", plan # <<>>
  PROVE  Len(plan) \in Nat \ {0} /\ Comes(Head(plan), job.op, Len(plan))
<1>1. /\ Len(plan) \in Nat \ {0} /\ Head(plan) = plan[1] /\ 1 \in 1..Len(plan)
      /\ Len(plan) + 1 - 1 = Len(plan)
  BY DEF TypeOK
<1>. QED  BY <1>1 DEF Progress, Follows

\* The plans operations begin with.
LEMMA PlanBegins ==
  ASSUME NEW p, NEW op
  PROVE  /\ /\ Len(p) = 2
            /\ Comes(p[1], op, 2) /\ Comes(p[2], op, 1)
            => Follows(p, op)
         /\ /\ Len(p) = 3
            /\ Comes(p[1], op, 3) /\ Comes(p[2], op, 2) /\ Comes(p[3], op, 1)
            => Follows(p, op)
         /\ /\ Len(p) = 4
            /\ Comes(p[1], op, 4) /\ Comes(p[2], op, 3) /\ Comes(p[3], op, 2)
            /\ Comes(p[4], op, 1)
            => Follows(p, op)
         /\ /\ Len(p) = 6
            /\ Comes(p[1], op, 6) /\ Comes(p[2], op, 5) /\ Comes(p[3], op, 4)
            /\ Comes(p[4], op, 3) /\ Comes(p[5], op, 2) /\ Comes(p[6], op, 1)
            => Follows(p, op)
<1>1. ASSUME Len(p) = 2, Comes(p[1], op, 2), Comes(p[2], op, 1)
      PROVE  Follows(p, op)
  <2> SUFFICES ASSUME NEW i \in 1..2
               PROVE  Comes(p[i], op, 2 + 1 - i)
    BY <1>1 DEF Follows
  <2>1. i = 1 \/ i = 2
    OBVIOUS
  <2>. QED  BY <1>1, <2>1
<1>2. ASSUME Len(p) = 3, Comes(p[1], op, 3), Comes(p[2], op, 2), Comes(p[3], op, 1)
      PROVE  Follows(p, op)
  <2> SUFFICES ASSUME NEW i \in 1..3
               PROVE  Comes(p[i], op, 3 + 1 - i)
    BY <1>2 DEF Follows
  <2>1. i = 1 \/ i = 2 \/ i = 3
    OBVIOUS
  <2>. QED  BY <1>2, <2>1
<1>3. ASSUME Len(p) = 4, Comes(p[1], op, 4), Comes(p[2], op, 3), Comes(p[3], op, 2),
             Comes(p[4], op, 1)
      PROVE  Follows(p, op)
  <2> SUFFICES ASSUME NEW i \in 1..4
               PROVE  Comes(p[i], op, 4 + 1 - i)
    BY <1>3 DEF Follows
  <2>1. i = 1 \/ i = 2 \/ i = 3 \/ i = 4
    OBVIOUS
  <2>. QED  BY <1>3, <2>1
<1>4. ASSUME Len(p) = 6, Comes(p[1], op, 6), Comes(p[2], op, 5), Comes(p[3], op, 4),
             Comes(p[4], op, 3), Comes(p[5], op, 2), Comes(p[6], op, 1)
      PROVE  Follows(p, op)
  <2> SUFFICES ASSUME NEW i \in 1..6
               PROVE  Comes(p[i], op, 6 + 1 - i)
    BY <1>4 DEF Follows
  <2>1. i = 1 \/ i = 2 \/ i = 3 \/ i = 4 \/ i = 5 \/ i = 6
    OBVIOUS
  <2>. QED  BY <1>4, <2>1
<1>. QED  BY <1>1, <1>2, <1>3, <1>4

LEMMA StartFollows ==
  Start \in Seq(Phases) /\ Len(Start) = 4 /\ Follows(Start, "start")
<1>1. /\ Start \in Seq(Phases) /\ Len(Start) = 4
      /\ Start[1] = "load" /\ Start[2] = "credential:redo"
      /\ Start[3] = "settings:redo" /\ Start[4] = "open"
  BY DEF Start, Phases
<1>2. /\ Comes("load", "start", 4) /\ Comes("credential:redo", "start", 3)
      /\ Comes("settings:redo", "start", 2) /\ Comes("open", "start", 1)
  BY DEF Comes
<1>. QED  BY <1>1, <1>2, PlanBegins

LEMMA ConnectFollows ==
  LET p == <<"credential:redo", "open">> IN
    p \in Seq(Phases) /\ Len(p) = 2 /\ Follows(p, "connect")
<1>. DEFINE p == <<"credential:redo", "open">>
<1>1. p \in Seq(Phases) /\ Len(p) = 2 /\ p[1] = "credential:redo" /\ p[2] = "open"
  BY DEF Phases
<1>2. Comes("credential:redo", "connect", 2) /\ Comes("open", "connect", 1)
  BY DEF Comes
<1>. HIDE DEF p
<1>3. Follows(p, "connect")
  BY <1>1, <1>2, PlanBegins
<1>. QED  BY <1>1, <1>3 DEF p

LEMMA SettlesAre ==
  /\ SaveSettings \in Seq(Phases) /\ Len(SaveSettings) = 3
  /\ SaveSettings[1] = "settings:redo" /\ SaveSettings[2] = "settings:intent"
  /\ SaveSettings[3] = "settings:redo"
  /\ SaveCredential \in Seq(Phases) /\ Len(SaveCredential) = 3
  /\ SaveCredential[1] = "credential:redo" /\ SaveCredential[2] = "credential:intent"
  /\ SaveCredential[3] = "credential:redo"
BY DEF SaveSettings, SaveCredential, Settle, Phases

LEMMA RollbackFollows ==
  /\ SaveSettings \in Seq(Phases) /\ Len(SaveSettings) = 3
  /\ Follows(SaveSettings, "rollback")
<1>1. /\ Comes("settings:redo", "rollback", 3) /\ Comes("settings:intent", "rollback", 2)
      /\ Comes("settings:redo", "rollback", 1)
  BY DEF Comes
<1>. QED  BY <1>1, SettlesAre, PlanBegins

LEMMA AfterThree ==
  ASSUME NEW s \in Seq(Phases), NEW t \in Seq(Phases), Len(s) = 3
  PROVE  /\ s \o t \in Seq(Phases)
         /\ (s \o t)[1] = s[1]
         /\ (s \o t)[2] = s[2]
         /\ (s \o t)[3] = s[3]
         /\ Len(t) = 1 => Len(s \o t) = 4 /\ (s \o t)[4] = t[1]
         /\ Len(t) = 3 =>
              /\ Len(s \o t) = 6
              /\ (s \o t)[4] = t[1]
              /\ (s \o t)[5] = t[2]
              /\ (s \o t)[6] = t[3]
<1>. DEFINE u == s \o t
<1>1. /\ u \in Seq(Phases) /\ Len(u) = Len(s) + Len(t)
      /\ \A i \in 1..Len(s) + Len(t) :
           u[i] = IF i <= Len(s) THEN s[i] ELSE t[i - Len(s)]
  BY ConcatProperties
<1>. HIDE DEF u
<1>2. /\ Len(u) = 3 + Len(t) /\ Len(t) \in Nat
      /\ \A i \in 1..3 + Len(t) : u[i] = IF i <= 3 THEN s[i] ELSE t[i - 3]
  BY <1>1
<1>3. u[1] = s[1] /\ u[2] = s[2] /\ u[3] = s[3]
  BY <1>2
<1>4. ASSUME Len(t) = 1
      PROVE  Len(u) = 4 /\ u[4] = t[1]
  BY <1>2, <1>4
<1>5. ASSUME Len(t) = 3
      PROVE  Len(u) = 6 /\ u[4] = t[1] /\ u[5] = t[2] /\ u[6] = t[3]
  BY <1>2, <1>5
<1>. QED  BY <1>1, <1>3, <1>4, <1>5 DEF u

LEMMA SaveFollows ==
  LET p == SaveSettings \o <<"apply">> IN
    p \in Seq(Phases) /\ Len(p) = 4 /\ Follows(p, "save")
<1>. DEFINE a == <<"apply">>
<1>. DEFINE p == SaveSettings \o a
<1>1. a \in Seq(Phases) /\ Len(a) = 1 /\ a[1] = "apply"
  BY DEF Phases
<1>. HIDE DEF a
<1>2. SaveSettings \in Seq(Phases) /\ Len(SaveSettings) = 3
  BY SettlesAre
<1>3. /\ p \in Seq(Phases) /\ Len(p) = 4
      /\ p[1] = SaveSettings[1] /\ p[2] = SaveSettings[2] /\ p[3] = SaveSettings[3]
      /\ p[4] = a[1]
  BY <1>1, <1>2, AfterThree, Zenon
<1>. HIDE DEF p
<1>4. /\ Comes("settings:redo", "save", 4) /\ Comes("settings:intent", "save", 3)
      /\ Comes("settings:redo", "save", 2) /\ Comes("apply", "save", 1)
  BY DEF Comes
<1>5. Follows(p, "save")
  BY <1>1, <1>3, <1>4, SettlesAre, PlanBegins
<1>. QED  BY <1>3, <1>5 DEF p, a

LEMMA LoginFollows ==
  ASSUME NEW op \in {"login", "logout"}
  PROVE  LET p == SaveCredential \o SaveSettings IN
           p \in Seq(Phases) /\ Len(p) = 6 /\ Follows(p, op)
<1>. DEFINE p == SaveCredential \o SaveSettings
<1>1. /\ SaveCredential \in Seq(Phases) /\ Len(SaveCredential) = 3
      /\ SaveSettings \in Seq(Phases) /\ Len(SaveSettings) = 3
  BY SettlesAre
<1>2. /\ p \in Seq(Phases) /\ Len(p) = 6
      /\ p[1] = SaveCredential[1] /\ p[2] = SaveCredential[2] /\ p[3] = SaveCredential[3]
      /\ p[4] = SaveSettings[1] /\ p[5] = SaveSettings[2] /\ p[6] = SaveSettings[3]
  BY <1>1, AfterThree, Zenon
<1>. HIDE DEF p
<1>3. /\ Comes("credential:redo", op, 6) /\ Comes("credential:intent", op, 5)
      /\ Comes("credential:redo", op, 4) /\ Comes("settings:redo", op, 3)
      /\ Comes("settings:intent", op, 2) /\ Comes("settings:redo", op, 1)
  BY DEF Comes
<1>4. Follows(p, op)
  BY <1>2, <1>3, SettlesAre, PlanBegins
<1>. QED  BY <1>2, <1>4 DEF p

-----------------------------------------------------------------------------
(* The files after one change *)

Files == {"account", "credential", "redo", "global", "workspace", "settingsRedo"}

Changed(f, content) == [view EXCEPT ![f] = content]

LEMMA Facts ==
  ASSUME TypeOK
  PROVE  /\ view \in Views /\ Absent \notin Envelopes
         /\ Absent \notin CredentialTransactions /\ Absent \notin SettingsTransactions
         /\ view.account \in Accounts /\ view.credential \in Envelopes \cup {Absent}
         /\ view.global \in Values /\ view.workspace \in Values
         /\ view.redo # Absent =>
              /\ view.redo \in CredentialTransactions
              /\ view.redo.account \in Accounts /\ view.redo.oldAccount \in Accounts
              /\ view.redo.credential \in Envelopes \cup {Absent}
              /\ view.redo.oldCredential \in Envelopes \cup {Absent}
         /\ view.settingsRedo # Absent =>
              /\ view.settingsRedo \in SettingsTransactions
              /\ view.settingsRedo.old \in Values /\ view.settingsRedo.new \in Values
         /\ job.user \in Users \cup {NoUser} /\ job.settings \in Values /\ job.previous \in Values
BY FilesAssumption, LogsAssumption
  DEF TypeOK, Views, CredentialTransactions, SettingsTransactions

LEMMA ChangedIs ==
  ASSUME TypeOK, NEW c
  PROVE  /\ LET w == Changed("credential", c) IN
              /\ w.credential = c /\ w.account = view.account /\ w.redo = view.redo
              /\ w.global = view.global /\ w.workspace = view.workspace
              /\ w.settingsRedo = view.settingsRedo
              /\ c \in Envelopes \cup {Absent} => w \in Views
         /\ LET w == Changed("account", c) IN
              /\ w.credential = view.credential /\ w.account = c /\ w.redo = view.redo
              /\ w.global = view.global /\ w.workspace = view.workspace
              /\ w.settingsRedo = view.settingsRedo
              /\ c \in Accounts => w \in Views
         /\ LET w == Changed("redo", c) IN
              /\ w.credential = view.credential /\ w.account = view.account /\ w.redo = c
              /\ w.global = view.global /\ w.workspace = view.workspace
              /\ w.settingsRedo = view.settingsRedo
              /\ c \in CredentialTransactions \cup {Absent} => w \in Views
         /\ LET w == Changed("global", c) IN
              /\ w.credential = view.credential /\ w.account = view.account
              /\ w.redo = view.redo /\ w.global = c /\ w.workspace = view.workspace
              /\ w.settingsRedo = view.settingsRedo
              /\ c \in Values => w \in Views
         /\ LET w == Changed("workspace", c) IN
              /\ w.credential = view.credential /\ w.account = view.account
              /\ w.redo = view.redo /\ w.global = view.global /\ w.workspace = c
              /\ w.settingsRedo = view.settingsRedo
              /\ c \in Values => w \in Views
         /\ LET w == Changed("settingsRedo", c) IN
              /\ w.credential = view.credential /\ w.account = view.account
              /\ w.redo = view.redo /\ w.global = view.global
              /\ w.workspace = view.workspace /\ w.settingsRedo = c
              /\ c \in SettingsTransactions \cup {Absent} => w \in Views
BY DEF Changed, TypeOK, Views

\* The change is visible, and durable or one more image.
Shows(f, content) ==
  view' = Changed(f, content) /\ disk' \in {{view'}, disk \cup {view'}}

LEMMA ChangeShows ==
  ASSUME NEW f, NEW c
  PROVE  /\ Durably(f, c) => Shows(f, c)
         /\ Undurably(f, c) => Unchanged \/ Shows(f, c)
<1>1. Durably(f, c) => Shows(f, c)
  BY DEF Durably, Shows, Changed
<1>2. Undurably(f, c) => Unchanged \/ Shows(f, c)
  BY DEF Undurably, Shows, Changed
<1>. QED  BY <1>1, <1>2

LEMMA PutShows ==
  ASSUME NEW f, NEW c, Put(f, c)
  PROVE  /\ Unchanged \/ Shows(f, c)
         /\ Throws \/ (Shows(f, c) /\ Continue)
BY ChangeShows DEF Put

LEMMA PutLogShows ==
  ASSUME NEW f, NEW c, PutLog(f, c)
  PROVE  /\ Unchanged \/ Shows(f, c)
         /\ Throws \/ (Shows(f, c) /\ NextPhase)
BY ChangeShows DEF PutLog

-----------------------------------------------------------------------------
(* Types *)

Reports == [user : Users \cup {NoUser, Open}, settings : Values \cup {Open}]

Jobs == [op : Operations, user : Users \cup {NoUser}, settings : Values,
         previous : Values, failed : BOOLEAN]

LEMMA ControlType ==
  ASSUME TypeOK
  PROVE  /\ Throws => /\ at' \in {"refused", "idle"} /\ job' \in Jobs
                      /\ plan' \in Seq(Phases) /\ shown' \in Values
         /\ Continue => /\ at' = at /\ job' \in Jobs
                        /\ plan' \in Seq(Phases) /\ shown' \in Values
         /\ plan # <<>> /\ NextPhase =>
              /\ at' = at /\ job' \in Jobs
              /\ plan' \in Seq(Phases) /\ shown' \in Values
         /\ Unchanged => view' \in Views /\ disk' \in SUBSET Views
         /\ KeepPromise => promise' \in Reports
<1>1. job \in Jobs /\ [job EXCEPT !.failed = TRUE] \in Jobs
  BY DEF TypeOK, Jobs
<1>2. plan # <<>> => Tail(plan) \in Seq(Phases)
  BY DEF TypeOK
<1>. QED
  BY <1>1, <1>2 DEF TypeOK, Throws, Continue, NextPhase, Unchanged, KeepPromise, Reports

LEMMA ShowsType ==
  ASSUME TypeOK, NEW f, NEW c, Shows(f, c),
         \/ f = "credential" /\ c \in Envelopes \cup {Absent}
         \/ f = "account" /\ c \in Accounts
         \/ f = "redo" /\ c \in CredentialTransactions \cup {Absent}
         \/ f \in {"global", "workspace"} /\ c \in Values
         \/ f = "settingsRedo" /\ c \in SettingsTransactions \cup {Absent}
  PROVE  view' \in Views /\ disk' \in SUBSET Views
<1>1. Changed(f, c) \in Views
  BY ChangedIs
<1>. QED  BY <1>1 DEF Shows, TypeOK

LEMMA NextFilesType ==
  ASSUME TypeOK
  PROVE  /\ NextAccount \in Accounts
         /\ NextEnvelope \in Envelopes \cup {Absent}
         /\ NextAccount.stored = (NextEnvelope # Absent)
         /\ NextEnvelope # Absent => NextEnvelope.rev = NextAccount.rev
         /\ NextEnvelope = Absent <=> job.user = NoUser
         /\ NextEnvelope # Absent => NextEnvelope.user = job.user
<1>1. view.account.rev + 1 \in Nat \ {0} /\ (job.user # NoUser) \in BOOLEAN
  BY Facts DEF Accounts
<1>2. /\ NextAccount \in Accounts
      /\ NextAccount.rev = view.account.rev + 1 /\ NextAccount.stored = (job.user # NoUser)
  BY <1>1 DEF NextAccount, Accounts
<1>3. CASE job.user = NoUser
  BY <1>2, <1>3 DEF NextEnvelope
<1>4. CASE job.user # NoUser
  <2>1. job.user \in Users
    BY <1>4, Facts
  <2>2. /\ NextEnvelope = [rev |-> view.account.rev + 1, user |-> job.user]
        /\ NextEnvelope \in Envelopes
    BY <1>1, <1>4, <2>1 DEF NextEnvelope, Envelopes
  <2>. QED  BY <1>2, <1>4, <2>2, Facts
<1>. QED  BY <1>3, <1>4

CredentialLog ==
  [oldAccount |-> view.account, account |-> NextAccount,
   oldCredential |-> view.credential, credential |-> NextEnvelope]

SettingsLog == [rev |-> view.account.rev, old |-> view.global, new |-> job.settings]

LEMMA LogTypes ==
  ASSUME TypeOK
  PROVE  /\ CredentialLog \in CredentialTransactions /\ CredentialLog # Absent
         /\ SettingsLog \in SettingsTransactions /\ SettingsLog # Absent
<1>1. view.account.rev \in Nat \ {0}
  BY Facts DEF Accounts
<1>2. CredentialLog \in CredentialTransactions
  BY Facts, NextFilesType DEF CredentialLog, CredentialTransactions
<1>3. SettingsLog \in SettingsTransactions
  BY <1>1, Facts DEF SettingsLog, SettingsTransactions
<1>. QED  BY <1>2, <1>3, Facts

\* The actions that change a file, with the change.
Writing(f, c) ==
  \/ WriteCredential /\ f = "credential" /\ c = view.redo.credential
  \/ WriteAccount /\ f = "account" /\ c = view.redo.account
  \/ ClearCredentialRedo /\ f = "redo" /\ c = Absent
  \/ IntendCredential /\ f = "redo" /\ c = CredentialLog
  \/ WriteGlobal /\ f = "global" /\ c = view.settingsRedo.new
  \/ WriteWorkspace /\ f = "workspace" /\ c = view.settingsRedo.new
  \/ ClearSettingsRedo /\ f = "settingsRedo" /\ c = Absent
  \/ IntendSettings /\ f = "settingsRedo" /\ c = SettingsLog

Writes ==
  \/ WriteCredential \/ WriteAccount \/ ClearCredentialRedo \/ IntendCredential
  \/ WriteGlobal \/ WriteWorkspace \/ ClearSettingsRedo \/ IntendSettings

LEMMA WritesIs ==
  ASSUME Writes
  PROVE  \E f, c : Writing(f, c)
BY DEF Writes, Writing

LEMMA WritingType ==
  ASSUME TypeOK, NEW f, NEW c, Writing(f, c)
  PROVE  \/ f = "credential" /\ c \in Envelopes \cup {Absent}
         \/ f = "account" /\ c \in Accounts
         \/ f = "redo" /\ c \in CredentialTransactions \cup {Absent}
         \/ f \in {"global", "workspace"} /\ c \in Values
         \/ f = "settingsRedo" /\ c \in SettingsTransactions \cup {Absent}
<1>1. WriteCredential => view.redo # Absent
  BY DEF WriteCredential, ResumingCredential
<1>2. WriteAccount => view.redo # Absent
  BY DEF WriteAccount, ResumingCredential
<1>3. WriteGlobal => view.settingsRedo # Absent
  BY DEF WriteGlobal, ResumingSettings
<1>4. WriteWorkspace => view.settingsRedo # Absent
  BY DEF WriteWorkspace, ResumingSettings
<1>. QED  BY <1>1, <1>2, <1>3, <1>4, Facts, LogTypes DEF Writing

LEMMA WritingShows ==
  ASSUME NEW f, NEW c, Writing(f, c)
  PROVE  /\ at = "busy" /\ plan # <<>>
         /\ Unchanged \/ Shows(f, c)
         /\ \/ Throws
            \/ Shows(f, c) /\ f \in {"redo", "settingsRedo"} /\ NextPhase
            \/ Shows(f, c) /\ f \notin {"redo", "settingsRedo"} /\ Continue
<1>1. CASE WriteCredential /\ f = "credential" /\ c = view.redo.credential
  BY <1>1, PutShows DEF WriteCredential, ResumingCredential, InPhase
<1>2. CASE WriteAccount /\ f = "account" /\ c = view.redo.account
  BY <1>2, PutShows DEF WriteAccount, ResumingCredential, InPhase
<1>3. CASE ClearCredentialRedo /\ f = "redo" /\ c = Absent
  BY <1>3, PutLogShows DEF ClearCredentialRedo, ResumingCredential, InPhase
<1>4. CASE IntendCredential /\ f = "redo" /\ c = CredentialLog
  BY <1>4, PutLogShows DEF IntendCredential, CredentialLog, InPhase
<1>5. CASE WriteGlobal /\ f = "global" /\ c = view.settingsRedo.new
  BY <1>5, PutShows DEF WriteGlobal, ResumingSettings, InPhase
<1>6. CASE WriteWorkspace /\ f = "workspace" /\ c = view.settingsRedo.new
  BY <1>6, PutShows DEF WriteWorkspace, ResumingSettings, InPhase
<1>7. CASE ClearSettingsRedo /\ f = "settingsRedo" /\ c = Absent
  BY <1>7, PutLogShows DEF ClearSettingsRedo, ResumingSettings, InPhase
<1>8. CASE IntendSettings /\ f = "settingsRedo" /\ c = SettingsLog
  BY <1>8, PutLogShows DEF IntendSettings, SettingsLog, InPhase
<1>. QED
  BY <1>1, <1>2, <1>3, <1>4, <1>5, <1>6, <1>7, <1>8 DEF Writing

LEMMA WritesType ==
  ASSUME TypeOK, Writes
  PROVE  TypeOK'
<1>1. PICK f, c : Writing(f, c)
  BY WritesIs
<1>2. view' \in Views /\ disk' \in SUBSET Views
  <2>1. CASE Unchanged
    BY <2>1, ControlType
  <2>2. CASE Shows(f, c)
    BY <1>1, <2>2, ShowsType, WritingType
  <2>. QED  BY <1>1, <2>1, <2>2, WritingShows
<1>3. /\ at' \in {"down", "refused", "idle", "busy"} /\ job' \in Jobs
      /\ plan' \in Seq(Phases) /\ shown' \in Values
  BY <1>1, ControlType, WritingShows DEF TypeOK
<1>4. promise' \in Reports
  BY <1>1 DEF Writing, WriteCredential, WriteAccount, ClearCredentialRedo, IntendCredential,
              WriteGlobal, WriteWorkspace, ClearSettingsRedo, IntendSettings,
              KeepPromise, TypeOK, Reports
<1>. QED  BY <1>2, <1>3, <1>4 DEF TypeOK, Jobs, Reports

Begins == Login \/ Logout \/ Save \/ Connect \/ Starts

\* What an operation begins with.
LEMMA BeginsIs ==
  ASSUME TypeOK, Begins
  PROVE  /\ at' = "busy" /\ Unchanged /\ KeepPromise /\ UNCHANGED shown
         /\ job' \in Jobs /\ plan' \in Seq(Phases) /\ Follows(plan', job'.op)
         /\ Len(plan') = (CASE job'.op \in {"start", "save"} -> 4
                            [] job'.op = "connect" -> 2
                            [] OTHER -> 6)
<1>1. ASSUME NEW op \in Operations, NEW user \in Users \cup {NoUser}, NEW settings \in Values,
             NEW p, Begin(op, user, settings, p)
      PROVE  /\ at' = "busy" /\ Unchanged /\ KeepPromise /\ UNCHANGED shown
             /\ job' \in Jobs /\ job'.op = op /\ plan' = p
  BY <1>1 DEF Begin, Jobs, TypeOK
<1>2. shown \in Values /\ job.user \in Users \cup {NoUser}
  BY Facts DEF TypeOK
<1>3. CASE Login
  <2>1. PICK user \in Users \cup {NoUser}, settings \in Values :
          Begin("login", user, settings, SaveCredential \o SaveSettings)
    BY <1>3 DEF Login
  <2>. QED  BY <1>1, <2>1, LoginFollows DEF Operations
<1>4. CASE Logout
  BY <1>1, <1>2, <1>4, LoginFollows DEF Operations, Logout
<1>5. CASE Save
  <2>1. PICK settings \in Values :
          Begin("save", job.user, settings, SaveSettings \o <<"apply">>)
    BY <1>5 DEF Save
  <2>. QED  BY <1>1, <1>2, <2>1, SaveFollows DEF Operations
<1>6. CASE Connect
  BY <1>1, <1>2, <1>6, ConnectFollows DEF Operations, Connect
<1>7. CASE Starts
  BY <1>1, <1>2, <1>7, StartFollows DEF Operations, Starts
<1>. QED  BY <1>3, <1>4, <1>5, <1>6, <1>7 DEF Begins

\* The steps of an operation that change no file.
Skips ==
  \/ Load \/ NoCredentialRedo \/ NoCredentialChange \/ OpenCredential
  \/ SettingsRedoRefused \/ NoSettingsRedo \/ NoSettingsChange \/ Apply

LEMMA SkipsIs ==
  ASSUME Skips
  PROVE  /\ at = "busy" /\ plan # <<>>
         /\ Unchanged /\ KeepPromise
         /\ Throws \/ NextPhase
BY DEF Skips, Load, NoCredentialRedo, NoCredentialChange, OpenCredential,
       SettingsRedoRefused, NoSettingsRedo, NoSettingsChange, Apply, InPhase

LEMMA ReportType ==
  ASSUME TypeOK
  PROVE  Reported \in Reports /\ Binding \in Reports
<1>1. StoredUser(view) \in Users \cup {NoUser}
  BY Facts DEF StoredUser, Envelopes
<1>2. view.global \in Values /\ job.user \in Users \cup {NoUser} /\ job.settings \in Values
  BY Facts
<1>3. Reported \in Reports
  BY <1>1, <1>2 DEF Reported, Reports, TypeOK
<1>. QED  BY <1>3 DEF Binding, Reports

LEMMA StepType ==
  ASSUME TypeOK, [Next]_vars
  PROVE  TypeOK'
<1>1. CASE Begins
  BY <1>1, BeginsIs, ControlType DEF TypeOK, Jobs, Reports
<1>2. CASE Skips
  BY <1>2, SkipsIs, ControlType DEF TypeOK, Jobs, Reports
<1>3. CASE Writes
  BY <1>3, WritesType
<1>4. CASE ApplyFails
  BY <1>4, Facts, SettlesAre
    DEF ApplyFails, Unchanged, TypeOK, Operations
<1>5. CASE Report
  <2>1. promise' \in Reports /\ shown' \in Values
    BY <1>5, Facts, ReportType DEF Report, TypeOK
  <2>. QED  BY <1>5, <2>1 DEF Report, Unchanged, TypeOK, Reports
<1>6. CASE ProcessExits \/ PowerLoss
  BY <1>6 DEF ProcessExits, PowerLoss, Down, Unchanged, TypeOK
<1>7. CASE UNCHANGED vars
  BY <1>7 DEF vars, TypeOK
<1>. QED
  BY <1>1, <1>2, <1>3, <1>4, <1>5, <1>6, <1>7 DEF Next, Begins, Skips, Writes

-----------------------------------------------------------------------------
(* What the images hold *)

LEMMA UserOfIs ==
  ASSUME NEW v, NEW w, w.redo = v.redo, v.redo # Absent \/ w.credential = v.credential
  PROVE  UserOf(w) = UserOf(v)
BY DEF UserOf, StoredUser

LEMMA SettingsOfIs ==
  ASSUME NEW v, NEW w, w.settingsRedo = v.settingsRedo,
         v.settingsRedo # Absent \/ w.global = v.global
  PROVE  SettingsOf(w) = SettingsOf(v)
BY DEF SettingsOf

\* The user's side and the settings' side of Sound.
UserSound(v) ==
  IF v.redo = Absent
  THEN Complete(v) /\ (v.credential # Absent => v.credential.rev = v.account.rev)
  ELSE /\ LogSound(v)
       /\ \/ v.credential = v.redo.oldCredential /\ v.account = v.redo.oldAccount
          \/ /\ v.credential = v.redo.credential
             /\ v.account \in {v.redo.oldAccount, v.redo.account}

SettingsSound(v) ==
  IF v.settingsRedo = Absent THEN v.global = v.workspace
  ELSE \/ v.global = v.settingsRedo.old /\ v.workspace = v.settingsRedo.old
       \/ /\ v.global = v.settingsRedo.new
          /\ v.workspace \in {v.settingsRedo.old, v.settingsRedo.new}

LEMMA SoundIs ==
  ASSUME NEW v
  PROVE  Sound(v) <=> UserSound(v) /\ SettingsSound(v)
<1>1. CASE v.redo = Absent /\ v.settingsRedo = Absent
  BY <1>1 DEF Sound, UserSound, SettingsSound, Settled, Resumable, LogSound
<1>2. CASE v.redo # Absent /\ v.settingsRedo = Absent
  BY <1>2 DEF Sound, UserSound, SettingsSound, Settled, Resumable, LogSound
<1>3. CASE v.redo = Absent /\ v.settingsRedo # Absent
  BY <1>3 DEF Sound, UserSound, SettingsSound, Settled, Resumable, LogSound
<1>4. CASE v.redo # Absent /\ v.settingsRedo # Absent
  BY <1>4 DEF Sound, UserSound, SettingsSound, Settled, Resumable, LogSound
<1>. QED  BY <1>1, <1>2, <1>3, <1>4

LEMMA UserSoundIs ==
  ASSUME NEW v, NEW w, UserSound(v),
         w.redo = v.redo, w.credential = v.credential, w.account = v.account
  PROVE  UserSound(w)
BY DEF UserSound, LogSound, Complete

LEMMA SettingsSoundIs ==
  ASSUME NEW v, NEW w, SettingsSound(v),
         w.settingsRedo = v.settingsRedo, w.global = v.global, w.workspace = v.workspace
  PROVE  SettingsSound(w)
BY DEF SettingsSound

\* What one change makes of the files' user and settings.
KeepsUser(w) == UserOf(w) = UserOf(view) /\ (view.redo = Absent => w.redo = Absent)

KeepsSettings(w) ==
  /\ SettingsOf(w) = SettingsOf(view)
  /\ view.settingsRedo = Absent => w.settingsRedo = Absent

LEMMA CredentialChanges ==
  ASSUME TypeOK, IInv, NEW w, NEW f, NEW c, Writing(f, c), w = Changed(f, c),
         WriteCredential \/ WriteAccount \/ ClearCredentialRedo
  PROVE  Sound(w) /\ KeepsUser(w) /\ KeepsSettings(w) /\ (f = "redo" => w.redo = Absent)
<1>1. UserSound(view) /\ SettingsSound(view)
  BY SoundIs DEF IInv, ImagesSound
<1>2. view.redo # Absent
  BY DEF WriteCredential, WriteAccount, ClearCredentialRedo, ResumingCredential
<1>3. ASSUME w.settingsRedo = view.settingsRedo, w.global = view.global,
             w.workspace = view.workspace
      PROVE  SettingsSound(w) /\ KeepsSettings(w)
  BY <1>1, <1>3, SettingsSoundIs, SettingsOfIs DEF KeepsSettings
<1>4. CASE WriteCredential /\ f = "credential" /\ c = view.redo.credential
  <2>1. /\ w.credential = c /\ w.account = view.account /\ w.redo = view.redo
        /\ w.settingsRedo = view.settingsRedo /\ w.global = view.global
        /\ w.workspace = view.workspace
    BY <1>4, ChangedIs
  <2>2. UserSound(w)
    BY <1>1, <1>2, <1>4, <2>1 DEF UserSound, LogSound, WriteCredential
  <2>. QED  BY <1>2, <1>3, <1>4, <2>1, <2>2, SoundIs, UserOfIs DEF KeepsUser
<1>5. CASE WriteAccount /\ f = "account" /\ c = view.redo.account
  <2>1. /\ w.credential = view.credential /\ w.account = c /\ w.redo = view.redo
        /\ w.settingsRedo = view.settingsRedo /\ w.global = view.global
        /\ w.workspace = view.workspace
    BY <1>5, ChangedIs
  <2>2. UserSound(w)
    BY <1>1, <1>2, <1>5, <2>1 DEF UserSound, LogSound, WriteAccount
  <2>. QED  BY <1>2, <1>3, <1>5, <2>1, <2>2, SoundIs, UserOfIs DEF KeepsUser
<1>6. CASE ClearCredentialRedo /\ f = "redo" /\ c = Absent
  <2>1. /\ w.credential = view.credential /\ w.account = view.account /\ w.redo = Absent
        /\ w.settingsRedo = view.settingsRedo /\ w.global = view.global
        /\ w.workspace = view.workspace
    BY <1>6, ChangedIs
  <2>2. view.credential = view.redo.credential /\ view.account = view.redo.account
    BY <1>6 DEF ClearCredentialRedo
  <2>3. UserSound(w)
    BY <1>1, <1>2, <2>1, <2>2 DEF UserSound, LogSound, Complete
  <2>4. UserOf(w) = UserOf(view)
    BY <1>2, <2>1, <2>2 DEF UserOf, StoredUser
  <2>. QED  BY <1>3, <1>6, <2>1, <2>3, <2>4, SoundIs DEF KeepsUser
<1>. QED
  BY <1>4, <1>5, <1>6 DEF Writing, WriteCredential, WriteAccount, ClearCredentialRedo,
     IntendCredential, WriteGlobal, WriteWorkspace, ClearSettingsRedo, IntendSettings,
     ResumingCredential, ResumingSettings, InPhase

LEMMA CredentialIntended ==
  ASSUME TypeOK, IInv, IntendCredential, NEW w, w = Changed("redo", CredentialLog)
  PROVE  Sound(w) /\ KeepsSettings(w) /\ NewUserLog(w) /\ UserOf(w) = job.user
<1>1. SettingsSound(view)
  BY SoundIs DEF IInv, ImagesSound
<1>2. /\ w.credential = view.credential /\ w.account = view.account /\ w.redo = CredentialLog
      /\ w.settingsRedo = view.settingsRedo /\ w.global = view.global
      /\ w.workspace = view.workspace
  BY ChangedIs
<1>3. /\ w.redo # Absent
      /\ w.redo.oldCredential = w.credential /\ w.redo.oldAccount = w.account
      /\ w.redo.account = NextAccount /\ w.redo.credential = NextEnvelope
  BY <1>2, LogTypes DEF CredentialLog
<1>4. UserSound(w)
  BY <1>3, NextFilesType DEF UserSound, LogSound
<1>5. SettingsSound(w) /\ KeepsSettings(w)
  BY <1>1, <1>2, SettingsSoundIs, SettingsOfIs DEF KeepsSettings
<1>6. UserOf(w) = job.user
  BY <1>3, NextFilesType DEF UserOf
<1>7. CredentialSettled
  <2>1. at = "busy" /\ plan # <<>> /\ Head(plan) = "credential:intent"
    BY DEF IntendCredential, InPhase
  <2>2. Comes("credential:intent", job.op, Len(plan))
    BY <2>1, Whereabouts DEF IInv
  <2>. QED  BY <2>2 DEF Comes, CredentialSettled
<1>8. view.redo = Absent
  BY <1>7 DEF IInv, Progress, IntendCredential, InPhase
<1>. QED  BY <1>2, <1>3, <1>4, <1>5, <1>6, <1>8, SoundIs DEF NewUserLog

LEMMA SettingsChanges ==
  ASSUME TypeOK, IInv, NEW w, NEW f, NEW c, Writing(f, c), w = Changed(f, c),
         WriteGlobal \/ WriteWorkspace \/ ClearSettingsRedo
  PROVE  /\ Sound(w) /\ KeepsUser(w) /\ KeepsSettings(w)
         /\ f = "settingsRedo" => w.settingsRedo = Absent
<1>1. UserSound(view) /\ SettingsSound(view)
  BY SoundIs DEF IInv, ImagesSound
<1>2. view.settingsRedo # Absent
  BY DEF WriteGlobal, WriteWorkspace, ClearSettingsRedo, ResumingSettings
<1>3. ASSUME w.redo = view.redo, w.credential = view.credential, w.account = view.account
      PROVE  UserSound(w) /\ KeepsUser(w)
  BY <1>1, <1>3, UserSoundIs, UserOfIs DEF KeepsUser
<1>4. CASE WriteGlobal /\ f = "global" /\ c = view.settingsRedo.new
  <2>1. /\ w.credential = view.credential /\ w.account = view.account /\ w.redo = view.redo
        /\ w.settingsRedo = view.settingsRedo /\ w.global = c
        /\ w.workspace = view.workspace
    BY <1>4, ChangedIs
  <2>2. SettingsSound(w)
    BY <1>1, <1>2, <1>4, <2>1 DEF SettingsSound, WriteGlobal
  <2>. QED  BY <1>2, <1>3, <1>4, <2>1, <2>2, SoundIs, SettingsOfIs DEF KeepsSettings
<1>5. CASE WriteWorkspace /\ f = "workspace" /\ c = view.settingsRedo.new
  <2>1. /\ w.credential = view.credential /\ w.account = view.account /\ w.redo = view.redo
        /\ w.settingsRedo = view.settingsRedo /\ w.global = view.global
        /\ w.workspace = c
    BY <1>5, ChangedIs
  <2>2. SettingsSound(w)
    BY <1>1, <1>2, <1>5, <2>1 DEF SettingsSound, WriteWorkspace
  <2>. QED  BY <1>2, <1>3, <1>5, <2>1, <2>2, SoundIs, SettingsOfIs DEF KeepsSettings
<1>6. CASE ClearSettingsRedo /\ f = "settingsRedo" /\ c = Absent
  <2>1. /\ w.credential = view.credential /\ w.account = view.account /\ w.redo = view.redo
        /\ w.settingsRedo = Absent /\ w.global = view.global
        /\ w.workspace = view.workspace
    BY <1>6, ChangedIs
  <2>2. /\ view.global = view.settingsRedo.new
        /\ view.workspace = view.settingsRedo.new
    BY <1>6 DEF ClearSettingsRedo
  <2>3. SettingsSound(w) /\ SettingsOf(w) = SettingsOf(view)
    BY <1>2, <2>1, <2>2 DEF SettingsSound, SettingsOf
  <2>. QED  BY <1>3, <1>6, <2>1, <2>3, SoundIs DEF KeepsSettings
<1>. QED
  BY <1>4, <1>5, <1>6 DEF Writing, WriteCredential, WriteAccount, ClearCredentialRedo,
     IntendCredential, WriteGlobal, WriteWorkspace, ClearSettingsRedo, IntendSettings,
     ResumingCredential, ResumingSettings, InPhase

LEMMA SettingsIntended ==
  ASSUME TypeOK, IInv, IntendSettings, NEW w, w = Changed("settingsRedo", SettingsLog)
  PROVE  Sound(w) /\ KeepsUser(w) /\ NewSettingsLog(w) /\ SettingsOf(w) = job.settings
<1>1. UserSound(view) /\ SettingsSound(view)
  BY SoundIs DEF IInv, ImagesSound
<1>2. SettingsSettled
  <2>1. at = "busy" /\ plan # <<>> /\ Head(plan) = "settings:intent"
    BY DEF IntendSettings, InPhase
  <2>2. Comes("settings:intent", job.op, Len(plan))
    BY <2>1, Whereabouts DEF IInv
  <2>. QED  BY <2>2 DEF Comes, SettingsSettled
<1>3. view.settingsRedo = Absent /\ view.global = view.workspace
  <2>1. view.settingsRedo = Absent
    BY <1>2 DEF IInv, Progress, IntendSettings, InPhase
  <2>. QED  BY <1>1, <2>1 DEF SettingsSound
<1>4. /\ w.credential = view.credential /\ w.account = view.account /\ w.redo = view.redo
      /\ w.settingsRedo = SettingsLog /\ w.global = view.global
      /\ w.workspace = view.workspace
  BY ChangedIs
<1>5. /\ w.settingsRedo # Absent
      /\ w.settingsRedo.old = w.global /\ w.settingsRedo.new = job.settings
  BY <1>4, LogTypes DEF SettingsLog
<1>6. SettingsSound(w)
  BY <1>3, <1>4, <1>5 DEF SettingsSound
<1>7. UserSound(w) /\ KeepsUser(w)
  BY <1>1, <1>4, UserSoundIs, UserOfIs DEF KeepsUser
<1>8. SettingsOf(w) = job.settings
  BY <1>5 DEF SettingsOf
<1>. QED  BY <1>3, <1>4, <1>5, <1>6, <1>7, <1>8, SoundIs DEF NewSettingsLog

-----------------------------------------------------------------------------
(* One more image *)

\* The user, or the settings, are those that were, with the promise as it was,
\* or a new log says what they are, and nothing is promised of them.
UserChange ==
  \/ UserOf(view') = UserOf(view) /\ promise'.user = promise.user
  \/ NewUserLog(view') /\ promise'.user = Open

SettingsChange ==
  \/ SettingsOf(view') = SettingsOf(view) /\ promise'.settings = promise.settings
  \/ NewSettingsLog(view') /\ promise'.settings = Open

LEMMA UserKept ==
  ASSUME IInv, NEW f, NEW c, Shows(f, c), UserChange
  PROVE  /\ \/ \A v \in disk' : UserOf(v) = UserOf(view')
            \/ UserUnconfirmed(UserOf(view))'
         /\ promise'.user # Open =>
              \A v \in disk' \cup {view'} : UserOf(v) = promise'.user
<1>1. /\ view \in disk /\ view' \in disk'
      /\ disk' = {view'} \/ disk' = disk \cup {view'}
  BY DEF IInv, ImagesSound, Shows
<1>2. CASE UserOf(view') = UserOf(view) /\ promise'.user = promise.user
  <2>1. \A v \in disk : promise.user # Open => UserOf(v) = promise.user
    BY DEF IInv, PromiseKept
  <2>2. promise'.user # Open =>
          \A v \in disk' \cup {view'} : UserOf(v) = promise'.user
    BY <1>1, <1>2, <2>1
  <2>3. CASE disk' = {view'}
    BY <2>2, <2>3
  <2>4. CASE disk' = disk \cup {view'}
    <3>1. CASE \A v \in disk : UserOf(v) = UserOf(view)
      BY <1>2, <2>2, <2>4, <3>1
    <3>2. CASE UserUnconfirmed(UserOf(view))
      BY <1>2, <2>2, <2>4, <3>2 DEF UserUnconfirmed
    <3>. QED  BY <3>1, <3>2 DEF IInv, ImagesSound
  <2>. QED  BY <1>1, <2>3, <2>4
<1>3. CASE NewUserLog(view') /\ promise'.user = Open
  BY <1>1, <1>3 DEF NewUserLog, UserUnconfirmed
<1>. QED  BY <1>2, <1>3 DEF UserChange

LEMMA SettingsKept ==
  ASSUME IInv, NEW f, NEW c, Shows(f, c), SettingsChange
  PROVE  /\ \/ \A v \in disk' : SettingsOf(v) = SettingsOf(view')
            \/ SettingsUnconfirmed(SettingsOf(view))'
         /\ promise'.settings # Open =>
              \A v \in disk' \cup {view'} : SettingsOf(v) = promise'.settings
<1>1. /\ view \in disk /\ view' \in disk'
      /\ disk' = {view'} \/ disk' = disk \cup {view'}
  BY DEF IInv, ImagesSound, Shows
<1>2. CASE SettingsOf(view') = SettingsOf(view) /\ promise'.settings = promise.settings
  <2>1. \A v \in disk : promise.settings # Open => SettingsOf(v) = promise.settings
    BY DEF IInv, PromiseKept
  <2>2. promise'.settings # Open =>
          \A v \in disk' \cup {view'} : SettingsOf(v) = promise'.settings
    BY <1>1, <1>2, <2>1
  <2>3. CASE disk' = {view'}
    BY <2>2, <2>3
  <2>4. CASE disk' = disk \cup {view'}
    <3>1. CASE \A v \in disk : SettingsOf(v) = SettingsOf(view)
      BY <1>2, <2>2, <2>4, <3>1
    <3>2. CASE SettingsUnconfirmed(SettingsOf(view))
      BY <1>2, <2>2, <2>4, <3>2 DEF SettingsUnconfirmed
    <3>. QED  BY <3>1, <3>2 DEF IInv, ImagesSound
  <2>. QED  BY <1>1, <2>3, <2>4
<1>3. CASE NewSettingsLog(view') /\ promise'.settings = Open
  <2>1. SettingsOf(view') = view'.settingsRedo.new
    BY <1>3 DEF NewSettingsLog, SettingsOf
  <2>. QED  BY <1>1, <1>3, <2>1 DEF NewSettingsLog, SettingsUnconfirmed
<1>. QED  BY <1>2, <1>3 DEF SettingsChange

LEMMA ImagesKept ==
  ASSUME IInv, NEW f, NEW c, Shows(f, c), Sound(view'), UserChange, SettingsChange
  PROVE  ImagesSound' /\ PromiseKept'
<1>1. view' \in disk' /\ \A v \in disk' : Sound(v)
  BY DEF IInv, ImagesSound, Shows
<1>2. /\ \/ \A v \in disk' : UserOf(v) = UserOf(view')
         \/ UserUnconfirmed(UserOf(view))'
      /\ promise'.user # Open => \A v \in disk' \cup {view'} : UserOf(v) = promise'.user
  BY UserKept
<1>3. /\ \/ \A v \in disk' : SettingsOf(v) = SettingsOf(view')
         \/ SettingsUnconfirmed(SettingsOf(view))'
      /\ promise'.settings # Open =>
           \A v \in disk' \cup {view'} : SettingsOf(v) = promise'.settings
  BY SettingsKept
<1>4. ImagesSound'
  BY <1>1, <1>2, <1>3 DEF ImagesSound
<1>5. PromiseKept'
  BY <1>2, <1>3 DEF PromiseKept
<1>. QED  BY <1>4, <1>5

LEMMA FilesUnchanged ==
  ASSUME IInv, Unchanged
  PROVE  ImagesSound' /\ (KeepPromise \/ promise' = [promise EXCEPT !.user = Open]
                             \/ promise' = [promise EXCEPT !.settings = Open] => PromiseKept')
<1>1. ImagesSound'
  BY DEF IInv, ImagesSound, Unchanged, UserUnconfirmed, SettingsUnconfirmed
<1>2. CASE KeepPromise
  BY <1>1, <1>2 DEF IInv, PromiseKept, Unchanged, KeepPromise
<1>3. CASE promise' = [promise EXCEPT !.user = Open]
  <2>1. /\ promise'.user = promise.user \/ promise'.user = Open
        /\ promise'.settings = promise.settings \/ promise'.settings = Open
    BY <1>3 DEF IInv, PromiseKept
  <2>. QED  BY <1>1, <2>1 DEF IInv, PromiseKept, Unchanged
<1>4. CASE promise' = [promise EXCEPT !.settings = Open]
  BY <1>1, <1>4 DEF IInv, PromiseKept, Unchanged
<1>. QED  BY <1>1, <1>2, <1>3, <1>4

\* What a change of a file leaves when it takes effect.
LEMMA WritingIs ==
  ASSUME TypeOK, IInv, NEW f, NEW c, Writing(f, c), Shows(f, c)
  PROVE  /\ Sound(view') /\ UserChange /\ SettingsChange
         /\ IntendCredential \/ KeepsUser(view')
         /\ IntendCredential => UserOf(view') = job.user
         /\ IntendSettings \/ KeepsSettings(view')
         /\ IntendSettings => SettingsOf(view') = job.settings
         /\ f = "redo" /\ ~IntendCredential => view'.redo = Absent
         /\ f = "settingsRedo" /\ ~IntendSettings => view'.settingsRedo = Absent
<1>. DEFINE w == Changed(f, c)
<1>0. view' = w
  BY DEF Shows
<1>. HIDE DEF w
<1>. USE DEF UserChange, SettingsChange, KeepsUser, KeepsSettings
<1>1. CASE WriteCredential \/ WriteAccount \/ ClearCredentialRedo
  <2>1. Sound(w) /\ KeepsUser(w) /\ KeepsSettings(w) /\ (f = "redo" => w.redo = Absent)
    BY <1>1, CredentialChanges DEF w
  <2>2. KeepPromise
    BY <1>1 DEF WriteCredential, WriteAccount, ClearCredentialRedo
  <2>3. ~IntendCredential /\ ~IntendSettings
    BY <1>1 DEF WriteCredential, WriteAccount, ClearCredentialRedo, ResumingCredential,
       IntendCredential, IntendSettings, InPhase
  <2>4. f # "settingsRedo"
    BY <1>1 DEF Writing, WriteCredential, WriteAccount, ClearCredentialRedo, ResumingCredential,
       IntendCredential, IntendSettings, WriteGlobal, WriteWorkspace, ClearSettingsRedo,
       ResumingSettings, InPhase
  <2>. QED  BY <1>0, <2>1, <2>2, <2>3, <2>4 DEF KeepPromise
<1>2. CASE IntendCredential
  <2>1. f = "redo" /\ c = CredentialLog
    BY <1>2 DEF Writing, WriteCredential, WriteAccount, ClearCredentialRedo, ResumingCredential,
       IntendCredential, IntendSettings, WriteGlobal, WriteWorkspace, ClearSettingsRedo,
       ResumingSettings, InPhase
  <2>2. Sound(w) /\ KeepsSettings(w) /\ NewUserLog(w) /\ UserOf(w) = job.user
    BY <1>2, <2>1, CredentialIntended DEF w
  <2>3. promise'.user = Open /\ promise'.settings = promise.settings
    BY <1>2 DEF IntendCredential, TypeOK
  <2>4. ~IntendSettings
    BY <1>2 DEF IntendCredential, IntendSettings, InPhase
  <2>. QED  BY <1>0, <1>2, <2>1, <2>2, <2>3, <2>4
<1>3. CASE WriteGlobal \/ WriteWorkspace \/ ClearSettingsRedo
  <2>1. /\ Sound(w) /\ KeepsUser(w) /\ KeepsSettings(w)
        /\ f = "settingsRedo" => w.settingsRedo = Absent
    BY <1>3, SettingsChanges DEF w
  <2>2. KeepPromise
    BY <1>3 DEF WriteGlobal, WriteWorkspace, ClearSettingsRedo
  <2>3. ~IntendCredential /\ ~IntendSettings
    BY <1>3 DEF WriteGlobal, WriteWorkspace, ClearSettingsRedo, ResumingSettings,
       IntendCredential, IntendSettings, InPhase
  <2>4. f # "redo"
    BY <1>3 DEF Writing, WriteCredential, WriteAccount, ClearCredentialRedo, ResumingCredential,
       IntendCredential, IntendSettings, WriteGlobal, WriteWorkspace, ClearSettingsRedo,
       ResumingSettings, InPhase
  <2>. QED  BY <1>0, <2>1, <2>2, <2>3, <2>4 DEF KeepPromise
<1>4. CASE IntendSettings
  <2>1. f = "settingsRedo" /\ c = SettingsLog
    BY <1>4 DEF Writing, WriteCredential, WriteAccount, ClearCredentialRedo, ResumingCredential,
       IntendCredential, IntendSettings, WriteGlobal, WriteWorkspace, ClearSettingsRedo,
       ResumingSettings, InPhase
  <2>2. Sound(w) /\ KeepsUser(w) /\ NewSettingsLog(w) /\ SettingsOf(w) = job.settings
    BY <1>4, <2>1, SettingsIntended DEF w
  <2>3. promise'.settings = Open /\ promise'.user = promise.user
    BY <1>4 DEF IntendSettings, TypeOK
  <2>4. ~IntendCredential
    BY <1>4 DEF IntendCredential, IntendSettings, InPhase
  <2>. QED  BY <1>0, <1>4, <2>1, <2>2, <2>3, <2>4
<1>. QED  BY <1>1, <1>2, <1>3, <1>4 DEF Writing

-----------------------------------------------------------------------------
(* Progress *)

\* A phase ends: what it has brought about is what the phases left rely on.
LEMMA PhaseEnds ==
  ASSUME TypeOK, Progress, at = "busy", plan # <<>>, NextPhase,
         Head(plan) = "credential:intent" \/ KeepsUser(view'),
         Head(plan) = "credential:intent" => UserOf(view') = job.user,
         Head(plan) = "settings:intent" \/ KeepsSettings(view'),
         Head(plan) = "settings:intent" => SettingsOf(view') = job.settings,
         Head(plan) = "credential:redo" => view'.redo = Absent,
         Head(plan) = "settings:redo" => view'.settingsRedo = Absent
  PROVE  Progress'
<1>. DEFINE n == Len(plan)
<1>. DEFINE op == job.op
<1>1. n \in Nat \ {0} /\ Comes(Head(plan), op, n)
  BY Whereabouts
<1>2. /\ at' = at /\ job' = job /\ Len(plan') = n - 1 /\ Follows(plan', op)
  BY TailFollows DEF NextPhase, TypeOK, Progress
<1>3. /\ \/ op \in {"login", "logout"} /\ n = 5
         \/ op = "start" /\ n <= 2
         \/ op = "connect" /\ n <= 1
         => view.redo = Absent
      /\ op \in {"login", "logout"} /\ n <= 4 => UserOf(view) = job.user
      /\ \/ op \in {"login", "logout", "rollback"} /\ n = 2
         \/ op = "save" /\ n = 3
         \/ op = "start" /\ n <= 1
         => view.settingsRedo = Absent
      /\ \/ op \in {"login", "logout", "rollback"} /\ n <= 1
         \/ op = "save" /\ n <= 2
         => SettingsOf(view) = job.settings
  BY DEF Progress, CredentialSettled, CredentialStored, SettingsSettled, SettingsStored
<1>. HIDE DEF n, op
<1>4. ASSUME \/ op \in {"login", "logout"} /\ n - 1 = 5
             \/ op = "start" /\ n - 1 <= 2
             \/ op = "connect" /\ n - 1 <= 1
      PROVE  view'.redo = Absent
  BY <1>1, <1>3, <1>4 DEF Comes, KeepsUser
<1>5. ASSUME op \in {"login", "logout"} /\ n - 1 <= 4
      PROVE  UserOf(view') = job.user
  BY <1>1, <1>3, <1>5 DEF Comes, KeepsUser
<1>6. ASSUME \/ op \in {"login", "logout", "rollback"} /\ n - 1 = 2
             \/ op = "save" /\ n - 1 = 3
             \/ op = "start" /\ n - 1 <= 1
      PROVE  view'.settingsRedo = Absent
  BY <1>1, <1>3, <1>6 DEF Comes, KeepsSettings
<1>7. ASSUME \/ op \in {"login", "logout", "rollback"} /\ n - 1 <= 1
             \/ op = "save" /\ n - 1 <= 2
      PROVE  SettingsOf(view') = job.settings
  BY <1>1, <1>3, <1>7 DEF Comes, KeepsSettings
<1>. QED
  BY <1>2, <1>4, <1>5, <1>6, <1>7
    DEF Progress, CredentialSettled, CredentialStored, SettingsSettled, SettingsStored,
        UserOf, SettingsOf, StoredUser, op

LEMMA WritesProgress ==
  ASSUME TypeOK, IInv, NEW f, NEW c, Writing(f, c)
  PROVE  Progress'
<1>1. at = "busy" /\ plan # <<>>
  BY WritingShows
<1>2. CASE Throws
  BY <1>2 DEF Throws, Progress
<1>3. CASE Shows(f, c) /\ f \in {"redo", "settingsRedo"} /\ NextPhase
  <2>1. /\ Head(plan) = "credential:intent" <=> IntendCredential
        /\ Head(plan) = "settings:intent" <=> IntendSettings
        /\ Head(plan) = "credential:redo" => f = "redo" /\ ~IntendCredential
        /\ Head(plan) = "settings:redo" => f = "settingsRedo" /\ ~IntendSettings
    BY <1>3 DEF Writing, WriteCredential, WriteAccount, ClearCredentialRedo, ResumingCredential,
       IntendCredential, IntendSettings, WriteGlobal, WriteWorkspace, ClearSettingsRedo,
       ResumingSettings, InPhase
  <2>. QED  BY <1>1, <1>3, <2>1, WritingIs, PhaseEnds DEF IInv
<1>4. CASE Shows(f, c) /\ f \notin {"redo", "settingsRedo"} /\ Continue
  <2>1. ~IntendCredential /\ ~IntendSettings
    BY <1>4 DEF Writing, WriteCredential, WriteAccount, ClearCredentialRedo, ResumingCredential,
       IntendCredential, IntendSettings, WriteGlobal, WriteWorkspace, ClearSettingsRedo,
       ResumingSettings, InPhase
  <2>2. KeepsUser(view') /\ KeepsSettings(view')
    BY <1>4, <2>1, WritingIs
  <2>3. at' = at /\ job' = job /\ plan' = plan
    BY <1>4 DEF Continue
  <2>. QED
    BY <2>2, <2>3 DEF IInv, Progress, KeepsUser, KeepsSettings, UserOf, SettingsOf, StoredUser,
       CredentialSettled, CredentialStored, SettingsSettled, SettingsStored
<1>. QED  BY <1>2, <1>3, <1>4, WritingShows

LEMMA SkipsProgress ==
  ASSUME TypeOK, IInv, Skips
  PROVE  Progress'
<1>1. at = "busy" /\ plan # <<>> /\ view' = view
  BY SkipsIs DEF Unchanged
<1>2. CASE Throws
  BY <1>2 DEF Throws, Progress
<1>3. CASE NextPhase
  <2>1. KeepsUser(view') /\ KeepsSettings(view')
    BY <1>1 DEF KeepsUser, KeepsSettings
  <2>2. ASSUME Head(plan) = "credential:intent"
        PROVE  UserOf(view') = job.user
    <3>1. NoCredentialChange
      BY <1>1, <2>2 DEF Skips, Load, NoCredentialRedo, OpenCredential,
         SettingsRedoRefused, NoSettingsRedo, NoSettingsChange, Apply, InPhase
    <3>2. view.redo = Absent
      BY <1>1, <2>2, Whereabouts DEF IInv, Progress, Comes, CredentialSettled
    <3>. QED
      BY <1>1, <3>1, <3>2 DEF NoCredentialChange, NothingToClear, UserOf, StoredUser
  <2>3. ASSUME Head(plan) = "settings:intent"
        PROVE  SettingsOf(view') = job.settings
    <3>1. NoSettingsChange
      BY <1>1, <2>3 DEF Skips, Load, NoCredentialRedo, NoCredentialChange, OpenCredential,
         SettingsRedoRefused, NoSettingsRedo, Apply, InPhase
    <3>2. view.settingsRedo = Absent
      BY <1>1, <2>3, Whereabouts DEF IInv, Progress, Comes, SettingsSettled
    <3>. QED
      BY <1>1, <3>1, <3>2 DEF NoSettingsChange, NoDifference, SettingsOf
  <2>4. Head(plan) = "credential:redo" => view'.redo = Absent
    BY <1>1 DEF Skips, Load, NoCredentialRedo, NoCredentialChange, OpenCredential,
       SettingsRedoRefused, NoSettingsRedo, NoSettingsChange, Apply, InPhase
  <2>5. SettingsRedoRefused => Throws
    BY DEF SettingsRedoRefused
  <2>6. Head(plan) = "settings:redo" => view'.settingsRedo = Absent
    <3>1. ASSUME SettingsRedoRefused
          PROVE  FALSE
      BY <1>1, <1>3, <2>5, <3>1 DEF Throws, NextPhase, TypeOK
    <3>. QED
      BY <1>1, <3>1 DEF Skips, Load, NoCredentialRedo, NoCredentialChange, OpenCredential,
         NoSettingsRedo, NoSettingsChange, Apply, InPhase
  <2>. QED  BY <1>1, <1>3, <2>1, <2>2, <2>3, <2>4, <2>6, PhaseEnds DEF IInv
<1>. QED  BY <1>2, <1>3, SkipsIs

LEMMA BeginsProgress ==
  ASSUME TypeOK, Begins
  PROVE  Progress'
<1>1. /\ at' = "busy" /\ job' \in Jobs /\ Follows(plan', job'.op)
      /\ Len(plan') = (CASE job'.op \in {"start", "save"} -> 4
                         [] job'.op = "connect" -> 2
                         [] OTHER -> 6)
  BY BeginsIs
<1>2. CASE job'.op = "rollback"
  BY <1>1, <1>2 DEF Progress, CredentialSettled, CredentialStored, SettingsSettled, SettingsStored
<1>3. CASE job'.op \in {"start", "save"}
  BY <1>1, <1>3 DEF Progress, CredentialSettled, CredentialStored, SettingsSettled, SettingsStored
<1>4. CASE job'.op = "connect"
  BY <1>1, <1>4 DEF Progress, CredentialSettled, CredentialStored, SettingsSettled, SettingsStored
<1>5. CASE job'.op \in {"login", "logout"}
  BY <1>1, <1>5 DEF Progress, CredentialSettled, CredentialStored, SettingsSettled, SettingsStored
<1>. QED  BY <1>1, <1>2, <1>3, <1>4, <1>5 DEF Jobs, Operations

-----------------------------------------------------------------------------
(* The end of an operation, and the theorems *)

\* What is reported is what the files say, or is promised already.
LEMMA ReportedIs ==
  ASSUME TypeOK, IInv, at = "busy", plan = <<>>
  PROVE  /\ Reported.user = UserOf(view) \/ Reported.user = promise.user
         /\ Reported.settings = SettingsOf(view) \/ Reported.settings = promise.settings
<1>1. Len(plan) = 0 /\ job.op \in Operations
  BY DEF TypeOK
<1>2. CASE job.op = "start"
  <2>1. view.redo = Absent /\ view.settingsRedo = Absent
    BY <1>1, <1>2 DEF IInv, Progress, CredentialSettled, SettingsSettled
  <2>. QED  BY <1>2, <2>1 DEF Reported, UserOf, SettingsOf
<1>3. CASE job.op = "connect"
  <2>1. view.redo = Absent
    BY <1>1, <1>3 DEF IInv, Progress, CredentialSettled
  <2>. QED  BY <1>3, <2>1 DEF Reported, UserOf, TypeOK
<1>4. CASE job.op \in {"login", "logout"}
  <2>1. UserOf(view) = job.user /\ SettingsOf(view) = job.settings
    BY <1>1, <1>4 DEF IInv, Progress, CredentialStored, SettingsStored
  <2>. QED  BY <1>4, <2>1 DEF Reported
<1>5. CASE job.op \in {"save", "rollback"}
  <2>1. SettingsOf(view) = job.settings
    BY <1>1, <1>5 DEF IInv, Progress, SettingsStored
  <2>. QED  BY <1>5, <2>1 DEF Reported, TypeOK
<1>. QED  BY <1>1, <1>2, <1>3, <1>4, <1>5 DEF Operations

LEMMA ReportKeeps ==
  ASSUME TypeOK, IInv, Report
  PROVE  IInv'
<1>1. /\ at = "busy" /\ plan = <<>> /\ at' = "idle" /\ Unchanged /\ promise' = Binding
  BY DEF Report
<1>2. ImagesSound'
  BY <1>1, FilesUnchanged
<1>3. ASSUME promise'.user # Open, NEW v \in disk \cup {view}
      PROVE  UserOf(v) = promise'.user
  <2>1. ~UserUnconfirmed(Reported.user) /\ promise'.user = Reported.user
    BY <1>1, <1>3 DEF Binding
  <2>. QED
    BY <1>1, <1>3, <2>1, ReportedIs DEF IInv, ImagesSound, PromiseKept
<1>4. ASSUME promise'.settings # Open, NEW v \in disk \cup {view}
      PROVE  SettingsOf(v) = promise'.settings
  <2>1. ~SettingsUnconfirmed(Reported.settings) /\ promise'.settings = Reported.settings
    BY <1>1, <1>4 DEF Binding
  <2>. QED
    BY <1>1, <1>4, <2>1, ReportedIs DEF IInv, ImagesSound, PromiseKept
<1>5. PromiseKept'
  BY <1>1, <1>3, <1>4 DEF PromiseKept, Unchanged
<1>6. Progress'
  BY <1>1 DEF Progress
<1>. QED  BY <1>2, <1>5, <1>6 DEF IInv

LEMMA PowerLossKeeps ==
  ASSUME IInv, PowerLoss
  PROVE  IInv'
<1>1. view' \in disk /\ disk' = {view'} /\ promise' = promise /\ at' = "down"
  BY DEF PowerLoss, Down
<1>2. ImagesSound'
  BY <1>1 DEF IInv, ImagesSound
<1>3. PromiseKept'
  BY <1>1 DEF IInv, PromiseKept
<1>4. Progress'
  BY <1>1 DEF Progress
<1>. QED  BY <1>2, <1>3, <1>4 DEF IInv

LEMMA ApplyFailsKeeps ==
  ASSUME TypeOK, IInv, ApplyFails
  PROVE  IInv'
<1>1. /\ at' = at /\ Unchanged /\ plan' = SaveSettings
      /\ job'.op = "rollback" /\ promise' = [promise EXCEPT !.settings = Open]
  BY DEF ApplyFails, TypeOK
<1>2. ImagesSound' /\ PromiseKept'
  BY <1>1, FilesUnchanged
<1>3. Progress'
  BY <1>1, RollbackFollows
    DEF Progress, CredentialSettled, CredentialStored, SettingsSettled, SettingsStored
<1>. QED  BY <1>2, <1>3 DEF IInv

LEMMA StepKeeps ==
  ASSUME TypeOK, IInv, [Next]_vars
  PROVE  IInv'
<1>1. CASE Begins
  BY <1>1, BeginsIs, BeginsProgress, FilesUnchanged DEF IInv
<1>2. CASE Skips
  BY <1>2, SkipsIs, SkipsProgress, FilesUnchanged DEF IInv
<1>3. CASE Writes
  <2>1. PICK f, c : Writing(f, c)
    BY <1>3, WritesIs
  <2>2. Progress'
    BY <2>1, WritesProgress
  <2>3. CASE Shows(f, c)
    BY <2>1, <2>2, <2>3, WritingIs, ImagesKept DEF IInv
  <2>4. CASE Unchanged
    <3>1. \/ KeepPromise
          \/ promise' = [promise EXCEPT !.user = Open]
          \/ promise' = [promise EXCEPT !.settings = Open]
      BY <1>3 DEF Writes, WriteCredential, WriteAccount, ClearCredentialRedo, IntendCredential,
                  WriteGlobal, WriteWorkspace, ClearSettingsRedo, IntendSettings
    <3>. QED  BY <2>2, <2>4, <3>1, FilesUnchanged DEF IInv
  <2>. QED  BY <2>1, <2>3, <2>4, WritingShows
<1>4. CASE ApplyFails
  BY <1>4, ApplyFailsKeeps
<1>5. CASE Report
  BY <1>5, ReportKeeps
<1>6. CASE ProcessExits
  <2>1. Unchanged /\ KeepPromise /\ at' = "down"
    BY <1>6 DEF ProcessExits, Down, KeepPromise
  <2>. QED  BY <2>1, FilesUnchanged DEF IInv, Progress
<1>7. CASE PowerLoss
  BY <1>7, PowerLossKeeps
<1>8. CASE UNCHANGED vars
  <2>1. Unchanged /\ KeepPromise /\ at' = at /\ job' = job /\ plan' = plan
    BY <1>8 DEF vars, Unchanged, KeepPromise
  <2>2. Progress'
    BY <2>1 DEF IInv, Progress, Unchanged, CredentialSettled, CredentialStored, SettingsSettled,
                SettingsStored
  <2>. QED  BY <2>1, <2>2, FilesUnchanged DEF IInv
<1>. QED
  BY <1>1, <1>2, <1>3, <1>4, <1>5, <1>6, <1>7, <1>8 DEF Next, Begins, Skips, Writes

LEMMA InitHolds ==
  ASSUME Init
  PROVE  TypeOK /\ IInv
<1>. PICK s \in Values :
       /\ view = [account |-> [rev |-> 1, stored |-> FALSE], credential |-> Absent,
                  redo |-> Absent, global |-> s, workspace |-> s, settingsRedo |-> Absent]
       /\ disk = {view}
       /\ at = "down"
       /\ job = [op |-> "start", user |-> NoUser, settings |-> s,
                 previous |-> s, failed |-> FALSE]
       /\ plan = <<>>
       /\ shown = s
       /\ promise = [user |-> Open, settings |-> Open]
  BY DEF Init
<1>1. view \in Views
  BY DEF Views, Accounts
<1>2. TypeOK
  BY <1>1 DEF TypeOK, Operations
<1>3. Sound(view)
  BY DEF Sound, Settled, Resumable, LogSound, Complete
<1>4. ImagesSound
  BY <1>3 DEF ImagesSound
<1>5. PromiseKept /\ Progress
  BY DEF PromiseKept, Progress
<1>. QED  BY <1>2, <1>4, <1>5 DEF IInv

\* The types and the invariant hold in every reachable state.
THEOREM InvariantCorrect == Spec => [](TypeOK /\ IInv)
<1>1. Init => TypeOK /\ IInv
  BY InitHolds
<1>2. TypeOK /\ IInv /\ [Next]_vars => (TypeOK /\ IInv)'
  BY StepType, StepKeeps
<1>. QED  BY <1>1, <1>2, PTL DEF Spec

\* An image without a log holds a complete credential and one version of the
\* settings, wherever the power fails.
THEOREM SettledImages == Spec => []ImagesSettled
<1>1. TypeOK /\ IInv => ImagesSettled
  BY DEF IInv, ImagesSound, Sound, ImagesSettled
<1>. QED  BY <1>1, InvariantCorrect, PTL

\* An image with a log finds its targets at a stage the program resumes from.
THEOREM ResumableLogs == Spec => []LogsResumable
<1>1. TypeOK /\ IInv => LogsResumable
  BY DEF IInv, ImagesSound, Sound, LogsResumable
<1>. QED  BY <1>1, InvariantCorrect, PTL

\* What was reported stays in effect through crashes, retries and power losses,
\* unless not one change of its transaction was confirmed.
THEOREM KeepsPromise == Spec => []PromiseKept
<1>1. TypeOK /\ IInv => PromiseKept
  BY DEF IInv
<1>. QED  BY <1>1, InvariantCorrect, PTL
===============================================================================
