----------------------- MODULE ConnectionLifecycle_proofs ----------------------
(* Proofs about ConnectionLifecycle, for every number of coroutines, every    *)
(* retry limit and any number of intents and generations, in four parts:      *)
(* types; the safety of a connected machine; that nobody waits in vain; and   *)
(* that the connection implements EngineService.                              *)
EXTENDS ConnectionLifecycle, TLAPS

-----------------------------------------------------------------------------
(* The methods of the machine map snapshots to snapshots. *)

LEMMA InvalidateType ==
  ASSUME NEW c \in Snapshot
  PROVE  InvalidateEngineGeneration(c) \in Snapshot
BY DEF Snapshot, InvalidateEngineGeneration, NoGeneration

LEMMA IntentType ==
  ASSUME NEW c \in Snapshot, NEW b \in BOOLEAN
  PROVE  BeginConnectIntent(c) \in Snapshot /\ BeginStop(c, b) \in Snapshot
<1> DEFINE stopping == [c EXCEPT !.intent = @ + 1, !.desired = b,
                                 !.userDisc = TRUE, !.phase = "stopping"]
<1>0. c.intent + 1 \in Nat
  BY DEF Snapshot
<1>1. BeginConnectIntent(c) \in Snapshot
  BY <1>0 DEF Snapshot, BeginConnectIntent
<1>2. stopping \in Snapshot
  BY <1>0 DEF Snapshot, Phases
<1> HIDE DEF stopping
<1>3. InvalidateEngineGeneration(stopping) \in Snapshot
  BY <1>2, InvalidateType
<1>. QED  BY <1>1, <1>3 DEF BeginStop, stopping

LEMMA AttemptType ==
  ASSUME NEW c \in Snapshot, NEW b \in BOOLEAN, NEW i, NEW ok
  PROVE  /\ BeginConnectAttempt(c, b) \in Snapshot
         /\ StopCompleted(c, i, ok) \in Snapshot
         /\ Resume(c) \in Snapshot
         /\ FailIntent(c, i) \in Snapshot
<1>1. (IF b THEN c.attempts ELSE 0) \in 0 .. MaxAttempts /\ (b /\ c.userDisc) \in BOOLEAN
  BY MaxAttemptsAssumption DEF Snapshot
<1>2. BeginConnectAttempt(c, b) \in Snapshot
  BY <1>1 DEF Snapshot, BeginConnectAttempt, Phases
<1>3. StopCompleted(c, i, ok) \in Snapshot
  BY DEF Snapshot, StopCompleted, Phases
<1>4. Resume(c) \in Snapshot
  BY DEF Snapshot, Resume, Phases
<1>5. FailIntent(c, i) \in Snapshot
  BY DEF Snapshot, FailIntent, Phases
<1>. QED  BY <1>2, <1>3, <1>4, <1>5

LEMMA EngineType ==
  ASSUME NEW c \in Snapshot, NEW g \in Nat, NEW b \in BOOLEAN,
         NEW p \in {"authenticating", "preparing-tunnel"}
  PROVE  /\ PauseForConnectivity(c) \in Snapshot
         /\ BindEngineGeneration(c, g) \in Snapshot
         /\ MarkEnginePhase(c, g, p) \in Snapshot
         /\ RecordCandidate(c, g) \in Snapshot
         /\ RecordListenerReady(c, g) \in Snapshot
         /\ MarkConnected(c, g) \in Snapshot
         /\ MarkEngineStopping(c, b) \in Snapshot
<1>1. PauseForConnectivity(c) \in Snapshot
  BY DEF Snapshot, PauseForConnectivity, InvalidateEngineGeneration, NoGeneration, Phases
<1>2. BindEngineGeneration(c, g) \in Snapshot
  BY DEF Snapshot, BindEngineGeneration, InvalidateEngineGeneration, NoGeneration
<1>3. MarkEnginePhase(c, g, p) \in Snapshot
  BY DEF Snapshot, MarkEnginePhase, Phases
<1>4. RecordCandidate(c, g) \in Snapshot /\ RecordListenerReady(c, g) \in Snapshot
  BY DEF Snapshot, RecordCandidate, RecordListenerReady
<1>5. MarkConnected(c, g) \in Snapshot
  BY DEF Snapshot, MarkConnected, Phases
<1>6. MarkEngineStopping(c, b) \in Snapshot
  BY DEF Snapshot, MarkEngineStopping, Phases
<1>. QED  BY <1>1, <1>2, <1>3, <1>4, <1>5, <1>6

\* The retry number stays within the burst, whatever the failure.
LEMMA NextAttemptBounded ==
  ASSUME NEW a \in 0 .. MaxAttempts, NEW b \in BOOLEAN
  PROVE  NextAttempt(a, b) \in 0 .. MaxAttempts
BY MaxAttemptsAssumption DEF NextAttempt, UsedAttempts

LEMMA ClosedType ==
  ASSUME NEW c \in Snapshot, NEW b \in BOOLEAN, NEW k \in FailureKinds, NEW r \in BOOLEAN
  PROVE  EngineClosed(c, b, k, r) \in Snapshot
<1> DEFINE stable  == c.stable \/ (c.phase = "connected" /\ b)
           settled == [InvalidateEngineGeneration(c) EXCEPT !.phase = "idle"]
<1>1. stable \in BOOLEAN /\ c.attempts \in 0 .. MaxAttempts
  BY DEF Snapshot
<1>2. settled \in Snapshot
  BY InvalidateType DEF Snapshot, Phases
<1>3. NextAttempt(c.attempts, stable) \in 0 .. MaxAttempts
  BY <1>1, NextAttemptBounded
<1>4. (c.desired /\ c.userDisc /\ k # "terminal") \in BOOLEAN
  OBVIOUS
<1> HIDE DEF stable, settled
<1>5. [settled EXCEPT !.phase = "retry-wait", !.attempts = NextAttempt(c.attempts, stable)] \in Snapshot
  BY <1>2, <1>3 DEF Snapshot, Phases
<1>6. [settled EXCEPT !.desired = c.desired /\ c.userDisc /\ k # "terminal"] \in Snapshot
  BY <1>2, <1>4 DEF Snapshot
<1>. QED  BY <1>5, <1>6 DEF EngineClosed, stable, settled

-----------------------------------------------------------------------------
(* The table of coroutines and the flights. *)

TasksTypeOK ==
  /\ task \in [Tasks -> Coroutines]
  /\ connectFlight \in Tasks \cup {NoTask}
  /\ reconnectFlight \in [task : Tasks \cup {NoTask}, intent : Nat]

LEMMA IdleTaskType == IdleTask \in Coroutines
BY DEF IdleTask, Coroutines, NoGeneration

LEMMA BecomeType ==
  ASSUME task \in [Tasks -> Coroutines], NEW t \in Tasks,
         NEW new \in Coroutines, Become(t, new)
  PROVE  task' \in [Tasks -> Coroutines]
BY DEF Become

LEMMA AwaitStopType ==
  ASSUME task \in [Tasks -> Coroutines], NEW t \in Tasks, NEW pc \in AwaitsStop,
         NEW i \in Nat, NEW b \in BOOLEAN, AwaitStop(t, pc, i, b)
  PROVE  task' \in [Tasks -> Coroutines]
<1> DEFINE new == [IdleTask EXCEPT !.pc = pc, !.intent = i, !.retry = b, !.result = "pending"]
<1>1. new \in Coroutines
  BY DEF IdleTask, Coroutines, NoGeneration
<1>. QED  BY <1>1, BecomeType DEF AwaitStop

LEMMA FinishType ==
  ASSUME TasksTypeOK, NEW t \in Tasks, Finish(t)
  PROVE  TasksTypeOK'
<1>1. \A u \in Tasks : [task[u] EXCEPT !.result = "done"] \in Coroutines
  BY DEF TasksTypeOK, Coroutines
<1>2. task' \in [Tasks -> Coroutines]
  BY <1>1, IdleTaskType DEF Finish, TasksTypeOK
<1>3. NoReconnect \in [task : Tasks \cup {NoTask}, intent : Nat]
  BY DEF NoReconnect
<1>4. /\ connectFlight' \in Tasks \cup {NoTask}
      /\ reconnectFlight' \in [task : Tasks \cup {NoTask}, intent : Nat]
  BY <1>3 DEF Finish, TasksTypeOK
<1>. QED  BY <1>2, <1>4 DEF TasksTypeOK

LEMMA DeliverType ==
  ASSUME task \in [Tasks -> Coroutines], NEW r \in StopResults, NEW b
  PROVE  Deliver(r, b) \in [Tasks -> Coroutines]
<1>1. \A u \in Tasks : [task[u] EXCEPT !.result = r] \in Coroutines
  BY DEF Coroutines
<1>. QED  BY <1>1 DEF Deliver

-----------------------------------------------------------------------------
(* connect, from each of the points where it may be entered. *)

LEMMA BeginAttemptType ==
  ASSUME TasksTypeOK, NEW t \in Tasks, NEW c \in Snapshot, NEW b \in BOOLEAN,
         NEW i \in Nat, BeginAttempt(t, c, b, i)
  PROVE  conn' \in Snapshot /\ TasksTypeOK'
<1> DEFINE new == [IdleTask EXCEPT !.pc = "attempt:refresh", !.intent = i, !.retry = b]
<1>1. new \in Coroutines
  BY DEF IdleTask, Coroutines, NoGeneration, AttemptSteps
<1>2. task' \in [Tasks -> Coroutines]
  BY <1>1, BecomeType DEF BeginAttempt, TasksTypeOK
<1>3. conn' \in Snapshot
  BY AttemptType DEF BeginAttempt
<1>. QED  BY <1>2, <1>3 DEF BeginAttempt, TasksTypeOK

LEMMA RefuseConnectType ==
  ASSUME TasksTypeOK, NEW t \in Tasks, NEW c \in Snapshot, NEW i, RefuseConnect(t, c, i)
  PROVE  conn' \in Snapshot /\ TasksTypeOK'
<1>1. conn' \in Snapshot
  BY AttemptType DEF RefuseConnect
<1>2. TasksTypeOK'
  BY FinishType DEF RefuseConnect
<1>. QED  BY <1>1, <1>2

LEMMA ConnectAfterStopType ==
  ASSUME TasksTypeOK, NEW t \in Tasks, NEW c \in Snapshot, NEW b \in BOOLEAN,
         NEW i \in Nat, ConnectAfterStop(t, c, b, i)
  PROVE  conn' \in Snapshot /\ TasksTypeOK'
<1>1. CASE RefuseConnect(t, c, i)
  BY <1>1, RefuseConnectType
<1>2. CASE conn' = c /\ Finish(t)
  BY <1>2, FinishType
<1> DEFINE new == [IdleTask EXCEPT !.pc = "connect:attempt", !.intent = i, !.retry = b,
                                   !.on = connectFlight, !.result = "pending"]
<1>3. CASE conn' = c /\ Become(t, new) /\ KeepFlights
  <2>1. new \in Coroutines
    BY DEF TasksTypeOK, IdleTask, Coroutines, NoGeneration, AwaitsTask
  <2>2. task' \in [Tasks -> Coroutines]
    BY <1>3, <2>1, BecomeType DEF TasksTypeOK
  <2>. QED  BY <1>3, <2>2 DEF TasksTypeOK, KeepFlights
<1>4. CASE BeginAttempt(t, c, b, i)
  BY <1>4, BeginAttemptType
<1>. QED  BY <1>1, <1>2, <1>3, <1>4 DEF ConnectAfterStop

LEMMA ConnectForType ==
  ASSUME TasksTypeOK, NEW t \in Tasks, NEW c \in Snapshot, NEW b \in BOOLEAN,
         NEW i \in Nat, ConnectFor(t, c, b, i)
  PROVE  conn' \in Snapshot /\ TasksTypeOK'
<1>1. CASE RefuseConnect(t, c, i)
  BY <1>1, RefuseConnectType
<1>2. CASE conn' = c /\ AwaitStop(t, "connect:stop-again", i, b) /\ KeepFlights
  <2>1. task' \in [Tasks -> Coroutines]
    BY <1>2, AwaitStopType DEF TasksTypeOK, AwaitsStop
  <2>. QED  BY <1>2, <2>1 DEF TasksTypeOK, KeepFlights
<1>3. CASE ConnectAfterStop(t, c, b, i)
  BY <1>3, ConnectAfterStopType
<1>. QED  BY <1>1, <1>2, <1>3 DEF ConnectFor

LEMMA ConnectNewType ==
  ASSUME TypeOK, NEW t \in Tasks, ConnectNew(t)
  PROVE  conn' \in Snapshot /\ TasksTypeOK' /\ rec' \in Outages
<1>1. TasksTypeOK /\ conn \in Snapshot /\ rec \in Outages
  BY DEF TypeOK, TasksTypeOK
<1>2. CASE RefuseConnect(t, conn, conn.intent) /\ UNCHANGED rec
  BY <1>1, <1>2, RefuseConnectType
<1>3. CASE Finish(t) /\ UNCHANGED <<conn, rec>>
  BY <1>1, <1>3, FinishType
<1>4. CASE rec' = NothingPending /\ ConnectFor(t, BeginConnectIntent(conn), FALSE, conn.intent + 1)
  <2>1. BeginConnectIntent(conn) \in Snapshot /\ conn.intent + 1 \in Nat
    BY <1>1, IntentType DEF Snapshot
  <2>2. NothingPending \in Outages
    BY <1>1 DEF NothingPending, Outages
  <2>. QED  BY <1>1, <1>4, <2>1, <2>2, ConnectForType
<1>. QED  BY <1>2, <1>3, <1>4 DEF ConnectNew

-----------------------------------------------------------------------------
(* Launching, and what the coroutine steps do to the engine. *)

EngineTypeOK ==
  /\ conn \in Snapshot
  /\ supGen \in Nat
  /\ child \in Children \cup {NoChild}
  /\ timer \in [gen : Nat, intent : Nat]

LEMMA InvalidateSupervisorType ==
  ASSUME EngineTypeOK, Invalidate
  PROVE  supGen' \in Nat /\ timer' \in [gen : Nat, intent : Nat]
BY DEF EngineTypeOK, Invalidate, NoTimer, NoGeneration

LEMMA NewChildType ==
  ASSUME EngineTypeOK, NEW i \in Nat
  PROVE  /\ NewChild(i) \in Children
         /\ \A f \in {"terminal", "none"} :
              [NewChild(i) EXCEPT !.runtime = FALSE, !.stop = "pending", !.fatal = f] \in Children
<1>1. supGen + 1 \in Nat
  BY DEF EngineTypeOK
<1>2. NewChild(i) \in Children
  BY <1>1 DEF NewChild, Children
<1>3. \A f \in {"terminal", "none"} :
        [NewChild(i) EXCEPT !.runtime = FALSE, !.stop = "pending", !.fatal = f] \in Children
  BY <1>2 DEF Children, FailureKinds
<1>. QED  BY <1>2, <1>3

LEMMA LaunchType ==
  ASSUME EngineTypeOK, TasksTypeOK, NEW t \in Tasks, Launch(t)
  PROVE  EngineTypeOK' /\ TasksTypeOK'
<1>0. task[t].intent \in Nat
  BY DEF TasksTypeOK, Coroutines
<1>1. CASE StartFails(t)
  BY <1>1, AttemptType, FinishType DEF StartFails, EngineTypeOK
<1>2. CASE StartRefused(t)
  BY <1>2, InvalidateType, FinishType DEF StartRefused, EngineTypeOK
<1>3. CASE SpawnThrows(t)
  <2>1. conn' \in Snapshot
    BY <1>3, InvalidateType, AttemptType DEF SpawnThrows, EngineTypeOK
  <2>. QED  BY <1>3, <2>1, InvalidateSupervisorType, FinishType DEF SpawnThrows, EngineTypeOK
<1>4. ASSUME Spawn
      PROVE  conn' \in Snapshot /\ supGen' \in Nat /\ timer' \in [gen : Nat, intent : Nat]
  <2>1. supGen + 1 \in Nat
    BY DEF EngineTypeOK
  <2>2. conn' \in Snapshot
    BY <1>4, <2>1, EngineType DEF Spawn, EngineTypeOK
  <2>. QED  BY <1>4, <2>2, InvalidateSupervisorType DEF Spawn
<1>5. CASE SpawnSucceeds(t)
  BY <1>0, <1>4, <1>5, NewChildType, FinishType DEF SpawnSucceeds, EngineTypeOK
<1>6. CASE SpawnUnusable(t)
  <2>1. [task[t] EXCEPT !.pc = "attempt:child", !.result = "pending"] \in Coroutines
    BY DEF TasksTypeOK, Coroutines, AttemptSteps
  <2>2. TasksTypeOK'
    BY <1>6, <2>1, BecomeType DEF SpawnUnusable, TasksTypeOK, KeepFlights
  <2>3. child' \in Children
    BY <1>0, <1>6, NewChildType DEF SpawnUnusable
  <2>. QED  BY <1>4, <1>6, <2>2, <2>3 DEF SpawnUnusable, EngineTypeOK
<1>. QED  BY <1>1, <1>2, <1>3, <1>5, <1>6 DEF Launch

LEMMA AbandonType ==
  ASSUME EngineTypeOK, TasksTypeOK, NEW t \in Tasks, Abandon(t)
  PROVE  EngineTypeOK' /\ TasksTypeOK'
BY FinishType DEF Abandon, EngineTypeOK

-----------------------------------------------------------------------------
(* Stops, the gate and the outages. *)

LEMMA SuspendedType ==
  ASSUME NEW g \in {"absent", "open", "suspended", "activating"}
  PROVE  Suspended(g) \in {"absent", "open", "suspended", "activating"}
BY DEF Suspended

SharedTypeOK ==
  /\ stopFlight \in {"none", "browser", "engine"}
  /\ rec \in Outages
  /\ gate \in {"absent", "open", "suspended", "activating"}

LEMMA EnsureStoppedType ==
  ASSUME SharedTypeOK, EnsureStopped
  PROVE  /\ stopFlight' \in {"none", "browser", "engine"}
         /\ gate' \in {"absent", "open", "suspended", "activating"}
BY SuspendedType DEF SharedTypeOK, EnsureStopped

LEMMA InitiateStopType ==
  ASSUME EngineTypeOK, SharedTypeOK, NEW b \in BOOLEAN, InitiateStop(b)
  PROVE  /\ conn' \in Snapshot /\ supGen' \in Nat
         /\ timer' \in [gen : Nat, intent : Nat] /\ SharedTypeOK'
<1>1. rec' \in Outages
  BY DEF InitiateStop, NothingPending, SharedTypeOK, Outages
<1>2. conn' \in Snapshot
  BY IntentType DEF InitiateStop, EngineTypeOK
<1>. QED
  BY <1>1, <1>2, InvalidateSupervisorType, EnsureStoppedType DEF InitiateStop, SharedTypeOK

LEMMA RecoveryIntentType ==
  ASSUME conn \in Snapshot
  PROVE  RecoveryIntent \in Nat
BY DEF RecoveryIntent, Snapshot

LEMMA MarkUnavailableType ==
  ASSUME EngineTypeOK, SharedTypeOK, NEW r \in Outages, MarkUnavailable(r)
  PROVE  /\ conn' \in Snapshot /\ supGen' \in Nat
         /\ timer' \in [gen : Nat, intent : Nat] /\ SharedTypeOK'
<1>1. CASE UNCHANGED <<conn, supGen, timer, stopFlight, gate>> /\ rec' \in {r, [r EXCEPT !.timer = FALSE]}
  BY <1>1 DEF EngineTypeOK, SharedTypeOK, Outages
<1>2. CASE /\ rec' = [r EXCEPT !.pending = RecoveryIntent, !.timer = FALSE]
           /\ conn' = PauseForConnectivity(conn)
           /\ Invalidate
           /\ EnsureStopped
  <2>1. rec' \in Outages
    BY <1>2, RecoveryIntentType DEF EngineTypeOK, Outages
  <2>2. conn' \in Snapshot
    BY <1>2, EngineType DEF EngineTypeOK
  <2>. QED
    BY <1>2, <2>1, <2>2, InvalidateSupervisorType, EnsureStoppedType DEF SharedTypeOK
<1>. QED  BY <1>1, <1>2 DEF MarkUnavailable

LEMMA ScheduledType ==
  ASSUME NEW r \in Outages
  PROVE  Scheduled(r) \in Outages
BY DEF Scheduled, Outages

LEMMA AskToStopType ==
  ASSUME NEW c \in Children
  PROVE  AskToStop(c) \in Children
BY DEF AskToStop, Children

-----------------------------------------------------------------------------
(* The steps of the coroutines. *)

LEMMA TypeParts ==
  TypeOK <=> /\ EngineTypeOK /\ TasksTypeOK /\ SharedTypeOK
             /\ app \in {"running", "quitting", "gone"}
BY DEF TypeOK, EngineTypeOK, TasksTypeOK, SharedTypeOK

LEMMA LeaveReconnectType ==
  ASSUME TypeOK, NEW t \in Tasks, LeaveReconnect(t)
  PROVE  TypeOK'
<1>1. conn' \in Snapshot
  BY AttemptType DEF LeaveReconnect, TypeOK
<1>2. TasksTypeOK'
  BY FinishType, TypeParts DEF LeaveReconnect
<1>. QED  BY <1>1, <1>2 DEF LeaveReconnect, TypeOK, TasksTypeOK

LEMMA BeginReconnectType ==
  ASSUME TypeOK, NEW t \in Tasks, BeginReconnect(t)
  PROVE  TypeOK'
<1>1. conn.intent + 1 \in Nat
  BY DEF TypeOK, Snapshot
<1>2. /\ conn' \in Snapshot /\ supGen' \in Nat
      /\ timer' \in [gen : Nat, intent : Nat] /\ SharedTypeOK'
  BY InitiateStopType, TypeParts DEF BeginReconnect
<1>3. task' \in [Tasks -> Coroutines]
  BY <1>1, AwaitStopType DEF BeginReconnect, AwaitsStop, TypeOK
<1>4. reconnectFlight' \in [task : Tasks \cup {NoTask}, intent : Nat]
  BY <1>1 DEF BeginReconnect
<1>. QED  BY <1>2, <1>3, <1>4 DEF BeginReconnect, TypeOK, SharedTypeOK

LEMMA ReconnectForType ==
  ASSUME TypeOK, NEW t \in Tasks, NEW g \in Nat, ReconnectFor(t, g)
  PROVE  TypeOK'
<1> DEFINE new == [IdleTask EXCEPT !.pc = "reconnect:prior", !.gen = g,
                                   !.on = reconnectFlight.task, !.result = "pending"]
<1>1. CASE LeaveReconnect(t)
  BY <1>1, LeaveReconnectType
<1>2. CASE BeginReconnect(t)
  BY <1>2, BeginReconnectType
<1>3. CASE /\ Become(t, new)
           /\ UNCHANGED <<conn, supGen, child, timer, connectFlight, reconnectFlight,
                          stopFlight, rec, gate, app>>
  <2>1. new \in Coroutines
    BY DEF TypeOK, IdleTask, Coroutines, NoGeneration, AwaitsTask
  <2>2. task' \in [Tasks -> Coroutines]
    BY <1>3, <2>1, BecomeType DEF TypeOK
  <2>. QED  BY <1>3, <2>2 DEF TypeOK
<1>. QED  BY <1>1, <1>2, <1>3 DEF ReconnectFor

LEMMA TaskStepType ==
  ASSUME TypeOK, NEW t \in Tasks, TaskStep(t)
  PROVE  TypeOK'
<1>0. /\ EngineTypeOK /\ TasksTypeOK /\ SharedTypeOK /\ conn \in Snapshot
      /\ task[t].intent \in Nat /\ task[t].retry \in BOOLEAN /\ task[t].gen \in Nat
  BY TypeParts DEF TypeOK, Coroutines
<1>1. ASSUME conn' \in Snapshot, TasksTypeOK',
             UNCHANGED <<supGen, child, timer, stopFlight, rec, gate, app>>
      PROVE  TypeOK'
  BY <1>1 DEF TypeOK, TasksTypeOK
<1>2. ASSUME EngineTypeOK', TasksTypeOK', UNCHANGED <<stopFlight, rec, gate, app>>
      PROVE  TypeOK'
  BY <1>2 DEF TypeOK, TasksTypeOK, EngineTypeOK
<1>3. CASE ConnectResumes(t)
  BY <1>0, <1>3, ConnectNewType DEF ConnectResumes, TypeOK, TasksTypeOK
<1>4. CASE ConnectAfterStopResumes(t)
  BY <1>0, <1>1, <1>4, ConnectAfterStopType DEF ConnectAfterStopResumes
<1>5. CASE ConnectAfterAttemptResumes(t)
  <2>1. CASE RefuseConnect(t, conn, task[t].intent)
    BY <1>0, <1>1, <1>5, <2>1, RefuseConnectType DEF ConnectAfterAttemptResumes
  <2>2. CASE Finish(t) /\ UNCHANGED conn
    BY <1>0, <1>1, <1>5, <2>2, FinishType DEF ConnectAfterAttemptResumes
  <2>3. CASE BeginAttempt(t, conn, task[t].retry, task[t].intent)
    BY <1>0, <1>1, <1>5, <2>3, BeginAttemptType DEF ConnectAfterAttemptResumes
  <2>. QED  BY <1>5, <2>1, <2>2, <2>3 DEF ConnectAfterAttemptResumes
<1>6. CASE RefreshCompletes(t)
  <2>1. CASE Abandon(t)
    BY <1>0, <1>2, <1>6, <2>1, AbandonType DEF RefreshCompletes
  <2>2. CASE StartFails(t) \/ Launch(t)
    BY <1>0, <1>2, <1>6, <2>2, LaunchType DEF RefreshCompletes, Launch
  <2>3. CASE /\ Become(t, [task[t] EXCEPT !.pc = "attempt:log"])
             /\ UNCHANGED <<conn, supGen, child, timer, connectFlight, reconnectFlight>>
    <3>1. [task[t] EXCEPT !.pc = "attempt:log"] \in Coroutines
      BY DEF TypeOK, Coroutines, AttemptSteps
    <3>2. task' \in [Tasks -> Coroutines]
      BY <2>3, <3>1, BecomeType DEF TypeOK
    <3>. QED  BY <1>6, <2>3, <3>2 DEF TypeOK, RefreshCompletes
  <2>. QED  BY <1>6, <2>1, <2>2, <2>3 DEF RefreshCompletes
<1>7. CASE LogResetCompletes(t)
  BY <1>0, <1>2, <1>7, AbandonType, LaunchType DEF LogResetCompletes
<1>8. CASE AttemptChildStopped(t)
  BY <1>0, <1>1, <1>8, FinishType DEF AttemptChildStopped
<1>9. CASE DisconnectResumes(t)
  <2>1. conn' \in Snapshot
    BY <1>0, <1>9, AttemptType DEF DisconnectResumes
  <2>2. TasksTypeOK' /\ app' \in {"running", "quitting", "gone"}
    BY <1>0, <1>9, FinishType DEF DisconnectResumes, TypeOK
  <2>. QED  BY <1>9, <2>1, <2>2 DEF DisconnectResumes, TypeOK, TasksTypeOK
<1>10. CASE ReconnectAfterPriorResumes(t)
  BY <1>10, LeaveReconnectType, BeginReconnectType DEF ReconnectAfterPriorResumes
<1>11. CASE ReconnectResumes(t)
  <2> DEFINE i == task[t].intent
             c == StopCompleted(conn, i, task[t].result # "failed")
  <2>1. c \in Snapshot /\ Resume(c) \in Snapshot /\ FailIntent(c, i) \in Snapshot
    BY <1>0, AttemptType
  <2>2. i \in Nat
    BY <1>0
  <2> HIDE DEF i, c
  <2>3. CASE RefuseConnect(t, conn, i)
    BY <1>0, <1>1, <1>11, <2>3, RefuseConnectType DEF ReconnectResumes
  <2>4. CASE conn' \in {c, FailIntent(c, i)} /\ Finish(t)
    BY <1>0, <1>1, <1>11, <2>1, <2>4, FinishType DEF ReconnectResumes
  <2>5. CASE ConnectFor(t, Resume(c), FALSE, i)
    BY <1>0, <1>1, <1>11, <2>1, <2>2, <2>5, ConnectForType DEF ReconnectResumes
  <2>. QED  BY <1>11, <2>3, <2>4, <2>5 DEF ReconnectResumes, i, c
<1>12. CASE RecoverResumes(t)
  <2> DEFINE i == task[t].intent
  <2>1. Resume(conn) \in Snapshot /\ FailIntent(conn, i) \in Snapshot /\ i \in Nat
    BY <1>0, AttemptType
  <2> HIDE DEF i
  <2>2. CASE conn' \in {conn, FailIntent(conn, i)} /\ Finish(t)
    BY <1>0, <1>1, <1>12, <2>1, <2>2, FinishType DEF RecoverResumes
  <2>3. CASE ConnectFor(t, Resume(conn), FALSE, i)
    BY <1>0, <1>1, <1>12, <2>1, <2>3, ConnectForType DEF RecoverResumes
  <2>. QED  BY <1>12, <2>2, <2>3 DEF RecoverResumes, i
<1>. QED
  BY <1>3, <1>4, <1>5, <1>6, <1>7, <1>8, <1>9, <1>10, <1>11, <1>12 DEF TaskStep

-----------------------------------------------------------------------------
(* Commands, outages, timers and the engine. *)

Gates == {"absent", "open", "suspended", "activating"}

LEMMA RevokeServingType ==
  ASSUME TypeOK, RevokeServing
  PROVE  conn' \in Snapshot /\ gate' \in Gates
BY EngineType, SuspendedType DEF RevokeServing, TypeOK, Gates

LEMMA PromoteType ==
  ASSUME TypeOK, child \in Children, NEW c \in Snapshot, Promote(c)
  PROVE  conn' \in Snapshot /\ child' \in Children /\ gate' \in Gates
<1>1. child.gen \in Nat /\ [child EXCEPT !.activating = TRUE] \in Children
  BY DEF Children
<1>. QED  BY <1>1, EngineType DEF Promote, TypeOK, Gates

LEMMA CommandType ==
  ASSUME TypeOK, NEW t \in Tasks,
         \/ UserConnect(t) \/ UserDisconnect(t) \/ UserReconnect(t)
         \/ HealthRecovery(t) \/ Quit(t)
  PROVE  TypeOK'
<1>0. /\ EngineTypeOK /\ TasksTypeOK /\ SharedTypeOK
      /\ conn \in Snapshot /\ conn.intent + 1 \in Nat
  BY TypeParts DEF TypeOK, Snapshot
<1>1. CASE UserConnect(t)
  <2>1. CASE ConnectNew(t)
    BY <1>1, <2>1, ConnectNewType DEF UserConnect, TypeOK, TasksTypeOK
  <2>2. CASE /\ AwaitStop(t, "connect:stop", 0, FALSE)
             /\ UNCHANGED <<conn, rec, connectFlight, reconnectFlight>>
    <3>1. task' \in [Tasks -> Coroutines]
      BY <2>2, AwaitStopType DEF TypeOK, AwaitsStop
    <3>. QED  BY <1>1, <2>2, <3>1 DEF UserConnect, TypeOK
  <2>. QED  BY <1>1, <2>1, <2>2 DEF UserConnect
<1>2. ASSUME InitiateStop(FALSE), NEW pc \in AwaitsStop,
             AwaitStop(t, pc, conn.intent + 1, FALSE),
             UNCHANGED <<child, connectFlight, reconnectFlight>>,
             app' \in {"running", "quitting", "gone"}
      PROVE  TypeOK'
  <2>1. task' \in [Tasks -> Coroutines]
    BY <1>0, <1>2, AwaitStopType DEF TypeOK
  <2>. QED  BY <1>0, <1>2, <2>1, InitiateStopType DEF TypeOK, SharedTypeOK
<1>3. CASE UserDisconnect(t)
  BY <1>2, <1>3 DEF UserDisconnect, AwaitsStop, TypeOK
<1>4. CASE Quit(t)
  BY <1>2, <1>4 DEF Quit, AwaitsStop
<1>5. CASE UserReconnect(t)
  BY <1>5, ReconnectForType DEF UserReconnect, NoGeneration
<1>6. CASE HealthRecovery(t)
  BY <1>6, ReconnectForType DEF HealthRecovery, ChildCurrent, TypeOK, Children
<1>. QED  BY <1>1, <1>3, <1>4, <1>5, <1>6

LEMMA TimerType ==
  ASSUME TypeOK, NEW t \in Tasks, RetryTimerFires(t) \/ RecoveryTimerFires(t)
  PROVE  TypeOK'
<1>0. EngineTypeOK /\ TasksTypeOK /\ SharedTypeOK
  BY TypeParts
<1>1. CASE RetryTimerFires(t)
  <2>1. conn' \in Snapshot /\ TasksTypeOK'
    BY <1>0, <1>1, ConnectForType DEF RetryTimerFires, TypeOK
  <2>2. timer' \in [gen : Nat, intent : Nat]
    BY <1>1 DEF RetryTimerFires, NoTimer, NoGeneration
  <2>. QED  BY <1>1, <2>1, <2>2 DEF RetryTimerFires, TypeOK, TasksTypeOK
<1>2. CASE RecoveryTimerFires(t)
  <2>0. NothingPending \in Outages /\ rec.pending \in Nat /\ FailIntent(conn, rec.pending) \in Snapshot
    BY AttemptType DEF TypeOK, NothingPending, Outages
  <2>1. CASE conn' \in {conn, FailIntent(conn, rec.pending)} /\ UNCHANGED <<task, stopFlight, gate>>
    BY <1>2, <2>0, <2>1 DEF RecoveryTimerFires, TypeOK
  <2>2. CASE EnsureStopped /\ AwaitStop(t, "recover:stop", rec.pending, FALSE) /\ UNCHANGED conn
    <3>1. task' \in [Tasks -> Coroutines]
      BY <2>0, <2>2, AwaitStopType DEF TypeOK, AwaitsStop
    <3>. QED  BY <1>0, <1>2, <2>0, <2>2, <3>1, EnsureStoppedType DEF RecoveryTimerFires, TypeOK
  <2>. QED  BY <1>2, <2>1, <2>2 DEF RecoveryTimerFires
<1>. QED  BY <1>1, <1>2

LEMMA OutageType ==
  ASSUME TypeOK, GoesUnavailable \/ ComesBack
  PROVE  TypeOK'
<1>0. /\ EngineTypeOK /\ TasksTypeOK /\ SharedTypeOK /\ rec \in Outages
      /\ [rec EXCEPT !.suspended = TRUE] \in Outages
      /\ [rec EXCEPT !.offline = TRUE] \in Outages
      /\ [rec EXCEPT !.suspended = FALSE] \in Outages
      /\ [rec EXCEPT !.offline = FALSE] \in Outages
  BY TypeParts DEF TypeOK, Outages
<1>1. CASE GoesUnavailable
  BY <1>0, <1>1, MarkUnavailableType DEF GoesUnavailable, TypeOK, SharedTypeOK
<1>2. CASE ComesBack
  BY <1>0, <1>2, ScheduledType DEF ComesBack, TypeOK
<1>. QED  BY <1>1, <1>2

LEMMA StopType ==
  ASSUME TypeOK, BrowserSuspended \/ StopTimesOut
  PROVE  TypeOK'
<1>1. CASE BrowserSuspended
  <2>1. task' \in [Tasks -> Coroutines] /\ stopFlight' \in {"none", "browser", "engine"}
    BY <1>1, DeliverType DEF BrowserSuspended, SettleStop, StopResults, TypeOK
  <2>2. child' \in Children \cup {NoChild}
    BY <1>1, AskToStopType DEF BrowserSuspended, TypeOK
  <2>. QED  BY <1>1, <2>1, <2>2 DEF BrowserSuspended, TypeOK
<1>2. CASE StopTimesOut
  <2>1. task' \in [Tasks -> Coroutines] /\ stopFlight' \in {"none", "browser", "engine"}
    BY <1>2, DeliverType DEF StopTimesOut, StopResults, TypeOK
  <2>2. child' \in Children
    BY <1>2 DEF StopTimesOut, TypeOK, Children
  <2>. QED  BY <1>2, <2>1, <2>2 DEF StopTimesOut, TypeOK
<1>. QED  BY <1>1, <1>2

\* The steps of the engine, its runtime and the Browser leave the coordinator alone.
LEMMA KeptType ==
  ASSUME TypeOK, conn' \in Snapshot, child' \in Children \cup {NoChild}, gate' \in Gates,
         KeepCoordinator
  PROVE  TypeOK'
BY DEF TypeOK, KeepCoordinator, Gates

EngineEvent ==
  \/ Hello \/ HelloTimesOut \/ EnginePhase \/ EngineReady \/ ActivationSettles
  \/ OpenBrowser \/ EngineStopping \/ ListenerMismatch \/ FatalError \/ Stopped
  \/ ChildExits \/ ChildErrors

LEMMA EngineEventType ==
  ASSUME TypeOK, EngineEvent
  PROVE  TypeOK'
<1>0. conn \in Snapshot /\ child \in Children \cup {NoChild} /\ gate \in Gates
  BY DEF TypeOK, Gates
<1>1. child # NoChild =>
        /\ child \in Children /\ child.gen \in Nat
        /\ [child EXCEPT !.hello = TRUE] \in Children
        /\ [child EXCEPT !.stopped = TRUE] \in Children
        /\ [child EXCEPT !.exit = "exited"] \in Children
        /\ [child EXCEPT !.activating = FALSE] \in Children
        /\ \A k \in FailureKinds : [child EXCEPT !.fatal = k] \in Children
        /\ \A k \in FailureKinds : [child EXCEPT !.exit = "error", !.fatal = k] \in Children
        /\ [child EXCEPT !.exit = "error"] \in Children
  BY <1>0 DEF Children
<1>2. "terminal" \in FailureKinds
  BY DEF FailureKinds
<1>3. CASE Hello \/ Stopped
  BY <1>0, <1>1, <1>3, KeptType DEF Hello, Stopped, Listening, ChildCurrent
<1>4. CASE HelloTimesOut \/ ListenerMismatch
  BY <1>1, <1>2, <1>4, RevokeServingType, AskToStopType, KeptType
     DEF HelloTimesOut, ListenerMismatch, Serving, Listening, ChildCurrent
<1>5. CASE EnginePhase
  BY <1>0, <1>1, <1>5, EngineType, KeptType DEF EnginePhase, Serving, Listening, ChildCurrent
<1>6. CASE EngineReady
  <2>1. child \in Children /\ RecordCandidate(conn, child.gen) \in Snapshot
                          /\ RecordListenerReady(conn, child.gen) \in Snapshot
    BY <1>0, <1>1, <1>6, EngineType DEF EngineReady, Serving, Listening, ChildCurrent
  <2>. QED  BY <1>6, <2>1, PromoteType, KeptType DEF EngineReady
<1>7. CASE ActivationSettles
  <2>1. conn' \in Snapshot
    BY <1>0, <1>1, <1>7, EngineType DEF ActivationSettles
  <2>2. child' \in Children \cup {NoChild} /\ gate' \in Gates
    BY <1>0, <1>1, <1>7 DEF ActivationSettles, Gates
  <2>. QED  BY <1>7, <2>1, <2>2, KeptType DEF ActivationSettles
<1>8. CASE OpenBrowser
  BY <1>0, <1>8, KeptType DEF OpenBrowser, Gates
<1>9. CASE EngineStopping
  BY <1>0, <1>9, RevokeServingType, KeptType DEF EngineStopping
<1>10. CASE FatalError
  BY <1>1, <1>10, RevokeServingType, KeptType DEF FatalError, Listening, ChildCurrent
<1>11. CASE ChildExits
  BY <1>1, <1>11, RevokeServingType, KeptType DEF ChildExits
<1>12. CASE ChildErrors
  <2>1. child' \in Children
    BY <1>1, <1>2, <1>12 DEF ChildErrors
  <2>. QED  BY <1>0, <1>12, <2>1, KeptType DEF ChildErrors
<1>. QED
  BY <1>3, <1>4, <1>5, <1>6, <1>7, <1>8, <1>9, <1>10, <1>11, <1>12 DEF EngineEvent

LEMMA ChildClosesType ==
  ASSUME TypeOK, ChildCloses
  PROVE  TypeOK'
<1>1. \A k \in CloseKinds : k \in FailureKinds
  BY DEF ChildCloses, TypeOK, Children, CloseKinds, FailureKinds
<1>2. conn' \in Snapshot
  BY <1>1, ClosedType DEF ChildCloses, CloseHandled, TypeOK
<1>3. timer' \in [gen : Nat, intent : Nat] /\ gate' \in Gates
  <2>1. ScheduledRetry(child.gen, conn.intent) \in [gen : Nat, intent : Nat]
    BY DEF ChildCloses, TypeOK, Children, Snapshot, ScheduledRetry
  <2>. QED  BY <2>1, SuspendedType DEF ChildCloses, CloseHandled, TypeOK, Gates
<1>4. task' \in [Tasks -> Coroutines] /\ stopFlight' \in {"none", "browser", "engine"}
  BY DeliverType DEF ChildCloses, TypeOK, StopResults
<1>. QED  BY <1>2, <1>3, <1>4 DEF ChildCloses, TypeOK, Gates

LEMMA TypeStep ==
  ASSUME TypeOK, [Next]_vars
  PROVE  TypeOK'
<1>1. CASE UNCHANGED vars
  BY <1>1 DEF TypeOK, vars
<1>2. CASE Disturbance
  <2>1. CASE EngineEvent
    BY <2>1, EngineEventType
  <2>. QED
    BY <1>2, <2>1, CommandType, OutageType DEF Disturbance, EngineEvent
<1>3. CASE Reaction
  <2>1. CASE EngineEvent
    BY <2>1, EngineEventType
  <2>. QED
    BY <1>3, <2>1, TaskStepType, TimerType, OutageType, StopType, ChildClosesType
       DEF Reaction, EngineEvent
<1>. QED  BY <1>1, <1>2, <1>3 DEF Next

LEMMA TypeInit ==
  ASSUME Init
  PROVE  TypeOK
<1>1. conn \in Snapshot
  BY MaxAttemptsAssumption DEF Init, InitialSnapshot, Snapshot, Phases, NoGeneration
<1>2. task \in [Tasks -> Coroutines]
  BY IdleTaskType DEF Init
<1>. QED  BY <1>1, <1>2 DEF Init, TypeOK, NoTimer, NoReconnect, NoGeneration, Outages

\* Type correctness: the snapshot, the supervisor, the engine, the flights and
\* every coroutine keep their shape; the retry number never leaves the burst
\* (connection-state-machine.js and the components around it).
THEOREM TypeCorrect == Spec => []TypeOK
<1>1. Init => TypeOK
  BY TypeInit
<1>2. TypeOK /\ [Next]_vars => TypeOK'
  BY TypeStep
<1>. QED  BY <1>1, <1>2, PTL DEF Spec

-----------------------------------------------------------------------------
(* Safety.  ConnectedIsServed is not inductive: the phases before connected   *)
(* must be bound to the engine as well, and an application that quits must    *)
(* want no connection.  Every step of Next is one of a few kinds (Quiet,      *)
(* Begins, Retires, Launches, Progresses, Marks), and each kind preserves the *)
(* invariant.                                                                 *)

BoundPhases == {"authenticating"} \cup ReadinessPhases

\* The snapshot counts on the engine of the generation it names.
Bound(c) == c.gen # NoGeneration /\ c.phase \in BoundPhases

\* child is the engine the snapshot names, and has not exited
Named(c) ==
  c.desired /\ ChildCurrent /\ c.gen = child.gen /\ child.exit # "exited"

EngineBound == Bound(conn) => Named(conn)

QuitWantsNothing == conn.desired => app = "running"

QuitUnderway == \A t \in Tasks : task[t].pc = "quit:stop" => app # "running"

IInv == EngineBound /\ QuitWantsNothing /\ QuitUnderway

-----------------------------------------------------------------------------
(* d is c, or c with its connection given up, restarted or closed. *)

Settles(c, d) ==
  /\ Bound(d) => d = c
  /\ d.phase = "connected" => c.phase = "connected"
  /\ d.desired => c.desired

LEMMA SettlesTransitive ==
  ASSUME NEW c, NEW d, NEW e, Settles(c, d), Settles(d, e)
  PROVE  Settles(c, e)
BY DEF Settles

LEMMA SettlingMethods ==
  ASSUME NEW c \in Snapshot, NEW i, NEW b \in BOOLEAN
  PROVE  /\ Settles(c, c)
         /\ Settles(c, FailIntent(c, i))
         /\ Settles(c, StopCompleted(c, i, b))
         /\ Settles(c, Resume(c))
         /\ Settles(c, BeginConnectAttempt(c, b))
         /\ Settles(c, InvalidateEngineGeneration(c))
<1> USE DEF Settles, Bound, BoundPhases, ReadinessPhases, Snapshot
<1>1. Settles(c, c)
  OBVIOUS
<1>2. Settles(c, FailIntent(c, i))
  BY DEF FailIntent
<1>3. Settles(c, StopCompleted(c, i, b))
  BY DEF StopCompleted
<1>4. Settles(c, Resume(c))
  BY DEF Resume
<1>5. Settles(c, BeginConnectAttempt(c, b))
  BY DEF BeginConnectAttempt
<1>6. Settles(c, InvalidateEngineGeneration(c))
  BY DEF InvalidateEngineGeneration
<1>. QED  BY <1>1, <1>2, <1>3, <1>4, <1>5, <1>6

\* A snapshot that is bound to no engine and is not connected
Loose(c) == ~Bound(c) /\ c.phase # "connected"

LEMMA LooseningMethods ==
  ASSUME NEW c \in Snapshot, NEW b \in BOOLEAN
  PROVE  /\ Loose(BeginStop(c, b)) /\ BeginStop(c, b).desired = b
         /\ Loose(PauseForConnectivity(c)) /\ PauseForConnectivity(c).desired = c.desired
         /\ Loose(MarkEngineStopping(c, b)) /\ MarkEngineStopping(c, b).desired = c.desired
<1> USE DEF Loose, Bound, BoundPhases, ReadinessPhases, Snapshot
<1>1. Loose(BeginStop(c, b)) /\ BeginStop(c, b).desired = b
  BY DEF BeginStop, InvalidateEngineGeneration
<1>2. Loose(PauseForConnectivity(c)) /\ PauseForConnectivity(c).desired = c.desired
  BY DEF PauseForConnectivity, InvalidateEngineGeneration
<1>3. Loose(MarkEngineStopping(c, b)) /\ MarkEngineStopping(c, b).desired = c.desired
  BY DEF MarkEngineStopping
<1>. QED  BY <1>1, <1>2, <1>3

LEMMA ClosedLoosens ==
  ASSUME NEW c \in Snapshot, NEW b \in BOOLEAN, NEW k \in FailureKinds, NEW r \in BOOLEAN
  PROVE  Loose(EngineClosed(c, b, k, r)) /\ (EngineClosed(c, b, k, r).desired => c.desired)
BY DEF Loose, Bound, BoundPhases, ReadinessPhases, Snapshot, EngineClosed, InvalidateEngineGeneration

-----------------------------------------------------------------------------
(* The kinds of steps. *)

\* What is wanted after the step is wanted of an application that runs.
Wishes == conn'.desired => app' = "running"

\* A coroutine goes on without the engine.
Quiet == Settles(conn, conn') /\ UNCHANGED <<supGen, child>>

\* A connect call begins an intent while none is wanted.
Begins ==
  /\ ~conn.desired
  /\ Settles(BeginConnectIntent(conn), conn')
  /\ UNCHANGED <<supGen, child>>

\* The generation is given up; the engine, if any, has yet to go.
Retires ==
  /\ ~Bound(conn')
  /\ conn'.phase = "connected" => conn.phase = "connected"
  /\ child' # NoChild => child # NoChild

Launches ==
  /\ child = NoChild
  /\ CanContinue(conn, child'.intent)
  /\ supGen' = supGen + 1
  /\ conn' = BindEngineGeneration(conn, supGen + 1)
  /\ child' \in Children
  /\ child'.gen = supGen + 1
  /\ child'.exit = "no"

\* The same engine, which may have exited meanwhile
SameEngine ==
  /\ UNCHANGED supGen
  /\ child # NoChild
  /\ child' # NoChild
  /\ child'.gen = child.gen
  /\ child'.intent = child.intent

\* The runtime, the supervisor or the Browser notes something about the engine.
Marks ==
  /\ UNCHANGED conn
  /\ SameEngine
  /\ child'.exit = "exited" => child.exit = "exited" \/ ~(ChildCurrent /\ conn.gen = child.gen)

\* The current engine makes progress.
Progresses ==
  /\ SameEngine
  /\ child'.exit = child.exit
  /\ ChildCurrent
  /\ conn'.gen = conn.gen /\ conn'.intent = conn.intent /\ conn'.desired = conn.desired
  /\ Bound(conn') => Bound(conn) \/ Named(conn)
  /\ conn.phase # "connected" /\ conn'.phase = "connected" =>
       conn.gen # NoGeneration /\ conn'.candidate /\ conn'.listener

StepKind == Quiet \/ Begins \/ Retires \/ Launches \/ Marks \/ Progresses

\* Every kind of step keeps the engine bound.
LEMMA EngineBoundStep ==
  ASSUME TypeOK, EngineBound, StepKind
  PROVE  EngineBound'
<1> USE DEF EngineBound, Named, ChildCurrent
<1>1. CASE Quiet
  BY <1>1 DEF Quiet, Settles, Bound
<1>2. CASE Begins
  <2>1. ~Bound(BeginConnectIntent(conn))
    BY <1>2 DEF Begins, TypeOK, Snapshot, BeginConnectIntent, Bound
  <2>. QED  BY <1>2, <2>1 DEF Begins, Settles, Bound
<1>3. CASE Retires
  BY <1>3 DEF Retires, Bound
<1>4. CASE Launches
  <2>1. conn'.desired /\ conn'.gen = supGen + 1 /\ conn'.intent = conn.intent
    BY <1>4 DEF Launches, BindEngineGeneration, InvalidateEngineGeneration, CanContinue, TypeOK, Snapshot
  <2>2. child' # NoChild
    BY <1>4, ChildAssumption DEF Launches
  <2>. QED  BY <1>4, <2>1, <2>2 DEF Launches, CanContinue
<1>5. CASE Marks
  BY <1>5 DEF Marks, SameEngine, Bound
<1>6. CASE Progresses
  BY <1>6 DEF Progresses, SameEngine, Bound
<1>. QED  BY <1>1, <1>2, <1>3, <1>4, <1>5, <1>6 DEF StepKind

-----------------------------------------------------------------------------
(* Which kind each step is. *)

LEMMA ConnectAfterStopSettles ==
  ASSUME NEW t \in Tasks, NEW c \in Snapshot, conn \in Snapshot, NEW b \in BOOLEAN, NEW i,
         ConnectAfterStop(t, c, b, i)
  PROVE  Settles(c, conn')
BY SettlingMethods DEF ConnectAfterStop, RefuseConnect, BeginAttempt

LEMMA ConnectForSettles ==
  ASSUME NEW t \in Tasks, NEW c \in Snapshot, conn \in Snapshot, NEW b \in BOOLEAN, NEW i,
         ConnectFor(t, c, b, i)
  PROVE  Settles(c, conn')
BY SettlingMethods, ConnectAfterStopSettles DEF ConnectFor, RefuseConnect

\* A quiet step that leaves the application alone wants nothing new.
LEMMA QuietKind ==
  ASSUME TypeOK, IInv, Settles(conn, conn'), UNCHANGED <<supGen, child, app>>
  PROVE  StepKind /\ Wishes
BY DEF StepKind, Quiet, Wishes, Settles, IInv, QuitWantsNothing

\* connect() without an intent: quiet, or it begins an intent.
LEMMA ConnectNewKind ==
  ASSUME TypeOK, IInv, NEW t \in Tasks, ConnectNew(t), UNCHANGED <<supGen, child, app>>
  PROVE  StepKind /\ Wishes
<1>0. conn \in Snapshot /\ BeginConnectIntent(conn) \in Snapshot
  BY IntentType DEF TypeOK
<1>1. CASE QuitRejects
  <2>1. conn' = FailIntent(conn, conn.intent)
    BY <1>1 DEF ConnectNew, RefuseConnect
  <2>. QED  BY <1>0, <2>1, QuietKind, SettlingMethods
<1>2. CASE ~QuitRejects
  <2>1. Quiet \/ Begins
    BY <1>0, <1>2, SettlingMethods, ConnectForSettles DEF ConnectNew, Quiet, Begins
  <2>. QED  BY <1>2, <2>1 DEF StepKind, QuitRejects, Wishes
<1>. QED  BY <1>1, <1>2

LEMMA LaunchKind ==
  ASSUME TypeOK, IInv, NEW t \in Tasks, CanAttempt(conn, task[t].intent), Launch(t), UNCHANGED app
  PROVE  StepKind /\ Wishes
<1>0. conn \in Snapshot /\ task[t].intent \in Nat /\ conn.desired
  BY DEF TypeOK, Coroutines, CanAttempt, CanContinue
<1>1. conn'.desired => conn.desired
  BY <1>0 DEF Launch, StartFails, StartRefused, SpawnThrows, SpawnSucceeds, SpawnUnusable, Spawn,
              FailIntent, InvalidateEngineGeneration, BindEngineGeneration, Snapshot
<1>2. Wishes
  BY <1>1 DEF Wishes, IInv, QuitWantsNothing
<1>3. CASE StartFails(t) \/ StartRefused(t)
  BY <1>0, <1>3, QuietKind, SettlingMethods DEF StartFails, StartRefused
<1>4. CASE SpawnThrows(t)
  <2> DEFINE c == InvalidateEngineGeneration(conn)
  <2>1. c \in Snapshot /\ c.intent = conn.intent
    BY <1>0, InvalidateType DEF InvalidateEngineGeneration, Snapshot
  <2>2. FailIntent(c, task[t].intent).phase = "idle"
    BY <1>0, <2>1 DEF FailIntent, CanAttempt, CanContinue, Snapshot
  <2>. QED
    BY <1>2, <1>4, <2>2
       DEF SpawnThrows, StepKind, Retires, Loose, Bound, BoundPhases, ReadinessPhases
<1>5. CASE SpawnSucceeds(t) \/ SpawnUnusable(t)
  <2>1. EngineTypeOK
    BY TypeParts
  <2> DEFINE new == NewChild(task[t].intent)
             unusable(f) == [new EXCEPT !.runtime = FALSE, !.stop = "pending", !.fatal = f]
  <2>2. new.gen = supGen + 1 /\ new.intent = task[t].intent /\ new.exit = "no"
    BY DEF NewChild
  <2>3. \A f \in {"terminal", "none"} :
          unusable(f).gen = new.gen /\ unusable(f).intent = new.intent /\ unusable(f).exit = new.exit
    BY DEF NewChild
  <2>4. new \in Children /\ \A f \in {"terminal", "none"} : unusable(f) \in Children
    BY <1>0, <2>1, NewChildType
  <2>5. child' = new \/ \E f \in {"terminal", "none"} : child' = unusable(f)
    BY <1>5 DEF SpawnSucceeds, SpawnUnusable
  <2> HIDE DEF new, unusable
  <2>6. /\ child' \in Children /\ child'.gen = supGen + 1
        /\ child'.intent = task[t].intent /\ child'.exit = "no"
    BY <2>2, <2>3, <2>4, <2>5
  <2>. QED
    BY <1>2, <1>5, <2>6 DEF SpawnSucceeds, SpawnUnusable, Spawn, Invalidate, StepKind, Launches, CanAttempt
<1>. QED  BY <1>3, <1>4, <1>5 DEF Launch

LEMMA InitiateStopKind ==
  ASSUME TypeOK, NEW b \in BOOLEAN, InitiateStop(b), UNCHANGED child, b => app' = "running"
  PROVE  StepKind /\ Wishes
<1>1. Loose(conn') /\ conn'.desired = b
  BY LooseningMethods DEF InitiateStop, TypeOK
<1>. QED  BY <1>1 DEF StepKind, Retires, Loose, Wishes

LEMMA ReconnectKind ==
  ASSUME TypeOK, IInv, NEW t \in Tasks, LeaveReconnect(t) \/ (~QuitRejects /\ BeginReconnect(t))
  PROVE  StepKind /\ Wishes
<1>1. CASE LeaveReconnect(t)
  BY <1>1, QuietKind, SettlingMethods DEF LeaveReconnect, TypeOK
<1>2. CASE ~QuitRejects /\ BeginReconnect(t)
  BY <1>2, InitiateStopKind DEF BeginReconnect, QuitRejects
<1>. QED  BY <1>1, <1>2

LEMMA ReconnectForKind ==
  ASSUME TypeOK, IInv, NEW t \in Tasks, NEW g, ReconnectFor(t, g)
  PROVE  StepKind /\ Wishes
<1>1. CASE LeaveReconnect(t) \/ (~QuitRejects /\ BeginReconnect(t))
  BY <1>1, ReconnectKind
<1>2. CASE UNCHANGED <<conn, supGen, child, app>>
  BY <1>2, QuietKind, SettlingMethods DEF TypeOK
<1>. QED  BY <1>1, <1>2 DEF ReconnectFor

LEMMA TaskStepKind ==
  ASSUME TypeOK, IInv, NEW t \in Tasks, TaskStep(t)
  PROVE  StepKind /\ Wishes
<1>0. /\ conn \in Snapshot /\ Settles(conn, conn)
      /\ task[t].intent \in Nat /\ task[t].retry \in BOOLEAN
  BY SettlingMethods DEF TypeOK, Coroutines
<1>1. CASE ConnectResumes(t)
  BY <1>1, ConnectNewKind DEF ConnectResumes
<1>2. CASE ConnectAfterStopResumes(t)
  BY <1>0, <1>2, ConnectAfterStopSettles, QuietKind DEF ConnectAfterStopResumes
<1>3. CASE ConnectAfterAttemptResumes(t)
  <2>1. Settles(conn, conn')
    BY <1>0, <1>3, SettlingMethods DEF ConnectAfterAttemptResumes, RefuseConnect, BeginAttempt
  <2>. QED  BY <1>3, <2>1, QuietKind DEF ConnectAfterAttemptResumes
<1>4. CASE RefreshCompletes(t) \/ LogResetCompletes(t)
  <2>1. CASE Abandon(t) \/ StartFails(t) \/ UNCHANGED <<conn, supGen, child>>
    <3>1. Settles(conn, conn')
      BY <1>0, <2>1, SettlingMethods DEF Abandon, StartFails
    <3>2. UNCHANGED <<supGen, child, app>>
      BY <1>4, <2>1 DEF RefreshCompletes, LogResetCompletes, Abandon, StartFails
    <3>. QED  BY <3>1, <3>2, QuietKind
  <2>2. CASE CanAttempt(conn, task[t].intent) /\ Launch(t)
    BY <1>4, <2>2, LaunchKind DEF RefreshCompletes, LogResetCompletes
  <2>. QED  BY <1>4, <2>1, <2>2 DEF RefreshCompletes, LogResetCompletes
<1>5. CASE AttemptChildStopped(t)
  BY <1>0, <1>5, QuietKind DEF AttemptChildStopped
<1>6. CASE DisconnectResumes(t)
  <2>1. Settles(conn, conn')
    BY <1>0, <1>6, SettlingMethods DEF DisconnectResumes
  <2>2. Quiet
    BY <1>6, <2>1 DEF DisconnectResumes, Quiet
  <2>3. CASE Resumed(t, "quit:stop")
    BY <2>1, <2>2, <2>3 DEF Resumed, Settles, Wishes, StepKind, IInv, QuitWantsNothing, QuitUnderway
  <2>. QED  BY <1>6, <2>1, <2>3, QuietKind DEF DisconnectResumes
<1>7. CASE ReconnectAfterPriorResumes(t)
  BY <1>7, ReconnectKind DEF ReconnectAfterPriorResumes
<1>8. CASE ReconnectResumes(t)
  <2> DEFINE i == task[t].intent
             c == StopCompleted(conn, i, task[t].result # "failed")
  <2>1. c \in Snapshot /\ Settles(conn, c)
    BY <1>0, AttemptType, SettlingMethods
  <2>2. /\ Settles(c, FailIntent(c, i)) /\ Settles(c, Resume(c)) /\ Resume(c) \in Snapshot
        /\ Settles(conn, FailIntent(conn, i)) /\ Settles(c, c)
    BY <1>0, <2>1, AttemptType, SettlingMethods
  <2> HIDE DEF i, c
  <2>3. CASE RefuseConnect(t, conn, i)
    BY <1>0, <1>8, <2>2, <2>3, QuietKind DEF ReconnectResumes, RefuseConnect
  <2>4. CASE conn' \in {c, FailIntent(c, i)}
    BY <1>8, <2>1, <2>2, <2>4, SettlesTransitive, QuietKind DEF ReconnectResumes
  <2>5. CASE ConnectFor(t, Resume(c), FALSE, i)
    <3>1. Settles(Resume(c), conn')
      BY <1>0, <2>2, <2>5, ConnectForSettles
    <3>2. Settles(conn, conn')
      BY <2>1, <2>2, <3>1, SettlesTransitive
    <3>. QED  BY <1>8, <3>2, QuietKind DEF ReconnectResumes
  <2>. QED  BY <1>8, <2>3, <2>4, <2>5 DEF ReconnectResumes, i, c
<1>9. CASE RecoverResumes(t)
  <2>1. /\ Settles(conn, FailIntent(conn, task[t].intent))
        /\ Settles(conn, Resume(conn)) /\ Resume(conn) \in Snapshot
    BY <1>0, AttemptType, SettlingMethods
  <2>2. CASE ConnectFor(t, Resume(conn), FALSE, task[t].intent)
    <3>1. Settles(Resume(conn), conn')
      BY <1>0, <2>1, <2>2, ConnectForSettles
    <3>2. Settles(conn, conn')
      BY <2>1, <3>1, SettlesTransitive
    <3>. QED  BY <1>9, <3>2, QuietKind DEF RecoverResumes
  <2>3. CASE conn' \in {conn, FailIntent(conn, task[t].intent)}
    BY <1>0, <1>9, <2>1, <2>3, QuietKind DEF RecoverResumes
  <2>. QED  BY <1>9, <2>2, <2>3 DEF RecoverResumes
<1>. QED
  BY <1>1, <1>2, <1>3, <1>4, <1>5, <1>6, <1>7, <1>8, <1>9 DEF TaskStep

LEMMA CommandKind ==
  ASSUME TypeOK, IInv, NEW t \in Tasks,
         \/ UserConnect(t) \/ UserDisconnect(t) \/ UserReconnect(t)
         \/ HealthRecovery(t) \/ Quit(t)
  PROVE  StepKind /\ Wishes
<1>0. Settles(conn, conn)
  BY SettlingMethods DEF TypeOK
<1>1. CASE UserConnect(t)
  BY <1>0, <1>1, ConnectNewKind, QuietKind DEF UserConnect
<1>2. CASE UserDisconnect(t) \/ Quit(t)
  BY <1>2, InitiateStopKind DEF UserDisconnect, Quit
<1>3. CASE UserReconnect(t) \/ HealthRecovery(t)
  BY <1>3, ReconnectForKind DEF UserReconnect, HealthRecovery
<1>. QED  BY <1>1, <1>2, <1>3

LEMMA TimerKind ==
  ASSUME TypeOK, IInv, NEW t \in Tasks, RetryTimerFires(t) \/ RecoveryTimerFires(t)
  PROVE  StepKind /\ Wishes
<1>0. /\ conn \in Snapshot /\ Settles(conn, conn)
      /\ Settles(conn, FailIntent(conn, rec.pending))
  BY SettlingMethods DEF TypeOK
<1>1. CASE RetryTimerFires(t)
  BY <1>0, <1>1, ConnectForSettles, QuietKind DEF RetryTimerFires
<1>2. CASE RecoveryTimerFires(t)
  <2>1. conn' \in {conn, FailIntent(conn, rec.pending)}
    BY <1>2 DEF RecoveryTimerFires
  <2>. QED  BY <1>0, <1>2, <2>1, QuietKind DEF RecoveryTimerFires
<1>. QED  BY <1>1, <1>2

LEMMA OutageKind ==
  ASSUME TypeOK, IInv, GoesUnavailable \/ ComesBack
  PROVE  StepKind /\ Wishes
<1>0. Settles(conn, conn)
  BY SettlingMethods DEF TypeOK
<1>1. CASE UNCHANGED <<conn, supGen, child, app>>
  BY <1>0, <1>1, QuietKind
<1>2. CASE conn' = PauseForConnectivity(conn) /\ UNCHANGED <<child, app>>
  BY <1>2, LooseningMethods DEF StepKind, Retires, Loose, Wishes, TypeOK, IInv, QuitWantsNothing
<1>. QED  BY <1>1, <1>2 DEF GoesUnavailable, MarkUnavailable, ComesBack

\* A step that leaves the snapshot alone and notes something about the engine.
LEMMA MarksKind ==
  ASSUME TypeOK, IInv, UNCHANGED <<conn, app>>, SameEngine,
         child'.exit = "exited" => child.exit = "exited" \/ ~(ChildCurrent /\ conn.gen = child.gen)
  PROVE  StepKind /\ Wishes
BY DEF StepKind, Marks, Wishes, IInv, QuitWantsNothing

LEMMA StopKind ==
  ASSUME TypeOK, IInv, BrowserSuspended \/ StopTimesOut
  PROVE  StepKind /\ Wishes
<1>0. Settles(conn, conn)
  BY SettlingMethods DEF TypeOK
<1>1. CASE UNCHANGED child
  BY <1>0, <1>1, QuietKind DEF BrowserSuspended, StopTimesOut
<1>2. CASE /\ child # NoChild /\ UNCHANGED <<conn, supGen, app>>
           /\ child' \in {AskToStop(child), [child EXCEPT !.stop = "failed"]}
  <2>1. child \in Children
    BY <1>2 DEF TypeOK
  <2>2. AskToStop(child) \in Children /\ [child EXCEPT !.stop = "failed"] \in Children
    BY <2>1, AskToStopType DEF Children
  <2>3. child' # NoChild
    BY <1>2, <2>2, ChildAssumption
  <2>4. child'.gen = child.gen /\ child'.intent = child.intent /\ child'.exit = child.exit
    BY <1>2, <2>1 DEF AskToStop, Children
  <2>. QED  BY <1>2, <2>3, <2>4, MarksKind DEF SameEngine
<1>. QED  BY <1>1, <1>2 DEF BrowserSuspended, StopTimesOut

-----------------------------------------------------------------------------
(* The engine. *)

\* An engine whose identity survives the step
LEMMA SameEngineRule ==
  ASSUME TypeOK, child # NoChild, UNCHANGED supGen,
         \/ UNCHANGED child
         \/ \E b \in BOOLEAN : child' \in {[child EXCEPT !.hello = b], [child EXCEPT !.stopped = b],
                                         [child EXCEPT !.activating = b]}
         \/ \E k \in FailureKinds, e \in {"no", "exited", "error"} :
              child' \in {[child EXCEPT !.fatal = k], [child EXCEPT !.exit = e],
                         [child EXCEPT !.exit = e, !.fatal = k],
                         AskToStop([child EXCEPT !.fatal = k])}
  PROVE  SameEngine
<1>0. child \in Children
  BY DEF TypeOK
<1>1. CASE UNCHANGED child
  BY <1>1 DEF SameEngine
<1>2. ASSUME NEW b \in BOOLEAN, child' \in {[child EXCEPT !.hello = b], [child EXCEPT !.stopped = b],
                                            [child EXCEPT !.activating = b]}
      PROVE  SameEngine
  <2>1. child' \in Children /\ child'.gen = child.gen /\ child'.intent = child.intent
    BY <1>0, <1>2 DEF Children
  <2>. QED  BY <2>1, ChildAssumption DEF SameEngine
<1>3. ASSUME NEW k \in FailureKinds, NEW e \in {"no", "exited", "error"},
             child' \in {[child EXCEPT !.fatal = k], [child EXCEPT !.exit = e],
                        [child EXCEPT !.exit = e, !.fatal = k]}
      PROVE  SameEngine
  <2>1. child' \in Children /\ child'.gen = child.gen /\ child'.intent = child.intent
    BY <1>0, <1>3 DEF Children
  <2>. QED  BY <2>1, ChildAssumption DEF SameEngine
<1>4. ASSUME NEW k \in FailureKinds, child' = AskToStop([child EXCEPT !.fatal = k])
      PROVE  SameEngine
  <2> DEFINE c == [child EXCEPT !.fatal = k]
  <2>1. c \in Children /\ c.gen = child.gen /\ c.intent = child.intent
    BY <1>0 DEF Children
  <2> HIDE DEF c
  <2>2. AskToStop(c) \in Children /\ AskToStop(c).gen = c.gen /\ AskToStop(c).intent = c.intent
    BY <2>1, AskToStopType DEF AskToStop, Children
  <2>3. child' = AskToStop(c)
    BY <1>4 DEF c
  <2>. QED  BY <2>1, <2>2, <2>3, ChildAssumption DEF SameEngine
<1>. QED  BY <1>1, <1>2, <1>3, <1>4

\* An engine event that revokes serving: the snapshot lets the engine go, or
\* it did not count on it.
LEMMA RevokeKind ==
  ASSUME TypeOK, IInv, RevokeServing, child # NoChild, UNCHANGED app, SameEngine
  PROVE  StepKind /\ Wishes
<1>1. CASE ChildCurrent /\ conn.gen = child.gen
  <2>1. PICK b \in BOOLEAN : conn' = MarkEngineStopping(conn, b)
    BY <1>1 DEF RevokeServing
  <2>2. Loose(conn') /\ conn'.desired = conn.desired
    BY <2>1, LooseningMethods DEF TypeOK
  <2>. QED  BY <2>2 DEF StepKind, Retires, Loose, Wishes, IInv, QuitWantsNothing
<1>2. CASE ~(ChildCurrent /\ conn.gen = child.gen)
  BY <1>2, MarksKind DEF RevokeServing
<1>. QED  BY <1>1, <1>2

\* Progress: the snapshot's own methods, for the current engine
LEMMA ProgressMethods ==
  ASSUME NEW c \in Snapshot, NEW g \in Nat, NEW p \in {"authenticating", "preparing-tunnel"},
         NEW d \in {c, MarkEnginePhase(c, g, p), RecordCandidate(c, g), RecordListenerReady(c, g),
                    MarkConnected(c, g)}
  PROVE  /\ d.gen = c.gen /\ d.intent = c.intent /\ d.desired = c.desired
         /\ Bound(d) => Bound(c) \/ AcceptsEvents(c, g)
         /\ d.phase = "connected" =>
              c.phase = "connected" \/ (c.gen # NoGeneration /\ d.candidate /\ d.listener)
<1> USE DEF Snapshot, Bound, BoundPhases, ReadinessPhases, AcceptsEvents
<1>1. CASE d = c
  BY <1>1
<1>2. CASE d = MarkEnginePhase(c, g, p)
  BY <1>2 DEF MarkEnginePhase
<1>3. CASE d = RecordCandidate(c, g)
  BY <1>3 DEF RecordCandidate
<1>4. CASE d = RecordListenerReady(c, g)
  BY <1>4 DEF RecordListenerReady
<1>5. CASE d = MarkConnected(c, g)
  BY <1>5 DEF MarkConnected, ReadyToConnect
<1>. QED  BY <1>1, <1>2, <1>3, <1>4, <1>5

LEMMA PromoteKind ==
  ASSUME TypeOK, IInv, Serving, NEW c \in Snapshot, Promote(c), UNCHANGED <<supGen, app>>,
         c \in {RecordCandidate(conn, child.gen), RecordListenerReady(conn, child.gen)}
  PROVE  StepKind /\ Wishes
<1>0. /\ ChildCurrent /\ child \in Children /\ child.gen \in Nat /\ child.exit # "exited"
      /\ child # NoChild /\ conn \in Snapshot
  BY DEF Serving, Listening, ChildCurrent, TypeOK, Children
<1>1. conn' \in {c, MarkConnected(c, child.gen)}
  BY DEF Promote
<1>2. SameEngine /\ child'.exit = child.exit
  <2>1. UNCHANGED child \/ child' = [child EXCEPT !.activating = TRUE]
    BY DEF Promote
  <2>2. SameEngine
    BY <1>0, <2>1, SameEngineRule
  <2>. QED  BY <1>0, <2>1, <2>2 DEF Children
<1>3. /\ c.gen = conn.gen /\ c.intent = conn.intent /\ c.desired = conn.desired
      /\ Bound(c) => Bound(conn) \/ AcceptsEvents(conn, child.gen)
      /\ c.phase = "connected" =>
           conn.phase = "connected" \/ (conn.gen # NoGeneration /\ c.candidate /\ c.listener)
  BY <1>0, ProgressMethods
<1>4. /\ conn'.gen = c.gen /\ conn'.intent = c.intent /\ conn'.desired = c.desired
      /\ Bound(conn') => Bound(c) \/ AcceptsEvents(c, child.gen)
      /\ conn'.phase = "connected" =>
           c.phase = "connected" \/ (c.gen # NoGeneration /\ conn'.candidate /\ conn'.listener)
  BY <1>0, <1>1, ProgressMethods
<1>5. c.phase = conn.phase
  BY <1>0 DEF RecordCandidate, RecordListenerReady, Snapshot
<1>. QED
  BY <1>0, <1>2, <1>3, <1>4, <1>5
     DEF StepKind, Progresses, Named, AcceptsEvents, Wishes, IInv, QuitWantsNothing

LEMMA EngineEventKind ==
  ASSUME TypeOK, IInv, EngineEvent
  PROVE  StepKind /\ Wishes
<1>0. /\ conn \in Snapshot /\ child \in Children \cup {NoChild} /\ Settles(conn, conn)
      /\ (child # NoChild => child \in Children /\ child.gen \in Nat)
      /\ UNCHANGED <<supGen, app>> /\ "terminal" \in FailureKinds
  BY SettlingMethods DEF TypeOK, Children, FailureKinds, EngineEvent, KeepCoordinator, Hello,
     HelloTimesOut, EnginePhase, EngineReady, ActivationSettles, OpenBrowser, EngineStopping,
     ListenerMismatch, FatalError, Stopped, ChildExits, ChildErrors
<1>1. CASE Hello \/ Stopped
  <2>1. child # NoChild /\ UNCHANGED conn /\ SameEngine
    BY <1>0, <1>1, SameEngineRule DEF Hello, Stopped, Listening, ChildCurrent
  <2>2. child'.exit = child.exit
    BY <1>0, <1>1, <2>1 DEF Hello, Stopped, Children
  <2>. QED  BY <1>0, <2>1, <2>2, MarksKind
<1>2. CASE HelloTimesOut \/ ListenerMismatch \/ EngineStopping \/ FatalError \/ ChildExits
  <2>1. child # NoChild /\ RevokeServing
    BY <1>2 DEF HelloTimesOut, ListenerMismatch, EngineStopping, FatalError, ChildExits, Serving,
                Listening, ChildCurrent
  <2>2. SameEngine
    BY <1>0, <1>2, <2>1, SameEngineRule
       DEF HelloTimesOut, ListenerMismatch, EngineStopping, FatalError, ChildExits
  <2>. QED  BY <1>0, <2>1, <2>2, RevokeKind
<1>3. CASE EnginePhase
  <2>1. /\ ChildCurrent /\ child # NoChild /\ child.exit # "exited" /\ UNCHANGED child
        /\ \E p \in {"authenticating", "preparing-tunnel"} : conn' = MarkEnginePhase(conn, child.gen, p)
    BY <1>3 DEF EnginePhase, Serving, Listening, ChildCurrent
  <2>2. SameEngine
    BY <1>0, <2>1, SameEngineRule
  <2>3. /\ conn'.gen = conn.gen /\ conn'.intent = conn.intent /\ conn'.desired = conn.desired
        /\ Bound(conn') => Bound(conn) \/ AcceptsEvents(conn, child.gen)
        /\ conn'.phase = "connected" =>
             conn.phase = "connected" \/ (conn.gen # NoGeneration /\ conn'.candidate /\ conn'.listener)
    BY <1>0, <2>1, ProgressMethods
  <2>. QED
    BY <1>0, <2>1, <2>2, <2>3
       DEF StepKind, Progresses, Named, AcceptsEvents, Wishes, IInv, QuitWantsNothing
<1>4. CASE EngineReady
  <2>1. RecordCandidate(conn, child.gen) \in Snapshot /\ RecordListenerReady(conn, child.gen) \in Snapshot
    BY <1>0, <1>4, EngineType DEF EngineReady, Serving, Listening, ChildCurrent
  <2>. QED  BY <1>0, <1>4, <2>1, PromoteKind DEF EngineReady
<1>5. CASE ActivationSettles
  <2>1. CASE child = NoChild \/ ~child.activating
    BY <1>0, <1>5, <2>1, QuietKind DEF ActivationSettles
  <2>2. CASE child # NoChild /\ child.activating
    <3>1. child' = [child EXCEPT !.activating = FALSE]
      BY <1>5, <2>2 DEF ActivationSettles
    <3>2. SameEngine /\ child'.exit = child.exit
      BY <1>0, <2>2, <3>1, SameEngineRule DEF Children
    <3>3. CASE ~ChildCurrent
      BY <1>0, <1>5, <2>2, <3>2, <3>3, MarksKind DEF ActivationSettles
    <3>4. CASE ChildCurrent
      <4>1. conn' = MarkConnected(conn, child.gen)
        BY <1>5, <2>2, <3>4 DEF ActivationSettles
      <4>2. /\ conn'.gen = conn.gen /\ conn'.intent = conn.intent /\ conn'.desired = conn.desired
            /\ conn'.phase = "connected" =>
                 conn.phase = "connected" \/ (conn.gen # NoGeneration /\ conn'.candidate /\ conn'.listener)
        BY <1>0, <2>2, <4>1, ProgressMethods
      <4>3. Bound(conn') => Bound(conn)
        BY <1>0, <4>1 DEF MarkConnected, ReadyToConnect, Bound, BoundPhases, Snapshot
      <4>. QED
        BY <1>0, <3>2, <3>4, <4>2, <4>3
           DEF StepKind, Progresses, Wishes, IInv, QuitWantsNothing
    <3>. QED  BY <3>3, <3>4
  <2>. QED  BY <2>1, <2>2
<1>6. CASE OpenBrowser
  BY <1>0, <1>6, QuietKind DEF OpenBrowser
<1>7. CASE ChildErrors
  <2>1. child # NoChild /\ UNCHANGED conn
    BY <1>7 DEF ChildErrors
  <2>2. child' \in {[child EXCEPT !.exit = "error", !.fatal = "terminal"],
                    [child EXCEPT !.exit = "error", !.fatal = child.fatal]}
    BY <1>7 DEF ChildErrors
  <2>3. child' \in Children /\ child'.gen = child.gen /\ child'.intent = child.intent
                            /\ child'.exit = "error"
    BY <1>0, <2>1, <2>2 DEF Children
  <2>4. SameEngine
    BY <1>0, <2>1, <2>3, ChildAssumption DEF SameEngine
  <2>. QED  BY <1>0, <2>1, <2>3, <2>4, MarksKind
<1>. QED  BY <1>1, <1>2, <1>3, <1>4, <1>5, <1>6, <1>7 DEF EngineEvent

LEMMA ChildClosesKind ==
  ASSUME TypeOK, IInv, ChildCloses
  PROVE  StepKind /\ Wishes
<1>0. conn \in Snapshot /\ child # NoChild /\ child' = NoChild /\ UNCHANGED <<supGen, app>>
  BY DEF ChildCloses, TypeOK
<1>1. CASE ChildCurrent /\ conn.gen = child.gen
  <2>1. \A k \in CloseKinds : k \in FailureKinds
    BY <1>0 DEF TypeOK, Children, CloseKinds, FailureKinds
  <2>2. Loose(conn') /\ (conn'.desired => conn.desired)
    BY <1>0, <1>1, <2>1, ClosedLoosens DEF ChildCloses, CloseHandled
  <2>. QED  BY <1>0, <2>2 DEF StepKind, Retires, Loose, Wishes, IInv, QuitWantsNothing
<1>2. CASE ~(ChildCurrent /\ conn.gen = child.gen)
  <2>1. UNCHANGED conn
    BY <1>2 DEF ChildCloses, CloseHandled
  <2>2. ~Bound(conn)
    BY <1>2 DEF IInv, EngineBound, Named
  <2>. QED  BY <1>0, <2>1, <2>2 DEF StepKind, Retires, Bound, Wishes, IInv, QuitWantsNothing
<1>. QED  BY <1>1, <1>2

-----------------------------------------------------------------------------
(* The coroutine that quits. *)

NoNewQuit == \A u \in Tasks : task'[u].pc = "quit:stop" => task[u].pc = "quit:stop"

LEMMA TableNoNewQuit ==
  ASSUME TypeOK, NEW t \in Tasks, NEW i, NEW b, NEW r, NEW f,
         \/ UNCHANGED task
         \/ Finish(t)
         \/ task' = Deliver(r, f)
         \/ \E pc \in AwaitsStop \ {"quit:stop"} : AwaitStop(t, pc, i, b)
         \/ \E new \in Coroutines : new.pc # "quit:stop" /\ Become(t, new)
  PROVE  NoNewQuit
<1>0. task \in [Tasks -> Coroutines]
  BY DEF TypeOK
<1>1. CASE UNCHANGED task
  BY <1>1 DEF NoNewQuit
<1>2. CASE Finish(t)
  <2>1. ASSUME NEW u \in Tasks
        PROVE  task'[u].pc \in {"idle", task[u].pc}
    BY <1>0, <1>2 DEF Finish, IdleTask, Coroutines
  <2>. QED  BY <2>1 DEF NoNewQuit
<1>3. CASE task' = Deliver(r, f)
  <2>1. ASSUME NEW u \in Tasks
        PROVE  task'[u].pc = task[u].pc
    BY <1>0, <1>3 DEF Deliver, Coroutines
  <2>. QED  BY <2>1 DEF NoNewQuit
<1>4. ASSUME NEW pc \in AwaitsStop \ {"quit:stop"}, AwaitStop(t, pc, i, b)
      PROVE  NoNewQuit
  BY <1>0, <1>4 DEF AwaitStop, Become, IdleTask, NoNewQuit
<1>5. ASSUME NEW new \in Coroutines, new.pc # "quit:stop", Become(t, new)
      PROVE  NoNewQuit
  BY <1>0, <1>5 DEF Become, NoNewQuit
<1>. QED  BY <1>1, <1>2, <1>3, <1>4, <1>5

LEMMA ConnectNoNewQuit ==
  ASSUME TypeOK, NEW t \in Tasks, NEW c, NEW b \in BOOLEAN, NEW i \in Nat,
         \/ BeginAttempt(t, c, b, i) \/ RefuseConnect(t, c, i)
         \/ ConnectAfterStop(t, c, b, i) \/ ConnectFor(t, c, b, i)
  PROVE  NoNewQuit
<1> DEFINE first == [IdleTask EXCEPT !.pc = "attempt:refresh", !.intent = i, !.retry = b]
           queued == [IdleTask EXCEPT !.pc = "connect:attempt", !.intent = i, !.retry = b,
                                      !.on = connectFlight, !.result = "pending"]
<1>1. first \in Coroutines /\ first.pc # "quit:stop"
  BY DEF IdleTask, Coroutines, NoGeneration, AttemptSteps
<1>2. queued \in Coroutines /\ queued.pc # "quit:stop"
  BY DEF TypeOK, IdleTask, Coroutines, NoGeneration, AwaitsTask
<1>3. \/ Finish(t) \/ AwaitStop(t, "connect:stop-again", i, b)
      \/ Become(t, first) \/ Become(t, queued)
  BY DEF ConnectFor, ConnectAfterStop, RefuseConnect, BeginAttempt
<1> HIDE DEF first, queued
<1>4. "connect:stop-again" \in AwaitsStop \ {"quit:stop"}
  BY DEF AwaitsStop
<1>. QED  BY <1>1, <1>2, <1>3, <1>4, TableNoNewQuit

LEMMA TaskStepNoNewQuit ==
  ASSUME TypeOK, NEW t \in Tasks, TaskStep(t)
  PROVE  NoNewQuit
<1>0. /\ task[t] \in Coroutines /\ task[t].intent \in Nat /\ task[t].retry \in BOOLEAN
      /\ conn.intent + 1 \in Nat
  BY DEF TypeOK, Coroutines, Snapshot
<1>1. CASE ConnectNew(t)
  BY <1>0, <1>1, ConnectNoNewQuit, TableNoNewQuit DEF ConnectNew, RefuseConnect
<1>2. CASE Finish(t)
  BY <1>2, TableNoNewQuit
<1>3. ASSUME NEW c, NEW b \in BOOLEAN, NEW i \in Nat,
             BeginAttempt(t, c, b, i) \/ ConnectAfterStop(t, c, b, i) \/ ConnectFor(t, c, b, i)
      PROVE  NoNewQuit
  BY <1>3, ConnectNoNewQuit
<1>4. ASSUME NEW pc \in {"attempt:log", "attempt:child"}, NEW r \in {"none", "pending", task[t].result},
             Become(t, [task[t] EXCEPT !.pc = pc, !.result = r])
      PROVE  NoNewQuit
  <2>1. [task[t] EXCEPT !.pc = pc, !.result = r] \in Coroutines
    BY <1>0 DEF Coroutines, AttemptSteps
  <2>2. [task[t] EXCEPT !.pc = pc, !.result = r].pc = pc
    BY <1>0 DEF Coroutines
  <2>. QED  BY <1>4, <2>1, <2>2, TableNoNewQuit
<1>5. CASE Launch(t)
  BY <1>2, <1>4, <1>5 DEF Launch, StartFails, StartRefused, SpawnThrows, SpawnSucceeds, SpawnUnusable
<1>6. CASE BeginReconnect(t)
  <2>1. "reconnect:stop" \in AwaitsStop \ {"quit:stop"}
    BY DEF AwaitsStop
  <2>. QED  BY <1>6, <2>1, TableNoNewQuit DEF BeginReconnect
<1>7. CASE ConnectResumes(t)
  BY <1>1, <1>7 DEF ConnectResumes
<1>8. CASE ConnectAfterStopResumes(t) \/ ConnectAfterAttemptResumes(t)
  BY <1>0, <1>2, <1>3, <1>8 DEF ConnectAfterStopResumes, ConnectAfterAttemptResumes, RefuseConnect
<1>9. CASE RefreshCompletes(t)
  <2>1. CASE Become(t, [task[t] EXCEPT !.pc = "attempt:log"])
    <3>1. [task[t] EXCEPT !.pc = "attempt:log"] = [task[t] EXCEPT !.pc = "attempt:log", !.result = task[t].result]
      BY <1>0 DEF Coroutines
    <3>. QED  BY <1>4, <2>1, <3>1
  <2>. QED  BY <1>2, <1>5, <1>9, <2>1 DEF RefreshCompletes, Abandon, StartFails
<1>10. CASE LogResetCompletes(t) \/ AttemptChildStopped(t) \/ DisconnectResumes(t)
  BY <1>2, <1>5, <1>10 DEF LogResetCompletes, AttemptChildStopped, DisconnectResumes, Abandon
<1>11. CASE ReconnectAfterPriorResumes(t)
  BY <1>2, <1>6, <1>11 DEF ReconnectAfterPriorResumes, LeaveReconnect
<1>12. CASE ReconnectResumes(t) \/ RecoverResumes(t)
  BY <1>0, <1>2, <1>3, <1>12 DEF ReconnectResumes, RecoverResumes, RefuseConnect
<1>. QED
  BY <1>7, <1>8, <1>9, <1>10, <1>11, <1>12 DEF TaskStep

\* Only Quit lets a coroutine wait for the stop that ends the application.
LEMMA QuitUnderwayStep ==
  ASSUME TypeOK, QuitUnderway, [Next]_vars
  PROVE  QuitUnderway'
<1>1. ASSUME NoNewQuit, app' = app \/ app' # "running"
      PROVE  QuitUnderway'
  BY <1>1 DEF QuitUnderway, NoNewQuit
<1>2. CASE UNCHANGED <<task, app>>
  BY <1>1, <1>2 DEF NoNewQuit
<1>3. ASSUME NEW t \in Tasks, TaskStep(t)
      PROVE  QuitUnderway'
  <2>1. app' = app \/ app' = "gone"
    BY <1>3 DEF TaskStep, ConnectResumes, ConnectAfterStopResumes, ConnectAfterAttemptResumes,
       RefreshCompletes, LogResetCompletes, AttemptChildStopped, DisconnectResumes,
       ReconnectAfterPriorResumes, LeaveReconnect, BeginReconnect, ReconnectResumes, RecoverResumes
  <2>. QED  BY <1>1, <1>3, <2>1, TaskStepNoNewQuit
<1>4. ASSUME NEW t \in Tasks, UserConnect(t)
      PROVE  QuitUnderway'
  <2>1. conn.intent + 1 \in Nat /\ "connect:stop" \in AwaitsStop \ {"quit:stop"}
    BY DEF TypeOK, Snapshot, AwaitsStop
  <2>2. NoNewQuit
    BY <1>4, <2>1, ConnectNoNewQuit, TableNoNewQuit DEF UserConnect, ConnectNew, RefuseConnect
  <2>. QED  BY <1>1, <1>4, <2>2 DEF UserConnect
<1>5. ASSUME NEW t \in Tasks, NEW g \in Nat, ReconnectFor(t, g)
      PROVE  QuitUnderway'
  <2> DEFINE new == [IdleTask EXCEPT !.pc = "reconnect:prior", !.gen = g,
                                     !.on = reconnectFlight.task, !.result = "pending"]
  <2>1. new \in Coroutines /\ new.pc # "quit:stop"
    BY <1>5 DEF TypeOK, IdleTask, Coroutines, NoGeneration, AwaitsTask
  <2>2. "reconnect:stop" \in AwaitsStop \ {"quit:stop"}
    BY DEF AwaitsStop
  <2>3. \/ Finish(t) \/ Become(t, new) \/ AwaitStop(t, "reconnect:stop", conn.intent + 1, FALSE)
    BY <1>5 DEF ReconnectFor, LeaveReconnect, BeginReconnect
  <2>4. UNCHANGED app
    BY <1>5 DEF ReconnectFor, LeaveReconnect, BeginReconnect
  <2> HIDE DEF new
  <2>. QED  BY <1>1, <2>1, <2>2, <2>3, <2>4, TableNoNewQuit
<1>6. ASSUME NEW t \in Tasks, UserDisconnect(t)
      PROVE  QuitUnderway'
  <2>1. "disconnect:stop" \in AwaitsStop \ {"quit:stop"}
    BY DEF AwaitsStop
  <2>. QED  BY <1>1, <1>6, <2>1, TableNoNewQuit DEF UserDisconnect
<1>7. ASSUME NEW t \in Tasks, Quit(t)
      PROVE  QuitUnderway'
  BY <1>7 DEF Quit, QuitUnderway
<1>8. ASSUME NEW t \in Tasks, RetryTimerFires(t) \/ RecoveryTimerFires(t)
      PROVE  QuitUnderway'
  <2>1. timer.intent \in Nat /\ "recover:stop" \in AwaitsStop \ {"quit:stop"}
    BY DEF TypeOK, AwaitsStop
  <2>2. NoNewQuit
    BY <1>8, <2>1, ConnectNoNewQuit, TableNoNewQuit DEF RetryTimerFires, RecoveryTimerFires
  <2>. QED  BY <1>1, <1>8, <2>2 DEF RetryTimerFires, RecoveryTimerFires
<1>9. CASE BrowserSuspended \/ StopTimesOut \/ ChildCloses
  <2>1. \A t \in Tasks : UNCHANGED task \/ (\E r, f : task' = Deliver(r, f))
    BY <1>9 DEF BrowserSuspended, SettleStop, StopTimesOut, ChildCloses
  <2>2. NoNewQuit
    BY <2>1, TableNoNewQuit DEF NoNewQuit
  <2>. QED  BY <1>1, <1>9, <2>2 DEF BrowserSuspended, StopTimesOut, ChildCloses
<1>10. CASE EngineEvent
  BY <1>2, <1>10 DEF EngineEvent, KeepCoordinator, Hello, HelloTimesOut, EnginePhase, EngineReady,
     ActivationSettles, OpenBrowser, EngineStopping, ListenerMismatch, FatalError, Stopped,
     ChildExits, ChildErrors
<1>11. CASE GoesUnavailable \/ ComesBack
  BY <1>2, <1>11 DEF GoesUnavailable, ComesBack
<1>12. ASSUME NEW t \in Tasks, UserReconnect(t) \/ HealthRecovery(t)
       PROVE  QuitUnderway'
  <2>1. HealthRecovery(t) => child.gen \in Nat
    BY DEF HealthRecovery, ChildCurrent, TypeOK, Children
  <2>. QED  BY <1>5, <1>12, <2>1 DEF UserReconnect, HealthRecovery, NoGeneration
<1>. QED
  BY <1>2, <1>3, <1>4, <1>6, <1>7, <1>8, <1>9, <1>10, <1>11, <1>12
     DEF Next, Disturbance, Reaction, EngineEvent, vars

-----------------------------------------------------------------------------
(* The invariant. *)

LEMMA StepKinds ==
  ASSUME TypeOK, IInv, [Next]_vars
  PROVE  StepKind /\ Wishes
<1>1. CASE UNCHANGED vars
  BY <1>1, QuietKind, SettlingMethods DEF vars, TypeOK
<1>2. CASE Disturbance
  <2>1. CASE EngineEvent
    BY <2>1, EngineEventKind
  <2>. QED  BY <1>2, <2>1, CommandKind, OutageKind DEF Disturbance, EngineEvent
<1>3. CASE Reaction
  <2>1. CASE EngineEvent
    BY <2>1, EngineEventKind
  <2>. QED
    BY <1>3, <2>1, TaskStepKind, TimerKind, OutageKind, StopKind, ChildClosesKind
       DEF Reaction, EngineEvent
<1>. QED  BY <1>1, <1>2, <1>3 DEF Next

LEMMA IInvStep ==
  ASSUME TypeOK, IInv, [Next]_vars
  PROVE  IInv'
BY StepKinds, EngineBoundStep, QuitUnderwayStep DEF IInv, Wishes, QuitWantsNothing

LEMMA IInvInit ==
  ASSUME Init
  PROVE  IInv
<1>1. EngineBound /\ QuitWantsNothing
  BY DEF Init, InitialSnapshot, EngineBound, Bound, QuitWantsNothing
<1>2. QuitUnderway
  BY DEF Init, IdleTask, QuitUnderway
<1>. QED  BY <1>1, <1>2 DEF IInv

LEMMA IInvCorrect == Spec => [](TypeOK /\ IInv)
<1>1. Init => TypeOK /\ IInv
  BY TypeInit, IInvInit
<1>2. (TypeOK /\ IInv) /\ [Next]_vars => (TypeOK /\ IInv)'
  BY TypeStep, IInvStep
<1>. QED  BY <1>1, <1>2, PTL DEF Spec

\* Connected always stands for the engine the user wants: the current, live
\* engine of the current intent (isCurrentEngineContext and the generation
\* checks of connection-state-machine.js, engine-connection-runtime.js).
THEOREM ConnectedServed == Spec => []ConnectedIsServed
<1>1. TypeOK /\ IInv => ConnectedIsServed
  BY DEF IInv, EngineBound, Bound, BoundPhases, ReadinessPhases, Named, ConnectedIsServed
<1>. QED  BY <1>1, IInvCorrect, PTL

\* No step enters connected without the candidate and the listener of the
\* current, live engine (ConnectionStateMachine.markConnected).
THEOREM BarrierCorrect == Spec => ConnectedNeedsBarrier
<1> DEFINE Barrier == conn.phase # "connected" /\ conn'.phase = "connected" =>
                        /\ conn'.candidate /\ conn'.listener /\ conn'.desired
                        /\ ChildCurrent'
                        /\ conn'.gen = child'.gen
                        /\ child'.exit # "exited"
<1>1. ASSUME TypeOK, IInv, [Next]_vars
      PROVE  Barrier
  <2>1. SUFFICES ASSUME conn.phase # "connected", conn'.phase = "connected"
                 PROVE  /\ conn'.candidate /\ conn'.listener /\ conn'.desired
                        /\ ChildCurrent'
                        /\ conn'.gen = child'.gen
                        /\ child'.exit # "exited"
    OBVIOUS
  <2>2. BeginConnectIntent(conn).phase = conn.phase /\ BindEngineGeneration(conn, supGen + 1).phase = conn.phase
    BY <1>1 DEF TypeOK, Snapshot, BeginConnectIntent, BindEngineGeneration, InvalidateEngineGeneration
  <2>3. Progresses
    BY <1>1, <2>1, <2>2, StepKinds
       DEF StepKind, Quiet, Begins, Settles, Retires, Launches, Marks
  <2>4. Bound(conn') /\ EngineBound'
    BY <1>1, <2>1, <2>3, IInvStep DEF Progresses, Bound, BoundPhases, ReadinessPhases, IInv
  <2>. QED  BY <2>1, <2>3, <2>4 DEF Progresses, EngineBound, Named
<1>2. TypeOK /\ IInv /\ [Next]_vars => [Barrier]_vars
  BY <1>1
<1> HIDE DEF Barrier
<1>3. Spec => [][Barrier]_vars
  BY <1>2, IInvCorrect, PTL DEF Spec
<1>. QED  BY <1>3 DEF Barrier, ConnectedNeedsBarrier

\* Every engine is launched for the last intent, which is to be connected, and
\* never by an application that quits (EngineAttemptCoordinator.run).
THEOREM LaunchCorrect == Spec => LaunchIsWanted
<1> DEFINE Wanted == child = NoChild /\ child' # NoChild =>
                       conn.desired /\ child'.intent = conn.intent /\ app = "running"
<1>1. ASSUME TypeOK, IInv, [Next]_vars
      PROVE  Wanted
  <2>1. SUFFICES ASSUME child = NoChild, child' # NoChild
                 PROVE  conn.desired /\ child'.intent = conn.intent /\ app = "running"
    OBVIOUS
  <2>2. Launches
    BY <1>1, <2>1, StepKinds DEF StepKind, Quiet, Begins, Retires, Marks, Progresses, SameEngine
  <2>. QED  BY <1>1, <2>2 DEF Launches, CanContinue, IInv, QuitWantsNothing
<1>2. TypeOK /\ IInv /\ [Next]_vars => [Wanted]_vars
  BY <1>1
<1> HIDE DEF Wanted
<1>3. Spec => [][Wanted]_vars
  BY <1>2, IInvCorrect, PTL DEF Spec
<1>. QED  BY <1>3 DEF Wanted, LaunchIsWanted

\* An engine whose generation or token is no longer current changes neither
\* the connection nor the gate (isCurrentEngineContext).
THEOREM StaleEngineCorrect == Spec => StaleEngineIsInert
<1> DEFINE Inert == child # NoChild /\ ~ChildCurrent /\ child' # child =>
                      UNCHANGED <<conn, timer>> /\ (gate = "activating" \/ UNCHANGED gate)
<1>1. ASSUME TypeOK, [Next]_vars
      PROVE  Inert
  <2>1. SUFFICES ASSUME child # NoChild, ~ChildCurrent, child' # child
                 PROVE  UNCHANGED <<conn, timer>> /\ (gate = "activating" \/ UNCHANGED gate)
    OBVIOUS
  <2>2. CASE BrowserSuspended \/ StopTimesOut
    BY <2>2 DEF BrowserSuspended, StopTimesOut
  <2>3. CASE ChildCloses
    BY <2>1, <2>3 DEF ChildCloses, CloseHandled
  <2>4. CASE EngineEvent
    BY <2>1, <2>4 DEF EngineEvent, KeepCoordinator, Hello, HelloTimesOut, EnginePhase, EngineReady,
       ActivationSettles, OpenBrowser, EngineStopping, ListenerMismatch, FatalError, Stopped,
       ChildExits, ChildErrors, RevokeServing, Serving, Listening
  <2>5. CASE \E t \in Tasks : TaskStep(t)
    BY <2>1, <2>5 DEF TaskStep, ConnectResumes, ConnectAfterStopResumes, ConnectAfterAttemptResumes,
       RefreshCompletes, LogResetCompletes, AttemptChildStopped, DisconnectResumes,
       ReconnectAfterPriorResumes, LeaveReconnect, BeginReconnect, ReconnectResumes, RecoverResumes,
       Abandon, StartFails, Launch, StartRefused, SpawnThrows, SpawnSucceeds, SpawnUnusable, Spawn
  <2>6. CASE \E t \in Tasks : \/ UserConnect(t) \/ UserDisconnect(t) \/ UserReconnect(t)
                            \/ HealthRecovery(t) \/ Quit(t)
    BY <2>1, <2>6 DEF UserConnect, UserDisconnect, UserReconnect, HealthRecovery, Quit,
       ReconnectFor, LeaveReconnect, BeginReconnect
  <2>. QED
    BY <1>1, <2>1, <2>2, <2>3, <2>4, <2>5, <2>6
       DEF Next, Disturbance, Reaction, EngineEvent, RetryTimerFires, RecoveryTimerFires,
           GoesUnavailable, ComesBack, vars
<1>2. TypeOK /\ [Next]_vars => [Inert]_vars
  BY <1>1
<1> HIDE DEF Inert
<1>3. Spec => [][Inert]_vars
  BY <1>2, TypeCorrect, PTL DEF Spec
<1>. QED  BY <1>3 DEF Inert, StaleEngineIsInert

-----------------------------------------------------------------------------
(* Nobody waits in vain: what a coroutine awaits is still to happen, and a    *)
(* stop in its engine stage has a child to stop.                              *)

ChildStopping == child # NoChild /\ child.stop = "pending"

\* What the coroutine u waits for is still to come.
Awaited(u) ==
  \/ task[u].pc \in AwaitsStop /\ stopFlight # "none"
  \/ /\ task[u].pc \in AwaitsTask
     /\ task[u].on \in Tasks
     /\ task[u].on # u
     /\ ~Free(task[u].on)
  \/ task[u].pc = "attempt:child" /\ ChildStopping

\* The strengthening: a flight names a coroutine that is still at work on it.
AttemptRuns == connectFlight # NoTask => task[connectFlight].pc \in AttemptSteps

ReconnectRuns ==
  reconnectFlight # NoReconnect =>
    reconnectFlight.task \in Tasks /\ ~Free(reconnectFlight.task)

WInv ==
  /\ stopFlight = "engine" => ChildStopping
  /\ \A u \in Tasks : task[u].result = "pending" => Awaited(u)
  /\ AttemptRuns
  /\ ReconnectRuns

-----------------------------------------------------------------------------
(* The kinds of steps *)

\* No stop comes to its end in this step.
StopsKept ==
  /\ stopFlight # "none" => stopFlight' # "none"
  /\ stopFlight' = "engine" => ChildStopping'
  /\ ChildStopping => ChildStopping'

TableKept == UNCHANGED <<task, connectFlight, reconnectFlight>>

\* Coroutine t goes on to new, where it awaits nothing that is over.
GoesOn(t, new) ==
  /\ Become(t, new)
  /\ new.pc # "idle"
  /\ connectFlight' \in {connectFlight, t}
  /\ connectFlight' = t => new.pc \in AttemptSteps
  /\ reconnectFlight' = reconnectFlight \/ reconnectFlight'.task = t
  /\ new.result = "pending" =>
       \/ new.pc \in AwaitsStop /\ stopFlight' # "none"
       \/ new.pc \in AwaitsTask /\ new.on \in Tasks /\ new.on # t /\ ~Free(new.on)
       \/ new.pc = "attempt:child" /\ ChildStopping'

MovesOn(t) == Finish(t) \/ \E new \in Coroutines : GoesOn(t, new)

\* A stop ends: whoever waits for the child is told, and whoever waits for the
\* flight if that is over.
Delivers(r, flightToo) ==
  /\ task' = Deliver(r, flightToo)
  /\ UNCHANGED <<connectFlight, reconnectFlight>>
  /\ flightToo \/ (stopFlight # "none" => stopFlight' # "none")
  /\ stopFlight' = "engine" => ChildStopping'

LEMMA KeptTable ==
  ASSUME TypeOK, WInv, StopsKept, TableKept
  PROVE  WInv'
<1>1. \A u \in Tasks : Awaited(u) => Awaited(u)'
  BY DEF Awaited, StopsKept, TableKept, Free
<1>. QED  BY <1>1 DEF WInv, StopsKept, TableKept, AttemptRuns, ReconnectRuns, Free

LEMMA FinishedTable ==
  ASSUME TypeOK, WInv, StopsKept, NEW t \in Tasks, Finish(t)
  PROVE  WInv'
<1>0. /\ task \in [Tasks -> Coroutines]
      /\ connectFlight \in Tasks \cup {NoTask}
      /\ reconnectFlight.task \in Tasks \cup {NoTask}
      /\ t # NoTask
  BY TasksAssumption DEF TypeOK
<1>1. \A u \in Tasks :
        /\ u = t => task'[u] = IdleTask
        /\ u # t /\ task[u].on = t => task'[u] = [task[u] EXCEPT !.result = "done"]
        /\ u # t /\ task[u].on # t => task'[u] = task[u]
  BY DEF Finish
<1>2. \A u \in Tasks : u # t => task'[u].pc = task[u].pc /\ task'[u].on = task[u].on
  BY <1>0, <1>1 DEF Coroutines
<1>3. ASSUME NEW u \in Tasks, task'[u].result = "pending"
      PROVE  Awaited(u)'
  <2>0. IdleTask.result = "none"
    BY DEF IdleTask
  <2>3. u # t
    BY <1>1, <1>3, <2>0
  <2>4. [task[u] EXCEPT !.result = "done"].result = "done"
    BY <1>0 DEF Coroutines
  <2>1. u # t /\ task[u].on # t /\ task'[u] = task[u]
    BY <1>1, <1>3, <2>3, <2>4
  <2>2. Awaited(u)
    BY <1>3, <2>1 DEF WInv
  <2>. QED  BY <1>2, <2>1, <2>2 DEF Awaited, StopsKept, Free
<1>4. AttemptRuns'
  BY <1>0, <1>2 DEF Finish, WInv, AttemptRuns
<1>5. ReconnectRuns'
  BY <1>0, <1>2 DEF Finish, WInv, ReconnectRuns, Free, NoReconnect
<1>. QED  BY <1>3, <1>4, <1>5 DEF WInv, StopsKept

LEMMA WaitingTable ==
  ASSUME TypeOK, WInv, StopsKept, NEW t \in Tasks, NEW new \in Coroutines, GoesOn(t, new)
  PROVE  WInv'
<1>0. /\ task \in [Tasks -> Coroutines]
      /\ connectFlight \in Tasks \cup {NoTask}
      /\ reconnectFlight.task \in Tasks \cup {NoTask}
      /\ t # NoTask
  BY TasksAssumption DEF TypeOK
<1>1. task'[t] = new /\ \A u \in Tasks : u # t => task'[u] = task[u]
  BY <1>0 DEF GoesOn, Become
<1>2. ASSUME NEW u \in Tasks, task'[u].result = "pending"
      PROVE  Awaited(u)'
  <2>1. CASE u = t
    BY <1>1, <1>2, <2>1 DEF GoesOn, Awaited, Free
  <2>2. CASE u # t
    <3>1. Awaited(u)
      BY <1>1, <1>2, <2>2 DEF WInv
    <3>. QED  BY <1>1, <2>2, <3>1 DEF Awaited, StopsKept, Free, GoesOn
  <2>. QED  BY <2>1, <2>2
<1>3. AttemptRuns'
  BY <1>0, <1>1 DEF GoesOn, WInv, AttemptRuns
<1>4. ReconnectRuns'
  BY <1>0, <1>1 DEF GoesOn, WInv, ReconnectRuns, Free
<1>. QED  BY <1>2, <1>3, <1>4 DEF WInv, StopsKept

LEMMA AdvancedTable ==
  ASSUME TypeOK, WInv, StopsKept, NEW t \in Tasks, MovesOn(t)
  PROVE  WInv'
BY FinishedTable, WaitingTable DEF MovesOn

LEMMA DeliveredTable ==
  ASSUME TypeOK, WInv, NEW r \in StopResults, NEW b \in BOOLEAN, Delivers(r, b)
  PROVE  WInv'
<1>0. /\ task \in [Tasks -> Coroutines]
      /\ connectFlight \in Tasks \cup {NoTask}
      /\ reconnectFlight.task \in Tasks \cup {NoTask}
  BY DEF TypeOK
<1>1. \A u \in Tasks : task'[u].pc = task[u].pc /\ task'[u].on = task[u].on
  BY <1>0 DEF Delivers, Deliver, Coroutines
<1>2. ASSUME NEW u \in Tasks, task'[u].result = "pending"
      PROVE  Awaited(u)'
  <2>1. /\ task[u].result = "pending"
        /\ ~(b /\ task[u].pc \in AwaitsStop)
        /\ task[u].pc # "attempt:child"
    BY <1>0, <1>2 DEF Delivers, Deliver, Coroutines, StopResults
  <2>2. Awaited(u)
    BY <2>1 DEF WInv
  <2>. QED  BY <1>1, <2>1, <2>2 DEF Awaited, Delivers, Free
<1>3. AttemptRuns' /\ ReconnectRuns'
  BY <1>0, <1>1 DEF Delivers, WInv, AttemptRuns, ReconnectRuns, Free
<1>. QED  BY <1>2, <1>3 DEF WInv, Delivers

-----------------------------------------------------------------------------
(* The steps of the coroutines *)

\* What a coroutine's step may do with stops when none is involved
LEMMA StopsUntouched ==
  ASSUME WInv, UNCHANGED <<stopFlight, child>>
  PROVE  StopsKept
BY DEF WInv, StopsKept, ChildStopping

LEMMA FlightElsewhere ==
  ASSUME TypeOK, WInv, NEW t \in Tasks, task[t].pc \notin AttemptSteps
  PROVE  connectFlight # t
BY TasksAssumption DEF WInv, AttemptRuns

LEMMA AttemptBegins ==
  ASSUME TypeOK, NEW t \in Tasks, NEW c, NEW b \in BOOLEAN, NEW i \in Nat,
         BeginAttempt(t, c, b, i)
  PROVE  MovesOn(t)
<1> DEFINE new == [IdleTask EXCEPT !.pc = "attempt:refresh", !.intent = i, !.retry = b]
<1>1. new \in Coroutines /\ new.pc = "attempt:refresh" /\ new.result = "none"
  BY DEF IdleTask, Coroutines, NoGeneration, AttemptSteps
<1>2. Become(t, new) /\ connectFlight' = t /\ reconnectFlight' = reconnectFlight
  BY DEF BeginAttempt
<1> HIDE DEF new
<1>3. GoesOn(t, new)
  BY <1>1, <1>2 DEF GoesOn, AttemptSteps
<1>. QED  BY <1>1, <1>3 DEF MovesOn

LEMMA StopAwaited ==
  ASSUME TypeOK, WInv, NEW t \in Tasks, task[t].pc \notin AttemptSteps,
         NEW pc \in AwaitsStop, NEW b \in BOOLEAN, NEW i \in Nat,
         AwaitStop(t, pc, i, b), stopFlight' # "none",
         connectFlight' = connectFlight,
         reconnectFlight' = reconnectFlight \/ reconnectFlight'.task = t
  PROVE  MovesOn(t)
<1> DEFINE new == [IdleTask EXCEPT !.pc = pc, !.intent = i, !.retry = b, !.result = "pending"]
<1>1. new \in Coroutines /\ new.pc = pc /\ pc # "idle"
  BY DEF IdleTask, Coroutines, NoGeneration, AwaitsStop
<1>2. Become(t, new)
  BY DEF AwaitStop
<1>3. connectFlight # t
  BY FlightElsewhere
<1> HIDE DEF new
<1>4. GoesOn(t, new)
  BY <1>1, <1>2, <1>3 DEF GoesOn
<1>. QED  BY <1>1, <1>4 DEF MovesOn

LEMMA ConnectAfterStopMovesOn ==
  ASSUME TypeOK, WInv, NEW t \in Tasks, task[t].pc \notin AttemptSteps,
         NEW c, NEW b \in BOOLEAN, NEW i \in Nat, ConnectAfterStop(t, c, b, i)
  PROVE  MovesOn(t)
<1>1. CASE Finish(t)
  BY <1>1 DEF MovesOn
<1> DEFINE new == [IdleTask EXCEPT !.pc = "connect:attempt", !.intent = i, !.retry = b,
                                   !.on = connectFlight, !.result = "pending"]
<1>2. CASE connectFlight # NoTask /\ Become(t, new) /\ KeepFlights
  <2>1. new \in Coroutines /\ new.pc = "connect:attempt" /\ new.on = connectFlight
    BY DEF TypeOK, IdleTask, Coroutines, NoGeneration, AwaitsTask
  <2>2. connectFlight # t /\ connectFlight \in Tasks
    BY <1>2, FlightElsewhere DEF TypeOK
  <2>3. ~Free(connectFlight)
    BY <1>2 DEF WInv, AttemptRuns, Free, AttemptSteps
  <2> HIDE DEF new
  <2>4. GoesOn(t, new)
    BY <1>2, <2>1, <2>2, <2>3 DEF GoesOn, KeepFlights, AwaitsTask
  <2>. QED  BY <2>1, <2>4 DEF MovesOn
<1>3. CASE BeginAttempt(t, c, b, i)
  BY <1>3, AttemptBegins
<1>. QED  BY <1>1, <1>2, <1>3 DEF ConnectAfterStop, RefuseConnect

LEMMA ConnectForMovesOn ==
  ASSUME TypeOK, WInv, NEW t \in Tasks, task[t].pc \notin AttemptSteps,
         NEW c, NEW b \in BOOLEAN, NEW i \in Nat, ConnectFor(t, c, b, i),
         UNCHANGED stopFlight
  PROVE  MovesOn(t)
<1>1. CASE RefuseConnect(t, c, i)
  BY <1>1 DEF MovesOn, RefuseConnect
<1>2. CASE stopFlight # "none" /\ AwaitStop(t, "connect:stop-again", i, b) /\ KeepFlights
  BY <1>2, StopAwaited DEF KeepFlights, AwaitsStop
<1>3. CASE ConnectAfterStop(t, c, b, i)
  BY <1>3, ConnectAfterStopMovesOn
<1>. QED  BY <1>1, <1>2, <1>3 DEF ConnectFor

LEMMA ConnectNewMovesOn ==
  ASSUME TypeOK, WInv, NEW t \in Tasks, task[t].pc \notin AttemptSteps,
         ConnectNew(t), UNCHANGED stopFlight
  PROVE  MovesOn(t)
<1>1. CASE Finish(t)
  BY <1>1 DEF MovesOn
<1>2. CASE ConnectFor(t, BeginConnectIntent(conn), FALSE, conn.intent + 1)
  <2>1. conn.intent + 1 \in Nat
    BY DEF TypeOK, Snapshot
  <2>. QED  BY <1>2, <2>1, ConnectForMovesOn
<1>. QED  BY <1>1, <1>2 DEF ConnectNew, RefuseConnect

LEMMA EnsuredStop ==
  ASSUME WInv, EnsureStopped, UNCHANGED child
  PROVE  StopsKept /\ stopFlight' # "none"
BY DEF WInv, EnsureStopped, StopsKept, ChildStopping

\* disconnect, quit and reconnect past its admission
LEMMA InitiatedStop ==
  ASSUME TypeOK, WInv, NEW t \in Tasks, task[t].pc \notin AttemptSteps,
         NEW pc \in AwaitsStop, NEW b \in BOOLEAN, InitiateStop(b),
         AwaitStop(t, pc, conn.intent + 1, FALSE), UNCHANGED <<child, connectFlight>>,
         reconnectFlight' = reconnectFlight \/ reconnectFlight'.task = t
  PROVE  StopsKept /\ MovesOn(t)
<1>1. StopsKept /\ stopFlight' # "none"
  BY EnsuredStop DEF InitiateStop
<1>2. conn.intent + 1 \in Nat
  BY DEF TypeOK, Snapshot
<1>. QED  BY <1>1, <1>2, StopAwaited

LEMMA ReconnectMovesOn ==
  ASSUME TypeOK, WInv, NEW t \in Tasks, task[t].pc \notin AttemptSteps, BeginReconnect(t)
  PROVE  StopsKept /\ MovesOn(t)
BY InitiatedStop DEF BeginReconnect, AwaitsStop

LEMMA LeaveMovesOn ==
  ASSUME WInv, NEW t \in Tasks, LeaveReconnect(t)
  PROVE  StopsKept /\ MovesOn(t)
BY StopsUntouched DEF LeaveReconnect, MovesOn

LEMMA ReconnectForMovesOn ==
  ASSUME TypeOK, WInv, NEW t \in Tasks, Free(t), NEW g \in Nat, ReconnectFor(t, g)
  PROVE  StopsKept /\ MovesOn(t)
<1>0. task[t].pc \notin AttemptSteps
  BY DEF Free, AttemptSteps
<1> DEFINE new == [IdleTask EXCEPT !.pc = "reconnect:prior", !.gen = g,
                                   !.on = reconnectFlight.task, !.result = "pending"]
<1>1. CASE LeaveReconnect(t)
  BY <1>1, LeaveMovesOn
<1>2. CASE BeginReconnect(t)
  BY <1>0, <1>2, ReconnectMovesOn
<1>3. CASE /\ reconnectFlight # NoReconnect
           /\ Become(t, new)
           /\ UNCHANGED <<child, connectFlight, reconnectFlight, stopFlight>>
  <2>1. new \in Coroutines /\ new.pc = "reconnect:prior" /\ new.on = reconnectFlight.task
    BY DEF TypeOK, IdleTask, Coroutines, NoGeneration, AwaitsTask
  <2>2. reconnectFlight.task \in Tasks /\ ~Free(reconnectFlight.task)
    BY <1>3 DEF WInv, ReconnectRuns
  <2>3. connectFlight # t
    BY <1>0, FlightElsewhere
  <2> HIDE DEF new
  <2>4. GoesOn(t, new)
    BY <1>3, <2>1, <2>2, <2>3 DEF GoesOn, AwaitsTask
  <2>. QED  BY <1>3, <2>1, <2>4, StopsUntouched DEF MovesOn
<1>. QED  BY <1>1, <1>2, <1>3 DEF ReconnectFor

LEMMA LaunchMovesOn ==
  ASSUME TypeOK, WInv, NEW t \in Tasks, task[t].pc \in AttemptSteps,
         Launch(t), UNCHANGED stopFlight
  PROVE  StopsKept /\ MovesOn(t)
<1>1. CASE Finish(t) /\ UNCHANGED child
  BY <1>1, StopsUntouched DEF MovesOn
<1>2. ASSUME child = NoChild
      PROVE  StopsKept
  BY <1>2 DEF WInv, StopsKept, ChildStopping
<1>3. CASE SpawnSucceeds(t)
  BY <1>2, <1>3 DEF SpawnSucceeds, Spawn, MovesOn
<1> DEFINE new == [task[t] EXCEPT !.pc = "attempt:child", !.result = "pending"]
<1>4. CASE SpawnUnusable(t)
  <2>1. new \in Coroutines /\ new.pc = "attempt:child"
    BY DEF TypeOK, Coroutines, AttemptSteps
  <2>2. ChildStopping'
    <3>1. child' \in Children /\ child'.stop = "pending"
      <4>1. EngineTypeOK /\ task[t].intent \in Nat
        BY TypeParts DEF TypeOK, Coroutines
      <4>2. NewChild(task[t].intent) \in Children
        BY <4>1, NewChildType
      <4>3. PICK f \in {"terminal", "none"} :
              child' = [NewChild(task[t].intent) EXCEPT !.runtime = FALSE,
                          !.stop = "pending", !.fatal = f]
        BY <1>4 DEF SpawnUnusable
      <4>4. child' \in Children
        BY <4>1, <4>3, NewChildType
      <4>5. child'.stop = "pending"
        BY <4>2, <4>3 DEF Children
      <4>. QED  BY <4>4, <4>5
    <3>. QED  BY <3>1, ChildAssumption DEF ChildStopping
  <2>3. Become(t, new) /\ KeepFlights /\ child = NoChild
    BY <1>4 DEF SpawnUnusable, Spawn
  <2> HIDE DEF new
  <2>4. GoesOn(t, new)
    BY <2>1, <2>2, <2>3 DEF GoesOn, KeepFlights, AttemptSteps
  <2>. QED  BY <1>2, <2>1, <2>3, <2>4 DEF MovesOn
<1>. QED
  BY <1>1, <1>3, <1>4 DEF Launch, StartFails, StartRefused, SpawnThrows

LEMMA TaskStepMovesOn ==
  ASSUME TypeOK, WInv, NEW t \in Tasks, TaskStep(t)
  PROVE  StopsKept /\ MovesOn(t)
<1>0. task[t].intent \in Nat /\ task[t].retry \in BOOLEAN
  BY DEF TypeOK, Coroutines
<1>1. UNCHANGED <<stopFlight, child>> => StopsKept
  BY StopsUntouched
<1>2. CASE ConnectResumes(t)
  BY <1>1, <1>2, ConnectNewMovesOn DEF ConnectResumes, Resumed, AttemptSteps
<1>3. CASE ConnectAfterStopResumes(t)
  BY <1>0, <1>1, <1>3, ConnectAfterStopMovesOn
    DEF ConnectAfterStopResumes, Resumed, AttemptSteps
<1>4. CASE ConnectAfterAttemptResumes(t)
  BY <1>0, <1>1, <1>4, AttemptBegins
    DEF ConnectAfterAttemptResumes, RefuseConnect, MovesOn
<1>5. CASE RefreshCompletes(t)
  <2> DEFINE new == [task[t] EXCEPT !.pc = "attempt:log"]
  <2>1. CASE Finish(t) /\ UNCHANGED child
    BY <1>1, <1>5, <2>1 DEF RefreshCompletes, MovesOn
  <2>2. CASE Become(t, new) /\ UNCHANGED <<child, connectFlight, reconnectFlight>>
    <3>1. /\ new \in Coroutines /\ new.pc = "attempt:log"
          /\ new.result = task[t].result
      BY DEF TypeOK, Coroutines, AttemptSteps
    <3>2. task[t].result # "pending"
      BY <1>5 DEF RefreshCompletes, WInv, Awaited, AwaitsStop, AwaitsTask
    <3> HIDE DEF new
    <3>3. GoesOn(t, new)
      BY <2>2, <3>1, <3>2 DEF GoesOn, AttemptSteps
    <3>. QED  BY <1>1, <1>5, <2>2, <3>1, <3>3 DEF RefreshCompletes, MovesOn
  <2>3. CASE Launch(t)
    BY <1>5, <2>3, LaunchMovesOn DEF RefreshCompletes, AttemptSteps
  <2>. QED  BY <1>5, <2>1, <2>2, <2>3 DEF RefreshCompletes, Abandon, StartFails
<1>6. CASE LogResetCompletes(t)
  <2>1. CASE Abandon(t)
    BY <1>1, <1>6, <2>1 DEF LogResetCompletes, Abandon, MovesOn
  <2>2. CASE Launch(t)
    BY <1>6, <2>2, LaunchMovesOn DEF LogResetCompletes, AttemptSteps
  <2>. QED  BY <1>6, <2>1, <2>2 DEF LogResetCompletes
<1>7. CASE AttemptChildStopped(t) \/ DisconnectResumes(t)
  BY <1>1, <1>7 DEF AttemptChildStopped, DisconnectResumes, MovesOn
<1>8. CASE ReconnectAfterPriorResumes(t)
  BY <1>8, LeaveMovesOn, ReconnectMovesOn
    DEF ReconnectAfterPriorResumes, Resumed, AttemptSteps
<1>9. CASE ReconnectResumes(t)
  <2>1. task[t].pc \notin AttemptSteps /\ UNCHANGED <<stopFlight, child>>
    BY <1>9 DEF ReconnectResumes, Resumed, AttemptSteps
  <2>2. CASE Finish(t)
    BY <1>1, <2>1, <2>2 DEF MovesOn
  <2>3. ASSUME NEW c, ConnectFor(t, c, FALSE, task[t].intent)
        PROVE  MovesOn(t)
    BY <1>0, <2>1, <2>3, ConnectForMovesOn
  <2>. QED  BY <1>1, <1>9, <2>1, <2>2, <2>3 DEF ReconnectResumes, RefuseConnect
<1>10. CASE RecoverResumes(t)
  <2>1. task[t].pc \notin AttemptSteps /\ UNCHANGED <<stopFlight, child>>
    BY <1>10 DEF RecoverResumes, Resumed, AttemptSteps
  <2>2. CASE Finish(t)
    BY <1>1, <2>1, <2>2 DEF MovesOn
  <2>3. ASSUME ConnectFor(t, Resume(conn), FALSE, task[t].intent)
        PROVE  MovesOn(t)
    BY <1>0, <2>1, <2>3, ConnectForMovesOn
  <2>. QED  BY <1>1, <1>10, <2>1, <2>2, <2>3 DEF RecoverResumes
<1>. QED
  BY <1>2, <1>3, <1>4, <1>5, <1>6, <1>7, <1>8, <1>9, <1>10 DEF TaskStep

-----------------------------------------------------------------------------
(* Commands, timers, outages, the stop flight and the child *)

LEMMA FreeIsNoAttempt ==
  ASSUME NEW t \in Tasks, Free(t)
  PROVE  task[t].pc \notin AttemptSteps
BY DEF Free, AttemptSteps

LEMMA CommandMovesOn ==
  ASSUME TypeOK, WInv, NEW t \in Tasks,
         UserConnect(t) \/ UserDisconnect(t) \/ UserReconnect(t)
           \/ HealthRecovery(t) \/ Quit(t)
  PROVE  StopsKept /\ MovesOn(t)
<1>1. CASE UserConnect(t)
  <2>1. task[t].pc \notin AttemptSteps /\ UNCHANGED <<stopFlight, child>>
    BY <1>1, FreeIsNoAttempt DEF UserConnect
  <2>2. CASE ConnectNew(t)
    BY <2>1, <2>2, ConnectNewMovesOn, StopsUntouched
  <2>3. CASE /\ stopFlight # "none"
             /\ AwaitStop(t, "connect:stop", 0, FALSE)
             /\ UNCHANGED <<connectFlight, reconnectFlight>>
    BY <2>1, <2>3, StopAwaited, StopsUntouched DEF AwaitsStop
  <2>. QED  BY <1>1, <2>2, <2>3 DEF UserConnect
<1>2. CASE UserDisconnect(t) \/ Quit(t)
  BY <1>2, FreeIsNoAttempt, InitiatedStop DEF UserDisconnect, Quit, AwaitsStop
<1>3. CASE UserReconnect(t)
  BY <1>3, ReconnectForMovesOn DEF UserReconnect, NoGeneration
<1>4. CASE HealthRecovery(t)
  <2>1. child.gen \in Nat
    BY <1>4 DEF HealthRecovery, ChildCurrent, TypeOK, Children
  <2>. QED  BY <1>4, <2>1, ReconnectForMovesOn DEF HealthRecovery
<1>. QED  BY <1>1, <1>2, <1>3, <1>4

LEMMA TimerMovesOn ==
  ASSUME TypeOK, WInv, NEW t \in Tasks, RetryTimerFires(t) \/ RecoveryTimerFires(t)
  PROVE  WInv'
<1>0. task[t].pc \notin AttemptSteps /\ UNCHANGED child
  BY FreeIsNoAttempt DEF RetryTimerFires, RecoveryTimerFires
<1>1. CASE RetryTimerFires(t)
  <2>1. timer.intent \in Nat
    BY DEF TypeOK
  <2>. QED
    BY <1>0, <1>1, <2>1, ConnectForMovesOn, StopsUntouched, AdvancedTable
      DEF RetryTimerFires
<1>2. CASE RecoveryTimerFires(t)
  <2>1. rec.pending \in Nat /\ UNCHANGED <<connectFlight, reconnectFlight>>
    BY <1>2 DEF RecoveryTimerFires, TypeOK, Outages
  <2>2. CASE UNCHANGED <<task, stopFlight>>
    BY <1>0, <2>1, <2>2, StopsUntouched, KeptTable DEF TableKept
  <2>3. CASE EnsureStopped /\ AwaitStop(t, "recover:stop", rec.pending, FALSE)
    BY <1>0, <2>1, <2>3, EnsuredStop, StopAwaited, AdvancedTable DEF AwaitsStop
  <2>. QED  BY <1>2, <2>2, <2>3 DEF RecoveryTimerFires
<1>. QED  BY <1>1, <1>2

LEMMA OutageKeeps ==
  ASSUME TypeOK, WInv, GoesUnavailable \/ ComesBack \/ OpenBrowser
  PROVE  WInv'
<1>1. TableKept /\ UNCHANGED child
  BY DEF GoesUnavailable, ComesBack, OpenBrowser, KeepCoordinator, TableKept
<1>2. UNCHANGED stopFlight \/ EnsureStopped
  BY DEF GoesUnavailable, MarkUnavailable, ComesBack, OpenBrowser, KeepCoordinator
<1>. QED  BY <1>1, <1>2, StopsUntouched, EnsuredStop, KeptTable

LEMMA AskedToStop ==
  ASSUME NEW c \in Children, c.stop # "failed"
  PROVE  AskToStop(c) # NoChild /\ AskToStop(c).stop = "pending"
<1>1. AskToStop(c) \in Children
  BY AskToStopType
<1>2. AskToStop(c).stop = "pending"
  BY DEF AskToStop, Children
<1>. QED  BY <1>1, <1>2, ChildAssumption

LEMMA StopKeeps ==
  ASSUME TypeOK, WInv, BrowserSuspended \/ StopTimesOut \/ ChildCloses
  PROVE  WInv'
<1>1. CASE BrowserSuspended
  <2>1. CASE \E r \in StopResults : SettleStop(r)
    BY <1>1, <2>1, DeliveredTable DEF BrowserSuspended, SettleStop, Delivers
  <2>2. CASE /\ child # NoChild
             /\ child.stop # "failed"
             /\ child' = AskToStop(child)
             /\ stopFlight' = "engine"
             /\ UNCHANGED task
    <3>1. ChildStopping'
      BY <2>2, AskedToStop DEF TypeOK, ChildStopping
    <3>. QED
      BY <1>1, <2>2, <3>1, KeptTable DEF BrowserSuspended, StopsKept, TableKept
  <2>. QED  BY <1>1, <2>1, <2>2 DEF BrowserSuspended, StopResults
<1>2. CASE StopTimesOut
  <2>1. Delivers("failed", stopFlight = "engine")
    BY <1>2 DEF StopTimesOut, Delivers
  <2>. QED  BY <2>1, DeliveredTable DEF StopResults
<1>3. CASE ChildCloses
  <2>1. \E r \in StopResults : Delivers(r, stopFlight = "engine")
    BY <1>3 DEF ChildCloses, Delivers, StopResults
  <2>. QED  BY <2>1, DeliveredTable
<1>. QED  BY <1>1, <1>2, <1>3

\* Whatever the engine reports, a child that is being stopped stays one.
LEMMA EventKeepsStop ==
  ASSUME TypeOK, ChildStopping, EngineEvent
  PROVE  ChildStopping'
<1>0. child \in Children /\ child.stop = "pending"
  BY DEF TypeOK, ChildStopping
<1>1. ASSUME NEW c \in Children, c.stop = "pending", child' \in {c, AskToStop(c)}
      PROVE  ChildStopping'
  BY <1>1, AskedToStop, ChildAssumption DEF ChildStopping
<1>2. CASE child' = child
  BY <1>0, <1>1, <1>2
<1>3. CASE Hello
  BY <1>0, <1>1, <1>3 DEF Hello, Children
<1>4. CASE HelloTimesOut
  BY <1>0, <1>1, <1>4 DEF HelloTimesOut, Children, FailureKinds
<1>5. CASE EngineReady
  BY <1>0, <1>1, <1>5 DEF EngineReady, Promote, Children
<1>6. CASE ActivationSettles
  BY <1>0, <1>1, <1>6 DEF ActivationSettles, Children
<1>7. CASE ListenerMismatch
  BY <1>0, <1>1, <1>7 DEF ListenerMismatch, Children, FailureKinds
<1>8. CASE FatalError
  BY <1>0, <1>1, <1>8 DEF FatalError, Children
<1>9. CASE Stopped
  BY <1>0, <1>1, <1>9 DEF Stopped, Children
<1>10. CASE ChildExits
  BY <1>0, <1>1, <1>10 DEF ChildExits, Children
<1>11. CASE ChildErrors
  BY <1>0, <1>1, <1>11 DEF ChildErrors, Children, FailureKinds
<1>. QED
  BY <1>2, <1>3, <1>4, <1>5, <1>6, <1>7, <1>8, <1>9, <1>10, <1>11
    DEF EngineEvent, EnginePhase, EngineStopping, OpenBrowser, KeepCoordinator

LEMMA EngineEventKeeps ==
  ASSUME TypeOK, WInv, EngineEvent
  PROVE  WInv'
<1>1. TableKept /\ UNCHANGED stopFlight
  BY DEF EngineEvent, Hello, HelloTimesOut, EnginePhase, EngineReady,
         ActivationSettles, OpenBrowser, EngineStopping, ListenerMismatch, FatalError, Stopped,
         ChildExits, ChildErrors, KeepCoordinator, TableKept
<1>2. StopsKept
  BY <1>1, EventKeepsStop DEF WInv, StopsKept
<1>. QED  BY <1>1, <1>2, KeptTable

-----------------------------------------------------------------------------

LEMMA WInvStep ==
  ASSUME TypeOK, WInv, [Next]_vars
  PROVE  WInv'
<1>1. CASE UNCHANGED vars
  BY <1>1, KeptTable, StopsUntouched DEF vars, TableKept
<1>2. CASE Disturbance
  <2>1. ASSUME NEW t \in Tasks,
               UserConnect(t) \/ UserDisconnect(t) \/ UserReconnect(t)
                 \/ HealthRecovery(t) \/ Quit(t)
        PROVE  WInv'
    BY <2>1, CommandMovesOn, AdvancedTable
  <2>. QED
    BY <1>2, <2>1, OutageKeeps, EngineEventKeeps DEF Disturbance, EngineEvent
<1>3. CASE Reaction
  <2>1. ASSUME NEW t \in Tasks, TaskStep(t)
        PROVE  WInv'
    BY <2>1, TaskStepMovesOn, AdvancedTable
  <2>2. ASSUME NEW t \in Tasks, RetryTimerFires(t) \/ RecoveryTimerFires(t)
        PROVE  WInv'
    BY <2>2, TimerMovesOn
  <2>. QED
    BY <1>3, <2>1, <2>2, OutageKeeps, StopKeeps, EngineEventKeeps
      DEF Reaction, EngineEvent
<1>. QED  BY <1>1, <1>2, <1>3 DEF Next

LEMMA WInvInit == Init => WInv
BY DEF Init, WInv, IdleTask, NoReconnect, AttemptRuns, ReconnectRuns

LEMMA WInvCorrect == Spec => []WInv
<1>1. TypeOK /\ WInv /\ [Next]_vars => WInv'
  BY WInvStep
<1>. QED  BY <1>1, WInvInit, TypeCorrect, PTL DEF Spec

\* No coroutine of the connection waits for a stop, an attempt, a prior
\* reconnect or the stop of its child that has already ended, in any number of
\* commands, outages and engines.
THEOREM WakeupsCorrect == Spec => []NoLostWakeup
<1>1. WInv => NoLostWakeup
  BY DEF WInv, NoLostWakeup, Awaited, ChildStopping
<1>. QED  BY <1>1, WInvCorrect, PTL

\* A stop that has reached the engine always has a child whose stop is running,
\* so that its end is the end of that stop or its deadline.
THEOREM StopFlightCorrect == Spec => []StopFlightHasChild
<1>1. WInv => StopFlightHasChild
  BY DEF WInv, StopFlightHasChild, ChildStopping
<1>. QED  BY <1>1, WInvCorrect, PTL

-----------------------------------------------------------------------------
(* That leaving connected closes the request gate, and that the connection    *)
(* core implements EngineService.  For the gate: a coroutine that has been    *)
(* told of a clean stop finds no engine, and one that disconnects finds its   *)
(* own intent unwanted, so neither meets a connected machine.                 *)

\* Who awaits the stop flight is told of a clean or unclean end only when the
\* engine has gone, and runs before another one can be launched.
ToldStopped(u) ==
  task[u].pc \in AwaitsStop /\ task[u].result \in {"clean", "unclean"}

EngineGoneWhenTold == \A u \in Tasks : ToldStopped(u) => child = NoChild

\* The intent of a disconnect or a quit is never wanted.
Disconnects(u) == task[u].pc \in {"disconnect:stop", "quit:stop"}

DisconnectsUnwanted ==
  \A u \in Tasks : Disconnects(u) =>
    /\ task[u].intent <= conn.intent
    /\ task[u].intent = conn.intent => ~conn.desired

-----------------------------------------------------------------------------
(* Intents only grow, and only a new one can be wanted. *)

Later(c, d) ==
  /\ d.intent \in Nat
  /\ c.intent <= d.intent
  /\ d.desired => c.desired \/ c.intent < d.intent

LEMMA LaterTransitive ==
  ASSUME NEW c \in Snapshot, NEW d, NEW e, Later(c, d), Later(d, e)
  PROVE  Later(c, e)
BY DEF Later, Snapshot

LEMMA LaterMethods ==
  ASSUME NEW c \in Snapshot, NEW i, NEW b \in BOOLEAN
  PROVE  /\ Later(c, c)
         /\ Later(c, FailIntent(c, i))
         /\ Later(c, StopCompleted(c, i, b))
         /\ Later(c, Resume(c))
         /\ Later(c, BeginConnectAttempt(c, b))
         /\ Later(c, InvalidateEngineGeneration(c))
         /\ Later(c, BeginConnectIntent(c))
         /\ Later(c, BeginStop(c, b))
         /\ Later(c, PauseForConnectivity(c))
<1> USE DEF Later, Snapshot
<1>1. Later(c, c) /\ Later(c, FailIntent(c, i)) /\ Later(c, StopCompleted(c, i, b))
  BY DEF FailIntent, StopCompleted
<1>2. Later(c, Resume(c)) /\ Later(c, BeginConnectAttempt(c, b))
  BY DEF Resume, BeginConnectAttempt
<1>3. Later(c, InvalidateEngineGeneration(c)) /\ Later(c, BeginConnectIntent(c))
  BY DEF InvalidateEngineGeneration, BeginConnectIntent
<1>4. Later(c, BeginStop(c, b))
  BY DEF BeginStop, InvalidateEngineGeneration
<1>5. Later(c, PauseForConnectivity(c))
  BY DEF PauseForConnectivity, InvalidateEngineGeneration
<1>. QED  BY <1>1, <1>2, <1>3, <1>4, <1>5

LEMMA LaterEngine ==
  ASSUME NEW c \in Snapshot, NEW g \in Nat, NEW b \in BOOLEAN,
         NEW k \in FailureKinds, NEW r \in BOOLEAN,
         NEW p \in {"authenticating", "preparing-tunnel"}
  PROVE  /\ Later(c, BindEngineGeneration(c, g))
         /\ Later(c, MarkEnginePhase(c, g, p))
         /\ Later(c, RecordCandidate(c, g))
         /\ Later(c, RecordListenerReady(c, g))
         /\ Later(c, MarkConnected(c, g))
         /\ Later(c, MarkEngineStopping(c, b))
         /\ Later(c, EngineClosed(c, b, k, r))
<1> USE DEF Later, Snapshot
<1>1. Later(c, BindEngineGeneration(c, g))
  BY DEF BindEngineGeneration, InvalidateEngineGeneration
<1>2. Later(c, MarkEnginePhase(c, g, p)) /\ Later(c, MarkConnected(c, g))
  BY DEF MarkEnginePhase, MarkConnected
<1>3. Later(c, RecordCandidate(c, g)) /\ Later(c, RecordListenerReady(c, g))
  BY DEF RecordCandidate, RecordListenerReady
<1>4. Later(c, MarkEngineStopping(c, b))
  BY DEF MarkEngineStopping
<1>5. Later(c, EngineClosed(c, b, k, r))
  BY DEF EngineClosed, InvalidateEngineGeneration
<1>. QED  BY <1>1, <1>2, <1>3, <1>4, <1>5

LEMMA ConnectLater ==
  ASSUME conn \in Snapshot, NEW c \in Snapshot, Later(conn, c),
         NEW t, NEW b \in BOOLEAN, NEW i \in Nat,
         \/ RefuseConnect(t, c, i) \/ ConnectAfterStop(t, c, b, i)
         \/ ConnectFor(t, c, b, i) \/ BeginAttempt(t, c, b, i)
  PROVE  Later(conn, conn')
<1>1. conn' \in {c, FailIntent(c, i), BeginConnectAttempt(c, b)}
  BY DEF RefuseConnect, ConnectAfterStop, ConnectFor, BeginAttempt
<1>. QED  BY <1>1, LaterMethods, LaterTransitive

LEMMA ConnectNewLater ==
  ASSUME TypeOK, NEW t, ConnectNew(t)
  PROVE  Later(conn, conn')
<1>0. conn \in Snapshot /\ conn.intent \in Nat /\ conn.intent + 1 \in Nat
  BY DEF TypeOK, Snapshot
<1>1. Later(conn, conn) /\ Later(conn, BeginConnectIntent(conn))
  BY <1>0, LaterMethods
<1>2. BeginConnectIntent(conn) \in Snapshot
  BY <1>0, IntentType
<1>. QED  BY <1>0, <1>1, <1>2, ConnectLater DEF ConnectNew

LEMMA LaunchLater ==
  ASSUME TypeOK, NEW t \in Tasks, Launch(t)
  PROVE  Later(conn, conn')
<1>0. conn \in Snapshot /\ supGen + 1 \in Nat
  BY DEF TypeOK
<1>1. CASE StartFails(t) \/ StartRefused(t)
  BY <1>0, <1>1, LaterMethods DEF StartFails, StartRefused
<1>2. CASE SpawnThrows(t)
  <2>1. InvalidateEngineGeneration(conn) \in Snapshot
    BY <1>0, InvalidateType
  <2>2. /\ Later(conn, InvalidateEngineGeneration(conn))
        /\ Later(InvalidateEngineGeneration(conn), conn')
    BY <1>0, <1>2, <2>1, LaterMethods DEF SpawnThrows
  <2>. QED  BY <1>0, <2>2, LaterTransitive
<1>3. CASE Spawn
  BY <1>0, <1>3, LaterEngine DEF Spawn, FailureKinds
<1>. QED  BY <1>1, <1>2, <1>3 DEF Launch, SpawnSucceeds, SpawnUnusable

LEMMA StopLater ==
  ASSUME TypeOK, NEW b \in BOOLEAN, InitiateStop(b)
  PROVE  Later(conn, conn')
BY LaterMethods DEF TypeOK, InitiateStop

LEMMA ReconnectLater ==
  ASSUME TypeOK, NEW t, NEW g, ReconnectFor(t, g) \/ BeginReconnect(t) \/ LeaveReconnect(t)
  PROVE  Later(conn, conn')
<1>1. CASE LeaveReconnect(t) \/ UNCHANGED conn
  BY <1>1, LaterMethods DEF LeaveReconnect, TypeOK
<1>2. CASE BeginReconnect(t)
  BY <1>2, StopLater DEF BeginReconnect
<1>. QED  BY <1>1, <1>2 DEF ReconnectFor

LEMMA TaskStepLater ==
  ASSUME TypeOK, NEW t \in Tasks, TaskStep(t)
  PROVE  Later(conn, conn')
<1>0. /\ conn \in Snapshot /\ task[t].intent \in Nat /\ task[t].retry \in BOOLEAN
      /\ Later(conn, conn) /\ \A i : Later(conn, FailIntent(conn, i))
  BY LaterMethods DEF TypeOK, Coroutines
<1>1. CASE ConnectResumes(t)
  BY <1>1, ConnectNewLater DEF ConnectResumes
<1>2. CASE ConnectAfterStopResumes(t) \/ ConnectAfterAttemptResumes(t)
  BY <1>0, <1>2, ConnectLater DEF ConnectAfterStopResumes, ConnectAfterAttemptResumes
<1>3. CASE RefreshCompletes(t) \/ LogResetCompletes(t)
  BY <1>0, <1>3, LaunchLater DEF RefreshCompletes, LogResetCompletes, Abandon, StartFails
<1>4. CASE AttemptChildStopped(t) \/ DisconnectResumes(t)
  BY <1>0, <1>4, LaterMethods DEF AttemptChildStopped, DisconnectResumes
<1>5. CASE ReconnectAfterPriorResumes(t)
  BY <1>5, ReconnectLater DEF ReconnectAfterPriorResumes
<1>6. CASE ReconnectResumes(t)
  <2> DEFINE i == task[t].intent
             c == StopCompleted(conn, i, task[t].result # "failed")
  <2>1. c \in Snapshot /\ Later(conn, c)
    BY <1>0, AttemptType, LaterMethods
  <2>2. FailIntent(c, i) \in Snapshot /\ Later(c, FailIntent(c, i))
    BY <2>1, AttemptType, LaterMethods
  <2>3. Resume(c) \in Snapshot /\ Later(c, Resume(c))
    BY <2>1, AttemptType, LaterMethods
  <2>4. Later(conn, FailIntent(c, i)) /\ Later(conn, Resume(c))
    BY <1>0, <2>1, <2>2, <2>3, LaterTransitive
  <2>5. \/ RefuseConnect(t, conn, i) \/ conn' \in {c, FailIntent(c, i)}
        \/ ConnectFor(t, Resume(c), FALSE, i)
    BY <1>6 DEF ReconnectResumes
  <2> HIDE DEF c
  <2>. QED  BY <1>0, <2>1, <2>3, <2>4, <2>5, ConnectLater
<1>7. CASE RecoverResumes(t)
  <2>1. Resume(conn) \in Snapshot /\ Later(conn, Resume(conn))
    BY <1>0, AttemptType, LaterMethods
  <2>. QED  BY <1>0, <1>7, <2>1, ConnectLater DEF RecoverResumes
<1>. QED
  BY <1>1, <1>2, <1>3, <1>4, <1>5, <1>6, <1>7 DEF TaskStep

LEMMA EngineEventLater ==
  ASSUME TypeOK, EngineEvent \/ ChildCloses
  PROVE  Later(conn, conn')
<1>0. conn \in Snapshot /\ Later(conn, conn)
  BY LaterMethods DEF TypeOK
<1>1. CASE RevokeServing
  <2>1. UNCHANGED conn \/ \E b \in BOOLEAN : conn' = MarkEngineStopping(conn, b)
    BY <1>1 DEF RevokeServing
  <2>. QED  BY <1>0, <2>1, LaterEngine DEF FailureKinds
<1>2. CASE EnginePhase \/ EngineReady \/ ActivationSettles
  <2>0. child # NoChild => child.gen \in Nat
    BY DEF TypeOK, Children
  <2>1. CASE EnginePhase
    <3>1. child.gen \in Nat
      BY <2>0, <2>1 DEF EnginePhase, Serving, Listening, ChildCurrent
    <3>2. PICK p \in {"authenticating", "preparing-tunnel"} :
            conn' = MarkEnginePhase(conn, child.gen, p)
      BY <2>1 DEF EnginePhase
    <3>. QED  BY <1>0, <3>1, <3>2, LaterEngine DEF FailureKinds
  <2>2. CASE ActivationSettles
    <3>1. conn' = conn \/ (child # NoChild /\ conn' = MarkConnected(conn, child.gen))
      BY <2>2 DEF ActivationSettles, ChildCurrent
    <3>2. child.gen \in Nat => Later(conn, MarkConnected(conn, child.gen))
      BY <1>0, LaterEngine DEF FailureKinds
    <3>. QED  BY <1>0, <2>0, <3>1, <3>2
  <2>3. ASSUME NEW c \in Snapshot, Later(conn, c), child.gen \in Nat, Promote(c)
        PROVE  Later(conn, conn')
    <3>1. /\ MarkConnected(c, child.gen) \in Snapshot
          /\ Later(c, MarkConnected(c, child.gen))
      BY <2>3, EngineType, LaterEngine DEF FailureKinds
    <3>2. conn' = c \/ conn' = MarkConnected(c, child.gen)
      BY <2>3 DEF Promote
    <3>. QED  BY <1>0, <2>3, <3>1, <3>2, LaterTransitive
  <2>4. CASE EngineReady
    <3>1. child.gen \in Nat
      BY <2>0, <2>4 DEF EngineReady, Serving, Listening, ChildCurrent
    <3>2. /\ RecordCandidate(conn, child.gen) \in Snapshot
          /\ Later(conn, RecordCandidate(conn, child.gen))
          /\ RecordListenerReady(conn, child.gen) \in Snapshot
          /\ Later(conn, RecordListenerReady(conn, child.gen))
      BY <1>0, <3>1, EngineType, LaterEngine DEF FailureKinds
    <3>. QED  BY <2>3, <2>4, <3>1, <3>2 DEF EngineReady
  <2>. QED  BY <1>2, <2>1, <2>2, <2>4
<1>3. CASE ChildCloses
  <2>1. \/ UNCHANGED conn
        \/ \E b, r \in BOOLEAN, k \in FailureKinds : conn' = EngineClosed(conn, b, k, r)
    <3>1. CloseKinds \subseteq FailureKinds
      BY <1>3 DEF CloseKinds, TypeOK, Children, FailureKinds, ChildCloses
    <3>. QED  BY <1>3, <3>1 DEF ChildCloses, CloseHandled
  <2>. QED  BY <1>0, <2>1, LaterEngine
<1>. QED
  BY <1>0, <1>1, <1>2, <1>3
    DEF EngineEvent, Hello, HelloTimesOut, OpenBrowser, EngineStopping, ListenerMismatch,
        FatalError, Stopped, ChildExits, ChildErrors

LEMMA StepLater ==
  ASSUME TypeOK, [Next]_vars
  PROVE  Later(conn, conn')
<1>0. conn \in Snapshot /\ Later(conn, conn) /\ \A i : Later(conn, FailIntent(conn, i))
  BY LaterMethods DEF TypeOK
<1>1. CASE UNCHANGED conn
  BY <1>0, <1>1
<1>2. ASSUME NEW t \in Tasks,
             \/ UserConnect(t) \/ UserDisconnect(t) \/ UserReconnect(t)
             \/ HealthRecovery(t) \/ Quit(t)
      PROVE  Later(conn, conn')
  BY <1>0, <1>2, ConnectNewLater, StopLater, ReconnectLater
    DEF UserConnect, UserDisconnect, UserReconnect, HealthRecovery, Quit
<1>3. ASSUME NEW t \in Tasks, RetryTimerFires(t) \/ RecoveryTimerFires(t)
      PROVE  Later(conn, conn')
  <2>1. timer.intent \in Nat
    BY DEF TypeOK
  <2>. QED
    BY <1>0, <1>3, <2>1, ConnectLater DEF RetryTimerFires, RecoveryTimerFires
<1>4. CASE GoesUnavailable
  BY <1>0, <1>4, LaterMethods DEF GoesUnavailable, MarkUnavailable
<1>. QED
  BY <1>1, <1>2, <1>3, <1>4, TaskStepLater, EngineEventLater
    DEF Next, Disturbance, Reaction, EngineEvent, ComesBack, BrowserSuspended,
        StopTimesOut, vars

-----------------------------------------------------------------------------
(* The table of coroutines *)

\* A coroutine that is told of a clean or unclean end was told before.
NobodyTold == \A u \in Tasks : ToldStopped(u)' => ToldStopped(u)

\* A coroutine that disconnects did so before.
NoNewDisconnect ==
  \A u \in Tasks : Disconnects(u)' =>
    Disconnects(u) /\ task'[u].intent = task[u].intent

\* A coroutine that awaits a stop awaits no other coroutine, and none answers it.
Alone(u) == task[u].pc \in AwaitsStop => task[u].on = NoTask /\ task[u].result # "done"

AloneKept == \A u \in Tasks : Alone(u) => Alone(u)'

Usual == NobodyTold /\ NoNewDisconnect /\ AloneKept

\* Every change of the table but the end of a stop and a new disconnect
LEMMA OrdinaryTable ==
  ASSUME TypeOK, NEW t \in Tasks,
         \/ UNCHANGED task
         \/ Finish(t)
         \/ \E new \in Coroutines :
              /\ Become(t, new)
              /\ new.pc \notin {"disconnect:stop", "quit:stop"}
              /\ new.pc \in AwaitsStop => new.on = NoTask /\ new.result = "pending"
  PROVE  Usual
<1>0. task \in [Tasks -> Coroutines]
  BY DEF TypeOK
<1> USE DEF Usual, NobodyTold, NoNewDisconnect, AloneKept, ToldStopped, Disconnects, Alone
<1>1. CASE UNCHANGED task
  BY <1>1
<1>2. CASE Finish(t)
  <2>1. ASSUME NEW u \in Tasks
        PROVE  \/ task'[u] = task[u]
               \/ task'[u].pc = "idle"
               \/ /\ task'[u].pc = task[u].pc /\ task'[u].intent = task[u].intent
                  /\ task'[u].result = "done" /\ task[u].on # NoTask
    BY <1>0, <1>2, TasksAssumption DEF Finish, IdleTask, Coroutines
  <2>. QED  BY <2>1 DEF AwaitsStop
<1>3. ASSUME NEW new \in Coroutines, Become(t, new),
             new.pc \notin {"disconnect:stop", "quit:stop"},
             new.pc \in AwaitsStop => new.on = NoTask /\ new.result = "pending"
      PROVE  Usual
  <2>1. \A u \in Tasks : task'[u] = IF u = t THEN new ELSE task[u]
    BY <1>0, <1>3 DEF Become
  <2>. QED  BY <1>3, <2>1
<1>. QED  BY <1>1, <1>2, <1>3

LEMMA DeliveredOrdinary ==
  ASSUME TypeOK, NEW r \in StopResults, NEW b, task' = Deliver(r, b)
  PROVE  NoNewDisconnect /\ AloneKept /\ (r = "failed" => NobodyTold)
<1>1. task \in [Tasks -> Coroutines]
  BY DEF TypeOK
<1>2. ASSUME NEW u \in Tasks
      PROVE  /\ task'[u].pc = task[u].pc /\ task'[u].intent = task[u].intent
             /\ task'[u].on = task[u].on /\ task'[u].result \in {task[u].result, r}
  BY <1>1, <1>2 DEF Deliver, Coroutines
<1>. QED
  BY <1>2 DEF NoNewDisconnect, NobodyTold, AloneKept, Disconnects, ToldStopped, Alone, StopResults

LEMMA AwaitOrdinary ==
  ASSUME TypeOK, NEW t \in Tasks, NEW pc \in AwaitsStop \ {"disconnect:stop", "quit:stop"},
         NEW i \in Nat, NEW b \in BOOLEAN, AwaitStop(t, pc, i, b)
  PROVE  Usual
<1> DEFINE new == [IdleTask EXCEPT !.pc = pc, !.intent = i, !.retry = b,
                                   !.result = "pending"]
<1>1. new \in Coroutines /\ new.pc = pc /\ new.result = "pending" /\ new.on = NoTask
  BY DEF IdleTask, Coroutines, NoGeneration
<1>2. Become(t, new)
  BY DEF AwaitStop
<1> HIDE DEF new
<1>. QED  BY <1>1, <1>2, OrdinaryTable

LEMMA ConnectOrdinary ==
  ASSUME TypeOK, NEW t \in Tasks, NEW c, NEW b \in BOOLEAN, NEW i \in Nat,
         \/ RefuseConnect(t, c, i) \/ ConnectAfterStop(t, c, b, i)
         \/ ConnectFor(t, c, b, i) \/ BeginAttempt(t, c, b, i)
  PROVE  Usual
<1> DEFINE first == [IdleTask EXCEPT !.pc = "attempt:refresh", !.intent = i, !.retry = b]
           queued == [IdleTask EXCEPT !.pc = "connect:attempt", !.intent = i, !.retry = b,
                                      !.on = connectFlight, !.result = "pending"]
<1>1. first \in Coroutines /\ first.pc = "attempt:refresh" /\ first.result = "none"
  BY DEF IdleTask, Coroutines, NoGeneration, AttemptSteps
<1>2. queued \in Coroutines /\ queued.pc = "connect:attempt" /\ queued.result = "pending"
  BY DEF TypeOK, IdleTask, Coroutines, NoGeneration, AwaitsTask
<1>3. \/ Finish(t) \/ AwaitStop(t, "connect:stop-again", i, b)
      \/ Become(t, first) \/ Become(t, queued)
  BY DEF ConnectFor, ConnectAfterStop, RefuseConnect, BeginAttempt
<1> HIDE DEF first, queued
<1>4. "connect:stop-again" \in AwaitsStop \ {"disconnect:stop", "quit:stop"}
  BY DEF AwaitsStop
<1>. QED  BY <1>1, <1>2, <1>3, <1>4, OrdinaryTable, AwaitOrdinary DEF AwaitsStop

LEMMA LaunchOrdinary ==
  ASSUME TypeOK, NEW t \in Tasks, Launch(t)
  PROVE  Usual
<1> DEFINE new == [task[t] EXCEPT !.pc = "attempt:child", !.result = "pending"]
<1>1. CASE Finish(t)
  BY <1>1, OrdinaryTable
<1>2. CASE Become(t, new)
  <2>1. new \in Coroutines /\ new.pc = "attempt:child" /\ new.result = "pending"
    BY DEF TypeOK, Coroutines, AttemptSteps
  <2> HIDE DEF new
  <2>. QED  BY <1>2, <2>1, OrdinaryTable DEF AwaitsStop
<1>. QED
  BY <1>1, <1>2
    DEF Launch, StartFails, StartRefused, SpawnThrows, SpawnSucceeds, SpawnUnusable

LEMMA ReconnectOrdinary ==
  ASSUME TypeOK, NEW t \in Tasks, NEW g \in Nat,
         ReconnectFor(t, g) \/ BeginReconnect(t) \/ LeaveReconnect(t)
  PROVE  Usual
<1> DEFINE new == [IdleTask EXCEPT !.pc = "reconnect:prior", !.gen = g,
                                   !.on = reconnectFlight.task, !.result = "pending"]
<1>1. new \in Coroutines /\ new.pc = "reconnect:prior" /\ new.result = "pending"
  BY DEF TypeOK, IdleTask, Coroutines, NoGeneration, AwaitsTask
<1>2. /\ "reconnect:stop" \in AwaitsStop \ {"disconnect:stop", "quit:stop"}
      /\ conn.intent + 1 \in Nat
  BY DEF AwaitsStop, TypeOK, Snapshot
<1>3. \/ Finish(t) \/ Become(t, new) \/ AwaitStop(t, "reconnect:stop", conn.intent + 1, FALSE)
  BY DEF ReconnectFor, LeaveReconnect, BeginReconnect
<1> HIDE DEF new
<1>. QED  BY <1>1, <1>2, <1>3, OrdinaryTable, AwaitOrdinary DEF AwaitsStop

LEMMA ConnectNewOrdinary ==
  ASSUME TypeOK, NEW t \in Tasks, ConnectNew(t)
  PROVE  Usual
<1>1. conn.intent \in Nat /\ conn.intent + 1 \in Nat
  BY DEF TypeOK, Snapshot
<1>. QED  BY <1>1, ConnectOrdinary, OrdinaryTable DEF ConnectNew

LEMMA TaskStepOrdinary ==
  ASSUME TypeOK, NEW t \in Tasks, TaskStep(t)
  PROVE  Usual
<1>0. task[t].intent \in Nat /\ task[t].retry \in BOOLEAN /\ task[t].gen \in Nat
  BY DEF TypeOK, Coroutines
<1>1. CASE Finish(t)
  BY <1>1, OrdinaryTable
<1>2. ASSUME NEW c, NEW b \in BOOLEAN,
             \/ ConnectAfterStop(t, c, b, task[t].intent)
             \/ ConnectFor(t, c, b, task[t].intent)
             \/ BeginAttempt(t, c, b, task[t].intent)
      PROVE  Usual
  BY <1>0, <1>2, ConnectOrdinary
<1>3. CASE ConnectResumes(t)
  BY <1>3, ConnectNewOrdinary DEF ConnectResumes
<1>4. CASE ConnectAfterStopResumes(t) \/ ConnectAfterAttemptResumes(t)
  BY <1>0, <1>1, <1>2, <1>4
    DEF ConnectAfterStopResumes, ConnectAfterAttemptResumes, RefuseConnect
<1>5. CASE RefreshCompletes(t)
  <2> DEFINE new == [task[t] EXCEPT !.pc = "attempt:log"]
  <2>1. CASE Become(t, new)
    <3>1. new \in Coroutines /\ new.pc = "attempt:log"
      BY DEF TypeOK, Coroutines, AttemptSteps
    <3> HIDE DEF new
    <3>. QED  BY <2>1, <3>1, OrdinaryTable DEF AwaitsStop
  <2>. QED
    BY <1>1, <1>5, <2>1, LaunchOrdinary DEF RefreshCompletes, Abandon, StartFails
<1>6. CASE LogResetCompletes(t) \/ AttemptChildStopped(t) \/ DisconnectResumes(t)
  BY <1>1, <1>6, LaunchOrdinary
    DEF LogResetCompletes, AttemptChildStopped, DisconnectResumes, Abandon
<1>7. CASE ReconnectAfterPriorResumes(t)
  BY <1>0, <1>7, ReconnectOrdinary DEF ReconnectAfterPriorResumes
<1>8. CASE ReconnectResumes(t)
  BY <1>1, <1>2, <1>8 DEF ReconnectResumes, RefuseConnect
<1>9. CASE RecoverResumes(t)
  BY <1>1, <1>2, <1>9 DEF RecoverResumes
<1>. QED
  BY <1>3, <1>4, <1>5, <1>6, <1>7, <1>8, <1>9 DEF TaskStep

\* Where a clean end can be told: the engine has gone with it.
Tells == child' = NoChild

NewDisconnect == \E t \in Tasks : UserDisconnect(t) \/ Quit(t)

Ordinary == (NobodyTold \/ Tells) /\ (NoNewDisconnect \/ NewDisconnect) /\ AloneKept

LEMMA StepOrdinary ==
  ASSUME TypeOK, [Next]_vars
  PROVE  Ordinary
<1>0. Usual => Ordinary
  BY DEF Ordinary, Usual
<1>1. CASE UNCHANGED task
  BY <1>1 DEF Ordinary, NobodyTold, ToldStopped, NoNewDisconnect, Disconnects, AloneKept, Alone
<1>2. ASSUME NEW t \in Tasks, TaskStep(t)
      PROVE  Ordinary
  BY <1>0, <1>2, TaskStepOrdinary
<1>3. ASSUME NEW t \in Tasks, UserConnect(t)
      PROVE  Ordinary
  <2>1. "connect:stop" \in AwaitsStop \ {"disconnect:stop", "quit:stop"}
    BY DEF AwaitsStop
  <2>. QED  BY <1>0, <1>3, <2>1, ConnectNewOrdinary, AwaitOrdinary DEF UserConnect
<1>4. ASSUME NEW t \in Tasks, UserReconnect(t) \/ HealthRecovery(t)
      PROVE  Ordinary
  <2>1. HealthRecovery(t) => child.gen \in Nat
    BY DEF HealthRecovery, ChildCurrent, TypeOK, Children
  <2>. QED
    BY <1>0, <1>4, <2>1, ReconnectOrdinary DEF UserReconnect, HealthRecovery, NoGeneration
<1>5. ASSUME NEW t \in Tasks, UserDisconnect(t) \/ Quit(t)
      PROVE  Ordinary
  <2>1. PICK pc \in AwaitsStop : AwaitStop(t, pc, conn.intent + 1, FALSE)
    BY <1>5 DEF UserDisconnect, Quit, AwaitsStop
  <2>2. /\ task'[t].result = "pending" /\ task'[t].on = NoTask
        /\ \A u \in Tasks : u # t => task'[u] = task[u]
    BY <2>1 DEF TypeOK, AwaitStop, Become, IdleTask
  <2>. QED
    BY <1>5, <2>2 DEF Ordinary, NewDisconnect, NobodyTold, ToldStopped, AloneKept, Alone
<1>6. ASSUME NEW t \in Tasks, RetryTimerFires(t) \/ RecoveryTimerFires(t)
      PROVE  Ordinary
  <2>1. /\ timer.intent \in Nat /\ rec.pending \in Nat
        /\ "recover:stop" \in AwaitsStop \ {"disconnect:stop", "quit:stop"}
    BY DEF TypeOK, Outages, AwaitsStop
  <2>. QED
    BY <1>0, <1>1, <1>6, <2>1, ConnectOrdinary, AwaitOrdinary
      DEF RetryTimerFires, RecoveryTimerFires
<1>7. CASE BrowserSuspended
  <2>1. CASE child = NoChild /\ SettleStop("clean") /\ UNCHANGED child
    <3>1. NoNewDisconnect /\ AloneKept
      BY <2>1, DeliveredOrdinary DEF SettleStop, StopResults
    <3>. QED  BY <2>1, <3>1 DEF Tells, Ordinary
  <2>2. CASE SettleStop("failed")
    <3>1. task' = Deliver("failed", TRUE)
      BY <2>2 DEF SettleStop
    <3>2. NoNewDisconnect /\ AloneKept /\ NobodyTold
      BY <3>1, DeliveredOrdinary DEF StopResults
    <3>. QED  BY <1>0, <3>2 DEF Usual
  <2>. QED  BY <1>1, <1>7, <2>1, <2>2 DEF BrowserSuspended
<1>8. CASE StopTimesOut
  BY <1>0, <1>8, DeliveredOrdinary DEF StopTimesOut, StopResults, Usual
<1>9. CASE ChildCloses
  BY <1>9, DeliveredOrdinary DEF ChildCloses, Tells, Ordinary, StopResults
<1>10. CASE EngineEvent
  BY <1>1, <1>10 DEF EngineEvent, KeepCoordinator, Hello, HelloTimesOut, EnginePhase, EngineReady,
     ActivationSettles, OpenBrowser, EngineStopping, ListenerMismatch, FatalError, Stopped,
     ChildExits, ChildErrors
<1>. QED
  BY <1>1, <1>2, <1>3, <1>4, <1>5, <1>6, <1>7, <1>8, <1>9, <1>10
    DEF Next, Disturbance, Reaction, EngineEvent, GoesUnavailable, ComesBack, vars

-----------------------------------------------------------------------------
(* The invariant *)

GInv == EngineGoneWhenTold /\ DisconnectsUnwanted /\ \A u \in Tasks : Alone(u)

\* An engine is launched only when nobody is still to be told.
LEMMA LaunchWhenDrained ==
  ASSUME [Next]_vars, child = NoChild, child' # NoChild
  PROVE  MicrotasksDrained
<1>1. ASSUME NEW t \in Tasks, TaskStep(t)
      PROVE  MicrotasksDrained
  BY <1>1 DEF TaskStep, ConnectResumes, ConnectAfterStopResumes, ConnectAfterAttemptResumes,
     RefreshCompletes, LogResetCompletes, AttemptChildStopped, DisconnectResumes,
     ReconnectAfterPriorResumes, LeaveReconnect, BeginReconnect, ReconnectResumes, RecoverResumes
<1>2. CASE Disturbance
  BY <1>2 DEF Disturbance, UserConnect, UserDisconnect, UserReconnect, HealthRecovery, Quit,
     ReconnectFor, LeaveReconnect, BeginReconnect, GoesUnavailable, HelloTimesOut,
     ListenerMismatch, FatalError, EngineStopping, Stopped, ChildErrors, ChildExits,
     Serving, Listening
<1>3. CASE Reaction /\ ~(\E t \in Tasks : TaskStep(t))
  BY <1>3 DEF Reaction, RetryTimerFires, RecoveryTimerFires, ComesBack, OpenBrowser,
     BrowserSuspended, StopTimesOut, Hello, EnginePhase, EngineReady, ActivationSettles,
     ChildCloses, Serving, Listening
<1>. QED  BY <1>1, <1>2, <1>3 DEF Next, vars

LEMMA GoneStep ==
  ASSUME TypeOK, EngineGoneWhenTold, [Next]_vars
  PROVE  EngineGoneWhenTold'
<1>1. CASE Tells
  BY <1>1 DEF Tells, EngineGoneWhenTold
<1>2. CASE NobodyTold
  <2>1. ASSUME NEW u \in Tasks, ToldStopped(u)', child' # NoChild
        PROVE  FALSE
    <3>1. ToldStopped(u) /\ child = NoChild
      BY <1>2, <2>1 DEF NobodyTold, EngineGoneWhenTold
    <3>2. MicrotasksDrained
      BY <2>1, <3>1, LaunchWhenDrained
    <3>. QED  BY <3>1, <3>2 DEF ToldStopped, MicrotasksDrained, Ready, StopResults
  <2>. QED  BY <2>1 DEF EngineGoneWhenTold
<1>. QED  BY <1>1, <1>2, StepOrdinary DEF Ordinary

LEMMA UnwantedStep ==
  ASSUME TypeOK, DisconnectsUnwanted, [Next]_vars
  PROVE  DisconnectsUnwanted'
<1>0. /\ task \in [Tasks -> Coroutines] /\ conn \in Snapshot /\ conn.intent \in Nat
      /\ Later(conn, conn')
  BY StepLater DEF TypeOK, Snapshot
<1>1. CASE NoNewDisconnect
  <2>1. ASSUME NEW u \in Tasks, Disconnects(u)'
        PROVE  /\ task'[u].intent <= conn'.intent
               /\ task'[u].intent = conn'.intent => ~conn'.desired
    <3>1. /\ task'[u].intent = task[u].intent /\ task[u].intent \in Nat
          /\ task[u].intent <= conn.intent
          /\ task[u].intent = conn.intent => ~conn.desired
      BY <1>0, <1>1, <2>1 DEF NoNewDisconnect, DisconnectsUnwanted, Coroutines
    <3>. QED  BY <1>0, <3>1 DEF Later
  <2>. QED  BY <2>1 DEF DisconnectsUnwanted, Disconnects
<1>2. ASSUME NEW t \in Tasks, UserDisconnect(t) \/ Quit(t)
      PROVE  DisconnectsUnwanted'
  <2>1. conn' = BeginStop(conn, FALSE)
    BY <1>2 DEF UserDisconnect, Quit, InitiateStop
  <2>2. conn'.intent = conn.intent + 1 /\ ~conn'.desired
    BY <1>0, <2>1 DEF BeginStop, InvalidateEngineGeneration, Snapshot
  <2>3. /\ task'[t].intent = conn.intent + 1
        /\ \A u \in Tasks : u # t => task'[u] = task[u]
    BY <1>0, <1>2 DEF UserDisconnect, Quit, AwaitStop, Become, IdleTask
  <2>4. ASSUME NEW u \in Tasks, Disconnects(u)'
        PROVE  /\ task'[u].intent <= conn'.intent
               /\ task'[u].intent = conn'.intent => ~conn'.desired
    <3>1. CASE u = t
      BY <1>0, <2>2, <2>3, <3>1
    <3>2. CASE u # t
      <4>1. task'[u] = task[u] /\ task[u].intent \in Nat /\ task[u].intent <= conn.intent
        BY <1>0, <2>3, <2>4, <3>2 DEF DisconnectsUnwanted, Disconnects, Coroutines
      <4>. QED  BY <1>0, <2>2, <4>1
    <3>. QED  BY <3>1, <3>2
  <2>. QED  BY <2>4 DEF DisconnectsUnwanted, Disconnects
<1>. QED  BY <1>1, <1>2, StepOrdinary DEF Ordinary, NewDisconnect

LEMMA GInvCorrect == Spec => []GInv
<1>1. Init => GInv
  BY DEF Init, GInv, EngineGoneWhenTold, ToldStopped, DisconnectsUnwanted, Disconnects,
     Alone, IdleTask, AwaitsStop
<1>2. TypeOK /\ GInv /\ [Next]_vars => GInv'
  BY GoneStep, UnwantedStep, StepOrdinary DEF GInv, Ordinary, AloneKept
<1>. QED  BY <1>1, <1>2, TypeCorrect, PTL DEF Spec

-----------------------------------------------------------------------------
(* Who leaves connected *)

\* The machine is connected with an engine it names, and no stop is under way.
Serves == conn.phase = "connected" /\ conn.gen # NoGeneration /\ stopFlight = "none"

ClosesGate ==
  conn'.phase # "connected" => gate' # "open" \/ conn' = FailIntent(conn, conn.intent)

LEMMA ServesWith ==
  ASSUME TypeOK, IInv, Serves
  PROVE  child # NoChild /\ conn.desired /\ ChildCurrent /\ conn.gen = child.gen
BY DEF IInv, EngineBound, Bound, BoundPhases, ReadinessPhases, Named, ChildCurrent, Serves

\* What a connected machine with an engine may do next in connect
LEMMA ConnectStays ==
  ASSUME TypeOK, child # NoChild, conn.phase = "connected", NEW t, NEW b \in BOOLEAN,
         NEW i \in Nat, ConnectAfterStop(t, conn, b, i) \/ ConnectFor(t, conn, b, i)
  PROVE  conn'.phase = "connected" \/ conn' = FailIntent(conn, conn.intent)
BY DEF ConnectFor, ConnectAfterStop, RefuseConnect, FailIntent

LEMMA FailedIntent ==
  ASSUME conn \in Snapshot, conn.phase = "connected", NEW i, conn' = FailIntent(conn, i)
  PROVE  ClosesGate
BY DEF ClosesGate, FailIntent

LEMMA GateAfterStop ==
  ASSUME TypeOK, EnsureStopped, stopFlight = "none"
  PROVE  gate' # "open"
BY DEF EnsureStopped, Suspended

LEMMA ReconnectCloses ==
  ASSUME TypeOK, Serves, NEW t, NEW g,
         ReconnectFor(t, g) \/ BeginReconnect(t) \/ LeaveReconnect(t)
  PROVE  ClosesGate
<1>1. CASE LeaveReconnect(t) \/ UNCHANGED conn
  BY <1>1, FailedIntent DEF LeaveReconnect, Serves, ClosesGate, TypeOK
<1>2. CASE BeginReconnect(t)
  BY <1>2, GateAfterStop DEF BeginReconnect, InitiateStop, Serves, ClosesGate
<1>. QED  BY <1>1, <1>2 DEF ReconnectFor

LEMMA LaunchCloses ==
  ASSUME TypeOK, Serves, child # NoChild, NEW t, Launch(t)
  PROVE  ClosesGate
<1>1. CASE StartFails(t)
  BY <1>1, FailedIntent DEF StartFails, Serves, TypeOK
<1>2. CASE StartRefused(t)
  BY <1>2 DEF StartRefused, InvalidateEngineGeneration, ClosesGate, Serves, TypeOK, Snapshot
<1>. QED
  BY <1>1, <1>2 DEF Launch, SpawnThrows, SpawnSucceeds, SpawnUnusable, Spawn

\* The coroutine that a stop has been reported to finds the connection served
\* only if that stop has failed.
LEMMA StopHadFailed ==
  ASSUME TypeOK, GInv, child # NoChild, NEW t \in Tasks, Ready(t), task[t].pc \in AwaitsStop
  PROVE  task[t].result = "failed"
BY DEF GInv, EngineGoneWhenTold, ToldStopped, Alone, Ready, StopResults

LEMMA TaskStepCloses ==
  ASSUME TypeOK, IInv, GInv, Serves, NEW t \in Tasks, TaskStep(t)
  PROVE  ClosesGate
<1>0. /\ child # NoChild /\ conn.desired /\ conn \in Snapshot
      /\ conn.phase = "connected" /\ task[t].intent \in Nat /\ task[t].retry \in BOOLEAN
  BY ServesWith DEF TypeOK, Coroutines, Serves
<1>1. CASE UNCHANGED conn
  BY <1>0, <1>1 DEF ClosesGate
<1>2. ASSUME NEW i, conn' = FailIntent(conn, i)
      PROVE  ClosesGate
  BY <1>0, <1>2, FailedIntent
<1>3. CASE ConnectResumes(t)
  BY <1>0, <1>1, <1>2, <1>3 DEF ConnectResumes, ConnectNew, RefuseConnect
<1>4. CASE ConnectAfterStopResumes(t)
  BY <1>0, <1>4, ConnectStays DEF ConnectAfterStopResumes, ClosesGate
<1>5. CASE ConnectAfterAttemptResumes(t)
  BY <1>0, <1>1, <1>2, <1>5 DEF ConnectAfterAttemptResumes, RefuseConnect
<1>6. CASE RefreshCompletes(t) \/ LogResetCompletes(t)
  BY <1>0, <1>1, <1>2, <1>6, LaunchCloses
    DEF RefreshCompletes, LogResetCompletes, Abandon, StartFails
<1>7. CASE AttemptChildStopped(t)
  BY <1>1, <1>7 DEF AttemptChildStopped
<1>8. CASE DisconnectResumes(t)
  <2>1. task[t].intent # conn.intent
    BY <1>0, <1>8 DEF DisconnectResumes, Resumed, GInv, DisconnectsUnwanted, Disconnects
  <2>2. UNCHANGED conn
    BY <1>8, <2>1 DEF DisconnectResumes, StopCompleted
  <2>. QED  BY <1>1, <2>2
<1>9. CASE ReconnectAfterPriorResumes(t)
  BY <1>9, ReconnectCloses DEF ReconnectAfterPriorResumes
<1>10. CASE ReconnectResumes(t)
  <2>1. Ready(t) /\ task[t].pc \in AwaitsStop
    BY <1>10 DEF ReconnectResumes, Resumed, AwaitsStop
  <2>2. task[t].result # "clean"
    BY <1>0, <2>1, StopHadFailed
  <2>3. CASE RefuseConnect(t, conn, task[t].intent)
    BY <1>1, <1>2, <2>3 DEF RefuseConnect
  <2>4. ASSUME NEW b \in BOOLEAN,
               conn' = FailIntent(StopCompleted(conn, task[t].intent, b), task[t].intent)
        PROVE  ClosesGate
    <3>1. conn' = FailIntent(conn, task[t].intent)
      BY <1>0, <2>4 DEF FailIntent, StopCompleted, Snapshot
    <3>. QED  BY <1>2, <3>1
  <2>. QED  BY <1>10, <2>2, <2>3, <2>4 DEF ReconnectResumes
<1>11. CASE RecoverResumes(t)
  <2>1. Ready(t) /\ task[t].pc \in AwaitsStop
    BY <1>11 DEF RecoverResumes, Resumed, AwaitsStop
  <2>2. task[t].result = "failed"
    BY <1>0, <2>1, StopHadFailed
  <2>. QED  BY <1>1, <1>2, <1>11, <2>2 DEF RecoverResumes
<1>. QED
  BY <1>3, <1>4, <1>5, <1>6, <1>7, <1>8, <1>9, <1>10, <1>11 DEF TaskStep

LEMMA CommandCloses ==
  ASSUME TypeOK, IInv, Serves, NEW t \in Tasks,
         \/ UserConnect(t) \/ UserDisconnect(t) \/ UserReconnect(t)
         \/ HealthRecovery(t) \/ Quit(t)
  PROVE  ClosesGate
<1>0. conn.desired /\ conn \in Snapshot /\ conn.phase = "connected"
  BY ServesWith DEF TypeOK, Serves
<1>1. CASE UserConnect(t)
  <2>1. UNCHANGED conn \/ conn' = FailIntent(conn, conn.intent)
    BY <1>0, <1>1 DEF UserConnect, ConnectNew, RefuseConnect
  <2>. QED  BY <1>0, <2>1 DEF ClosesGate
<1>2. CASE UserDisconnect(t) \/ Quit(t)
  BY <1>2, GateAfterStop DEF UserDisconnect, Quit, InitiateStop, Serves, ClosesGate
<1>3. CASE UserReconnect(t) \/ HealthRecovery(t)
  BY <1>3, ReconnectCloses DEF UserReconnect, HealthRecovery
<1>. QED  BY <1>1, <1>2, <1>3

LEMMA TimerCloses ==
  ASSUME TypeOK, IInv, Serves, NEW t \in Tasks, RetryTimerFires(t) \/ RecoveryTimerFires(t)
  PROVE  ClosesGate
<1>0. child # NoChild /\ conn \in Snapshot /\ conn.phase = "connected" /\ timer.intent \in Nat
  BY ServesWith DEF TypeOK, Serves
<1>1. CASE RetryTimerFires(t)
  BY <1>0, <1>1, ConnectStays DEF RetryTimerFires, ClosesGate
<1>2. CASE RecoveryTimerFires(t)
  <2>1. UNCHANGED conn \/ conn' = FailIntent(conn, rec.pending)
    BY <1>2 DEF RecoveryTimerFires
  <2>. QED  BY <1>0, <2>1, FailedIntent DEF ClosesGate
<1>. QED  BY <1>1, <1>2

\* The engine reports progress: a connected machine stays connected.
LEMMA ProgressStays ==
  ASSUME NEW c \in Snapshot, c.phase = "connected", NEW g, NEW p
  PROVE  /\ MarkEnginePhase(c, g, p).phase = "connected"
         /\ RecordCandidate(c, g).phase = "connected"
         /\ RecordListenerReady(c, g).phase = "connected"
         /\ MarkConnected(c, g).phase = "connected"
BY DEF Snapshot, MarkEnginePhase, EnginePhaseAllowed, RecordCandidate, RecordListenerReady,
       MarkConnected

LEMMA EngineEventCloses ==
  ASSUME TypeOK, IInv, Serves, EngineEvent \/ ChildCloses
  PROVE  ClosesGate
<1>0. conn \in Snapshot /\ conn.phase = "connected" /\ ChildCurrent /\ conn.gen = child.gen
  BY ServesWith DEF TypeOK, Serves
<1>1. CASE RevokeServing
  BY <1>0, <1>1 DEF RevokeServing, Suspended, ClosesGate
<1>2. CASE EnginePhase \/ ActivationSettles
  BY <1>0, <1>2, ProgressStays DEF EnginePhase, ActivationSettles, ClosesGate
<1>3. CASE EngineReady
  <2>1. child.gen \in Nat
    BY <1>0 DEF ChildCurrent, TypeOK, Children
  <2>2. /\ RecordCandidate(conn, child.gen) \in Snapshot
        /\ RecordListenerReady(conn, child.gen) \in Snapshot
    BY <1>0, <2>1, EngineType
  <2>3. ASSUME NEW c \in Snapshot, c.phase = "connected", Promote(c)
        PROVE  conn'.phase = "connected"
    BY <2>3, ProgressStays DEF Promote
  <2>. QED  BY <1>0, <1>3, <2>2, <2>3, ProgressStays DEF EngineReady, ClosesGate
<1>4. CASE ChildCloses
  BY <1>0, <1>4 DEF ChildCloses, CloseHandled, Suspended, ClosesGate
<1>. QED
  BY <1>0, <1>1, <1>2, <1>3, <1>4
    DEF EngineEvent, Hello, HelloTimesOut, OpenBrowser, EngineStopping, ListenerMismatch,
        FatalError, Stopped, ChildExits, ChildErrors, ClosesGate

\* Whatever takes a served connection away closes the request gate in the same
\* run (suspendBrowser in ensureEngineStopped, revokeServing and
\* handleEngineClose), unless it only ends the intent (failIntent).
THEOREM GateCorrect == Spec => LeavingConnectedClosesGate
<1> DEFINE Closes == conn.phase = "connected" /\ conn'.phase # "connected"
                       /\ conn.gen # NoGeneration /\ stopFlight = "none" =>
                       gate' # "open" \/ conn' = FailIntent(conn, conn.intent)
<1>1. ASSUME TypeOK, IInv, GInv, [Next]_vars
      PROVE  Closes
  <2>1. SUFFICES ASSUME Serves
                 PROVE  ClosesGate
    BY DEF Serves, ClosesGate
  <2>2. CASE UNCHANGED conn
    BY <2>1, <2>2 DEF Serves, ClosesGate
  <2>3. CASE GoesUnavailable
    BY <1>1, <2>1, <2>2, <2>3, GateAfterStop DEF GoesUnavailable, MarkUnavailable, Serves, ClosesGate
  <2>. QED
    BY <1>1, <2>1, <2>2, <2>3, CommandCloses, TimerCloses, TaskStepCloses, EngineEventCloses
      DEF Next, Disturbance, Reaction, EngineEvent, ComesBack, BrowserSuspended, StopTimesOut, vars
<1>2. TypeOK /\ IInv /\ GInv /\ [Next]_vars => [Closes]_vars
  BY <1>1
<1> HIDE DEF Closes
<1>3. Spec => [][Closes]_vars
  BY <1>2, IInvCorrect, GInvCorrect, PTL DEF Spec
<1>. QED  BY <1>3 DEF Closes, LeavingConnectedClosesGate

-----------------------------------------------------------------------------
(* The connection core implements EngineService.  The mapping EngineView      *)
(* needs three facts of the engine beyond IInv: which intents it can belong   *)
(* to, that a candidate was reported after hello, and that a process that     *)
(* could not be started said no hello.                                        *)

\* The snapshot's phase lets the engine it names count.
Counted(c) == c.phase \in {"starting", "authenticating"} \cup ReadinessPhases

Served(c) == c.phase = "connected" /\ c.candidate /\ c.listener

\* The intent is the same, and given up at most; no engine has been heard since.
Lasts(c, d) ==
  /\ d.intent = c.intent
  /\ d.desired => c.desired
  /\ d.candidate => c.candidate /\ d.gen = c.gen

\* Moreover the engine is the same to the snapshot, or no longer counts.
Keeps(c, d) ==
  /\ Lasts(c, d)
  /\ Counted(d) /\ d.gen # NoGeneration =>
       Counted(c) /\ d.gen = c.gen /\ d.desired = c.desired /\ (Served(d) <=> Served(c))

EngineHeard ==
  child # NoChild =>
    /\ child.gen # NoGeneration
    /\ child.intent <= conn.intent
    /\ child.exit = "error" => ~child.hello
    /\ conn.candidate /\ conn.gen = child.gen => child.hello

-----------------------------------------------------------------------------
(* The methods of the state machine *)

LEMMA LastsTransitive ==
  ASSUME NEW c, NEW d, NEW e, Lasts(c, d), Lasts(d, e)
  PROVE  Lasts(c, e)
BY DEF Lasts

LEMMA KeepsTransitive ==
  ASSUME NEW c, NEW d, NEW e, Keeps(c, d), Keeps(d, e)
  PROVE  Keeps(c, e)
BY LastsTransitive DEF Keeps

LEMMA KeepingMethods ==
  ASSUME NEW c \in Snapshot, NEW i, NEW b \in BOOLEAN
  PROVE  /\ Keeps(c, c)
         /\ Keeps(c, FailIntent(c, i))
         /\ Keeps(c, StopCompleted(c, i, b))
         /\ Keeps(c, InvalidateEngineGeneration(c))
         /\ Keeps(c, PauseForConnectivity(c))
         /\ Keeps(c, MarkEngineStopping(c, b))
<1> USE DEF Keeps, Lasts, Counted, Served, ReadinessPhases, Snapshot
<1>1. Keeps(c, c)
  OBVIOUS
<1>2. Keeps(c, FailIntent(c, i))
  BY DEF FailIntent
<1>3. Keeps(c, StopCompleted(c, i, b))
  BY DEF StopCompleted
<1>4. Keeps(c, InvalidateEngineGeneration(c))
  BY DEF InvalidateEngineGeneration
<1>5. Keeps(c, PauseForConnectivity(c))
  BY DEF PauseForConnectivity, InvalidateEngineGeneration
<1>6. Keeps(c, MarkEngineStopping(c, b))
  BY DEF MarkEngineStopping
<1>. QED  BY <1>1, <1>2, <1>3, <1>4, <1>5, <1>6

LEMMA ClosedLasts ==
  ASSUME NEW c \in Snapshot, NEW b \in BOOLEAN, NEW k \in FailureKinds, NEW r \in BOOLEAN
  PROVE  Lasts(c, EngineClosed(c, b, k, r))
BY DEF Lasts, Snapshot, EngineClosed, InvalidateEngineGeneration

LEMMA LastingMethods ==
  ASSUME NEW c \in Snapshot, NEW b \in BOOLEAN
  PROVE  Lasts(c, Resume(c)) /\ Lasts(c, BeginConnectAttempt(c, b))
BY DEF Lasts, Snapshot, Resume, BeginConnectAttempt

-----------------------------------------------------------------------------
(* The steps of EngineService *)

Implements == [Service!Next]_(Service!vars) /\ EngineHeard'

\* The child is the same, whatever is noted about it.
SameChild ==
  child' # NoChild =>
    /\ child # NoChild
    /\ child'.gen = child.gen /\ child'.intent = child.intent
    /\ child'.exit = "error" => ~child'.hello
    /\ child.hello => child'.hello

LEMMA SameChildHeard ==
  ASSUME EngineHeard, SameChild, Lasts(conn, conn')
  PROVE  EngineHeard'
BY DEF EngineHeard, SameChild, Lasts

LEMMA UnchangedChild ==
  ASSUME EngineHeard, UNCHANGED child
  PROVE  SameChild
BY DEF EngineHeard, SameChild

\* The engine stays what it is, or is retired.
LEMMA KeptImplements ==
  ASSUME TypeOK, TypeOK', EngineHeard, SameChild, child' = NoChild => child = NoChild,
         Keeps(conn, conn'), UNCHANGED supGen \/ ~Counted(conn')
  PROVE  Implements
<1>1. EngineHeard'
  BY SameChildHeard DEF Keeps
<1>2. /\ conn'.intent = conn.intent /\ conn'.desired \in {conn.desired, FALSE}
      /\ conn.desired \in BOOLEAN
  BY DEF Keeps, Lasts, TypeOK, Snapshot
<1>3. \/ EngineView' = Service!Retired(EngineView)
      \/ EngineView' = EngineView /\ conn'.desired = conn.desired
  BY DEF EngineView, Service!Retired, SameChild, EngineHeard, Keeps, Lasts, Counted, Served,
         ChildCurrent, NoGeneration, ReadinessPhases
<1>. QED  BY <1>1, <1>2, <1>3 DEF Implements, Service!Next, Service!Retire, Service!vars

\* There is no engine: the intent may be given up.
LEMMA IdleImplements ==
  ASSUME TypeOK, TypeOK', EngineHeard, child = NoChild, child' = NoChild, Lasts(conn, conn')
  PROVE  Implements
<1>1. EngineView = "none" /\ EngineView' = "none" /\ EngineHeard'
  BY DEF EngineView, EngineHeard
<1>2. conn'.intent = conn.intent /\ conn'.desired \in {conn.desired, FALSE}
  BY DEF Lasts, TypeOK, Snapshot
<1>. QED
  BY <1>1, <1>2 DEF Implements, Service!Next, Service!Retire, Service!Retired

\* A new wish retires the engine of the old one.
LEMMA WishImplements ==
  ASSUME TypeOK, TypeOK', EngineHeard, UNCHANGED child, conn'.intent = conn.intent + 1,
         conn'.candidate => conn.candidate /\ conn'.gen = conn.gen
  PROVE  Implements
<1>1. conn.intent \in Nat /\ conn'.desired \in BOOLEAN /\ (child # NoChild => child.intent \in Nat)
  BY DEF TypeOK, Snapshot, Children
<1>2. EngineHeard'
  BY <1>1 DEF EngineHeard
<1>3. EngineView' = Service!Retired(EngineView)
  BY <1>1 DEF EngineView, EngineHeard, Service!Retired, ChildCurrent
<1>. QED  BY <1>1, <1>2, <1>3 DEF Implements, Service!Next, Service!Wish

\* The hypotheses of every step
Premises == TypeOK /\ TypeOK' /\ IInv /\ GInv /\ EngineHeard

LEMMA LaunchedImplements ==
  ASSUME Premises, [Next]_vars, child = NoChild, child' # NoChild
  PROVE  Implements
<1>1. Launches
  BY StepKinds DEF Premises, StepKind, Quiet, Begins, Retires, Marks, Progresses, SameEngine
<1>2. /\ conn.desired /\ child'.intent = conn.intent /\ child'.gen = supGen + 1
      /\ child'.exit = "no" /\ supGen \in Nat /\ conn \in Snapshot /\ conn.intent \in Nat
  BY <1>1 DEF Launches, CanContinue, Premises, TypeOK, Snapshot
<1>3. ~conn'.candidate /\ conn'.intent = conn.intent /\ conn'.desired
  BY <1>1, <1>2 DEF Launches, BindEngineGeneration, InvalidateEngineGeneration, Snapshot
<1>4. EngineHeard'
  BY <1>2, <1>3 DEF EngineHeard, NoGeneration
<1>5. EngineView = "none" /\ EngineView' \in {"starting", "retired"}
  BY <1>3 DEF EngineView
<1>6. UNCHANGED <<conn.intent, conn.desired>>
  BY <1>2, <1>3 DEF Premises, TypeOK, Snapshot
<1>. QED  BY <1>2, <1>4, <1>5, <1>6 DEF Implements, Service!Next, Service!Launch

\* A coroutine goes on without the engine.
LEMMA QuietImplements ==
  ASSUME Premises, UNCHANGED <<supGen, child>>, Keeps(conn, conn')
  PROVE  Implements
BY KeptImplements, UnchangedChild DEF Premises

LEMMA EndImplements ==
  ASSUME Premises, UNCHANGED <<supGen, child>>, NEW i, conn' \in {conn, FailIntent(conn, i)}
  PROVE  Implements
BY QuietImplements, KeepingMethods DEF Premises, TypeOK

LEMMA ConnectLasts ==
  ASSUME NEW c \in Snapshot, NEW t, NEW b \in BOOLEAN, NEW i,
         \/ RefuseConnect(t, c, i) \/ ConnectAfterStop(t, c, b, i)
         \/ ConnectFor(t, c, b, i) \/ BeginAttempt(t, c, b, i)
  PROVE  Lasts(c, conn')
<1>1. conn' \in {c, FailIntent(c, i), BeginConnectAttempt(c, b)}
  BY DEF RefuseConnect, ConnectAfterStop, ConnectFor, BeginAttempt
<1>. QED  BY <1>1, KeepingMethods, LastingMethods DEF Keeps

LEMMA ConnectIdle ==
  ASSUME Premises, child = NoChild, child' = NoChild, NEW c \in Snapshot, Lasts(conn, c),
         NEW t, NEW b \in BOOLEAN, NEW i,
         \/ RefuseConnect(t, c, i) \/ ConnectAfterStop(t, c, b, i)
         \/ ConnectFor(t, c, b, i) \/ BeginAttempt(t, c, b, i)
  PROVE  Implements
BY ConnectLasts, LastsTransitive, IdleImplements DEF Premises

LEMMA ConnectImplements ==
  ASSUME Premises, UNCHANGED <<supGen, child>>, NEW t, NEW b \in BOOLEAN, NEW i,
         ConnectAfterStop(t, conn, b, i) \/ ConnectFor(t, conn, b, i)
  PROVE  Implements
<1>1. conn \in Snapshot /\ Lasts(conn, conn)
  BY KeepingMethods DEF Premises, TypeOK, Keeps
<1>2. CASE child = NoChild
  BY <1>1, <1>2, ConnectIdle
<1>3. CASE child # NoChild
  <2>1. conn' \in {conn, FailIntent(conn, i)}
    BY <1>3 DEF ConnectFor, ConnectAfterStop, RefuseConnect
  <2>. QED  BY <2>1, EndImplements
<1>. QED  BY <1>2, <1>3

LEMMA ConnectNewImplements ==
  ASSUME Premises, UNCHANGED <<supGen, child>>, NEW t, ConnectNew(t)
  PROVE  Implements
<1> DEFINE c == BeginConnectIntent(conn)
<1>0. conn \in Snapshot /\ conn.intent \in Nat
  BY DEF Premises, TypeOK, Snapshot
<1>1. CASE conn' \in {conn, FailIntent(conn, conn.intent)}
  BY <1>1, EndImplements
<1>2. CASE ConnectFor(t, c, FALSE, conn.intent + 1)
  <2>1. /\ c \in Snapshot /\ c.intent = conn.intent + 1
        /\ c.candidate = conn.candidate /\ c.gen = conn.gen
    BY <1>0, IntentType DEF BeginConnectIntent, Snapshot
  <2> HIDE DEF c
  <2>2. Lasts(c, conn')
    BY <1>2, <2>1, ConnectLasts
  <2>. QED  BY <2>1, <2>2, WishImplements DEF Lasts, Premises
<1>. QED  BY <1>1, <1>2 DEF ConnectNew, RefuseConnect

LEMMA StopImplements ==
  ASSUME Premises, UNCHANGED child, NEW b \in BOOLEAN, InitiateStop(b)
  PROVE  Implements
<1>1. conn'.intent = conn.intent + 1 /\ ~conn'.candidate
  BY DEF Premises, TypeOK, Snapshot, InitiateStop, BeginStop, InvalidateEngineGeneration
<1>. QED  BY <1>1, WishImplements DEF Premises

LEMMA ReconnectImplements ==
  ASSUME Premises, NEW t, NEW g, ReconnectFor(t, g) \/ BeginReconnect(t) \/ LeaveReconnect(t)
  PROVE  Implements
<1>1. CASE BeginReconnect(t)
  BY <1>1, StopImplements DEF BeginReconnect
<1>2. CASE UNCHANGED <<supGen, child>> /\ conn' \in {conn, FailIntent(conn, conn.intent)}
  BY <1>2, EndImplements
<1>. QED  BY <1>1, <1>2 DEF ReconnectFor, LeaveReconnect

LEMMA SpawnsChild ==
  ASSUME Premises, NEW t \in Tasks, SpawnSucceeds(t) \/ SpawnUnusable(t)
  PROVE  child = NoChild /\ child' # NoChild
<1>1. task[t].intent \in Nat /\ EngineTypeOK
  BY TypeParts DEF Premises, TypeOK, Coroutines
<1>2. child' \in Children
  BY <1>1, NewChildType DEF SpawnSucceeds, SpawnUnusable
<1>. QED  BY <1>2, ChildAssumption DEF SpawnSucceeds, SpawnUnusable, Spawn

\* A launch that does not launch
LEMMA LaunchImplements ==
  ASSUME Premises, NEW t \in Tasks, Launch(t), child # NoChild \/ child' = NoChild
  PROVE  Implements
<1>0. conn \in Snapshot
  BY DEF Premises, TypeOK
<1>1. CASE StartFails(t)
  BY <1>1, EndImplements DEF StartFails
<1>2. CASE StartRefused(t)
  BY <1>0, <1>2, QuietImplements, KeepingMethods DEF StartRefused
<1>3. CASE SpawnThrows(t)
  <2>1. InvalidateEngineGeneration(conn) \in Snapshot
    BY <1>0, InvalidateType
  <2>2. Keeps(conn, conn')
    BY <1>0, <1>3, <2>1, KeepingMethods, KeepsTransitive DEF SpawnThrows
  <2>. QED  BY <1>3, <2>2, IdleImplements DEF SpawnThrows, Keeps, Premises
<1>. QED  BY <1>1, <1>2, <1>3, SpawnsChild DEF Launch

LEMMA TaskStepImplements ==
  ASSUME Premises, NEW t \in Tasks, TaskStep(t), child # NoChild \/ child' = NoChild
  PROVE  Implements
<1>0. /\ TypeOK /\ GInv /\ conn \in Snapshot /\ Keeps(conn, conn) /\ Lasts(conn, conn)
      /\ task[t].intent \in Nat /\ task[t].retry \in BOOLEAN
  BY KeepingMethods DEF Premises, TypeOK, Coroutines, Keeps
<1>1. CASE ConnectResumes(t)
  BY <1>1, ConnectNewImplements DEF ConnectResumes
<1>2. CASE ConnectAfterStopResumes(t)
  BY <1>0, <1>2, ConnectImplements DEF ConnectAfterStopResumes
<1>3. CASE ConnectAfterAttemptResumes(t)
  BY <1>0, <1>3, EndImplements, ConnectIdle DEF ConnectAfterAttemptResumes, RefuseConnect
<1>4. CASE RefreshCompletes(t) \/ LogResetCompletes(t)
  BY <1>0, <1>4, EndImplements, LaunchImplements
    DEF RefreshCompletes, LogResetCompletes, Abandon, StartFails
<1>5. CASE AttemptChildStopped(t) \/ DisconnectResumes(t)
  BY <1>0, <1>5, QuietImplements, KeepingMethods DEF AttemptChildStopped, DisconnectResumes
<1>6. CASE ReconnectAfterPriorResumes(t)
  BY <1>6, ReconnectImplements DEF ReconnectAfterPriorResumes
<1>7. CASE ReconnectResumes(t)
  <2> DEFINE i == task[t].intent
             c == StopCompleted(conn, i, task[t].result # "failed")
  <2>1. c \in Snapshot /\ Keeps(conn, c)
    BY <1>0, AttemptType, KeepingMethods
  <2>2. FailIntent(c, i) \in Snapshot /\ Keeps(conn, FailIntent(c, i))
    BY <2>1, AttemptType, KeepingMethods, KeepsTransitive
  <2>3. Resume(c) \in Snapshot /\ Lasts(conn, Resume(c))
    BY <2>1, AttemptType, LastingMethods, LastsTransitive DEF Keeps
  <2>4. child # NoChild => task[t].result = "failed"
    BY <1>0, <1>7, StopHadFailed DEF ReconnectResumes, Resumed, AwaitsStop
  <2>5. /\ UNCHANGED <<supGen, child>>
        /\ \/ conn' \in {conn, FailIntent(conn, i), c, FailIntent(c, i)}
           \/ task[t].result = "clean" /\ ConnectFor(t, Resume(c), FALSE, i)
    BY <1>7 DEF ReconnectResumes, RefuseConnect
  <2> HIDE DEF c
  <2>6. CASE conn' \in {conn, FailIntent(conn, i), c, FailIntent(c, i)}
    BY <1>0, <2>1, <2>2, <2>5, <2>6, QuietImplements, KeepingMethods
  <2>7. CASE task[t].result = "clean" /\ ConnectFor(t, Resume(c), FALSE, i)
    BY <2>3, <2>4, <2>5, <2>7, ConnectIdle
  <2>. QED  BY <2>5, <2>6, <2>7
<1>8. CASE RecoverResumes(t)
  <2>1. Resume(conn) \in Snapshot /\ Lasts(conn, Resume(conn))
    BY <1>0, AttemptType, LastingMethods
  <2>2. child # NoChild => task[t].result = "failed"
    BY <1>0, <1>8, StopHadFailed DEF RecoverResumes, Resumed, AwaitsStop
  <2>3. CASE conn' \in {conn, FailIntent(conn, task[t].intent)}
    BY <1>8, <2>3, EndImplements DEF RecoverResumes
  <2>. QED  BY <1>8, <2>1, <2>2, <2>3, ConnectIdle DEF RecoverResumes
<1>. QED  BY <1>1, <1>2, <1>3, <1>4, <1>5, <1>6, <1>7, <1>8 DEF TaskStep

-----------------------------------------------------------------------------
(* The engine *)

LEMMA MarkImplements ==
  ASSUME Premises, UNCHANGED <<conn, supGen>>, SameChild, child' = NoChild => child = NoChild
  PROVE  Implements
BY KeptImplements, KeepingMethods DEF Premises, TypeOK

LEMMA RevokeImplements ==
  ASSUME Premises, UNCHANGED supGen, SameChild, child' = NoChild => child = NoChild, RevokeServing
  PROVE  Implements
<1>1. Keeps(conn, conn')
  BY KeepingMethods DEF RevokeServing, Premises, TypeOK
<1>. QED  BY <1>1, KeptImplements DEF Premises

\* The same engine has at most begun to serve.
Advances(c, d) ==
  /\ d.intent = c.intent /\ d.desired = c.desired /\ d.gen = c.gen
  /\ Counted(d) <=> Counted(c)
  /\ Served(c) => Served(d)
  /\ Served(d) => Served(c) \/ c.desired

LEMMA AdvancesTransitive ==
  ASSUME NEW c, NEW d, NEW e, Advances(c, d), Advances(d, e)
  PROVE  Advances(c, e)
BY DEF Advances

LEMMA AdvancingMethods ==
  ASSUME NEW c \in Snapshot, NEW g, NEW p \in {"authenticating", "preparing-tunnel"}
  PROVE  /\ Advances(c, c)
         /\ Advances(c, MarkEnginePhase(c, g, p))
         /\ Advances(c, RecordCandidate(c, g))
         /\ Advances(c, RecordListenerReady(c, g))
         /\ Advances(c, MarkConnected(c, g)) /\ Lasts(c, MarkConnected(c, g))
<1> USE DEF Advances, Counted, Served, ReadinessPhases, Snapshot, AcceptsEvents
<1>1. Advances(c, c)
  OBVIOUS
<1>2. Advances(c, MarkEnginePhase(c, g, p))
  BY DEF MarkEnginePhase, EnginePhaseAllowed
<1>3. Advances(c, RecordCandidate(c, g))
  BY DEF RecordCandidate
<1>4. Advances(c, RecordListenerReady(c, g))
  BY DEF RecordListenerReady
<1>5. Advances(c, MarkConnected(c, g)) /\ Lasts(c, MarkConnected(c, g))
  BY DEF MarkConnected, ReadyToConnect, Lasts
<1>. QED  BY <1>1, <1>2, <1>3, <1>4, <1>5

LEMMA AdvanceImplements ==
  ASSUME Premises, ChildCurrent, SameChild, child' # NoChild, UNCHANGED supGen,
         Advances(conn, conn'), child.hello \/ Lasts(conn, conn')
  PROVE  Implements
<1>1. EngineHeard'
  <2>1. CASE Lasts(conn, conn')
    BY <2>1, SameChildHeard DEF Premises
  <2>2. CASE child.hello
    BY <2>2 DEF EngineHeard, Premises, SameChild, Advances
  <2>. QED  BY <2>1, <2>2
<1>2. conn'.intent = conn.intent /\ conn'.desired = conn.desired
  BY DEF Advances
<1>3. \/ EngineView' = EngineView
      \/ conn.desired /\ EngineView = "starting" /\ EngineView' = "serving"
  BY DEF EngineView, Advances, Counted, Served, ReadinessPhases, ChildCurrent, SameChild
<1>. QED  BY <1>1, <1>2, <1>3 DEF Implements, Service!Next, Service!Serve, Service!vars

\* What is noted about an engine: its identity stays, hello is not taken back,
\* and a process that could not be started says no hello.
LEMMA NotedChild ==
  ASSUME Premises, child # NoChild, NEW new \in Children, child' = new,
         new.gen = child.gen, new.intent = child.intent, child.hello => new.hello,
         new.exit = "error" => ~new.hello
  PROVE  SameChild /\ child' # NoChild
BY ChildAssumption DEF SameChild

LEMMA EventChild ==
  ASSUME Premises, EngineEvent, child # NoChild
  PROVE  SameChild /\ child' # NoChild
<1>0. child \in Children /\ (child.exit = "error" => ~child.hello) /\ "terminal" \in FailureKinds
  BY DEF Premises, TypeOK, EngineHeard, FailureKinds
<1>1. CASE UNCHANGED child
  BY <1>0, <1>1, NotedChild
<1>2. CASE Hello
  <2> DEFINE new == [child EXCEPT !.hello = TRUE]
  <2>1. /\ new \in Children /\ new.gen = child.gen /\ new.intent = child.intent
        /\ new.hello /\ new.exit = child.exit
    BY <1>0 DEF Children
  <2>2. child' = new /\ child.exit # "error"
    BY <1>2 DEF Hello
  <2> HIDE DEF new
  <2>. QED  BY <2>1, <2>2, NotedChild
<1>3. ASSUME NEW k \in FailureKinds,
             child' \in {[child EXCEPT !.fatal = k], AskToStop([child EXCEPT !.fatal = k])}
      PROVE  SameChild /\ child' # NoChild
  <2> DEFINE c == [child EXCEPT !.fatal = k]
  <2>1. /\ c \in Children /\ c.gen = child.gen /\ c.intent = child.intent
        /\ c.hello = child.hello /\ c.exit = child.exit
    BY <1>0 DEF Children
  <2> HIDE DEF c
  <2>2. /\ AskToStop(c) \in Children /\ AskToStop(c).gen = c.gen /\ AskToStop(c).intent = c.intent
        /\ AskToStop(c).hello = c.hello /\ AskToStop(c).exit = c.exit
    BY <2>1, AskToStopType DEF AskToStop, Children
  <2>3. child' = c \/ child' = AskToStop(c)
    BY <1>3 DEF c
  <2>. QED  BY <1>0, <2>1, <2>2, <2>3, NotedChild
<1>4. CASE HelloTimesOut \/ ListenerMismatch \/ FatalError
  BY <1>0, <1>3, <1>4 DEF HelloTimesOut, ListenerMismatch, FatalError
<1>5. CASE ActivationSettles \/ EngineReady
  <2>1. PICK b \in BOOLEAN : child' \in {child, [child EXCEPT !.activating = b]}
    BY <1>5 DEF ActivationSettles, EngineReady, Promote
  <2> DEFINE new == [child EXCEPT !.activating = b]
  <2>2. /\ new \in Children /\ new.gen = child.gen /\ new.intent = child.intent
        /\ new.hello = child.hello /\ new.exit = child.exit
    BY <1>0 DEF Children
  <2>3. child' = new \/ UNCHANGED child
    BY <2>1
  <2> HIDE DEF new
  <2>. QED  BY <1>0, <1>1, <2>2, <2>3, NotedChild
<1>6. CASE Stopped
  <2> DEFINE new == [child EXCEPT !.stopped = TRUE]
  <2>1. /\ new \in Children /\ new.gen = child.gen /\ new.intent = child.intent
        /\ new.hello = child.hello /\ new.exit = child.exit
    BY <1>0 DEF Children
  <2>2. child' = new
    BY <1>6 DEF Stopped
  <2> HIDE DEF new
  <2>. QED  BY <1>0, <2>1, <2>2, NotedChild
<1>7. CASE ChildExits \/ ChildErrors
  <2>1. PICK e \in {"exited", "error"}, f \in {"terminal", child.fatal} :
          /\ child' = [child EXCEPT !.exit = e, !.fatal = f]
          /\ e = "error" => ~child.hello
    <3>1. ChildExits => child' = [child EXCEPT !.exit = "exited", !.fatal = child.fatal]
      BY <1>0 DEF ChildExits, Children
    <3>. QED  BY <1>7, <3>1 DEF ChildErrors
  <2> DEFINE new == [child EXCEPT !.exit = e, !.fatal = f]
  <2>2. /\ new \in Children /\ new.gen = child.gen /\ new.intent = child.intent
        /\ new.hello = child.hello /\ new.exit = e
    BY <1>0, <2>1 DEF Children
  <2>3. child' = new
    BY <2>1
  <2> HIDE DEF new
  <2>. QED  BY <1>0, <2>1, <2>2, <2>3, NotedChild
<1>. QED
  BY <1>1, <1>2, <1>4, <1>5, <1>6, <1>7 DEF EngineEvent, EnginePhase, OpenBrowser, EngineStopping

LEMMA EngineEventImplements ==
  ASSUME Premises, EngineEvent
  PROVE  Implements
<1>0. /\ UNCHANGED supGen /\ conn \in Snapshot /\ Keeps(conn, conn)
      /\ (child # NoChild => SameChild /\ child' # NoChild /\ child.gen \in Nat)
  BY EventChild, KeepingMethods
    DEF Premises, TypeOK, Children, EngineEvent, KeepCoordinator, Hello, HelloTimesOut, EnginePhase,
        EngineReady, ActivationSettles, OpenBrowser, EngineStopping, ListenerMismatch, FatalError,
        Stopped, ChildExits, ChildErrors
<1>1. CASE Hello \/ Stopped \/ ChildErrors
  BY <1>0, <1>1, MarkImplements DEF Hello, Stopped, ChildErrors, Listening, ChildCurrent
<1>2. CASE HelloTimesOut \/ ListenerMismatch \/ EngineStopping \/ FatalError \/ ChildExits
  BY <1>0, <1>2, RevokeImplements
    DEF HelloTimesOut, ListenerMismatch, EngineStopping, FatalError, ChildExits, Serving,
        Listening, ChildCurrent
<1>3. CASE OpenBrowser
  BY <1>0, <1>3, QuietImplements DEF OpenBrowser
<1>4. CASE EnginePhase
  BY <1>0, <1>4, AdvancingMethods, AdvanceImplements
    DEF EnginePhase, Serving, Listening, ChildCurrent
<1>5. CASE EngineReady
  <2>1. ChildCurrent /\ child # NoChild /\ child.hello
    BY <1>5 DEF EngineReady, Serving, Listening, ChildCurrent
  <2>2. ASSUME NEW c \in Snapshot, Advances(conn, c), Promote(c)
        PROVE  Implements
    <3>1. Advances(conn, conn')
      BY <2>2, AdvancingMethods, AdvancesTransitive DEF Promote
    <3>. QED  BY <1>0, <2>1, <3>1, AdvanceImplements
  <2>3. /\ RecordCandidate(conn, child.gen) \in Snapshot
        /\ RecordListenerReady(conn, child.gen) \in Snapshot
    BY <1>0, <2>1, EngineType
  <2>. QED  BY <1>0, <1>5, <2>2, <2>3, AdvancingMethods DEF EngineReady
<1>6. CASE ActivationSettles
  <2>1. CASE UNCHANGED conn
    <3>1. UNCHANGED child \/ child # NoChild
      BY <1>6 DEF ActivationSettles
    <3>. QED  BY <1>0, <2>1, <3>1, MarkImplements, QuietImplements
  <2>2. CASE ChildCurrent /\ conn' = MarkConnected(conn, child.gen)
    BY <1>0, <2>2, AdvancingMethods, AdvanceImplements DEF ChildCurrent
  <2>. QED  BY <1>6, <2>1, <2>2 DEF ActivationSettles
<1>. QED  BY <1>1, <1>2, <1>3, <1>4, <1>5, <1>6 DEF EngineEvent

\* The engine has been stopped being used before it is released.
LEMMA CloseImplements ==
  ASSUME Premises, ChildCloses
  PROVE  Implements
<1>0. conn \in Snapshot /\ child \in Children /\ child # NoChild /\ child' = NoChild
  BY DEF Premises, TypeOK, ChildCloses
<1>1. EngineView \in {"starting", "retired"} /\ EngineView' = "none"
  <2>1. child.exit \in {"exited", "error"}
    BY <1>0 DEF ChildCloses, Children
  <2>2. EngineView # "serving"
    BY <1>0, <2>1 DEF Premises, EngineHeard, EngineView, IInv, EngineBound, Bound, BoundPhases,
                      ReadinessPhases, Named
  <2>. QED  BY <1>0, <2>2 DEF EngineView
<1>2. Lasts(conn, conn')
  <2>1. CloseKinds \subseteq FailureKinds
    BY <1>0 DEF CloseKinds, Children, FailureKinds
  <2>2. Lasts(conn, conn)
    BY DEF Lasts
  <2>. QED  BY <1>0, <2>1, <2>2, ClosedLasts DEF ChildCloses, CloseHandled
<1>3. conn'.intent = conn.intent /\ conn'.desired \in {conn.desired, FALSE}
  BY <1>2 DEF Lasts, Premises, TypeOK, Snapshot
<1>. QED  BY <1>0, <1>1, <1>3 DEF Implements, EngineHeard, Service!Next, Service!Release

LEMMA StopFlightImplements ==
  ASSUME Premises, BrowserSuspended \/ StopTimesOut
  PROVE  Implements
<1>1. CASE UNCHANGED child
  BY <1>1, QuietImplements, KeepingMethods DEF BrowserSuspended, StopTimesOut, Premises, TypeOK
<1>2. ASSUME child # NoChild, NEW new, new \in {AskToStop(child), [child EXCEPT !.stop = "failed"]},
             child' = new, UNCHANGED <<conn, supGen>>
      PROVE  Implements
  <2>0. child \in Children /\ (child.exit = "error" => ~child.hello)
    BY <1>2 DEF Premises, TypeOK, EngineHeard
  <2>1. /\ new \in Children /\ new.gen = child.gen /\ new.intent = child.intent
        /\ new.hello = child.hello /\ new.exit = child.exit
    BY <1>2, <2>0 DEF AskToStop, Children
  <2>2. SameChild /\ child' # NoChild
    BY <1>2, <2>0, <2>1, NotedChild
  <2>. QED  BY <1>2, <2>2, MarkImplements
<1>. QED  BY <1>1, <1>2 DEF BrowserSuspended, StopTimesOut

-----------------------------------------------------------------------------
(* The refinement *)

LEMMA StepImplements ==
  ASSUME Premises, [Next]_vars
  PROVE  Implements
<1>0. conn \in Snapshot /\ Keeps(conn, conn)
  BY KeepingMethods DEF Premises, TypeOK
<1>1. CASE child = NoChild /\ child' # NoChild
  BY <1>1, LaunchedImplements
<1>2. CASE UNCHANGED <<conn, supGen, child>>
  BY <1>0, <1>2, QuietImplements
<1>3. ASSUME NEW t \in Tasks,
             \/ UserConnect(t) \/ UserDisconnect(t) \/ UserReconnect(t)
             \/ HealthRecovery(t) \/ Quit(t)
      PROVE  Implements
  BY <1>2, <1>3, ConnectNewImplements, StopImplements, ReconnectImplements
    DEF UserConnect, UserDisconnect, UserReconnect, HealthRecovery, Quit
<1>4. ASSUME NEW t \in Tasks, RetryTimerFires(t) \/ RecoveryTimerFires(t)
      PROVE  Implements
  <2>1. CASE RetryTimerFires(t)
    BY <2>1, ConnectImplements DEF RetryTimerFires
  <2>2. CASE RecoveryTimerFires(t)
    <3>1. /\ UNCHANGED <<supGen, child>>
          /\ conn' \in {conn, FailIntent(conn, rec.pending)}
      BY <2>2 DEF RecoveryTimerFires
    <3>. QED  BY <3>1, EndImplements
  <2>. QED  BY <1>4, <2>1, <2>2
<1>5. CASE GoesUnavailable
  <2>1. conn' = PauseForConnectivity(conn) => Keeps(conn, conn') /\ ~Counted(conn')
    BY <1>0, KeepingMethods
      DEF Counted, ReadinessPhases, PauseForConnectivity, InvalidateEngineGeneration, Snapshot
  <2>2. UNCHANGED child /\ SameChild
    BY <1>5, UnchangedChild DEF GoesUnavailable, Premises
  <2>. QED
    BY <1>2, <1>5, <2>1, <2>2, KeptImplements DEF GoesUnavailable, MarkUnavailable, Premises
<1>6. CASE EngineEvent
  BY <1>6, EngineEventImplements
<1>. QED
  BY <1>1, <1>2, <1>3, <1>4, <1>5, <1>6, TaskStepImplements, StopFlightImplements, CloseImplements
    DEF Next, Disturbance, Reaction, EngineEvent, ComesBack, vars

\* The connection core implements EngineService: one engine at a time, launched
\* for a wish that stands, serving only after its start, retired with its wish
\* and before its release (ConnectionOperationCoordinator, EngineSupervisor and
\* the generation checks of ConnectionStateMachine).
THEOREM ServiceImplemented == Spec => ImplementsEngineService
<1>1. Init => Service!Init /\ EngineHeard
  BY DEF Init, InitialSnapshot, Service!Init, EngineView, EngineHeard
<1>2. Premises /\ [Next]_vars => [Service!Next]_(Service!vars) /\ EngineHeard'
  BY StepImplements DEF Implements
<1>3. Spec => [](TypeOK /\ IInv /\ GInv)
  BY IInvCorrect, GInvCorrect, PTL
<1>4. TypeOK /\ TypeOK' /\ IInv /\ GInv /\ EngineHeard /\ [Next]_vars
        => [Service!Next]_(Service!vars) /\ EngineHeard'
  BY <1>2 DEF Premises
<1>5. Spec => []EngineHeard
  BY <1>1, <1>3, <1>4, PTL DEF Spec
<1>6. Spec => Service!Init /\ [][Service!Next]_(Service!vars)
  BY <1>1, <1>3, <1>4, <1>5, PTL DEF Spec
<1>. QED  BY <1>6 DEF ImplementsEngineService, Service!Spec
=============================================================================
