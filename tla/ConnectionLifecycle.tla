------------------------ MODULE ConnectionLifecycle -------------------------
(***************************************************************************)
(* The desktop connection: ConnectionOperationCoordinator drives           *)
(* ConnectionStateMachine, the EngineSupervisor and its child, the serving *)
(* and termination coordinators, ConnectivityRecovery and the Browser gate *)
(* in one JavaScript thread.                                               *)
(*                                                                         *)
(* An action is one synchronous run: from a command, timer, OS event or    *)
(* child event, or from the resolution of an awaited promise, up to the    *)
(* next await.  Every coroutine of the coordinator is a task; a task whose *)
(* promise has resolved runs before the next command or event, because the *)
(* microtask queue drains first (MicrotasksDrained).                       *)
(***************************************************************************)
EXTENDS ConnectionStateMachine

CONSTANTS
  Tasks,        \* coroutines of the coordinator that can be pending at once
  NoTask,       \* the absent task
  NoChild       \* EngineSupervisor.active === null

ASSUME TasksAssumption == NoTask \notin Tasks

VARIABLES
  conn,            \* the ConnectionStateMachine snapshot
  supGen,          \* EngineSupervisor.generation
  child,           \* EngineSupervisor.active, with its runtime and serving state
  timer,           \* the retry timer in EngineSupervisor.scheduled, or NoTimer
  task,            \* the pending coroutines
  connectFlight,   \* connectInFlight: the task whose attempt it is
  reconnectFlight, \* reconnectInFlight: its task and its intent
  stopFlight,      \* disconnectInFlight, by the await it has reached
  rec,             \* ConnectivityRecovery
  gate,            \* the Campus Browser's request gate
  app              \* DesktopShell.isQuitting, and the end of the process

vars == <<conn, supGen, child, timer, task, connectFlight, reconnectFlight,
          stopFlight, rec, gate, app>>

NoTimer == [gen |-> NoGeneration, intent |-> 0]

NoReconnect == [task |-> NoTask, intent |-> 0]

IdleTask == [pc |-> "idle", intent |-> 0, retry |-> FALSE, gen |-> NoGeneration,
             on |-> NoTask, result |-> "none"]

\* Where a task waits for the stop flight, and where for another task.
AwaitsStop == {"connect:stop", "connect:stop-again", "disconnect:stop",
               "quit:stop", "reconnect:stop", "recover:stop"}
AwaitsTask == {"connect:attempt", "reconnect:prior"}
AttemptSteps == {"attempt:refresh", "attempt:log", "attempt:child"}

StopResults == {"clean", "unclean", "failed"}

Coroutines ==
  [pc : {"idle"} \cup AwaitsStop \cup AwaitsTask \cup AttemptSteps,
   intent : Nat, retry : BOOLEAN, gen : Nat, on : Tasks \cup {NoTask},
   result : {"none", "pending", "done"} \cup StopResults]

Outages == [suspended : BOOLEAN, offline : BOOLEAN, pending : Nat, timer : BOOLEAN]

Children ==
  [gen : Nat, intent : Nat, runtime : BOOLEAN, hello : BOOLEAN,
   stopped : BOOLEAN, exit : {"no", "exited", "error"},
   fatal : FailureKinds \cup {"none"}, stop : {"no", "pending", "failed"},
   activating : BOOLEAN]

ASSUME ChildAssumption == NoChild \notin Children

TypeOK ==
  /\ conn \in Snapshot
  /\ supGen \in Nat
  /\ child \in Children \cup {NoChild}
  /\ timer \in [gen : Nat, intent : Nat]
  /\ task \in [Tasks -> Coroutines]
  /\ connectFlight \in Tasks \cup {NoTask}
  /\ reconnectFlight \in [task : Tasks \cup {NoTask}, intent : Nat]
  /\ stopFlight \in {"none", "browser", "engine"}
  /\ rec \in Outages
  /\ gate \in {"absent", "open", "suspended", "activating"}
  /\ app \in {"running", "quitting", "gone"}

Init ==
  /\ conn = InitialSnapshot
  /\ supGen = 0
  /\ child = NoChild
  /\ timer = NoTimer
  /\ task = [t \in Tasks |-> IdleTask]
  /\ connectFlight = NoTask
  /\ reconnectFlight = NoReconnect
  /\ stopFlight = "none"
  /\ rec = [suspended |-> FALSE, offline |-> FALSE, pending |-> 0, timer |-> FALSE]
  /\ gate = "absent"
  /\ app = "running"

-----------------------------------------------------------------------------
(* Tasks *)

Ready(t) == task[t].result \in {"done"} \cup StopResults

\* A command, a timer, an OS event or a child event can run.
MicrotasksDrained == app # "gone" /\ \A t \in Tasks : ~Ready(t)

Resumed(t, pc) == Ready(t) /\ task[t].pc = pc

Free(t) == task[t].pc = "idle"

Become(t, new) == task' = [task EXCEPT ![t] = new]

AwaitStop(t, pc, i, isRetry) ==
  Become(t, [IdleTask EXCEPT !.pc = pc, !.intent = i, !.retry = isRetry,
                             !.result = "pending"])

\* Mutant: the tasks that await this one are not resumed.
FinishSilently(t) ==
  /\ task' = [task EXCEPT ![t] = IdleTask]
  /\ connectFlight' = IF connectFlight = t THEN NoTask ELSE connectFlight
  /\ reconnectFlight' =
       IF reconnectFlight.task = t THEN NoReconnect ELSE reconnectFlight

\* The coroutine returns: its flights are cleared, the tasks that await it resume.
Finish(t) ==
  /\ task' = [u \in Tasks |->
                IF u = t THEN IdleTask
                ELSE IF task[u].on = t THEN [task[u] EXCEPT !.result = "done"]
                ELSE task[u]]
  /\ connectFlight' = IF connectFlight = t THEN NoTask ELSE connectFlight
  /\ reconnectFlight' =
       IF reconnectFlight.task = t THEN NoReconnect ELSE reconnectFlight

KeepFlights == UNCHANGED <<connectFlight, reconnectFlight>>

\* Mutant: the attempt that awaits the stop of its own child is forgotten.
DeliverToFlightOnly(result, flightToo) ==
  [u \in Tasks |->
     IF task[u].result = "pending" /\ flightToo /\ task[u].pc \in AwaitsStop
     THEN [task[u] EXCEPT !.result = result] ELSE task[u]]

\* Mutant: nobody is told of a stop that has failed.
DeliverUnlessFailed(result, flightToo) ==
  [u \in Tasks |->
     IF task[u].result = "pending" /\ result # "failed" /\
        ((flightToo /\ task[u].pc \in AwaitsStop) \/ task[u].pc = "attempt:child")
     THEN [task[u] EXCEPT !.result = result] ELSE task[u]]

\* The promise of the stop flight resolves for every task that awaits it, and
\* the promise of the child's stop for the attempt that started that child.
Deliver(result, flightToo) ==
  [u \in Tasks |->
     IF task[u].result = "pending" /\
        (\/ flightToo /\ task[u].pc \in AwaitsStop
         \/ task[u].pc = "attempt:child")
     THEN [task[u] EXCEPT !.result = result] ELSE task[u]]

-----------------------------------------------------------------------------
(* Shared effects *)

QuitRejects == app # "running"

\* Mutant: an activation is superseded, but an open gate is left open.
SuspendedActivationOnly(g) == IF g = "activating" THEN "suspended" ELSE g

\* suspendBrowser: closes the gate and supersedes an activation in progress.
Suspended(g) == IF g = "absent" THEN g ELSE "suspended"

\* EngineSupervisor.invalidate
Invalidate == supGen' = supGen + 1 /\ timer' = NoTimer

NothingPending == [rec EXCEPT !.pending = 0, !.timer = FALSE]

\* ensureEngineStopped: joins the flight in progress or begins one.
EnsureStopped ==
  IF stopFlight = "none"
  THEN stopFlight' = "browser" /\ gate' = Suspended(gate)
  ELSE UNCHANGED <<stopFlight, gate>>

\* initiateStop
InitiateStop(wantsConnected) ==
  /\ rec' = NothingPending
  /\ conn' = BeginStop(conn, wantsConnected)
  /\ Invalidate
  /\ EnsureStopped

\* isCurrentEngineContext for the child's generation and token
ChildCurrent ==
  child # NoChild /\ child.gen = supGen /\ child.intent = conn.intent

-----------------------------------------------------------------------------
(* connect *)

\* run(), up to the wait for the network environment
BeginAttempt(t, c, isRetry, i) ==
  /\ conn' = BeginConnectAttempt(c, isRetry)
  /\ connectFlight' = t
  /\ Become(t, [IdleTask EXCEPT !.pc = "attempt:refresh", !.intent = i,
                                !.retry = isRetry])
  /\ UNCHANGED reconnectFlight

\* The checks connect repeats after each await, for snapshot c and intent i
Refused(c, i) == QuitRejects \/ ~CanContinue(c, i)

RefuseConnect(t, c, i) ==
  /\ Refused(c, i)
  /\ conn' = IF QuitRejects THEN FailIntent(c, i) ELSE c
  /\ Finish(t)

\* connect from the point where the stop flight has been awaited
ConnectAfterStop(t, c, isRetry, i) ==
  \/ RefuseConnect(t, c, i)
  \/ /\ ~Refused(c, i)
     /\ child # NoChild
     /\ conn' = c
     /\ Finish(t)
  \/ /\ ~Refused(c, i)
     /\ child = NoChild
     /\ connectFlight # NoTask
     /\ conn' = c
     /\ Become(t, [IdleTask EXCEPT !.pc = "connect:attempt", !.intent = i,
                     !.retry = isRetry, !.on = connectFlight, !.result = "pending"])
     /\ KeepFlights
  \/ /\ ~Refused(c, i)
     /\ child = NoChild
     /\ connectFlight = NoTask
     /\ BeginAttempt(t, c, isRetry, i)

\* connect(isRetry, i) with an intent
ConnectFor(t, c, isRetry, i) ==
  \/ RefuseConnect(t, c, i)
  \/ /\ ~Refused(c, i)
     /\ stopFlight # "none"
     /\ conn' = c
     /\ AwaitStop(t, "connect:stop-again", i, isRetry)
     /\ KeepFlights
  \/ stopFlight = "none" /\ ~Refused(c, i) /\ ConnectAfterStop(t, c, isRetry, i)

\* connect() without an intent, once the stop flight has been awaited:
\* a connection already desired is joined, another one begins its intent.
ConnectNew(t) ==
  \/ /\ QuitRejects
     /\ RefuseConnect(t, conn, conn.intent)
     /\ UNCHANGED rec
  \/ /\ ~QuitRejects
     /\ conn.desired
     /\ Finish(t)
     /\ UNCHANGED <<conn, rec>>
  \/ /\ ~QuitRejects
     /\ ~conn.desired
     /\ rec' = NothingPending
     /\ ConnectFor(t, BeginConnectIntent(conn), FALSE, conn.intent + 1)

UserConnect(t) ==
  /\ MicrotasksDrained
  /\ Free(t)
  /\ \/ (stopFlight = "none" \/ QuitRejects) /\ ConnectNew(t)
     \/ /\ stopFlight # "none"
        /\ ~QuitRejects
        /\ AwaitStop(t, "connect:stop", 0, FALSE)
        /\ UNCHANGED <<conn, rec, connectFlight, reconnectFlight>>
  /\ UNCHANGED <<supGen, child, timer, stopFlight, gate, app>>

ConnectResumes(t) ==
  /\ Resumed(t, "connect:stop")
  /\ ConnectNew(t)
  /\ UNCHANGED <<supGen, child, timer, stopFlight, gate, app>>

ConnectAfterStopResumes(t) ==
  /\ Resumed(t, "connect:stop-again")
  /\ ConnectAfterStop(t, conn, task[t].retry, task[t].intent)
  /\ UNCHANGED <<supGen, child, timer, stopFlight, rec, gate, app>>

\* The attempt this task queued behind has returned.
ConnectAfterAttemptResumes(t) ==
  /\ Resumed(t, "connect:attempt")
  /\ \/ RefuseConnect(t, conn, task[t].intent)
     \/ /\ ~Refused(conn, task[t].intent)
        /\ child # NoChild
        /\ Finish(t)
        /\ UNCHANGED conn
     \/ /\ ~Refused(conn, task[t].intent)
        /\ child = NoChild
        /\ BeginAttempt(t, conn, task[t].retry, task[t].intent)
  /\ UNCHANGED <<supGen, child, timer, stopFlight, rec, gate, app>>

\* The callback of EngineSupervisor.schedule: connect(true, intent)
RetryTimerFires(t) ==
  /\ MicrotasksDrained
  /\ Free(t)
  /\ timer # NoTimer
  /\ timer.gen = supGen
  /\ timer' = NoTimer
  /\ ConnectFor(t, conn, TRUE, timer.intent)
  /\ UNCHANGED <<supGen, child, stopFlight, rec, gate, app>>

-----------------------------------------------------------------------------
(* EngineAttemptCoordinator.run *)

\* failConnectionStart and the other ways a start ends before the spawn:
\* profile, settings, credential, underlay, executable, proxy credential,
\* orphan cleanup.
StartFails(t) ==
  /\ conn' = FailIntent(conn, task[t].intent)
  /\ Finish(t)
  /\ UNCHANGED <<supGen, child, timer>>

\* start() refuses because a child is active; the generation mirror has been
\* invalidated just before.
StartRefused(t) ==
  /\ child # NoChild
  /\ conn' = InvalidateEngineGeneration(conn)
  /\ Finish(t)
  /\ UNCHANGED <<supGen, child, timer>>

SpawnThrows(t) ==
  /\ child = NoChild
  /\ Invalidate
  /\ conn' = FailIntent(InvalidateEngineGeneration(conn), task[t].intent)
  /\ Finish(t)
  /\ UNCHANGED child

NewChild(i) ==
  [gen |-> supGen + 1, intent |-> i, runtime |-> TRUE, hello |-> FALSE,
   stopped |-> FALSE, exit |-> "no", fatal |-> "none", stop |-> "no",
   activating |-> FALSE]

Spawn == child = NoChild /\ Invalidate /\ conn' = BindEngineGeneration(conn, supGen + 1)

SpawnSucceeds(t) ==
  /\ Spawn
  /\ child' = NewChild(task[t].intent)
  /\ Finish(t)

\* The proxy credential or the owner record cannot be bound: the child is
\* stopped before its runtime exists.
SpawnUnusable(t) ==
  /\ Spawn
  /\ \E fatal \in {"terminal", "none"} :
       child' = [NewChild(task[t].intent) EXCEPT !.runtime = FALSE,
                   !.stop = "pending", !.fatal = fatal]
  /\ Become(t, [task[t] EXCEPT !.pc = "attempt:child", !.result = "pending"])
  /\ KeepFlights

Launch(t) == StartFails(t) \/ StartRefused(t) \/ SpawnThrows(t)
               \/ SpawnSucceeds(t) \/ SpawnUnusable(t)

\* The attempt is stale: {ok: false, stale: true}
Abandon(t) == Finish(t) /\ UNCHANGED <<conn, supGen, child, timer>>

RefreshCompletes(t) ==
  /\ MicrotasksDrained
  /\ task[t].pc = "attempt:refresh"
  /\ \/ ~CanAttempt(conn, task[t].intent) /\ Abandon(t)
     \/ CanContinue(conn, task[t].intent) /\ StartFails(t)
     \/ /\ CanAttempt(conn, task[t].intent)
        /\ ~task[t].retry
        /\ Become(t, [task[t] EXCEPT !.pc = "attempt:log"])
        /\ UNCHANGED <<conn, supGen, child, timer, connectFlight, reconnectFlight>>
     \/ CanAttempt(conn, task[t].intent) /\ task[t].retry /\ Launch(t)
  /\ UNCHANGED <<stopFlight, rec, gate, app>>

LogResetCompletes(t) ==
  /\ MicrotasksDrained
  /\ task[t].pc = "attempt:log"
  /\ \/ ~CanAttempt(conn, task[t].intent) /\ Abandon(t)
     \/ CanAttempt(conn, task[t].intent) /\ Launch(t)
  /\ UNCHANGED <<stopFlight, rec, gate, app>>

\* The child that could not be used has been stopped, or could not be.
AttemptChildStopped(t) ==
  /\ Resumed(t, "attempt:child")
  /\ Finish(t)
  /\ UNCHANGED <<conn, supGen, child, timer, stopFlight, rec, gate, app>>

-----------------------------------------------------------------------------
(* disconnect, reconnect, quit *)

UserDisconnect(t) ==
  /\ MicrotasksDrained
  /\ Free(t)
  /\ InitiateStop(FALSE)
  /\ AwaitStop(t, "disconnect:stop", conn.intent + 1, FALSE)
  /\ UNCHANGED <<child, connectFlight, reconnectFlight, app>>

\* DesktopShell.requestQuit: recovery is disposed, then disconnect()
Quit(t) ==
  /\ MicrotasksDrained
  /\ Free(t)
  /\ app = "running"
  /\ app' = "quitting"
  /\ InitiateStop(FALSE)
  /\ AwaitStop(t, "quit:stop", conn.intent + 1, FALSE)
  /\ UNCHANGED <<child, connectFlight, reconnectFlight>>

DisconnectResumes(t) ==
  /\ \/ Resumed(t, "disconnect:stop") /\ UNCHANGED app
     \/ Resumed(t, "quit:stop") /\ app' = "gone"
  /\ conn' = StopCompleted(conn, task[t].intent, task[t].result # "failed")
  /\ Finish(t)
  /\ UNCHANGED <<supGen, child, timer, stopFlight, rec, gate>>

StaleGeneration(g) == g # NoGeneration /\ g # supGen

\* reconnect past its admission: the shared operation begins with the stop
BeginReconnect(t) ==
  /\ InitiateStop(TRUE)
  /\ AwaitStop(t, "reconnect:stop", conn.intent + 1, FALSE)
  /\ reconnectFlight' = [task |-> t, intent |-> conn.intent + 1]
  /\ UNCHANGED <<child, connectFlight, app>>

\* reconnect is refused, or joins the operation of the current intent
LeaveReconnect(t) ==
  /\ conn' = IF QuitRejects THEN FailIntent(conn, conn.intent) ELSE conn
  /\ Finish(t)
  /\ UNCHANGED <<supGen, child, timer, stopFlight, rec, gate, app>>

ReconnectFor(t, g) ==
  LET refused == QuitRejects \/ StaleGeneration(g)
      running == reconnectFlight # NoReconnect
      shared  == reconnectFlight.intent = conn.intent /\ conn.desired
  IN  \/ (refused \/ (running /\ shared)) /\ LeaveReconnect(t)
      \/ /\ ~refused
         /\ running
         /\ ~shared
         /\ Become(t, [IdleTask EXCEPT !.pc = "reconnect:prior", !.gen = g,
                         !.on = reconnectFlight.task, !.result = "pending"])
         /\ UNCHANGED <<conn, supGen, child, timer, connectFlight, reconnectFlight,
                        stopFlight, rec, gate, app>>
      \/ ~refused /\ ~running /\ BeginReconnect(t)

UserReconnect(t) == MicrotasksDrained /\ Free(t) /\ ReconnectFor(t, NoGeneration)

\* ConnectionTelemetryCoordinator.checkHealth has seen FAILURES_BEFORE_RECOVERY
\* failed rounds of the generation it probes.
HealthRecovery(t) ==
  /\ MicrotasksDrained
  /\ Free(t)
  /\ conn.phase = "connected"
  /\ ChildCurrent
  /\ ReconnectFor(t, child.gen)

ReconnectAfterPriorResumes(t) ==
  /\ Resumed(t, "reconnect:prior")
  /\ \/ (QuitRejects \/ StaleGeneration(task[t].gen)) /\ LeaveReconnect(t)
     \/ ~QuitRejects /\ ~StaleGeneration(task[t].gen) /\ BeginReconnect(t)

\* The stop a reconnect asked for is over: only a clean one is followed by a
\* connection.
ReconnectResumes(t) ==
  LET i     == task[t].intent
      clean == task[t].result = "clean"
      c     == StopCompleted(conn, i, task[t].result # "failed")
  IN  /\ Resumed(t, "reconnect:stop")
      /\ \/ QuitRejects /\ RefuseConnect(t, conn, i)
         \/ ~QuitRejects /\ ~clean /\ conn' = FailIntent(c, i) /\ Finish(t)
         \/ ~QuitRejects /\ clean /\ ~CanContinue(c, i) /\ conn' = c /\ Finish(t)
         \/ ~QuitRejects /\ clean /\ CanContinue(c, i)
            /\ ConnectFor(t, Resume(c), FALSE, i)
      /\ UNCHANGED <<supGen, child, timer, stopFlight, rec, gate, app>>

-----------------------------------------------------------------------------
(* ConnectivityRecovery and its callbacks *)

\* currentRecoveryIntent, 0 for null
RecoveryIntent == IF conn.desired /\ app = "running" THEN conn.intent ELSE 0

\* markUnavailable for the event that makes the physical flags r
MarkUnavailable(r) ==
  LET i == RecoveryIntent
  IN  \/ /\ i = 0
         /\ rec' = r
         /\ UNCHANGED <<conn, supGen, timer, stopFlight, gate>>
      \/ /\ i # 0
         /\ rec.pending = i
         /\ rec' = [r EXCEPT !.timer = FALSE]
         /\ UNCHANGED <<conn, supGen, timer, stopFlight, gate>>
      \/ /\ i # 0
         /\ rec.pending # i
         /\ rec' = [r EXCEPT !.pending = i, !.timer = FALSE]
         /\ conn' = PauseForConnectivity(conn)
         /\ Invalidate
         /\ EnsureStopped

GoesUnavailable ==
  /\ MicrotasksDrained
  /\ app = "running"
  /\ \/ MarkUnavailable([rec EXCEPT !.suspended = TRUE])
     \/ MarkUnavailable([rec EXCEPT !.offline = TRUE])
  /\ UNCHANGED <<child, task, connectFlight, reconnectFlight, app>>

\* Mutant: the end of one of two outages drops the pending recovery.
ScheduledOrForgotten(r) ==
  IF r.pending = 0 THEN r
  ELSE IF r.suspended \/ r.offline \/ r.pending # RecoveryIntent
       THEN [r EXCEPT !.pending = 0, !.timer = FALSE]
       ELSE [r EXCEPT !.timer = TRUE]

\* scheduleIfReady after the event that makes the physical flags r
Scheduled(r) ==
  IF r.pending = 0 \/ r.suspended \/ r.offline THEN r
  ELSE IF r.pending # RecoveryIntent
       THEN [r EXCEPT !.pending = 0, !.timer = FALSE]
       ELSE [r EXCEPT !.timer = TRUE]

ComesBack ==
  /\ MicrotasksDrained
  /\ app = "running"
  /\ \/ rec' = Scheduled([rec EXCEPT !.suspended = FALSE])
     \/ rec' = Scheduled([rec EXCEPT !.offline = FALSE])
  /\ UNCHANGED <<conn, supGen, child, timer, task, connectFlight, reconnectFlight,
                 stopFlight, gate, app>>

\* attemptRecovery: a pending outage is consumed before the recovery starts.
\* autoReconnect = FALSE stands for a setting that is off or cannot be read.
RecoveryTimerFires(t) ==
  /\ MicrotasksDrained
  /\ Free(t)
  /\ rec.timer
  /\ rec' = NothingPending
  /\ \E autoReconnect \in BOOLEAN :
       \/ /\ rec.pending # RecoveryIntent
          /\ UNCHANGED <<conn, task, stopFlight, gate>>
       \/ /\ rec.pending = RecoveryIntent
          /\ ~autoReconnect
          /\ conn' = FailIntent(conn, rec.pending)
          /\ UNCHANGED <<task, stopFlight, gate>>
       \/ /\ rec.pending = RecoveryIntent
          /\ autoReconnect
          /\ EnsureStopped
          /\ AwaitStop(t, "recover:stop", rec.pending, FALSE)
          /\ UNCHANGED conn
  /\ UNCHANGED <<supGen, child, timer, connectFlight, reconnectFlight, app>>

\* recoverConnectivity after the stop: local closure is enough to reconnect.
RecoverResumes(t) ==
  LET i  == task[t].intent
      ok == task[t].result # "failed"
  IN  /\ Resumed(t, "recover:stop")
      /\ \/ ~ok /\ conn' = FailIntent(conn, i) /\ Finish(t)
         \/ ok /\ Refused(conn, i) /\ Finish(t) /\ UNCHANGED conn
         \/ ok /\ ~Refused(conn, i) /\ ConnectFor(t, Resume(conn), FALSE, i)
      /\ UNCHANGED <<supGen, child, timer, stopFlight, rec, gate, app>>

-----------------------------------------------------------------------------
(* The stop flight and EngineSupervisor.stop *)

\* Mutant: a process that has exited is taken for one that has closed.
AskToStopUnlessExited(c) ==
  IF c.stop = "no" /\ c.exit = "no" THEN [c EXCEPT !.stop = "pending"] ELSE c

AskToStop(c) == IF c.stop = "no" THEN [c EXCEPT !.stop = "pending"] ELSE c

\* Mutant: the settled flight is kept.
SettleStopKeepsFlight(result) == task' = Deliver(result, TRUE) /\ UNCHANGED stopFlight

SettleStop(result) == stopFlight' = "none" /\ task' = Deliver(result, TRUE)

\* The Browser has been suspended: the child, if any, is asked to stop; a
\* child whose stop has already failed answers with that failure.
BrowserSuspended ==
  /\ MicrotasksDrained
  /\ stopFlight = "browser"
  /\ \/ /\ child = NoChild
        /\ SettleStop("clean")
        /\ UNCHANGED child
     \/ /\ child # NoChild
        /\ child.stop = "failed"
        /\ SettleStop("failed")
        /\ UNCHANGED child
     \/ /\ child # NoChild
        /\ child.stop # "failed"
        /\ child' = AskToStop(child)
        /\ stopFlight' = "engine"
        /\ UNCHANGED task
  /\ UNCHANGED <<conn, supGen, timer, connectFlight, reconnectFlight, rec, gate, app>>

\* Control request, signal and SIGKILL have all run out of time.
StopTimesOut ==
  /\ MicrotasksDrained
  /\ child # NoChild
  /\ child.stop = "pending"
  /\ child' = [child EXCEPT !.stop = "failed"]
  /\ stopFlight' = IF stopFlight = "engine" THEN "none" ELSE stopFlight
  /\ task' = Deliver("failed", stopFlight = "engine")
  /\ UNCHANGED <<conn, supGen, timer, connectFlight, reconnectFlight, rec, gate, app>>

-----------------------------------------------------------------------------
(* The child: EngineConnectionRuntime, EngineServingCoordinator and         *)
(* EngineTerminationCoordinator                                             *)

\* Mutant: revokeServing without the check of the current engine context.
RevokeServingAnyway ==
  /\ conn' = MarkEngineStopping(conn, FALSE)
  /\ gate' = Suspended(gate)

\* revokeServing for the snapshot that is current
RevokeServing ==
  IF ChildCurrent /\ conn.gen = child.gen
  THEN /\ \E stableNow \in BOOLEAN : conn' = MarkEngineStopping(conn, stableNow)
       /\ gate' = Suspended(gate)
  ELSE UNCHANGED <<conn, gate>>

KeepCoordinator ==
  UNCHANGED <<supGen, timer, task, connectFlight, reconnectFlight, stopFlight, rec, app>>

\* The runtime feeds stdout to the protocol session of a current child only.
Listening ==
  /\ MicrotasksDrained
  /\ ChildCurrent
  /\ child.runtime
  /\ ~child.stopped

\* An event that can still change the connection: after hello and before exit.
Serving == Listening /\ child.hello /\ child.exit # "exited"

Hello ==
  /\ Listening
  /\ ~child.hello
  /\ child.exit # "error"
  /\ child' = [child EXCEPT !.hello = TRUE]
  /\ UNCHANGED <<conn, gate>>
  /\ KeepCoordinator

\* No hello within ENGINE_HELLO_TIMEOUT_MS: EVENT_OUTPUT_FAILED, stop the child
HelloTimesOut ==
  /\ MicrotasksDrained
  /\ ChildCurrent
  /\ child.runtime
  /\ ~child.hello
  /\ child.exit # "exited"
  /\ RevokeServing
  /\ child' = AskToStop([child EXCEPT !.fatal = "terminal"])
  /\ KeepCoordinator

\* state_changed and, for preparing-tunnel, client_ip_assigned
EnginePhase ==
  /\ Serving
  /\ \E next \in {"authenticating", "preparing-tunnel"} :
       conn' = MarkEnginePhase(conn, child.gen, next)
  /\ UNCHANGED <<child, gate>>
  /\ KeepCoordinator

\* markConnected of the serving coordinator, after the snapshot became c
Promote(c) ==
  \/ /\ ~ReadyToConnect(c, child.gen) \/ (gate \in {"suspended", "activating"} /\ child.activating)
     /\ conn' = c
     /\ UNCHANGED <<child, gate>>
  \/ /\ ReadyToConnect(c, child.gen)
     /\ gate \notin {"suspended", "activating"}
     /\ conn' = MarkConnected(c, child.gen)
     /\ UNCHANGED <<child, gate>>
  \/ /\ ReadyToConnect(c, child.gen)
     /\ gate \in {"suspended", "activating"}
     /\ ~child.activating
     /\ conn' = c
     /\ child' = [child EXCEPT !.activating = TRUE]
     /\ gate' = "activating"

\* state_changed: connected, and listener_ready on the expected port
EngineReady ==
  /\ Serving
  /\ \/ Promote(RecordCandidate(conn, child.gen))
     \/ Promote(RecordListenerReady(conn, child.gen))
  /\ KeepCoordinator

\* resumeRoutingPolicy settles; a suspension that superseded it keeps the gate
\* closed.  finishConnected runs in every case.  The engine that asked for it
\* may have gone.
ActivationSettles ==
  LET activating == child # NoChild /\ child.activating
  IN  /\ MicrotasksDrained
      /\ gate = "activating" \/ activating
      /\ gate' \in IF gate = "activating" THEN {"open", "suspended"} ELSE {gate}
      /\ child' = IF activating THEN [child EXCEPT !.activating = FALSE] ELSE child
      /\ conn' = IF activating /\ ChildCurrent THEN MarkConnected(conn, child.gen)
                 ELSE conn
      /\ KeepCoordinator

\* A page is opened: the gate is opened once the Session is configured.  A
\* direct page needs no tunnel, so this may happen in any phase.
OpenBrowser ==
  /\ MicrotasksDrained
  /\ gate # "open"
  /\ gate' = "open"
  /\ UNCHANGED <<conn, child>>
  /\ KeepCoordinator

\* network_unhealthy, or state_changed: stopping
EngineStopping ==
  /\ Serving
  /\ RevokeServing
  /\ UNCHANGED child
  /\ KeepCoordinator

\* listener_ready on another port: LOCAL_LISTENER_FAILED, stop the child
ListenerMismatch ==
  /\ Serving
  /\ RevokeServing
  /\ child' = AskToStop([child EXCEPT !.fatal = "terminal"])
  /\ KeepCoordinator

\* Accepted while the pipe drains after exit, too
FatalError ==
  /\ Listening
  /\ child.hello
  /\ RevokeServing
  /\ \E kind \in FailureKinds : child' = [child EXCEPT !.fatal = kind]
  /\ KeepCoordinator

Stopped ==
  /\ Listening
  /\ child.hello
  /\ child' = [child EXCEPT !.stopped = TRUE]
  /\ UNCHANGED <<conn, gate>>
  /\ KeepCoordinator

\* The process is gone; its pipes may still hold output.
ChildExits ==
  /\ MicrotasksDrained
  /\ child # NoChild
  /\ child.exit = "no"
  /\ RevokeServing
  /\ child' = [child EXCEPT !.exit = "exited"]
  /\ KeepCoordinator

\* The process could not be started: EVENT_OUTPUT_FAILED for a current child
ChildErrors ==
  /\ MicrotasksDrained
  /\ child # NoChild
  /\ child.exit = "no"
  /\ ~child.hello
  /\ child' = [child EXCEPT !.exit = "error",
                            !.fatal = IF ChildCurrent THEN "terminal" ELSE @]
  /\ UNCHANGED <<conn, gate>>
  /\ KeepCoordinator

\* The failure kind a close resolves to, "terminal" also when the settings
\* cannot be read.
CloseKinds ==
  IF child.fatal \in {"none", "unknown"} THEN FailureKinds ELSE {child.fatal, "terminal"}

\* Mutant: the retry is bound to the generation it is going to start.
ScheduledForNext(g, i) == [gen |-> g + 1, intent |-> i]

\* EngineSupervisor.schedule for the generation that has closed
ScheduledRetry(g, i) == [gen |-> g, intent |-> i]

\* handleEngineClose: a close counts when the supervisor, the token and the
\* machine's mirror all still name this child.
CloseHandled ==
  IF ChildCurrent /\ conn.gen = child.gen
  THEN /\ gate' = Suspended(gate)
       /\ \E stableNow, autoReconnect \in BOOLEAN, kind \in CloseKinds :
            /\ conn' = EngineClosed(conn, stableNow, kind, autoReconnect)
            /\ timer' = IF conn'.phase = "retry-wait"
                        THEN ScheduledRetry(child.gen, conn.intent) ELSE timer
  ELSE UNCHANGED <<conn, timer, gate>>

\* close is the only event that releases the child; it also settles the stop
\* of that child, and the flight that waits for it.
ChildCloses ==
  /\ MicrotasksDrained
  /\ child # NoChild
  /\ child.exit # "no"
  /\ child' = NoChild
  /\ CloseHandled
  /\ stopFlight' = IF stopFlight = "engine" THEN "none" ELSE stopFlight
  /\ \E result \in {"clean", "unclean"} :
       /\ child.exit = "error" => result = "unclean"
       /\ task' = Deliver(result, stopFlight = "engine")
  /\ UNCHANGED <<supGen, connectFlight, reconnectFlight, rec, app>>

-----------------------------------------------------------------------------

\* What the application's users, the operating system and the engine process
\* do to the connection
Disturbance ==
  \/ \E t \in Tasks : UserConnect(t) \/ UserDisconnect(t) \/ UserReconnect(t)
                        \/ HealthRecovery(t) \/ Quit(t)
  \/ GoesUnavailable
  \/ HelloTimesOut \/ ListenerMismatch \/ FatalError \/ EngineStopping
  \/ Stopped \/ ChildErrors \/ ChildExits

\* A coroutine runs on from the await it has reached.
TaskStep(t) ==
  \/ ConnectResumes(t) \/ ConnectAfterStopResumes(t) \/ ConnectAfterAttemptResumes(t)
  \/ RefreshCompletes(t) \/ LogResetCompletes(t) \/ AttemptChildStopped(t)
  \/ DisconnectResumes(t) \/ ReconnectAfterPriorResumes(t)
  \/ ReconnectResumes(t) \/ RecoverResumes(t)

\* What the code, its timers and the engine do about it
Reaction ==
  \/ \E t \in Tasks : TaskStep(t) \/ RetryTimerFires(t) \/ RecoveryTimerFires(t)
  \/ ComesBack \/ OpenBrowser
  \/ BrowserSuspended \/ StopTimesOut
  \/ Hello \/ EnginePhase \/ EngineReady \/ ActivationSettles
  \/ ChildCloses

Next == Disturbance \/ Reaction

Spec == Init /\ [][Next]_vars

\* Promises settle, and timers that nobody clears fire.  Nothing is assumed of
\* the engine: only its stop has a deadline.
Fairness ==
  /\ \A t \in Tasks : WF_vars(TaskStep(t))
  /\ WF_vars(\E t \in Tasks : RetryTimerFires(t))
  /\ WF_vars(\E t \in Tasks : RecoveryTimerFires(t))
  /\ WF_vars(BrowserSuspended)
  /\ WF_vars(StopTimesOut)

-----------------------------------------------------------------------------
(* Safety *)

\* While the machine's mirror names a generation, connected stands for an
\* engine that has not exited, is the supervisor's current generation, belongs
\* to the current intent, and whose connection the user still wants.
ConnectedIsServed ==
  conn.phase = "connected" /\ conn.gen # NoGeneration =>
    /\ conn.desired
    /\ ChildCurrent
    /\ conn.gen = child.gen
    /\ child.exit # "exited"

\* ARCHITECTURE.md: "connected only holds when the same generation" has become
\* ready: a connected machine names the generation it is connected with.
ConnectedIsBound == conn.phase = "connected" => conn.gen # NoGeneration

\* A retry that is waiting will be resumed by exactly one thing: its timer, bound
\* to the current generation and intent, or the connect call the timer has made.
\* The old engine has been released; an engine there is belongs to a second
\* attempt of the same intent (ConnectedIsBound), which took over from the timer.
\* A third overlapping attempt, hence a fourth coroutine, would break this.
RetryWaitIsOwned ==
  conn.phase = "retry-wait" =>
    /\ conn.desired
    /\ \/ child = NoChild /\ timer = [gen |-> supGen, intent |-> conn.intent]
       \/ child = NoChild /\ \E t \in Tasks : task[t].retry /\ task[t].intent = conn.intent
       \/ child # NoChild /\ child.intent = conn.intent /\ timer = NoTimer

\* No coroutine waits for something that has already happened: a pending wait
\* has a stop flight, a task or a child stop that will still resolve it.
NoLostWakeup ==
  \A t \in Tasks :
    task[t].result = "pending" =>
      \/ task[t].pc \in AwaitsStop /\ stopFlight # "none"
      \/ task[t].pc \in AwaitsTask /\ task[t].on # t /\ ~Free(task[t].on)
      \/ task[t].pc = "attempt:child" /\ child # NoChild /\ child.stop = "pending"

\* The engine stage of a stop flight always has a child whose stop is running.
StopFlightHasChild ==
  stopFlight = "engine" => child # NoChild /\ child.stop = "pending"

\* Every step that leaves connected closes the request gate in the same
\* synchronous run, unless a stop flight has closed it already.  The exception
\* is failIntent (a recovery that is declined or cannot stop the engine, a
\* refused command while quitting): it ends the intent and leaves the Browser.
\* Like ConnectedIsServed it is about a machine that names its generation.
LeavingConnectedClosesGate ==
  [][conn.phase = "connected" /\ conn'.phase # "connected"
       /\ conn.gen # NoGeneration /\ stopFlight = "none" =>
       gate' # "open" \/ conn' = FailIntent(conn, conn.intent)]_vars

\* Connected is entered only once the current engine has reported its
\* candidate and its listener, has not exited since, and is not being replaced.
ConnectedNeedsBarrier ==
  [][conn.phase # "connected" /\ conn'.phase = "connected" =>
       /\ conn'.candidate /\ conn'.listener /\ conn'.desired
       /\ ChildCurrent'
       /\ conn'.gen = child'.gen
       /\ child'.exit # "exited"]_vars

\* An engine is launched only for the intent the user last expressed, when
\* that intent is to be connected and the application is not quitting.
LaunchIsWanted ==
  [][child = NoChild /\ child' # NoChild =>
       conn.desired /\ child'.intent = conn.intent /\ app = "running"]_vars

\* An engine whose generation or token is no longer current changes neither
\* the connection nor the gate, whatever it still reports, up to its close.
\* (A Browser activation that it has started settles without it.)
StaleEngineIsInert ==
  [][child # NoChild /\ ~ChildCurrent /\ child' # child =>
       UNCHANGED <<conn, timer>> /\ (gate = "activating" \/ UNCHANGED gate)]_vars
-----------------------------------------------------------------------------
(* Liveness *)

Gone == app = "gone"

\* A stop flight settles: the engine closes or its stop runs out of time.
StopSettles == stopFlight # "none" ~> (stopFlight = "none" \/ Gone)

\* Every coroutine returns: no wait for a stop, for an attempt or for a prior
\* reconnect is forgotten or circular.
TasksFinish == \A t \in Tasks : ~Free(t) ~> (Free(t) \/ Gone)

\* The application ends once the user has quit it, whatever the engine does.
QuitCompletes == app = "quitting" ~> Gone

\* A retry that waits is tried or given up.
RetryWaitEnds == conn.phase = "retry-wait" ~> (conn.phase # "retry-wait" \/ Gone)

Unavailable == rec.suspended \/ rec.offline

\* A paused connection is resumed or given up once the network is back.
PauseEnds ==
  (conn.phase = "connectivity-paused" /\ ~Unavailable) ~>
    (conn.phase # "connectivity-paused" \/ Unavailable \/ Gone)

-----------------------------------------------------------------------------
(* Refinement *)

\* The engine as the connection sees it: it counts while the supervisor, the
\* token and the machine's mirror all name it; in every other case it is only
\* waiting to be released.
EngineView ==
  IF child = NoChild THEN "none"
  ELSE IF ~ChildCurrent \/ conn.gen # child.gen
          \/ conn.phase \notin {"starting", "authenticating"} \cup ReadinessPhases
       THEN "retired"
  ELSE IF conn.phase = "connected" /\ conn.candidate /\ conn.listener
       THEN "serving"
  ELSE "starting"

Service == INSTANCE EngineService
             WITH intent <- conn.intent, wanted <- conn.desired, engine <- EngineView

\* The connection core keeps the promises of EngineService.
ImplementsEngineService == Service!Spec
=============================================================================
