--------------------------- MODULE NetworkStartup ---------------------------
(***************************************************************************)
(* The connection a launch makes by itself: NetworkStatusMonitor and       *)
(* NetworkStartupCoordinator (connection/telemetry/network-status-monitor. *)
(* js), which hand a launch that begins offline to ConnectivityRecovery    *)
(* (connection/recovery/connectivity-recovery.js).                         *)
(*                                                                         *)
(* The monitor samples the network; it sees the state at a sample, not     *)
(* each change.  The connection is known by its intent and by whether it   *)
(* is idle, paused or on its way (ConnectionLifecycle has the rest of it). *)
(* What runs in one turn of the event loop is one step.                    *)
(***************************************************************************)
EXTENDS Naturals

CONSTANT MaxIntents   \* intents of connection, counted

ASSUME NetworkAssumption == MaxIntents \in Nat \ {0}

VARIABLES
  network,     \* what a sample of the network would say
  baseline,    \* NetworkStatusMonitor: the last sample
  startup,     \* NetworkStartupCoordinator: what it waits for
  connection,  \* its phase, its intent, and whether it is wanted
  rec,         \* ConnectivityRecovery
  launch,      \* the intent of a launch that was paused offline, until it resumes
  userActed    \* the user connected or disconnected

networkVars == <<network, baseline, startup, connection, rec, launch, userActed>>

\* ConnectivityRecovery.cancelPending: the physical flags stay.
WithoutPending(r) == [r EXCEPT !.pending = 0, !.timer = FALSE, !.initial = 0]
Quiet == [suspended |-> FALSE, offline |-> FALSE, pending |-> 0, timer |-> FALSE, initial |-> 0, resuming |-> 0]

\* currentRecoveryIntent.
LiveIntent == IF connection.wanted THEN connection.intent ELSE 0

NetworkTypeOK ==
  /\ network \in {"online", "offline", "unknown"} /\ baseline \in {"none", "online", "offline"}
  /\ startup \in {"unstarted", "waits for a sample", "timer", "paused", "done"}
  /\ connection \in [phase : {"idle", "paused", "under way"}, intent : 0 .. MaxIntents, wanted : BOOLEAN]
  /\ rec \in [suspended : BOOLEAN, offline : BOOLEAN, timer : BOOLEAN,
              pending : 0 .. MaxIntents, initial : 0 .. MaxIntents, resuming : 0 .. MaxIntents]
  /\ launch \in 0 .. MaxIntents /\ userActed \in BOOLEAN

NetworkInit ==
  /\ network \in {"online", "offline", "unknown"} /\ baseline = "none" /\ startup = "unstarted"
  /\ connection = [phase |-> "idle", intent |-> 0, wanted |-> FALSE]
  /\ rec = Quiet /\ launch = 0 /\ userActed = FALSE

-----------------------------------------------------------------------------
(* ConnectivityRecovery.                                                    *)

\* Mutant: each outage starts its recovery from the beginning.
OutageForgotten(r, i) == [r EXCEPT !.pending = i, !.timer = FALSE, !.initial = 0]
\* markUnavailable: the outage of an intent lasts until it is recovered.
Outage(r, i) == [r EXCEPT !.pending = i, !.timer = FALSE, !.initial = IF r.pending = i THEN r.initial ELSE 0]

\* invalidateForConnectivity, at the beginning of an outage.
MarkUnavailable(r) ==
  IF LiveIntent = 0 THEN rec' = r /\ UNCHANGED connection
  ELSE /\ rec' = Outage(r, LiveIntent)
       /\ connection' = IF r.pending = LiveIntent THEN connection ELSE [connection EXCEPT !.phase = "paused"]

\* scheduleIfReady.
Scheduled(r) ==
  IF r.pending = 0 \/ r.suspended \/ r.offline THEN r
  ELSE IF r.pending # LiveIntent THEN WithoutPending(r)
  ELSE [r EXCEPT !.timer = TRUE]

\* initialNetworkOnline(intent).
InitialOnline(intent) ==
  LET r == [rec EXCEPT !.offline = FALSE] IN
  IF r.pending # intent \/ intent # LiveIntent THEN r ELSE Scheduled([r EXCEPT !.initial = intent])

\* The sleep of the machine.
MachineSleeps == /\ MarkUnavailable([rec EXCEPT !.suspended = TRUE])
                 /\ UNCHANGED <<network, baseline, startup, launch, userActed>>
MachineWakes == /\ rec' = Scheduled([rec EXCEPT !.suspended = FALSE])
                /\ UNCHANGED <<network, baseline, startup, connection, launch, userActed>>

\* attemptRecovery: the first recovery of a paused launch does not ask for the
\* setting autoReconnect, which may be off or unreadable; a refusal ends the
\* connection.
RecoveryFires(autoReconnect) ==
  /\ rec.timer
  /\ IF rec.initial = rec.pending \/ autoReconnect
     THEN rec' = [WithoutPending(rec) EXCEPT !.resuming = rec.pending] /\ UNCHANGED connection
     ELSE rec' = WithoutPending(rec) /\ connection' = [connection EXCEPT !.phase = "idle", !.wanted = FALSE]
  /\ launch' = 0 /\ UNCHANGED <<network, baseline, startup, userActed>>

\* recoverConnectivity: once the old engine is stopped the connection goes on;
\* one that does not stop ends it.
RecoveryResumes(stopped) ==
  /\ rec.resuming # 0 /\ rec' = [rec EXCEPT !.resuming = 0]
  /\ connection' = IF rec.resuming # LiveIntent THEN connection
                   ELSE IF stopped THEN [connection EXCEPT !.phase = "under way"]
                   ELSE [connection EXCEPT !.phase = "idle", !.wanted = FALSE]
  /\ UNCHANGED <<network, baseline, startup, launch, userActed>>

-----------------------------------------------------------------------------
(* The launch.                                                              *)

\* Mutant: the timer of the launch goes on.
KeepsTimer == IF startup = "timer" THEN startup ELSE "done"
\* NetworkStartupCoordinator.cancel: the launch does nothing more by itself.
GivesUp == IF startup = "unstarted" THEN startup ELSE "done"

\* beginConnectIntent, with the recovery of the older intent cancelled.
FreshIntent(wanted, phase) ==
  /\ connection.intent < MaxIntents
  /\ connection' = [phase |-> phase, intent |-> connection.intent + 1, wanted |-> wanted]

\* What follows the first sample: an online launch waits a moment more, an
\* offline one begins an intent that is paused at once (pauseInitialOffline).
\* A launch that may not connect (no account, the setting off) ends here.
FollowsSample(sample, eligible) ==
  \/ /\ ~eligible /\ startup' = "done" /\ UNCHANGED <<connection, rec, launch>>
  \/ /\ eligible /\ sample = "online" /\ startup' = "timer" /\ UNCHANGED <<connection, rec, launch>>
  \/ /\ eligible /\ sample = "offline" /\ startup' = "paused"
     /\ FreshIntent(TRUE, "paused") /\ launch' = connection'.intent
     /\ rec' = [WithoutPending(rec) EXCEPT !.offline = TRUE, !.pending = connection'.intent]

\* start(): the monitor takes its first sample.
Starts ==
  /\ startup = "unstarted" /\ UNCHANGED <<network, userActed>>
  /\ IF network = "unknown"
     THEN startup' = "waits for a sample" /\ UNCHANGED <<baseline, connection, rec, launch>>
     ELSE baseline' = network /\ \E eligible \in BOOLEAN : FollowsSample(network, eligible)

\* poll(), with the baseline not known yet: no event, but who waits for it goes on.
FirstSample ==
  /\ startup # "unstarted" /\ baseline = "none" /\ network # "unknown" /\ baseline' = network
  /\ IF startup = "waits for a sample" THEN \E eligible \in BOOLEAN : FollowsSample(network, eligible)
     ELSE UNCHANGED <<startup, connection, rec, launch>>
  /\ UNCHANGED <<network, userActed>>
WaitTimesOut ==
  /\ startup = "waits for a sample" /\ startup' = "done"
  /\ UNCHANGED <<network, baseline, connection, rec, launch, userActed>>

\* poll(), with a change: onOffline, or onOnline, which the paused launch takes
\* for itself once (networkOnline).
SeesOffline ==
  /\ baseline = "online" /\ network = "offline" /\ baseline' = "offline"
  /\ MarkUnavailable([rec EXCEPT !.offline = TRUE])
  /\ UNCHANGED <<network, startup, launch, userActed>>
SeesOnline ==
  /\ baseline = "offline" /\ network = "online" /\ baseline' = "online"
  /\ IF startup = "paused" THEN startup' = "done" /\ rec' = InitialOnline(launch)
     ELSE startup' = startup /\ rec' = Scheduled([rec EXCEPT !.offline = FALSE])
  /\ UNCHANGED <<network, connection, launch, userActed>>

\* connect(), by the user or by the launch: a connection that is wanted stays.
Connects ==
  IF connection.wanted THEN UNCHANGED <<startup, connection, rec, launch>>
  ELSE FreshIntent(TRUE, "under way") /\ startup' = GivesUp /\ rec' = WithoutPending(rec) /\ launch' = 0

TimerFires(eligible) ==
  /\ startup = "timer" /\ UNCHANGED <<network, baseline, userActed>>
  /\ IF eligible THEN Connects ELSE startup' = "done" /\ UNCHANGED <<connection, rec, launch>>

UserConnects == /\ startup # "unstarted" /\ Connects /\ userActed' = TRUE /\ UNCHANGED <<network, baseline>>
UserDisconnects ==
  /\ startup # "unstarted" /\ FreshIntent(FALSE, "idle") /\ startup' = GivesUp /\ rec' = WithoutPending(rec)
  /\ launch' = 0 /\ userActed' = TRUE /\ UNCHANGED <<network, baseline>>

\* The connection fails for good; the network changes.
ConnectionEnds ==
  /\ connection.phase = "under way" /\ connection' = [connection EXCEPT !.phase = "idle", !.wanted = FALSE]
  /\ UNCHANGED <<network, baseline, startup, rec, launch, userActed>>
NetworkChanges ==
  /\ network' \in {"online", "offline", "unknown"} \ {network}
  /\ UNCHANGED <<baseline, startup, connection, rec, launch, userActed>>

NetworkNext ==
  \/ Starts \/ FirstSample \/ WaitTimesOut \/ SeesOffline \/ SeesOnline
  \/ MachineSleeps \/ MachineWakes \/ UserConnects \/ UserDisconnects \/ ConnectionEnds \/ NetworkChanges
  \/ \E b \in BOOLEAN : RecoveryFires(b) \/ RecoveryResumes(b) \/ TimerFires(b)

NetworkSpec == NetworkInit /\ [][NetworkNext]_networkVars

-----------------------------------------------------------------------------
\* A launch that was paused offline is not forgotten, however often the network
\* and the machine go away before it resumes: its outage stays pending, with a
\* timer while nothing is away, and as a launch, which resumes also when the
\* setting autoReconnect is off (recoverConnectivity).
LaunchIsNotForgotten ==
  launch # 0 => /\ LiveIntent = launch /\ rec.pending = launch
                /\ startup = "paused" \/ rec.initial = launch
                /\ startup # "paused" /\ ~rec.suspended /\ ~rec.offline => rec.timer

\* The launch does nothing by itself once the user has connected or disconnected,
\* unless what the user asked for is the connection it has begun already.
UserComesFirst ==
  /\ startup = "timer" => connection.intent = 0
  /\ userActed => startup \notin {"waits for a sample", "timer"}

\* The network that recovery waits for is one the monitor has not seen online: no
\* connection waits for a change that has been reported already.
OfflineIsCurrent == rec.offline => baseline = "offline"

\* A connection that was paused is pending, or on its way back.
PausedIsPending ==
  connection.phase = "paused" =>
    rec.pending = connection.intent \/ rec.resuming = connection.intent

\* The four together.
StartupSafety == NetworkTypeOK /\ LaunchIsNotForgotten /\ UserComesFirst /\ OfflineIsCurrent /\ PausedIsPending
=============================================================================
