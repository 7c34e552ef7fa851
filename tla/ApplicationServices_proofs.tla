------------------------- MODULE ApplicationServices_proofs -------------------------
(* The safety of the services around the connection: the connection that a    *)
(* launch makes by itself, the secondary authentication while one is made,    *)
(* the onboarding of a school, the custom profiles on disk, and the migration *)
(* of a 1.x installation.  They share no state, so each has its invariant and *)
(* its theorem, one after the other.                                          *)
EXTENDS ConnectionServices, SchoolOnboarding, SchoolProfiles, LegacyMigration, FiniteSetTheorems, TLAPS

-----------------------------------------------------------------------------
(* The connection at launch, for any number of intents.  StartupSafety is not  *)
(* inductive: that a paused connection is pending needs the intents that      *)
(* recovery holds to be of now, and that a launch is not forgotten needs the  *)
(* launch to come before every other intent.                                  *)

\* A connection is wanted while it is not idle, and no intent is the first one.
WantedOrIdle ==
  /\ connection.wanted <=> connection.phase # "idle"
  /\ connection.intent = 0 => connection.phase = "idle"

\* Recovery holds the intent of now, or none; the one it resumes may be older.
IntentsOfNow ==
  /\ rec.initial <= connection.intent /\ rec.resuming <= connection.intent
  /\ rec.pending \in {0, connection.intent}
  /\ rec.timer => rec.pending # 0

\* A launch that was paused offline waits, first for the network, then for its turn.
LaunchWaits ==
  /\ startup = "paused" => launch # 0 /\ rec.offline /\ ~rec.timer
  /\ launch # 0 => /\ startup \in {"paused", "done"}
                   /\ connection.phase = "paused" /\ rec.resuming # launch

\* Nothing is wanted before the launch has seen the network.
LaunchIsFirst ==
  /\ startup \in {"unstarted", "waits for a sample"} => connection.intent = 0 /\ baseline = "none"
  /\ startup = "unstarted" => ~userActed

NetworkInv ==
  /\ NetworkTypeOK /\ LaunchIsNotForgotten /\ UserComesFirst /\ OfflineIsCurrent /\ PausedIsPending
  /\ WantedOrIdle /\ IntentsOfNow /\ LaunchWaits /\ LaunchIsFirst

-----------------------------------------------------------------------------
(* What the helpers return. *)

Recovery ==
  [suspended : BOOLEAN, offline : BOOLEAN, timer : BOOLEAN,
   pending : 0 .. MaxIntents, initial : 0 .. MaxIntents, resuming : 0 .. MaxIntents]
Connection == [phase : {"idle", "paused", "under way"}, intent : 0 .. MaxIntents, wanted : BOOLEAN]

LEMMA Shapes ==
  NetworkTypeOK => /\ rec \in Recovery /\ connection \in Connection
                   /\ connection.intent \in 0 .. MaxIntents /\ connection.wanted \in BOOLEAN
BY DEF NetworkTypeOK, Recovery, Connection

LEMMA NoIntent == 0 \in 0 .. MaxIntents
BY NetworkAssumption

LEMMA NextIntent ==
  ASSUME NEW i \in 0 .. MaxIntents, i < MaxIntents
  PROVE  i + 1 \in 0 .. MaxIntents
BY NetworkAssumption

LEMMA IntentBounds ==
  ASSUME NEW i \in 0 .. MaxIntents
  PROVE  0 <= i /\ (i <= 0 => i = 0)
BY NetworkAssumption

LEMMA LaterIntent ==
  ASSUME NEW i \in 0 .. MaxIntents, NEW j \in 0 .. MaxIntents
  PROVE  /\ 0 <= j + 1 /\ j + 1 # 0
         /\ i <= j => i <= j + 1
BY NetworkAssumption

\* The physical state that cancelPending, markUnavailable and scheduleIfReady leave alone.
SamePlace(r, q) == q.suspended = r.suspended /\ q.offline = r.offline /\ q.resuming = r.resuming

LEMMA Cleared ==
  ASSUME NEW r \in Recovery
  PROVE  /\ WithoutPending(r) \in Recovery /\ SamePlace(r, WithoutPending(r))
         /\ WithoutPending(r).pending = 0 /\ WithoutPending(r).initial = 0 /\ WithoutPending(r).timer = FALSE
<1>1. WithoutPending(r) \in Recovery
  BY NoIntent DEF WithoutPending, Recovery
<1>2. WithoutPending(r).pending = 0 /\ WithoutPending(r).initial = 0 /\ WithoutPending(r).timer = FALSE
  BY DEF WithoutPending, Recovery
<1>3. SamePlace(r, WithoutPending(r))
  BY DEF WithoutPending, Recovery, SamePlace
<1>. QED  BY <1>1, <1>2, <1>3

LEMMA Outages ==
  ASSUME NEW r \in Recovery, NEW i \in 0 .. MaxIntents
  PROVE  /\ Outage(r, i) \in Recovery /\ SamePlace(r, Outage(r, i))
         /\ Outage(r, i).pending = i /\ Outage(r, i).timer = FALSE
         /\ Outage(r, i).initial = IF r.pending = i THEN r.initial ELSE 0
<1>1. Outage(r, i) \in Recovery
  BY NoIntent DEF Outage, Recovery
<1>2. Outage(r, i).pending = i /\ Outage(r, i).timer = FALSE
  BY DEF Outage, Recovery
<1>3. Outage(r, i).initial = IF r.pending = i THEN r.initial ELSE 0
  BY DEF Outage, Recovery
<1>4. SamePlace(r, Outage(r, i))
  BY DEF Outage, Recovery, SamePlace
<1>. QED  BY <1>1, <1>2, <1>3, <1>4

LEMMA Schedules ==
  ASSUME NEW r \in Recovery
  PROVE  /\ Scheduled(r) \in Recovery /\ SamePlace(r, Scheduled(r))
         /\ \/ Scheduled(r) = r /\ (r.pending = 0 \/ r.suspended \/ r.offline)
            \/ /\ r.pending # LiveIntent
               /\ Scheduled(r).pending = 0 /\ Scheduled(r).initial = 0 /\ Scheduled(r).timer = FALSE
            \/ /\ r.pending = LiveIntent /\ r.pending # 0 /\ ~r.suspended /\ ~r.offline
               /\ Scheduled(r).pending = r.pending /\ Scheduled(r).initial = r.initial /\ Scheduled(r).timer = TRUE
<1>1. CASE r.pending = 0 \/ r.suspended \/ r.offline
  BY <1>1 DEF Scheduled, SamePlace
<1>2. CASE ~(r.pending = 0 \/ r.suspended \/ r.offline) /\ r.pending # LiveIntent
  <2>1. Scheduled(r) = WithoutPending(r)
    BY <1>2 DEF Scheduled
  <2>. QED  BY <1>2, <2>1, Cleared
<1>3. CASE ~(r.pending = 0 \/ r.suspended \/ r.offline) /\ r.pending = LiveIntent
  <2>1. Scheduled(r) = [r EXCEPT !.timer = TRUE]
    BY <1>3 DEF Scheduled
  <2>2. Scheduled(r) \in Recovery
    BY <2>1 DEF Recovery
  <2>3. SamePlace(r, Scheduled(r))
    BY <2>1 DEF Recovery, SamePlace
  <2>4. Scheduled(r).pending = r.pending /\ Scheduled(r).initial = r.initial /\ Scheduled(r).timer = TRUE
    BY <2>1 DEF Recovery
  <2>. QED  BY <1>3, <2>2, <2>3, <2>4
<1>. QED  BY <1>1, <1>2, <1>3

\* beginLifecycleIntent.
LEMMA Fresh ==
  ASSUME NetworkTypeOK, NEW w \in BOOLEAN, NEW p \in {"idle", "paused", "under way"}, FreshIntent(w, p)
  PROVE  /\ connection' \in Connection /\ connection'.intent = connection.intent + 1
         /\ connection'.phase = p /\ connection'.wanted = w
<1>1. connection.intent \in 0 .. MaxIntents /\ connection.intent < MaxIntents
  BY DEF NetworkTypeOK, FreshIntent
<1>2. connection.intent + 1 \in 0 .. MaxIntents
  BY <1>1, NextIntent
<1>. QED  BY <1>2 DEF FreshIntent, Connection

\* The beginning of an outage: nothing is changed that is not wanted, and a
\* connection that is wanted is pending, and paused unless it was pending before.
LEMMA Marks ==
  ASSUME NetworkTypeOK, NEW r \in Recovery, MarkUnavailable(r)
  PROVE  /\ rec' \in Recovery /\ SamePlace(r, rec') /\ connection' \in Connection
         /\ connection'.intent = connection.intent /\ connection'.wanted = connection.wanted
         /\ LiveIntent = 0 => rec' = r /\ connection' = connection
         /\ LiveIntent # 0 =>
              /\ rec'.pending = connection.intent /\ rec'.timer = FALSE
              /\ rec'.initial = IF r.pending = connection.intent THEN r.initial ELSE 0
              /\ connection'.phase = IF r.pending = connection.intent THEN connection.phase ELSE "paused"
<1>1. CASE LiveIntent = 0
  BY <1>1, Shapes DEF MarkUnavailable, SamePlace
<1>2. CASE LiveIntent # 0
  <2>1. LiveIntent = connection.intent /\ connection.intent \in 0 .. MaxIntents
    BY <1>2, Shapes DEF LiveIntent
  <2>2. rec' = Outage(r, connection.intent)
    BY <1>2, <2>1 DEF MarkUnavailable
  <2>3. /\ rec' \in Recovery /\ SamePlace(r, rec')
        /\ rec'.pending = connection.intent /\ rec'.timer = FALSE
        /\ rec'.initial = IF r.pending = connection.intent THEN r.initial ELSE 0
    <3>1. rec' \in Recovery /\ SamePlace(r, rec')
      BY <2>1, <2>2, Outages
    <3>2. rec'.pending = connection.intent
      BY <2>2 DEF Outage, Recovery
    <3>3. rec'.timer = FALSE
      BY <2>2 DEF Outage, Recovery
    <3>4. rec'.initial = IF r.pending = connection.intent THEN r.initial ELSE 0
      BY <2>2 DEF Outage, Recovery
    <3>. QED  BY <3>1, <3>2, <3>3, <3>4
  <2>4. connection' = IF r.pending = connection.intent THEN connection
                      ELSE [connection EXCEPT !.phase = "paused"]
    BY <1>2, <2>1 DEF MarkUnavailable
  <2>5. /\ connection' \in Connection
        /\ connection'.intent = connection.intent /\ connection'.wanted = connection.wanted
        /\ connection'.phase = IF r.pending = connection.intent THEN connection.phase ELSE "paused"
    <3>1. CASE r.pending = connection.intent
      BY <2>4, <3>1, Shapes
    <3>2. CASE r.pending # connection.intent
      <4>1. connection' = [connection EXCEPT !.phase = "paused"]
        BY <2>4, <3>2
      <4>2. connection' \in Connection
        BY <4>1, Shapes DEF Connection
      <4>3. /\ connection'.intent = connection.intent /\ connection'.wanted = connection.wanted
            /\ connection'.phase = "paused"
        BY <4>1, Shapes DEF Connection
      <4>. QED  BY <3>2, <4>2, <4>3
    <3>. QED  BY <3>1, <3>2
  <2>. QED  BY <1>2, <2>3, <2>5
<1>. QED  BY <1>1, <1>2

-----------------------------------------------------------------------------
(* The steps. *)

\* What each step starts from.
Known ==
  /\ rec \in Recovery /\ connection \in Connection
  /\ rec.pending \in 0 .. MaxIntents /\ rec.initial \in 0 .. MaxIntents /\ rec.resuming \in 0 .. MaxIntents
  /\ connection.intent \in 0 .. MaxIntents
  /\ LiveIntent = IF connection.wanted THEN connection.intent ELSE 0

LEMMA Known0 == NetworkInv => Known
BY DEF NetworkInv, NetworkTypeOK, Known, Recovery, Connection, LiveIntent

\* An outage, seen by the monitor or the machine.
LEMMA OutageStep ==
  ASSUME NetworkInv, NEW r \in Recovery, MarkUnavailable(r),
         r.pending = rec.pending, r.initial = rec.initial, r.resuming = rec.resuming, r.timer = rec.timer,
         baseline' \in {"none", "online", "offline"}, network' = network, r.offline => baseline' = "offline",
         rec.offline => r.offline, rec.suspended => r.suspended, r.offline \/ r.suspended,
         baseline' # "none" <=> baseline # "none",
         startup' = startup, launch' = launch, userActed' = userActed
  PROVE  NetworkInv'
<1>0. Known /\ NetworkTypeOK
  BY Known0 DEF NetworkInv
<1>1. /\ rec' \in Recovery /\ SamePlace(r, rec') /\ connection' \in Connection
      /\ connection'.intent = connection.intent /\ connection'.wanted = connection.wanted
      /\ LiveIntent = 0 => rec' = r /\ connection' = connection
      /\ LiveIntent # 0 =>
           /\ rec'.pending = connection.intent /\ rec'.timer = FALSE
           /\ rec'.initial = IF rec.pending = connection.intent THEN rec.initial ELSE 0
           /\ connection'.phase = IF rec.pending = connection.intent THEN connection.phase ELSE "paused"
  BY <1>0, Marks
<1>2. NetworkTypeOK'
  BY <1>0, <1>1 DEF NetworkTypeOK, Recovery, Connection
<1>3. IntentsOfNow'
  BY <1>0, <1>1, NetworkAssumption DEF NetworkInv, IntentsOfNow, Known, SamePlace
<1>4. PausedIsPending' /\ WantedOrIdle'
  BY <1>0, <1>1 DEF NetworkInv, PausedIsPending, WantedOrIdle, Known, SamePlace
<1>5. LaunchIsNotForgotten'
  BY <1>0, <1>1 DEF NetworkInv, LaunchIsNotForgotten, LaunchWaits, WantedOrIdle, Known, SamePlace, LiveIntent
<1>6. UserComesFirst' /\ OfflineIsCurrent' /\ LaunchWaits' /\ LaunchIsFirst'
  BY <1>0, <1>1 DEF NetworkInv, UserComesFirst, OfflineIsCurrent, LaunchWaits, LaunchIsFirst, Known, SamePlace
<1>. QED  BY <1>2, <1>3, <1>4, <1>5, <1>6 DEF NetworkInv

LEMMA SeesOfflineStep == NetworkInv /\ SeesOffline => NetworkInv'
<1> SUFFICES ASSUME NetworkInv, SeesOffline PROVE NetworkInv'
  OBVIOUS
<1> DEFINE r == [rec EXCEPT !.offline = TRUE]
<1>1. /\ r \in Recovery /\ r.offline /\ r.suspended = rec.suspended
      /\ r.pending = rec.pending /\ r.initial = rec.initial /\ r.resuming = rec.resuming /\ r.timer = rec.timer
  BY Known0 DEF Known, Recovery
<1>2. /\ MarkUnavailable(r) /\ baseline' = "offline" /\ baseline # "none"
      /\ network' = network /\ startup' = startup /\ launch' = launch /\ userActed' = userActed
  BY DEF SeesOffline
<1>. QED  BY <1>1, <1>2, OutageStep

LEMMA MachineSleepsStep == NetworkInv /\ MachineSleeps => NetworkInv'
<1> SUFFICES ASSUME NetworkInv, MachineSleeps PROVE NetworkInv'
  OBVIOUS
<1> DEFINE r == [rec EXCEPT !.suspended = TRUE]
<1>1. /\ r \in Recovery /\ r.suspended /\ r.offline = rec.offline
      /\ r.pending = rec.pending /\ r.initial = rec.initial /\ r.resuming = rec.resuming /\ r.timer = rec.timer
  BY Known0 DEF Known, Recovery
<1>2. /\ MarkUnavailable(r) /\ baseline' = baseline /\ baseline \in {"none", "online", "offline"}
      /\ network' = network /\ startup' = startup /\ launch' = launch /\ userActed' = userActed
      /\ rec.offline => baseline = "offline"
  BY DEF MachineSleeps, NetworkInv, NetworkTypeOK, OfflineIsCurrent
<1>. QED  BY <1>1, <1>2, OutageStep

\* The return of the machine, or of the network when no launch waits for it.
LEMMA ReturnStep ==
  ASSUME NetworkInv, NEW r \in Recovery, rec' = Scheduled(r), connection' = connection,
         r.pending = rec.pending, r.resuming = rec.resuming, r.timer = rec.timer,
         r.initial = rec.initial \/ (r.initial = launch /\ startup = "paused" /\ startup' = "done"),
         startup = "paused" => rec.offline,
         baseline' \in {"none", "online", "offline"}, network' = network, r.offline => baseline' = "offline",
         startup' # startup => startup = "paused" /\ startup' = "done" /\ r.initial = launch,
         startup = "paused" /\ startup' = "paused" => r.offline,
         baseline' # "none" <=> baseline # "none",
         launch' = launch, userActed' = userActed
  PROVE  NetworkInv'
<1>0. Known /\ NetworkTypeOK
  BY Known0 DEF NetworkInv
<1>1. /\ rec' \in Recovery /\ SamePlace(r, rec')
      /\ \/ rec' = r /\ (r.pending = 0 \/ r.suspended \/ r.offline)
         \/ /\ r.pending # LiveIntent
            /\ rec'.pending = 0 /\ rec'.initial = 0 /\ rec'.timer = FALSE
         \/ /\ r.pending = LiveIntent /\ r.pending # 0 /\ ~r.suspended /\ ~r.offline
            /\ rec'.pending = r.pending /\ rec'.initial = r.initial /\ rec'.timer = TRUE
  BY Schedules
<1>2. NetworkTypeOK'
  BY <1>0, <1>1 DEF NetworkTypeOK, Recovery, Connection
<1>3. IntentsOfNow'
  <2>1. r.initial \in 0 .. MaxIntents /\ r.initial <= connection.intent
    BY <1>0 DEF NetworkInv, IntentsOfNow, LaunchIsNotForgotten, LaunchWaits, Known, LiveIntent, Recovery
  <2>2. rec'.initial <= connection.intent
    BY <1>0, <1>1, <2>1, NetworkAssumption DEF Known
  <2>. QED  BY <1>0, <1>1, <2>2 DEF NetworkInv, IntentsOfNow, Known, SamePlace
<1>4. PausedIsPending' /\ WantedOrIdle'
  BY <1>0, <1>1 DEF NetworkInv, PausedIsPending, WantedOrIdle, Known, SamePlace
<1>5. LaunchIsNotForgotten'
  BY <1>0, <1>1 DEF NetworkInv, LaunchIsNotForgotten, LaunchWaits, WantedOrIdle, Known, SamePlace, LiveIntent
<1>6. UserComesFirst' /\ OfflineIsCurrent' /\ LaunchWaits' /\ LaunchIsFirst'
  BY <1>0, <1>1 DEF NetworkInv, UserComesFirst, OfflineIsCurrent, LaunchWaits, LaunchIsFirst, Known, SamePlace
<1>. QED  BY <1>2, <1>3, <1>4, <1>5, <1>6 DEF NetworkInv

LEMMA SeesOnlineStep == NetworkInv /\ SeesOnline => NetworkInv'
<1> SUFFICES ASSUME NetworkInv, SeesOnline PROVE NetworkInv'
  OBVIOUS
<1>0. Known
  BY Known0
<1>1. /\ baseline' = "online" /\ baseline # "none" /\ network' = network /\ connection' = connection
      /\ launch' = launch /\ userActed' = userActed
  BY DEF SeesOnline
<1>2. CASE startup # "paused"
  <2> DEFINE r == [rec EXCEPT !.offline = FALSE]
  <2>1. /\ r \in Recovery /\ ~r.offline
        /\ r.pending = rec.pending /\ r.initial = rec.initial /\ r.resuming = rec.resuming /\ r.timer = rec.timer
    BY <1>0 DEF Known, Recovery
  <2>2. rec' = Scheduled(r) /\ startup' = startup
    BY <1>2 DEF SeesOnline
  <2>. HIDE DEF r
  <2>. QED  BY <1>1, <1>2, <2>1, <2>2, ReturnStep
<1>3. CASE startup = "paused"
  <2> DEFINE q == [rec EXCEPT !.offline = FALSE]
             r == [q EXCEPT !.initial = launch]
  <2>1. launch \in 0 .. MaxIntents /\ launch # 0 /\ rec.pending = launch /\ LiveIntent = launch /\ rec.offline
    BY <1>3 DEF NetworkInv, NetworkTypeOK, LaunchIsNotForgotten, LaunchWaits
  <2>2. q \in Recovery /\ ~q.offline /\ q.pending = rec.pending /\ q.resuming = rec.resuming /\ q.timer = rec.timer
    BY <1>0 DEF Known, Recovery
  <2>. HIDE DEF q
  <2>3. /\ r \in Recovery /\ r.initial = launch /\ ~r.offline
        /\ r.pending = q.pending /\ r.resuming = q.resuming /\ r.timer = q.timer
    BY <2>1, <2>2 DEF Recovery
  <2>4. startup' = "done" /\ rec' = Scheduled(r)
    BY <1>3, <2>1, <2>2 DEF SeesOnline, InitialOnline, q
  <2>. HIDE DEF r
  <2>. QED  BY <1>1, <1>3, <2>1, <2>2, <2>3, <2>4, ReturnStep
<1>. QED  BY <1>2, <1>3

LEMMA MachineWakesStep == NetworkInv /\ MachineWakes => NetworkInv'
<1> SUFFICES ASSUME NetworkInv, MachineWakes PROVE NetworkInv'
  OBVIOUS
<1> DEFINE r == [rec EXCEPT !.suspended = FALSE]
<1>1. /\ r \in Recovery /\ ~r.suspended /\ r.offline = rec.offline
      /\ r.pending = rec.pending /\ r.initial = rec.initial /\ r.resuming = rec.resuming /\ r.timer = rec.timer
  BY Known0 DEF Known, Recovery
<1>2. /\ rec' = Scheduled(r) /\ connection' = connection /\ baseline' = baseline /\ startup' = startup
      /\ network' = network /\ launch' = launch /\ userActed' = userActed
      /\ baseline \in {"none", "online", "offline"}
      /\ rec.offline => baseline = "offline"
      /\ startup = "paused" => rec.offline
  BY DEF MachineWakes, NetworkInv, NetworkTypeOK, OfflineIsCurrent, LaunchWaits
<1>. HIDE DEF r
<1>. QED  BY <1>1, <1>2, ReturnStep

\* A new intent of the user, or of the launch itself when its time is up.
LEMMA IntentStep ==
  ASSUME NetworkInv, NEW wanted \in BOOLEAN, NEW phase \in {"idle", "under way"}, wanted <=> phase # "idle",
         FreshIntent(wanted, phase), rec' = WithoutPending(rec), startup' = GivesUp, launch' = 0,
         startup # "unstarted", UNCHANGED <<network, baseline>>, userActed' \in BOOLEAN
  PROVE  NetworkInv'
<1>0. Known /\ NetworkTypeOK
  BY Known0 DEF NetworkInv
<1>1. /\ connection' \in Connection /\ connection'.intent = connection.intent + 1
      /\ connection'.phase = phase /\ connection'.wanted = wanted
  BY <1>0, Fresh
<1>2. /\ rec' \in Recovery /\ SamePlace(rec, rec')
      /\ rec'.pending = 0 /\ rec'.initial = 0 /\ rec'.timer = FALSE
  BY <1>0, Cleared DEF Known
<1>3. startup' = "done"
  BY DEF GivesUp
<1>4. NetworkTypeOK'
  BY <1>0, <1>1, <1>2, <1>3, NoIntent DEF NetworkTypeOK, Recovery, Connection
<1>5. IntentsOfNow'
  <2>2. rec'.resuming = rec.resuming /\ rec.resuming <= connection.intent
    BY <1>2 DEF NetworkInv, IntentsOfNow, SamePlace
  <2>3. rec'.initial <= connection'.intent /\ rec'.resuming <= connection'.intent
    BY <1>0, <1>1, <1>2, <2>2, LaterIntent DEF Known
  <2>. QED  BY <1>2, <2>3 DEF IntentsOfNow
<1>6. WantedOrIdle' /\ PausedIsPending'
  <2>1. connection.intent + 1 # 0
    BY <1>0, LaterIntent DEF Known
  <2>. QED  BY <1>0, <1>1, <2>1 DEF WantedOrIdle, PausedIsPending, Known
<1>7. LaunchIsNotForgotten' /\ UserComesFirst' /\ OfflineIsCurrent' /\ LaunchWaits' /\ LaunchIsFirst'
  BY <1>2, <1>3
  DEF NetworkInv, LaunchIsNotForgotten, UserComesFirst, OfflineIsCurrent, LaunchWaits, LaunchIsFirst, SamePlace
<1>. QED  BY <1>4, <1>5, <1>6, <1>7 DEF NetworkInv

\* connect() of a connection that is wanted changes nothing.
LEMMA ConnectsStep ==
  ASSUME NetworkInv, Connects, startup # "unstarted", UNCHANGED <<network, baseline>>, userActed' \in BOOLEAN,
         connection.wanted => startup \notin {"waits for a sample", "timer"} \/ ~userActed'
  PROVE  NetworkInv'
<1>1. CASE connection.wanted
  <2>1. UNCHANGED <<network, baseline, startup, connection, rec, launch>>
    BY <1>1 DEF Connects
  <2>2. NetworkTypeOK' /\ UserComesFirst' /\ LaunchIsFirst'
    BY <1>1, <2>1 DEF NetworkInv, NetworkTypeOK, UserComesFirst, LaunchIsFirst
  <2>3. /\ LaunchIsNotForgotten' /\ OfflineIsCurrent' /\ PausedIsPending'
        /\ WantedOrIdle' /\ IntentsOfNow' /\ LaunchWaits'
    BY <2>1 DEF NetworkInv, LaunchIsNotForgotten, OfflineIsCurrent, PausedIsPending, WantedOrIdle,
                IntentsOfNow, LaunchWaits, LiveIntent
  <2>. QED  BY <2>2, <2>3 DEF NetworkInv
<1>2. CASE ~connection.wanted
  BY <1>2, IntentStep DEF Connects
<1>. QED  BY <1>1, <1>2

LEMMA UserSteps == NetworkInv /\ (UserConnects \/ UserDisconnects \/ \E b \in BOOLEAN : TimerFires(b)) => NetworkInv'
<1>1. ASSUME NetworkInv, UserConnects PROVE NetworkInv'
  <2>1. connection.wanted => startup \notin {"waits for a sample", "timer"}
    BY <1>1 DEF NetworkInv, UserComesFirst, WantedOrIdle, LaunchIsFirst
  <2>. QED  BY <1>1, <2>1, ConnectsStep DEF UserConnects
<1>2. ASSUME NetworkInv, UserDisconnects PROVE NetworkInv'
  BY <1>2, IntentStep DEF UserDisconnects
<1>3. ASSUME NetworkInv, NEW b \in BOOLEAN, TimerFires(b) PROVE NetworkInv'
  <2>1. CASE b
    <3>1. Connects /\ startup = "timer" /\ UNCHANGED <<network, baseline>> /\ userActed' = userActed
      BY <1>3, <2>1 DEF TimerFires
    <3>2. ~userActed /\ userActed \in BOOLEAN
      BY <1>3, <3>1 DEF NetworkInv, UserComesFirst, NetworkTypeOK
    <3>. QED  BY <1>3, <3>1, <3>2, ConnectsStep
  <2>2. CASE ~b
    <3>1. startup = "timer" /\ startup' = "done" /\ UNCHANGED <<network, baseline, connection, rec, launch, userActed>>
      BY <1>3, <2>2 DEF TimerFires
    <3>. QED
      BY <1>3, <3>1 DEF NetworkInv, NetworkTypeOK, LaunchIsNotForgotten, UserComesFirst, OfflineIsCurrent,
                 PausedIsPending, WantedOrIdle, IntentsOfNow, LaunchWaits, LaunchIsFirst, LiveIntent
  <2>. QED  BY <2>1, <2>2
<1>. QED  BY <1>1, <1>2, <1>3

\* The launch ends, waits, or begins an intent that is paused at once.
LEMMA SampleStep ==
  ASSUME NetworkInv, NEW sample \in {"online", "offline"}, NEW eligible \in BOOLEAN, FollowsSample(sample, eligible),
         startup \in {"unstarted", "waits for a sample"}, baseline' = sample, UNCHANGED <<network, userActed>>
  PROVE  NetworkInv'
<1>0. Known /\ NetworkTypeOK
  BY Known0 DEF NetworkInv
<1>2. connection.intent = 0 /\ baseline = "none" /\ ~userActed
  BY DEF NetworkInv, LaunchIsFirst, UserComesFirst
<1>3. CASE startup' \in {"done", "timer"} /\ UNCHANGED <<connection, rec, launch>>
  BY <1>2, <1>3 DEF NetworkInv, NetworkTypeOK, LaunchIsNotForgotten, UserComesFirst, OfflineIsCurrent,
                    PausedIsPending, WantedOrIdle, IntentsOfNow, LaunchWaits, LaunchIsFirst, LiveIntent
<1>4. CASE /\ sample = "offline" /\ startup' = "paused"
           /\ FreshIntent(TRUE, "paused") /\ launch' = connection'.intent
           /\ rec' = [WithoutPending(rec) EXCEPT !.offline = TRUE, !.pending = connection'.intent]
  <2>1. /\ connection' \in Connection /\ connection'.intent = connection.intent + 1
        /\ connection'.phase = "paused" /\ connection'.wanted = TRUE
    BY <1>0, <1>4, Fresh
  <2>2. connection'.intent \in 0 .. MaxIntents /\ connection'.intent # 0
    BY <1>0, <2>1, LaterIntent DEF Connection, Known
  <2> DEFINE q == WithoutPending(rec)
  <2>3. q \in Recovery /\ q.resuming = rec.resuming /\ q.initial = 0 /\ q.timer = FALSE
    BY <1>0, Cleared DEF Known, SamePlace
  <2>. HIDE DEF q
  <2>4. /\ rec' \in Recovery /\ rec'.offline /\ rec'.pending = connection'.intent
        /\ rec'.resuming = rec.resuming /\ rec'.initial = 0 /\ rec'.timer = FALSE
    <3>1. rec' = [q EXCEPT !.offline = TRUE, !.pending = connection'.intent]
      BY <1>4 DEF q
    <3>2. rec' \in Recovery
      BY <2>2, <2>3, <3>1 DEF Recovery
    <3>3. rec'.offline /\ rec'.pending = connection'.intent
      BY <2>3, <3>1 DEF Recovery
    <3>4. rec'.resuming = rec.resuming /\ rec'.initial = 0 /\ rec'.timer = FALSE
      BY <2>3, <3>1 DEF Recovery
    <3>. QED  BY <3>2, <3>3, <3>4
  <2>5. NetworkTypeOK'
    BY <1>0, <1>4, <2>1, <2>2, <2>4 DEF NetworkTypeOK, Recovery, Connection
  <2>6. rec.resuming = 0
    BY <1>0, <1>2, IntentBounds DEF NetworkInv, IntentsOfNow, Known
  <2>7. IntentsOfNow'
    <3>1. 0 <= connection'.intent
      BY <2>2, IntentBounds
    <3>. QED  BY <2>4, <2>6, <3>1 DEF IntentsOfNow
  <2>8. LaunchIsNotForgotten' /\ PausedIsPending' /\ WantedOrIdle'
    BY <1>4, <2>1, <2>2, <2>4 DEF LaunchIsNotForgotten, PausedIsPending, WantedOrIdle, LiveIntent
  <2>9. UserComesFirst' /\ OfflineIsCurrent' /\ LaunchWaits' /\ LaunchIsFirst'
    BY <1>4, <2>1, <2>2, <2>4, <2>6 DEF UserComesFirst, OfflineIsCurrent, LaunchWaits, LaunchIsFirst
  <2>. QED  BY <2>5, <2>7, <2>8, <2>9 DEF NetworkInv
<1>. QED  BY <1>3, <1>4 DEF FollowsSample

LEMMA LaunchSteps == NetworkInv /\ (Starts \/ FirstSample \/ WaitTimesOut) => NetworkInv'
<1>1. ASSUME NetworkInv, Starts PROVE NetworkInv'
  <2>1. startup = "unstarted" /\ UNCHANGED <<network, userActed>>
    BY <1>1 DEF Starts
  <2>2. CASE network = "unknown"
    <3>1. startup' = "waits for a sample" /\ UNCHANGED <<network, baseline, connection, rec, launch, userActed>>
      BY <1>1, <2>1, <2>2 DEF Starts
    <3>2. NetworkTypeOK'
      BY <1>1, <2>1, <3>1 DEF NetworkInv, NetworkTypeOK
    <3>3. ~userActed /\ connection.intent = 0 /\ baseline = "none"
      BY <1>1, <2>1 DEF NetworkInv, LaunchIsFirst
    <3>4. UserComesFirst' /\ LaunchIsFirst'
      BY <3>1, <3>3 DEF UserComesFirst, LaunchIsFirst
    <3>5. LaunchIsNotForgotten' /\ OfflineIsCurrent' /\ LaunchWaits'
      BY <1>1, <2>1, <3>1 DEF NetworkInv, LaunchIsNotForgotten, OfflineIsCurrent, LaunchWaits
    <3>6. PausedIsPending' /\ WantedOrIdle' /\ IntentsOfNow'
      BY <1>1, <3>1 DEF NetworkInv, PausedIsPending, WantedOrIdle, IntentsOfNow
    <3>. QED  BY <3>2, <3>4, <3>5, <3>6 DEF NetworkInv
  <2>3. CASE network # "unknown"
    <3>1. network \in {"online", "offline"}
      BY <1>1, <2>3 DEF NetworkInv, NetworkTypeOK
    <3>2. baseline' = network /\ \E eligible \in BOOLEAN : FollowsSample(network, eligible)
      BY <1>1, <2>3 DEF Starts
    <3>. QED  BY <1>1, <2>1, <3>1, <3>2, SampleStep
  <2>. QED  BY <2>2, <2>3
<1>2. ASSUME NetworkInv, FirstSample PROVE NetworkInv'
  <2>1. network \in {"online", "offline"} /\ baseline' = network /\ baseline = "none" /\ UNCHANGED <<network, userActed>>
    BY <1>2 DEF NetworkInv, NetworkTypeOK, FirstSample
  <2>2. CASE startup = "waits for a sample"
    BY <1>2, <2>1, <2>2, SampleStep DEF FirstSample
  <2>3. CASE startup # "waits for a sample"
    <3>1. startup # "unstarted" /\ UNCHANGED <<network, startup, connection, rec, launch, userActed>>
      BY <1>2, <2>3 DEF FirstSample
    <3>2. NetworkTypeOK'
      BY <1>2, <2>1, <2>3, <3>1 DEF NetworkInv, NetworkTypeOK
    <3>3. UserComesFirst'
      BY <1>2, <3>1 DEF NetworkInv, UserComesFirst
    <3>4. LaunchIsFirst'
      BY <2>3, <3>1 DEF LaunchIsFirst
    <3>5. LaunchIsNotForgotten' /\ LaunchWaits' /\ OfflineIsCurrent'
      BY <1>2, <2>1, <3>1 DEF NetworkInv, LaunchIsNotForgotten, OfflineIsCurrent, LaunchWaits, LiveIntent
    <3>6. PausedIsPending' /\ WantedOrIdle' /\ IntentsOfNow'
      BY <1>2, <3>1 DEF NetworkInv, PausedIsPending, WantedOrIdle, IntentsOfNow
    <3>. QED  BY <3>2, <3>3, <3>4, <3>5, <3>6 DEF NetworkInv
  <2>. QED  BY <2>2, <2>3
<1>3. ASSUME NetworkInv, WaitTimesOut PROVE NetworkInv'
  BY <1>3 DEF WaitTimesOut, NetworkInv, NetworkTypeOK, LaunchIsNotForgotten, UserComesFirst, OfflineIsCurrent,
       PausedIsPending, WantedOrIdle, IntentsOfNow, LaunchWaits, LaunchIsFirst, LiveIntent
<1>. QED  BY <1>1, <1>2, <1>3

\* The end of a connection, and the changes of the network itself.
LEMMA OutsideSteps == NetworkInv /\ (ConnectionEnds \/ NetworkChanges \/ UNCHANGED networkVars) => NetworkInv'
<1>1. ASSUME NetworkInv, ConnectionEnds PROVE NetworkInv'
  <2>1. /\ connection.phase = "under way" /\ UNCHANGED <<network, baseline, startup, rec, launch, userActed>>
        /\ connection' = [connection EXCEPT !.phase = "idle", !.wanted = FALSE]
    BY <1>1 DEF ConnectionEnds
  <2>2. /\ connection' \in Connection /\ connection'.phase = "idle"
        /\ ~connection'.wanted /\ connection'.intent = connection.intent
    BY <1>1, <2>1, Known0 DEF Known, Connection
  <2>. QED
    BY <1>1, <2>1, <2>2 DEF NetworkInv, NetworkTypeOK, Connection, LaunchIsNotForgotten, UserComesFirst,
         OfflineIsCurrent, PausedIsPending, WantedOrIdle, IntentsOfNow, LaunchWaits, LaunchIsFirst
<1>2. ASSUME NetworkInv, NetworkChanges PROVE NetworkInv'
  BY <1>2 DEF NetworkChanges, NetworkInv, NetworkTypeOK, LaunchIsNotForgotten, UserComesFirst, OfflineIsCurrent,
       PausedIsPending, WantedOrIdle, IntentsOfNow, LaunchWaits, LaunchIsFirst, LiveIntent
<1>3. ASSUME NetworkInv, UNCHANGED networkVars PROVE NetworkInv'
  <2>1. UNCHANGED <<network, baseline, startup, connection, rec, launch, userActed>>
    BY <1>3 DEF networkVars
  <2>2. NetworkTypeOK'
    <3>1. NetworkTypeOK
      BY <1>3 DEF NetworkInv
    <3>2. network' \in {"online", "offline", "unknown"} /\ baseline' \in {"none", "online", "offline"}
      BY <2>1, <3>1 DEF NetworkTypeOK
    <3>3. connection' \in Connection /\ rec' \in Recovery
      BY <2>1, <3>1, Shapes
    <3>4. startup' \in {"unstarted", "waits for a sample", "timer", "paused", "done"}
          /\ launch' \in 0 .. MaxIntents /\ userActed' \in BOOLEAN
      BY <2>1, <3>1 DEF NetworkTypeOK
    <3>. QED  BY <3>2, <3>3, <3>4 DEF NetworkTypeOK, Connection, Recovery
  <2>3. LaunchIsNotForgotten' /\ UserComesFirst' /\ OfflineIsCurrent' /\ PausedIsPending'
    BY <1>3, <2>1 DEF NetworkInv, LaunchIsNotForgotten, UserComesFirst, OfflineIsCurrent, PausedIsPending, LiveIntent
  <2>4. WantedOrIdle' /\ IntentsOfNow' /\ LaunchWaits' /\ LaunchIsFirst'
    BY <1>3, <2>1 DEF NetworkInv, WantedOrIdle, IntentsOfNow, LaunchWaits, LaunchIsFirst
  <2>. QED  BY <2>2, <2>3, <2>4 DEF NetworkInv
<1>. QED  BY <1>1, <1>2, <1>3

\* The timer of recovery, which never is the one of a launch that is paused.
LEMMA RecoveryFiresStep ==
  ASSUME NetworkInv, NEW autoReconnect \in BOOLEAN, RecoveryFires(autoReconnect)
  PROVE  NetworkInv'
<1>0. Known /\ NetworkTypeOK
  BY Known0 DEF NetworkInv
<1>1. /\ rec.timer /\ launch' = 0 /\ startup # "paused" /\ rec.pending = connection.intent /\ rec.pending # 0
      /\ UNCHANGED <<network, baseline, startup, userActed>>
  BY DEF RecoveryFires, NetworkInv, LaunchWaits, IntentsOfNow
<1> DEFINE q == WithoutPending(rec)
<1>2. q \in Recovery /\ SamePlace(rec, q) /\ q.pending = 0 /\ q.initial = 0 /\ q.timer = FALSE
  BY <1>0, Cleared DEF Known
<1>3. \/ rec' = [q EXCEPT !.resuming = rec.pending] /\ UNCHANGED connection
      \/ rec' = q /\ connection' = [connection EXCEPT !.phase = "idle", !.wanted = FALSE]
  BY DEF RecoveryFires
<1>. HIDE DEF q
<1>4. CASE rec' = [q EXCEPT !.resuming = rec.pending] /\ UNCHANGED connection
  <2>1. rec' \in Recovery
    BY <1>0, <1>2, <1>4 DEF Recovery, Known
  <2>2. /\ rec'.resuming = rec.pending /\ rec'.offline = rec.offline
        /\ rec'.pending = 0 /\ rec'.initial = 0 /\ rec'.timer = FALSE
    BY <1>2, <1>4 DEF Recovery, SamePlace
  <2>3. NetworkTypeOK'
    BY <1>0, <1>1, <1>4, <2>1, NoIntent DEF NetworkTypeOK, Recovery
  <2>4. IntentsOfNow'
    <3>1. connection.intent <= connection.intent /\ 0 <= connection.intent
      BY <1>0, IntentBounds DEF Known
    <3>. QED  BY <1>1, <1>4, <2>2, <3>1 DEF IntentsOfNow
  <2>5. PausedIsPending' /\ WantedOrIdle' /\ LaunchIsFirst' /\ OfflineIsCurrent'
    BY <1>1, <1>4, <2>2
    DEF NetworkInv, PausedIsPending, WantedOrIdle, LaunchIsFirst, OfflineIsCurrent
  <2>6. LaunchIsNotForgotten' /\ LaunchWaits' /\ UserComesFirst'
    BY <1>1, <1>4 DEF NetworkInv, LaunchIsNotForgotten, LaunchWaits, UserComesFirst
  <2>. QED  BY <2>3, <2>4, <2>5, <2>6 DEF NetworkInv
<1>5. CASE rec' = q /\ connection' = [connection EXCEPT !.phase = "idle", !.wanted = FALSE]
  <2>1. /\ connection' \in Connection /\ connection'.phase = "idle"
        /\ connection'.wanted = FALSE /\ connection'.intent = connection.intent
    BY <1>0, <1>5 DEF Known, Connection
  <2>2. NetworkTypeOK'
    BY <1>0, <1>1, <1>2, <1>5, <2>1, NoIntent DEF NetworkTypeOK, Recovery, Connection
  <2>3. IntentsOfNow'
    <3>1. 0 <= connection.intent
      BY <1>0, IntentBounds DEF Known
    <3>. QED  BY <1>2, <1>5, <2>1, <3>1 DEF NetworkInv, IntentsOfNow, SamePlace
  <2>4. PausedIsPending' /\ WantedOrIdle' /\ LaunchIsFirst' /\ OfflineIsCurrent'
    BY <1>1, <1>2, <1>5, <2>1
    DEF NetworkInv, PausedIsPending, WantedOrIdle, LaunchIsFirst, OfflineIsCurrent, SamePlace
  <2>5. LaunchIsNotForgotten' /\ LaunchWaits' /\ UserComesFirst'
    BY <1>1, <2>1 DEF NetworkInv, LaunchIsNotForgotten, LaunchWaits, UserComesFirst
  <2>. QED  BY <2>2, <2>3, <2>4, <2>5 DEF NetworkInv
<1>. QED  BY <1>3, <1>4, <1>5

\* A launch that still waits is not the one that is resumed.
LEMMA RecoveryResumesStep ==
  ASSUME NetworkInv, NEW stopped \in BOOLEAN, RecoveryResumes(stopped)
  PROVE  NetworkInv'
<1>0. Known /\ NetworkTypeOK
  BY Known0 DEF NetworkInv
<1>1. /\ rec.resuming # 0 /\ rec' = [rec EXCEPT !.resuming = 0]
      /\ UNCHANGED <<network, baseline, startup, launch, userActed>>
      /\ \/ rec.resuming # LiveIntent /\ connection' = connection
         \/ rec.resuming = LiveIntent /\ connection' = [connection EXCEPT !.phase = "under way"]
         \/ rec.resuming = LiveIntent /\ connection' = [connection EXCEPT !.phase = "idle", !.wanted = FALSE]
  BY DEF RecoveryResumes
<1>2. rec' \in Recovery
  BY <1>0, <1>1, NoIntent DEF Recovery, Known
<1>3. /\ rec'.resuming = 0 /\ rec'.pending = rec.pending /\ rec'.initial = rec.initial
      /\ rec'.timer = rec.timer /\ rec'.offline = rec.offline /\ rec'.suspended = rec.suspended
  BY <1>0, <1>1 DEF Known, Recovery
<1>4. /\ connection' \in Connection /\ connection'.intent = connection.intent
      /\ \/ connection' = connection /\ rec.resuming # LiveIntent
         \/ connection'.phase = "under way" /\ connection'.wanted /\ rec.resuming = LiveIntent
         \/ connection'.phase = "idle" /\ ~connection'.wanted /\ rec.resuming = LiveIntent
  <2>1. CASE rec.resuming # LiveIntent /\ connection' = connection
    BY <1>0, <2>1 DEF Known
  <2>2. CASE rec.resuming = LiveIntent /\ connection' = [connection EXCEPT !.phase = "under way"]
    <3>1. connection.wanted
      BY <1>1, <2>2 DEF LiveIntent
    <3>2. connection' \in Connection
      BY <1>0, <2>2 DEF Known, Connection
    <3>3. connection'.intent = connection.intent /\ connection'.phase = "under way" /\ connection'.wanted = connection.wanted
      BY <1>0, <2>2 DEF Known, Connection
    <3>. QED  BY <2>2, <3>1, <3>2, <3>3
  <2>3. CASE rec.resuming = LiveIntent /\ connection' = [connection EXCEPT !.phase = "idle", !.wanted = FALSE]
    <3>1. connection' \in Connection
      BY <1>0, <2>3 DEF Known, Connection
    <3>2. connection'.intent = connection.intent /\ connection'.phase = "idle" /\ connection'.wanted = FALSE
      BY <1>0, <2>3 DEF Known, Connection
    <3>. QED  BY <2>3, <3>1, <3>2
  <2>. QED  BY <1>1, <2>1, <2>2, <2>3
<1>5. launch = 0 \/ connection' = connection
  BY <1>4 DEF NetworkInv, LaunchIsNotForgotten, LaunchWaits
<1>6. NetworkTypeOK'
  BY <1>0, <1>1, <1>2, <1>4 DEF NetworkTypeOK, Recovery, Connection
<1>7. IntentsOfNow'
  <2>1. 0 <= connection.intent
    BY <1>0, IntentBounds DEF Known
  <2>. QED  BY <1>3, <1>4, <2>1 DEF NetworkInv, IntentsOfNow
<1>8. WantedOrIdle' /\ PausedIsPending'
  <2>1. connection.intent = 0 => LiveIntent = 0
    BY DEF LiveIntent
  <2>2. connection.phase = "paused" => LiveIntent = connection.intent
    BY DEF NetworkInv, WantedOrIdle, LiveIntent
  <2>. QED  BY <1>1, <1>3, <1>4, <2>1, <2>2 DEF NetworkInv, WantedOrIdle, PausedIsPending
<1>9. LaunchIsNotForgotten' /\ LaunchWaits'
  BY <1>1, <1>3, <1>5 DEF NetworkInv, LaunchIsNotForgotten, LaunchWaits, LiveIntent
<1>10. UserComesFirst' /\ OfflineIsCurrent' /\ LaunchIsFirst'
  BY <1>1, <1>3, <1>4 DEF NetworkInv, UserComesFirst, OfflineIsCurrent, LaunchIsFirst
<1>. QED  BY <1>6, <1>7, <1>8, <1>9, <1>10 DEF NetworkInv

-----------------------------------------------------------------------------

LEMMA NetworkInvInit == NetworkInit => NetworkInv
<1> SUFFICES ASSUME NetworkInit PROVE NetworkInv
  OBVIOUS
<1>1. NetworkTypeOK
  BY NoIntent DEF NetworkInit, NetworkTypeOK, Quiet
<1>2. IntentsOfNow /\ WantedOrIdle /\ PausedIsPending
  BY DEF NetworkInit, Quiet, IntentsOfNow, WantedOrIdle, PausedIsPending
<1>3. LaunchIsNotForgotten /\ UserComesFirst /\ OfflineIsCurrent /\ LaunchWaits /\ LaunchIsFirst
  BY DEF NetworkInit, Quiet, LaunchIsNotForgotten, UserComesFirst, OfflineIsCurrent, LaunchWaits, LaunchIsFirst
<1>. QED  BY <1>1, <1>2, <1>3 DEF NetworkInv

LEMMA NetworkInvStep == NetworkInv /\ [NetworkNext]_networkVars => NetworkInv'
BY SeesOfflineStep, SeesOnlineStep, MachineSleepsStep, MachineWakesStep, UserSteps, LaunchSteps, OutsideSteps,
   RecoveryFiresStep, RecoveryResumesStep
   DEF NetworkNext

\* The connection a launch makes by itself is safe for any number of intents: a
\* launch that was paused offline is not forgotten and does nothing after the user
\* acted, and no connection waits for a change that was reported already
\* (NetworkStartupCoordinator, ConnectivityRecovery).
THEOREM StartupCorrect == NetworkSpec => []StartupSafety
<1>1. NetworkInv => StartupSafety
  BY DEF NetworkInv, StartupSafety
<1>. QED  BY NetworkInvInit, NetworkInvStep, <1>1, PTL DEF NetworkSpec

-----------------------------------------------------------------------------
(* Secondary authentication, for any number of requests and challenges.  The  *)
(* engine, the two directions of the pipe and the prompt are related by the   *)
(* order of the requests and by the last challenge that was told.             *)

Engines == [session : BOOLEAN, provider : {"open", "cancelled", "authenticated"},
            epoch : 1..MaxEpoch, steps : 1..MaxSteps, submits : 0..MaxSubmits,
            resends : 0..MaxResends, calls : 0..MaxGatewayRequests, seen : SUBSET RequestIds,
            expired : BOOLEAN, running : BOOLEAN]
Frames == [id : RequestIds, epoch : 1..MaxEpoch, name : AuthCommands]
Carrying == {"required", "challenge"}
Terminal == {"complete", "cancelled", "transaction_closed", "challenge_expired", "limit_exceeded"}
MessageTypes == {"required", "challenge", "complete", "cancelled"} \cup ErrorCodes
Messages == [type : MessageTypes, id : RequestIds \cup {0}, epoch : Epochs]
Pendings == [name : AuthCommands \cup {"none"}, user : BOOLEAN]
Clients == [challenge : Epochs, next : 1..MaxRequestId + 1, pending : [RequestIds -> Pendings], closed : BOOLEAN]
Coordinators == [bound : BOOLEAN, view : Epochs, inFlight : BOOLEAN, timer : BOOLEAN, current : BOOLEAN]

AuthTypes == /\ engine \in Engines /\ toEngine \in Seq(Frames) /\ toApp \in Seq(Messages)
             /\ client \in Clients /\ coord \in Coordinators

\* The transaction is over: no command changes it any more.
Over(e) == e.session = FALSE \/ e.provider # "open"
ReleasedAtTheGateway(e) == e.session = FALSE => e.provider # "open"

\* What is under way is not ahead of the engine.
EpochsBehind(e, c, frames, messages) ==
  /\ c.challenge <= e.epoch
  /\ \A n \in 1..Len(frames) : frames[n].epoch <= e.epoch
  /\ \A n \in 1..Len(messages) : messages[n].epoch <= e.epoch

\* Requests are answered once, in order: first those in the output, then those in the pipe.
Ordered(c, frames, messages) ==
  /\ \A m, n \in 1..Len(frames) : m < n => frames[m].id < frames[n].id
  /\ \A m, n \in 1..Len(messages) : m < n /\ messages[n].id # 0 => messages[m].id < messages[n].id
  /\ \A m \in 1..Len(messages), n \in 1..Len(frames) : messages[m].id < frames[n].id
  /\ \A n \in 1..Len(frames) : frames[n].id < c.next
  /\ \A n \in 1..Len(messages) : messages[n].id < c.next

\* What has been asked is pending until it is answered.
Asked(c, frames, messages) ==
  /\ \A i \in RequestIds : i >= c.next => c.pending[i] = NotPending
  /\ c.closed => frames = <<>>
  /\ ~c.closed => /\ \A n \in 1..Len(frames) : c.pending[frames[n].id].name = frames[n].name
                  /\ \A n \in 1..Len(messages) : messages[n].id # 0 => c.pending[messages[n].id].name # "none"

\* An answer after which the client takes the challenge for over, is right.
EndingsTrue(e, c, messages) ==
  \A n \in 1..Len(messages) :
    /\ messages[n].type \in Terminal => Over(e)
    /\ messages[n].type = "provider_failure" /\ messages[n].id # 0 =>
         Over(e) \/ c.pending[messages[n].id].name # "cancel"

\* The last challenge told is the engine's.
LatestTold(e, c, messages) ==
  \/ /\ c.challenge = e.epoch
     /\ \A n \in 1..Len(messages) : messages[n].type \notin Carrying
  \/ \E n \in 1..Len(messages) :
       /\ messages[n].type \in Carrying /\ messages[n].epoch = e.epoch
       /\ \A k \in 1..Len(messages) : k > n => messages[k].type \notin Carrying
Informed(e, c, messages) == ~c.closed /\ ~Over(e) => LatestTold(e, c, messages)

PromptShown(c, k) ==
  k.view # 0 => k.bound /\ (k.current => k.view = c.challenge /\ ~c.closed)

OneActs(c, k) ==
  /\ \A i, j \in RequestIds : c.pending[i].user /\ c.pending[j].user => i = j
  /\ k.bound => (k.inFlight <=> \E i \in RequestIds : c.pending[i].user)

AuthInv ==
  /\ AuthTypes /\ ReleasedAtTheGateway(engine)
  /\ EpochsBehind(engine, client, toEngine, toApp) /\ Ordered(client, toEngine, toApp)
  /\ Asked(client, toEngine, toApp) /\ EndingsTrue(engine, client, toApp) /\ Informed(engine, client, toApp)
  /\ PromptShown(client, coord) /\ OneActs(client, coord)

-----------------------------------------------------------------------------
LEMMA BoundsAre ==
  /\ MaxEpoch \in Nat /\ MaxEpoch >= 1 /\ MaxRequestId \in Nat /\ MaxRequestId >= 1
  /\ MaxSubmits \in Nat /\ MaxResends \in Nat /\ MaxSteps \in Nat /\ MaxSteps >= 1 /\ MaxGatewayRequests \in Nat
  /\ RequestIds = 1..MaxRequestId /\ Epochs = 0..MaxEpoch
BY AuthAssumption DEF AuthAssumption, RequestIds, Epochs

LEMMA NoChallengeIs == 0 \in Epochs
BY BoundsAre

LEMMA TailIs ==
  ASSUME NEW S, NEW s \in Seq(S), s # <<>>
  PROVE  /\ Tail(s) \in Seq(S) /\ Len(s) \in Nat /\ Len(s) >= 1 /\ Len(Tail(s)) = Len(s) - 1
         /\ Head(s) = s[1] /\ Head(s) \in S
         /\ \A n \in 1..Len(Tail(s)) : Tail(s)[n] = s[n + 1] /\ n + 1 \in 1..Len(s)
OBVIOUS

LEMMA AppendIs ==
  ASSUME NEW S, NEW s \in Seq(S), NEW x \in S
  PROVE  /\ Append(s, x) \in Seq(S) /\ Len(s) \in Nat /\ Len(Append(s, x)) = Len(s) + 1
         /\ Append(s, x)[Len(s) + 1] = x
         /\ \A n \in 1..Len(s) : Append(s, x)[n] = s[n]
OBVIOUS

LEMMA NotPendingIs == NotPending \in Pendings /\ NotPending.name = "none" /\ NotPending.user = FALSE
BY DEF NotPending, Pendings

-----------------------------------------------------------------------------
(* The engine's handling of a command *)

\* A state of the engine in the course of a command.
Goes(e) == e \in Engines /\ e.epoch = engine.epoch /\ ReleasedAtTheGateway(e) /\ (Over(engine) => Over(e))

Allowed(e, name, type) ==
  /\ engine.epoch <= e.epoch /\ (e.epoch # engine.epoch => type = "challenge")
  /\ (Over(engine) => Over(e)) /\ ReleasedAtTheGateway(e)
  /\ type \in Terminal => Over(e)
  /\ type = "provider_failure" => Over(e) \/ name # "cancel"
  /\ type # "required"
Replies(id, name) == \E e \in Engines, type \in MessageTypes : Reply(e, id, type) /\ Allowed(e, name, type)

LEMMA GoesIs ==
  ASSUME NEW e, Goes(e)
  PROVE  e \in Engines /\ e.epoch = engine.epoch /\ e.epoch \in Nat /\ ReleasedAtTheGateway(e) /\ (Over(engine) => Over(e))
BY BoundsAre DEF Goes, Engines

LEMMA ReleasedIs ==
  ASSUME NEW e \in Engines
  PROVE  /\ PromptReleased(e) \in Engines /\ PromptReleased(e).session = FALSE
         /\ PromptReleased(e).provider # "open" /\ PromptReleased(e).epoch = e.epoch
         /\ PromptReleased(e).running = e.running /\ PromptReleased(e).seen = e.seen
<1>. DEFINE p == IF e.provider = "open" THEN "cancelled" ELSE e.provider
<1>1. p \in {"open", "cancelled", "authenticated"} /\ p # "open"
  BY DEF Engines
<1>2. PromptReleased(e) = [e EXCEPT !.session = FALSE, !.provider = p]
  BY DEF PromptReleased
<1>. HIDE DEF p
<1>. QED  BY <1>1, <1>2 DEF Engines

LEMMA FailsReplies ==
  ASSUME NEW e, Goes(e), NEW id, NEW name, NEW code \in ErrorCodes,
         code = "provider_failure" => name # "cancel", AuthFails(e, id, code)
  PROVE  Replies(id, name)
<1>1. e \in Engines /\ e.epoch = engine.epoch /\ e.epoch \in Nat /\ ReleasedAtTheGateway(e) /\ (Over(engine) => Over(e))
  BY GoesIs
<1>2. code \in MessageTypes /\ code # "challenge" /\ code # "required"
  BY DEF ErrorCodes, MessageTypes
<1>3. CASE code \in {"challenge_expired", "limit_exceeded", "transaction_closed"}
  <2>1. Reply(PromptReleased(e), id, code)
    BY <1>3 DEF AuthFails
  <2>. DEFINE p == PromptReleased(e)
  <2>2. p \in Engines /\ p.session = FALSE /\ p.provider # "open" /\ p.epoch = e.epoch
    BY <1>1, ReleasedIs
  <2>. HIDE DEF p
  <2>3. Allowed(p, name, code)
    BY <1>1, <2>2, <1>3 DEF Allowed, Over, ReleasedAtTheGateway
  <2>. QED  BY <1>2, <2>1, <2>2, <2>3 DEF Replies, p
<1>4. CASE code \notin {"challenge_expired", "limit_exceeded", "transaction_closed"}
  <2>1. Reply(e, id, code)
    BY <1>4 DEF AuthFails
  <2>2. Allowed(e, name, code)
    BY <1>1, <1>2, <1>4 DEF Allowed, Terminal, ErrorCodes
  <2>. QED  BY <1>1, <1>2, <2>1, <2>2 DEF Replies
<1>. QED  BY <1>3, <1>4

LEMMA ErrorCodesAre ==
  {"stale_context", "duplicate_request", "unsupported_challenge", "resend_unavailable",
   "challenge_expired", "limit_exceeded", "provider_failure", "transaction_closed"} = ErrorCodes
BY DEF ErrorCodes

\* A provider that is cancelled with its owner left.
LEMMA CancelledGoes ==
  ASSUME NEW e, Goes(e)
  PROVE  LET c == [e EXCEPT !.provider = "cancelled"] IN Goes(c) /\ Over(c)
<1>. DEFINE c == [e EXCEPT !.provider = "cancelled"]
<1>1. e \in Engines /\ e.epoch = engine.epoch
  BY GoesIs
<1>2. c \in Engines /\ c.provider = "cancelled" /\ c.epoch = e.epoch
  BY <1>1 DEF Engines
<1>. HIDE DEF c
<1>3. Goes(c) /\ Over(c)
  BY <1>1, <1>2 DEF Goes, Over, ReleasedAtTheGateway
<1>. QED  BY <1>3 DEF c

LEMMA NextChallengeReplies ==
  ASSUME NEW e, Goes(e), NEW id, NEW name, NEW isNew, NextChallenge(e, id, isNew)
  PROVE  Replies(id, name)
<1>1. e \in Engines /\ e.epoch = engine.epoch /\ e.epoch \in Nat /\ ReleasedAtTheGateway(e) /\ (Over(engine) => Over(e))
  BY GoesIs
<1>2. "challenge" \in MessageTypes
  BY DEF MessageTypes
<1>3. CASE Reply(e, id, "challenge")
  <2>1. Allowed(e, name, "challenge")
    BY <1>1 DEF Allowed, Terminal
  <2>. QED  BY <1>1, <1>2, <1>3, <2>1 DEF Replies
<1>4. CASE AuthFails([e EXCEPT !.provider = "cancelled"], id, "limit_exceeded")
  <2>1. "limit_exceeded" \in ErrorCodes
    BY ErrorCodesAre
  <2>. QED  BY <1>4, <2>1, CancelledGoes, FailsReplies
<1>5. CASE /\ e.steps < MaxSteps /\ e.epoch < MaxEpoch
           /\ Reply([e EXCEPT !.steps = @ + 1, !.epoch = @ + 1, !.expired = FALSE], id, "challenge")
  <2>. DEFINE d == [e EXCEPT !.steps = @ + 1, !.epoch = @ + 1, !.expired = FALSE]
  <2>3. e.steps + 1 \in 1..MaxSteps /\ e.epoch + 1 \in 1..MaxEpoch
    <3>1. e.steps \in 1..MaxSteps /\ e.epoch \in 1..MaxEpoch /\ e.steps < MaxSteps /\ e.epoch < MaxEpoch
      BY <1>1, <1>5 DEF Engines
    <3>. QED  BY <3>1, BoundsAre
  <2>1. /\ d \in Engines /\ d.epoch = e.epoch + 1 /\ d.session = e.session /\ d.provider = e.provider
    BY <1>1, <2>3 DEF Engines
  <2>. HIDE DEF d
  <2>2. Allowed(d, name, "challenge")
    BY <1>1, <2>1 DEF Allowed, Terminal, Over, ReleasedAtTheGateway
  <2>. QED  BY <1>2, <1>5, <2>1, <2>2 DEF Replies, d
<1>6. e.steps \in Nat /\ MaxSteps \in Nat
  BY <1>1, BoundsAre DEF Engines
<1>. QED  BY <1>3, <1>4, <1>5, <1>6 DEF NextChallenge

LEMMA GatewayReplies ==
  ASSUME NEW e, Goes(e), NEW id, NEW name \in {"respond", "resend"}, GatewayAnswers(e, id, name)
  PROVE  Replies(id, name)
<1>1. e \in Engines /\ e.epoch = engine.epoch
  BY GoesIs
<1>2. "limit_exceeded" \in ErrorCodes /\ "provider_failure" \in ErrorCodes
  BY ErrorCodesAre
<1>3. CASE AuthFails(e, id, "limit_exceeded")
  BY <1>2, <1>3, FailsReplies
<1>. DEFINE c == [e EXCEPT !.calls = @ + 1]
<1>4. CASE /\ e.calls < MaxGatewayRequests
           /\ \/ AuthFails(c, id, "provider_failure")
              \/ InvalidTransition(c, id)
              \/ name = "respond" /\ Reply([c EXCEPT !.provider = "authenticated", !.session = FALSE], id, "complete")
              \/ \E isNew : NextChallenge(c, id, isNew)
  <2>7. e.calls + 1 \in 0..MaxGatewayRequests
    <3>1. e.calls \in 0..MaxGatewayRequests /\ e.calls < MaxGatewayRequests
      BY <1>1, <1>4 DEF Engines
    <3>. QED  BY <3>1, BoundsAre
  <2>1. c \in Engines /\ c.session = e.session /\ c.provider = e.provider /\ c.epoch = e.epoch
    BY <1>1, <2>7 DEF Engines
  <2>. HIDE DEF c
  <2>2. Goes(c)
    BY <1>1, <2>1 DEF Goes, Over, ReleasedAtTheGateway
  <2>3. CASE AuthFails(c, id, "provider_failure")
    BY <1>2, <2>2, <2>3, FailsReplies
  <2>4. CASE InvalidTransition(c, id)
    <3>. DEFINE d == [c EXCEPT !.provider = "cancelled"]
    <3>1. Goes(d) /\ Over(d)
      BY <2>2, CancelledGoes
    <3>2. Reply(d, id, "provider_failure") /\ "provider_failure" \in MessageTypes
      BY <1>2, <2>4 DEF InvalidTransition, MessageTypes
    <3>. HIDE DEF d
    <3>3. Allowed(d, name, "provider_failure") /\ d \in Engines
      BY <3>1, GoesIs DEF Allowed, Terminal
    <3>. QED  BY <3>2, <3>3 DEF Replies
  <2>5. CASE Reply([c EXCEPT !.provider = "authenticated", !.session = FALSE], id, "complete")
    <3>. DEFINE d == [c EXCEPT !.provider = "authenticated", !.session = FALSE]
    <3>1. d \in Engines /\ d.provider = "authenticated" /\ d.session = FALSE /\ d.epoch = c.epoch
      BY <2>1 DEF Engines
    <3>. HIDE DEF d
    <3>2. c.epoch = engine.epoch /\ c.epoch \in Nat
      BY <2>2, GoesIs
    <3>3. Allowed(d, name, "complete") /\ "complete" \in MessageTypes
      BY <3>1, <3>2 DEF Allowed, Over, ReleasedAtTheGateway, MessageTypes
    <3>. QED  BY <2>5, <3>1, <3>3 DEF Replies, d
  <2>6. CASE \E isNew : NextChallenge(c, id, isNew)
    BY <2>2, <2>6, NextChallengeReplies
  <2>. QED  BY <1>4, <2>3, <2>4, <2>5, <2>6
<1>5. e.calls \in Nat /\ MaxGatewayRequests \in Nat
  BY <1>1, BoundsAre DEF Engines
<1>6. CASE e.calls >= MaxGatewayRequests
  BY <1>3, <1>6 DEF GatewayAnswers
<1>7. CASE e.calls < MaxGatewayRequests
  <2>1. ~(e.calls >= MaxGatewayRequests)
    BY <1>5, <1>7
  <2>2. \/ AuthFails(c, id, "provider_failure")
        \/ InvalidTransition(c, id)
        \/ name = "respond" /\ Reply([c EXCEPT !.provider = "authenticated", !.session = FALSE], id, "complete")
        \/ \E isNew : NextChallenge(c, id, isNew)
    BY <2>1 DEF GatewayAnswers
  <2>. QED  BY <1>4, <1>7, <2>2
<1>. QED  BY <1>5, <1>6, <1>7

LEMMA SeenGoes ==
  ASSUME NEW e, Goes(e), NEW id \in RequestIds
  PROVE  Goes([e EXCEPT !.seen = @ \cup {id}])
<1>. DEFINE c == [e EXCEPT !.seen = @ \cup {id}]
<1>1. e \in Engines /\ e.epoch = engine.epoch
  BY GoesIs
<1>2. c \in Engines /\ c.session = e.session /\ c.provider = e.provider /\ c.epoch = e.epoch
  BY <1>1 DEF Engines
<1>. HIDE DEF c
<1>3. Goes(c)
  BY <1>1, <1>2 DEF Goes, Over, ReleasedAtTheGateway
<1>. QED  BY <1>3 DEF c

LEMMA EngineGoes ==
  ASSUME AuthInv
  PROVE  Goes(engine)
BY DEF AuthInv, AuthTypes, Goes

LEMMA RespondReplies ==
  ASSUME AuthInv, NEW r \in Frames, r.name = "respond", EngineRespond(r)
  PROVE  Replies(r.id, r.name)
<1>. DEFINE e == [engine EXCEPT !.seen = @ \cup {r.id}]
            d == [e EXCEPT !.submits = @ + 1]
<1>1. r.id \in RequestIds /\ Goes(engine)
  BY EngineGoes DEF Frames
<1>2. Goes(e)
  BY <1>1, SeenGoes
<1>3. /\ "unsupported_challenge" \in ErrorCodes /\ "limit_exceeded" \in ErrorCodes
  BY ErrorCodesAre
<1>. HIDE DEF e
<1>4. \/ AuthFails(engine, r.id, "unsupported_challenge")
      \/ e.submits >= MaxSubmits /\ AuthFails(e, r.id, "limit_exceeded")
      \/ ~(e.submits >= MaxSubmits) /\ GatewayAnswers(d, r.id, "respond")
  BY DEF EngineRespond, e
<1>5. CASE AuthFails(engine, r.id, "unsupported_challenge")
  BY <1>1, <1>3, <1>5, FailsReplies
<1>6. CASE AuthFails(e, r.id, "limit_exceeded")
  BY <1>2, <1>3, <1>6, FailsReplies
<1>7. CASE ~(e.submits >= MaxSubmits) /\ GatewayAnswers(d, r.id, "respond")
  <2>1. e \in Engines /\ e.submits + 1 \in 0..MaxSubmits /\ e.epoch = engine.epoch
    <3>1. e \in Engines /\ e.submits \in 0..MaxSubmits /\ ~(e.submits >= MaxSubmits) /\ e.epoch = engine.epoch
      BY <1>2, <1>7, GoesIs DEF Engines
    <3>. QED  BY <3>1, BoundsAre
  <2>2. d \in Engines /\ d.session = e.session /\ d.provider = e.provider /\ d.epoch = e.epoch
    BY <2>1 DEF Engines
  <2>. HIDE DEF d
  <2>3. Goes(d)
    BY <1>2, <2>1, <2>2 DEF Goes, Over, ReleasedAtTheGateway
  <2>. QED  BY <1>7, <2>3, GatewayReplies
<1>. QED  BY <1>4, <1>5, <1>6, <1>7

LEMMA ResendReplies ==
  ASSUME AuthInv, NEW r \in Frames, r.name = "resend", EngineResend(r)
  PROVE  Replies(r.id, r.name)
<1>. DEFINE e == [engine EXCEPT !.seen = @ \cup {r.id}]
            d == [e EXCEPT !.resends = @ + 1]
            full == e.resends >= MaxResends \/ e.steps >= MaxSteps
<1>1. r.id \in RequestIds /\ Goes(engine)
  BY EngineGoes DEF Frames
<1>2. Goes(e)
  BY <1>1, SeenGoes
<1>3. /\ "resend_unavailable" \in ErrorCodes /\ "limit_exceeded" \in ErrorCodes
  BY ErrorCodesAre
<1>. HIDE DEF e
<1>4. \/ AuthFails(engine, r.id, "resend_unavailable")
      \/ full /\ AuthFails(e, r.id, "limit_exceeded")
      \/ ~full /\ GatewayAnswers(d, r.id, "resend")
  BY DEF EngineResend, e
<1>5. CASE AuthFails(engine, r.id, "resend_unavailable")
  BY <1>1, <1>3, <1>5, FailsReplies
<1>6. CASE AuthFails(e, r.id, "limit_exceeded")
  BY <1>2, <1>3, <1>6, FailsReplies
<1>7. CASE ~full /\ GatewayAnswers(d, r.id, "resend")
  <2>1. e \in Engines /\ e.resends + 1 \in 0..MaxResends /\ e.epoch = engine.epoch
    <3>1. e \in Engines /\ e.resends \in 0..MaxResends /\ ~(e.resends >= MaxResends) /\ e.epoch = engine.epoch
      BY <1>2, <1>7, GoesIs DEF Engines
    <3>. QED  BY <3>1, BoundsAre
  <2>2. d \in Engines /\ d.session = e.session /\ d.provider = e.provider /\ d.epoch = e.epoch
    BY <2>1 DEF Engines
  <2>. HIDE DEF d
  <2>3. Goes(d)
    BY <1>2, <2>1, <2>2 DEF Goes, Over, ReleasedAtTheGateway
  <2>. QED  BY <1>7, <2>3, GatewayReplies
<1>. QED  BY <1>4, <1>5, <1>6, <1>7

LEMMA CancelReplies ==
  ASSUME AuthInv, NEW r \in Frames, EngineCancel(r)
  PROVE  Replies(r.id, r.name)
<1>. DEFINE p == PromptReleased(engine)
            d == [p EXCEPT !.seen = @ \cup {r.id}]
<1>1. r.id \in RequestIds /\ engine \in Engines
  BY DEF Frames, AuthInv, AuthTypes
<1>2. p \in Engines /\ p.session = FALSE /\ p.provider # "open" /\ p.epoch = engine.epoch
  BY <1>1, ReleasedIs
<1>3. PICK type \in {"cancelled", "provider_failure"} : Reply(d, r.id, type)
  BY DEF EngineCancel
<1>. HIDE DEF p
<1>4. d \in Engines /\ d.session = FALSE /\ d.provider # "open" /\ d.epoch = engine.epoch
  BY <1>1, <1>2 DEF Engines
<1>5. engine.epoch \in Nat
  BY <1>1, BoundsAre DEF Engines
<1>. HIDE DEF d
<1>6. Allowed(d, r.name, type) /\ type \in MessageTypes
  BY <1>4, <1>5, <1>3 DEF Allowed, Over, ReleasedAtTheGateway, MessageTypes, ErrorCodes
<1>. QED  BY <1>3, <1>4, <1>6 DEF Replies

LEMMA HandlesReplies ==
  ASSUME AuthInv, EngineHandles
  PROVE  Replies(Head(toEngine).id, Head(toEngine).name) /\ toEngine # <<>> /\ UNCHANGED <<client, coord>>
<1>1. PICK r \in Frames : r = Head(toEngine)
  BY TailIs DEF AuthInv, AuthTypes, EngineHandles
<1>2. r.id \in RequestIds /\ r.name \in AuthCommands
  BY DEF Frames
<1>3. CASE ContextError(engine, r) # "none"
  <2>1. ContextError(engine, r) \in ErrorCodes /\ ContextError(engine, r) # "provider_failure"
    BY <1>3 DEF ContextError, ErrorCodes
  <2>2. AuthFails(engine, r.id, ContextError(engine, r))
    BY <1>1, <1>3 DEF EngineHandles
  <2>3. Replies(r.id, r.name)
    BY <2>1, <2>2, EngineGoes, FailsReplies
  <2>. QED  BY <1>1, <2>3 DEF EngineHandles
<1>4. CASE ContextError(engine, r) = "none"
  <2>1. \/ r.name = "respond" /\ EngineRespond(r)
        \/ r.name = "resend" /\ EngineResend(r)
        \/ r.name = "cancel" /\ EngineCancel(r)
    BY <1>1, <1>4 DEF EngineHandles
  <2>2. Replies(r.id, r.name)
    BY <2>1, RespondReplies, ResendReplies, CancelReplies
  <2>. QED  BY <1>1, <2>2 DEF EngineHandles
<1>. QED  BY <1>3, <1>4

LEMMA AuthIs ==
  ASSUME AuthInv
  PROVE  /\ engine \in Engines /\ toEngine \in Seq(Frames) /\ toApp \in Seq(Messages)
         /\ client \in Clients /\ coord \in Coordinators
         /\ Len(toEngine) \in Nat /\ Len(toApp) \in Nat /\ engine.epoch \in 1..MaxEpoch /\ engine.epoch \in Nat
         /\ client.next \in 1..MaxRequestId + 1 /\ client.challenge \in 0..MaxEpoch
         /\ \A n \in 1..Len(toEngine) : toEngine[n] \in Frames /\ toEngine[n].id \in 1..MaxRequestId
         /\ \A n \in 1..Len(toApp) : toApp[n] \in Messages /\ toApp[n].id \in 0..MaxRequestId
         /\ \A n \in 1..Len(toEngine) : toEngine[n].epoch \in Nat /\ toEngine[n].epoch <= engine.epoch
         /\ \A n \in 1..Len(toApp) : toApp[n].epoch \in Nat /\ toApp[n].epoch <= engine.epoch
<1>1. /\ engine \in Engines /\ toEngine \in Seq(Frames) /\ toApp \in Seq(Messages)
      /\ client \in Clients /\ coord \in Coordinators
  BY DEF AuthInv, AuthTypes
<1>2. engine.epoch \in 1..MaxEpoch /\ client.next \in 1..MaxRequestId + 1 /\ client.challenge \in 0..MaxEpoch
  BY <1>1, BoundsAre DEF Engines, Clients
<1>3. \A n \in 1..Len(toEngine) : toEngine[n] \in Frames
  BY <1>1
<1>4. \A n \in 1..Len(toApp) : toApp[n] \in Messages
  BY <1>1
<1>5. /\ \A n \in 1..Len(toEngine) : toEngine[n].id \in 1..MaxRequestId
      /\ \A n \in 1..Len(toApp) : toApp[n].id \in 0..MaxRequestId
  BY <1>3, <1>4, BoundsAre DEF Frames, Messages
<1>6. \A n \in 1..Len(toEngine) : toEngine[n].epoch \in Nat
  <2>1. \A f \in Frames : f.epoch \in Nat
    BY BoundsAre DEF Frames
  <2>. QED  BY <1>3, <2>1
<1>7. \A n \in 1..Len(toApp) : toApp[n].epoch \in Nat
  <2>1. \A m \in Messages : m.epoch \in Nat
    BY BoundsAre DEF Messages
  <2>. QED  BY <1>4, <2>1
<1>8. /\ \A n \in 1..Len(toEngine) : toEngine[n].epoch <= engine.epoch
      /\ \A n \in 1..Len(toApp) : toApp[n].epoch <= engine.epoch
  BY DEF AuthInv, EpochsBehind
<1>. QED  BY <1>1, <1>2, <1>3, <1>4, <1>5, <1>6, <1>7, <1>8, BoundsAre

\* The engine answers the first command of the pipe.
LEMMA HandlesKeeps ==
  ASSUME AuthInv, EngineHandles
  PROVE  AuthInv'
<1>. DEFINE r == Head(toEngine)
<1>1. Replies(r.id, r.name) /\ toEngine # <<>> /\ UNCHANGED <<client, coord>>
  BY HandlesReplies
<1>2. PICK e \in Engines, type \in MessageTypes : Reply(e, r.id, type) /\ Allowed(e, r.name, type)
  BY <1>1 DEF Replies
<1>. DEFINE ep == IF type = "challenge" THEN e.epoch ELSE 0
            m == [type |-> type, id |-> r.id, epoch |-> ep]
<1>3. engine' = e /\ toEngine' = Tail(toEngine) /\ toApp' = Append(toApp, m)
  BY <1>2 DEF Reply
<1>4. /\ engine \in Engines /\ toEngine \in Seq(Frames) /\ toApp \in Seq(Messages)
      /\ client \in Clients /\ coord \in Coordinators
      /\ Len(toEngine) \in Nat /\ Len(toApp) \in Nat /\ engine.epoch \in 1..MaxEpoch /\ engine.epoch \in Nat
      /\ client.next \in 1..MaxRequestId + 1 /\ client.challenge \in 0..MaxEpoch
      /\ \A n \in 1..Len(toEngine) : toEngine[n] \in Frames /\ toEngine[n].id \in 1..MaxRequestId
      /\ \A n \in 1..Len(toApp) : toApp[n] \in Messages /\ toApp[n].id \in 0..MaxRequestId
      /\ MaxRequestId \in Nat /\ MaxEpoch \in Nat
  BY AuthIs, BoundsAre
<1>5. /\ toEngine' \in Seq(Frames) /\ Len(toEngine) >= 1 /\ Len(toEngine') = Len(toEngine) - 1
      /\ r = toEngine[1] /\ r \in Frames /\ r.id \in 1..MaxRequestId /\ r.name \in AuthCommands
      /\ \A n \in 1..Len(toEngine') : toEngine'[n] = toEngine[n + 1] /\ n + 1 \in 1..Len(toEngine)
  <2>1. toEngine \in Seq(Frames) /\ toEngine # <<>> /\ toEngine' = Tail(toEngine) /\ r = Head(toEngine)
    BY <1>1, <1>3, <1>4
  <2>. HIDE DEF r
  <2>2. /\ toEngine' \in Seq(Frames) /\ Len(toEngine) >= 1 /\ Len(toEngine') = Len(toEngine) - 1
        /\ r = toEngine[1] /\ r \in Frames
        /\ \A n \in 1..Len(toEngine') : toEngine'[n] = toEngine[n + 1] /\ n + 1 \in 1..Len(toEngine)
    BY <2>1, TailIs
  <2>3. r.id \in 1..MaxRequestId /\ r.name \in AuthCommands
    BY <2>2, BoundsAre DEF Frames
  <2>. QED  BY <2>2, <2>3
<1>. HIDE DEF r
<1>6. e.epoch \in 1..MaxEpoch /\ e.epoch \in Nat /\ engine.epoch <= e.epoch /\ ep \in 0..MaxEpoch /\ ep <= e.epoch
  <2>1. e.epoch \in 1..MaxEpoch
    BY <1>2 DEF Engines
  <2>2. engine.epoch <= e.epoch
    BY <1>2 DEF Allowed
  <2>3. ep = e.epoch \/ ep = 0
    OBVIOUS
  <2>. HIDE DEF ep
  <2>4. e.epoch \in Nat /\ e.epoch \in 0..MaxEpoch /\ 0 \in 0..MaxEpoch /\ 0 <= e.epoch /\ e.epoch <= e.epoch
    BY <1>4, <2>1
  <2>. QED  BY <2>1, <2>2, <2>3, <2>4
<1>. HIDE DEF ep
<1>7. m \in Messages /\ m.type = type /\ m.id = r.id /\ m.epoch = ep
  BY <1>4, <1>5, <1>6, BoundsAre DEF Messages
<1>. HIDE DEF m
<1>8. /\ toApp' \in Seq(Messages) /\ Len(toApp') = Len(toApp) + 1 /\ toApp'[Len(toApp) + 1] = m
      /\ \A n \in 1..Len(toApp) : toApp'[n] = toApp[n]
  BY <1>3, <1>4, <1>7, AppendIs
<1>9. ~client.closed
  BY <1>1 DEF AuthInv, Asked
<1>10. AuthTypes'
  BY <1>1, <1>3, <1>4, <1>5, <1>8 DEF AuthTypes
<1>11. ReleasedAtTheGateway(engine')
  BY <1>2, <1>3 DEF Allowed
<1>12. EpochsBehind(engine', client', toEngine', toApp')
  <2>1. client'.challenge <= engine'.epoch
    BY <1>1, <1>3, <1>4, <1>6 DEF AuthInv, EpochsBehind
  <2>2. \A n \in 1..Len(toEngine') : toEngine'[n].epoch <= engine'.epoch
    <3>1. \A n \in 1..Len(toEngine) : toEngine[n].epoch <= engine.epoch /\ toEngine[n].epoch \in Nat
      BY AuthIs
    <3>2. \A n \in 1..Len(toEngine') : toEngine'[n].epoch <= engine.epoch /\ toEngine'[n].epoch \in Nat
      BY <1>5, <3>1
    <3>3. engine.epoch <= engine'.epoch /\ engine'.epoch \in Nat /\ engine.epoch \in Nat
      BY <1>3, <1>4, <1>6
    <3>. QED  BY <3>2, <3>3
  <2>3. \A n \in 1..Len(toApp') : toApp'[n].epoch <= engine'.epoch
    <3>1. \A n \in 1..Len(toApp) : toApp[n].epoch <= engine.epoch /\ toApp[n].epoch \in Nat
      BY AuthIs
    <3>2. \A n \in 1..Len(toApp') : n = Len(toApp) + 1 \/ n \in 1..Len(toApp)
      BY <1>4, <1>8
    <3>3. engine.epoch <= engine'.epoch /\ engine'.epoch \in Nat /\ engine.epoch \in Nat
      BY <1>3, <1>4, <1>6
    <3>4. \A n \in 1..Len(toApp) : toApp'[n].epoch <= engine'.epoch
      BY <1>8, <3>1, <3>3
    <3>5. toApp'[Len(toApp) + 1].epoch <= engine'.epoch
      BY <1>3, <1>6, <1>7, <1>8
    <3>. QED  BY <3>2, <3>4, <3>5
  <2>. QED  BY <2>1, <2>2, <2>3 DEF EpochsBehind
<1>13. \A n \in 1..Len(toApp') : n = Len(toApp) + 1 \/ n \in 1..Len(toApp)
  BY <1>4, <1>8
<1>14. /\ 1 \in 1..Len(toEngine)
       /\ \A n \in 1..Len(toEngine') : n + 1 > 1
  BY <1>4, <1>5
<1>15. Ordered(client', toEngine', toApp')
  <2>1. \A i, j \in 1..Len(toEngine') : i < j => toEngine'[i].id < toEngine'[j].id
    <3>1. \A i, j \in 1..Len(toEngine) : i < j => toEngine[i].id < toEngine[j].id
      BY DEF AuthInv, Ordered
    <3>2. \A i, j \in 1..Len(toEngine') : i < j => i + 1 < j + 1
      BY <1>4, <1>5
    <3>. QED  BY <1>5, <3>1, <3>2
  <2>2. \A i, j \in 1..Len(toApp') : i < j /\ toApp'[j].id # 0 => toApp'[i].id < toApp'[j].id
    <3>. SUFFICES ASSUME NEW i \in 1..Len(toApp'), NEW j \in 1..Len(toApp'), i < j, toApp'[j].id # 0
                  PROVE  toApp'[i].id < toApp'[j].id
      OBVIOUS
    <3>1. i \in 1..Len(toApp)
      BY <1>4, <1>8
    <3>2. CASE j \in 1..Len(toApp)
      BY <1>8, <3>1, <3>2 DEF AuthInv, Ordered
    <3>3. CASE j = Len(toApp) + 1
      BY <1>5, <1>7, <1>8, <1>14, <3>1, <3>3 DEF AuthInv, Ordered
    <3>. QED  BY <1>13, <3>2, <3>3
  <2>3. \A i \in 1..Len(toApp'), j \in 1..Len(toEngine') : toApp'[i].id < toEngine'[j].id
    <3>. SUFFICES ASSUME NEW i \in 1..Len(toApp'), NEW j \in 1..Len(toEngine')
                  PROVE  toApp'[i].id < toEngine'[j].id
      OBVIOUS
    <3>1. toEngine'[j] = toEngine[j + 1] /\ j + 1 \in 1..Len(toEngine) /\ 1 < j + 1
      BY <1>5, <1>14
    <3>2. CASE i \in 1..Len(toApp)
      BY <1>8, <3>1, <3>2 DEF AuthInv, Ordered
    <3>3. CASE i = Len(toApp) + 1
      BY <1>5, <1>7, <1>8, <1>14, <3>1, <3>3 DEF AuthInv, Ordered
    <3>. QED  BY <1>13, <3>2, <3>3
  <2>4. \A j \in 1..Len(toEngine') : toEngine'[j].id < client'.next
    BY <1>1, <1>5 DEF AuthInv, Ordered
  <2>5. \A i \in 1..Len(toApp') : toApp'[i].id < client'.next
    BY <1>1, <1>5, <1>7, <1>8, <1>13, <1>14 DEF AuthInv, Ordered
  <2>. QED  BY <2>1, <2>2, <2>3, <2>4, <2>5 DEF Ordered
<1>16. client.pending[r.id].name = r.name /\ r.id \in RequestIds /\ r.name # "none"
  BY <1>5, <1>9, <1>14, BoundsAre DEF AuthInv, Asked, AuthCommands
<1>17. Asked(client', toEngine', toApp')
  <2>1. \A n \in 1..Len(toEngine') : client.pending[toEngine'[n].id].name = toEngine'[n].name
    BY <1>5, <1>9 DEF AuthInv, Asked
  <2>2. \A n \in 1..Len(toApp') : toApp'[n].id # 0 => client.pending[toApp'[n].id].name # "none"
    BY <1>7, <1>8, <1>9, <1>13, <1>16 DEF AuthInv, Asked
  <2>. QED  BY <1>1, <1>9, <2>1, <2>2 DEF AuthInv, Asked
<1>18. Over(engine) => Over(engine')
  BY <1>2, <1>3 DEF Allowed
<1>19. EndingsTrue(engine', client', toApp')
  <2>. SUFFICES ASSUME NEW n \in 1..Len(toApp')
                PROVE  /\ toApp'[n].type \in Terminal => Over(engine')
                       /\ toApp'[n].type = "provider_failure" /\ toApp'[n].id # 0 =>
                            Over(engine') \/ client.pending[toApp'[n].id].name # "cancel"
    BY <1>1 DEF EndingsTrue
  <2>1. CASE n \in 1..Len(toApp)
    BY <1>8, <1>18, <2>1 DEF AuthInv, EndingsTrue
  <2>2. CASE n = Len(toApp) + 1
    BY <1>2, <1>3, <1>7, <1>8, <1>16, <2>2 DEF Allowed
  <2>. QED  BY <1>13, <2>1, <2>2
<1>20. Informed(engine', client', toApp')
  <2>. SUFFICES ASSUME ~Over(engine')
                PROVE  LatestTold(engine', client', toApp')
    BY DEF Informed
  <2>1. LatestTold(engine, client, toApp)
    BY <1>9, <1>18 DEF AuthInv, Informed
  <2>2. CASE type = "challenge"
    <3>1. /\ Len(toApp) + 1 \in 1..Len(toApp') /\ toApp'[Len(toApp) + 1].type \in Carrying
          /\ toApp'[Len(toApp) + 1].epoch = engine'.epoch
      BY <1>3, <1>4, <1>7, <1>8, <2>2 DEF Carrying, ep
    <3>2. \A k \in 1..Len(toApp') : ~(k > Len(toApp) + 1)
      BY <1>4, <1>8
    <3>. QED  BY <3>1, <3>2 DEF LatestTold
  <2>3. CASE type # "challenge"
    <3>1. type \notin Carrying /\ engine'.epoch = engine.epoch
      BY <1>2, <1>3, <2>3 DEF Allowed, Carrying
    <3>2. \A n \in 1..Len(toApp) : n \in 1..Len(toApp')
      BY <1>4, <1>8
    <3>. QED  BY <1>1, <1>7, <1>8, <1>13, <2>1, <3>1, <3>2 DEF LatestTold
  <2>. QED  BY <2>2, <2>3
<1>21. PromptShown(client', coord') /\ OneActs(client', coord')
  BY <1>1 DEF AuthInv, PromptShown, OneActs
<1>. QED  BY <1>10, <1>11, <1>12, <1>15, <1>17, <1>19, <1>20, <1>21 DEF AuthInv

\* Time passes at the engine: the transaction may end, and no other begins.
LEMMA EngineTimeKeeps ==
  ASSUME AuthInv, TimePasses \/ EngineExpires
  PROVE  AuthInv'
<1>1. engine \in Engines /\ UNCHANGED <<toEngine, toApp, client, coord>>
  BY AuthIs DEF TimePasses, EngineExpires
<1>2. /\ engine' \in Engines /\ engine'.epoch = engine.epoch /\ (Over(engine) => Over(engine'))
      /\ ReleasedAtTheGateway(engine')
  <2>1. CASE TimePasses
    <3>1. engine' = [engine EXCEPT !.expired = TRUE]
      BY <2>1 DEF TimePasses
    <3>2. /\ engine' \in Engines /\ engine'.epoch = engine.epoch /\ engine'.session = engine.session
          /\ engine'.provider = engine.provider
      BY <1>1, <3>1 DEF Engines
    <3>. QED  BY <3>2 DEF AuthInv, Over, ReleasedAtTheGateway
  <2>2. CASE EngineExpires
    <3>1. engine' = PromptReleased(engine)
      BY <2>2 DEF EngineExpires
    <3>. QED  BY <1>1, <3>1, ReleasedIs DEF Over, ReleasedAtTheGateway
  <2>. QED  BY <2>1, <2>2
<1>3. AuthTypes' /\ EpochsBehind(engine', client', toEngine', toApp')
  BY <1>1, <1>2 DEF AuthInv, AuthTypes, EpochsBehind
<1>4. EndingsTrue(engine', client', toApp') /\ Informed(engine', client', toApp')
  BY <1>1, <1>2 DEF AuthInv, EndingsTrue, Informed, LatestTold
<1>. QED  BY <1>1, <1>2, <1>3, <1>4 DEF AuthInv

-----------------------------------------------------------------------------
(* The client and the coordinator *)

LEMMA SettleIs ==
  ASSUME NEW c \in Clients, NEW ids
  PROVE  LET s == Settle(c, ids) IN
         /\ s \in Clients /\ s.challenge = c.challenge /\ s.next = c.next /\ s.closed = c.closed
         /\ \A i \in RequestIds : s.pending[i] = IF i \in ids THEN NotPending ELSE c.pending[i]
<1>. DEFINE g == [i \in RequestIds |-> IF i \in ids THEN NotPending ELSE c.pending[i]]
            s == Settle(c, ids)
<1>1. g \in [RequestIds -> Pendings]
  BY NotPendingIs DEF Clients
<1>2. s = [c EXCEPT !.pending = g]
  BY DEF Settle
<1>3. \A i \in RequestIds : g[i] = IF i \in ids THEN NotPending ELSE c.pending[i]
  OBVIOUS
<1>. HIDE DEF g, s
<1>4. /\ s \in Clients /\ s.challenge = c.challenge /\ s.next = c.next /\ s.closed = c.closed /\ s.pending = g
  BY <1>1, <1>2 DEF Clients
<1>. QED  BY <1>3, <1>4 DEF s

LEMMA UserSettlesIs ==
  ASSUME NEW c \in Clients, NEW k \in Coordinators, NEW ids \in SUBSET RequestIds, OneActs(c, k)
  PROVE  LET u == UserSettles(k, c, ids) IN
         /\ u \in Coordinators /\ u.bound = k.bound /\ u.view = k.view /\ u.current = k.current
         /\ OneActs(Settle(c, ids), u)
<1>. DEFINE u == UserSettles(k, c, ids)
            s == Settle(c, ids)
<1>1. /\ s \in Clients
      /\ \A i \in RequestIds : s.pending[i] = IF i \in ids THEN NotPending ELSE c.pending[i]
  BY SettleIs
<1>2. \A i \in RequestIds : s.pending[i].user => c.pending[i].user /\ i \notin ids
  BY <1>1, NotPendingIs
<1>3. \A i \in RequestIds : c.pending[i].user /\ i \notin ids => s.pending[i].user
  BY <1>1
<1>4. CASE \E i \in ids : c.pending[i].user
  <2>1. u = [k EXCEPT !.inFlight = FALSE]
    BY <1>4 DEF UserSettles
  <2>. HIDE DEF u
  <2>2. /\ u \in Coordinators /\ u.bound = k.bound /\ u.view = k.view /\ u.current = k.current /\ u.inFlight = FALSE
    BY <2>1 DEF Coordinators
  <2>3. ~ \E i \in RequestIds : s.pending[i].user
    BY <1>2, <1>4 DEF OneActs
  <2>. HIDE DEF s
  <2>4. OneActs(s, u)
    BY <2>2, <2>3 DEF OneActs
  <2>. QED  BY <2>2, <2>4 DEF u, s
<1>5. CASE ~ \E i \in ids : c.pending[i].user
  <2>1. u = k
    BY <1>5 DEF UserSettles
  <2>2. \A i \in RequestIds : s.pending[i].user <=> c.pending[i].user
    BY <1>2, <1>3, <1>5
  <2>. HIDE DEF s, u
  <2>3. OneActs(s, k)
    BY <2>2 DEF OneActs
  <2>. QED  BY <2>1, <2>3 DEF u, s
<1>. QED  BY <1>4, <1>5

\* The three things done to the prompt leave the action under way alone, or unbind it.
LEMMA ActivatedIs ==
  ASSUME NEW k \in Coordinators, NEW epoch \in Epochs, NEW expiry \in BOOLEAN, NEW c, NEW d, OneActs(d, k),
         PromptShown(c, k), d.challenge = epoch, ~d.closed
  PROVE  LET u == Activated(k, epoch, expiry) IN u \in Coordinators /\ PromptShown(d, u) /\ OneActs(d, u)
<1>. DEFINE u == Activated(k, epoch, expiry)
<1>1. CASE k.bound /\ k.current
  <2>1. u = [k EXCEPT !.view = epoch, !.timer = expiry]
    BY <1>1 DEF Activated
  <2>. HIDE DEF u
  <2>2. /\ u \in Coordinators /\ u.bound = k.bound /\ u.view = epoch /\ u.current = k.current /\ u.inFlight = k.inFlight
    BY <2>1 DEF Coordinators
  <2>3. PromptShown(d, u) /\ OneActs(d, u)
    BY <1>1, <2>2 DEF PromptShown, OneActs
  <2>. QED  BY <2>2, <2>3 DEF u
<1>2. CASE ~(k.bound /\ k.current)
  BY <1>2 DEF Activated, PromptShown
<1>. QED  BY <1>1, <1>2

LEMMA PromptClearedIs ==
  ASSUME NEW k \in Coordinators, NEW c, NEW d, OneActs(d, k), PromptShown(c, k)
  PROVE  LET u == PromptCleared(k) IN u \in Coordinators /\ PromptShown(d, u) /\ OneActs(d, u)
<1>. DEFINE u == PromptCleared(k)
<1>1. CASE k.bound /\ k.current
  <2>1. u = [k EXCEPT !.view = 0, !.timer = FALSE]
    BY <1>1 DEF PromptCleared
  <2>. HIDE DEF u
  <2>2. /\ u \in Coordinators /\ u.bound = k.bound /\ u.view = 0 /\ u.current = k.current /\ u.inFlight = k.inFlight
    BY <2>1, NoChallengeIs DEF Coordinators
  <2>3. PromptShown(d, u) /\ OneActs(d, u)
    BY <1>1, <2>2 DEF PromptShown, OneActs
  <2>. QED  BY <2>2, <2>3 DEF u
<1>2. CASE ~(k.bound /\ k.current)
  BY <1>2 DEF PromptCleared, PromptShown
<1>. QED  BY <1>1, <1>2

LEMMA DetachedIs ==
  ASSUME NEW k \in Coordinators, NEW c, NEW d, OneActs(d, k)
  PROVE  LET u == Detached(k) IN u \in Coordinators /\ PromptShown(c, u) /\ OneActs(d, u)
<1>. DEFINE u == Detached(k)
<1>1. u = [k EXCEPT !.bound = FALSE, !.view = 0, !.inFlight = FALSE, !.timer = FALSE]
  BY DEF Detached
<1>. HIDE DEF u
<1>2. u \in Coordinators /\ u.bound = FALSE /\ u.view = 0
  BY <1>1, NoChallengeIs DEF Coordinators
<1>3. PromptShown(c, u) /\ OneActs(d, u)
  BY <1>2 DEF PromptShown, OneActs
<1>. QED  BY <1>2, <1>3 DEF u

\* Only the coordinator changes.
LEMMA CoordinatorKeeps ==
  ASSUME AuthInv, UNCHANGED <<engine, toEngine, toApp, client>>, coord' \in Coordinators,
         PromptShown(client, coord'), OneActs(client, coord')
  PROVE  AuthInv'
<1>1. AuthTypes'
  BY DEF AuthInv, AuthTypes
<1>. QED  BY <1>1 DEF AuthInv

\* The application reads the first message of the engine.
LEMMA ToldOn ==
  ASSUME AuthInv, toApp # <<>>, toApp' = Tail(toApp), UNCHANGED engine, LatestTold(engine, client, toApp),
         client'.challenge = IF Head(toApp).type \in Carrying THEN Head(toApp).epoch ELSE client.challenge
  PROVE  LatestTold(engine', client', toApp')
<1>1. /\ Len(toApp) \in Nat /\ Len(toApp) >= 1 /\ Len(toApp') = Len(toApp) - 1 /\ Head(toApp) = toApp[1]
      /\ \A n \in 1..Len(toApp') : toApp'[n] = toApp[n + 1] /\ n + 1 \in 1..Len(toApp)
  BY TailIs, AuthIs
<1>2. CASE client.challenge = engine.epoch /\ \A n \in 1..Len(toApp) : toApp[n].type \notin Carrying
  <2>1. toApp[1].type \notin Carrying
    BY <1>1, <1>2
  <2>. QED  BY <1>1, <1>2, <2>1 DEF LatestTold
<1>3. CASE \E n \in 1..Len(toApp) :
             /\ toApp[n].type \in Carrying /\ toApp[n].epoch = engine.epoch
             /\ \A k \in 1..Len(toApp) : k > n => toApp[k].type \notin Carrying
  <2>1. PICK n \in 1..Len(toApp) :
             /\ toApp[n].type \in Carrying /\ toApp[n].epoch = engine.epoch
             /\ \A k \in 1..Len(toApp) : k > n => toApp[k].type \notin Carrying
    BY <1>3
  <2>2. CASE n = 1
    <3>1. \A k \in 1..Len(toApp') : k + 1 > 1
      BY <1>1
    <3>. QED  BY <1>1, <2>1, <2>2, <3>1 DEF LatestTold
  <2>3. CASE n # 1
    <3>1. n - 1 \in 1..Len(toApp') /\ (n - 1) + 1 = n
      BY <1>1, <2>3
    <3>2. \A k \in 1..Len(toApp') : k > n - 1 => k + 1 > n
      BY <1>1
    <3>3. /\ toApp'[n - 1].type \in Carrying /\ toApp'[n - 1].epoch = engine'.epoch
          /\ \A k \in 1..Len(toApp') : k > n - 1 => toApp'[k].type \notin Carrying
      BY <1>1, <2>1, <3>1, <3>2
    <3>. QED  BY <3>1, <3>3 DEF LatestTold
  <2>. QED  BY <2>2, <2>3
<1>. QED  BY <1>2, <1>3 DEF LatestTold

LEMMA ReadsKeeps ==
  ASSUME AuthInv, toApp # <<>>, toApp' = Tail(toApp), UNCHANGED <<engine, toEngine>>,
         client' \in Clients, client'.next = client.next, client'.closed = client.closed,
         client'.challenge <= engine.epoch,
         \A i \in RequestIds : /\ client'.pending[i] \in {client.pending[i], NotPending}
                               /\ ~client.closed /\ i # Head(toApp).id => client'.pending[i] = client.pending[i],
         coord' \in Coordinators, PromptShown(client', coord'), OneActs(client', coord'),
         Informed(engine', client', toApp')
  PROVE  AuthInv'
<1>1. /\ toApp' \in Seq(Messages) /\ Len(toApp) >= 1 /\ Len(toApp') = Len(toApp) - 1 /\ Head(toApp) = toApp[1]
      /\ \A n \in 1..Len(toApp') : toApp'[n] = toApp[n + 1] /\ n + 1 \in 1..Len(toApp)
      /\ 1 \in 1..Len(toApp)
  BY TailIs, AuthIs
<1>2. /\ engine \in Engines /\ toEngine \in Seq(Frames) /\ Len(toApp) \in Nat /\ Len(toEngine) \in Nat
      /\ \A n \in 1..Len(toEngine) : toEngine[n].id \in 1..MaxRequestId
      /\ \A n \in 1..Len(toApp) : toApp[n].id \in 0..MaxRequestId
      /\ MaxRequestId \in Nat /\ RequestIds = 1..MaxRequestId
  BY AuthIs, BoundsAre
<1>3. AuthTypes'
  BY <1>1, <1>2 DEF AuthTypes
<1>4. EpochsBehind(engine', client', toEngine', toApp')
  BY <1>1 DEF AuthInv, EpochsBehind
<1>5. Ordered(client', toEngine', toApp')
  <2>1. \A i, j \in 1..Len(toApp') : i < j /\ toApp'[j].id # 0 => toApp'[i].id < toApp'[j].id
    <3>1. \A i, j \in 1..Len(toApp') : i < j => i + 1 < j + 1
      BY <1>1, <1>2
    <3>. QED  BY <1>1, <3>1 DEF AuthInv, Ordered
  <2>2. \A i \in 1..Len(toApp'), j \in 1..Len(toEngine') : toApp'[i].id < toEngine'[j].id
    BY <1>1 DEF AuthInv, Ordered
  <2>3. \A i \in 1..Len(toApp') : toApp'[i].id < client'.next
    BY <1>1 DEF AuthInv, Ordered
  <2>. QED  BY <2>1, <2>2, <2>3 DEF AuthInv, Ordered
<1>6. Asked(client', toEngine', toApp')
  <2>1. \A i \in RequestIds : i >= client'.next => client'.pending[i] = NotPending
    BY DEF AuthInv, Asked
  <2>2. ASSUME ~client.closed, NEW n \in 1..Len(toEngine)
        PROVE  client'.pending[toEngine[n].id].name = toEngine[n].name
    <3>1. toEngine[n].id # Head(toApp).id
      BY <1>1, <1>2 DEF AuthInv, Ordered
    <3>. QED  BY <1>2, <2>2, <3>1 DEF AuthInv, Asked
  <2>3. ASSUME ~client.closed, NEW n \in 1..Len(toApp'), toApp'[n].id # 0
        PROVE  client'.pending[toApp'[n].id].name # "none"
    <3>1. toApp'[n] = toApp[n + 1] /\ n + 1 \in 1..Len(toApp) /\ 1 < n + 1
      BY <1>1, <1>2
    <3>2. toApp[n + 1].id # Head(toApp).id /\ toApp[n + 1].id \in RequestIds
      BY <1>1, <1>2, <2>3, <3>1 DEF AuthInv, Ordered
    <3>. QED  BY <2>3, <3>1, <3>2 DEF AuthInv, Asked
  <2>. QED  BY <2>1, <2>2, <2>3 DEF AuthInv, Asked
<1>7. EndingsTrue(engine', client', toApp')
  <2>. SUFFICES ASSUME NEW n \in 1..Len(toApp')
                PROVE  /\ toApp'[n].type \in Terminal => Over(engine)
                       /\ toApp'[n].type = "provider_failure" /\ toApp'[n].id # 0 =>
                            Over(engine) \/ client'.pending[toApp'[n].id].name # "cancel"
    BY DEF EndingsTrue
  <2>1. toApp'[n] = toApp[n + 1] /\ n + 1 \in 1..Len(toApp)
    BY <1>1
  <2>2. toApp[n + 1].id # 0 => toApp[n + 1].id \in RequestIds
    BY <1>2, <2>1
  <2>. QED  BY <2>1, <2>2, NotPendingIs DEF AuthInv, EndingsTrue
<1>. QED  BY <1>3, <1>4, <1>5, <1>6, <1>7 DEF AuthInv

LEMMA AppReadsKeeps ==
  ASSUME AuthInv, AppReads
  PROVE  AuthInv'
<1>. DEFINE m == Head(toApp)
            ids == IF m.id # 0 THEN {m.id} ELSE {}
            s == IF m.id # 0 THEN Settle(client, {m.id}) ELSE client
            k == IF m.id # 0 THEN UserSettles(coord, client, {m.id}) ELSE coord
            name == IF m.id # 0 THEN client.pending[m.id].name ELSE "none"
            silent == client.closed \/ (m.id # 0 /\ name = "none")
<1>1. toApp # <<>> /\ toApp' = Tail(toApp) /\ UNCHANGED <<engine, toEngine>>
  BY DEF AppReads
<1>2. /\ toApp \in Seq(Messages) /\ Len(toApp) >= 1 /\ m = toApp[1] /\ m \in Messages /\ 1 \in 1..Len(toApp)
      /\ client \in Clients /\ coord \in Coordinators /\ engine.epoch \in Nat /\ client.challenge \in Nat
  BY <1>1, TailIs, AuthIs
<1>3. m.id \in RequestIds \cup {0} /\ m.epoch \in Epochs /\ m.epoch \in Nat /\ m.epoch <= engine.epoch
      /\ client.challenge <= engine.epoch
  BY <1>2, BoundsAre DEF Messages, AuthInv, EpochsBehind
<1>4. PromptShown(client, coord) /\ OneActs(client, coord)
  BY DEF AuthInv
<1>5. /\ s \in Clients /\ s.challenge = client.challenge /\ s.next = client.next /\ s.closed = client.closed
      /\ \A i \in RequestIds : /\ s.pending[i] \in {client.pending[i], NotPending}
                               /\ i # m.id => s.pending[i] = client.pending[i]
      /\ k \in Coordinators /\ k.bound = coord.bound /\ k.view = coord.view /\ k.current = coord.current
      /\ OneActs(s, k)
  <2>1. CASE m.id # 0
    <3>1. m.id \in RequestIds /\ {m.id} \in SUBSET RequestIds
      BY <1>3, <2>1
    <3>. DEFINE t == Settle(client, {m.id})
                v == UserSettles(coord, client, {m.id})
    <3>2. s = t /\ k = v
      BY <2>1
    <3>3. /\ t \in Clients /\ t.challenge = client.challenge /\ t.next = client.next /\ t.closed = client.closed
          /\ \A i \in RequestIds : t.pending[i] = IF i \in {m.id} THEN NotPending ELSE client.pending[i]
      BY <1>2, SettleIs
    <3>4. /\ v \in Coordinators /\ v.bound = coord.bound /\ v.view = coord.view /\ v.current = coord.current
          /\ OneActs(t, v)
      BY <1>2, <1>4, <3>1, UserSettlesIs
    <3>. HIDE DEF t, v, s, k
    <3>. QED  BY <3>2, <3>3, <3>4
  <2>2. CASE m.id = 0
    BY <1>2, <1>4, <2>2
  <2>. QED  BY <2>1, <2>2
<1>6. PromptShown(client, k)
  BY <1>4, <1>5 DEF PromptShown
<1>7. CASE silent /\ UNCHANGED <<client, coord>>
  <2>1. client.closed
    BY <1>2, <1>7 DEF AuthInv, Asked
  <2>. QED  BY <1>1, <1>2, <1>3, <1>4, <1>7, <2>1, ReadsKeeps DEF Informed
<1>8. CASE /\ ~silent /\ m.type \in Carrying /\ client' = [s EXCEPT !.challenge = m.epoch]
           /\ \E expiry \in BOOLEAN : coord' = Activated(k, m.epoch, expiry)
  <2>1. ~client.closed
    BY <1>8
  <2>. HIDE DEF s, k, silent, name
  <2>2. /\ client' \in Clients /\ client'.challenge = m.epoch /\ client'.next = s.next /\ client'.closed = s.closed
        /\ client'.pending = s.pending
    BY <1>3, <1>5, <1>8 DEF Clients
  <2>3. OneActs(client', k)
    BY <1>5, <2>2 DEF OneActs
  <2>4. coord' \in Coordinators /\ PromptShown(client', coord') /\ OneActs(client', coord')
    <3>1. PICK expiry \in BOOLEAN : coord' = Activated(k, m.epoch, expiry)
      BY <1>8
    <3>. QED  BY <1>3, <1>5, <1>6, <2>1, <2>2, <2>3, <3>1, ActivatedIs
  <2>5. Informed(engine', client', toApp')
    BY <1>1, <1>8, <2>1, <2>2, ToldOn DEF AuthInv, Informed
  <2>. QED  BY <1>1, <1>3, <1>5, <2>2, <2>4, <2>5, ReadsKeeps
<1>9. CASE /\ ~silent /\ m.type \notin Carrying /\ (m.type \in {"complete", "cancelled"} \/ ClearsChallenge(name, m.type))
           /\ client' = [s EXCEPT !.challenge = 0]
           /\ coord' = IF client.challenge # 0 THEN PromptCleared(k) ELSE k
  <2>1. Over(engine)
    <3>1. m.type \in Terminal \/ (m.type = "provider_failure" /\ m.id # 0 /\ client.pending[m.id].name = "cancel")
      BY <1>9 DEF ClearsChallenge, Terminal
    <3>. QED  BY <1>2, <3>1 DEF AuthInv, EndingsTrue
  <2>. HIDE DEF s, k, silent, name
  <2>2. /\ client' \in Clients /\ client'.challenge = 0 /\ client'.next = s.next /\ client'.closed = s.closed
        /\ client'.pending = s.pending
    BY <1>5, <1>9, NoChallengeIs DEF Clients
  <2>3. OneActs(client', k)
    BY <1>5, <2>2 DEF OneActs
  <2>4. coord' \in Coordinators /\ PromptShown(client', coord') /\ OneActs(client', coord')
    <3>1. CASE client.challenge # 0
      BY <1>5, <1>6, <1>9, <2>3, <3>1, PromptClearedIs
    <3>2. CASE client.challenge = 0
      BY <1>5, <1>6, <1>9, <2>2, <2>3, <3>2 DEF PromptShown
    <3>. QED  BY <3>1, <3>2
  <2>5. Informed(engine', client', toApp')
    BY <1>1, <2>1 DEF Informed
  <2>. QED  BY <1>1, <1>2, <1>5, <2>2, <2>4, <2>5, ReadsKeeps
<1>10. CASE ~silent /\ m.type \notin Carrying /\ client' = s /\ coord' = k
  <2>1. ~client.closed
    BY <1>10
  <2>. HIDE DEF s, k, silent, name
  <2>2. PromptShown(client', coord') /\ OneActs(client', coord')
    BY <1>5, <1>6, <1>10 DEF PromptShown
  <2>3. Informed(engine', client', toApp')
    BY <1>1, <1>5, <1>10, <2>1, ToldOn DEF AuthInv, Informed
  <2>. QED  BY <1>1, <1>3, <1>5, <1>10, <2>2, <2>3, ReadsKeeps
<1>11. \/ silent /\ UNCHANGED <<client, coord>>
       \/ /\ ~silent /\ m.type \in Carrying /\ client' = [s EXCEPT !.challenge = m.epoch]
          /\ \E expiry \in BOOLEAN : coord' = Activated(k, m.epoch, expiry)
       \/ /\ ~silent /\ m.type \notin Carrying /\ (m.type \in {"complete", "cancelled"} \/ ClearsChallenge(name, m.type))
          /\ client' = [s EXCEPT !.challenge = 0]
          /\ coord' = IF client.challenge # 0 THEN PromptCleared(k) ELSE k
       \/ ~silent /\ m.type \notin Carrying /\ client' = s /\ coord' = k
  BY DEF AppReads, Carrying
<1>. QED  BY <1>7, <1>8, <1>9, <1>10, <1>11

\* A command is written to the pipe, or its write fails.
LEMMA FrameSent ==
  ASSUME AuthInv, ~client.closed, client.challenge # 0, client.next <= MaxRequestId,
         NEW name \in AuthCommands, NEW u \in BOOLEAN,
         client' = [client EXCEPT !.next = client.next + 1, !.pending[client.next] = [name |-> name, user |-> u]],
         toEngine' = Append(toEngine, [id |-> client.next, epoch |-> client.challenge, name |-> name]),
         UNCHANGED <<engine, toApp>>, coord' \in Coordinators,
         PromptShown(client, coord'), OneActs(client', coord')
  PROVE  AuthInv'
<1>. DEFINE f == [id |-> client.next, epoch |-> client.challenge, name |-> name]
            p == [name |-> name, user |-> u]
            g == [client.pending EXCEPT ![client.next] = p]
<1>1. /\ engine \in Engines /\ toEngine \in Seq(Frames) /\ toApp \in Seq(Messages)
      /\ client \in Clients /\ Len(toEngine) \in Nat /\ Len(toApp) \in Nat /\ engine.epoch \in Nat
      /\ client.next \in 1..MaxRequestId + 1 /\ client.challenge \in 0..MaxEpoch
      /\ \A n \in 1..Len(toEngine) : toEngine[n] \in Frames /\ toEngine[n].id \in 1..MaxRequestId
      /\ \A n \in 1..Len(toApp) : toApp[n] \in Messages /\ toApp[n].id \in 0..MaxRequestId
      /\ MaxRequestId \in Nat /\ MaxEpoch \in Nat /\ RequestIds = 1..MaxRequestId
  BY AuthIs, BoundsAre
<1>2. client.next \in RequestIds /\ client.next + 1 \in 1..MaxRequestId + 1 /\ client.challenge \in 1..MaxEpoch
  BY <1>1
<1>3. f \in Frames /\ f.id = client.next /\ f.epoch = client.challenge /\ f.name = name
  BY <1>2 DEF Frames
<1>4. p \in Pendings /\ p.name = name
  BY DEF Pendings
<1>5. toEngine' = Append(toEngine, f) /\ client' = [client EXCEPT !.next = client.next + 1, !.pending = g]
  OBVIOUS
<1>. HIDE DEF f, p
<1>6. g \in [RequestIds -> Pendings] /\ g[client.next] = p /\ \A i \in RequestIds : i # client.next => g[i] = client.pending[i]
  BY <1>1, <1>2, <1>4 DEF Clients
<1>. HIDE DEF g
<1>7. /\ client' \in Clients /\ client'.next = client.next + 1 /\ client'.challenge = client.challenge
      /\ client'.closed = client.closed /\ client'.pending = g
  BY <1>1, <1>2, <1>5, <1>6 DEF Clients
<1>8. /\ toEngine' \in Seq(Frames) /\ Len(toEngine') = Len(toEngine) + 1 /\ toEngine'[Len(toEngine) + 1] = f
      /\ \A n \in 1..Len(toEngine) : toEngine'[n] = toEngine[n]
  BY <1>1, <1>3, <1>5, AppendIs
<1>9. \A n \in 1..Len(toEngine') : n = Len(toEngine) + 1 \/ n \in 1..Len(toEngine)
  BY <1>1, <1>8
<1>10. AuthTypes'
  BY <1>1, <1>7, <1>8 DEF AuthTypes
<1>11. EpochsBehind(engine', client', toEngine', toApp')
  BY <1>3, <1>7, <1>8, <1>9 DEF AuthInv, EpochsBehind
<1>12. /\ \A n \in 1..Len(toEngine) : toEngine[n].id < client.next
       /\ \A n \in 1..Len(toApp) : toApp[n].id < client.next
  BY DEF AuthInv, Ordered
<1>13. Ordered(client', toEngine', toApp')
  <2>1. \A i, j \in 1..Len(toEngine') : i < j => toEngine'[i].id < toEngine'[j].id
    <3>1. \A i, j \in 1..Len(toEngine') : i < j => i \in 1..Len(toEngine)
      BY <1>1, <1>8
    <3>. QED  BY <1>3, <1>8, <1>9, <1>12, <3>1 DEF AuthInv, Ordered
  <2>2. \A i \in 1..Len(toApp'), j \in 1..Len(toEngine') : toApp'[i].id < toEngine'[j].id
    BY <1>3, <1>8, <1>9, <1>12 DEF AuthInv, Ordered
  <2>3. \A j \in 1..Len(toEngine') : toEngine'[j].id < client'.next
    BY <1>1, <1>3, <1>7, <1>8, <1>9, <1>12
  <2>4. \A i \in 1..Len(toApp') : toApp'[i].id < client'.next
    BY <1>1, <1>7, <1>12
  <2>. QED  BY <2>1, <2>2, <2>3, <2>4 DEF AuthInv, Ordered
<1>14. Asked(client', toEngine', toApp')
  <2>1. \A i \in RequestIds : i >= client'.next => client'.pending[i] = NotPending
    <3>1. \A i \in RequestIds : i >= client.next + 1 => i >= client.next /\ i # client.next
      BY <1>1
    <3>. QED  BY <1>6, <1>7, <3>1 DEF AuthInv, Asked
  <2>2. \A n \in 1..Len(toEngine') : client'.pending[toEngine'[n].id].name = toEngine'[n].name
    <3>1. \A n \in 1..Len(toEngine) : toEngine[n].id \in RequestIds /\ toEngine[n].id # client.next
      BY <1>1, <1>12
    <3>2. \A n \in 1..Len(toEngine) : client.pending[toEngine[n].id].name = toEngine[n].name
      BY DEF AuthInv, Asked
    <3>3. \A n \in 1..Len(toEngine) : client'.pending[toEngine'[n].id].name = toEngine'[n].name
      BY <1>6, <1>7, <1>8, <3>1, <3>2
    <3>4. client'.pending[toEngine'[Len(toEngine) + 1].id].name = toEngine'[Len(toEngine) + 1].name
      BY <1>3, <1>4, <1>6, <1>7, <1>8
    <3>. QED  BY <1>9, <3>3, <3>4
  <2>3. \A n \in 1..Len(toApp') : toApp'[n].id # 0 => client'.pending[toApp'[n].id].name # "none"
    <3>1. \A n \in 1..Len(toApp) : toApp[n].id # 0 => toApp[n].id \in RequestIds /\ toApp[n].id # client.next
      BY <1>1, <1>12
    <3>. QED  BY <1>6, <1>7, <3>1 DEF AuthInv, Asked
  <2>. QED  BY <1>7, <2>1, <2>2, <2>3 DEF Asked
<1>15. EndingsTrue(engine', client', toApp')
  <2>1. \A n \in 1..Len(toApp) : toApp[n].id # 0 => toApp[n].id \in RequestIds /\ toApp[n].id # client.next
    BY <1>1, <1>12
  <2>. QED  BY <1>6, <1>7, <2>1 DEF AuthInv, EndingsTrue
<1>16. Informed(engine', client', toApp')
  BY <1>7 DEF AuthInv, Informed, LatestTold
<1>17. PromptShown(client', coord')
  BY <1>7 DEF PromptShown
<1>. QED  BY <1>10, <1>11, <1>13, <1>14, <1>15, <1>16, <1>17 DEF AuthInv

LEMMA WriteFails ==
  ASSUME AuthInv, client.next <= MaxRequestId, client' = [client EXCEPT !.next = client.next + 1],
         UNCHANGED <<engine, toEngine, toApp>>, coord' \in Coordinators,
         PromptShown(client, coord'), OneActs(client, coord')
  PROVE  AuthInv'
<1>1. /\ engine \in Engines /\ toEngine \in Seq(Frames) /\ toApp \in Seq(Messages) /\ client \in Clients
      /\ client.next \in 1..MaxRequestId + 1 /\ MaxRequestId \in Nat /\ RequestIds = 1..MaxRequestId
      /\ \A n \in 1..Len(toEngine) : toEngine[n].id \in 1..MaxRequestId
      /\ \A n \in 1..Len(toApp) : toApp[n].id \in 0..MaxRequestId
  BY AuthIs, BoundsAre
<1>2. client.next + 1 \in 1..MaxRequestId + 1
  BY <1>1
<1>3. /\ client' \in Clients /\ client'.next = client.next + 1 /\ client'.challenge = client.challenge
      /\ client'.closed = client.closed /\ client'.pending = client.pending
  BY <1>1, <1>2 DEF Clients
<1>4. AuthTypes'
  BY <1>1, <1>3 DEF AuthTypes
<1>5. EpochsBehind(engine', client', toEngine', toApp')
  BY <1>3 DEF AuthInv, EpochsBehind
<1>6. Ordered(client', toEngine', toApp')
  <2>1. \A n \in 1..Len(toEngine) : toEngine[n].id < client.next + 1
    BY <1>1 DEF AuthInv, Ordered
  <2>2. \A n \in 1..Len(toApp) : toApp[n].id < client.next + 1
    BY <1>1 DEF AuthInv, Ordered
  <2>. QED  BY <1>3, <2>1, <2>2 DEF AuthInv, Ordered
<1>7. Asked(client', toEngine', toApp')
  <2>1. \A i \in RequestIds : i >= client.next + 1 => i >= client.next
    BY <1>1
  <2>. QED  BY <1>3, <2>1 DEF AuthInv, Asked
<1>8. EndingsTrue(engine', client', toApp') /\ Informed(engine', client', toApp')
  BY <1>3 DEF AuthInv, EndingsTrue, Informed, LatestTold
<1>9. PromptShown(client', coord') /\ OneActs(client', coord')
  BY <1>3 DEF PromptShown, OneActs
<1>. QED  BY <1>4, <1>5, <1>6, <1>7, <1>8, <1>9 DEF AuthInv

LEMMA NextIsFree ==
  ASSUME AuthInv, client.next <= MaxRequestId
  PROVE  client.next \in RequestIds /\ client.pending[client.next] = NotPending
<1>1. client.next \in 1..MaxRequestId + 1 /\ RequestIds = 1..MaxRequestId /\ MaxRequestId \in Nat
  BY AuthIs, BoundsAre
<1>2. client.next \in RequestIds /\ client.next >= client.next
  BY <1>1
<1>. QED  BY <1>2 DEF AuthInv, Asked

LEMMA UserActsKeeps ==
  ASSUME AuthInv, NEW name \in AuthCommands, UserActs(name)
  PROVE  AuthInv'
<1>1. /\ client \in Clients /\ coord \in Coordinators /\ PromptShown(client, coord) /\ OneActs(client, coord)
      /\ coord.bound /\ coord.view # 0 /\ UNCHANGED <<engine, toApp>>
  BY AuthIs DEF AuthInv, UserActs
<1>2. CASE ~coord.current
  <2>1. coord' = Detached(coord) /\ UNCHANGED <<toEngine, client>>
    BY <1>2 DEF UserActs
  <2>2. coord' \in Coordinators /\ PromptShown(client, coord') /\ OneActs(client, coord')
    BY <1>1, <2>1, DetachedIs
  <2>. QED  BY <1>1, <2>1, <2>2, CoordinatorKeeps
<1>3. CASE /\ ~coord.inFlight /\ ~client.closed /\ client.challenge # 0 /\ client.next <= MaxRequestId
           /\ client' = [client EXCEPT !.next = client.next + 1,
                                       !.pending[client.next] = [name |-> name, user |-> TRUE]]
           /\ toEngine' = Append(toEngine, [id |-> client.next, epoch |-> client.challenge, name |-> name])
           /\ coord' = [coord EXCEPT !.inFlight = TRUE]
  <2>1. PICK u \in BOOLEAN : u = TRUE
    OBVIOUS
  <2>2. client' = [client EXCEPT !.next = client.next + 1, !.pending[client.next] = [name |-> name, user |-> u]]
    BY <1>3, <2>1
  <2>3. client.next \in RequestIds /\ client.pending[client.next] = NotPending
    BY <1>3, NextIsFree
  <2>4. /\ client'.pending[client.next].user
        /\ \A i \in RequestIds : i # client.next => client'.pending[i] = client.pending[i]
    <3>. DEFINE p == [name |-> name, user |-> u]
    <3>1. p.user = u
      OBVIOUS
    <3>. HIDE DEF p
    <3>2. client' = [client EXCEPT !.next = client.next + 1, !.pending[client.next] = p]
      BY <2>2 DEF p
    <3>3. /\ client'.pending[client.next] = p
          /\ \A i \in RequestIds : i # client.next => client'.pending[i] = client.pending[i]
      BY <1>1, <2>3, <3>2 DEF Clients
    <3>. QED  BY <2>1, <3>1, <3>3
  <2>5. /\ coord' \in Coordinators /\ coord'.bound = coord.bound /\ coord'.view = coord.view
        /\ coord'.current = coord.current /\ coord'.inFlight = TRUE
    BY <1>1, <1>3 DEF Coordinators
  <2>6. \A i \in RequestIds : ~client.pending[i].user
    BY <1>1, <1>3 DEF OneActs
  <2>7. OneActs(client', coord')
    BY <2>3, <2>4, <2>5, <2>6 DEF OneActs
  <2>8. PromptShown(client, coord')
    BY <1>1, <2>5 DEF PromptShown
  <2>. QED  BY <1>1, <1>3, <2>2, <2>5, <2>7, <2>8, FrameSent
<1>4. CASE client' = [client EXCEPT !.next = client.next + 1] /\ coord' = coord /\ UNCHANGED toEngine
           /\ client.next <= MaxRequestId
  BY <1>1, <1>4, WriteFails
<1>. QED  BY <1>2, <1>3, <1>4 DEF UserActs, Sends

\* The coordinator cancels by itself and leaves the prompt, k.
LEMMA CancelsKeeps ==
  ASSUME AuthInv, NEW k \in Coordinators, PromptShown(client, k), OneActs(client, k), UNCHANGED <<engine, toApp>>,
         \/ Sends("cancel", FALSE, k)
         \/ coord' = k /\ UNCHANGED <<toEngine, client>>
  PROVE  AuthInv'
<1>1. client \in Clients
  BY AuthIs
<1>2. CASE coord' = k /\ UNCHANGED <<toEngine, client>>
  BY <1>2, CoordinatorKeeps
<1>3. CASE /\ ~client.closed /\ client.challenge # 0 /\ client.next <= MaxRequestId
           /\ client' = [client EXCEPT !.next = client.next + 1,
                                       !.pending[client.next] = [name |-> "cancel", user |-> FALSE]]
           /\ toEngine' = Append(toEngine, [id |-> client.next, epoch |-> client.challenge, name |-> "cancel"])
           /\ coord' = k
  <2>1. PICK u \in BOOLEAN : u = FALSE
    OBVIOUS
  <2>2. client' = [client EXCEPT !.next = client.next + 1, !.pending[client.next] = [name |-> "cancel", user |-> u]]
    BY <1>3, <2>1
  <2>3. client.next \in RequestIds /\ ~client.pending[client.next].user
    BY <1>3, NextIsFree, NotPendingIs
  <2>4. \A i \in RequestIds : client'.pending[i].user <=> client.pending[i].user
    <3>. DEFINE p == [name |-> "cancel", user |-> u]
    <3>1. p.user = u
      OBVIOUS
    <3>. HIDE DEF p
    <3>2. client' = [client EXCEPT !.next = client.next + 1, !.pending[client.next] = p]
      BY <2>2 DEF p
    <3>3. /\ client'.pending[client.next] = p
          /\ \A i \in RequestIds : i # client.next => client'.pending[i] = client.pending[i]
      BY <1>1, <2>3, <3>2 DEF Clients
    <3>. QED  BY <2>1, <2>3, <3>1, <3>3
  <2>5. OneActs(client', coord') /\ "cancel" \in AuthCommands
    BY <1>3, <2>4 DEF OneActs, AuthCommands
  <2>. QED  BY <1>3, <2>2, <2>5, FrameSent
<1>4. CASE client' = [client EXCEPT !.next = client.next + 1] /\ coord' = k /\ UNCHANGED toEngine
           /\ client.next <= MaxRequestId
  BY <1>4, WriteFails
<1>. QED  BY <1>2, <1>3, <1>4 DEF Sends

LEMMA ExpiryFiresKeeps ==
  ASSUME AuthInv, ExpiryFires
  PROVE  AuthInv'
<1>1. coord \in Coordinators /\ PromptShown(client, coord) /\ OneActs(client, coord)
  BY AuthIs DEF AuthInv
<1>. DEFINE k == PromptCleared(coord)
<1>2. k \in Coordinators /\ PromptShown(client, k) /\ OneActs(client, k)
  BY <1>1, PromptClearedIs
<1>3. UNCHANGED <<engine, toApp>> /\ (Sends("cancel", FALSE, k) \/ (coord' = k /\ UNCHANGED <<toEngine, client>>))
  BY DEF ExpiryFires
<1>. HIDE DEF k
<1>. QED  BY <1>2, <1>3, CancelsKeeps

LEMMA CancelForLifecycleKeeps ==
  ASSUME AuthInv, CancelForLifecycle
  PROVE  AuthInv'
<1>1. coord \in Coordinators /\ OneActs(client, coord)
  BY AuthIs DEF AuthInv
<1>. DEFINE k == Detached(coord)
<1>2. k \in Coordinators /\ PromptShown(client, k) /\ OneActs(client, k)
  BY <1>1, DetachedIs
<1>3. UNCHANGED <<engine, toApp>> /\ (Sends("cancel", FALSE, k) \/ (coord' = k /\ UNCHANGED <<toEngine, client>>))
  BY DEF CancelForLifecycle
<1>. HIDE DEF k
<1>. QED  BY <1>2, <1>3, CancelsKeeps

LEMMA ContextKeeps ==
  ASSUME AuthInv, ContextChanges \/ CoordinatorSnapshot
  PROVE  AuthInv'
<1>1. /\ coord \in Coordinators /\ PromptShown(client, coord) /\ OneActs(client, coord)
      /\ UNCHANGED <<engine, toEngine, toApp, client>>
  BY AuthIs DEF AuthInv, ContextChanges, CoordinatorSnapshot
<1>2. CASE coord' = Detached(coord)
  BY <1>1, <1>2, DetachedIs, CoordinatorKeeps
<1>3. CASE coord' = [coord EXCEPT !.current = FALSE]
  <2>1. /\ coord' \in Coordinators /\ coord'.bound = coord.bound /\ coord'.view = coord.view
        /\ coord'.current = FALSE /\ coord'.inFlight = coord.inFlight
    BY <1>1, <1>3 DEF Coordinators
  <2>2. PromptShown(client, coord') /\ OneActs(client, coord')
    BY <1>1, <2>1 DEF PromptShown, OneActs
  <2>. QED  BY <1>1, <2>1, <2>2, CoordinatorKeeps
<1>. QED  BY <1>2, <1>3 DEF ContextChanges, CoordinatorSnapshot

-----------------------------------------------------------------------------
(* The end of an engine, and the next one *)

LEMMA StoppedIs ==
  ASSUME NEW e \in Engines
  PROVE  LET s == PromptReleased([e EXCEPT !.running = FALSE]) IN
         s \in Engines /\ s.session = FALSE /\ s.provider # "open" /\ s.epoch = e.epoch
<1>. DEFINE d == [e EXCEPT !.running = FALSE]
<1>1. d \in Engines /\ d.epoch = e.epoch
  BY DEF Engines
<1>. HIDE DEF d
<1>2. /\ PromptReleased(d) \in Engines /\ PromptReleased(d).session = FALSE
      /\ PromptReleased(d).provider # "open" /\ PromptReleased(d).epoch = e.epoch
  BY <1>1, ReleasedIs
<1>. QED  BY <1>2 DEF d

LEMMA ClosesKeeps ==
  ASSUME AuthInv, NEW k \in Coordinators, PromptShown(client, k), OneActs(client, k), ClientCloses(k),
         toEngine' = <<>>, engine' = PromptReleased([engine EXCEPT !.running = FALSE]), toApp' \in {toApp, <<>>}
  PROVE  AuthInv'
<1>. DEFINE s == Settle(client, RequestIds)
            ids == AllIds(client)
            u == UserSettles(k, client, ids)
<1>1. /\ engine \in Engines /\ toApp \in Seq(Messages) /\ client \in Clients /\ engine.epoch \in Nat
  BY AuthIs
<1>2. engine' \in Engines /\ engine'.session = FALSE /\ engine'.provider # "open" /\ engine'.epoch = engine.epoch
  BY <1>1, StoppedIs
<1>3. /\ s \in Clients /\ s.next = client.next
      /\ \A i \in RequestIds : s.pending[i] = NotPending
  BY <1>1, SettleIs
<1>4. client' = [s EXCEPT !.closed = TRUE, !.challenge = 0]
  BY DEF ClientCloses, ClosedClient
<1>5. ids \in SUBSET RequestIds
  BY DEF AllIds
<1>6. /\ u \in Coordinators /\ u.bound = k.bound /\ u.view = k.view /\ u.current = k.current
      /\ OneActs(Settle(client, ids), u)
  BY <1>1, <1>5, UserSettlesIs
<1>7. \A i \in RequestIds : ~Settle(client, ids).pending[i].user
  <2>1. \A i \in RequestIds : Settle(client, ids).pending[i] = IF i \in ids THEN NotPending ELSE client.pending[i]
    BY <1>1, SettleIs
  <2>2. \A i \in RequestIds : i \notin ids => client.pending[i] = NotPending
    BY DEF AllIds
  <2>. HIDE DEF ids
  <2>. QED  BY <2>1, <2>2, NotPendingIs
<1>8. coord' = IF client.challenge # 0 THEN PromptCleared(u) ELSE u
  BY DEF ClientCloses
<1>. HIDE DEF s, ids, u
<1>9. /\ client' \in Clients /\ client'.next = client.next /\ client'.closed = TRUE /\ client'.challenge = 0
      /\ client'.pending = s.pending
  BY <1>3, <1>4, NoChallengeIs DEF Clients
<1>10. OneActs(client', u)
  <2>1. \A i \in RequestIds : ~client'.pending[i].user
    BY <1>3, <1>9, NotPendingIs
  <2>. QED  BY <1>6, <1>7, <2>1 DEF OneActs
<1>11. coord' \in Coordinators /\ PromptShown(client', coord') /\ OneActs(client', coord')
  <2>1. PromptShown(client, u)
    BY <1>6 DEF PromptShown
  <2>2. CASE client.challenge # 0
    BY <1>6, <1>8, <1>10, <2>1, <2>2, PromptClearedIs
  <2>3. CASE client.challenge = 0
    <3>1. u.view # 0 => u.bound /\ ~u.current
      BY <2>1, <2>3 DEF PromptShown
    <3>. QED  BY <1>6, <1>8, <1>10, <2>3, <3>1 DEF PromptShown
  <2>. QED  BY <2>2, <2>3
<1>12. AuthTypes'
  <2>1. <<>> \in Seq(Messages) /\ <<>> \in Seq(Frames)
    OBVIOUS
  <2>2. toApp' \in Seq(Messages)
    <3>1. toApp' = toApp \/ toApp' = <<>>
      OBVIOUS
    <3>. QED  BY <1>1, <2>1, <3>1
  <2>3. toEngine' \in Seq(Frames)
    BY <2>1
  <2>. QED  BY <1>2, <1>9, <1>11, <2>2, <2>3 DEF AuthTypes
<1>13. /\ Len(toEngine') = 0 /\ \A n \in 1..Len(toEngine') : FALSE
  OBVIOUS
<1>14. \A n \in 1..Len(toApp') : n \in 1..Len(toApp) /\ toApp'[n] = toApp[n] /\ toApp' = toApp
  OBVIOUS
<1>15. EpochsBehind(engine', client', toEngine', toApp')
  <2>1. client'.challenge <= engine'.epoch
    <3>1. 0 <= engine.epoch
      BY <1>1
    <3>. QED  BY <1>2, <1>9, <3>1
  <2>2. \A n \in 1..Len(toApp') : toApp'[n].epoch <= engine'.epoch
    <3>1. \A n \in 1..Len(toApp) : toApp[n].epoch <= engine.epoch
      BY DEF AuthInv, EpochsBehind
    <3>. QED  BY <1>2, <1>14, <3>1
  <2>. QED  BY <1>13, <2>1, <2>2 DEF EpochsBehind
<1>16. Ordered(client', toEngine', toApp')
  BY <1>9, <1>13, <1>14 DEF AuthInv, Ordered
<1>17. Asked(client', toEngine', toApp')
  BY <1>3, <1>9 DEF Asked
<1>18. /\ EndingsTrue(engine', client', toApp') /\ Informed(engine', client', toApp')
       /\ ReleasedAtTheGateway(engine')
  BY <1>2 DEF EndingsTrue, Informed, Over, ReleasedAtTheGateway
<1>. QED  BY <1>11, <1>12, <1>15, <1>16, <1>17, <1>18 DEF AuthInv

LEMMA EngineEndsKeeps ==
  ASSUME AuthInv, EngineExits \/ \E id \in RequestIds : RequestTimesOut(id)
  PROVE  AuthInv'
<1>1. coord \in Coordinators /\ PromptShown(client, coord) /\ OneActs(client, coord)
  BY AuthIs DEF AuthInv
<1>2. CASE EngineExits
  <2>. DEFINE k == Detached(coord)
  <2>1. k \in Coordinators /\ PromptShown(client, k) /\ OneActs(client, k)
    BY <1>1, DetachedIs
  <2>2. /\ ClientCloses(k) /\ toEngine' = <<>> /\ toApp' = <<>>
        /\ engine' = PromptReleased([engine EXCEPT !.running = FALSE])
    BY <1>2 DEF EngineExits
  <2>. HIDE DEF k
  <2>. QED  BY <2>1, <2>2, ClosesKeeps
<1>3. CASE \E id \in RequestIds : RequestTimesOut(id)
  <2>1. /\ ClientCloses(coord) /\ toEngine' = <<>> /\ toApp' = toApp
        /\ engine' = PromptReleased([engine EXCEPT !.running = FALSE])
    BY <1>3 DEF RequestTimesOut
  <2>. QED  BY <1>1, <2>1, ClosesKeeps
<1>. QED  BY <1>2, <1>3

LEMMA AuthAtFirst ==
  ASSUME AuthInit
  PROVE  AuthInv
<1>. DEFINE m == [type |-> "required", id |-> 0, epoch |-> 1]
            g == [i \in RequestIds |-> NotPending]
<1>1. /\ engine = NewEngine /\ toEngine = <<>> /\ toApp = <<m>> /\ client = NewClient /\ coord = NewBinding
  BY DEF AuthInit
<1>2. 1 \in 1..MaxEpoch /\ 1 \in 1..MaxSteps /\ 0 \in 0..MaxSubmits /\ 0 \in 0..MaxResends /\ 0 \in 0..MaxGatewayRequests
      /\ 1 \in 1..MaxRequestId + 1 /\ 1 \in Epochs /\ 0 \in Epochs
  BY BoundsAre
<1>3. engine \in Engines /\ engine.session = TRUE /\ engine.provider = "open" /\ engine.epoch = 1
  BY <1>1, <1>2 DEF NewEngine, Engines
<1>4. m \in Messages /\ m.type = "required" /\ m.id = 0 /\ m.epoch = 1
  BY <1>2 DEF Messages, MessageTypes
<1>5. g \in [RequestIds -> Pendings] /\ \A i \in RequestIds : g[i] = NotPending
  BY NotPendingIs
<1>6. client = [challenge |-> 0, next |-> 1, pending |-> g, closed |-> FALSE]
  BY <1>1 DEF NewClient
<1>. HIDE DEF m, g
<1>7. /\ client \in Clients /\ client.challenge = 0 /\ client.next = 1 /\ client.pending = g /\ client.closed = FALSE
  BY <1>2, <1>5, <1>6 DEF Clients
<1>8. /\ coord \in Coordinators /\ coord.view = 0 /\ coord.inFlight = FALSE
  BY <1>1, <1>2 DEF NewBinding, Coordinators
<1>9. /\ toApp \in Seq(Messages) /\ toEngine \in Seq(Frames) /\ Len(toEngine) = 0 /\ Len(toApp) = 1 /\ toApp[1] = m
      /\ (\A n \in 1..Len(toEngine) : FALSE) /\ \A n \in 1..Len(toApp) : n = 1
  BY <1>1, <1>4
<1>10. EpochsBehind(engine, client, toEngine, toApp) /\ Ordered(client, toEngine, toApp)
  BY <1>3, <1>4, <1>7, <1>9 DEF EpochsBehind, Ordered
<1>11. Asked(client, toEngine, toApp)
  BY <1>4, <1>5, <1>7, <1>9 DEF Asked
<1>12. EndingsTrue(engine, client, toApp) /\ Informed(engine, client, toApp)
  <2>1. LatestTold(engine, client, toApp)
    BY <1>3, <1>4, <1>9 DEF LatestTold, Carrying
  <2>. QED  BY <1>4, <1>9, <2>1 DEF EndingsTrue, Informed, Terminal
<1>13. PromptShown(client, coord) /\ OneActs(client, coord)
  BY <1>5, <1>7, <1>8, NotPendingIs DEF PromptShown, OneActs
<1>. QED  BY <1>3, <1>7, <1>8, <1>9, <1>10, <1>11, <1>12, <1>13 DEF AuthInv, AuthTypes, ReleasedAtTheGateway

LEMMA AuthAtFirstAgain == AuthInit' => AuthInv'
BY AuthAtFirst, PTL

LEMMA AuthKept ==
  ASSUME AuthInv, [AuthNext]_authVars
  PROVE  AuthInv'
<1>1. CASE EngineHandles \/ TimePasses \/ EngineExpires \/ AppReads
  BY <1>1, HandlesKeeps, EngineTimeKeeps, AppReadsKeeps
<1>2. CASE ExpiryFires \/ CancelForLifecycle \/ ContextChanges \/ CoordinatorSnapshot
  BY <1>2, ExpiryFiresKeeps, CancelForLifecycleKeeps, ContextKeeps
<1>3. CASE EngineExits \/ \E id \in RequestIds : RequestTimesOut(id)
  BY <1>3, EngineEndsKeeps
<1>4. CASE BindNext
  <2>1. AuthInit'
    BY <1>4 DEF BindNext, AuthInit
  <2>. QED  BY <2>1, AuthAtFirstAgain
<1>5. CASE \E name \in AuthCommands : UserActs(name)
  BY <1>5, UserActsKeeps
<1>6. CASE UNCHANGED authVars
  <2>1. UNCHANGED <<engine, toEngine, toApp, client, coord>>
    BY <1>6 DEF authVars
  <2>. QED  BY <2>1 DEF AuthInv, AuthTypes
<1>. QED  BY <1>1, <1>2, <1>3, <1>4, <1>5, <1>6 DEF AuthNext

LEMMA AuthInvIsSafe ==
  ASSUME AuthInv
  PROVE  AuthSafety
<1>1. /\ engine \in Engines /\ toEngine \in Seq(Frames) /\ toApp \in Seq(Messages)
      /\ client \in Clients /\ coord \in Coordinators
  BY AuthIs
<1>2. DOMAIN toEngine = 1..Len(toEngine) /\ DOMAIN toApp = 1..Len(toApp)
  BY <1>1
<1>3. AuthTypeOK
  <2>1. \A n \in DOMAIN toEngine : toEngine[n] \in [id : RequestIds, epoch : 1..MaxEpoch, name : AuthCommands]
    <3>1. \A n \in 1..Len(toEngine) : toEngine[n] \in Frames
      BY AuthIs
    <3>. QED  BY <1>2, <3>1 DEF Frames
  <2>2. \A n \in DOMAIN toApp :
          toApp[n] \in [type : {"required", "challenge", "complete", "cancelled"} \cup ErrorCodes,
                        id : RequestIds \cup {0}, epoch : Epochs]
    <3>1. \A n \in 1..Len(toApp) : toApp[n] \in Messages
      BY AuthIs
    <3>. QED  BY <1>2, <3>1 DEF Messages, MessageTypes
  <2>. QED  BY <1>1, <2>1, <2>2 DEF AuthTypeOK, Engines, Clients, Pendings, Coordinators
<1>4. NothingLeftAtTheGateway
  BY DEF AuthInv, ReleasedAtTheGateway, NothingLeftAtTheGateway
<1>5. PromptIsTheChallenge
  BY DEF AuthInv, PromptShown, PromptIsTheChallenge
<1>6. NeverAhead
  BY <1>2 DEF AuthInv, EpochsBehind, Ordered, NeverAhead
<1>7. OneActionAtATime
  <2>. DEFINE acting == {i \in RequestIds : client.pending[i].user}
  <2>1. Cardinality(acting) <= 1
    <3>1. CASE acting = {}
      BY <3>1, FS_EmptySet
    <3>2. CASE acting # {}
      <4>1. PICK i \in RequestIds : acting = {i}
        BY <3>2 DEF AuthInv, OneActs
      <4>. HIDE DEF acting
      <4>2. Cardinality({i}) = 1
        BY FS_Singleton
      <4>3. Cardinality(acting) = 1
        BY <4>1, <4>2
      <4>. QED  BY <4>3
    <3>. QED  BY <3>1, <3>2
  <2>2. acting # {} <=> \E i \in RequestIds : client.pending[i].user
    OBVIOUS
  <2>3. coord.bound => (coord.inFlight <=> acting # {})
    BY <2>2 DEF AuthInv, OneActs
  <2>. QED  BY <2>1, <2>3 DEF OneActionAtATime
<1>8. AgreeWhenQuiet
  <2>. SUFFICES ASSUME engine.provider = "open", engine.session, toApp = <<>>, ~client.closed
                PROVE  client.challenge = engine.epoch
    BY DEF AgreeWhenQuiet
  <2>1. ~Over(engine)
    BY DEF Over
  <2>2. LatestTold(engine, client, toApp)
    BY <2>1 DEF AuthInv, Informed
  <2>3. \A n \in 1..Len(toApp) : FALSE
    OBVIOUS
  <2>. QED  BY <2>2, <2>3 DEF LatestTold
<1>. QED  BY <1>3, <1>4, <1>5, <1>6, <1>7, <1>8 DEF AuthSafety

\* The prompt of the current context is the challenge a command would be sent
\* for, no command answers a challenge that was not asked, one action of the user
\* is under way at a time, the engine and the application agree when nothing is
\* under way, and no transaction is left open at the gateway.
THEOREM AuthCorrect == AuthSpec => []AuthSafety
<1>1. AuthInit => AuthInv
  BY AuthAtFirst
<1>2. AuthInv /\ [AuthNext]_authVars => AuthInv'
  BY AuthKept
<1>3. AuthInv => AuthSafety
  BY AuthInvIsSafe
<1>. QED  BY <1>1, <1>2, <1>3, PTL DEF AuthSpec

-----------------------------------------------------------------------------
\* Both hold of every behaviour in which each of the two goes by its own rules
\* (the prompts of SecondaryAuthCoordinator, the launch of NetworkStartupCoordinator).
THEOREM ConnectingCorrect == AuthSpec /\ NetworkSpec => []ConnectingSafety
<1>1. AuthSafety /\ StartupSafety => ConnectingSafety
  BY DEF ConnectingSafety
<1>. QED  BY AuthCorrect, StartupCorrect, <1>1, PTL

-----------------------------------------------------------------------------
(* The onboarding of a school, for any number of probes.                      *)

Children == [state : {"none", "probing", "settled", "closed"},
             gateway : Gateways \cup {NoLeaf}, pin : Leaves \cup {NoLeaf}]
Confirmations == [handle : Probes \cup {NoProbe}, gateway : Gateways \cup {NoLeaf},
                  pin : Leaves \cup {NoLeaf}, requiresTrust : BOOLEAN, expired : BOOLEAN]
Provisionings == [handle : Probes, gateway : Gateways, pin : Leaves \cup {NoLeaf},
                  needed : BOOLEAN, trusted : BOOLEAN, expired : BOOLEAN, late : BOOLEAN]

LEMMA OnboardingTypesAre ==
  OnboardingTypeOK <=> /\ children \in [Probes -> Children] /\ activeProbe \in Probes \cup {NoProbe}
                       /\ record \in Confirmations /\ begun \subseteq Provisionings /\ withdrawn \in 0..MaxProbes
BY DEF OnboardingTypeOK, Children, Confirmations, Provisionings

LEMMA OnboardingTypesWillBe ==
  OnboardingTypeOK' <=> /\ children' \in [Probes -> Children] /\ activeProbe' \in Probes \cup {NoProbe}
                        /\ record' \in Confirmations /\ begun' \subseteq Provisionings /\ withdrawn' \in 0..MaxProbes
BY DEF OnboardingTypeOK, Children, Confirmations, Provisionings

\* Probes are started in order.
FirstAreStarted(k) == \A n \in Probes : children[n].state # "none" <=> n <= k
InOrder == \E k \in 0..MaxProbes : FirstAreStarted(k)

\* A gateway is one the user typed.
StartedHasGateway == \A n \in Probes : children[n].state # "none" => children[n].gateway \in Gateways

ActiveIsNewest == activeProbe # NoProbe => activeProbe = Started /\ activeProbe > withdrawn

\* A confirmation says what its probe was asked and has found.
ConfirmationIsOfProbe ==
  record # NoRecord =>
    /\ record.handle \in Probes /\ record.gateway = children[record.handle].gateway
    /\ record.requiresTrust => record.pin # NoLeaf
    /\ ~record.requiresTrust => record.pin = children[record.handle].pin

\* What has been confirmed is withdrawn.
BegunIsWithdrawn == withdrawn <= Started /\ \A b \in begun : b.handle <= withdrawn

OnboardingInv ==
  /\ OnboardingTypeOK /\ InOrder /\ StartedHasGateway /\ ActiveIsNewest /\ ConfirmationIsOfProbe /\ BegunIsWithdrawn
  /\ ConfirmedOnly /\ BusyWhileProbing /\ NewestConfirmation

-----------------------------------------------------------------------------
(* Probes are counted *)

StartedInOrder == Started \in 0..MaxProbes /\ FirstAreStarted(Started)

LEMMA ProbesAre == MaxProbes \in Nat /\ NoLeaf \notin Leaves /\ Probes = 1..MaxProbes /\ NoProbe = 0
BY OnboardingAssumption DEF OnboardingAssumption, Probes, NoProbe

LEMMA StartedIs == InOrder => StartedInOrder
<1>. SUFFICES ASSUME InOrder PROVE StartedInOrder
  OBVIOUS
<1>1. PICK k \in 0..MaxProbes : FirstAreStarted(k)
  BY DEF InOrder
<1>2. {n \in Probes : children[n].state # "none"} = 1..k
  BY <1>1, ProbesAre DEF FirstAreStarted
<1>3. Cardinality(1..k) = k
  BY <1>1, ProbesAre, FS_Interval
<1>4. Started = k
  BY <1>2, <1>3 DEF Started
<1>. QED  BY <1>1, <1>4 DEF StartedInOrder

LEMMA StartedWillBe == InOrder' => StartedInOrder'
BY StartedIs, PTL

\* The children go on, and none is started.
ChildrenGoOn ==
  /\ children' \in [Probes -> Children]
  /\ \A n \in Probes : /\ children'[n].state # "none" <=> children[n].state # "none"
                       /\ children'[n].gateway = children[n].gateway /\ children'[n].pin = children[n].pin

LEMMA NoneStarted ==
  ASSUME OnboardingInv, ChildrenGoOn
  PROVE  InOrder' /\ StartedHasGateway' /\ Started' = Started
<1>1. {n \in Probes : children'[n].state # "none"} = {n \in Probes : children[n].state # "none"}
  BY DEF ChildrenGoOn
<1>2. Started' = Started
  BY <1>1 DEF Started
<1>. QED  BY <1>2 DEF OnboardingInv, ChildrenGoOn, InOrder, FirstAreStarted, StartedHasGateway

LEMMA OnboardingIs ==
  ASSUME OnboardingInv
  PROVE  /\ children \in [Probes -> Children] /\ activeProbe \in Probes \cup {NoProbe}
         /\ record \in Confirmations /\ begun \subseteq Provisionings /\ withdrawn \in 0..MaxProbes
         /\ Started \in 0..MaxProbes /\ FirstAreStarted(Started)
         /\ activeProbe # NoProbe => activeProbe = Started /\ activeProbe > withdrawn
         /\ withdrawn <= Started /\ \A b \in begun : b.handle \in 1..Started
<1>1. begun \subseteq Provisionings /\ withdrawn \in 0..MaxProbes
  BY OnboardingTypesAre DEF OnboardingInv
<1>2. withdrawn <= Started /\ Started \in 0..MaxProbes /\ FirstAreStarted(Started)
  BY StartedIs DEF OnboardingInv, BegunIsWithdrawn, StartedInOrder
<1>3. \A b \in begun : b.handle \in 1..Started
  BY <1>1, <1>2, ProbesAre DEF OnboardingInv, BegunIsWithdrawn, Provisionings
<1>. QED  BY <1>1, <1>2, <1>3, OnboardingTypesAre DEF OnboardingInv, ActiveIsNewest

LEMMA NoRecordIs == NoRecord \in Confirmations /\ NoRecord.handle = 0 /\ ~NoRecord.expired
BY ProbesAre DEF NoRecord, Confirmations

\* A step that starts no probe and provisions nothing.
LEMMA NothingBegins ==
  ASSUME OnboardingInv, ChildrenGoOn, UNCHANGED begun, record' \in Confirmations,
         activeProbe' \in Probes \cup {NoProbe}, withdrawn' \in withdrawn..Started,
         activeProbe' # NoProbe => activeProbe' = activeProbe /\ withdrawn' = withdrawn,
         BusyWhileProbing',
         record' # NoRecord =>
           /\ record'.handle = Started /\ Started > withdrawn'
           /\ record'.handle \in Probes /\ record'.gateway = children[record'.handle].gateway
           /\ record'.requiresTrust => record'.pin # NoLeaf
           /\ ~record'.requiresTrust => record'.pin = children[record'.handle].pin
  PROVE  OnboardingInv'
<1>1. InOrder' /\ StartedHasGateway' /\ Started' = Started
  BY NoneStarted
<1>2. /\ withdrawn \in 0..MaxProbes /\ Started \in 0..MaxProbes /\ begun \subseteq Provisionings
      /\ activeProbe # NoProbe => activeProbe = Started /\ activeProbe > withdrawn
  BY OnboardingIs
<1>3. withdrawn' \in 0..MaxProbes /\ withdrawn <= withdrawn' /\ withdrawn' <= Started
  BY <1>2, ProbesAre
<1>4. OnboardingTypeOK'
  BY <1>2, <1>3, OnboardingTypesWillBe DEF ChildrenGoOn
<1>5. ActiveIsNewest'
  BY <1>1, <1>2 DEF ActiveIsNewest
<1>6. ConfirmationIsOfProbe' /\ NewestConfirmation'
  BY <1>1 DEF ChildrenGoOn, ConfirmationIsOfProbe, NewestConfirmation
<1>7. BegunIsWithdrawn'
  BY <1>1, <1>2, <1>3, ProbesAre DEF OnboardingInv, BegunIsWithdrawn, Provisionings
<1>8. ConfirmedOnly'
  BY <1>2 DEF OnboardingInv, ConfirmedOnly, ChildrenGoOn, Provisionings
<1>. QED  BY <1>1, <1>4, <1>5, <1>6, <1>7, <1>8 DEF OnboardingInv

LEMMA RecordStays ==
  ASSUME OnboardingInv
  PROVE  record # NoRecord =>
           /\ record.handle = Started /\ Started > withdrawn
           /\ record.handle \in Probes /\ record.gateway = children[record.handle].gateway
           /\ record.requiresTrust => record.pin # NoLeaf
           /\ ~record.requiresTrust => record.pin = children[record.handle].pin
BY DEF OnboardingInv, ConfirmationIsOfProbe, NewestConfirmation

LEMMA ChildrenStay ==
  ASSUME OnboardingInv, UNCHANGED children
  PROVE  ChildrenGoOn
BY OnboardingIs DEF ChildrenGoOn

\* The state of one child changes, that has been started.
LEMMA ChildGoesOn ==
  ASSUME OnboardingInv, NEW n \in Probes, children[n].state # "none", NEW state \in {"settled", "closed"},
         children' = [children EXCEPT ![n].state = state]
  PROVE  /\ ChildrenGoOn /\ children'[n].state = state
         /\ \A m \in Probes : m # n => children'[m] = children[m]
<1>1. children \in [Probes -> Children]
  BY OnboardingIs
<1>. DEFINE c == [children[n] EXCEPT !.state = state]
<1>2. /\ c \in Children /\ c.state = state /\ c.gateway = children[n].gateway /\ c.pin = children[n].pin
  BY <1>1 DEF Children
<1>3. children' = [children EXCEPT ![n] = c]
  BY <1>1
<1>. HIDE DEF c
<1>. QED  BY <1>1, <1>2, <1>3 DEF ChildrenGoOn

-----------------------------------------------------------------------------
(* Steps *)

LEMMA SpawnFailsKeeps ==
  ASSUME OnboardingInv, SpawnFails
  PROVE  OnboardingInv'
<1>1. withdrawn' \in withdrawn..Started
  BY OnboardingIs, ProbesAre DEF SpawnFails
<1>2. BusyWhileProbing' /\ ChildrenGoOn /\ UNCHANGED begun /\ record' = NoRecord /\ activeProbe' = NoProbe
  BY ChildrenStay DEF OnboardingInv, BusyWhileProbing, Settles, SpawnFails
<1>. QED  BY <1>1, <1>2, NoRecordIs, NothingBegins

LEMMA ExpireKeeps ==
  ASSUME OnboardingInv, Expire
  PROVE  OnboardingInv'
<1>1. record # NoRecord /\ record' = [record EXCEPT !.expired = TRUE] /\ record \in Confirmations
  BY OnboardingIs DEF Expire
<1>2. /\ record' \in Confirmations /\ record'.handle = record.handle /\ record'.gateway = record.gateway
      /\ record'.requiresTrust = record.requiresTrust /\ record'.pin = record.pin
  BY <1>1 DEF Confirmations
<1>3. withdrawn' \in withdrawn..Started
  BY OnboardingIs, ProbesAre DEF Expire
<1>4. BusyWhileProbing' /\ ChildrenGoOn /\ UNCHANGED <<begun, activeProbe, withdrawn>>
  BY ChildrenStay DEF OnboardingInv, BusyWhileProbing, Settles, Expire
<1>5. activeProbe \in Probes \cup {NoProbe}
  BY OnboardingIs
<1>. QED  BY <1>1, <1>2, <1>3, <1>4, <1>5, RecordStays, NothingBegins

LEMMA CancelKeeps ==
  ASSUME OnboardingInv, Cancel
  PROVE  OnboardingInv'
<1>1. withdrawn' \in withdrawn..Started /\ record' = NoRecord /\ activeProbe' = NoProbe /\ UNCHANGED begun
  BY OnboardingIs, ProbesAre DEF Cancel
<1>2. ChildrenGoOn /\ BusyWhileProbing'
  <2>1. CASE activeProbe = NoProbe
    BY <2>1, <1>1, ChildrenStay DEF OnboardingInv, BusyWhileProbing, Settles, Cancel
  <2>2. CASE activeProbe # NoProbe
    <3>1. activeProbe \in Probes
      BY <2>2, OnboardingIs
    <3>2. \A n \in Probes : children[n].state = "probing" <=> activeProbe = n
      BY DEF OnboardingInv, BusyWhileProbing, Settles
    <3>3. children' = [children EXCEPT ![activeProbe].state = "settled"]
      BY <2>2 DEF Cancel
    <3>4. /\ ChildrenGoOn /\ children'[activeProbe].state = "settled"
          /\ \A m \in Probes : m # activeProbe => children'[m] = children[m]
      BY <3>1, <3>2, <3>3, ChildGoesOn
    <3>. QED  BY <1>1, <3>2, <3>4, ProbesAre DEF BusyWhileProbing, Settles
  <2>. QED  BY <2>1, <2>2
<1>. QED  BY <1>1, <1>2, NoRecordIs, NothingBegins

\* A child that has been heard of is over; the runner is free if it was the active one.
LEMMA ChildEnds ==
  ASSUME OnboardingInv, NEW n \in Probes, NEW state \in {"settled", "closed"},
         children[n].state \in {"probing", "settled"},
         children' = [children EXCEPT ![n].state = state],
         activeProbe' = IF activeProbe = n THEN NoProbe ELSE activeProbe
  PROVE  /\ ChildrenGoOn /\ BusyWhileProbing' /\ activeProbe' \in Probes \cup {NoProbe}
         /\ activeProbe' # NoProbe => activeProbe' = activeProbe
<1>1. /\ ChildrenGoOn /\ children'[n].state = state
      /\ \A m \in Probes : m # n => children'[m] = children[m]
  BY ChildGoesOn
<1>2. \A m \in Probes : children[m].state = "probing" <=> activeProbe = m
  BY DEF OnboardingInv, BusyWhileProbing, Settles
<1>3. activeProbe \in Probes \cup {NoProbe}
  BY OnboardingIs
<1>. QED  BY <1>1, <1>2, <1>3, ProbesAre DEF BusyWhileProbing, Settles

LEMMA AbandonsKeeps ==
  ASSUME OnboardingInv, NEW n \in Probes, Abandons(n)
  PROVE  OnboardingInv'
<1>1. withdrawn' \in withdrawn..Started /\ record \in Confirmations
  BY OnboardingIs, ProbesAre DEF Abandons
<1>2. /\ ChildrenGoOn /\ BusyWhileProbing' /\ activeProbe' \in Probes \cup {NoProbe}
      /\ activeProbe' # NoProbe => activeProbe' = activeProbe
  BY ChildEnds DEF Abandons, Settles
<1>3. UNCHANGED <<record, begun, withdrawn>>
  BY DEF Abandons
<1>. QED  BY <1>1, <1>2, <1>3, RecordStays, NothingBegins

LEMMA ProbeClosesKeeps ==
  ASSUME OnboardingInv, NEW n \in Probes, NEW result \in Results, Closes(n, result)
  PROVE  OnboardingInv'
<1>1. /\ withdrawn' \in withdrawn..Started /\ record \in Confirmations /\ UNCHANGED <<begun, withdrawn>>
      /\ children[n] \in Children /\ MaxProbes \in Nat /\ NoLeaf \notin Leaves
  BY OnboardingIs, ProbesAre DEF Closes
<1>2. \A m \in Probes : children[m].state = "probing" <=> activeProbe = m
  BY DEF OnboardingInv, BusyWhileProbing, Settles
<1>3. activeProbe' = IF activeProbe = n THEN NoProbe ELSE activeProbe
  BY <1>2 DEF Closes, Settles
<1>4. /\ ChildrenGoOn /\ BusyWhileProbing' /\ activeProbe' \in Probes \cup {NoProbe}
      /\ activeProbe' # NoProbe => activeProbe' = activeProbe
  BY <1>3, ChildEnds DEF Closes
<1>5. CASE UNCHANGED record
  BY <1>1, <1>4, <1>5, RecordStays, NothingBegins
<1>6. CASE Settles(n) /\ Issuable(n, result) /\ record' = Issued(n, result)
  <2>1. activeProbe = n /\ n = Started /\ n > withdrawn
    BY <1>2, <1>6, OnboardingIs, ProbesAre DEF Settles
  <2>. DEFINE p == Pinned(n, result)
              t == result.kind = "untrusted"
  <2>2. /\ p \in Leaves \cup {NoLeaf} /\ (t => p # NoLeaf) /\ (~t => p = children[n].pin)
    BY <1>1 DEF Results, Pinned, Children
  <2>3. t \in BOOLEAN
    OBVIOUS
  <2>4. record' = [handle |-> n, gateway |-> children[n].gateway, requiresTrust |-> t, expired |-> FALSE, pin |-> p]
    BY <1>6 DEF Issued
  <2>. HIDE DEF p, t
  <2>5. /\ record'.handle = n /\ record'.gateway = children[n].gateway /\ record'.requiresTrust = t /\ record'.pin = p
    BY <2>4
  <2>6. record' \in Confirmations
    BY <1>1, <2>2, <2>3, <2>4 DEF Confirmations, Children
  <2>7. /\ record'.requiresTrust => record'.pin # NoLeaf
        /\ ~record'.requiresTrust => record'.pin = children[record'.handle].pin
    BY <2>2, <2>5
  <2>. QED  BY <1>1, <1>4, <2>1, <2>5, <2>6, <2>7, NothingBegins
<1>. QED  BY <1>5, <1>6 DEF Closes

\* The next probe starts.
LEMMA NextStarts ==
  ASSUME OnboardingInv, NEW k \in Nat, k = Started, k < MaxProbes, NEW c \in Children, c.state # "none",
         children' = [children EXCEPT ![k + 1] = c]
  PROVE  /\ k + 1 \in Probes /\ Started' = k + 1 /\ InOrder' /\ children' \in [Probes -> Children]
         /\ children'[k + 1] = c /\ \A m \in Probes : m # k + 1 => children'[m] = children[m]
<1>1. children \in [Probes -> Children] /\ k \in 0..MaxProbes /\ FirstAreStarted(k) /\ MaxProbes \in Nat
  BY OnboardingIs, ProbesAre
<1>2. k + 1 \in Probes
  BY <1>1, ProbesAre
<1>3. /\ children' \in [Probes -> Children] /\ children'[k + 1] = c
      /\ \A m \in Probes : m # k + 1 => children'[m] = children[m]
  BY <1>1, <1>2
<1>4. \A m \in Probes : children'[m].state # "none" <=> m <= k + 1
  BY <1>1, <1>3, ProbesAre DEF FirstAreStarted
<1>5. {m \in Probes : children'[m].state # "none"} = 1..(k + 1)
  BY <1>1, <1>4, ProbesAre
<1>6. Cardinality(1..(k + 1)) = k + 1
  BY FS_Interval
<1>7. Started' = k + 1
  BY <1>5, <1>6 DEF Started
<1>8. InOrder'
  BY <1>1, <1>4 DEF InOrder, FirstAreStarted
<1>. QED  BY <1>2, <1>3, <1>7, <1>8

LEMMA ProbeKeeps ==
  ASSUME OnboardingInv, NEW gateway \in Gateways, NEW pin \in Leaves \cup {NoLeaf}, Probe(gateway, pin)
  PROVE  OnboardingInv'
<1>. DEFINE c == [state |-> "probing", gateway |-> gateway, pin |-> pin]
<1>1. PICK k \in 0..MaxProbes : k = Started
  BY OnboardingIs
<1>2. /\ activeProbe = NoProbe /\ k < MaxProbes /\ children' = [children EXCEPT ![k + 1] = c]
      /\ activeProbe' = k + 1 /\ record' = NoRecord /\ withdrawn' = k /\ UNCHANGED begun
  BY <1>1 DEF Probe
<1>3. c \in Children /\ c.state = "probing" /\ c.gateway = gateway
  BY DEF Children
<1>. HIDE DEF c
<1>4. /\ begun \subseteq Provisionings /\ k \in Nat /\ MaxProbes \in Nat /\ FirstAreStarted(k)
      /\ \A b \in begun : b.handle \in 1..k
  BY <1>1, OnboardingIs, ProbesAre
<1>5. /\ k + 1 \in Probes /\ Started' = k + 1 /\ InOrder' /\ children' \in [Probes -> Children]
      /\ children'[k + 1] = c /\ \A m \in Probes : m # k + 1 => children'[m] = children[m]
  BY <1>1, <1>2, <1>3, <1>4, NextStarts
<1>6. OnboardingTypeOK'
  BY <1>1, <1>2, <1>4, <1>5, OnboardingTypesWillBe, NoRecordIs
<1>7. StartedHasGateway'
  BY <1>3, <1>5 DEF OnboardingInv, StartedHasGateway
<1>8. ActiveIsNewest' /\ BegunIsWithdrawn'
  BY <1>2, <1>4, <1>5 DEF ActiveIsNewest, BegunIsWithdrawn
<1>9. ConfirmationIsOfProbe' /\ NewestConfirmation'
  BY <1>2 DEF ConfirmationIsOfProbe, NewestConfirmation
<1>10. BusyWhileProbing'
  BY <1>2, <1>3, <1>4, <1>5, ProbesAre DEF OnboardingInv, BusyWhileProbing, Settles
<1>11. ConfirmedOnly'
  <2>1. \A b \in begun : b.handle \in Probes /\ b.handle # k + 1
    BY <1>4, <1>5 DEF Provisionings
  <2>. QED  BY <1>2, <1>5, <2>1 DEF OnboardingInv, ConfirmedOnly
<1>. QED  BY <1>5, <1>6, <1>7, <1>8, <1>9, <1>10, <1>11 DEF OnboardingInv

\* A confirmation is consumed: it is of the newest probe, and no probe is provisioned twice.
LEMMA ConfirmKeeps ==
  ASSUME OnboardingInv, NEW handle \in Probes, NEW trust \in BOOLEAN, Confirm(handle, trust)
  PROVE  OnboardingInv'
<1>1. /\ activeProbe = NoProbe /\ record' = NoRecord /\ withdrawn' = Newest(withdrawn, record.handle)
      /\ UNCHANGED <<children, activeProbe>>
  BY DEF Confirm
<1>2. /\ begun \subseteq Provisionings /\ withdrawn \in 0..MaxProbes /\ MaxProbes \in Nat
      /\ record \in Confirmations /\ children \in [Probes -> Children] /\ withdrawn <= Started
      /\ Started \in 0..MaxProbes /\ \A b \in begun : b.handle \in 1..Started
  BY OnboardingIs, ProbesAre
<1>3. record = NoRecord => withdrawn' = withdrawn
  BY <1>1, <1>2, NoRecordIs DEF Newest
<1>4. record # NoRecord => withdrawn' = record.handle /\ record.handle = Started /\ record.handle > withdrawn
  BY <1>1, <1>2, RecordStays DEF Newest
<1>5. ChildrenGoOn /\ BusyWhileProbing'
  BY <1>1, ChildrenStay DEF OnboardingInv, BusyWhileProbing, Settles
<1>6. withdrawn' \in withdrawn..Started
  BY <1>2, <1>3, <1>4
<1>7. CASE UNCHANGED begun
  BY <1>1, <1>5, <1>6, <1>7, NoRecordIs, NothingBegins
<1>8. CASE Accepts(handle, trust)
  <2>. DEFINE t == record.requiresTrust
              e == record.expired
              l == handle <= withdrawn
              b == [handle |-> handle, gateway |-> record.gateway, pin |-> record.pin, needed |-> t,
                    trusted |-> trust, expired |-> e, late |-> l]
  <2>1. begun' = begun \cup {b}
    BY <1>8 DEF Confirm
  <2>2. /\ record # NoRecord /\ handle = record.handle /\ ~record.expired /\ (t => trust)
    BY <1>8 DEF Accepts
  <2>3. /\ handle = Started /\ handle > withdrawn /\ withdrawn' = handle
        /\ record.gateway = children[handle].gateway
        /\ t => record.pin # NoLeaf
        /\ ~t => record.pin = children[handle].pin
    BY <2>2, <1>4, RecordStays
  <2>4. InOrder' /\ StartedHasGateway' /\ Started' = Started
    BY <1>5, NoneStarted
  <2>5. children[handle].gateway \in Gateways
    <3>1. children[handle].state # "none"
      BY <2>3, OnboardingIs, <1>2 DEF FirstAreStarted
    <3>. QED  BY <3>1 DEF OnboardingInv, StartedHasGateway
  <2>6. /\ record.requiresTrust \in BOOLEAN /\ record.expired = FALSE /\ record.pin \in Leaves \cup {NoLeaf}
        /\ ~(handle <= withdrawn)
    BY <1>2, <2>2, <2>3, ProbesAre DEF Confirmations
  <2>7. t \in BOOLEAN
    BY <2>6
  <2>8. e = FALSE /\ l = FALSE
    BY <2>6
  <2>. HIDE DEF t, e, l
  <2>. HIDE DEF b
  <2>9. b \in Provisionings
    BY <2>3, <2>5, <2>6, <2>7, <2>8 DEF b, Provisionings
  <2>10. /\ b.handle = handle /\ b.gateway = record.gateway /\ b.pin = record.pin /\ b.needed = t
         /\ b.trusted = trust /\ b.expired = e /\ b.late = l
    BY DEF b
  <2>11. OnboardingTypeOK'
    BY <1>1, <1>2, <1>6, <2>1, <2>9, NoRecordIs, OnboardingTypesAre, OnboardingTypesWillBe DEF OnboardingInv
  <2>12. ActiveIsNewest' /\ ConfirmationIsOfProbe' /\ NewestConfirmation'
    BY <1>1 DEF ActiveIsNewest, ConfirmationIsOfProbe, NewestConfirmation
  <2>13. \A c \in begun : c.handle <= withdrawn /\ c.handle # handle /\ c.handle \in Nat
    BY <1>2, <2>3 DEF OnboardingInv, BegunIsWithdrawn
  <2>14. BegunIsWithdrawn'
    BY <1>2, <2>1, <2>3, <2>4, <2>10, <2>13 DEF BegunIsWithdrawn
  <2>15. ConfirmedOnly'
    <3>1. /\ ~b.late /\ ~b.expired /\ b.gateway = children'[b.handle].gateway
          /\ b.needed => b.trusted /\ b.pin # NoLeaf
          /\ ~b.needed => b.pin = children'[b.handle].pin
      BY <1>1, <2>2, <2>3, <2>8, <2>10 DEF t
    <3>. QED  BY <1>1, <2>1, <2>10, <2>13, <3>1 DEF OnboardingInv, ConfirmedOnly
  <2>. QED  BY <1>5, <2>4, <2>11, <2>12, <2>14, <2>15 DEF OnboardingInv
<1>. QED  BY <1>7, <1>8 DEF Confirm

-----------------------------------------------------------------------------
LEMMA OnboardingKept ==
  ASSUME OnboardingInv, [OnboardingNext]_onboardingVars
  PROVE  OnboardingInv'
<1>1. CASE SpawnFails \/ Cancel \/ Expire
  BY <1>1, SpawnFailsKeeps, CancelKeeps, ExpireKeeps
<1>2. CASE \E g \in Gateways, pin \in Leaves \cup {NoLeaf} : Probe(g, pin)
  BY <1>2, ProbeKeeps
<1>3. CASE \E n \in Probes : Abandons(n)
  BY <1>3, AbandonsKeeps
<1>4. CASE \E n \in Probes, r \in Results : Closes(n, r)
  BY <1>4, ProbeClosesKeeps
<1>5. CASE \E n \in Probes, trust \in BOOLEAN : Confirm(n, trust)
  BY <1>5, ConfirmKeeps
<1>6. CASE UNCHANGED onboardingVars
  <2>1. UNCHANGED <<children, activeProbe, record, begun, withdrawn>>
    BY <1>6 DEF onboardingVars
  <2>2. /\ activeProbe \in Probes \cup {NoProbe} /\ record \in Confirmations /\ withdrawn' \in withdrawn..Started
    BY <2>1, OnboardingIs, ProbesAre
  <2>3. ChildrenGoOn /\ BusyWhileProbing'
    BY <2>1, ChildrenStay DEF OnboardingInv, BusyWhileProbing, Settles
  <2>. QED  BY <2>1, <2>2, <2>3, RecordStays, NothingBegins
<1>. QED  BY <1>1, <1>2, <1>3, <1>4, <1>5, <1>6 DEF OnboardingNext

LEMMA OnboardingAtFirst ==
  ASSUME OnboardingInit
  PROVE  OnboardingInv
<1>1. /\ children = [n \in Probes |-> NotSpawned] /\ activeProbe = NoProbe /\ record = NoRecord
      /\ begun = {} /\ withdrawn = 0
  BY DEF OnboardingInit
<1>2. NotSpawned \in Children /\ NotSpawned.state = "none"
  BY DEF NotSpawned, Children
<1>3. children \in [Probes -> Children] /\ \A n \in Probes : children[n].state = "none"
  BY <1>1, <1>2
<1>4. {n \in Probes : children[n].state # "none"} = {}
  BY <1>3
<1>5. Started = 0
  BY <1>4, FS_EmptySet DEF Started
<1>6. FirstAreStarted(0) /\ 0 \in 0..MaxProbes /\ NoProbe \notin Probes
  BY <1>3, ProbesAre DEF FirstAreStarted
<1>7. OnboardingTypeOK
  BY <1>1, <1>3, <1>6, OnboardingTypesAre, NoRecordIs
<1>8. InOrder /\ StartedHasGateway /\ BusyWhileProbing
  BY <1>1, <1>3, <1>6 DEF InOrder, StartedHasGateway, BusyWhileProbing, Settles
<1>9. ActiveIsNewest /\ ConfirmationIsOfProbe /\ NewestConfirmation /\ ConfirmedOnly
  BY <1>1 DEF ActiveIsNewest, ConfirmationIsOfProbe, NewestConfirmation, ConfirmedOnly
<1>10. BegunIsWithdrawn
  BY <1>1, <1>5 DEF BegunIsWithdrawn
<1>. QED  BY <1>7, <1>8, <1>9, <1>10 DEF OnboardingInv

\* A provisioning begins only with the confirmation of the newest probe, once,
\* before it expires, for the gateway that probe asked, and with the user's
\* trust where the certificate needs it; the coordinator is busy exactly while
\* a probe is open (probe, cancel and confirm of the coordinator).
THEOREM OnboardingCorrect == OnboardingSpec => []OnboardingSafety
<1>1. OnboardingInit => OnboardingInv
  BY OnboardingAtFirst
<1>2. OnboardingInv /\ [OnboardingNext]_onboardingVars => OnboardingInv'
  BY OnboardingKept
<1>3. OnboardingInv => OnboardingSafety
  BY DEF OnboardingInv, OnboardingSafety
<1>. QED  BY <1>1, <1>2, <1>3, PTL DEF OnboardingSpec

-----------------------------------------------------------------------------
(* The custom profiles on disk, for any number of profiles, of their files    *)
(* and of faults.  The invariant says what may be left of each profile, what  *)
(* the journal still binds, and what a deletion under way finds; a run of     *)
(* writes keeps it after each of them.                                        *)

-----------------------------------------------------------------------------
(* The invariant *)

ProfileFiles == SUBSET (FileKinds \cup {"rewritten"})
Places == {"absent", "normal", "quarantine"}
Disks == [index : SUBSET Profiles, journal : Journals, files : [Profiles -> ProfileFiles],
          place : [Profiles -> Places], tombstone : [Profiles -> Tombstones],
          partition : SUBSET Profiles, switch : Profiles \cup {None, Home}, active : Profiles \cup {Home}]

\* One profile, of those born (b) and condemned (c): listed, it is whole; condemned, it
\* is listed no more, and gone from the index only without its partition.
ProfileOk(d, b, c, p) ==
  /\ p \in d.index /\ ~Tombstoned(d, p) => Complete(d, p)
  /\ Tombstoned(d, p) => p \in c
  /\ p \in c => /\ p \in d.index => Tombstoned(d, p)
                /\ p \notin d.index => p \notin d.partition /\ d.place[p] # "normal"
  /\ p \notin b => p \notin d.index /\ d.files[p] = {} /\ d.place[p] = "absent"
  /\ p \in {d.active, d.switch} /\ p \notin c => p \in d.index

\* A journal binds a profile that is not in the index while it is only prepared.
Writing == {"prepared", "materialized", "indexed"}
JournalOk(j, index, b, c) ==
  /\ j.state = "torn" => j = Torn
  /\ j.state = "absent" => j = NoJournal
  /\ j.state \in Writing => j.profile \in b /\ j.after = j.before \cup {j.profile}
  /\ j.state = "prepared" => j.profile \notin index /\ j.profile \notin c

Sound(d, b, c) ==
  /\ d \in Disks /\ b \subseteq Profiles /\ c \subseteq b
  /\ JournalOk(d.journal, d.index, b, c) /\ \A p \in Profiles : ProfileOk(d, b, c, p)

\* What the journal is bound to is as the journal says.
Footing(d) ==
  /\ d.journal.state = "prepared" => /\ d.index = d.journal.before
                                     /\ d.files[d.journal.profile] \subseteq FileKinds
                                     /\ d.place[d.journal.profile] # "quarantine"
  /\ d.journal.state \in {"materialized", "indexed"} => Verified(d)
  /\ d.journal.state = "materialized" => d.index \in {d.journal.before, d.journal.after}
  /\ d.journal.state = "indexed" => d.index = d.journal.after

\* A deletion under way has its tombstone, and a recovery still has before it what the
\* index holds with one.
FlightOk(f, d) ==
  /\ f \in Flights
  /\ f.profile # None => f.kind # "none" /\ Tombstoned(d, f.profile)
  /\ f.kind = "recover" => \A p \in d.index : Tombstoned(d, p) => p \in f.left \cup {f.profile}

ProcessOk ==
  /\ process \in {"off", "running", "relaunching"} /\ live \in Profiles \cup {Home} /\ faults \in 0..MaxFaults
  /\ touched \in BOOLEAN /\ refused \in {"", "journal", "switch", "active"}
  /\ refused # "" => process = "off"
  /\ process = "off" => flight = NoFlight
  /\ process = "running" => live = disk.active
  /\ LiveIsKept

ProfilesInv ==
  /\ Sound(disk, born, condemned) /\ (touched \/ Footing(disk))
  /\ FlightOk(flight, disk) /\ ProcessOk /\ StartRefusedForCause

-----------------------------------------------------------------------------
(* Values *)

LEMMA NamesAreApart ==
  /\ Home \notin Profiles /\ None \notin Profiles /\ Home # None /\ "rewritten" \notin FileKinds
  /\ FileKinds # {} /\ MaxFaults \in Nat
BY ProfilesAssumption DEF ProfilesAssumption, Home, None

LEMMA JournalsAre ==
  /\ Torn \in Journals /\ Torn.state = "torn" /\ Torn.profile = None
  /\ NoJournal \in Journals /\ NoJournal.state = "absent" /\ NoJournal.profile = None
BY DEF Torn, NoJournal, Journals

LEMMA DiskIs ==
  ASSUME NEW d \in Disks
  PROVE  /\ d.index \subseteq Profiles /\ d.journal \in Journals /\ d.files \in [Profiles -> ProfileFiles]
         /\ d.place \in [Profiles -> Places] /\ d.tombstone \in [Profiles -> Tombstones]
         /\ d.partition \subseteq Profiles /\ d.switch \in Profiles \cup {None, Home}
         /\ d.active \in Profiles \cup {Home}
BY DEF Disks

LEMMA SoundIs ==
  ASSUME NEW d, NEW b, NEW c, Sound(d, b, c)
  PROVE  /\ d \in Disks /\ d.journal \in Journals /\ b \subseteq Profiles /\ c \subseteq b
         /\ JournalOk(d.journal, d.index, b, c) /\ \A p \in Profiles : ProfileOk(d, b, c, p)
BY DEF Sound, Disks

LEMMA EndIs ==
  ASSUME NEW d, NEW e
  PROVE  /\ e \in Cut(d) => e.disk = d /\ e.end \in {"failed", "crashed"}
         /\ e \in WroteAll(d) => e.disk = d /\ e.end = "done"
         /\ e \in ThrewAt(d) => e.disk = d /\ e.end = "threw"
BY DEF Cut, WroteAll, ThrewAt, Ends

\* A change of one profile is a matter of that profile and of the journal.
SameOf(d, e, q) ==
  /\ q \in e.index <=> q \in d.index
  /\ q \in e.partition <=> q \in d.partition
  /\ e.files[q] = d.files[q] /\ e.place[q] = d.place[q] /\ e.tombstone[q] = d.tombstone[q]

LEMMA OneChanges ==
  ASSUME NEW d, NEW b, NEW c, Sound(d, b, c), NEW p, NEW e \in Disks,
         e.active = d.active, e.switch = d.switch,
         \A q \in Profiles : q # p => SameOf(d, e, q),
         p \in Profiles => ProfileOk(e, b, c, p), JournalOk(e.journal, e.index, b, c)
  PROVE  Sound(e, b, c)
<1>1. \A q \in Profiles : q # p => ProfileOk(e, b, c, q)
  BY DEF Sound, ProfileOk, SameOf, Tombstoned, Complete
<1>. QED  BY <1>1 DEF Sound

\* Only the journal changes.
LEMMA JournalChanges ==
  ASSUME NEW d, NEW b, NEW c, Sound(d, b, c), NEW j \in Journals, JournalOk(j, d.index, b, c)
  PROVE  LET e == [d EXCEPT !.journal = j] IN
         /\ Sound(e, b, c) /\ e.journal = j /\ e.index = d.index /\ e.files = d.files /\ e.place = d.place
         /\ e.tombstone = d.tombstone /\ e.partition = d.partition /\ e.switch = d.switch /\ e.active = d.active
<1>. DEFINE e == [d EXCEPT !.journal = j]
<1>1. d \in Disks
  BY DEF Sound
<1>2. /\ e \in Disks /\ e.journal = j /\ e.index = d.index /\ e.files = d.files /\ e.place = d.place
      /\ e.tombstone = d.tombstone /\ e.partition = d.partition /\ e.switch = d.switch /\ e.active = d.active
  BY <1>1 DEF Disks
<1>. HIDE DEF e
<1>3. Sound(e, b, c)
  <2>1. \A q \in Profiles : SameOf(d, e, q)
    BY <1>2 DEF SameOf
  <2>2. JournalOk(e.journal, e.index, b, c)
    BY <1>2
  <2>3. \A q \in Profiles : ProfileOk(e, b, c, q)
    BY <1>2 DEF Sound, ProfileOk, Tombstoned, Complete
  <2>. QED  BY <1>2, <2>2, <2>3 DEF Sound
<1>. QED  BY <1>2, <1>3 DEF e

-----------------------------------------------------------------------------
(* Provisioning *)

\* An end of a provisioning of profile p that begins on disk d.
After(d, e, b, c, p) ==
  /\ Sound(e.disk, b, c) /\ e.disk.tombstone = d.tombstone /\ e.disk.index \subseteq d.index \cup {p}
  /\ e.disk.active = d.active
  /\ Footing(d) => Footing(e.disk) /\ e.end # "threw"

\* A step of it from d to f, after which it goes on.
LEMMA AfterStep ==
  ASSUME NEW d, NEW f, NEW e, NEW b, NEW c, NEW p, After(f, e, b, c, p), f.tombstone = d.tombstone,
         f.active = d.active, f.index \subseteq d.index \cup {p}, Footing(d) => Footing(f)
  PROVE  After(d, e, b, c, p)
BY DEF After

LEMMA AfterCut ==
  ASSUME NEW d, NEW b, NEW c, NEW p, Sound(d, b, c), NEW e, e \in Cut(d)
  PROVE  After(d, e, b, c, p)
BY EndIs DEF After

LEMMA AfterThrow ==
  ASSUME NEW d, NEW b, NEW c, NEW p, Sound(d, b, c), ~Footing(d), NEW e, e \in ThrewAt(d)
  PROVE  After(d, e, b, c, p)
BY EndIs DEF After

LEMMA StateIs ==
  ASSUME NEW d, NEW b, NEW c, Sound(d, b, c), d.journal.state \in Writing, NEW s \in {"materialized", "indexed"}
  PROVE  LET e == State(d, s) IN
         /\ Sound(e, b, c) /\ e.journal.state = s /\ e.journal.profile = d.journal.profile
         /\ e.journal.before = d.journal.before /\ e.journal.after = d.journal.after
         /\ e.index = d.index /\ e.files = d.files /\ e.place = d.place /\ e.tombstone = d.tombstone
         /\ e.active = d.active
<1>. DEFINE j == [d.journal EXCEPT !.state = s]
            e == State(d, s)
<1>1. d.journal \in Journals /\ JournalOk(d.journal, d.index, b, c)
  BY SoundIs
<1>2. /\ j \in Journals /\ j.state = s /\ j.profile = d.journal.profile
      /\ j.before = d.journal.before /\ j.after = d.journal.after
  BY <1>1 DEF Journals
<1>3. e = [d EXCEPT !.journal = j]
  BY DEF State
<1>. HIDE DEF j, e
<1>4. JournalOk(j, d.index, b, c)
  BY <1>1, <1>2 DEF JournalOk, Writing
<1>5. /\ Sound(e, b, c) /\ e.journal = j /\ e.index = d.index /\ e.files = d.files /\ e.place = d.place
      /\ e.tombstone = d.tombstone /\ e.active = d.active
  BY <1>2, <1>3, <1>4, JournalChanges
<1>. QED  BY <1>2, <1>5 DEF e

LEMMA FromIndexedIs ==
  ASSUME NEW d, NEW b, NEW c, Sound(d, b, c), d.journal.state = "indexed", NEW p, NEW e \in FromIndexed(d)
  PROVE  After(d, e, b, c, p)
<1>. DEFINE f == [d EXCEPT !.journal = NoJournal]
<1>1. JournalOk(NoJournal, d.index, b, c)
  BY JournalsAre DEF JournalOk, Writing
<1>2. Sound(f, b, c) /\ f.journal = NoJournal /\ f.index = d.index /\ f.tombstone = d.tombstone
      /\ f.active = d.active
  BY <1>1, JournalsAre, JournalChanges
<1>. HIDE DEF f
<1>3. Footing(f)
  BY <1>2, JournalsAre DEF Footing
<1>4. CASE Verified(d) /\ d.index = d.journal.after
  <2>1. e \in Cut(d) \/ e \in WroteAll(f)
    BY <1>4 DEF FromIndexed, f
  <2>2. CASE e \in WroteAll(f)
    BY <1>2, <1>3, <2>2, EndIs DEF After
  <2>. QED  BY <2>1, <2>2, AfterCut
<1>5. CASE ~(Verified(d) /\ d.index = d.journal.after)
  <2>1. e \in ThrewAt(d) /\ ~Footing(d)
    BY <1>5 DEF FromIndexed, Footing
  <2>. QED  BY <2>1, AfterThrow
<1>. QED  BY <1>4, <1>5

\* The profile of the journal enters the index: it is whole, or there already.
LEMMA IndexedIs ==
  ASSUME NEW d, NEW b, NEW c, Sound(d, b, c), d.journal.state = "materialized", Verified(d),
         d.index \in {d.journal.before, d.journal.after}
  PROVE  /\ Sound(Indexed(d), b, c) /\ Indexed(d).journal = d.journal /\ Indexed(d).tombstone = d.tombstone
         /\ Indexed(d).index = d.journal.after /\ d.journal.after = d.index \cup {d.journal.profile}
         /\ Indexed(d).files = d.files /\ Indexed(d).place = d.place /\ Indexed(d).active = d.active
<1>. DEFINE p == d.journal.profile
            f == Indexed(d)
<1>1. d \in Disks /\ d.journal \in Journals /\ JournalOk(d.journal, d.index, b, c) /\ p \in b /\ b \subseteq Profiles
  BY SoundIs DEF JournalOk, Writing
<1>2. d.journal.after = d.index \cup {p} /\ d.journal.after \subseteq Profiles
  BY <1>1 DEF JournalOk, Writing, Journals
<1>3. f = [d EXCEPT !.index = d.journal.after]
  BY DEF Indexed
<1>. HIDE DEF f
<1>4. /\ f \in Disks /\ f.index = d.index \cup {p} /\ f.journal = d.journal /\ f.files = d.files
      /\ f.place = d.place /\ f.tombstone = d.tombstone /\ f.partition = d.partition /\ f.switch = d.switch
      /\ f.active = d.active
  BY <1>1, <1>2, <1>3 DEF Disks
<1>5. \A q \in Profiles : q # p => SameOf(d, f, q)
  BY <1>4 DEF SameOf
<1>6. ProfileOk(f, b, c, p)
  <2>1. ProfileOk(d, b, c, p)
    BY <1>1 DEF Sound
  <2>2. Complete(f, p) /\ f.place[p] = "normal"
    BY <1>4 DEF Verified, Complete
  <2>. QED  BY <1>1, <1>4, <2>1, <2>2 DEF ProfileOk, Tombstoned
<1>7. JournalOk(f.journal, f.index, b, c)
  BY <1>1, <1>4 DEF JournalOk
<1>8. Sound(f, b, c)
  BY <1>4, <1>5, <1>6, <1>7, OneChanges
<1>. QED  BY <1>2, <1>4, <1>8 DEF f

LEMMA FromMaterializedIs ==
  ASSUME NEW d, NEW b, NEW c, Sound(d, b, c), d.journal.state = "materialized", NEW p, p = d.journal.profile,
         NEW e \in FromMaterialized(d)
  PROVE  After(d, e, b, c, p)
<1>1. CASE Verified(d) /\ d.index \in {d.journal.before, d.journal.after}
  <2>. DEFINE f == Indexed(d)
              g == State(f, "indexed")
  <2>1. /\ Sound(f, b, c) /\ f.journal = d.journal /\ f.tombstone = d.tombstone /\ f.index = d.journal.after
        /\ d.journal.after = d.index \cup {p} /\ f.files = d.files /\ f.place = d.place
        /\ f.active = d.active
    BY <1>1, IndexedIs
  <2>2. e \in Cut(d) \/ e \in Cut(f) \/ e \in FromIndexed(g)
    BY <1>1 DEF FromMaterialized
  <2>. HIDE DEF f
  <2>3. f.journal.state \in Writing
    BY <2>1 DEF Writing
  <2>4. /\ Sound(g, b, c) /\ g.journal.state = "indexed" /\ g.journal.profile = f.journal.profile
        /\ g.journal.after = f.journal.after /\ g.index = f.index /\ g.files = f.files
        /\ g.place = f.place /\ g.tombstone = f.tombstone /\ g.active = f.active
    BY <2>1, <2>3, StateIs
  <2>. HIDE DEF g
  <2>5. Footing(f) /\ Footing(g)
    BY <1>1, <2>1, <2>4 DEF Footing, Verified
  <2>6. CASE e \in Cut(f)
    BY <2>1, <2>5, <2>6, AfterCut, AfterStep
  <2>7. CASE e \in FromIndexed(g)
    <3>1. After(g, e, b, c, p)
      BY <2>4, <2>7, FromIndexedIs
    <3>2. g.tombstone = d.tombstone /\ g.index \subseteq d.index \cup {p} /\ g.active = d.active
      BY <2>1, <2>4
    <3>. QED  BY <2>5, <3>1, <3>2, AfterStep
  <2>. QED  BY <2>2, <2>6, <2>7, AfterCut
<1>2. CASE ~(Verified(d) /\ d.index \in {d.journal.before, d.journal.after})
  <2>1. e \in ThrewAt(d) /\ ~Footing(d)
    BY <1>2 DEF FromMaterialized, Footing
  <2>. QED  BY <2>1, AfterThrow
<1>. QED  BY <1>1, <1>2

\* Files are written for a profile that is not in the index yet.
LEMMA WrittenIs ==
  ASSUME NEW d, NEW b, NEW c, Sound(d, b, c), d.journal.state = "prepared", NEW fs \in SUBSET FileKinds
  PROVE  LET f == Written(d, fs) p == d.journal.profile IN
         /\ Sound(f, b, c) /\ f.journal = d.journal /\ f.index = d.index /\ f.tombstone = d.tombstone
         /\ f.files[p] = d.files[p] \cup fs /\ f.place[p] = "normal" /\ f.active = d.active
<1>. DEFINE p == d.journal.profile
            f == Written(d, fs)
            n == d.files[p] \cup fs
<1>1. /\ d \in Disks /\ d.journal \in Journals /\ JournalOk(d.journal, d.index, b, c)
      /\ p \in b /\ p \notin d.index /\ p \notin c /\ b \subseteq Profiles /\ c \subseteq b
  BY SoundIs DEF JournalOk, Writing
<1>2. f = [d EXCEPT !.files = [d.files EXCEPT ![p] = n], !.place = [d.place EXCEPT ![p] = "normal"]]
  BY DEF Written
<1>3. n \in ProfileFiles /\ "normal" \in Places
  BY <1>1 DEF Disks, ProfileFiles, Places
<1>. HIDE DEF f, n
<1>4. /\ f \in Disks /\ f.index = d.index /\ f.journal = d.journal
      /\ f.files = [d.files EXCEPT ![p] = n] /\ f.place = [d.place EXCEPT ![p] = "normal"]
      /\ f.tombstone = d.tombstone /\ f.partition = d.partition /\ f.switch = d.switch /\ f.active = d.active
  BY <1>1, <1>2, <1>3 DEF Disks
<1>5. f.files[p] = n /\ f.place[p] = "normal" /\ \A q \in Profiles : q # p => SameOf(d, f, q)
  BY <1>1, <1>4, DiskIs DEF SameOf
<1>6. ProfileOk(f, b, c, p)
  <2>1. ProfileOk(d, b, c, p)
    BY <1>1 DEF Sound
  <2>. QED  BY <1>1, <1>4, <2>1 DEF ProfileOk, Tombstoned
<1>7. Sound(f, b, c)
  BY <1>1, <1>4, <1>5, <1>6, OneChanges
<1>. QED  BY <1>4, <1>5, <1>7 DEF f, n

LEMMA FromPreparedIs ==
  ASSUME NEW d, NEW b, NEW c, Sound(d, b, c), d.journal.state = "prepared", NEW p, p = d.journal.profile,
         NEW e \in FromPrepared(d)
  PROVE  After(d, e, b, c, p)
<1>1. CASE Conflicts(d) \/ d.place[p] = "quarantine"
  <2>1. e \in ThrewAt(d) /\ ~Footing(d)
    BY <1>1, NamesAreApart DEF FromPrepared, Footing, Conflicts
  <2>. QED  BY <2>1, AfterThrow
<1>2. CASE \E fs \in SUBSET FileKinds : e \in Cut(Written(d, fs))
  <2>1. PICK fs \in SUBSET FileKinds : e \in Cut(Written(d, fs))
    BY <1>2
  <2>. DEFINE f == Written(d, fs)
  <2>2. /\ Sound(f, b, c) /\ f.journal = d.journal /\ f.index = d.index /\ f.tombstone = d.tombstone
        /\ f.files[p] = d.files[p] \cup fs /\ f.place[p] = "normal" /\ f.active = d.active
        /\ e \in Cut(f)
    BY <2>1, WrittenIs
  <2>. HIDE DEF f
  <2>3. Footing(d) => Footing(f)
    BY <2>2 DEF Footing
  <2>. QED  BY <2>2, <2>3, AfterCut, AfterStep
<1>3. CASE e \in FromMaterialized(State(Written(d, FileKinds), "materialized"))
  <2>. DEFINE f == Written(d, FileKinds)
              g == State(f, "materialized")
  <2>1. FileKinds \in SUBSET FileKinds
    OBVIOUS
  <2>2. /\ Sound(f, b, c) /\ f.journal = d.journal /\ f.index = d.index /\ f.tombstone = d.tombstone
        /\ f.files[p] = d.files[p] \cup FileKinds /\ f.place[p] = "normal" /\ f.active = d.active
    BY <2>1, WrittenIs
  <2>. HIDE DEF f
  <2>3. f.journal.state \in Writing
    BY <2>2 DEF Writing
  <2>4. /\ Sound(g, b, c) /\ g.journal.state = "materialized" /\ g.journal.profile = f.journal.profile
        /\ g.journal.before = f.journal.before
        /\ g.journal.after = f.journal.after /\ g.index = f.index /\ g.files = f.files
        /\ g.place = f.place /\ g.tombstone = f.tombstone /\ g.active = f.active
    BY <2>2, <2>3, StateIs
  <2>5. e \in FromMaterialized(g)
    BY <1>3 DEF f
  <2>. HIDE DEF g
  <2>6. Footing(d) => Footing(g)
    BY <2>2, <2>4 DEF Footing, Verified
  <2>7. After(g, e, b, c, p)
    BY <2>2, <2>4, <2>5, FromMaterializedIs
  <2>8. g.tombstone = d.tombstone /\ g.index \subseteq d.index \cup {p} /\ g.active = d.active
    BY <2>2, <2>4
  <2>. QED  BY <2>6, <2>7, <2>8, AfterStep
<1>. DEFINE cuts == {Cut(Written(d, fs)) : fs \in SUBSET FileKinds}
            rest == FromMaterialized(State(Written(d, FileKinds), "materialized"))
<1>4. CASE e \in UNION cuts
  <2>1. PICK s \in cuts : e \in s
    BY <1>4
  <2>2. PICK fs \in SUBSET FileKinds : s = Cut(Written(d, fs))
    OBVIOUS
  <2>. QED  BY <1>2, <2>1, <2>2
<1>5. Conflicts(d) \/ d.place[p] = "quarantine" \/ e \in (UNION cuts) \cup rest
  BY Zenon DEF FromPrepared
<1>6. CASE e \in rest
  BY <1>3, <1>6
<1>. HIDE DEF cuts, rest
<1>. QED  BY <1>1, <1>4, <1>5, <1>6

\* The recovery of a provisioning.
LEMMA ResumesIs ==
  ASSUME NEW d, NEW b, NEW c, Sound(d, b, c), NEW e \in Resumes(d)
  PROVE  /\ Sound(e.disk, b, c) /\ (Footing(d) => Footing(e.disk)) /\ e.disk.active = d.active
         /\ e.disk.tombstone = d.tombstone
         /\ e.end = "threw" => ~Footing(d) \/ d.journal = Torn
         /\ d.journal = Torn => e.end = "threw" /\ e.disk = d
<1>. DEFINE p == d.journal.profile
<1>1. d.journal \in Journals /\ JournalOk(d.journal, d.index, b, c)
  BY SoundIs
<1>2. CASE d.journal.state \in Writing
  <2>1. After(d, e, b, c, p)
    BY <1>2, FromPreparedIs, FromMaterializedIs, FromIndexedIs DEF Resumes, Writing
  <2>2. d.journal # Torn
    BY <1>2, JournalsAre DEF Writing
  <2>. QED  BY <2>1, <2>2 DEF After
<1>3. CASE d.journal.state = "absent"
  <2>1. e \in WroteAll(d) /\ d.journal # Torn
    BY <1>3, JournalsAre DEF Resumes
  <2>. QED  BY <2>1, EndIs
<1>4. CASE d.journal.state = "torn"
  <2>1. e \in ThrewAt(d) /\ d.journal = Torn
    BY <1>1, <1>4 DEF Resumes, JournalOk
  <2>. QED  BY <2>1, EndIs
<1>. QED  BY <1>1, <1>2, <1>3, <1>4 DEF Journals, Writing

\* The beginning of one: its profile was never born.
LEMMA BeginsIs ==
  ASSUME NEW d, NEW b, NEW c, Sound(d, b, c), NEW p \in Profiles, p \notin b, d.journal.state = "absent",
         NEW e \in BeginsProvisioning(d, p)
  PROVE  After(d, e, b \cup {p}, c, p) /\ Footing(e.disk) /\ e.end # "threw"
<1>. DEFINE j == Planned(d, p)
            f == [d EXCEPT !.journal = j]
            g == [d EXCEPT !.journal = Torn]
            n == b \cup {p}
<1>1. /\ d \in Disks /\ d.journal \in Journals /\ JournalOk(d.journal, d.index, b, c)
      /\ d.index \subseteq Profiles /\ p \notin d.index /\ d.files[p] = {} /\ d.place[p] = "absent" /\ p \notin c
      /\ n \subseteq Profiles /\ c \subseteq n
  BY SoundIs, DiskIs DEF ProfileOk
<1>2. Sound(d, n, c) /\ Footing(d)
  BY <1>1 DEF Sound, ProfileOk, JournalOk, Writing, Footing
<1>3. /\ j \in Journals /\ j.state = "prepared" /\ j.profile = p /\ j.before = d.index /\ j.after = d.index \cup {p}
  BY <1>1 DEF Planned, Journals
<1>. HIDE DEF j
<1>4. JournalOk(j, d.index, n, c) /\ JournalOk(Torn, d.index, n, c)
  BY <1>1, <1>3, JournalsAre DEF JournalOk, Writing
<1>5. /\ Sound(f, n, c) /\ f.journal = j /\ f.index = d.index /\ f.files = d.files /\ f.place = d.place
      /\ f.tombstone = d.tombstone /\ f.active = d.active
  BY <1>2, <1>3, <1>4, JournalChanges
<1>6. /\ Sound(g, n, c) /\ g.journal = Torn /\ g.index = d.index /\ g.tombstone = d.tombstone /\ g.active = d.active
  BY <1>2, <1>4, JournalsAre, JournalChanges
<1>7. e \in {Ends(d, "failed"), Ends(g, "crashed")} \cup Cut(f) \/ e \in FromPrepared(f)
  BY DEF BeginsProvisioning, Created, j
<1>. HIDE DEF f, g
<1>8. Footing(f) /\ Footing(g)
  BY <1>1, <1>3, <1>5, <1>6, JournalsAre DEF Footing
<1>9. CASE e \in {Ends(d, "failed"), Ends(g, "crashed")}
  BY <1>2, <1>6, <1>8, <1>9 DEF After, Ends
<1>10. CASE e \in Cut(f)
  BY <1>5, <1>8, <1>10, EndIs DEF After
<1>11. CASE e \in FromPrepared(f)
  <2>1. After(f, e, n, c, p)
    BY <1>3, <1>5, <1>11, FromPreparedIs
  <2>. QED  BY <1>5, <1>8, <2>1 DEF After
<1>. QED  BY <1>7, <1>9, <1>10, <1>11

-----------------------------------------------------------------------------
(* Deletion *)

\* A disk on which the deletion of profile p works, whose partition is clear.
Deleting(d, p, b, c) == Sound(d, b, c) /\ p \in c /\ p \notin d.partition
Others(d, f, p) == \A q \in Profiles : q # p => SameOf(d, f, q)
Deleted(d, f, p, b, c) == Deleting(f, p, b, c) /\ f.journal = d.journal /\ Others(d, f, p)
                          /\ f.active = d.active /\ f.index \subseteq d.index

LEMMA DeletedTwice ==
  ASSUME NEW d, NEW f, NEW g, NEW p, NEW b, NEW c, Deleted(d, f, p, b, c), Deleted(f, g, p, b, c)
  PROVE  Deleted(d, g, p, b, c)
BY DEF Deleted, Others, SameOf

LEMMA NothingDeleted ==
  ASSUME NEW d, NEW p, NEW b, NEW c, Deleting(d, p, b, c)
  PROVE  Deleted(d, d, p, b, c)
BY DEF Deleted, Others, SameOf

LEMMA DeletingIs ==
  ASSUME NEW d, NEW p, NEW b, NEW c, Deleting(d, p, b, c)
  PROVE  /\ d \in Disks /\ p \in Profiles /\ p \in b /\ (p \in d.index => Tombstoned(d, p))
         /\ p \notin d.index => d.place[p] # "normal"
BY SoundIs DEF Deleting, ProfileOk

LEMMA DeletedIs ==
  ASSUME NEW d, NEW p, NEW b, NEW c, Deleting(d, p, b, c), NEW f \in Disks,
         f.journal = d.journal, f.active = d.active, f.switch = d.switch, f.partition = d.partition,
         f.index \subseteq d.index, Others(d, f, p),
         p \in f.index => Tombstoned(f, p), p \notin f.index => f.place[p] # "normal"
  PROVE  Deleted(d, f, p, b, c)
<1>1. /\ Sound(d, b, c) /\ p \in c /\ p \in b /\ p \in Profiles /\ p \notin f.partition
      /\ JournalOk(d.journal, d.index, b, c)
  BY DeletingIs, SoundIs DEF Deleting
<1>2. ProfileOk(f, b, c, p)
  BY <1>1 DEF ProfileOk
<1>3. JournalOk(f.journal, f.index, b, c)
  BY <1>1 DEF JournalOk
<1>4. Sound(f, b, c)
  BY <1>1, <1>2, <1>3, OneChanges DEF Others
<1>. QED  BY <1>1, <1>4 DEF Deleted, Deleting

LEMMA MarkedIs ==
  ASSUME NEW d, NEW p, NEW b, NEW c, Deleting(d, p, b, c)
  PROVE  Deleted(d, Marked(d, p, "browser-cleared"), p, b, c)
<1>. DEFINE f == Marked(d, p, "browser-cleared")
<1>1. d \in Disks /\ p \in Profiles /\ (p \in d.index => Tombstoned(d, p)) /\ (p \notin d.index => d.place[p] # "normal")
  BY DeletingIs
<1>2. f = [d EXCEPT !.tombstone = [d.tombstone EXCEPT ![p] = "browser-cleared"]] /\ "browser-cleared" \in Tombstones
  BY DEF Marked, Tombstones
<1>. HIDE DEF f
<1>3. /\ f \in Disks /\ f.journal = d.journal /\ f.active = d.active /\ f.switch = d.switch
      /\ f.partition = d.partition /\ f.index = d.index /\ f.files = d.files /\ f.place = d.place
      /\ f.tombstone = [d.tombstone EXCEPT ![p] = "browser-cleared"]
  BY <1>1, <1>2 DEF Disks
<1>4. f.tombstone[p] = "browser-cleared" /\ \A q \in Profiles : q # p => f.tombstone[q] = d.tombstone[q]
  BY <1>1, <1>3, DiskIs
<1>5. Others(d, f, p)
  BY <1>3, <1>4 DEF Others, SameOf
<1>6. Tombstoned(f, p) /\ (p \notin f.index => f.place[p] # "normal")
  BY <1>1, <1>3, <1>4 DEF Tombstoned
<1>7. Deleted(d, f, p, b, c)
  BY <1>3, <1>5, <1>6, DeletedIs
<1>. QED  BY <1>7 DEF f

LEMMA QuarantinedIs ==
  ASSUME NEW d, NEW p, NEW b, NEW c, Deleting(d, p, b, c)
  PROVE  Deleted(d, Quarantined(d, p), p, b, c) /\ Quarantined(d, p).place[p] = "quarantine"
         /\ Quarantined(d, p).index = d.index
<1>. DEFINE f == Quarantined(d, p)
<1>1. d \in Disks /\ p \in Profiles /\ (p \in d.index => Tombstoned(d, p))
  BY DeletingIs
<1>2. f = [d EXCEPT !.place = [d.place EXCEPT ![p] = "quarantine"]] /\ "quarantine" \in Places
  BY DEF Quarantined, Places
<1>. HIDE DEF f
<1>3. /\ f \in Disks /\ f.journal = d.journal /\ f.active = d.active /\ f.switch = d.switch
      /\ f.partition = d.partition /\ f.index = d.index /\ f.files = d.files /\ f.tombstone = d.tombstone
      /\ f.place = [d.place EXCEPT ![p] = "quarantine"]
  BY <1>1, <1>2 DEF Disks
<1>4. f.place[p] = "quarantine" /\ \A q \in Profiles : q # p => f.place[q] = d.place[q]
  BY <1>1, <1>3, DiskIs
<1>5. Others(d, f, p)
  BY <1>3, <1>4 DEF Others, SameOf
<1>6. p \in f.index => Tombstoned(f, p)
  BY <1>1, <1>3 DEF Tombstoned
<1>7. Deleted(d, f, p, b, c)
  BY <1>3, <1>4, <1>5, <1>6, DeletedIs
<1>. QED  BY <1>3, <1>4, <1>7 DEF f

LEMMA UnindexedIs ==
  ASSUME NEW d, NEW p, NEW b, NEW c, Deleting(d, p, b, c), d.place[p] = "quarantine"
  PROVE  Deleted(d, Unindexed(d, p), p, b, c) /\ p \notin Unindexed(d, p).index
<1>. DEFINE f == Unindexed(d, p)
<1>1. d \in Disks /\ p \in Profiles
  BY DeletingIs
<1>2. /\ f \in Disks /\ f.journal = d.journal /\ f.active = d.active /\ f.switch = d.switch
      /\ f.partition = d.partition /\ f.index = d.index \ {p} /\ f.files = d.files /\ f.tombstone = d.tombstone
      /\ f.place = d.place
  BY <1>1 DEF Disks, Unindexed
<1>. HIDE DEF f
<1>3. Others(d, f, p)
  BY <1>2 DEF Others, SameOf
<1>4. Deleted(d, f, p, b, c)
  BY <1>2, <1>3, DeletedIs
<1>. QED  BY <1>2, <1>4 DEF f

\* The files and the tombstone go last.
LeftAt(d, p, fs, pl, t) ==
  [d EXCEPT !.files = [d.files EXCEPT ![p] = fs], !.place = [d.place EXCEPT ![p] = pl],
            !.tombstone = [d.tombstone EXCEPT ![p] = t]]

LEMMA LeftIs ==
  ASSUME NEW d, NEW p, NEW b, NEW c, Deleting(d, p, b, c), p \notin d.index,
         NEW fs \in ProfileFiles, NEW t \in Tombstones, NEW pl \in Places, pl # "normal"
  PROVE  Deleted(d, LeftAt(d, p, fs, pl, t), p, b, c) /\ LeftAt(d, p, fs, pl, t).index = d.index
<1>. DEFINE f == LeftAt(d, p, fs, pl, t)
            fl == [d.files EXCEPT ![p] = fs]
            ps == [d.place EXCEPT ![p] = pl]
            ts == [d.tombstone EXCEPT ![p] = t]
<1>1. d \in Disks /\ p \in Profiles
  BY DeletingIs
<1>2. fl \in [Profiles -> ProfileFiles] /\ ps \in [Profiles -> Places] /\ ts \in [Profiles -> Tombstones]
  BY <1>1, DiskIs
<1>3. /\ ps[p] = pl /\ \A q \in Profiles : q # p => ps[q] = d.place[q]
      /\ \A q \in Profiles : q # p => fl[q] = d.files[q]
      /\ \A q \in Profiles : q # p => ts[q] = d.tombstone[q]
  BY <1>1, DiskIs
<1>. HIDE DEF fl, ps, ts
<1>4. f = [d EXCEPT !.files = fl, !.place = ps, !.tombstone = ts]
  BY DEF fl, ps, ts, LeftAt
<1>. HIDE DEF f
<1>5. /\ f \in Disks /\ f.journal = d.journal /\ f.active = d.active /\ f.switch = d.switch
      /\ f.partition = d.partition /\ f.index = d.index /\ f.files = fl /\ f.place = ps /\ f.tombstone = ts
  BY <1>1, <1>2, <1>4 DEF Disks
<1>6. Others(d, f, p)
  BY <1>3, <1>5 DEF Others, SameOf
<1>7. Deleted(d, f, p, b, c)
  BY <1>3, <1>5, <1>6, DeletedIs
<1>. QED  BY <1>5, <1>7 DEF f

LEMMA RemovesIs ==
  ASSUME NEW d, NEW p, NEW b, NEW c, Deleting(d, p, b, c), p \notin d.index, NEW e \in Removes(d, p)
  PROVE  Deleted(d, e.disk, p, b, c) /\ e.disk.index = d.index /\ e.end # "threw"
<1>. DEFINE cuts == {Cut(LeftBehind(d, p, fs, t)) : fs \in SUBSET d.files[p], t \in {d.tombstone[p], "absent"}}
            g == Gone(d, p)
<1>1. e \in UNION cuts \/ e \in Cut(g) \/ e \in WroteAll(g)
  BY DEF Removes
<1>2. /\ d \in Disks /\ p \in Profiles /\ d.place[p] # "normal" /\ d.place[p] \in Places
      /\ d.tombstone[p] \in Tombstones /\ d.files[p] \in ProfileFiles
  BY DeletingIs, DiskIs
<1>3. CASE e \in UNION cuts
  <2>1. PICK s \in cuts : e \in s
    BY <1>3
  <2>2. PICK fs \in SUBSET d.files[p], t \in {d.tombstone[p], "absent"} : s = Cut(LeftBehind(d, p, fs, t))
    BY <2>1
  <2>. DEFINE f == LeftBehind(d, p, fs, t)
  <2>3. e.disk = f /\ e.end # "threw"
    BY <2>1, <2>2, EndIs
  <2>4. fs \in ProfileFiles /\ t \in Tombstones
    BY <1>2 DEF ProfileFiles, Tombstones
  <2>5. d.place = [d.place EXCEPT ![p] = d.place[p]]
    BY <1>2, DiskIs
  <2>. HIDE DEF cuts, g
  <2>6. f = [d EXCEPT !.files = [d.files EXCEPT ![p] = fs], !.place = d.place,
                      !.tombstone = [d.tombstone EXCEPT ![p] = t]]
    BY <1>2 DEF LeftBehind, Disks
  <2>. HIDE DEF f
  <2>7. f = LeftAt(d, p, fs, d.place[p], t)
    BY <2>5, <2>6 DEF LeftAt
  <2>8. Deleted(d, f, p, b, c) /\ f.index = d.index
    BY <1>2, <2>4, <2>7, LeftIs
  <2>. QED  BY <2>3, <2>8
<1>. HIDE DEF cuts
<1>4. Deleted(d, g, p, b, c) /\ g.index = d.index
  <2>1. g = LeftAt(d, p, {}, "absent", "absent")
    BY <1>2 DEF Gone, LeftAt, Disks
  <2>2. {} \in ProfileFiles /\ "absent" \in Places /\ "absent" \in Tombstones
    BY DEF ProfileFiles, Places, Tombstones
  <2>. HIDE DEF g
  <2>. QED  BY <2>1, <2>2, LeftIs
<1>. HIDE DEF g
<1>5. CASE e \in Cut(g) \/ e \in WroteAll(g)
  BY <1>4, <1>5, EndIs
<1>. QED  BY <1>1, <1>3, <1>5

LEMMA CutDeleted ==
  ASSUME NEW d, NEW f, NEW p, NEW b, NEW c, Deleted(d, f, p, b, c), NEW e \in Cut(f)
  PROVE  Deleted(d, e.disk, p, b, c) /\ e.end \in {"failed", "crashed"}
BY EndIs

LEMMA RetiresIs ==
  ASSUME NEW d, NEW p, NEW b, NEW c, Deleting(d, p, b, c), d.place[p] = "quarantine",
         NEW plan, NEW e \in RetiresRecord(d, p, plan)
  PROVE  Deleted(d, e.disk, p, b, c) /\ (e.end = "done" => p \notin e.disk.index)
<1>. DEFINE f == Unindexed(d, p)
<1>1. Deleted(d, d, p, b, c)
  BY NothingDeleted
<1>2. Deleted(d, f, p, b, c) /\ p \notin f.index
  BY UnindexedIs
<1>3. e \in ThrewAt(d) \/ e \in Cut(d) \/ e \in Cut(f) \/ e \in Removes(f, p)
  BY DEF RetiresRecord
<1>. HIDE DEF f
<1>4. CASE e \in ThrewAt(d)
  BY <1>1, <1>4, EndIs
<1>5. CASE e \in Cut(d)
  BY <1>1, <1>5, CutDeleted
<1>6. CASE e \in Cut(f)
  BY <1>2, <1>6, CutDeleted
<1>7. CASE e \in Removes(f, p)
  <2>1. Deleted(f, e.disk, p, b, c) /\ e.disk.index = f.index
    BY <1>2, <1>7, RemovesIs DEF Deleted
  <2>. QED  BY <1>2, <2>1, DeletedTwice
<1>. QED  BY <1>3, <1>4, <1>5, <1>6, <1>7

LEMMA RecoversIs ==
  ASSUME NEW d, NEW p, NEW b, NEW c, Deleting(d, p, b, c), NEW e, NEW plan,
         e \in Cut(d) \cup Cut(Quarantined(d, p)) \cup RetiresRecord(Quarantined(d, p), p, plan)
  PROVE  Deleted(d, e.disk, p, b, c) /\ (e.end = "done" => p \notin e.disk.index)
<1>. DEFINE f == Quarantined(d, p)
<1>1. Deleted(d, d, p, b, c) /\ Deleted(d, f, p, b, c) /\ f.place[p] = "quarantine"
  BY NothingDeleted, QuarantinedIs
<1>. HIDE DEF f
<1>2. CASE e \in Cut(d)
  BY <1>1, <1>2, CutDeleted
<1>3. CASE e \in Cut(f)
  BY <1>1, <1>3, CutDeleted
<1>4. CASE e \in RetiresRecord(f, p, plan)
  <2>1. Deleting(f, p, b, c)
    BY <1>1 DEF Deleted
  <2>2. Deleted(f, e.disk, p, b, c) /\ (e.end = "done" => p \notin e.disk.index)
    BY <1>1, <1>4, <2>1, RetiresIs
  <2>. QED  BY <1>1, <2>2, DeletedTwice
<1>. QED  BY <1>2, <1>3, <1>4 DEF f

LEMMA DeletesIs ==
  ASSUME NEW d, NEW p, NEW b, NEW c, Deleting(d, p, b, c), NEW plan, NEW e \in Deletes(d, p, plan)
  PROVE  Deleted(d, e.disk, p, b, c) /\ (e.end = "done" => p \notin e.disk.index)
<1>. DEFINE f == Marked(d, p, "browser-cleared")
<1>1. Deleted(d, d, p, b, c) /\ Deleted(d, f, p, b, c)
  BY NothingDeleted, MarkedIs
<1>2. e \in Cut(d) \/ e \in Cut(f) \cup Cut(Quarantined(f, p)) \cup RetiresRecord(Quarantined(f, p), p, plan)
  BY DEF Deletes
<1>. HIDE DEF f
<1>3. CASE e \in Cut(d)
  BY <1>1, <1>3, CutDeleted
<1>4. CASE e \in Cut(f) \cup Cut(Quarantined(f, p)) \cup RetiresRecord(Quarantined(f, p), p, plan)
  <2>1. Deleted(f, e.disk, p, b, c) /\ (e.end = "done" => p \notin e.disk.index)
    BY <1>1, <1>4, RecoversIs DEF Deleted
  <2>. QED  BY <1>1, <2>1, DeletedTwice
<1>. QED  BY <1>2, <1>3, <1>4

\* The profiles swept are out of the index, so the journal is not about one of them.
LEMMA FootingStays ==
  ASSUME NEW d, NEW f, Footing(d), f.journal = d.journal, f.index = d.index,
         d.journal.state \in Writing => /\ f.files[d.journal.profile] = d.files[d.journal.profile]
                                        /\ f.place[d.journal.profile] = d.place[d.journal.profile]
  PROVE  Footing(f)
BY DEF Footing, Verified, Writing

LEMMA GoneAllIs ==
  ASSUME NEW d, NEW b, NEW c, Sound(d, b, c), NEW ps, ps \subseteq Profiles,
         \A p \in ps : p \in c /\ p \notin d.index
  PROVE  LET f == GoneAll(d, ps) IN
         /\ Sound(f, b, c) /\ f.journal = d.journal /\ f.index = d.index /\ f.active = d.active
         /\ f.partition = d.partition /\ \A q \in Profiles : q \notin ps => SameOf(d, f, q)
         /\ \A q \in Profiles : f.tombstone[q] \in {d.tombstone[q], "absent"}
<1>. DEFINE f == GoneAll(d, ps)
            pl == [q \in Profiles |-> IF q \in ps THEN "absent" ELSE d.place[q]]
            fl == [q \in Profiles |-> IF q \in ps THEN {} ELSE d.files[q]]
            tb == [q \in Profiles |-> IF q \in ps THEN "absent" ELSE d.tombstone[q]]
<1>1. d \in Disks /\ c \subseteq b /\ JournalOk(d.journal, d.index, b, c) /\ b \subseteq Profiles
  BY SoundIs
<1>2. f = [d EXCEPT !.place = pl, !.files = fl, !.tombstone = tb]
  BY <1>1 DEF GoneAll, Disks
<1>3. pl \in [Profiles -> Places] /\ fl \in [Profiles -> ProfileFiles] /\ tb \in [Profiles -> Tombstones]
  BY <1>1, DiskIs DEF Places, ProfileFiles, Tombstones
<1>. HIDE DEF f
<1>4. \A q \in Profiles : /\ q \in ps => pl[q] = "absent" /\ fl[q] = {} /\ tb[q] = "absent"
                          /\ q \notin ps => pl[q] = d.place[q] /\ fl[q] = d.files[q] /\ tb[q] = d.tombstone[q]
  OBVIOUS
<1>. HIDE DEF pl, fl, tb
<1>5. /\ f \in Disks /\ f.journal = d.journal /\ f.active = d.active /\ f.switch = d.switch
      /\ f.partition = d.partition /\ f.index = d.index /\ f.files = fl /\ f.place = pl /\ f.tombstone = tb
  BY <1>1, <1>2, <1>3 DEF Disks
<1>6. \A q \in Profiles : q \notin ps => SameOf(d, f, q)
  BY <1>4, <1>5 DEF SameOf
<1>7. ASSUME NEW q \in Profiles
      PROVE  ProfileOk(f, b, c, q)
  <2>1. ProfileOk(d, b, c, q)
    BY DEF Sound
  <2>2. CASE q \in ps
    BY <1>1, <1>4, <1>5, <2>1, <2>2 DEF ProfileOk, Tombstoned
  <2>3. CASE q \notin ps
    BY <1>5, <1>6, <2>1, <2>3 DEF ProfileOk, Tombstoned, Complete, SameOf
  <2>. QED  BY <2>2, <2>3
<1>8. Sound(f, b, c)
  BY <1>1, <1>5, <1>7 DEF Sound
<1>9. \A q \in Profiles : f.tombstone[q] \in {d.tombstone[q], "absent"}
  BY <1>4, <1>5
<1>. QED  BY <1>5, <1>6, <1>8, <1>9 DEF f

LEMMA SweepsIs ==
  ASSUME NEW d, NEW b, NEW c, Sound(d, b, c), \A p \in d.index : ~Tombstoned(d, p), NEW e \in Sweeps(d)
  PROVE  /\ Sound(e.disk, b, c) /\ e.disk.index = d.index /\ e.disk.active = d.active
         /\ e.disk.journal = d.journal /\ (Footing(d) => Footing(e.disk))
         /\ \A p \in d.index : e.disk.tombstone[p] = d.tombstone[p]
<1>. DEFINE j == d.journal.profile
            cuts == {{r \in Removes(GoneAll(d, ps), p) : r.end # "done"} : ps \in SUBSET Retired(d), p \in Retired(d)}
<1>1. /\ d \in Disks /\ JournalOk(d.journal, d.index, b, c) /\ \A p \in Profiles : ProfileOk(d, b, c, p)
      /\ b \subseteq Profiles /\ d.index \subseteq Profiles /\ d.journal \in Journals
  BY SoundIs, DiskIs
<1>2. \A p \in Retired(d) : p \in Profiles /\ p \in c /\ p \notin d.index /\ p \notin d.partition /\ d.place[p] = "quarantine"
  BY <1>1 DEF Retired, ProfileOk
<1>3. ASSUME Footing(d), d.journal.state \in Writing
      PROVE  j \in Profiles /\ j \notin Retired(d)
  <2>1. j \in b
    BY <1>1, <1>3 DEF JournalOk
  <2>2. CASE d.journal.state = "prepared"
    BY <1>1, <1>2, <2>1, <2>2 DEF JournalOk
  <2>3. CASE d.journal.state \in {"materialized", "indexed"}
    BY <1>1, <1>2, <1>3, <2>1, <2>3 DEF Footing, Verified
  <2>. QED  BY <1>3, <2>2, <2>3 DEF Writing
<1>4. ASSUME NEW ps, ps \subseteq Retired(d)
      PROVE  LET f == GoneAll(d, ps) IN
             /\ Sound(f, b, c) /\ f.journal = d.journal /\ f.index = d.index /\ f.active = d.active
             /\ f.partition = d.partition /\ (Footing(d) => Footing(f))
             /\ \A p \in d.index : f.tombstone[p] = d.tombstone[p]
  <2>. DEFINE f == GoneAll(d, ps)
  <2>1. ps \subseteq Profiles /\ \A p \in ps : p \in c /\ p \notin d.index
    BY <1>2, <1>4
  <2>2. /\ Sound(f, b, c) /\ f.journal = d.journal /\ f.index = d.index /\ f.active = d.active
        /\ f.partition = d.partition /\ \A q \in Profiles : q \notin ps => SameOf(d, f, q)
    BY <2>1, GoneAllIs
  <2>. HIDE DEF f
  <2>3. Footing(d) => Footing(f)
    BY <1>3, <1>4, <2>2, FootingStays DEF SameOf
  <2>4. \A p \in d.index : f.tombstone[p] = d.tombstone[p]
    BY <1>1, <2>1, <2>2 DEF SameOf
  <2>. QED  BY <2>2, <2>3, <2>4 DEF f
<1>5. e \in (UNION cuts) \/ e \in WroteAll(GoneAll(d, Retired(d)))
  BY DEF Sweeps
<1>6. CASE e \in WroteAll(GoneAll(d, Retired(d)))
  <2>1. e.disk = GoneAll(d, Retired(d))
    BY <1>6, EndIs
  <2>. QED  BY <1>4, <2>1
<1>7. CASE e \in UNION cuts
  <2>1. PICK s \in cuts : e \in s
    BY <1>7
  <2>2. PICK ps \in SUBSET Retired(d), p \in Retired(d) : s = {r \in Removes(GoneAll(d, ps), p) : r.end # "done"}
    BY <2>1
  <2>. DEFINE f == GoneAll(d, ps)
              g == e.disk
  <2>3. e \in Removes(f, p)
    BY <2>1, <2>2
  <2>4. /\ Sound(f, b, c) /\ f.journal = d.journal /\ f.index = d.index /\ f.active = d.active
        /\ f.partition = d.partition /\ (Footing(d) => Footing(f))
        /\ \A q \in d.index : f.tombstone[q] = d.tombstone[q]
    BY <1>4
  <2>. HIDE DEF f
  <2>5. Deleting(f, p, b, c) /\ p \notin f.index /\ p \in Profiles
    BY <1>2, <2>4 DEF Deleting
  <2>6. Deleted(f, g, p, b, c) /\ g.index = f.index
    BY <2>3, <2>5, RemovesIs
  <2>7. Sound(g, b, c) /\ g.journal = d.journal /\ g.index = d.index /\ g.active = d.active /\ Others(f, g, p)
    BY <2>4, <2>6 DEF Deleted, Deleting
  <2>8. Footing(d) => Footing(g)
    BY <1>3, <2>4, <2>7, FootingStays DEF Others, SameOf
  <2>9. \A q \in d.index : g.tombstone[q] = d.tombstone[q]
    BY <1>1, <1>2, <2>4, <2>7 DEF Others, SameOf
  <2>. QED  BY <2>7, <2>8, <2>9
<1>. QED  BY <1>5, <1>6, <1>7

-----------------------------------------------------------------------------
(* The process *)

LEMMA RegistryIs ==
  ASSUME NEW d, NEW b, NEW c, Sound(d, b, c)
  PROVE  /\ RegistryLoads(d) /\ \A p \in Listed(d) : p \in Profiles /\ p \in d.index /\ p \notin c /\ p \in b
         /\ \A p \in {d.active, d.switch} : p \in Profiles /\ p \notin Listed(d) => p \in c
<1>1. d.index \subseteq Profiles /\ \A p \in Profiles : ProfileOk(d, b, c, p)
  BY SoundIs, DiskIs
<1>. QED  BY <1>1 DEF RegistryLoads, Listed, ProfileOk

LEMMA CandidateIs ==
  ASSUME NEW d, NEW b, NEW c, Sound(d, b, c), NEW p
  PROVE  /\ Candidate(d, p) => p = Home \/ (p \in Profiles /\ p \in d.index /\ p \notin c /\ p \in b)
         /\ p \in {d.active, d.switch} /\ p \in Profiles \cup {Home} /\ ~Candidate(d, p) => p \in c
BY RegistryIs DEF Candidate

\* A profile in use is written to, and its partition with it.
Worked(d, p, part) == [d EXCEPT !.files[p] = @ \cup {"rewritten"}, !.partition = part]

LEMMA WorkspaceIs ==
  ASSUME NEW d, NEW b, NEW c, Sound(d, b, c), NEW p, p \in d.index, p \in b, p \notin c,
         NEW part, part \in {d.partition, d.partition \cup {p}}
  PROVE  LET f == Worked(d, p, part) IN
         /\ Sound(f, b, c) /\ f.journal = d.journal /\ f.index = d.index /\ f.tombstone = d.tombstone
         /\ f.active = d.active
         /\ Footing(d) /\ p # d.journal.profile => Footing(f)
<1>. DEFINE n == d.files[p] \cup {"rewritten"}
            f == Worked(d, p, part)
<1>1. /\ d \in Disks /\ p \in Profiles /\ JournalOk(d.journal, d.index, b, c) /\ ProfileOk(d, b, c, p)
      /\ part \subseteq Profiles /\ b \subseteq Profiles
  BY SoundIs, DiskIs
<1>2. f = [d EXCEPT !.files = [d.files EXCEPT ![p] = n], !.partition = part] /\ n \in ProfileFiles
  BY <1>1, DiskIs DEF ProfileFiles, Worked
<1>3. d.files[p] \subseteq n
  OBVIOUS
<1>. HIDE DEF f, n
<1>4. /\ f \in Disks /\ f.index = d.index /\ f.journal = d.journal /\ f.files = [d.files EXCEPT ![p] = n]
      /\ f.place = d.place /\ f.tombstone = d.tombstone /\ f.partition = part /\ f.switch = d.switch
      /\ f.active = d.active
  BY <1>1, <1>2 DEF Disks
<1>5. f.files[p] = n /\ \A q \in Profiles : q # p => f.files[q] = d.files[q]
  BY <1>1, <1>4, DiskIs
<1>6. \A q \in Profiles : q # p => SameOf(d, f, q)
  BY <1>4, <1>5 DEF SameOf
<1>7. ProfileOk(f, b, c, p)
  BY <1>1, <1>3, <1>4, <1>5 DEF ProfileOk, Tombstoned, Complete
<1>8. Sound(f, b, c)
  BY <1>1, <1>4, <1>6, <1>7, OneChanges
<1>9. Footing(d) /\ p # d.journal.profile => Footing(f)
  BY <1>1, <1>4, <1>6, FootingStays DEF JournalOk, SameOf
<1>. QED  BY <1>4, <1>8, <1>9 DEF f

LEMMA SwitchedIs ==
  ASSUME NEW d, NEW b, NEW c, Sound(d, b, c), NEW p, Candidate(d, p)
  PROVE  LET f == Switched(d, p) IN
         /\ Sound(f, b, c) /\ f.journal = d.journal /\ f.index = d.index /\ f.tombstone = d.tombstone
         /\ f.active = p
         /\ Footing(d) /\ p # d.journal.profile => Footing(f)
<1>. DEFINE g == Rewritten(d, p)
            f == Switched(d, p)
<1>1. p = Home \/ (p \in Profiles /\ p \in d.index /\ p \notin c /\ p \in b)
  BY CandidateIs
<1>2. /\ Sound(g, b, c) /\ g.journal = d.journal /\ g.index = d.index /\ g.tombstone = d.tombstone
      /\ Footing(d) /\ p # d.journal.profile => Footing(g)
  <2>1. CASE p = Home
    BY <2>1 DEF Rewritten
  <2>2. CASE p # Home
    <3>1. g = [d EXCEPT !.files[p] = @ \cup {"rewritten"}] /\ d \in Disks
      BY <2>2, SoundIs DEF Rewritten
    <3>2. g = Worked(d, p, d.partition)
      BY <3>1 DEF Disks, Worked
    <3>. HIDE DEF g
    <3>. QED  BY <1>1, <2>2, <3>2, WorkspaceIs
  <2>. QED  BY <2>1, <2>2
<1>3. f = [g EXCEPT !.switch = None, !.active = p] /\ g \in Disks
  BY <1>2, SoundIs DEF Switched
<1>. HIDE DEF f, g
<1>4. /\ f \in Disks /\ f.index = g.index /\ f.journal = g.journal /\ f.files = g.files /\ f.place = g.place
      /\ f.tombstone = g.tombstone /\ f.partition = g.partition /\ f.switch = None /\ f.active = p
  BY <1>1, <1>3 DEF Disks
<1>5. JournalOk(f.journal, f.index, b, c) /\ b \subseteq Profiles /\ c \subseteq b
  BY <1>2, <1>4, SoundIs
<1>6. ASSUME NEW q \in Profiles
      PROVE  ProfileOk(f, b, c, q)
  <2>1. ProfileOk(g, b, c, q)
    BY <1>2 DEF Sound
  <2>. QED  BY <1>1, <1>2, <1>4, <2>1, NamesAreApart DEF ProfileOk, Tombstoned, Complete
<1>7. Sound(f, b, c)
  BY <1>4, <1>5, <1>6 DEF Sound
<1>8. Footing(g) => Footing(f)
  BY <1>4, FootingStays
<1>. QED  BY <1>2, <1>4, <1>7, <1>8 DEF f

\* The deletion under way is about tombstones of the index.
LEMMA FlightStays ==
  ASSUME NEW f, NEW d, NEW e, FlightOk(f, d), d \in Disks, e.tombstone = d.tombstone,
         \A p \in e.index : p \in d.index \/ ~Tombstoned(d, p)
  PROVE  FlightOk(f, e)
BY DEF FlightOk, Tombstoned

LEMMA NoFlightIs ==
  ASSUME NEW d
  PROVE  FlightOk(NoFlight, d) /\ NoFlight.kind = "none" /\ NoFlight.profile = None
BY DEF FlightOk, NoFlight, Flights

LEMMA InvIs ==
  ASSUME ProfilesInv
  PROVE  /\ Sound(disk, born, condemned) /\ disk \in Disks /\ (touched \/ Footing(disk))
         /\ FlightOk(flight, disk) /\ ProcessOk /\ StartRefusedForCause
         /\ Up => refused = ""
BY SoundIs DEF ProfilesInv, ProcessOk, Up

\* A step of a running application, which was not refused.
LEMMA UpKeeps ==
  ASSUME ProfilesInv, Up, UNCHANGED <<live, refused>>, touched' \in BOOLEAN, faults' \in 0..MaxFaults,
         process' \in {process, "off", "relaunching"}, process' = "off" => flight' = NoFlight,
         process' = "running" => disk'.active = disk.active /\ live \notin condemned',
         Sound(disk', born', condemned'), touched' \/ Footing(disk'), FlightOk(flight', disk')
  PROVE  ProfilesInv'
<1>1. ProcessOk'
  BY InvIs DEF ProcessOk, LiveIsKept
<1>2. StartRefusedForCause'
  BY InvIs DEF StartRefusedForCause
<1>. QED  BY <1>1, <1>2 DEF ProfilesInv

LEMMA EndedIs ==
  ASSUME ProfilesInv, NEW ends, NEW after, NEW failed, Ended(ends, after, failed)
  PROVE  \E e \in ends :
           /\ disk' = e.disk /\ faults' \in 0..MaxFaults
           /\ \/ process' = "off" /\ flight' = NoFlight /\ e.end = "crashed"
              \/ process' = process /\ e.end = "done" /\ flight' = after
              \/ process' = process /\ e.end # "done" /\ flight' = failed
<1>1. PICK e \in ends :
        /\ disk' = e.disk
        /\ e.end \in {"failed", "crashed"} => CanFault
        /\ faults' = faults + (IF e.end \in {"failed", "crashed"} THEN 1 ELSE 0)
        /\ IF e.end = "crashed" THEN Dies
           ELSE flight' = (IF e.end = "done" THEN after ELSE failed) /\ UNCHANGED process
  BY DEF Ended
<1>2. faults \in 0..MaxFaults /\ MaxFaults \in Nat
  BY InvIs, NamesAreApart DEF ProcessOk
<1>3. faults' \in 0..MaxFaults
  BY <1>1, <1>2 DEF CanFault
<1>. QED  BY <1>1, <1>3 DEF Dies

\* A step that leaves the disk and its histories.
LEMMA DiskStays ==
  ASSUME ProfilesInv, Up, UNCHANGED <<disk, live, born, condemned, touched, refused>>, faults' \in 0..MaxFaults,
         process' \in {process, "off"}, process' = "off" => flight' = NoFlight, FlightOk(flight', disk)
  PROVE  ProfilesInv'
<1>1. process' = "running" => disk'.active = disk.active /\ live \notin condemned'
  BY InvIs DEF ProcessOk, LiveIsKept
<1>2. touched' \in BOOLEAN /\ (touched' \/ Footing(disk'))
  BY InvIs DEF ProcessOk
<1>3. Sound(disk', born', condemned') /\ FlightOk(flight', disk')
  BY InvIs
<1>. QED  BY <1>1, <1>2, <1>3, UpKeeps

LEMMA BeginKeeps ==
  ASSUME ProfilesInv, NEW p \in Profiles, Begin(p)
  PROVE  ProfilesInv'
<1>1. /\ Up /\ p \notin born /\ disk.journal.state = "absent" /\ Ended(BeginsProvisioning(disk, p), flight, flight)
      /\ born' = born \cup {p} /\ touched' = FALSE /\ live' = live /\ condemned' = condemned /\ refused' = refused
  BY DEF Begin
<1>2. /\ Sound(disk, born, condemned) /\ disk \in Disks /\ FlightOk(flight, disk) /\ ProcessOk
  BY InvIs
<1>3. PICK e \in BeginsProvisioning(disk, p) :
           /\ disk' = e.disk /\ faults' \in 0..MaxFaults
           /\ \/ process' = "off" /\ flight' = NoFlight
              \/ process' = process /\ flight' = flight
  BY <1>1, EndedIs
<1>4. After(disk, e, born \cup {p}, condemned, p) /\ Footing(e.disk)
  BY <1>1, <1>2, BeginsIs
<1>5. /\ Sound(disk', born', condemned') /\ Footing(disk') /\ disk'.tombstone = disk.tombstone
      /\ disk'.index \subseteq disk.index \cup {p} /\ disk'.active = disk.active
  BY <1>1, <1>3, <1>4 DEF After
<1>6. ~Tombstoned(disk, p)
  BY <1>1, <1>2 DEF Sound, ProfileOk
<1>7. FlightOk(flight, disk')
  BY <1>2, <1>5, <1>6, FlightStays
<1>8. FlightOk(flight', disk')
  BY <1>3, <1>7, NoFlightIs
<1>9. process' = "running" => disk'.active = disk.active /\ live \notin condemned'
  BY <1>1, <1>2, <1>3, <1>5 DEF ProcessOk, LiveIsKept
<1>10. process' \in {process, "off"} /\ (process' = "off" => flight' = NoFlight)
  BY <1>1, <1>3 DEF Up
<1>. QED  BY <1>1, <1>3, <1>5, <1>8, <1>9, <1>10, UpKeeps

LEMMA UseKeeps ==
  ASSUME ProfilesInv, Use
  PROVE  ProfilesInv'
<1>. DEFINE part == disk.partition \cup {live}
<1>1. /\ Up /\ process = "running" /\ live # Home /\ disk' = [Rewritten(disk, live) EXCEPT !.partition = part]
      /\ touched' = (touched \/ live = disk.journal.profile)
      /\ UNCHANGED <<process, live, flight, faults, born, condemned, refused>>
  BY SoundIs, InvIs DEF Use, Up, Touches, Rewritten, Disks
<1>2. /\ Sound(disk, born, condemned) /\ disk \in Disks /\ (touched \/ Footing(disk)) /\ FlightOk(flight, disk) /\ ProcessOk
  BY InvIs
<1>3. live = disk.active /\ live \in Profiles /\ live \notin condemned
  BY <1>1, <1>2 DEF ProcessOk, LiveIsKept
<1>4. live \in Listed(disk)
  BY <1>2, <1>3, RegistryIs
<1>5. live \in disk.index /\ live \in born
  BY <1>2, <1>4, RegistryIs
<1>6. disk' = Worked(disk, live, part)
  BY <1>1, <1>2 DEF Rewritten, Worked, Disks
<1>7. /\ Sound(disk', born, condemned) /\ disk'.index = disk.index /\ disk'.tombstone = disk.tombstone
      /\ disk'.active = disk.active /\ (Footing(disk) /\ live # disk.journal.profile => Footing(disk'))
  BY <1>2, <1>3, <1>5, <1>6, WorkspaceIs
<1>8. FlightOk(flight', disk')
  BY <1>1, <1>2, <1>7, FlightStays
<1>9. touched' \in BOOLEAN /\ (touched' \/ Footing(disk')) /\ faults' \in 0..MaxFaults
  BY <1>1, <1>2, <1>7 DEF ProcessOk
<1>. QED  BY <1>1, <1>3, <1>7, <1>8, <1>9, UpKeeps DEF Up

LEMMA FaultsGoOn ==
  ASSUME ProfilesInv, CanFault
  PROVE  faults + 1 \in 0..MaxFaults
<1>1. faults \in 0..MaxFaults /\ MaxFaults \in Nat
  BY InvIs, NamesAreApart DEF ProcessOk
<1>. QED  BY <1>1 DEF CanFault

LEMMA SwitchFailsKeeps ==
  ASSUME ProfilesInv, NEW p \in Profiles \cup {Home}, SwitchFails(p)
  PROVE  ProfilesInv'
<1>1. /\ Up /\ Candidate(disk, p) /\ CanFault /\ disk' = [disk EXCEPT !.switch = p] /\ faults' = faults + 1
      /\ UNCHANGED <<process, live, flight, born, condemned, touched, refused>> /\ process = "running"
  BY DEF SwitchFails, NoHistory, Up
<1>2. /\ Sound(disk, born, condemned) /\ disk \in Disks /\ (touched \/ Footing(disk)) /\ FlightOk(flight, disk) /\ ProcessOk
      /\ born \subseteq Profiles /\ condemned \subseteq born /\ JournalOk(disk.journal, disk.index, born, condemned)
  BY InvIs, SoundIs
<1>3. /\ disk' \in Disks /\ disk'.index = disk.index /\ disk'.journal = disk.journal /\ disk'.files = disk.files
      /\ disk'.place = disk.place /\ disk'.tombstone = disk.tombstone /\ disk'.partition = disk.partition
      /\ disk'.switch = p /\ disk'.active = disk.active
  BY <1>1, <1>2 DEF Disks
<1>4. p = Home \/ p \in disk.index
  BY <1>1, <1>2, CandidateIs
<1>5. ASSUME NEW q \in Profiles
      PROVE  ProfileOk(disk', born, condemned, q)
  <2>1. ProfileOk(disk, born, condemned, q)
    BY <1>2 DEF Sound
  <2>. QED  BY <1>3, <1>4, <2>1, NamesAreApart DEF ProfileOk, Tombstoned, Complete
<1>6. Sound(disk', born', condemned')
  BY <1>1, <1>2, <1>3, <1>5 DEF Sound
<1>7. touched' \in BOOLEAN /\ (touched' \/ Footing(disk'))
  BY <1>1, <1>2, <1>3, FootingStays DEF ProcessOk
<1>8. FlightOk(flight', disk')
  BY <1>1, <1>2, <1>3, FlightStays
<1>9. live \notin condemned' /\ faults' \in 0..MaxFaults
  BY <1>1, <1>2, FaultsGoOn DEF ProcessOk, LiveIsKept
<1>. QED  BY <1>1, <1>3, <1>6, <1>7, <1>8, <1>9, UpKeeps DEF Up

LEMMA SwitchKeeps ==
  ASSUME ProfilesInv, NEW p \in Profiles \cup {Home}, Switch(p)
  PROVE  ProfilesInv'
<1>1. /\ Up /\ Candidate(disk, p) /\ disk' = Switched(disk, p) /\ process' = "relaunching"
      /\ touched' = (touched \/ p = disk.journal.profile)
      /\ UNCHANGED <<live, flight, faults, born, condemned, refused>>
  BY DEF Switch, Touches, Up
<1>2. /\ Sound(disk, born, condemned) /\ disk \in Disks /\ (touched \/ Footing(disk)) /\ FlightOk(flight, disk) /\ ProcessOk
  BY InvIs
<1>3. /\ Sound(disk', born, condemned) /\ disk'.index = disk.index /\ disk'.tombstone = disk.tombstone
      /\ (Footing(disk) /\ p # disk.journal.profile => Footing(disk'))
  BY <1>1, <1>2, SwitchedIs
<1>4. FlightOk(flight', disk')
  BY <1>1, <1>2, <1>3, FlightStays
<1>5. touched' \in BOOLEAN /\ (touched' \/ Footing(disk')) /\ faults' \in 0..MaxFaults
  BY <1>1, <1>2, <1>3 DEF ProcessOk
<1>. QED  BY <1>1, <1>3, <1>4, <1>5, UpKeeps

LEMMA DeleteKeeps ==
  ASSUME ProfilesInv, NEW p \in Profiles, Delete(p)
  PROVE  ProfilesInv'
<1>. DEFINE n == condemned \cup {p}
<1>1. /\ Up /\ p # live /\ p \in Listed(disk) /\ disk' = Marked(disk, p, "prepared")
      /\ flight' = [kind |-> "delete", profile |-> p, plan |-> disk.index, left |-> {}]
      /\ condemned' = n /\ touched' = (touched \/ disk.journal # NoJournal)
      /\ UNCHANGED <<process, live, faults, born, refused>>
  BY DEF Delete
<1>2. /\ Sound(disk, born, condemned) /\ disk \in Disks /\ ProcessOk
      /\ born \subseteq Profiles /\ condemned \subseteq born /\ JournalOk(disk.journal, disk.index, born, condemned)
      /\ p \in disk.index /\ p \notin condemned /\ p \in born /\ disk.index \subseteq Profiles
  <2>1. Sound(disk, born, condemned) /\ disk \in Disks /\ ProcessOk
    BY InvIs
  <2>2. born \subseteq Profiles /\ condemned \subseteq born /\ JournalOk(disk.journal, disk.index, born, condemned)
    BY <2>1, SoundIs
  <2>3. p \in disk.index /\ p \notin condemned /\ p \in born
    BY <1>1, <2>1, RegistryIs
  <2>. QED  BY <2>1, <2>2, <2>3, DiskIs
<1>3. disk' = [disk EXCEPT !.tombstone = [disk.tombstone EXCEPT ![p] = "prepared"]] /\ "prepared" \in Tombstones
  BY <1>1 DEF Marked, Tombstones
<1>4. /\ disk' \in Disks /\ disk'.index = disk.index /\ disk'.journal = disk.journal /\ disk'.files = disk.files
      /\ disk'.place = disk.place /\ disk'.tombstone = [disk.tombstone EXCEPT ![p] = "prepared"]
      /\ disk'.partition = disk.partition /\ disk'.switch = disk.switch /\ disk'.active = disk.active
  BY <1>2, <1>3 DEF Disks
<1>5. disk'.tombstone[p] = "prepared" /\ \A q \in Profiles : q # p => disk'.tombstone[q] = disk.tombstone[q]
  BY <1>2, <1>4, DiskIs
<1>6. ASSUME NEW q \in Profiles
      PROVE  ProfileOk(disk', born, n, q)
  <2>1. ProfileOk(disk, born, condemned, q)
    BY <1>2 DEF Sound
  <2>2. CASE q = p
    BY <1>2, <1>4, <1>5, <2>2 DEF ProfileOk, Tombstoned
  <2>3. CASE q # p
    BY <1>4, <1>5, <2>1, <2>3 DEF ProfileOk, Tombstoned, Complete
  <2>. QED  BY <2>2, <2>3
<1>7. JournalOk(disk'.journal, disk'.index, born, n)
  BY <1>2, <1>4 DEF JournalOk
<1>8. Sound(disk', born', condemned')
  BY <1>1, <1>2, <1>4, <1>6, <1>7 DEF Sound
<1>9. touched' \in BOOLEAN /\ (touched' \/ Footing(disk')) /\ faults' \in 0..MaxFaults
  BY <1>1, <1>2, <1>4, JournalsAre DEF ProcessOk, Footing
<1>10. FlightOk(flight', disk')
  BY <1>1, <1>2, <1>5 DEF FlightOk, Flights, Tombstoned
<1>11. process' = "running" => disk'.active = disk.active /\ live \notin condemned'
  BY <1>1, <1>2, <1>4 DEF ProcessOk, LiveIsKept
<1>. QED  BY <1>1, <1>8, <1>9, <1>10, <1>11, UpKeeps DEF Up

LEMMA RecoverNextKeeps ==
  ASSUME ProfilesInv, NEW p \in Profiles, RecoverNext(p)
  PROVE  ProfilesInv'
<1>1. /\ Up /\ flight.kind = "recover" /\ flight.profile = None /\ p \in flight.left /\ Tombstoned(disk, p)
      /\ flight' = [flight EXCEPT !.profile = p, !.left = @ \ {p}]
      /\ UNCHANGED <<disk, process, live, faults, born, condemned, touched, refused>>
  BY DEF RecoverNext, NoHistory
<1>2. FlightOk(flight, disk) /\ flight \in Flights /\ faults \in 0..MaxFaults /\ disk.index \subseteq Profiles
  BY InvIs, DiskIs DEF FlightOk, ProcessOk
<1>3. flight' \in Flights /\ flight'.kind = "recover" /\ flight'.profile = p /\ flight'.left = flight.left \ {p}
  BY <1>1, <1>2 DEF Flights
<1>4. FlightOk(flight', disk)
  BY <1>1, <1>2, <1>3, NamesAreApart DEF FlightOk
<1>. QED  BY <1>1, <1>2, <1>4, DiskStays DEF Up

LEMMA ClearFailsKeeps ==
  ASSUME ProfilesInv, ClearFails
  PROVE  ProfilesInv'
<1>1. /\ Up /\ CanFault /\ flight' = NoFlight /\ faults' = faults + 1
      /\ UNCHANGED <<disk, process, live, born, condemned, touched, refused>>
  BY DEF ClearFails, NoHistory
<1>. QED  BY <1>1, FaultsGoOn, NoFlightIs, DiskStays

LEMMA ExitKeeps ==
  ASSUME ProfilesInv, Exit
  PROVE  ProfilesInv'
<1>1. /\ Up /\ process' = "off" /\ flight' = NoFlight
      /\ faults' = faults + (IF process = "running" THEN 1 ELSE 0) /\ (process = "running" => CanFault)
      /\ UNCHANGED <<disk, live, born, condemned, touched, refused>>
  BY DEF Exit, Dies, NoHistory
<1>2. faults \in 0..MaxFaults /\ MaxFaults \in Nat
  BY InvIs, NamesAreApart DEF ProcessOk
<1>3. faults' \in 0..MaxFaults
  BY <1>1, <1>2, FaultsGoOn
<1>. QED  BY <1>1, <1>3, NoFlightIs, DiskStays

\* The end of a deletion: the partition of its profile is clear.
LEMMA ClearedIs ==
  ASSUME ProfilesInv, flight.profile # None
  PROVE  LET p == flight.profile IN
         /\ p \in Profiles /\ flight.kind \in {"delete", "recover"}
         /\ Deleting([disk EXCEPT !.partition = @ \ {p}], p, born, condemned)
         /\ \A e : Deleted([disk EXCEPT !.partition = @ \ {p}], e, p, born, condemned) =>
              /\ Sound(e, born, condemned) /\ e.journal = disk.journal /\ e.active = disk.active
              /\ e.index \subseteq disk.index /\ \A q \in Profiles : q # p => e.tombstone[q] = disk.tombstone[q]
<1>. DEFINE p == flight.profile
            d == [disk EXCEPT !.partition = @ \ {p}]
<1>1. /\ Sound(disk, born, condemned) /\ disk \in Disks /\ FlightOk(flight, disk)
      /\ born \subseteq Profiles /\ condemned \subseteq born /\ JournalOk(disk.journal, disk.index, born, condemned)
  BY InvIs, SoundIs
<1>2. p \in Profiles /\ flight.kind \in {"delete", "recover"} /\ Tombstoned(disk, p)
  BY <1>1 DEF FlightOk, Flights
<1>. HIDE DEF p
<1>3. p \in condemned
  BY <1>1, <1>2 DEF Sound, ProfileOk
<1>4. /\ d \in Disks /\ d.index = disk.index /\ d.journal = disk.journal /\ d.files = disk.files
      /\ d.place = disk.place /\ d.tombstone = disk.tombstone /\ d.partition = disk.partition \ {p}
      /\ d.switch = disk.switch /\ d.active = disk.active
  BY <1>1 DEF Disks
<1>. HIDE DEF d
<1>5. \A q \in Profiles : ProfileOk(d, born, condemned, q)
  BY <1>1, <1>4 DEF Sound, ProfileOk, Tombstoned, Complete
<1>6. Deleting(d, p, born, condemned)
  BY <1>1, <1>3, <1>4, <1>5 DEF Deleting, Sound
<1>7. ASSUME NEW e, Deleted(d, e, p, born, condemned)
      PROVE  /\ Sound(e, born, condemned) /\ e.journal = disk.journal /\ e.active = disk.active
             /\ e.index \subseteq disk.index /\ \A q \in Profiles : q # p => e.tombstone[q] = disk.tombstone[q]
  BY <1>4, <1>7 DEF Deleted, Deleting, Others, SameOf
<1>. QED  BY <1>2, <1>6, <1>7 DEF p, d

LEMMA PartitionClearedKeeps ==
  ASSUME ProfilesInv, PartitionCleared
  PROVE  ProfilesInv'
<1>. DEFINE p == flight.profile
            d == [disk EXCEPT !.partition = @ \ {p}]
            next == [flight EXCEPT !.profile = None]
<1>1. /\ Up /\ p # None /\ touched' = (touched \/ disk.journal # NoJournal)
      /\ flight.kind = "delete" => Ended(Deletes(d, p, flight.plan), NoFlight, NoFlight)
      /\ flight.kind # "delete" => Ended(Recovers(d, p), next, NoFlight)
      /\ UNCHANGED <<live, born, condemned, refused>>
  BY DEF PartitionCleared
<1>2. /\ Sound(disk, born, condemned) /\ disk \in Disks /\ FlightOk(flight, disk) /\ ProcessOk
  BY InvIs
<1>3. /\ p \in Profiles /\ flight.kind \in {"delete", "recover"} /\ Deleting(d, p, born, condemned)
      /\ \A e : Deleted(d, e, p, born, condemned) =>
           /\ Sound(e, born, condemned) /\ e.journal = disk.journal /\ e.active = disk.active
           /\ e.index \subseteq disk.index /\ \A q \in Profiles : q # p => e.tombstone[q] = disk.tombstone[q]
  BY <1>1, ClearedIs
<1>. HIDE DEF d, next
<1>4. \E e : /\ disk' = e.disk /\ faults' \in 0..MaxFaults /\ Deleted(d, e.disk, p, born, condemned)
             /\ \/ process' = "off" /\ flight' = NoFlight
                \/ process' = process /\ flight' = NoFlight
                \/ process' = process /\ flight.kind = "recover" /\ flight' = next /\ p \notin e.disk.index
  <2>1. CASE flight.kind = "delete"
    <3>1. PICK e \in Deletes(d, p, flight.plan) :
                 /\ disk' = e.disk /\ faults' \in 0..MaxFaults
                 /\ \/ process' = "off" /\ flight' = NoFlight
                    \/ process' = process /\ flight' = NoFlight
      BY <1>1, <2>1, EndedIs
    <3>2. Deleted(d, e.disk, p, born, condemned)
      BY <1>3, DeletesIs
    <3>. QED  BY <3>1, <3>2
  <2>2. CASE flight.kind = "recover"
    <3>1. PICK e \in Recovers(d, p) :
                 /\ disk' = e.disk /\ faults' \in 0..MaxFaults
                 /\ \/ process' = "off" /\ flight' = NoFlight
                    \/ process' = process /\ flight' = NoFlight
                    \/ process' = process /\ e.end = "done" /\ flight' = next
      BY <1>1, <2>2, EndedIs
    <3>2. e \in Cut(d) \cup Cut(Quarantined(d, p)) \cup RetiresRecord(Quarantined(d, p), p, d.index)
      BY DEF Recovers
    <3>3. Deleted(d, e.disk, p, born, condemned) /\ (e.end = "done" => p \notin e.disk.index)
      BY <1>3, <3>2, RecoversIs
    <3>. QED  BY <2>2, <3>1, <3>3
  <2>. QED  BY <1>3, <2>1, <2>2
<1>5. /\ Sound(disk', born, condemned) /\ disk'.journal = disk.journal /\ disk'.active = disk.active
      /\ disk'.index \subseteq disk.index /\ \A q \in Profiles : q # p => disk'.tombstone[q] = disk.tombstone[q]
  BY <1>3, <1>4
<1>6. touched' \in BOOLEAN /\ (touched' \/ Footing(disk'))
  BY <1>1, <1>2, <1>5, JournalsAre DEF ProcessOk, Footing
<1>7. FlightOk(flight', disk')
  <2>1. CASE flight' = NoFlight
    BY <2>1, NoFlightIs
  <2>2. CASE flight.kind = "recover" /\ flight' = next /\ p \notin disk'.index
    <3>1. next \in Flights /\ next.kind = "recover" /\ next.profile = None /\ next.left = flight.left
      BY <1>2, <2>2 DEF FlightOk, Flights, next
    <3>2. disk.index \subseteq Profiles
      BY <1>2, DiskIs
    <3>3. \A q \in disk'.index : Tombstoned(disk', q) => q \in flight.left \cup {None}
      BY <1>2, <1>5, <2>2, <3>2 DEF FlightOk, Tombstoned
    <3>. QED  BY <2>2, <3>1, <3>3 DEF FlightOk
  <2>. QED  BY <1>4, <2>1, <2>2
<1>8. process' \in {process, "off"} /\ (process' = "off" => flight' = NoFlight) /\ faults' \in 0..MaxFaults
  BY <1>1, <1>4 DEF Up
<1>9. process' = "running" => disk'.active = disk.active /\ live \notin condemned'
  BY <1>1, <1>2, <1>5, <1>8 DEF ProcessOk, LiveIsKept
<1>. QED  BY <1>1, <1>5, <1>6, <1>7, <1>8, <1>9, UpKeeps

LEMMA SweptKeeps ==
  ASSUME ProfilesInv, Swept
  PROVE  ProfilesInv'
<1>1. /\ Up /\ flight.kind = "recover" /\ flight.profile = None /\ \A p \in flight.left : ~Tombstoned(disk, p)
      /\ Ended(Sweeps(disk), NoFlight, NoFlight) /\ UNCHANGED <<live, born, condemned, touched, refused>>
  BY DEF Swept, NoHistory
<1>2. /\ Sound(disk, born, condemned) /\ disk \in Disks /\ FlightOk(flight, disk) /\ ProcessOk
      /\ (touched \/ Footing(disk)) /\ disk.index \subseteq Profiles
  BY InvIs, DiskIs
<1>3. \A p \in disk.index : ~Tombstoned(disk, p)
  BY <1>1, <1>2, NamesAreApart DEF FlightOk
<1>4. PICK e \in Sweeps(disk) :
           /\ disk' = e.disk /\ faults' \in 0..MaxFaults
           /\ process' \in {process, "off"} /\ flight' = NoFlight
  BY <1>1, EndedIs
<1>5. /\ Sound(disk', born, condemned) /\ disk'.active = disk.active /\ (Footing(disk) => Footing(disk'))
  BY <1>2, <1>3, <1>4, SweepsIs
<1>6. touched' \in BOOLEAN /\ (touched' \/ Footing(disk')) /\ FlightOk(flight', disk')
  BY <1>1, <1>2, <1>4, <1>5, NoFlightIs DEF ProcessOk
<1>7. process' = "running" => disk'.active = disk.active /\ live \notin condemned'
  BY <1>1, <1>2, <1>4, <1>5 DEF ProcessOk, LiveIsKept
<1>. QED  BY <1>1, <1>4, <1>5, <1>6, <1>7, UpKeeps

\* A refused start leaves everything but the reason, which is a cause.
LEMMA RefusesKeeps ==
  ASSUME ProfilesInv, process = "off", NEW why \in {"journal", "switch", "active"}, RefusesStart(why),
         UNCHANGED <<born, condemned>>,
         why = "journal" => touched \/ disk.journal = Torn,
         why = "active" => disk.active \in condemned, why = "switch" => disk.switch \in condemned
  PROVE  ProfilesInv'
<1>1. refused' = why /\ UNCHANGED <<disk, process, live, flight, faults, touched, born, condemned>>
  BY DEF RefusesStart
<1>2. Sound(disk', born', condemned') /\ (touched' \/ Footing(disk')) /\ FlightOk(flight', disk')
  BY <1>1, InvIs
<1>3. ProcessOk'
  BY <1>1, InvIs DEF ProcessOk, LiveIsKept
<1>4. StartRefusedForCause'
  BY <1>1 DEF StartRefusedForCause
<1>. QED  BY <1>2, <1>3, <1>4 DEF ProfilesInv

LEMMA StartsKeep ==
  ASSUME ProfilesInv, process = "off", NEW d, StartsServices(d), UNCHANGED <<born, condemned>>,
         Sound(d, born, condemned), touched \/ Footing(d), Candidate(d, d.active)
  PROVE  ProfilesInv'
<1>1. /\ disk' = d /\ process' = "running" /\ live' = d.active /\ refused' = ""
      /\ flight' = [NoFlight EXCEPT !.kind = "recover", !.left = d.index]
      /\ UNCHANGED <<faults, touched, born, condemned>>
  BY DEF StartsServices
<1>2. d \in Disks /\ d.index \subseteq Profiles /\ d.active \in Profiles \cup {Home} /\ condemned \subseteq Profiles
  BY SoundIs, DiskIs
<1>3. d.active \notin condemned
  BY <1>2, CandidateIs, NamesAreApart
<1>4. FlightOk(flight', disk')
  <2>1. /\ flight' \in Flights /\ flight'.profile = None /\ flight'.left = d.index
    BY <1>1, <1>2 DEF NoFlight, Flights
  <2>. QED  BY <1>1, <2>1 DEF FlightOk
<1>5. ProcessOk'
  BY <1>1, <1>2, <1>3, InvIs DEF ProcessOk, LiveIsKept
<1>6. StartRefusedForCause'
  BY <1>1 DEF StartRefusedForCause
<1>7. Sound(disk', born', condemned') /\ (touched' \/ Footing(disk'))
  BY <1>1
<1>. QED  BY <1>4, <1>5, <1>6, <1>7 DEF ProfilesInv

LEMMA RecoversProvisioningKeeps ==
  ASSUME ProfilesInv, process = "off", RecoversProvisioning, UNCHANGED <<born, condemned>>,
         Candidate(disk, disk.active), disk.switch = None
  PROVE  ProfilesInv'
<1>1. PICK e \in Resumes(disk) :
           IF e.end = "done" /\ RegistryLoads(e.disk) THEN StartsServices(e.disk)
           ELSE IF e.end \in {"done", "threw"} THEN RefusesStart("journal")
           ELSE /\ CanFault /\ disk' = e.disk /\ faults' = faults + 1
                /\ UNCHANGED <<process, live, flight, touched, refused>>
  BY DEF RecoversProvisioning
<1>2. /\ Sound(disk, born, condemned) /\ (touched \/ Footing(disk)) /\ FlightOk(flight, disk) /\ ProcessOk
      /\ StartRefusedForCause /\ condemned \subseteq Profiles
  BY InvIs, SoundIs
<1>. DEFINE d == e.disk
<1>3. /\ Sound(d, born, condemned) /\ (Footing(disk) => Footing(d)) /\ d.active = disk.active
      /\ d.tombstone = disk.tombstone
      /\ e.end = "threw" => ~Footing(disk) \/ disk.journal = Torn
      /\ disk.journal = Torn => e.end = "threw" /\ e.disk = disk
  BY <1>2, ResumesIs
<1>4. RegistryLoads(d)
  BY <1>3, RegistryIs
<1>5. CASE e.end = "done"
  <2>1. StartsServices(d)
    BY <1>1, <1>4, <1>5
  <2>2. Candidate(d, d.active)
    <3>1. disk.active = Home \/ disk.active \notin condemned
      BY <1>2, CandidateIs
    <3>2. d.active \in Profiles \cup {Home}
      BY <1>3, SoundIs, DiskIs
    <3>. QED  BY <1>3, <3>1, <3>2, CandidateIs DEF Candidate
  <2>. QED  BY <1>2, <1>3, <2>1, <2>2, StartsKeep
<1>6. CASE e.end = "threw"
  <2>1. RefusesStart("journal") /\ (touched \/ disk.journal = Torn)
    BY <1>1, <1>2, <1>3, <1>6
  <2>. QED  BY <2>1, RefusesKeeps
<1>7. CASE e.end \notin {"done", "threw"}
  <2>1. /\ CanFault /\ disk' = d /\ faults' = faults + 1 /\ disk.journal # Torn
        /\ UNCHANGED <<process, live, flight, touched, refused, born, condemned>>
    BY <1>1, <1>3, <1>7
  <2>2. flight' = NoFlight
    BY <1>2, <2>1 DEF ProcessOk
  <2>3. ProcessOk'
    BY <1>2, <2>1, FaultsGoOn DEF ProcessOk, LiveIsKept
  <2>4. StartRefusedForCause'
    BY <1>2, <1>3, <2>1, NamesAreApart DEF StartRefusedForCause
  <2>5. Sound(disk', born', condemned') /\ (touched' \/ Footing(disk'))
    BY <1>2, <1>3, <2>1
  <2>6. FlightOk(flight', disk')
    BY <2>2, NoFlightIs
  <2>. QED  BY <2>3, <2>4, <2>5, <2>6 DEF ProfilesInv
<1>. QED  BY <1>5, <1>6, <1>7

LEMMA StartKeeps ==
  ASSUME ProfilesInv, Start
  PROVE  ProfilesInv'
<1>1. /\ process = "off" /\ UNCHANGED <<born, condemned>>
  BY DEF Start
<1>2. /\ Sound(disk, born, condemned) /\ disk \in Disks /\ (touched \/ Footing(disk)) /\ ProcessOk
      /\ condemned \subseteq Profiles /\ disk.active \in Profiles \cup {Home} /\ disk.switch \in Profiles \cup {None, Home}
  BY InvIs, SoundIs, DiskIs
<1>3. CASE ~Candidate(disk, disk.active)
  <2>1. RefusesStart("active")
    BY <1>3 DEF Start, PreReady
  <2>2. disk.active \in condemned
    BY <1>2, <1>3, CandidateIs
  <2>. QED  BY <1>1, <2>1, <2>2, RefusesKeeps
<1>4. CASE Candidate(disk, disk.active) /\ disk.switch = None
  <2>1. RecoversProvisioning
    BY <1>4 DEF Start, PreReady
  <2>. QED  BY <1>1, <1>4, <2>1, RecoversProvisioningKeeps
<1>5. CASE Candidate(disk, disk.active) /\ disk.switch # None /\ ~Candidate(disk, disk.switch)
  <2>1. RefusesStart("switch")
    BY <1>5 DEF Start, PreReady
  <2>2. disk.switch \in condemned
    BY <1>2, <1>5, CandidateIs
  <2>. QED  BY <1>1, <2>1, <2>2, RefusesKeeps
<1>6. CASE Candidate(disk, disk.active) /\ disk.switch # None /\ Candidate(disk, disk.switch)
  <2>1. /\ disk' = Switched(disk, disk.switch) /\ touched' = (touched \/ disk.switch = disk.journal.profile)
        /\ refused' = "" /\ UNCHANGED <<process, live, flight, faults>>
    BY <1>6 DEF Start, PreReady, Touches
  <2>2. /\ Sound(disk', born, condemned)
        /\ (Footing(disk) /\ disk.switch # disk.journal.profile => Footing(disk'))
    BY <1>2, <1>6, <2>1, SwitchedIs
  <2>3. ProcessOk'
    BY <1>1, <1>2, <2>1 DEF ProcessOk, LiveIsKept
  <2>4. flight' = NoFlight
    BY <1>1, <1>2, <2>1 DEF ProcessOk
  <2>5. FlightOk(flight', disk') /\ StartRefusedForCause'
    BY <2>1, <2>4, NoFlightIs DEF StartRefusedForCause
  <2>6. Sound(disk', born', condemned') /\ (touched' \/ Footing(disk'))
    BY <1>1, <1>2, <2>1, <2>2
  <2>. QED  BY <2>3, <2>5, <2>6 DEF ProfilesInv
<1>. QED  BY <1>3, <1>4, <1>5, <1>6

LEMMA ProfilesKept ==
  ASSUME ProfilesInv, [ProfilesNext]_profileVars
  PROVE  ProfilesInv'
<1>1. CASE Use \/ ClearFails \/ PartitionCleared
  BY <1>1, UseKeeps, ClearFailsKeeps, PartitionClearedKeeps
<1>2. CASE Swept \/ Exit \/ Start
  BY <1>2, SweptKeeps, ExitKeeps, StartKeeps
<1>3. CASE \E p \in Profiles : Begin(p) \/ Delete(p) \/ RecoverNext(p)
  BY <1>3, BeginKeeps, DeleteKeeps, RecoverNextKeeps
<1>4. CASE \E p \in Profiles \cup {Home} : SwitchFails(p) \/ Switch(p)
  BY <1>4, SwitchFailsKeeps, SwitchKeeps
<1>5. CASE UNCHANGED profileVars
  <2>1. UNCHANGED <<disk, process, live, flight, faults, born, condemned, touched, refused>>
    BY <1>5 DEF profileVars
  <2>2. Sound(disk', born', condemned') /\ (touched' \/ Footing(disk')) /\ FlightOk(flight', disk')
    BY <2>1, InvIs
  <2>3. ProcessOk' /\ StartRefusedForCause'
    BY <2>1, InvIs DEF ProcessOk, LiveIsKept, StartRefusedForCause
  <2>. QED  BY <2>2, <2>3 DEF ProfilesInv
<1>. QED  BY <1>1, <1>2, <1>3, <1>4, <1>5 DEF ProfilesNext

LEMMA ProfilesAtFirst ==
  ASSUME ProfilesInit
  PROVE  ProfilesInv
<1>1. /\ disk = [index |-> {}, journal |-> NoJournal, files |-> [p \in Profiles |-> {}],
                 place |-> [p \in Profiles |-> "absent"], tombstone |-> [p \in Profiles |-> "absent"],
                 partition |-> {}, switch |-> None, active |-> Home]
      /\ process = "running" /\ live = Home /\ flight = NoFlight /\ faults = 0
      /\ born = {} /\ condemned = {} /\ touched = FALSE /\ refused = ""
  BY DEF ProfilesInit
<1>2. disk \in Disks
  BY <1>1, JournalsAre DEF Disks, ProfileFiles, Places, Tombstones
<1>3. \A p \in Profiles : ProfileOk(disk, born, condemned, p)
  BY <1>1, NamesAreApart DEF ProfileOk, Tombstoned
<1>4. Sound(disk, born, condemned) /\ Footing(disk)
  BY <1>1, <1>2, <1>3, JournalsAre DEF Sound, JournalOk, Writing, Footing
<1>5. FlightOk(flight, disk) /\ StartRefusedForCause
  BY <1>1, NoFlightIs DEF StartRefusedForCause
<1>6. ProcessOk
  <2>1. 0 \in 0..MaxFaults
    BY NamesAreApart
  <2>2. disk.active = Home
    BY <1>1
  <2>3. /\ process = "running" /\ live = Home /\ faults = 0 /\ condemned = {} /\ touched = FALSE /\ refused = ""
    BY <1>1
  <2>. QED  BY <2>1, <2>2, <2>3 DEF ProcessOk, LiveIsKept
<1>. QED  BY <1>4, <1>5, <1>6 DEF ProfilesInv

LEMMA InvIsEnough == ProfilesInv => ProfilesSafety
<1>. SUFFICES ASSUME ProfilesInv PROVE ProfilesSafety
  OBVIOUS
<1>1. /\ Sound(disk, born, condemned) /\ disk \in Disks /\ FlightOk(flight, disk) /\ ProcessOk /\ StartRefusedForCause
      /\ born \subseteq Profiles /\ condemned \subseteq born /\ \A p \in Profiles : ProfileOk(disk, born, condemned, p)
  BY InvIs, SoundIs
<1>2. ProfilesTypeOK
  BY <1>1, DiskIs DEF ProfilesTypeOK, ProcessOk, FlightOk, ProfileFiles, Places
<1>3. ListedIsWhole
  BY <1>1, RegistryIs DEF ListedIsWhole
<1>4. DeletionStands
  BY <1>1, RegistryIs DEF DeletionStands, ProfileOk
<1>5. LiveIsKept
  BY <1>1 DEF ProcessOk
<1>. QED  BY <1>1, <1>2, <1>3, <1>4, <1>5 DEF ProfilesSafety

\* Whatever write fails and wherever the process dies: a profile the registry
\* lists is whole, a deletion that became durable is never undone and takes the
\* record away only after the partition, the profile of a running process is
\* not deleted under it, and a start is refused only for a cause.
THEOREM ProfilesCorrect == ProfilesSpec => []ProfilesSafety
<1>1. ProfilesInit => ProfilesInv
  BY ProfilesAtFirst
<1>2. ProfilesInv /\ [ProfilesNext]_profileVars => ProfilesInv'
  BY ProfilesKept
<1>3. ProfilesInv => ProfilesSafety
  BY InvIsEnough
<1>. QED  BY <1>1, <1>2, <1>3, PTL DEF ProfilesSpec

-----------------------------------------------------------------------------
(* The migration of a 1.x installation, for any number of edits and failures. *)
(* MigrationSafety is not inductive: it says nothing of how far an           *)
(* interrupted migration came.  MigrationInv names the places at which it can *)
(* stop, by what it has written: nothing (Untouched), half a journal          *)
(* (TornAt), the first n files of the prepared plan (PreparedAt), the plan    *)
(* with n flat files retired (CommittedAt), everything (Moved).               *)

MigrationJournals == [state : {"absent", "torn", "prepared", "committed"}, sources : Flat, files : [Files -> FileContents]]
Store == [flat : Flat, files : [Files -> FileContents], journal : MigrationJournals, retired : BOOLEAN, intent : BOOLEAN]

\* The place of a file in Order.
Place(f) == CASE f = "settings" -> 1 [] f = "account" -> 2 [] f = "credential" -> 3
              [] f = "blob" -> 4 [] f = "state" -> 5 [] f = "copied" -> 6
Nth == [f \in Files |-> Place(f)]

LEMMA FilesAre ==
  /\ Files = {"settings", "account", "credential", "blob", "state", "copied"}
  /\ Len(Order) = 6 /\ Len(Retirement) = 3 /\ Nth \in [Files -> 1..6]
  /\ \A n \in 0..6 : \A f \in Files : (\E i \in 1..n : Order[i] = f) <=> Nth[f] <= n
<1>1. Len(Order) = 6 /\ Len(Retirement) = 3 BY DEF Order, Retirement
<1>2. DOMAIN Order = 1..6 BY DEF Order
<1>3. /\ Order[1] = "settings" /\ Order[2] = "account" /\ Order[3] = "credential"
      /\ Order[4] = "blob" /\ Order[5] = "state" /\ Order[6] = "copied"
  BY DEF Order
<1>4. Files = {"settings", "account", "credential", "blob", "state", "copied"}
  <2>1. \A i : i \in 1..6 <=> i \in {1, 2, 3, 4, 5, 6} OBVIOUS
  <2>. QED BY <1>2, <1>3, <2>1 DEF Files
<1>5. /\ Nth["settings"] = 1 /\ Nth["account"] = 2 /\ Nth["credential"] = 3
      /\ Nth["blob"] = 4 /\ Nth["state"] = 5 /\ Nth["copied"] = 6
  BY <1>4 DEF Nth, Place
<1>7. Nth \in [Files -> 1..6]
  <2>1. \A f \in Files : Place(f) \in 1..6 BY <1>4 DEF Place
  <2>. QED BY <2>1 DEF Nth
<1>8. ASSUME NEW n \in 0..6, NEW f \in Files PROVE (\E i \in 1..n : Order[i] = f) <=> Nth[f] <= n
  <2>1. \A i \in 1..6 : Order[i] = f <=> i = Nth[f] BY <1>3, <1>4, <1>5
  <2>2. Nth[f] \in 1..6 BY <1>7
  <2>. QED BY <2>1, <2>2
<1>. QED BY <1>1, <1>4, <1>7, <1>8


(* How far a migration is: what the storage may hold beside the flat files  *)
(* as they were left, `l`, after `b` builds.                                *)
Upto(plan, n) == [f \in Files |-> IF Nth[f] <= n THEN plan[f] ELSE NoFile]
RemovedFrom(l, n) == [s \in Sources |-> IF \E i \in 1..n : Retirement[i] = s THEN 0 ELSE l[s]]

FlatOnly(d, l) == d.files = Nowhere /\ d.flat = l /\ ~d.retired /\ ~d.intent
Untouched(d, l) == FlatOnly(d, l) /\ d.journal = NoMigration
TornAt(d, l) == FlatOnly(d, l) /\ d.journal = [NoMigration EXCEPT !.state = "torn"]
Movable(l) == l["settings"] # 0 /\ l["owner"] = 0
PreparedAt(d, l, b) ==
  /\ d.journal.state = "prepared" /\ d.journal.sources = l /\ d.flat = l /\ Movable(l) /\ ~d.intent
  /\ \E n \in 0..6, s \in 0..b : /\ n > 0 => s > 0
                                 /\ d.files = Upto(DestinationPlan(l, s), n)
                                 /\ d.retired = (n >= 5 /\ l["credential"] = 0)
CommittedAt(d, l, b) ==
  /\ d.journal.state = "committed" /\ d.journal.sources = l /\ d.journal.files = d.files /\ Movable(l) /\ ~d.intent
  /\ \E s \in 1..b : d.files = DestinationPlan(l, s)
  /\ \E n \in 0..3 : d.flat = RemovedFrom(l, n)
  /\ d.retired = (l["credential"] = 0)
\* The Workspace is the authority; `r`: its credential was replaced.
Holds(d, l, r) == /\ l["settings"] # 0 /\ d.files["settings"].from = l["settings"]
                  /\ d.files["copied"].from = l["copied"] /\ (d.files["credential"].from = l["credential"] \/ r)
Moved(d, l, r) ==
  /\ d.journal = NoMigration /\ d.flat = Empty
  /\ l = Empty \/ Holds(d, l, r)
  /\ d.files["settings"] # NoFile /\ d.files["state"] # NoFile
  /\ d.retired => ~Blob(d)
  /\ ~d.retired /\ ~d.intent => Blob(d)
  /\ r => d.retired

Conflicting(d, l, b) == PreparedAt(d, l, b) /\ d.files["account"].stamp \in 1..b

Typed == /\ storage \in Store /\ last \in Flat /\ last["owner"] \in {0, 1} /\ replaced \in BOOLEAN
         /\ edits \in 0..MaxEdits /\ failures \in 0..MaxFailures /\ builds \in Nat /\ builds <= failures + 1
         /\ session \in {"off", "relaunching", "legacy-flat", "profile-workspace"}
Phase ==
  \/ session # "legacy-flat" /\ Moved(storage, last, replaced)
  \/ ~replaced /\ builds <= failures /\ session \in {"off", "legacy-flat"} /\ Untouched(storage, last)
  \/ ~replaced /\ builds <= failures /\ session = "off" /\ (TornAt(storage, last) \/ PreparedAt(storage, last, builds))
  \/ ~replaced /\ session = "off" /\ CommittedAt(storage, last, builds)
Refusal ==
  \/ refusal = ""
  \/ /\ session = "off"
     /\ \/ refusal = "torn" /\ TornAt(storage, last)
        \/ refusal = "conflict" /\ Conflicting(storage, last, builds)
        \/ refusal = "orphan" /\ Untouched(storage, last) /\ last["settings"] = 0 /\ last # Empty
        \/ refusal = "owner" /\ Untouched(storage, last) /\ last["settings"] # 0 /\ last["owner"] # 0
MigrationInv == Typed /\ Phase /\ Refusal

LEMMA DestinedIs == ASSUME NEW d PROVE Destined(d) <=> d.files["settings"] # NoFile
BY DEF Destined

LEMMA StoreWrites ==
  ASSUME NEW d \in Store, NEW flat \in Flat, NEW files \in [Files -> FileContents], NEW j \in MigrationJournals, NEW x \in BOOLEAN
  PROVE  /\ [d EXCEPT !.files = files] \in Store /\ [d EXCEPT !.flat = flat] \in Store
         /\ [d EXCEPT !.journal = j] \in Store /\ [d EXCEPT !.retired = x] \in Store
         /\ [d EXCEPT !.intent = x] \in Store /\ [d EXCEPT !.files = files, !.retired = x] \in Store
         /\ [d EXCEPT !.flat = flat, !.journal = j] \in Store
BY DEF Store

LEMMA MarksAre ==
  /\ NoFile \in FileContents /\ Empty \in Flat /\ Nowhere \in [Files -> FileContents] /\ NoMigration \in MigrationJournals
  /\ [NoMigration EXCEPT !.state = "torn"] \in MigrationJournals /\ NoMigration.state = "absent"
  /\ \A l \in Flat, s \in 0..MaxFailures + 1 : DestinationPlan(l, s) \in [Files -> FileContents]
<1>1. MaxEdits \in Nat /\ MaxFailures \in Nat BY MigrationAssumption
<1>2. NoFile \in FileContents BY <1>1 DEF NoFile, FileContents
<1>3. Empty \in Flat BY <1>1 DEF Empty, Flat
<1>4. Nowhere \in [Files -> FileContents] BY <1>2 DEF Nowhere
<1>5. NoMigration \in MigrationJournals /\ [NoMigration EXCEPT !.state = "torn"] \in MigrationJournals /\ NoMigration.state = "absent"
  BY <1>3, <1>4 DEF NoMigration, MigrationJournals
<1>6. ASSUME NEW l \in Flat, NEW s \in 0..MaxFailures + 1 PROVE DestinationPlan(l, s) \in [Files -> FileContents]
  <2>1. \A x \in Sources : l[x] \in 0..MaxEdits + 1 BY DEF Flat
  <2>2. \A x \in 0..MaxEdits + 1 : [from |-> x, stamp |-> s] \in FileContents /\ [from |-> x, stamp |-> 0] \in FileContents
    BY <1>1 DEF FileContents
  <2>3. {"settings", "credential", "copied"} \subseteq Sources BY DEF Sources
  <2>. QED BY <1>2, <2>1, <2>2, <2>3, FilesAre DEF DestinationPlan
<1>. QED BY <1>2, <1>3, <1>4, <1>5, <1>6

LEMMA NoFileIs ==
  /\ NoFile.from = 0 /\ NoFile.stamp = 0
  /\ \A x \in FileContents : x = NoFile <=> x.from = 0 /\ x.stamp = 0
<1>1. NoFile.from = 0 /\ NoFile.stamp = 0 BY DEF NoFile
<1>2. ASSUME NEW x \in FileContents, x.from = 0, x.stamp = 0 PROVE x = NoFile
  <2>1. x = [from |-> x.from, stamp |-> x.stamp] BY DEF FileContents
  <2>. QED BY <1>2, <2>1 DEF NoFile
<1>. QED BY <1>1, <1>2

\* What the plan says of each file.
LEMMA PlanIs ==
  ASSUME NEW l \in Flat, NEW s \in 0..MaxFailures + 1
  PROVE  /\ DestinationPlan(l, s)["settings"].from = l["settings"] /\ DestinationPlan(l, s)["settings"].stamp = 0
         /\ DestinationPlan(l, s)["copied"].from = l["copied"]
         /\ DestinationPlan(l, s)["account"].stamp = s /\ DestinationPlan(l, s)["state"].stamp = s
         /\ DestinationPlan(l, s)["credential"].from = l["credential"]
         /\ DestinationPlan(l, s)["blob"] = NoFile <=> l["credential"] = 0
         /\ l["settings"] # 0 => DestinationPlan(l, s)["settings"] # NoFile
         /\ s # 0 => DestinationPlan(l, s)["account"] # NoFile /\ DestinationPlan(l, s)["state"] # NoFile
         /\ DestinationPlan(l, s) \in [Files -> FileContents]
<1>. DEFINE plan == DestinationPlan(l, s)
<1>1. plan \in [Files -> FileContents] BY MarksAre
<1>2. /\ plan["settings"] = [from |-> l["settings"], stamp |-> 0] /\ plan["copied"] = [from |-> l["copied"], stamp |-> 0]
      /\ plan["account"] = [from |-> l["credential"], stamp |-> s] /\ plan["state"] = [from |-> l["credential"], stamp |-> s]
      /\ plan["credential"] = (IF l["credential"] = 0 THEN NoFile ELSE [from |-> l["credential"], stamp |-> s])
      /\ plan["blob"] = [from |-> l["credential"], stamp |-> 0]
  BY FilesAre DEF DestinationPlan
<1>. HIDE DEF plan
<1>3. /\ plan["settings"].from = l["settings"] /\ plan["settings"].stamp = 0 /\ plan["copied"].from = l["copied"]
      /\ plan["account"].stamp = s /\ plan["state"].stamp = s
      /\ plan["blob"].from = l["credential"] /\ plan["blob"].stamp = 0
  BY <1>2
<1>4. plan["credential"].from = l["credential"] BY <1>2, NoFileIs
<1>5. plan["blob"] = NoFile <=> l["credential"] = 0
  <2>1. plan["blob"] \in FileContents BY <1>1, FilesAre
  <2>. QED BY <1>3, <2>1, NoFileIs
<1>6. l["settings"] # 0 => plan["settings"] # NoFile BY <1>3, NoFileIs
<1>7. s # 0 => plan["account"] # NoFile /\ plan["state"] # NoFile BY <1>3, NoFileIs
<1>. QED BY <1>1, <1>3, <1>4, <1>5, <1>6, <1>7 DEF plan

LEMMA SettingsPlan ==
  ASSUME NEW l \in Flat, NEW s \in 0..MaxFailures + 1, NEW t \in 0..MaxFailures + 1
  PROVE  DestinationPlan(l, s)["settings"] = DestinationPlan(l, t)["settings"]
<1>. DEFINE p == DestinationPlan(l, s)["settings"]
            q == DestinationPlan(l, t)["settings"]
<1>1. p \in FileContents /\ q \in FileContents BY PlanIs, FilesAre
<1>2. p.from = q.from /\ p.stamp = q.stamp BY PlanIs
<1>. HIDE DEF p, q
<1>3. p = [from |-> p.from, stamp |-> p.stamp] /\ q = [from |-> q.from, stamp |-> q.stamp] BY <1>1 DEF FileContents
<1>4. p = q BY <1>2, <1>3
<1>. QED BY <1>4 DEF p, q

LEMMA RemovedIs ==
  ASSUME NEW l \in Flat
  PROVE  /\ \A n \in 0..3 : RemovedFrom(l, n) \in Flat /\ \A s \in Sources : RemovedFrom(l, n)[s] \in {0, l[s]}
         /\ RemovedFrom(l, 0) = l
         /\ l["owner"] = 0 => RemovedFrom(l, 3) = Empty
         /\ \A n, k \in 0..3 : RemovedFrom(RemovedFrom(l, n), k) = RemovedFrom(l, IF n > k THEN n ELSE k)
         /\ l["owner"] = 0 => \A n \in 0..3 : (l["settings"] # 0 /\ RemovedFrom(l, n)["settings"] = 0) => RemovedFrom(l, n) = Empty
<1>1. Retirement[1] = "credential" /\ Retirement[2] = "copied" /\ Retirement[3] = "settings" BY DEF Retirement
<1>2. l = [s \in Sources |-> l[s]] /\ \A s \in Sources : l[s] \in 0..MaxEdits + 1 BY DEF Flat
<1>3. \A n \in 0..3 : RemovedFrom(l, n) \in Flat /\ \A s \in Sources : RemovedFrom(l, n)[s] \in {0, l[s]}
  <2>1. MaxEdits \in Nat BY MigrationAssumption
  <2>. QED BY <1>2, <2>1 DEF RemovedFrom, Flat
<1>4. RemovedFrom(l, 0) = l BY <1>2 DEF RemovedFrom
<1>5. ASSUME NEW n \in 0..3, NEW s \in Sources
      PROVE  (\E i \in 1..n : Retirement[i] = s) <=>
               (s = "credential" /\ n >= 1) \/ (s = "copied" /\ n >= 2) \/ (s = "settings" /\ n >= 3)
  <2>1. (\E i \in 1..n : Retirement[i] = s) <=>
          \/ 1 <= n /\ Retirement[1] = s
          \/ 2 <= n /\ Retirement[2] = s
          \/ 3 <= n /\ Retirement[3] = s
    <3>1. \A i \in 1..n : i = 1 \/ i = 2 \/ i = 3 OBVIOUS
    <3>2. \A i \in {1, 2, 3} : i <= n => i \in 1..n OBVIOUS
    <3>. QED BY <3>1, <3>2
  <2>. QED BY <1>1, <2>1
<1>6. ASSUME NEW n \in 0..3, NEW s \in Sources
      PROVE  RemovedFrom(l, n)[s] = IF (s = "credential" /\ n >= 1) \/ (s = "copied" /\ n >= 2) \/ (s = "settings" /\ n >= 3) THEN 0 ELSE l[s]
  BY <1>5 DEF RemovedFrom
<1>7. l["owner"] = 0 => RemovedFrom(l, 3) = Empty BY <1>3, <1>6 DEF Empty, Sources, Flat, RemovedFrom
<1>8. ASSUME NEW n \in 0..3, NEW k \in 0..3 PROVE RemovedFrom(RemovedFrom(l, n), k) = RemovedFrom(l, IF n > k THEN n ELSE k)
  <2>1. \A s \in Sources : RemovedFrom(RemovedFrom(l, n), k)[s] = RemovedFrom(l, IF n > k THEN n ELSE k)[s]
    BY <1>5, <1>6 DEF RemovedFrom
  <2>. QED BY <2>1 DEF RemovedFrom
<1>9. ASSUME l["owner"] = 0, NEW n \in 0..3, l["settings"] # 0, RemovedFrom(l, n)["settings"] = 0
      PROVE  RemovedFrom(l, n) = Empty
  <2>1. n = 3 BY <1>6, <1>9 DEF Sources
  <2>. QED BY <1>7, <1>9, <2>1
<1>. QED BY <1>3, <1>4, <1>7, <1>8, <1>9
-----------------------------------------------------------------------------
(* The old credential.                                                      *)

LEMMA ResumesIntentMoved ==
  ASSUME NEW d \in Store, NEW l, NEW r \in BOOLEAN, Moved(d, l, r), d.intent, NEW e \in ResumesIntent(d)
  PROVE  /\ e.store \in Store /\ Moved(e.store, l, r) /\ e.end \in {"cut", "done"}
         /\ e.end = "done" => e.store.retired /\ ~Blob(e.store)
<1>. DEFINE unlinked == [d EXCEPT !.files["blob"] = NoFile]
            stated == [unlinked EXCEPT !.retired = TRUE]
            cleared == [stated EXCEPT !.intent = FALSE]
<1>1. NoFile \in FileContents BY MarksAre
<1>2. /\ unlinked \in Store /\ unlinked.flat = d.flat /\ unlinked.journal = d.journal /\ unlinked.retired = d.retired
      /\ unlinked.intent /\ unlinked.files["blob"] = NoFile
      /\ \A f \in Files : f # "blob" => unlinked.files[f] = d.files[f]
  <2>1. d.files \in [Files -> FileContents] BY DEF Store
  <2>2. [d.files EXCEPT !["blob"] = NoFile] \in [Files -> FileContents] BY <1>1, <2>1
  <2>3. unlinked = [d EXCEPT !.files = [d.files EXCEPT !["blob"] = NoFile]] OBVIOUS
  <2>4. \A f \in Files : [d.files EXCEPT !["blob"] = NoFile][f] = IF f = "blob" THEN NoFile ELSE d.files[f] BY <2>1
  <2>5. "blob" \in Files BY FilesAre
  <2>. QED BY <2>2, <2>3, <2>4, <2>5 DEF Store
<1>3. /\ stated \in Store /\ stated.flat = d.flat /\ stated.journal = d.journal /\ stated.retired
      /\ stated.intent /\ stated.files = unlinked.files
  <2>. HIDE DEF unlinked
  <2>. QED BY <1>2 DEF Store
<1>4. /\ cleared \in Store /\ cleared.flat = d.flat /\ cleared.journal = d.journal /\ cleared.retired
      /\ ~cleared.intent /\ cleared.files = unlinked.files
  <2>. HIDE DEF stated
  <2>. QED BY <1>3 DEF Store
<1>5. e \in {[store |-> d, end |-> "cut"], [store |-> unlinked, end |-> "cut"], [store |-> stated, end |-> "cut"],
             [store |-> cleared, end |-> "cut"], [store |-> cleared, end |-> "done"]}
  BY DEF ResumesIntent, CutOff, Finishes, EndsAt
<1>. HIDE DEF unlinked, stated, cleared
<1>6. {"settings", "copied", "credential", "state"} \subseteq Files /\ "blob" \notin {"settings", "copied", "credential", "state"}
  BY FilesAre
<1>7. /\ Moved(unlinked, l, r) /\ Moved(stated, l, r) /\ Moved(cleared, l, r)
      /\ ~Blob(cleared)
  BY <1>2, <1>3, <1>4, <1>6 DEF Moved, Holds, Blob
<1>. QED BY <1>2, <1>3, <1>4, <1>5, <1>7

LEMMA IntendsMoved ==
  ASSUME NEW d \in Store, NEW l, NEW r \in BOOLEAN, Moved(d, l, r), NEW e \in Intends(d)
  PROVE  /\ e.store \in Store /\ Moved(e.store, l, r) /\ e.end \in {"cut", "done"}
         /\ e.end = "done" => e.store.retired /\ ~Blob(e.store)
<1>. DEFINE x == [d EXCEPT !.intent = TRUE]
<1>1. x \in Store /\ x.intent /\ x.flat = d.flat /\ x.files = d.files /\ x.journal = d.journal /\ x.retired = d.retired
  BY DEF Store
<1>2. e \in ResumesIntent(x) BY DEF Intends
<1>. HIDE DEF x
<1>3. Moved(x, l, r) BY <1>1 DEF Moved, Holds, Blob
<1>. QED BY <1>1, <1>2, <1>3, ResumesIntentMoved

LEMMA ReconcilesMoved ==
  ASSUME NEW d \in Store, NEW l, NEW r \in BOOLEAN, Moved(d, l, r), NEW e \in Reconciles(d)
  PROVE  /\ e.store \in Store /\ Moved(e.store, l, r) /\ e.end \in {"cut", "done"}
         /\ ~d.intent => e = [store |-> d, end |-> "done"]
         /\ e.end = "done" /\ e.store.retired => ~Blob(e.store)
<1>1. d.files["state"] # NoFile /\ (d.retired => ~Blob(d)) /\ (~d.retired /\ ~d.intent => Blob(d)) BY DEF Moved
<1>2. CASE d.intent
  <2>1. Reconciles(d) = ResumesIntent(d) BY <1>1, <1>2 DEF Reconciles
  <2>. QED BY <1>2, <2>1, ResumesIntentMoved
<1>3. CASE ~d.intent
  <2>1. Reconciles(d) = Finishes(d) BY <1>1, <1>3 DEF Reconciles
  <2>2. e = [store |-> d, end |-> "done"] BY <2>1 DEF Finishes, EndsAt
  <2>. QED BY <1>1, <2>2
<1>. QED BY <1>2, <1>3

LEMMA RetiresMoved ==
  ASSUME NEW d \in Store, NEW l, NEW r \in BOOLEAN, Moved(d, l, r), NEW e \in RetiresBlob(d)
  PROVE  /\ e.store \in Store /\ Moved(e.store, l, r) /\ e.end \in {"cut", "done"}
         /\ e.end = "done" => e.store.retired /\ ~Blob(e.store)
<1>1. PICK x \in Reconciles(d) :
        e \in IF x.end = "done" THEN (IF x.store.retired THEN Finishes(x.store) ELSE CutOff(x.store) \cup Intends(x.store)) ELSE {x}
  BY DEF RetiresBlob, Then
<1>2. /\ x.store \in Store /\ Moved(x.store, l, r) /\ x.end \in {"cut", "done"}
      /\ x.end = "done" /\ x.store.retired => ~Blob(x.store)
  BY ReconcilesMoved
<1>3. CASE x.end # "done" BY <1>1, <1>2, <1>3
<1>4. CASE x.end = "done" /\ x.store.retired
  <2>1. e = [store |-> x.store, end |-> "done"] BY <1>1, <1>4 DEF Finishes, EndsAt
  <2>. QED BY <1>2, <1>4, <2>1
<1>5. CASE x.end = "done" /\ ~x.store.retired
  <2>1. e = [store |-> x.store, end |-> "cut"] \/ e \in Intends(x.store) BY <1>1, <1>5 DEF CutOff, EndsAt
  <2>2. CASE e = [store |-> x.store, end |-> "cut"] BY <1>2, <2>2
  <2>3. CASE e \in Intends(x.store) BY <1>2, <2>3, IntendsMoved
  <2>. QED BY <2>1, <2>2, <2>3
<1>. QED BY <1>3, <1>4, <1>5

-----------------------------------------------------------------------------
(* The migration.  `GoesOnTo` says where a run of writes may end that began     *)
(* with the flat files `l`.                                                 *)

Count(d, e) == builds + (IF e.store.files # d.files THEN 1 ELSE 0)
GoesOnTo(d, l, e) ==
  /\ e.store \in Store
  /\ \/ e.end = "cut" /\ (Untouched(e.store, l) \/ TornAt(e.store, l)) /\ e.store.files = d.files
     \/ e.end = "cut" /\ (PreparedAt(e.store, l, Count(d, e)) \/ CommittedAt(e.store, l, Count(d, e)))
     \/ e.end \in {"cut", "done"} /\ Moved(e.store, l, FALSE) /\ ~e.store.intent
     \/ e.end = "conflict" /\ e.store = d /\ Conflicting(d, l, builds)

LEMMA RemovedStore ==
  ASSUME NEW d \in Store, NEW n \in 0..3
  PROVE  /\ Removed(d, n) \in Store /\ Removed(d, n).flat = RemovedFrom(d.flat, n) /\ Removed(d, n).files = d.files
         /\ Removed(d, n).journal = d.journal /\ Removed(d, n).retired = d.retired /\ Removed(d, n).intent = d.intent
<1>1. Removed(d, n) = [d EXCEPT !.flat = RemovedFrom(d.flat, n)] BY DEF Removed, RemovedFrom
<1>2. RemovedFrom(d.flat, n) \in Flat BY RemovedIs DEF Store
<1>. QED BY <1>1, <1>2 DEF Store

LEMMA ResumesCommittedGoes ==
  ASSUME NEW d \in Store, NEW l \in Flat, NEW b \in 0..MaxFailures + 1, CommittedAt(d, l, b), NEW e \in ResumesCommitted(d)
  PROVE  /\ e.store \in Store /\ e.store.files = d.files
         /\ \/ e.end = "cut" /\ CommittedAt(e.store, l, b)
            \/ e.end \in {"cut", "done"} /\ Moved(e.store, l, FALSE) /\ ~e.store.intent
<1>. DEFINE left == Removed(d, 3)
            final == [left EXCEPT !.journal = NoMigration]
<1>1. PICK m \in 0..3 : d.flat = RemovedFrom(l, m) BY DEF CommittedAt
<1>2. PICK s \in 1..b : d.files = DestinationPlan(l, s) BY DEF CommittedAt
<1>3. l["settings"] # 0 /\ l["owner"] = 0 BY DEF CommittedAt, Movable
<1>4. /\ d.files["settings"].from = l["settings"] /\ d.files["settings"] # NoFile
      /\ d.files["copied"].from = l["copied"] /\ d.files["credential"].from = l["credential"]
      /\ d.files["state"] # NoFile
      /\ d.files["blob"] = NoFile <=> l["credential"] = 0
  <2>1. s \in 0..MaxFailures + 1 /\ s # 0 BY MigrationAssumption
  <2>. QED BY <1>2, <1>3, <2>1, PlanIs
<1>5. Destined(d) BY <1>4 DEF Destined
<1>6. \A x \in Sources : d.flat[x] \in {0, d.journal.sources[x]} BY <1>1, RemovedIs DEF CommittedAt
<1>7. e \in (UNION {CutOff(Removed(d, n)) : n \in 0..3}) \cup CutOff(final) \cup Finishes(final)
  <2>1. d.files = d.journal.files BY DEF CommittedAt
  <2>2. Len(Retirement) = 3 BY FilesAre
  <2>. QED BY <1>5, <1>6, <2>1, <2>2 DEF ResumesCommitted
<1>8. ASSUME NEW n \in 0..3 PROVE Removed(d, n) \in Store /\ Removed(d, n).files = d.files /\ CommittedAt(Removed(d, n), l, b)
  <2>1. RemovedFrom(d.flat, n) = RemovedFrom(l, IF m > n THEN m ELSE n) BY <1>1, RemovedIs
  <2>2. (IF m > n THEN m ELSE n) \in 0..3 OBVIOUS
  <2>3. \E k \in 0..3 : Removed(d, n).flat = RemovedFrom(l, k) BY <2>1, <2>2, RemovedStore
  <2>. QED BY <2>3, RemovedStore DEF CommittedAt
<1>9. /\ final \in Store /\ final.files = d.files /\ final.flat = Empty /\ final.journal = NoMigration
      /\ final.retired = d.retired /\ final.intent = d.intent
  <2>1. RemovedFrom(d.flat, 3) = RemovedFrom(l, 3)
    <3>1. RemovedFrom(d.flat, 3) = RemovedFrom(l, IF m > 3 THEN m ELSE 3) BY <1>1, RemovedIs
    <3>. QED BY <3>1
  <2>2. RemovedFrom(l, 3) = Empty BY <1>3, RemovedIs
  <2>3. left \in Store /\ left.flat = Empty /\ left.files = d.files /\ left.retired = d.retired /\ left.intent = d.intent
    BY <2>1, <2>2, RemovedStore
  <2>4. NoMigration \in MigrationJournals BY MarksAre
  <2>. HIDE DEF left
  <2>. QED BY <2>3, <2>4 DEF Store
<1>10. Moved(final, l, FALSE) /\ ~final.intent
  <2>1. ~d.intent /\ d.retired = (l["credential"] = 0) BY DEF CommittedAt
  <2>. HIDE DEF final
  <2>2. Holds(final, l, FALSE) BY <1>3, <1>4, <1>9 DEF Holds
  <2>. QED BY <1>4, <1>9, <2>1, <2>2 DEF Moved, Blob
<1>. HIDE DEF final, left
<1>11. ASSUME e \in UNION {CutOff(Removed(d, n)) : n \in 0..3}
       PROVE  /\ e.store \in Store /\ e.store.files = d.files
              /\ e.end = "cut" /\ CommittedAt(e.store, l, b)
  <2>1. PICK n \in 0..3 : e = [store |-> Removed(d, n), end |-> "cut"] BY <1>11 DEF CutOff, EndsAt
  <2>. QED BY <1>8, <2>1
<1>12. ASSUME e \in CutOff(final) \cup Finishes(final)
       PROVE  /\ e.store \in Store /\ e.store.files = d.files
              /\ e.end \in {"cut", "done"} /\ Moved(e.store, l, FALSE) /\ ~e.store.intent
  <2>1. e.store = final /\ e.end \in {"cut", "done"} BY <1>12 DEF CutOff, Finishes, EndsAt
  <2>. QED BY <1>9, <1>10, <2>1
<1>13. e \in UNION {CutOff(Removed(d, n)) : n \in 0..3} \/ e \in CutOff(final) \cup Finishes(final) BY <1>7
<1>14. CASE e \in UNION {CutOff(Removed(d, n)) : n \in 0..3} BY <1>11, <1>14
<1>15. CASE e \in CutOff(final) \cup Finishes(final) BY <1>12, <1>15
<1>. QED BY <1>13, <1>14, <1>15

\* The first n files of a plan.
LEMMA UptoIs ==
  ASSUME NEW l \in Flat, NEW s \in 0..MaxFailures + 1
  PROVE  LET plan == DestinationPlan(l, s) IN
         /\ Upto(plan, 0) = Nowhere /\ Upto(plan, 6) = plan
         /\ \A n \in 0..6 : Upto(plan, n) \in [Files -> FileContents]
         /\ \A n \in 0..6 : \A f \in Files : Upto(plan, n)[f] = IF Nth[f] <= n THEN plan[f] ELSE NoFile
<1>. DEFINE plan == DestinationPlan(l, s)
<1>1. plan \in [Files -> FileContents] BY MarksAre
<1>2. \A f \in Files : Nth[f] \in 1..6 BY FilesAre
<1>. HIDE DEF plan
<1>3. Upto(plan, 0) = Nowhere BY <1>2 DEF Upto, Nowhere
<1>4. Upto(plan, 6) = plan BY <1>1, <1>2 DEF Upto
<1>5. \A n \in 0..6 : Upto(plan, n) \in [Files -> FileContents] BY <1>1, MarksAre DEF Upto
<1>6. \A n \in 0..6 : \A f \in Files : Upto(plan, n)[f] = IF Nth[f] <= n THEN plan[f] ELSE NoFile BY DEF Upto
<1>. QED BY <1>3, <1>4, <1>5, <1>6 DEF plan

LEMMA NthIs ==
  /\ Nth["settings"] = 1 /\ Nth["account"] = 2
  /\ \A f \in Files : Nth[f] <= 1 => f = "settings"
<1>1. /\ Nth["settings"] = 1 /\ Nth["account"] = 2 /\ Nth["credential"] = 3
      /\ Nth["blob"] = 4 /\ Nth["state"] = 5 /\ Nth["copied"] = 6
  BY FilesAre DEF Nth, Place
<1>. QED BY <1>1, FilesAre

LEMMA MaterializedIs ==
  ASSUME NEW d \in Store, NEW plan \in [Files -> FileContents], NEW n \in 0..6, NEW k \in 0..6,
         d.files = Upto(plan, n)
  PROVE  /\ Materialized(d, plan, k) \in Store
         /\ Materialized(d, plan, k).files = Upto(plan, IF n > k THEN n ELSE k)
         /\ Materialized(d, plan, k).retired = (IF k >= 5 THEN d.flat["credential"] = 0 ELSE d.retired)
         /\ Materialized(d, plan, k).flat = d.flat /\ Materialized(d, plan, k).journal = d.journal
         /\ Materialized(d, plan, k).intent = d.intent
<1>. DEFINE files == [f \in Files |-> IF d.files[f] = NoFile /\ (\E i \in 1..k : Order[i] = f) THEN plan[f] ELSE d.files[f]]
            retired == IF k >= 5 THEN d.flat["credential"] = 0 ELSE d.retired
<1>1. Materialized(d, plan, k) = [d EXCEPT !.files = files, !.retired = retired] BY DEF Materialized
<1>2. \A f \in Files : Nth[f] \in 1..6 /\ ((\E i \in 1..k : Order[i] = f) <=> Nth[f] <= k) BY FilesAre
<1>3. \A f \in Files : d.files[f] = IF Nth[f] <= n THEN plan[f] ELSE NoFile BY DEF Upto
<1>4. ASSUME NEW f \in Files PROVE files[f] = Upto(plan, IF n > k THEN n ELSE k)[f]
  BY <1>2, <1>3 DEF Upto
<1>5. files = Upto(plan, IF n > k THEN n ELSE k)
  <2>1. files = [f \in Files |-> files[f]] OBVIOUS
  <2>2. Upto(plan, IF n > k THEN n ELSE k) = [f \in Files |-> Upto(plan, IF n > k THEN n ELSE k)[f]] BY DEF Upto
  <2>. HIDE DEF files
  <2>. QED BY <1>4, <2>1, <2>2
<1>6. files \in [Files -> FileContents] /\ retired \in BOOLEAN BY DEF Store
<1>. HIDE DEF files, retired
<1>7. Materialized(d, plan, k).retired = retired BY <1>1, <1>6 DEF Store
<1>8. Materialized(d, plan, k) \in Store /\ Materialized(d, plan, k).files = files BY <1>1, <1>6 DEF Store
<1>. QED BY <1>1, <1>5, <1>6, <1>7, <1>8 DEF Store, retired

\* The stores of a plan's build, from what an earlier build left.
LEMMA PreparedGoes ==
  ASSUME NEW d \in Store, NEW l \in Flat, builds \in 0..MaxFailures, PreparedAt(d, l, builds), NEW e \in ResumesPrepared(d)
  PROVE  GoesOnTo(d, l, e)
<1>. DEFINE plan == DestinationPlan(l, builds + 1)
            built == Materialized(d, plan, 6)
            committed == [built EXCEPT !.journal.state = "committed", !.journal.files = plan]
<1>1. MaxFailures \in Nat /\ builds + 1 \in 0..MaxFailures + 1 /\ builds \in Nat BY MigrationAssumption
<1>2. /\ d.journal.state = "prepared" /\ d.journal.sources = l /\ d.flat = l /\ ~d.intent
      /\ Movable(l) /\ l["settings"] # 0 /\ l["owner"] = 0
  BY DEF PreparedAt, Movable
<1>3. PICK n \in 0..6, s \in 0..builds : /\ n > 0 => s > 0
                                         /\ d.files = Upto(DestinationPlan(l, s), n)
                                         /\ d.retired = (n >= 5 /\ l["credential"] = 0)
  BY DEF PreparedAt
<1>4. plan \in [Files -> FileContents] BY <1>1, MarksAre
<1>5. plan["settings"] # NoFile /\ plan["account"] # NoFile /\ plan["account"].stamp = builds + 1
  <2>1. builds + 1 # 0 BY <1>1
  <2>. QED BY <1>1, <1>2, <2>1, PlanIs
<1>6. \A f \in Files : d.files[f] = IF Nth[f] <= n THEN DestinationPlan(l, s)[f] ELSE NoFile
  BY <1>3 DEF Upto
<1>7. e \in IF \E f \in Files : d.files[f] \notin {NoFile, plan[f]} THEN EndsAt(d, "conflict")
            ELSE (UNION {CutOff(Materialized(d, plan, k)) : k \in 0..6}) \cup CutOff(committed) \cup ResumesCommitted(committed)
  <2>1. Len(Order) = 6 BY FilesAre
  <2>. QED BY <1>2, <2>1 DEF ResumesPrepared
<1>8. "settings" \in Files /\ "account" \in Files BY FilesAre
<1>9. n >= 2 => d.files["account"] # NoFile /\ d.files["account"].stamp = s /\ s \in 1..builds
  <2>1. DestinationPlan(l, s)["account"].stamp = s /\ (s # 0 => DestinationPlan(l, s)["account"] # NoFile)
    BY <1>1, PlanIs
  <2>. QED BY <1>3, <1>6, <1>8, <2>1, NthIs
<1>10. n <= 1 => \A f \in Files : d.files[f] = IF Nth[f] <= n THEN plan[f] ELSE NoFile
  <2>1. DestinationPlan(l, s)["settings"] = plan["settings"] BY <1>1, SettingsPlan
  <2>2. n <= 1 => \A f \in Files : Nth[f] <= n => f = "settings"
    <3>1. \A f \in Files : Nth[f] \in 1..6 BY FilesAre
    <3>. QED BY <3>1, NthIs
  <2>. HIDE DEF plan
  <2>. QED BY <1>6, <2>1, <2>2
<1>11. CASE \E f \in Files : d.files[f] \notin {NoFile, plan[f]}
  <2>1. e.store = d /\ e.end = "conflict" BY <1>7, <1>11 DEF EndsAt
  <2>2. n >= 2 BY <1>10, <1>11
  <2>3. d.files["account"].stamp \in 1..builds BY <1>9, <2>2
  <2>. QED BY <2>1, <2>3 DEF GoesOnTo, Conflicting
<1>12. CASE ~(\E f \in Files : d.files[f] \notin {NoFile, plan[f]})
  <2>1. n <= 1
    <3>. SUFFICES ASSUME n >= 2 PROVE FALSE OBVIOUS
    <3>1. d.files["account"] # NoFile /\ d.files["account"].stamp = s /\ s \in 1..builds BY <1>9
    <3>2. d.files["account"] \in {NoFile, plan["account"]} BY <1>8, <1>12
    <3>. HIDE DEF plan
    <3>. QED BY <1>1, <1>5, <3>1, <3>2
  <2>2. d.files = Upto(plan, n)
    <3>1. d.files = [f \in Files |-> d.files[f]] BY DEF Store
    <3>. HIDE DEF plan
    <3>. QED BY <1>10, <2>1, <3>1 DEF Upto
  <2>3. ~d.retired
    <3>1. ~(n >= 5) BY <2>1
    <3>. QED BY <1>3, <3>1
  <2>4. ASSUME NEW k \in 0..6
        PROVE  /\ Materialized(d, plan, k) \in Store
               /\ Materialized(d, plan, k).files = Upto(plan, IF n > k THEN n ELSE k)
               /\ Materialized(d, plan, k).retired = (k >= 5 /\ l["credential"] = 0)
               /\ Materialized(d, plan, k).flat = l /\ Materialized(d, plan, k).journal = d.journal
               /\ ~Materialized(d, plan, k).intent
    <3>. HIDE DEF plan
    <3>. DEFINE x == Materialized(d, plan, k)
    <3>1. /\ x \in Store /\ x.files = Upto(plan, IF n > k THEN n ELSE k)
          /\ x.retired = (IF k >= 5 THEN d.flat["credential"] = 0 ELSE d.retired)
          /\ x.flat = d.flat /\ x.journal = d.journal /\ x.intent = d.intent
      BY <1>4, <2>2, MaterializedIs
    <3>. HIDE DEF x
    <3>2. x.retired = (k >= 5 /\ l["credential"] = 0)
      <4>1. CASE k >= 5
        <5>1. x.retired = (l["credential"] = 0) BY <1>2, <3>1, <4>1
        <5>. QED BY <4>1, <5>1
      <4>2. CASE ~(k >= 5)
        <5>1. x.retired = d.retired /\ d.retired \in BOOLEAN BY <3>1, <4>2 DEF Store
        <5>2. x.retired = FALSE BY <2>3, <5>1
        <5>. QED BY <4>2, <5>2
      <4>. QED BY <4>1, <4>2
    <3>3. x.flat = l /\ x.journal = d.journal /\ ~x.intent BY <1>2, <3>1
    <3>. QED BY <3>1, <3>2, <3>3 DEF x
  <2>5. ASSUME NEW k \in 0..6, k > n PROVE Upto(plan, k) # d.files
    <3>1. \A f \in Files : Upto(plan, k)[f] = IF Nth[f] <= k THEN plan[f] ELSE NoFile BY DEF Upto
    <3>2. plan["settings"] # NoFile /\ plan["account"] # NoFile BY <1>5
    <3>. HIDE DEF plan
    <3>3. CASE n = 0
      <4>1. Upto(plan, k)["settings"] # NoFile /\ d.files["settings"] = NoFile
        BY <1>8, <1>10, <2>1, <2>5, <3>1, <3>2, <3>3, NthIs
      <4>. QED BY <4>1
    <3>4. CASE n = 1
      <4>1. Upto(plan, k)["account"] # NoFile /\ d.files["account"] = NoFile
        BY <1>8, <1>10, <2>1, <2>5, <3>1, <3>2, <3>4, NthIs
      <4>. QED BY <4>1
    <3>. QED BY <2>1, <3>3, <3>4
  <2>6. ASSUME NEW k \in 0..6 PROVE GoesOnTo(d, l, [store |-> Materialized(d, plan, k), end |-> "cut"])
    <3>. DEFINE x == Materialized(d, plan, k)
                ends == [store |-> x, end |-> "cut"]
                c == Count(d, ends)
    <3>3. ends.store = x /\ ends.end = "cut" OBVIOUS
    <3>1. CASE k <= n
      <4>1. x.files = d.files /\ x.retired = d.retired
        <5>. HIDE DEF plan
        <5>1. (IF n > k THEN n ELSE k) = n BY <3>1
        <5>2. x.files = d.files BY <2>2, <2>4, <5>1
        <5>3. ~(k >= 5) BY <2>1, <3>1
        <5>4. x.retired = FALSE BY <2>4, <5>3
        <5>5. d.retired \in BOOLEAN BY DEF Store
        <5>. QED BY <2>3, <5>2, <5>4, <5>5
      <4>2. c = builds BY <1>1, <4>1 DEF Count
      <4>3. PreparedAt(x, l, builds)
        <5>. HIDE DEF plan, x
        <5>1. x.flat = l /\ x.journal = d.journal /\ ~x.intent BY <2>4 DEF x
        <5>. QED BY <1>2, <1>3, <4>1, <5>1 DEF PreparedAt
      <4>4. x \in Store BY <2>4
      <4>. HIDE DEF x, ends
      <4>5. GoesOnTo(d, l, ends) BY <3>3, <4>2, <4>3, <4>4 DEF GoesOnTo
      <4>. QED BY <4>5 DEF x, ends
    <3>2. CASE k > n
      <4>1. x.files = Upto(plan, k) BY <2>4, <3>2
      <4>2. c = builds + 1 BY <2>5, <3>2, <4>1 DEF Count
      <4>3. PreparedAt(x, l, builds + 1)
        <5>1. x.flat = l /\ x.journal = d.journal /\ ~x.intent /\ x.retired = (k >= 5 /\ l["credential"] = 0) BY <2>4
        <5>2. builds + 1 \in 0..builds + 1 /\ builds + 1 > 0 BY <1>1
        <5>. HIDE DEF x
        <5>. QED BY <1>2, <4>1, <5>1, <5>2 DEF PreparedAt
      <4>4. x \in Store BY <2>4
      <4>. HIDE DEF x, ends
      <4>5. GoesOnTo(d, l, ends) BY <3>3, <4>2, <4>3, <4>4 DEF GoesOnTo
      <4>. QED BY <4>5 DEF x, ends
    <3>. QED BY <3>1, <3>2
  <2>7. /\ built \in Store /\ built.files = plan /\ built.flat = l /\ built.journal = d.journal /\ ~built.intent
        /\ built.retired = (l["credential"] = 0)
    <3>1. Upto(plan, 6) = plan BY <1>1, UptoIs
    <3>. HIDE DEF plan
    <3>. QED BY <2>1, <2>4, <3>1
  <2>8. /\ committed \in Store /\ committed.files = plan /\ committed.flat = l /\ ~committed.intent
        /\ committed.retired = (l["credential"] = 0) /\ committed.journal.state = "committed"
        /\ committed.journal.sources = l /\ committed.journal.files = plan
    <3>. HIDE DEF plan, built
    <3>1. d.journal \in MigrationJournals BY DEF Store
    <3>2. [d.journal EXCEPT !.state = "committed", !.files = plan] \in MigrationJournals BY <1>4, <3>1 DEF MigrationJournals
    <3>3. committed = [built EXCEPT !.journal = [d.journal EXCEPT !.state = "committed", !.files = plan]]
      BY <2>7, <3>1 DEF Store, MigrationJournals
    <3>4. /\ [d.journal EXCEPT !.state = "committed", !.files = plan].state = "committed"
          /\ [d.journal EXCEPT !.state = "committed", !.files = plan].files = plan
          /\ [d.journal EXCEPT !.state = "committed", !.files = plan].sources = l
      BY <1>2, <3>1 DEF MigrationJournals
    <3>. HIDE DEF committed
    <3>. QED BY <2>7, <3>2, <3>3, <3>4 DEF Store
  <2>9. CommittedAt(committed, l, builds + 1)
    <3>1. RemovedFrom(l, 0) = l BY RemovedIs
    <3>2. builds + 1 \in 1..builds + 1 BY <1>1
    <3>. HIDE DEF committed
    <3>. QED BY <1>2, <2>8, <3>1, <3>2 DEF CommittedAt
  <2>10. plan # d.files
    <3>1. Upto(plan, 6) = plan BY <1>1, UptoIs
    <3>. QED BY <2>1, <2>5, <3>1
  <2>11. ASSUME NEW x, x.store \in Store, x.store.files = plan,
                \/ x.end = "cut" /\ CommittedAt(x.store, l, builds + 1)
                \/ x.end \in {"cut", "done"} /\ Moved(x.store, l, FALSE) /\ ~x.store.intent
         PROVE  GoesOnTo(d, l, x)
    <3>1. Count(d, x) = builds + 1 BY <2>10, <2>11 DEF Count
    <3>. HIDE DEF plan
    <3>. QED BY <2>11, <3>1 DEF GoesOnTo
  <2>. HIDE DEF plan, committed, built
  <2>12. ASSUME e \in UNION {CutOff(Materialized(d, plan, k)) : k \in 0..6} PROVE GoesOnTo(d, l, e)
    <3>1. PICK k \in 0..6 : e = [store |-> Materialized(d, plan, k), end |-> "cut"] BY <2>12 DEF CutOff, EndsAt
    <3>. QED BY <2>6, <3>1
  <2>13. ASSUME e \in CutOff(committed) PROVE GoesOnTo(d, l, e)
    <3>1. e.store = committed /\ e.end = "cut" BY <2>13 DEF CutOff, EndsAt
    <3>. QED BY <2>8, <2>9, <2>11, <3>1
  <2>14. ASSUME e \in ResumesCommitted(committed) PROVE GoesOnTo(d, l, e)
    <3>1. /\ e.store \in Store /\ e.store.files = committed.files
          /\ \/ e.end = "cut" /\ CommittedAt(e.store, l, builds + 1)
             \/ e.end \in {"cut", "done"} /\ Moved(e.store, l, FALSE) /\ ~e.store.intent
      BY <1>1, <2>8, <2>9, <2>14, ResumesCommittedGoes
    <3>. QED BY <2>8, <2>11, <3>1
  <2>15. \/ e \in UNION {CutOff(Materialized(d, plan, k)) : k \in 0..6}
         \/ e \in CutOff(committed) \/ e \in ResumesCommitted(committed)
    BY <1>7, <1>12
  <2>. QED BY <2>12, <2>13, <2>14, <2>15
<1>. QED BY <1>11, <1>12

\* A migration that begins with a flat installation.
LEMMA PreparesGoes ==
  ASSUME NEW d \in Store, NEW l \in Flat, builds \in 0..MaxFailures, Untouched(d, l), Movable(l), NEW e \in Prepares(d)
  PROVE  GoesOnTo(d, l, e) /\ e.end \in {"cut", "done"}
<1>. DEFINE journal == [state |-> "prepared", sources |-> d.flat, files |-> Nowhere]
            torn == [d EXCEPT !.journal.state = "torn"]
            opened == [d EXCEPT !.journal = journal]
<1>1. d.files = Nowhere /\ d.flat = l /\ ~d.retired /\ ~d.intent /\ d.journal = NoMigration BY DEF Untouched, FlatOnly
<1>2. builds \in Nat OBVIOUS
<1>3. journal \in MigrationJournals /\ [NoMigration EXCEPT !.state = "torn"] \in MigrationJournals BY <1>1, MarksAre DEF MigrationJournals
<1>4. torn \in Store /\ TornAt(torn, l) /\ torn.files = d.files
  <2>1. torn = [d EXCEPT !.journal = [NoMigration EXCEPT !.state = "torn"]] BY <1>1 DEF Store
  <2>. HIDE DEF torn
  <2>. QED BY <1>1, <1>3, <2>1 DEF Store, TornAt, FlatOnly
<1>5. opened \in Store /\ PreparedAt(opened, l, builds) /\ opened.files = d.files
  <2>1. /\ opened \in Store /\ opened.files = Nowhere /\ opened.flat = l /\ ~opened.retired /\ ~opened.intent
        /\ opened.journal = journal
    <3>. HIDE DEF journal
    <3>. QED BY <1>1, <1>3 DEF Store
  <2>2. journal.state = "prepared" /\ journal.sources = l BY <1>1
  <2>3. Upto(DestinationPlan(l, 0), 0) = Nowhere
    <3>1. 0 \in 0..MaxFailures + 1 BY MigrationAssumption
    <3>. QED BY <3>1, UptoIs
  <2>4. 0 \in 0..builds BY <1>2
  <2>. HIDE DEF opened, journal
  <2>5. \E n \in 0..6, s \in 0..builds : /\ n > 0 => s > 0
                                         /\ opened.files = Upto(DestinationPlan(l, s), n)
                                         /\ opened.retired = (n >= 5 /\ l["credential"] = 0)
    <3>1. opened.files = Upto(DestinationPlan(l, 0), 0) /\ opened.retired = (0 >= 5 /\ l["credential"] = 0) BY <2>1, <2>3 DEF Store
    <3>. QED BY <2>4, <3>1
  <2>. QED BY <1>1, <2>1, <2>2, <2>5 DEF PreparedAt
<1>6. e \in CutOff(d) \cup CutOff(torn) \cup CutOff(opened) \cup ResumesPrepared(opened) BY DEF Prepares
<1>. HIDE DEF journal, torn, opened
<1>7. CASE e \in CutOff(d)
  <2>1. e.store = d /\ e.end = "cut" BY <1>7 DEF CutOff, EndsAt
  <2>. QED BY <2>1 DEF GoesOnTo
<1>8. CASE e \in CutOff(torn)
  <2>1. e.store = torn /\ e.end = "cut" BY <1>8 DEF CutOff, EndsAt
  <2>. QED BY <1>4, <2>1 DEF GoesOnTo
<1>9. CASE e \in CutOff(opened)
  <2>1. e.store = opened /\ e.end = "cut" BY <1>9 DEF CutOff, EndsAt
  <2>2. Count(d, e) = builds BY <1>2, <1>5, <2>1 DEF Count
  <2>. QED BY <1>5, <2>1, <2>2 DEF GoesOnTo
<1>10. CASE e \in ResumesPrepared(opened)
  <2>1. GoesOnTo(opened, l, e) BY <1>5, <1>10, PreparedGoes
  <2>2. ~Conflicting(opened, l, builds)
    <3>1. opened.files["account"].stamp = 0 BY <1>1, <1>5, FilesAre DEF Nowhere, NoFile
    <3>. QED BY <1>2, <3>1 DEF Conflicting
  <2>3. Count(d, e) = Count(opened, e) BY <1>5 DEF Count
  <2>4. e.end \in {"cut", "done"} BY <2>1, <2>2 DEF GoesOnTo
  <2>. QED BY <1>5, <2>1, <2>2, <2>3, <2>4 DEF GoesOnTo
<1>. QED BY <1>6, <1>7, <1>8, <1>9, <1>10

\* What an interrupted build left stays in the way.
LEMMA ConflictStays ==
  ASSUME NEW d \in Store, NEW l \in Flat, builds \in 0..MaxFailures, Conflicting(d, l, builds), NEW e \in ResumesPrepared(d)
  PROVE  e = [store |-> d, end |-> "conflict"]
<1>. DEFINE plan == DestinationPlan(d.flat, builds + 1)
<1>1. d.flat = l /\ l["settings"] # 0 /\ d.journal.sources = l BY DEF Conflicting, PreparedAt, Movable
<1>2. plan["account"].stamp = builds + 1
  <2>1. builds + 1 \in 0..MaxFailures + 1 BY MigrationAssumption
  <2>. QED BY <1>1, <2>1, PlanIs
<1>3. d.files["account"].stamp \in 1..builds /\ builds \in Nat BY DEF Conflicting
<1>4. "account" \in Files BY FilesAre
<1>. HIDE DEF plan
<1>5. d.files["account"] \notin {NoFile, plan["account"]} BY <1>2, <1>3, NoFileIs
<1>6. \E f \in Files : d.files[f] \notin {NoFile, plan[f]} BY <1>4, <1>5
<1>7. ResumesPrepared(d) = EndsAt(d, "conflict") BY <1>1, <1>6 DEF ResumesPrepared, plan
<1>. QED BY <1>7 DEF EndsAt

-----------------------------------------------------------------------------
(* The start.                                                               *)

Migrates(d) ==
  CASE d.journal.state = "torn" -> EndsAt(d, "torn")
    [] d.journal.state = "prepared" -> ResumesPrepared(d)
    [] d.journal.state = "committed" -> ResumesCommitted(d)
    [] d.journal.state = "absent" -> IF Destined(d) THEN Then(Reconciles(d), BeginsMigration) ELSE BeginsMigration(d)
Serves(m) == IF Destined(m) THEN Reconciles(m) ELSE Finishes(m)

LEMMA InitializesIs ==
  ASSUME NEW d, NEW e \in Initializes(d)
  PROVE  \E x \in Migrates(d) : (x.end = "done" /\ e \in Serves(x.store)) \/ (x.end # "done" /\ e = x)
BY DEF Initializes, Migrates, Serves, Then

LEMMA ServesMoved ==
  ASSUME NEW d \in Store, NEW l, NEW r \in BOOLEAN, Moved(d, l, r), NEW e \in Serves(d)
  PROVE  /\ e.store \in Store /\ Moved(e.store, l, r) /\ e.end \in {"cut", "done"}
         /\ ~d.intent => e = [store |-> d, end |-> "done"]
<1>1. Destined(d) BY DEF Moved, Destined
<1>2. e \in Reconciles(d) BY <1>1 DEF Serves
<1>. QED BY <1>2, ReconcilesMoved

LEMMA InitializesGoes ==
  ASSUME NEW d \in Store, NEW l \in Flat, builds \in 0..MaxFailures,
         PreparedAt(d, l, builds) \/ (Untouched(d, l) /\ Movable(l)), NEW e \in Initializes(d)
  PROVE  GoesOnTo(d, l, e) /\ (Conflicting(d, l, builds) => e.end = "conflict")
<1>1. PICK x \in Migrates(d) : (x.end = "done" /\ e \in Serves(x.store)) \/ (x.end # "done" /\ e = x) BY InitializesIs
<1>2. GoesOnTo(d, l, x) /\ (Conflicting(d, l, builds) => x.end = "conflict")
  <2>1. CASE PreparedAt(d, l, builds)
    <3>1. d.journal.state = "prepared" BY <2>1 DEF PreparedAt
    <3>2. x \in ResumesPrepared(d) BY <3>1 DEF Migrates
    <3>. QED BY <2>1, <3>2, PreparedGoes, ConflictStays
  <2>2. CASE Untouched(d, l) /\ Movable(l)
    <3>1. d.journal.state = "absent" /\ d.files = Nowhere /\ d.flat = l
      BY <2>2, MarksAre DEF Untouched, FlatOnly
    <3>2. ~Destined(d) BY <3>1, FilesAre DEF Destined, Nowhere
    <3>3. x \in BeginsMigration(d) BY <3>1, <3>2 DEF Migrates
    <3>4. x \in Prepares(d) BY <2>2, <3>1, <3>2, <3>3 DEF BeginsMigration, Movable
    <3>5. ~Conflicting(d, l, builds) BY <3>1 DEF Conflicting, PreparedAt
    <3>. QED BY <2>2, <3>4, <3>5, PreparesGoes
  <2>. QED BY <2>1, <2>2
<1>3. CASE x.end # "done" BY <1>1, <1>2, <1>3
<1>4. CASE x.end = "done"
  <2>1. x.store \in Store /\ Moved(x.store, l, FALSE) /\ ~x.store.intent BY <1>2, <1>4 DEF GoesOnTo
  <2>2. e \in Serves(x.store) BY <1>1, <1>4
  <2>3. e = [store |-> x.store, end |-> "done"] BY <2>1, <2>2, ServesMoved
  <2>4. ~Conflicting(d, l, builds) BY <1>2, <1>4
  <2>. QED BY <2>1, <2>3, <2>4 DEF GoesOnTo
<1>. QED BY <1>3, <1>4

LEMMA InitializesCommitted ==
  ASSUME NEW d \in Store, NEW l \in Flat, NEW b \in 0..MaxFailures + 1, CommittedAt(d, l, b), NEW e \in Initializes(d)
  PROVE  /\ e.store \in Store /\ e.store.files = d.files
         /\ \/ e.end = "cut" /\ CommittedAt(e.store, l, b)
            \/ e.end \in {"cut", "done"} /\ Moved(e.store, l, FALSE)
<1>1. PICK x \in Migrates(d) : (x.end = "done" /\ e \in Serves(x.store)) \/ (x.end # "done" /\ e = x) BY InitializesIs
<1>2. d.journal.state = "committed" BY DEF CommittedAt
<1>3. x \in ResumesCommitted(d) BY <1>2 DEF Migrates
<1>4. /\ x.store \in Store /\ x.store.files = d.files
      /\ \/ x.end = "cut" /\ CommittedAt(x.store, l, b)
         \/ x.end \in {"cut", "done"} /\ Moved(x.store, l, FALSE) /\ ~x.store.intent
  BY <1>3, ResumesCommittedGoes
<1>5. CASE x.end # "done" BY <1>1, <1>4, <1>5
<1>6. CASE x.end = "done"
  <2>1. Moved(x.store, l, FALSE) /\ ~x.store.intent BY <1>4, <1>6
  <2>2. e = [store |-> x.store, end |-> "done"] BY <1>1, <1>4, <1>6, <2>1, ServesMoved
  <2>. QED BY <1>4, <2>1, <2>2
<1>. QED BY <1>5, <1>6

LEMMA InitializesTorn ==
  ASSUME NEW d \in Store, NEW l, TornAt(d, l), NEW e \in Initializes(d)
  PROVE  e = [store |-> d, end |-> "torn"]
<1>1. PICK x \in Migrates(d) : (x.end = "done" /\ e \in Serves(x.store)) \/ (x.end # "done" /\ e = x) BY InitializesIs
<1>2. d.journal.state = "torn" BY DEF TornAt, NoMigration
<1>3. x = [store |-> d, end |-> "torn"] BY <1>1, <1>2 DEF Migrates, EndsAt
<1>. QED BY <1>1, <1>3

LEMMA InitializesFlat ==
  ASSUME NEW d \in Store, NEW l \in Flat, Untouched(d, l), ~Movable(l), NEW e \in Initializes(d)
  PROVE  /\ e.store = d
         /\ \/ e.end = "orphan" /\ l["settings"] = 0 /\ l # Empty
            \/ e.end = "done" /\ l = Empty
            \/ e.end = "owner" /\ l["settings"] # 0 /\ l["owner"] # 0
<1>1. PICK x \in Migrates(d) : (x.end = "done" /\ e \in Serves(x.store)) \/ (x.end # "done" /\ e = x) BY InitializesIs
<1>2. d.journal.state = "absent" /\ d.files = Nowhere /\ d.flat = l BY MarksAre DEF Untouched, FlatOnly
<1>3. ~Destined(d) BY <1>2, FilesAre DEF Destined, Nowhere
<1>4. x \in BeginsMigration(d) BY <1>2, <1>3 DEF Migrates
<1>5. /\ x.store = d
      /\ \/ x.end = "orphan" /\ l["settings"] = 0 /\ l # Empty
         \/ x.end = "done" /\ l = Empty
         \/ x.end = "owner" /\ l["settings"] # 0 /\ l["owner"] # 0
  <2>1. CASE l["settings"] = 0 /\ l # Empty
    <3>1. x \in EndsAt(d, "orphan") BY <1>2, <1>4, <2>1 DEF BeginsMigration
    <3>. QED BY <2>1, <3>1 DEF EndsAt
  <2>2. CASE l["settings"] = 0 /\ l = Empty
    <3>1. x \in Finishes(d) BY <1>2, <1>4, <2>2 DEF BeginsMigration
    <3>. QED BY <2>2, <3>1 DEF Finishes, EndsAt
  <2>3. CASE l["settings"] # 0
    <3>1. l["owner"] # 0 BY <2>3 DEF Movable
    <3>2. x \in EndsAt(d, "owner") BY <1>2, <1>3, <1>4, <2>3, <3>1 DEF BeginsMigration
    <3>. QED BY <2>3, <3>1, <3>2 DEF EndsAt
  <2>. QED BY <2>1, <2>2, <2>3
<1>6. CASE x.end # "done" BY <1>1, <1>5, <1>6
<1>7. CASE x.end = "done"
  <2>1. e = [store |-> d, end |-> "done"] BY <1>1, <1>3, <1>5, <1>7 DEF Serves, Finishes, EndsAt
  <2>. QED BY <1>5, <1>7, <2>1
<1>. QED BY <1>6, <1>7

LEMMA InitializesMoved ==
  ASSUME NEW d \in Store, NEW l, NEW r \in BOOLEAN, Moved(d, l, r), NEW e \in Initializes(d)
  PROVE  e.store \in Store /\ Moved(e.store, l, r) /\ e.end \in {"cut", "done"}
<1>1. PICK x \in Migrates(d) : (x.end = "done" /\ e \in Serves(x.store)) \/ (x.end # "done" /\ e = x) BY InitializesIs
<1>2. d.journal.state = "absent" /\ Destined(d) BY MarksAre DEF Moved, Destined
<1>3. x \in Then(Reconciles(d), BeginsMigration) BY <1>2 DEF Migrates
<1>4. PICK y \in Reconciles(d) : (y.end = "done" /\ x \in BeginsMigration(y.store)) \/ (y.end # "done" /\ x = y)
  BY <1>3 DEF Then
<1>5. y.store \in Store /\ Moved(y.store, l, r) /\ y.end \in {"cut", "done"} BY ReconcilesMoved
<1>6. x.store = y.store /\ x.end \in {"cut", "done"}
  <2>1. CASE y.end # "done" BY <1>4, <1>5, <2>1
  <2>2. CASE y.end = "done"
    <3>1. y.store.flat = Empty /\ Empty["settings"] = 0 BY <1>5 DEF Moved, Empty, Sources
    <3>2. x \in Finishes(y.store) BY <1>4, <2>2, <3>1 DEF BeginsMigration
    <3>. QED BY <3>2 DEF Finishes, EndsAt
  <2>. QED BY <2>1, <2>2
<1>7. CASE x.end # "done" BY <1>1, <1>5, <1>6, <1>7
<1>8. CASE x.end = "done"
  <2>1. e \in Serves(x.store) /\ x.store \in Store /\ Moved(x.store, l, r) BY <1>1, <1>5, <1>6, <1>8
  <2>. QED BY <2>1, ServesMoved
<1>. QED BY <1>7, <1>8

-----------------------------------------------------------------------------
(* The actions.                                                             *)

\* A refused start is not one of a program that moved its files.
LEMMA RefusedBefore ==
  ASSUME MigrationInv
  PROVE  /\ Moved(storage, last, replaced) => refusal = ""
         /\ session # "off" => refusal = ""
         /\ CommittedAt(storage, last, builds) => refusal = ""
<1>1. CASE refusal = "" BY <1>1
<1>2. CASE refusal # ""
  <2>1. /\ session = "off"
        /\ TornAt(storage, last) \/ Conflicting(storage, last, builds) \/ Untouched(storage, last)
    BY <1>2 DEF MigrationInv, Refusal
  <2>2. ~CommittedAt(storage, last, builds)
    <3>1. TornAt(storage, last) => storage.journal.state = "torn" BY DEF TornAt, NoMigration
    <3>2. Untouched(storage, last) => storage.journal.state = "absent" BY DEF Untouched, NoMigration
    <3>3. Conflicting(storage, last, builds) => storage.journal.state = "prepared" BY DEF Conflicting, PreparedAt
    <3>. QED BY <2>1, <3>1, <3>2, <3>3 DEF CommittedAt
  <2>3. ~Moved(storage, last, replaced)
    <3>1. TornAt(storage, last) => storage.journal.state = "torn" BY DEF TornAt, NoMigration
    <3>2. Untouched(storage, last) => storage.files["settings"] = NoFile BY FilesAre DEF Untouched, FlatOnly, Nowhere
    <3>3. Conflicting(storage, last, builds) => storage.journal.state = "prepared" BY DEF Conflicting, PreparedAt
    <3>4. NoMigration.state = "absent" BY MarksAre
    <3>. QED BY <2>1, <3>1, <3>2, <3>3, <3>4 DEF Moved
  <2>. QED BY <2>1, <2>2, <2>3
<1>. QED BY <1>1, <1>2

\* Which authority the paths are chosen for, before the start.
LEMMA PreReadyIs ==
  /\ Moved(storage, last, replaced) => PreReadyMode(storage) = "profile-workspace"
  /\ Untouched(storage, last) => PreReadyMode(storage) = "legacy-flat"
  /\ TornAt(storage, last) => PreReadyMode(storage) = "legacy-flat"
  /\ PreparedAt(storage, last, builds) => PreReadyMode(storage) = "legacy-flat"
  /\ CommittedAt(storage, last, builds) => PreReadyMode(storage) = "legacy-flat"
<1>1. Moved(storage, last, replaced) => storage.journal.state = "absent" /\ Destined(storage)
  BY MarksAre DEF Moved, Destined
<1>2. Untouched(storage, last) => ~Destined(storage)
  BY FilesAre DEF Untouched, FlatOnly, Destined, Nowhere
<1>3. TornAt(storage, last) => storage.journal.state = "torn" BY DEF TornAt, NoMigration
<1>4. PreparedAt(storage, last, builds) => storage.journal.state = "prepared" BY DEF PreparedAt
<1>5. CommittedAt(storage, last, builds) => storage.journal.state = "committed" BY DEF CommittedAt
<1>. QED BY <1>1, <1>2, <1>3, <1>4, <1>5 DEF PreReadyMode

StartsWith(e) ==
  \/ e.end = "cut" /\ Fault /\ storage' = e.store /\ Built(e.store) /\ UNCHANGED <<last, refusal>>
  \/ e.end \notin {"cut", "done"} /\ Refused(e.end)
  \/ /\ e.end = "done" /\ PreReadyMode(storage) # Mode(e.store)
     /\ IF session = "relaunching" THEN Refused("relaunch loop")
        ELSE /\ storage' = e.store /\ session' = "relaunching" /\ refusal' = "" /\ Built(e.store)
             /\ UNCHANGED <<failures, last>>
  \/ /\ e.end = "done" /\ PreReadyMode(storage) = Mode(e.store)
     /\ \E d \in Booted(e.store) :
          /\ storage' = d /\ session' = Mode(d) /\ refusal' = ""
          /\ last' = (IF Destined(d) THEN last ELSE d.flat)
          /\ UNCHANGED <<failures, builds>>

LEMMA StartUpIs ==
  ASSUME StartUp
  PROVE  /\ session \in {"off", "relaunching"} /\ edits' = edits /\ replaced' = replaced
         /\ \E e \in Initializes(storage) : StartsWith(e)
BY DEF StartUp, StartsWith

LEMMA FaultIs ==
  ASSUME Typed, Fault
  PROVE  failures \in Nat /\ failures' \in 0..MaxFailures /\ failures' = failures + 1 /\ session' = "off"
<1>1. MaxFailures \in Nat BY MigrationAssumption
<1>. QED BY <1>1 DEF Typed, Fault, CanFail

LEMMA BuiltIs ==
  ASSUME NEW e, builds \in Nat, Built(e.store)
  PROVE  /\ builds' \in Nat /\ builds' <= builds + 1
         /\ PreReadyMode(storage) = "profile-workspace" \/ e.store.files = storage.files => builds' = builds
         /\ PreReadyMode(storage) = "legacy-flat" => builds' = Count(storage, e)
<1>1. CASE PreReadyMode(storage) = "profile-workspace" \/ e.store.files = storage.files
  <2>1. PreReadyMode(storage) = "profile-workspace" => PreReadyMode(storage) # "legacy-flat" OBVIOUS
  <2>2. builds' = builds + 0 BY <1>1, <2>1 DEF Built
  <2>3. e.store.files = storage.files => Count(storage, e) = builds + 0 BY DEF Count
  <2>. QED BY <1>1, <2>1, <2>2, <2>3
<1>2. CASE PreReadyMode(storage) # "profile-workspace" /\ e.store.files # storage.files
  <2>1. PreReadyMode(storage) = "legacy-flat" BY <1>2 DEF PreReadyMode
  <2>2. builds' = builds + 1 BY <1>2, <2>1 DEF Built
  <2>3. Count(storage, e) = builds + 1 BY <1>2 DEF Count
  <2>. QED BY <1>2, <2>2, <2>3
<1>. QED BY <1>1, <1>2

\* The numbers of the model.
LEMMA NumbersAre ==
  ASSUME MigrationInv
  PROVE  /\ builds \in Nat /\ failures \in Nat /\ edits \in Nat /\ MaxFailures \in Nat /\ MaxEdits \in Nat
         /\ builds <= failures + 1 /\ failures <= MaxFailures /\ edits <= MaxEdits
BY MigrationAssumption DEF MigrationInv, Typed

LEMMA StartsMoved ==
  ASSUME MigrationInv, Moved(storage, last, replaced), StartUp
  PROVE  MigrationInv'
<1>1. Typed /\ storage \in Store /\ replaced \in BOOLEAN /\ builds \in Nat /\ builds <= failures + 1 /\ failures \in Nat
  BY MigrationAssumption DEF MigrationInv, Typed
<1>2. refusal = "" /\ PreReadyMode(storage) = "profile-workspace" BY RefusedBefore, PreReadyIs
<1>3. PICK e \in Initializes(storage) : StartsWith(e) BY StartUpIs
<1>4. e.store \in Store /\ Moved(e.store, last, replaced) /\ e.end \in {"cut", "done"} BY <1>1, <1>3, InitializesMoved
<1>5. Destined(e.store) /\ Mode(e.store) = "profile-workspace" BY <1>4 DEF Moved, Destined, Mode
<1>6. edits' = edits /\ replaced' = replaced BY StartUpIs
<1>7. CASE e.end = "cut" /\ Fault /\ storage' = e.store /\ Built(e.store) /\ UNCHANGED <<last, refusal>>
  <2>1. builds' = builds BY <1>2, <1>7, BuiltIs, NumbersAre
  <2>2. failures' \in 0..MaxFailures /\ failures' = failures + 1 /\ session' = "off" BY <1>1, <1>7, FaultIs
  <2>3. builds' \in Nat /\ builds' <= failures' + 1 BY <1>1, <2>1, <2>2
  <2>4. Typed' BY <1>1, <1>4, <1>6, <1>7, <2>2, <2>3 DEF Typed
  <2>5. Moved(storage, last, replaced)' BY <1>4, <1>6, <1>7 DEF Moved, Holds, Blob
  <2>. QED BY <1>2, <1>7, <2>2, <2>4, <2>5 DEF MigrationInv, Phase, Refusal
<1>8. CASE /\ e.end = "done"
           /\ \E d \in Booted(e.store) :
                /\ storage' = d /\ session' = Mode(d) /\ refusal' = ""
                /\ last' = (IF Destined(d) THEN last ELSE d.flat)
                /\ UNCHANGED <<failures, builds>>
  <2>1. /\ storage' = e.store /\ session' = "profile-workspace" /\ refusal' = "" /\ last' = last
        /\ failures' = failures /\ builds' = builds
    BY <1>5, <1>8 DEF Booted
  <2>2. Typed' BY <1>1, <1>4, <1>6, <2>1 DEF Typed
  <2>3. Moved(storage, last, replaced)' BY <1>4, <1>6, <2>1 DEF Moved, Holds, Blob
  <2>. QED BY <2>1, <2>2, <2>3 DEF MigrationInv, Phase, Refusal
<1>. QED BY <1>2, <1>3, <1>4, <1>5, <1>7, <1>8 DEF StartsWith

LEMMA StartsTorn ==
  ASSUME MigrationInv, TornAt(storage, last), session # "legacy-flat", StartUp
  PROVE  MigrationInv'
<1>1. Typed BY DEF MigrationInv
<1>2. PICK e \in Initializes(storage) : StartsWith(e) BY StartUpIs
<1>3. e.store = storage /\ e.end = "torn" BY <1>1, <1>2, InitializesTorn DEF Typed
<1>4. Refused("torn") BY <1>2, <1>3 DEF StartsWith
<1>5. edits' = edits /\ replaced' = replaced BY StartUpIs
<1>6. Typed' BY <1>1, <1>4, <1>5 DEF Typed, Refused
<1>7. TornAt(storage, last)' BY <1>4 DEF TornAt, FlatOnly, Refused
<1>8. ~replaced /\ builds <= failures
  <2>1. storage.journal.state = "torn" BY DEF TornAt, NoMigration
  <2>2. ~Moved(storage, last, replaced) /\ ~CommittedAt(storage, last, builds) BY <2>1, MarksAre DEF Moved, CommittedAt
  <2>. QED BY <2>2 DEF MigrationInv, Phase
<1>. QED BY <1>4, <1>5, <1>6, <1>7, <1>8 DEF MigrationInv, Phase, Refusal, Refused

LEMMA StartsCommitted ==
  ASSUME MigrationInv, CommittedAt(storage, last, builds), ~replaced, session = "off", StartUp
  PROVE  MigrationInv'
<1>1. /\ Typed /\ storage \in Store /\ last \in Flat /\ replaced \in BOOLEAN
      /\ builds \in Nat /\ builds <= failures + 1 /\ failures \in Nat
  BY MigrationAssumption DEF MigrationInv, Typed
<1>2. refusal = "" /\ PreReadyMode(storage) = "legacy-flat" BY RefusedBefore, PreReadyIs
<1>3. PICK e \in Initializes(storage) : StartsWith(e) BY StartUpIs
<1>4. /\ e.store \in Store /\ e.store.files = storage.files
      /\ \/ e.end = "cut" /\ CommittedAt(e.store, last, builds)
         \/ e.end \in {"cut", "done"} /\ Moved(e.store, last, FALSE)
  <2>1. builds \in 0..MaxFailures + 1 BY NumbersAre
  <2>. QED BY <1>1, <1>3, <2>1, InitializesCommitted
<1>5. edits' = edits /\ replaced' = replaced BY StartUpIs
<1>6. CASE e.end = "cut" /\ Fault /\ storage' = e.store /\ Built(e.store) /\ UNCHANGED <<last, refusal>>
  <2>1. builds' = builds BY <1>4, <1>6, BuiltIs, NumbersAre
  <2>2. failures' \in 0..MaxFailures /\ failures' = failures + 1 /\ session' = "off" BY <1>1, <1>6, FaultIs
  <2>3. builds' \in Nat /\ builds' <= failures' + 1 BY <1>1, <2>1, <2>2
  <2>4. Typed' BY <1>1, <1>4, <1>5, <1>6, <2>2, <2>3 DEF Typed
  <2>5. CASE CommittedAt(e.store, last, builds)
    <3>1. CommittedAt(storage, last, builds)' BY <1>6, <2>1, <2>5 DEF CommittedAt
    <3>. QED BY <1>2, <1>5, <1>6, <2>2, <2>4, <3>1 DEF MigrationInv, Phase, Refusal
  <2>6. CASE Moved(e.store, last, FALSE)
    <3>1. Moved(storage, last, replaced)' BY <1>5, <1>6, <2>6 DEF Moved, Holds, Blob
    <3>. QED BY <1>2, <1>6, <2>2, <2>4, <3>1 DEF MigrationInv, Phase, Refusal
  <2>. QED BY <1>4, <2>5, <2>6
<1>7. CASE e.end = "done"
  <2>1. Moved(e.store, last, FALSE) BY <1>4, <1>7
  <2>2. Mode(e.store) = "profile-workspace" BY <2>1 DEF Moved, Destined, Mode
  <2>3. /\ storage' = e.store /\ session' = "relaunching" /\ refusal' = "" /\ Built(e.store)
        /\ UNCHANGED <<failures, last>>
    BY <1>2, <1>3, <1>7, <2>2 DEF StartsWith
  <2>4. builds' = builds BY <1>4, <2>3, BuiltIs, NumbersAre
  <2>5. Typed' BY <1>1, <1>4, <1>5, <2>3, <2>4 DEF Typed
  <2>6. Moved(storage, last, replaced)' BY <1>5, <2>1, <2>3 DEF Moved, Holds, Blob
  <2>. QED BY <2>3, <2>5, <2>6 DEF MigrationInv, Phase, Refusal
<1>8. e.end \in {"cut", "done"} BY <1>4
<1>. QED BY <1>3, <1>6, <1>7, <1>8 DEF StartsWith

LEMMA StartsGoing ==
  ASSUME MigrationInv, PreparedAt(storage, last, builds) \/ (Untouched(storage, last) /\ Movable(last)),
         ~replaced, builds <= failures, session = "off", StartUp
  PROVE  MigrationInv'
<1>1. /\ Typed /\ storage \in Store /\ last \in Flat /\ replaced \in BOOLEAN
      /\ builds \in 0..MaxFailures /\ builds \in Nat /\ failures \in Nat /\ MaxFailures \in Nat
  BY MigrationAssumption DEF MigrationInv, Typed
<1>2. PreReadyMode(storage) = "legacy-flat" BY PreReadyIs
<1>3. PICK e \in Initializes(storage) : StartsWith(e) BY StartUpIs
<1>4. GoesOnTo(storage, last, e) /\ (Conflicting(storage, last, builds) => e.end = "conflict") BY <1>1, <1>3, InitializesGoes
<1>5. edits' = edits /\ replaced' = replaced BY StartUpIs
<1>12. replaced' = FALSE
  <2>1. replaced = FALSE BY <1>1
  <2>. QED BY <1>5, <2>1
<1>6. Built(e.store) => builds' = Count(storage, e) /\ builds' \in Nat /\ builds' <= builds + 1 BY <1>2, BuiltIs, NumbersAre
<1>7. refusal = "" \/ Conflicting(storage, last, builds)
  <2>1. PreparedAt(storage, last, builds) => storage.journal.state = "prepared" BY DEF PreparedAt
  <2>2. Untouched(storage, last) => storage.journal.state = "absent" BY MarksAre DEF Untouched
  <2>3. TornAt(storage, last) => storage.journal.state = "torn" BY DEF TornAt, NoMigration
  <2>. QED BY <2>1, <2>2, <2>3 DEF MigrationInv, Refusal, Movable
<1>8. CASE e.end = "cut" /\ Fault /\ storage' = e.store /\ Built(e.store) /\ UNCHANGED <<last, refusal>>
  <2>1. failures' \in 0..MaxFailures /\ failures' = failures + 1 /\ session' = "off" BY <1>1, <1>8, FaultIs
  <2>2. builds' = Count(storage, e) /\ builds' \in Nat /\ builds' <= failures' + 1 /\ builds' <= failures' BY <1>1, <1>6, <1>8, <2>1
  <2>3. refusal' = "" BY <1>4, <1>7, <1>8
  <2>4. e.store \in Store BY <1>4 DEF GoesOnTo
  <2>5. Typed' BY <1>1, <1>5, <1>8, <2>1, <2>2, <2>4 DEF Typed
  <2>6. \/ Untouched(e.store, last) \/ TornAt(e.store, last) \/ PreparedAt(e.store, last, Count(storage, e))
        \/ CommittedAt(e.store, last, Count(storage, e)) \/ Moved(e.store, last, FALSE)
    BY <1>4, <1>8 DEF GoesOnTo
  <2>7. \/ Untouched(storage', last') \/ TornAt(storage', last') \/ PreparedAt(storage', last', builds')
        \/ CommittedAt(storage', last', builds') \/ Moved(storage', last', replaced')
    BY <1>8, <1>12, <2>2, <2>6
  <2>. QED BY <1>5, <2>1, <2>2, <2>3, <2>5, <2>7 DEF MigrationInv, Phase, Refusal
<1>9. CASE e.end = "conflict"
  <2>1. Refused("conflict") BY <1>3, <1>9 DEF StartsWith
  <2>2. Conflicting(storage, last, builds) BY <1>4, <1>9 DEF GoesOnTo
  <2>3. Typed' BY <1>1, <1>5, <2>1 DEF Typed, Refused
  <2>4. Conflicting(storage', last', builds') /\ PreparedAt(storage', last', builds') BY <2>1, <2>2 DEF Refused, Conflicting
  <2>. QED BY <1>5, <2>1, <2>3, <2>4 DEF MigrationInv, Phase, Refusal, Refused
<1>10. CASE e.end = "done"
  <2>1. Moved(e.store, last, FALSE) /\ e.store \in Store BY <1>4, <1>10 DEF GoesOnTo
  <2>2. Mode(e.store) = "profile-workspace" BY <2>1 DEF Moved, Destined, Mode
  <2>3. /\ storage' = e.store /\ session' = "relaunching" /\ refusal' = "" /\ Built(e.store)
        /\ UNCHANGED <<failures, last>>
    BY <1>2, <1>3, <1>10, <2>2 DEF StartsWith
  <2>4. builds' \in Nat /\ builds' <= failures' + 1
    <3>1. failures' = failures /\ builds' \in Nat /\ builds' <= builds + 1 BY <1>6, <2>3
    <3>2. failures \in Nat /\ builds \in Nat BY NumbersAre
    <3>. QED BY <3>1, <3>2
  <2>5. Typed' BY <1>1, <1>5, <2>1, <2>3, <2>4 DEF Typed
  <2>6. Moved(storage', last', replaced') BY <1>12, <2>1, <2>3
  <2>. QED BY <2>3, <2>5, <2>6 DEF MigrationInv, Phase, Refusal
<1>11. e.end \in {"cut", "done", "conflict"} BY <1>4 DEF GoesOnTo
<1>. QED BY <1>3, <1>8, <1>9, <1>10, <1>11 DEF StartsWith

LEMMA StartsFlat ==
  ASSUME MigrationInv, Untouched(storage, last), ~Movable(last), ~replaced, builds <= failures,
         session = "off", StartUp
  PROVE  MigrationInv'
<1>1. Typed /\ storage \in Store /\ last \in Flat BY DEF MigrationInv, Typed
<1>2. PreReadyMode(storage) = "legacy-flat" BY PreReadyIs
<1>3. PICK e \in Initializes(storage) : StartsWith(e) BY StartUpIs
<1>4. /\ e.store = storage
      /\ \/ e.end = "orphan" /\ last["settings"] = 0 /\ last # Empty
         \/ e.end = "done" /\ last = Empty
         \/ e.end = "owner" /\ last["settings"] # 0 /\ last["owner"] # 0
  BY <1>1, <1>3, InitializesFlat
<1>5. edits' = edits /\ replaced' = replaced BY StartUpIs
<1>6. CASE e.end \in {"orphan", "owner"}
  <2>1. Refused(e.end) BY <1>3, <1>6 DEF StartsWith
  <2>2. Typed' BY <1>1, <1>5, <2>1 DEF Typed, Refused
  <2>3. Untouched(storage', last') BY <2>1 DEF Refused
  <2>. QED BY <1>4, <1>5, <1>6, <2>1, <2>2, <2>3 DEF MigrationInv, Phase, Refusal, Refused
<1>7. CASE e.end = "done"
  <2>1. ~Destined(storage) /\ Mode(storage) = "legacy-flat"
    BY FilesAre DEF Untouched, FlatOnly, Destined, Nowhere, Mode
  <2>2. PICK d \in Booted(storage) :
          /\ storage' = d /\ session' = Mode(d) /\ refusal' = ""
          /\ last' = (IF Destined(d) THEN last ELSE d.flat)
          /\ UNCHANGED <<failures, builds>>
    BY <1>2, <1>3, <1>4, <1>7, <2>1 DEF StartsWith
  <2>3. d \in Store /\ d.flat["owner"] \in {0, 1} /\ d.files = storage.files /\ d.journal = storage.journal /\ d.retired = storage.retired /\ d.intent = storage.intent
    <3>. DEFINE flat == [storage.flat EXCEPT !["copied"] = edits + 1]
    <3>1. flat \in Flat
      <4>1. edits + 1 \in 0..MaxEdits + 1 BY <1>1, MigrationAssumption DEF Typed
      <4>2. storage.flat \in Flat BY <1>1 DEF Store
      <4>. QED BY <4>1, <4>2 DEF Flat
    <3>3. storage.flat["owner"] \in {0, 1} /\ flat["owner"] = storage.flat["owner"]
      <4>1. storage.flat = last BY DEF Untouched, FlatOnly
      <4>. QED BY <1>1, <4>1 DEF Typed, Flat, Sources
    <3>2. d = storage \/ d = [storage EXCEPT !.flat = flat] BY <2>1, <2>2 DEF Booted
    <3>. HIDE DEF flat
    <3>. QED BY <1>1, <3>1, <3>2, <3>3 DEF Store
  <2>4. ~Destined(d) /\ Mode(d) = "legacy-flat" BY <2>1, <2>3 DEF Destined, Mode
  <2>5. Untouched(d, d.flat) BY <2>3 DEF Untouched, FlatOnly
  <2>6. d.flat \in Flat BY <2>3 DEF Store
  <2>7. Typed' BY <1>1, <1>5, <2>2, <2>3, <2>4, <2>6 DEF Typed
  <2>8. Untouched(storage', last') /\ session' = "legacy-flat" BY <2>2, <2>4, <2>5
  <2>. QED BY <1>5, <2>2, <2>7, <2>8 DEF MigrationInv, Phase, Refusal
<1>. QED BY <1>4, <1>6, <1>7

LEMMA StartUpInv == ASSUME MigrationInv, StartUp PROVE MigrationInv'
<1>1. session \in {"off", "relaunching"} BY StartUpIs
<1>2. CASE Moved(storage, last, replaced) BY <1>2, StartsMoved
<1>3. CASE ~replaced /\ session = "off" /\ CommittedAt(storage, last, builds) BY <1>3, StartsCommitted
<1>4. CASE session = "off" /\ TornAt(storage, last) BY <1>4, StartsTorn
<1>5. CASE ~replaced /\ builds <= failures /\ session = "off" /\ PreparedAt(storage, last, builds) BY <1>5, StartsGoing
<1>6. CASE ~replaced /\ builds <= failures /\ session = "off" /\ Untouched(storage, last)
  BY <1>6, StartsGoing, StartsFlat
<1>. QED BY <1>1, <1>2, <1>3, <1>4, <1>5, <1>6 DEF MigrationInv, Phase

\* In a session of the flat installation only its own files change.
LEMMA FlatSession ==
  ASSUME MigrationInv, session = "legacy-flat"
  PROVE  ~replaced /\ builds <= failures /\ Untouched(storage, last) /\ refusal = ""
BY RefusedBefore DEF MigrationInv, Phase

LEMMA FlatWrites ==
  ASSUME MigrationInv, session = "legacy-flat", NEW flat \in Flat, flat["owner"] \in {0, 1},
         storage' = [storage EXCEPT !.flat = flat], last' = storage'.flat
  PROVE  storage' \in Store /\ last' \in Flat /\ last'["owner"] \in {0, 1} /\ Untouched(storage', last')
<1>1. storage \in Store BY DEF MigrationInv, Typed
<1>2. /\ storage' \in Store /\ last' = flat /\ storage'.flat = flat /\ storage'.files = storage.files
      /\ storage'.journal = storage.journal /\ storage'.retired = storage.retired /\ storage'.intent = storage.intent
  BY <1>1 DEF Store
<1>3. Untouched(storage, last) BY FlatSession
<1>. QED BY <1>2, <1>3 DEF Untouched, FlatOnly

LEMMA EditInv == ASSUME MigrationInv, Edit PROVE MigrationInv'
<1>1. Typed /\ session = "legacy-flat" BY DEF MigrationInv, Edit
<1>2. PICK changed \in {{"settings"}, {"copied"}, {"settings", "credential"}} :
        storage' = [storage EXCEPT !.flat = [s \in Sources |-> IF s \in changed THEN edits + 2 ELSE @[s]]]
  BY DEF Edit
<1>. DEFINE flat == [s \in Sources |-> IF s \in changed THEN edits + 2 ELSE storage.flat[s]]
<1>3. edits + 2 \in 0..MaxEdits + 1 /\ edits' \in 0..MaxEdits BY <1>1, MigrationAssumption DEF Typed, Edit
<1>4. flat \in Flat BY <1>1, <1>3 DEF Flat, Typed, Store
<1>5. storage' = [storage EXCEPT !.flat = flat] BY <1>2
<1>9. storage.flat["owner"] \in {0, 1}
  <2>1. Untouched(storage, last) BY <1>1, FlatSession
  <2>. QED BY <1>1, <2>1 DEF Untouched, FlatOnly, Typed
<1>10. flat["owner"] \in {0, 1} BY <1>9 DEF Sources
<1>. HIDE DEF flat
<1>6. storage' \in Store /\ last' \in Flat /\ last'["owner"] \in {0, 1} /\ Untouched(storage', last')
  BY <1>1, <1>4, <1>5, <1>10, FlatWrites DEF Edit
<1>7. UNCHANGED <<session, failures, builds, replaced, refusal>> BY DEF Edit
<1>8. Typed' BY <1>1, <1>3, <1>6, <1>7 DEF Typed
<1>. QED BY <1>1, <1>6, <1>7, <1>8, FlatSession DEF MigrationInv, Phase, Refusal

LEMMA ConnectMigrationInv == ASSUME MigrationInv, Connect PROVE MigrationInv'
<1>1. Typed /\ session = "legacy-flat" BY DEF MigrationInv, Connect
<1>. DEFINE flat == [storage.flat EXCEPT !["owner"] = 1 - @]
<1>2. flat \in Flat /\ flat["owner"] \in {0, 1}
  <2>1. storage.flat \in Flat /\ "owner" \in Sources BY <1>1 DEF Typed, Store, Sources
  <2>2. Untouched(storage, last) BY <1>1, FlatSession
  <2>3. storage.flat["owner"] \in {0, 1} BY <1>1, <2>2 DEF Untouched, FlatOnly, Typed
  <2>4. 1 - storage.flat["owner"] \in {0, 1} /\ {0, 1} \subseteq 0..MaxEdits + 1 BY <2>3, MigrationAssumption
  <2>. QED BY <2>1, <2>4 DEF Flat
<1>3. storage' = [storage EXCEPT !.flat = flat] BY DEF Connect
<1>. HIDE DEF flat
<1>4. storage' \in Store /\ last' \in Flat /\ last'["owner"] \in {0, 1} /\ Untouched(storage', last')
  BY <1>1, <1>2, <1>3, FlatWrites DEF Connect
<1>5. UNCHANGED <<session, edits, failures, builds, replaced, refusal>> BY DEF Connect
<1>6. Typed' BY <1>1, <1>4, <1>5 DEF Typed
<1>. QED BY <1>1, <1>4, <1>5, <1>6, FlatSession DEF MigrationInv, Phase, Refusal

LEMMA MutateInv == ASSUME MigrationInv, Mutate PROVE MigrationInv'
<1>1. /\ Typed /\ session = "profile-workspace" /\ refusal = "" /\ storage \in Store /\ replaced \in BOOLEAN
      /\ builds \in Nat /\ builds <= failures + 1 /\ failures \in Nat
  BY RefusedBefore, NumbersAre DEF MigrationInv, Mutate, Typed
<1>2. Moved(storage, last, replaced) BY <1>1 DEF MigrationInv, Phase
<1>3. UNCHANGED <<builds, last, refusal>> /\ edits < MaxEdits BY DEF Mutate
<1>4. PICK e \in RetiresBlob(storage), to \in {0, edits + 2} :
       \/ /\ e.end = "done"
          /\ storage' = [e.store EXCEPT !.files["credential"] = [NoFile EXCEPT !.from = to]]
          /\ replaced' = TRUE /\ edits' = edits + 1
          /\ UNCHANGED <<session, failures>>
       \/ /\ e.end = "cut" /\ CanFail /\ failures' = failures + 1
          /\ storage' = e.store /\ session' \in {session, "off"} /\ UNCHANGED <<edits, replaced>>
  BY DEF Mutate
<1>5. /\ e.store \in Store /\ Moved(e.store, last, replaced)
      /\ e.end = "done" => e.store.retired /\ ~Blob(e.store)
  BY <1>1, <1>2, RetiresMoved
<1>6. CASE /\ e.end = "done"
           /\ storage' = [e.store EXCEPT !.files["credential"] = [NoFile EXCEPT !.from = to]]
           /\ replaced' = TRUE /\ edits' = edits + 1
           /\ UNCHANGED <<session, failures>>
  <2>. DEFINE new == [NoFile EXCEPT !.from = to]
              files == [e.store.files EXCEPT !["credential"] = new]
  <2>1. edits + 1 \in 0..MaxEdits /\ edits + 2 \in 0..MaxEdits + 1 /\ 0 \in 0..MaxEdits + 1
    BY <1>3, NumbersAre
  <2>2. new \in FileContents
    <3>1. new = [from |-> to, stamp |-> 0] BY DEF NoFile
    <3>2. 0 \in 0..MaxFailures + 1 BY MigrationAssumption
    <3>. QED BY <2>1, <3>1, <3>2 DEF FileContents
  <2>3. e.store.files \in [Files -> FileContents] BY <1>5 DEF Store
  <2>4. /\ files \in [Files -> FileContents]
        /\ \A f \in Files : f # "credential" => files[f] = e.store.files[f]
    <3>. HIDE DEF new
    <3>. QED BY <2>2, <2>3
  <2>5. storage' = [e.store EXCEPT !.files = files] BY <1>6
  <2>. HIDE DEF files, new
  <2>6. /\ storage' \in Store /\ storage'.files = files /\ storage'.flat = e.store.flat /\ storage'.journal = e.store.journal
        /\ storage'.retired = e.store.retired /\ storage'.intent = e.store.intent
    BY <1>5, <2>4, <2>5 DEF Store
  <2>7. \A f \in {"settings", "copied", "state", "blob"} : storage'.files[f] = e.store.files[f] BY <2>4, <2>6, FilesAre
  <2>8. Moved(storage', last', TRUE) BY <1>3, <1>5, <1>6, <2>6, <2>7 DEF Moved, Holds, Blob
  <2>9. Typed' BY <1>1, <1>3, <1>6, <2>1, <2>6 DEF Typed
  <2>. QED BY <1>1, <1>3, <1>6, <2>8, <2>9 DEF MigrationInv, Phase, Refusal
<1>7. CASE /\ e.end = "cut" /\ CanFail /\ failures' = failures + 1
           /\ storage' = e.store /\ session' \in {session, "off"} /\ UNCHANGED <<edits, replaced>>
  <2>1. failures' \in 0..MaxFailures /\ builds' \in Nat /\ builds' <= failures' + 1 BY <1>3, <1>7, NumbersAre DEF CanFail
  <2>2. Typed' BY <1>1, <1>3, <1>5, <1>7, <2>1 DEF Typed
  <2>3. Moved(storage', last', replaced') BY <1>3, <1>5, <1>7
  <2>. QED BY <1>1, <1>3, <1>7, <2>2, <2>3 DEF MigrationInv, Phase, Refusal
<1>. QED BY <1>4, <1>6, <1>7

LEMMA QuitMigrationInv == ASSUME MigrationInv, Quit PROVE MigrationInv'
<1>1. /\ Typed /\ session \in {"legacy-flat", "profile-workspace"} /\ refusal = "" /\ storage \in Store
      /\ UNCHANGED <<edits, builds, replaced, refusal>> /\ builds \in Nat /\ builds <= failures + 1 /\ failures \in Nat
  BY RefusedBefore, NumbersAre DEF MigrationInv, Quit, Typed
<1>2. CASE /\ session' = "off" /\ storage' = [storage EXCEPT !.flat["owner"] = 0] /\ last' = storage'.flat
           /\ UNCHANGED failures
  <2>. DEFINE flat == [storage.flat EXCEPT !["owner"] = 0]
  <2>1. flat \in Flat /\ flat["owner"] \in {0, 1}
    <3>1. 0 \in 0..MaxEdits + 1 BY MigrationAssumption
    <3>2. storage.flat \in Flat /\ "owner" \in Sources BY <1>1 DEF Store, Sources
    <3>. QED BY <3>1, <3>2 DEF Flat
  <2>2. storage' = [storage EXCEPT !.flat = flat] BY <1>2
  <2>3. CASE session = "legacy-flat"
    <3>. HIDE DEF flat
    <3>1. storage' \in Store /\ last' \in Flat /\ Untouched(storage', last') /\ last'["owner"] \in {0, 1}
      BY <1>2, <2>1, <2>2, <2>3, FlatWrites
    <3>2. Typed' BY <1>1, <1>2, <3>1 DEF Typed
    <3>3. ~replaced /\ builds <= failures BY <2>3, FlatSession
    <3>. QED BY <1>1, <1>2, <3>1, <3>2, <3>3 DEF MigrationInv, Phase, Refusal
  <2>4. CASE session = "profile-workspace"
    <3>1. Moved(storage, last, replaced) BY <2>4 DEF MigrationInv, Phase
    <3>2. flat = Empty
      <4>1. storage.flat = Empty BY <3>1 DEF Moved
      <4>. QED BY <4>1 DEF Empty
    <3>. HIDE DEF flat
    <3>3. /\ storage' \in Store /\ storage'.flat = Empty /\ last' = Empty /\ storage'.files = storage.files
          /\ storage'.journal = storage.journal /\ storage'.retired = storage.retired /\ storage'.intent = storage.intent
      BY <1>1, <1>2, <2>1, <2>2, <3>2 DEF Store
    <3>4. last' \in Flat /\ last'["owner"] \in {0, 1} BY <2>1, <3>2, <3>3
    <3>5. Typed' BY <1>1, <1>2, <3>3, <3>4 DEF Typed
    <3>6. Moved(storage', last', replaced') BY <1>1, <3>1, <3>3 DEF Moved, Blob
    <3>. QED BY <1>1, <1>2, <3>5, <3>6 DEF MigrationInv, Phase, Refusal
  <2>. QED BY <1>1, <2>3, <2>4
<1>3. CASE Fault /\ UNCHANGED <<storage, last>>
  <2>1. failures' \in 0..MaxFailures /\ failures' = failures + 1 /\ session' = "off" BY <1>1, <1>3, FaultIs
  <2>6. builds' = builds /\ failures' = failures + 1 BY <1>1, <2>1
  <2>2. builds' \in Nat /\ builds' <= failures' + 1 BY <2>6, NumbersAre
  <2>3. Typed' BY <1>1, <1>3, <2>1, <2>2 DEF Typed
  <2>4. CASE session = "legacy-flat"
    <3>1. ~replaced /\ builds <= failures /\ Untouched(storage', last') BY <1>3, <2>4, FlatSession
    <3>2. builds' <= failures' BY <1>1, <2>1, <3>1
    <3>. QED BY <1>1, <2>1, <2>3, <3>1, <3>2 DEF MigrationInv, Phase, Refusal
  <2>5. CASE session = "profile-workspace"
    <3>1. Moved(storage, last, replaced) BY <2>5 DEF MigrationInv, Phase
    <3>2. Moved(storage', last', replaced') BY <1>1, <1>3, <3>1
    <3>. QED BY <1>1, <2>1, <2>3, <3>2 DEF MigrationInv, Phase, Refusal
  <2>. QED BY <1>1, <2>4, <2>5
<1>. QED BY <1>2, <1>3 DEF Quit

-----------------------------------------------------------------------------
(* The theorem.                                                             *)

LEMMA MigrationInitInv == ASSUME MigrationInit PROVE MigrationInv
<1>1. PICK flat \in [Sources -> 0..1] :
        /\ storage = [flat |-> flat, files |-> Nowhere, journal |-> NoMigration, retired |-> FALSE, intent |-> FALSE]
        /\ last = flat
  BY DEF MigrationInit
<1>2. flat \in Flat /\ flat["owner"] \in {0, 1}
  <2>1. \A x \in 0..1 : x \in 0..MaxEdits + 1 /\ x \in {0, 1} BY MigrationAssumption
  <2>. QED BY <2>1 DEF Flat, Sources
<1>3. storage \in Store /\ Untouched(storage, last) BY <1>1, <1>2, MarksAre DEF Store, Untouched, FlatOnly
<1>4. session = "off" /\ edits = 0 /\ failures = 0 /\ builds = 0 /\ replaced = FALSE /\ refusal = "" BY DEF MigrationInit
<1>5. Typed
  <2>1. MaxEdits \in Nat /\ MaxFailures \in Nat BY MigrationAssumption
  <2>2. 0 \in 0..MaxEdits /\ 0 \in 0..MaxFailures /\ 0 \in Nat /\ 0 <= 0 + 1 BY <2>1
  <2>3. replaced \in BOOLEAN BY <1>4
  <2>. QED BY <1>1, <1>2, <1>3, <1>4, <2>2, <2>3 DEF Typed
<1>6. ~replaced /\ builds <= failures /\ session \in {"off", "legacy-flat"}
  <2>1. 0 <= 0 OBVIOUS
  <2>. QED BY <1>4, <2>1
<1>. QED BY <1>3, <1>4, <1>5, <1>6 DEF MigrationInv, Phase, Refusal

LEMMA MigrationStepInv == ASSUME MigrationInv, [MigrationNext]_migrationVars PROVE MigrationInv'
<1>1. CASE UNCHANGED migrationVars
  <2>1. /\ storage' = storage /\ session' = session /\ edits' = edits /\ failures' = failures /\ builds' = builds
        /\ last' = last /\ replaced' = replaced /\ refusal' = refusal
    BY <1>1 DEF migrationVars
  <2>2. Typed' BY <2>1 DEF MigrationInv, Typed
  <2>3. Phase' BY <2>1 DEF MigrationInv, Phase
  <2>4. Refusal' BY <2>1 DEF MigrationInv, Refusal
  <2>. QED BY <2>2, <2>3, <2>4 DEF MigrationInv
<1>2. CASE MigrationNext
  BY <1>2, StartUpInv, EditInv, ConnectMigrationInv, MutateInv, QuitMigrationInv DEF MigrationNext
<1>. QED BY <1>1, <1>2

LEMMA AuthorityIsOne == ASSUME MigrationInv PROVE OneAuthority
BY DEF MigrationInv, Phase, Moved, Untouched, FlatOnly, OneAuthority

LEMMA FlatFilesKept == ASSUME MigrationInv PROVE NothingLost /\ SettingsLast
<1>1. CASE Moved(storage, last, replaced)
  <2>1. NoMigration.state = "absent" BY MarksAre
  <2>2. storage.journal.state = "absent" /\ storage.flat = Empty /\ (last = Empty \/ Holds(storage, last, replaced))
    BY <1>1, <2>1 DEF Moved
  <2>. QED BY <2>2 DEF NothingLost, SettingsLast, Holds
<1>2. CASE Untouched(storage, last) \/ TornAt(storage, last) \/ PreparedAt(storage, last, builds)
  <2>1. storage.flat = last BY <1>2 DEF Untouched, TornAt, FlatOnly, PreparedAt
  <2>2. storage.journal.state # "committed" BY <1>2, MarksAre DEF Untouched, TornAt, NoMigration, PreparedAt
  <2>. QED BY <2>1, <2>2 DEF NothingLost, SettingsLast
<1>3. CASE CommittedAt(storage, last, builds)
  <2>1. last \in Flat BY DEF MigrationInv, Typed
  <2>2. PICK n \in 0..3 : storage.flat = RemovedFrom(last, n) BY <1>3 DEF CommittedAt
  <2>3. PICK s \in 1..builds : storage.files = DestinationPlan(last, s) BY <1>3 DEF CommittedAt
  <2>4. last["settings"] # 0 /\ last["owner"] = 0 /\ storage.journal.state = "committed" BY <1>3 DEF CommittedAt, Movable
  <2>8. s \in 0..MaxFailures + 1 BY NumbersAre
  <2>5. storage.files["settings"].from = last["settings"] /\ storage.files["copied"].from = last["copied"]
    BY <2>1, <2>3, <2>8, PlanIs
  <2>6. storage.files["credential"].from = last["credential"] BY <2>1, <2>3, <2>8, PlanIs
  <2>7. SettingsLast BY <2>1, <2>2, <2>4, RemovedIs DEF SettingsLast
  <2>. QED BY <2>4, <2>5, <2>6, <2>7 DEF NothingLost
<1>. QED BY <1>1, <1>2, <1>3 DEF MigrationInv, Phase

LEMMA OldCredentialIsGone == ASSUME MigrationInv PROVE OldCredentialGone
<1>1. CASE Moved(storage, last, replaced) BY <1>1 DEF Moved, OldCredentialGone
<1>2. CASE ~replaced /\ (Untouched(storage, last) \/ TornAt(storage, last))
  <2>1. storage.files["state"] = NoFile BY <1>2, FilesAre DEF Untouched, TornAt, FlatOnly, Nowhere
  <2>. QED BY <1>2, <2>1 DEF OldCredentialGone
<1>3. CASE ~replaced /\ PreparedAt(storage, last, builds)
  BY <1>3 DEF PreparedAt, OldCredentialGone
<1>4. CASE ~replaced /\ CommittedAt(storage, last, builds)
  <2>1. last \in Flat BY DEF MigrationInv, Typed
  <2>2. PICK s \in 1..builds : storage.files = DestinationPlan(last, s) BY <1>4 DEF CommittedAt
  <2>6. s \in 0..MaxFailures + 1 BY NumbersAre
  <2>3. storage.files["blob"] = NoFile <=> last["credential"] = 0 BY <2>1, <2>2, <2>6, PlanIs
  <2>4. storage.retired = (last["credential"] = 0) BY <1>4 DEF CommittedAt
  <2>5. ~storage.retired => Blob(storage) BY <2>3, <2>4 DEF Blob
  <2>. QED BY <1>4, <2>5 DEF OldCredentialGone
<1>. QED BY <1>1, <1>2, <1>3, <1>4 DEF MigrationInv, Phase

LEMMA RefusalHasCause == ASSUME MigrationInv PROVE RefusedForCause
<1>1. CASE refusal = "" BY <1>1 DEF RefusedForCause
<1>2. CASE refusal = "torn" /\ TornAt(storage, last)
  <2>1. storage.journal.state = "torn" BY <1>2 DEF TornAt, NoMigration
  <2>. QED BY <1>2, <2>1 DEF RefusedForCause
<1>3. CASE refusal = "conflict" /\ Conflicting(storage, last, builds)
  <2>1. storage.journal.state = "prepared" /\ storage.files["account"].stamp > 0 BY <1>3 DEF Conflicting, PreparedAt
  <2>. QED BY <1>3, <2>1 DEF RefusedForCause
<1>4. CASE refusal = "orphan" /\ Untouched(storage, last) /\ last["settings"] = 0
  <2>1. storage.files = Nowhere BY <1>4 DEF Untouched, FlatOnly
  <2>. QED BY <1>4, <2>1 DEF RefusedForCause
<1>5. CASE refusal = "owner" /\ last["owner"] # 0 BY <1>5 DEF RefusedForCause
<1>. QED BY <1>1, <1>2, <1>3, <1>4, <1>5 DEF MigrationInv, Refusal

LEMMA MigrationIsTyped == ASSUME MigrationInv PROVE MigrationTypeOK
<1>1. Typed BY DEF MigrationInv
<1>2. /\ storage.flat \in Flat /\ storage.files \in [Files -> FileContents]
      /\ storage.journal \in MigrationJournals /\ storage.retired \in BOOLEAN /\ storage.intent \in BOOLEAN
  BY <1>1 DEF Typed, Store
<1>3. /\ storage.journal.state \in {"absent", "torn", "prepared", "committed"}
      /\ storage.journal.sources \in Flat /\ storage.journal.files \in [Files -> FileContents]
  BY <1>2 DEF MigrationJournals
<1>4. builds \in 0..MaxFailures + 1 BY <1>1, MigrationAssumption DEF Typed
<1>5. refusal \in {"", "torn", "conflict", "orphan", "owner"} BY RefusalHasCause DEF RefusedForCause
<1>. QED BY <1>1, <1>2, <1>3, <1>4, <1>5 DEF MigrationTypeOK, Typed

(* Whatever write of the migration is the last one before a crash, one      *)
(* authority serves, nothing the user left is lost, the old credential is   *)
(* gone once it was replaced, and a start is refused only for its cause:     *)
(* ProfileWorkspaceMigrationCoordinator and LegacyCredentialRollbackStore.  *)
THEOREM MigrationCorrect == MigrationSpec => []MigrationSafety
<1>1. MigrationInit => MigrationInv BY MigrationInitInv
<1>2. MigrationInv /\ [MigrationNext]_migrationVars => MigrationInv' BY MigrationStepInv
<1>3. MigrationInv => MigrationSafety
  BY AuthorityIsOne, FlatFilesKept, OldCredentialIsGone, RefusalHasCause, MigrationIsTyped DEF MigrationSafety
<1>. QED BY <1>1, <1>2, <1>3, PTL DEF MigrationSpec
=============================================================================
