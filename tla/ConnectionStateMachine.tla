----------------------- MODULE ConnectionStateMachine -----------------------
(***************************************************************************)
(* The decisions of ConnectionStateMachine (desktop/lib/connection/state/  *)
(* connection-state-machine.js) and of planReconnect                       *)
(* (reconnect-policy.js), as operators on the snapshot record.             *)
(*                                                                         *)
(* A method that returns false and changes nothing is a guard operator     *)
(* (CanContinue, ReadyToConnect, ...) plus an operator that returns the    *)
(* snapshot after the method.  wasConnectedBeforeStop and                  *)
(* connectedUptimeBeforeStop are used by the code only as "the session was *)
(* connected for more than STABLE_SESSION_MS", which is the field stable.  *)
(***************************************************************************)
EXTENDS Naturals

CONSTANT MaxAttempts    \* settings.maxAttempts: the length of a retry burst

ASSUME MaxAttemptsAssumption == MaxAttempts \in Nat

NoGeneration == 0       \* engineGeneration === null

Phases == {"idle", "starting", "authenticating", "preparing-tunnel",
           "connected", "stopping", "retry-wait", "connectivity-paused"}

ReadinessPhases == {"preparing-tunnel", "connected"}

\* resolveEngineFailureKind (engine-output.js)
FailureKinds == {"terminal", "network-transient", "gateway-transient", "unknown"}

Snapshot == [intent   : Nat, desired  : BOOLEAN, userDisc : BOOLEAN,
             attempts : 0 .. MaxAttempts, phase : Phases, gen : Nat,
             candidate : BOOLEAN, listener : BOOLEAN, stable : BOOLEAN]

InitialSnapshot ==
  [intent |-> 0, desired |-> FALSE, userDisc |-> FALSE, attempts |-> 0,
   phase |-> "idle", gen |-> NoGeneration, candidate |-> FALSE,
   listener |-> FALSE, stable |-> FALSE]

-----------------------------------------------------------------------------
(* Guards *)

CanContinue(c, i) == i = c.intent /\ c.desired

\* Mutant: the intent the attempt was made for is not compared again.
CanAttemptAnyIntent(c, i) == c.desired /\ ~c.userDisc

CanAttempt(c, i) == CanContinue(c, i) /\ ~c.userDisc

\* isCurrentGeneration and the two conditions every engine event repeats
AcceptsEvents(c, g) ==
  /\ g # NoGeneration
  /\ g = c.gen
  /\ c.desired
  /\ ~c.userDisc

\* Mutant: the listener barrier is forgotten.
ReadyWithoutListener(c, g) ==
  AcceptsEvents(c, g) /\ c.phase \in ReadinessPhases /\ c.candidate

ReadyToConnect(c, g) ==
  /\ AcceptsEvents(c, g)
  /\ c.phase \in ReadinessPhases
  /\ c.candidate
  /\ c.listener

\* Mutant: an engine that is stopping may report progress again.
EnginePhaseAllowedWhileStopping(c, next) ==
  c.phase \in {"starting", "authenticating", "stopping"} /\ next # c.phase

\* The allowlist of markEnginePhase
EnginePhaseAllowed(c, next) ==
  \/ c.phase = "starting" /\ next \in {"authenticating", "preparing-tunnel"}
  \/ c.phase = "authenticating" /\ next = "preparing-tunnel"

-----------------------------------------------------------------------------
(* Methods *)

InvalidateEngineGeneration(c) ==
  [c EXCEPT !.gen = NoGeneration, !.candidate = FALSE, !.listener = FALSE,
            !.stable = FALSE]

BeginConnectIntent(c) == [c EXCEPT !.intent = @ + 1, !.desired = TRUE]

BeginConnectAttempt(c, isRetry) ==
  [c EXCEPT !.phase = "starting",
            !.attempts = IF isRetry THEN @ ELSE 0,
            !.userDisc = isRetry /\ @]

BeginStop(c, wantsConnected) ==
  InvalidateEngineGeneration(
    [c EXCEPT !.intent = @ + 1, !.desired = wantsConnected,
              !.userDisc = TRUE, !.phase = "stopping"])

StopCompleted(c, i, ok) ==
  IF i = c.intent /\ (~ok \/ ~c.desired) THEN [c EXCEPT !.phase = "idle"] ELSE c

\* resumeAfterStop and resumeConnectivity
Resume(c) == [c EXCEPT !.userDisc = FALSE, !.phase = "starting"]

\* Mutant: a pause that leaves the phase alone.
PauseKeepsPhase(c) == InvalidateEngineGeneration(c)

PauseForConnectivity(c) ==
  InvalidateEngineGeneration([c EXCEPT !.phase = "connectivity-paused"])

BindEngineGeneration(c, g) ==
  IF c.desired THEN [InvalidateEngineGeneration(c) EXCEPT !.gen = g] ELSE c

MarkEnginePhase(c, g, next) ==
  IF AcceptsEvents(c, g) /\ EnginePhaseAllowed(c, next)
  THEN [c EXCEPT !.phase = next] ELSE c

RecordCandidate(c, g) ==
  IF AcceptsEvents(c, g) /\ c.phase \in ReadinessPhases
  THEN [c EXCEPT !.candidate = TRUE] ELSE c

RecordListenerReady(c, g) ==
  IF AcceptsEvents(c, g) /\ c.phase \in ReadinessPhases
  THEN [c EXCEPT !.listener = TRUE] ELSE c

MarkConnected(c, g) ==
  IF ReadyToConnect(c, g) THEN [c EXCEPT !.phase = "connected"] ELSE c

\* Mutant: serving is revoked, but the phase keeps saying connected.
RevokeKeepsPhase(c, stableNow) ==
  [c EXCEPT !.stable = @ \/ stableNow, !.candidate = FALSE, !.listener = FALSE]

\* stableNow: the session that is being revoked lasted STABLE_SESSION_MS.
MarkEngineStopping(c, stableNow) ==
  [c EXCEPT !.stable = @ \/ (c.phase = "connected" /\ stableNow),
            !.candidate = FALSE, !.listener = FALSE, !.phase = "stopping"]

FailIntent(c, i) ==
  IF i = c.intent THEN [c EXCEPT !.desired = FALSE, !.phase = "idle"] ELSE c

-----------------------------------------------------------------------------
(* planReconnect and engineClosed *)

NetworkOutage(kind) == kind \in {"network-transient", "gateway-transient"}

UsedAttempts(attempts, stable) == IF stable THEN 0 ELSE attempts

RetryPlanned(attempts, stable, kind) ==
  /\ MaxAttempts > 0
  /\ NetworkOutage(kind) \/ UsedAttempts(attempts, stable) < MaxAttempts

\* Mutant: an outage goes on counting beyond the burst.
NextAttemptUncapped(attempts, stable) == UsedAttempts(attempts, stable) + 1

\* The attempt number of the retry; a network outage keeps the last one.
NextAttempt(attempts, stable) ==
  LET used == UsedAttempts(attempts, stable)
  IN  IF used < MaxAttempts THEN used + 1 ELSE MaxAttempts

WillRetry(c, stable, kind, autoReconnect) ==
  /\ ~c.userDisc
  /\ c.desired
  /\ kind # "terminal"
  /\ autoReconnect
  /\ RetryPlanned(c.attempts, stable, kind)

\* engineClosed for a close that both the supervisor and the machine accept.
EngineClosed(c, stableNow, kind, autoReconnect) ==
  LET stable  == c.stable \/ (c.phase = "connected" /\ stableNow)
      settled == [InvalidateEngineGeneration(c) EXCEPT !.phase = "idle"]
  IN  IF WillRetry(c, stable, kind, autoReconnect)
      THEN [settled EXCEPT !.phase = "retry-wait",
                           !.attempts = NextAttempt(c.attempts, stable)]
      ELSE [settled EXCEPT !.desired = c.desired /\ c.userDisc /\ kind # "terminal"]
=============================================================================
