--------------------------- MODULE EngineSession ----------------------------
(***************************************************************************)
(* The engine process from its first event to its last: run_engine         *)
(* (independent/src/bin/ec-engine.rs), the owners beside it in engine_app  *)
(* (events, control, operation, startup, runtime, failure), the blocking   *)
(* workers of engine/session.rs, ControlSession (engine/control.rs), and   *)
(* the desktop's EngineControlClient at the other end of the pipe.         *)
(*                                                                         *)
(* Three threads run: the coordinator, one blocking worker, and the reader *)
(* of the control pipe.  The gateway's session is what nobody may lose:    *)
(* the user's next login competes with it.                                 *)
(***************************************************************************)
EXTENDS Integers, Sequences, FiniteSets

CONSTANT MaxFrames   \* bound of nextRequestId of the control client

ASSUME EngineAssumption == MaxFrames \in Nat

VARIABLES
  main,      \* the coordinator: where it is, why it stops, what it reports
  phase,     \* EngineLifecycle.phase
  worker,    \* BlockingOperation: its step, its cancellation and its result
  gateway,   \* the session at the gateway
  local,     \* the listener with its services, and the netstack
  pipe,      \* frames on their way to the engine, and whether they end there
  reader,    \* ControlSession and its thread
  inputs,    \* the channel from the reader to the coordinator
  shutdowns, \* PendingControlActions: accepted, and past their cancel window
  answers,   \* per request: the response on the engine's output
  client     \* EngineControlClient: requests, pending, negotiated

engineVars == <<main, phase, worker, gateway, local, pipe, reader, inputs, shutdowns, answers, client>>

RequestIds == 1..MaxFrames
Kinds == {"hello", "query", "shutdown", "cancel", "close", "auth"}
Answers == {"none", "hello", "accepted", "cancelled", "other"}
Frame == [kind : Kinds, id : RequestIds, of : RequestIds]
Waiting == {"auth", "transport"}      \* drive_blocking_connection_operation

EngineTypeOK ==
  /\ main \in [at : {"starting", "handshake", "auth", "transport", "listening", "serving", "drain",
                     "services", "netstack", "logout", "ended"},
               cause : {"none", "user", "failure"}, by : {0} \cup RequestIds,
               unconfirmed : BOOLEAN, output : BOOLEAN, receiver : BOOLEAN]
  /\ phase \in {"none", "connecting", "authenticating", "preparing_tunnel", "connected", "stopping", "stopped"}
  /\ worker \in [at : {"none", "prelogin", "submit", "answered", "connect", "done"},
                 cancelled : BOOLEAN, result : {"none", "session", "failed", "panicked"}, unconfirmed : BOOLEAN]
  /\ gateway \in {"none", "open", "closed"}
  /\ local \in [listener : BOOLEAN, netstack : {"down", "up", "stuck"}]
  /\ \A n \in DOMAIN pipe.frames : pipe.frames[n] \in Frame
  /\ reader \in [open : BOOLEAN, negotiated : BOOLEAN, active : SUBSET RequestIds]
  /\ shutdowns \in [pending : SUBSET RequestIds, elapsed : SUBSET RequestIds]
  /\ answers \in [RequestIds -> Answers]
  /\ client \in [next : 1..MaxFrames + 1, pending : SUBSET RequestIds, negotiated : BOOLEAN]

NoWorker == [at |-> "none", cancelled |-> FALSE, result |-> "none", unconfirmed |-> FALSE]
Spawned(step) == [NoWorker EXCEPT !.at = step]

EngineInit ==
  /\ \E controlled \in BOOLEAN :     \* --control-api-v2-stdin
       main = [at |-> "starting", cause |-> "none", by |-> 0, unconfirmed |-> FALSE, output |-> TRUE,
               receiver |-> controlled]
  /\ phase = "none" /\ worker = NoWorker /\ gateway = "none"
  /\ local = [listener |-> FALSE, netstack |-> "down"]
  /\ pipe = [frames |-> <<>>, ended |-> FALSE]
  /\ reader = [open |-> TRUE, negotiated |-> FALSE, active |-> {}] /\ inputs = <<>>
  /\ shutdowns = [pending |-> {}, elapsed |-> {}] /\ answers = [i \in RequestIds |-> "none"]
  /\ client = [next |-> 1, pending |-> {}, negotiated |-> FALSE]

\* EngineLifecycle::state, and what its failure would be.
PhaseSteps == {<<"none", "connecting">>, <<"connecting", "authenticating">>,
               <<"authenticating", "preparing_tunnel">>, <<"preparing_tunnel", "connected">>}
              \cup {<<p, "stopping">> : p \in {"none", "connecting", "authenticating", "preparing_tunnel", "connected"}}
              \cup {<<"stopping", "stopped">>}
Enters(p) == phase' = IF <<phase, p>> \in PhaseSteps THEN p ELSE "invalid"
BeginsStopping == phase' = IF phase \in {"stopping", "stopped"} THEN phase ELSE "stopping"

\* AuthenticatedGatewaySession::logout, or the same request from the worker: it
\* may be lost, and so may its answer.
LogoutOutcomes == {[ok |-> TRUE, left |-> IF gateway = "none" THEN "none" ELSE "closed"],
                   [ok |-> FALSE, left |-> gateway],
                   [ok |-> FALSE, left |-> IF gateway = "none" THEN "none" ELSE "closed"]}

\* engine_main: begin_stopping, fatal_error with its secondary code, stopped.
Ended(cause, unconfirmed) ==
  /\ main' = [main EXCEPT !.at = "ended", !.cause = cause, !.unconfirmed = unconfirmed]
  /\ phase' = "stopped"

ControlOnly == UNCHANGED <<pipe, reader, inputs, shutdowns, answers, client>>

-----------------------------------------------------------------------------
(* The blocking workers.                                                    *)

WorkerFails(unconfirmed) == worker' = [worker EXCEPT !.at = "done", !.result = "failed", !.unconfirmed = unconfirmed]
WorkerLogsOut == \E out \in LogoutOutcomes : gateway' = out.left /\ WorkerFails(~out.ok)

\* connect_or_logout: a transport that cannot be established ends the session.
WorkerConnects ==
  /\ worker.at = "connect"
  /\ \/ WorkerLogsOut
     \/ ~worker.cancelled /\ gateway' = gateway /\ worker' = [worker EXCEPT !.at = "done", !.result = "session"]

WorkerSteps ==
  /\ main.at # "ended"
  /\ \/ /\ worker.at = "prelogin"      \* discovery, password configuration
        /\ \/ worker.cancelled /\ WorkerLogsOut
           \/ ~worker.cancelled /\ gateway' = gateway /\ (WorkerFails(FALSE) \/ worker' = [worker EXCEPT !.at = "submit"])
     \/ /\ worker.at = "submit"        \* the password's POST may take effect and fail
        /\ \/ worker.cancelled /\ WorkerFails(FALSE) /\ gateway' = gateway
           \/ ~worker.cancelled /\ worker' = [worker EXCEPT !.at = "answered"] /\ gateway' \in {"none", "open"}
     \/ /\ worker.at = "answered"      \* rejected, unreadable or unsupported answers log out
        /\ \/ WorkerLogsOut
           \/ ~worker.cancelled /\ gateway = "open" /\ gateway' = gateway
              /\ worker' = [worker EXCEPT !.at = "done", !.result = "session"]
     \/ WorkerConnects
     \/ /\ worker.at \in {"prelogin", "submit", "answered", "connect"} /\ gateway' = gateway
        /\ worker' = [worker EXCEPT !.at = "done", !.result = "panicked"]
  /\ UNCHANGED <<main, phase, local>> /\ ControlOnly

-----------------------------------------------------------------------------
(* The desktop's control client and the reader thread.                      *)

Sends(frame) ==
  /\ client.next <= MaxFrames /\ ~pipe.ended
  /\ \/ pipe' = [pipe EXCEPT !.frames = Append(@, frame)] /\ client' = [client EXCEPT !.next = @ + 1, !.pending = @ \cup {frame.id}]
     \/ pipe' = pipe /\ client' = [client EXCEPT !.next = @ + 1]
  /\ UNCHANGED <<main, phase, worker, gateway, local, reader, inputs, shutdowns, answers>>

\* The desktop negotiates, queries and shuts down; cancel, close and v3 frames
\* are what else the protocol has.
ClientSends(kind) ==
  /\ kind \in {"hello", "auth"} \/ client.negotiated
  /\ kind = "hello" => client.next = 1
  /\ IF kind # "cancel" THEN Sends([kind |-> kind, id |-> client.next, of |-> 1])
     ELSE \E r \in 1..client.next - 1 : Sends([kind |-> "cancel", id |-> client.next, of |-> r])
\* feed, and the timer of a request: a late response finds nothing pending.
ClientReads(r) ==
  /\ r \in client.pending
  /\ \/ answers[r] # "none" /\ client' = [client EXCEPT !.pending = @ \ {r}, !.negotiated = @ \/ answers[r] = "hello"]
     \/ client' = [client EXCEPT !.pending = @ \ {r}]
  /\ UNCHANGED <<main, phase, worker, gateway, local, pipe, reader, inputs, shutdowns, answers>>
PipeEnds ==
  /\ ~pipe.ended /\ pipe' = [pipe EXCEPT !.ended = TRUE] /\ client' = [client EXCEPT !.pending = {}]
  /\ UNCHANGED <<main, phase, worker, gateway, local, reader, inputs, shutdowns, answers>>

\* ControlSession::handle.
Exchange(f, answer, action) == [id |-> f.id, of |-> f.of, v3 |-> f.kind = "auth", answer |-> answer, action |-> action]
Handled(f) ==
  IF f.kind = "hello" THEN Exchange(f, IF reader.negotiated THEN "other" ELSE "hello", "none")
  ELSE IF f.kind = "auth" \/ ~reader.negotiated \/ f.kind = "query" THEN Exchange(f, "other", "none")
  ELSE IF f.kind = "shutdown" THEN Exchange(f, "accepted", "shutdown")
  ELSE IF f.kind = "close" THEN Exchange(f, "accepted", "close")
  ELSE IF f.of \in reader.active THEN Exchange(f, "cancelled", "cancel") ELSE Exchange(f, "other", "none")

ReaderHandles ==
  /\ main.at \notin {"starting", "ended"} /\ main.receiver /\ reader.open /\ pipe.frames # <<>>
  /\ LET exchange == Handled(Head(pipe.frames)) IN
     /\ inputs' = Append(inputs, exchange)
     /\ reader' = [open |-> exchange.action # "close", negotiated |-> reader.negotiated \/ exchange.answer = "hello",
                   active |-> IF exchange.action = "shutdown" THEN reader.active \cup {exchange.id}
                              ELSE IF exchange.action = "cancel" THEN reader.active \ {exchange.of} ELSE reader.active]
  /\ pipe' = [pipe EXCEPT !.frames = Tail(@)]
  /\ UNCHANGED <<main, phase, worker, gateway, local, shutdowns, answers, client>>
ReaderEnds ==
  /\ main.at # "starting" /\ main.receiver /\ reader.open /\ pipe.ended /\ pipe.frames = <<>>
  /\ reader' = [reader EXCEPT !.open = FALSE]
  /\ UNCHANGED <<main, phase, worker, gateway, local, pipe, inputs, shutdowns, answers, client>>

\* CONTROL_SHUTDOWN_CANCEL_WINDOW.
WindowElapses(r) ==
  /\ r \in shutdowns.pending \ shutdowns.elapsed /\ main.at # "ended"
  /\ shutdowns' = [shutdowns EXCEPT !.elapsed = @ \cup {r}]
  /\ UNCHANGED <<main, phase, worker, gateway, local, pipe, reader, inputs, answers, client>>

-----------------------------------------------------------------------------
(* The coordinator.                                                         *)

Stops(cause, by) ==
  /\ main' = [main EXCEPT !.at = IF @ \in Waiting THEN "drain" ELSE "services", !.cause = cause, !.by = by]
  /\ worker' = IF main.at \in Waiting THEN [worker EXCEPT !.cancelled = TRUE] ELSE worker

Attending == main.at \in Waiting \cup {"serving"}
NothingCommitted == shutdowns.elapsed = {}
ControlReady == main.receiver /\ (inputs # <<>> \/ ~reader.open)

\* The configuration and the credentials are read; either may be invalid.
Starts ==
  /\ main.at = "starting" /\ UNCHANGED <<worker, gateway, local>> /\ ControlOnly
  /\ \/ phase = "none" /\ Enters("connecting") /\ main' = main
     \/ phase = "connecting" /\ Enters("authenticating") /\ main' = [main EXCEPT !.at = "handshake"]
     \/ Ended("failure", FALSE)

\* emit_initial_control_exchange: the first v2 exchange, the end of the channel,
\* or two seconds; a control channel that ends here was the owner's.
Handshake ==
  /\ main.at = "handshake" /\ UNCHANGED <<gateway, local, pipe, reader, client>>
  /\ LET goesOn == main' = [main EXCEPT !.at = "auth"] /\ worker' = Spawned("prelogin") /\ UNCHANGED phase
         ended == Ended("user", FALSE) /\ UNCHANGED worker IN
     \/ ~ControlReady /\ goesOn /\ UNCHANGED <<inputs, shutdowns, answers>>
     \/ /\ main.receiver /\ inputs # <<>> /\ inputs' = Tail(inputs) /\ UNCHANGED shutdowns
        /\ LET e == Head(inputs) IN
           /\ answers' = [answers EXCEPT ![e.id] = e.answer]
           /\ IF e.action = "close" THEN ended
              ELSE IF e.v3 THEN UNCHANGED <<main, phase, worker>> ELSE goesOn
     \/ main.receiver /\ inputs = <<>> /\ ~reader.open /\ ended /\ UNCHANGED <<inputs, shutdowns, answers>>
     \/ Ended("failure", FALSE) /\ UNCHANGED <<worker, inputs, shutdowns, answers>>   \* the output is gone

\* The branches of the biased selects, in their order.
StopCommitted ==
  /\ Attending /\ \E r \in shutdowns.elapsed : Stops("user", r)
  /\ UNCHANGED <<phase, gateway, local>> /\ ControlOnly
SignalArrives ==
  /\ Attending /\ NothingCommitted /\ \E cause \in {"user", "failure"} : Stops(cause, 0)
  /\ UNCHANGED <<phase, gateway, local>> /\ ControlOnly
\* The operation's deadline; a service, or the data plane, of a served session.
AttemptFails ==
  /\ Attending /\ NothingCommitted /\ Stops("failure", 0)
  /\ UNCHANGED <<phase, gateway, local>> /\ ControlOnly
TakeControl ==
  /\ Attending /\ NothingCommitted /\ main.receiver /\ inputs # <<>> /\ inputs' = Tail(inputs)
  /\ LET e == Head(inputs) IN
     \/ /\ answers' = [answers EXCEPT ![e.id] = e.answer]
        /\ shutdowns' = IF e.action = "shutdown" THEN [shutdowns EXCEPT !.pending = @ \cup {e.id}]
                        ELSE IF e.action = "cancel" THEN [pending |-> shutdowns.pending \ {e.of}, elapsed |-> shutdowns.elapsed \ {e.of}]
                        ELSE shutdowns
        /\ IF e.action # "close" THEN UNCHANGED <<main, worker>>
           ELSE IF main.at = "serving" THEN main' = [main EXCEPT !.receiver = FALSE] /\ UNCHANGED worker
           ELSE Stops("user", 0)
     \/ Stops("failure", 0) /\ UNCHANGED <<answers, shutdowns>>   \* the output is gone
  /\ UNCHANGED <<phase, gateway, local, pipe, reader, client>>
\* Before the listener the pipe's owner is the attempt's; later it may go.
ControlGone ==
  /\ Attending /\ NothingCommitted /\ main.receiver /\ inputs = <<>> /\ ~reader.open
  /\ IF main.at = "serving" THEN main' = [main EXCEPT !.receiver = FALSE] /\ UNCHANGED worker ELSE Stops("user", 0)
  /\ UNCHANGED <<phase, gateway, local>> /\ ControlOnly

CanPromote == NothingCommitted /\ ~ControlReady
\* A finished worker: the lowest priority.
Promote ==
  /\ main.at \in Waiting /\ worker.at = "done" /\ CanPromote /\ ControlOnly
  /\ \/ /\ worker.result = "session" /\ main.at = "auth"
        /\ \/ /\ main' = [main EXCEPT !.at = "transport"] /\ worker' = Spawned("connect") /\ Enters("preparing_tunnel")
              /\ UNCHANGED <<gateway, local>>
           \/ main' = [main EXCEPT !.at = "logout", !.cause = "failure"] /\ UNCHANGED <<phase, worker, gateway, local>>
     \/ /\ worker.result = "session" /\ main.at = "transport" /\ UNCHANGED <<phase, gateway>>
        /\ worker' = NoWorker
        /\ \/ main' = [main EXCEPT !.at = "listening"] /\ local' = [local EXCEPT !.netstack = "up"]
           \/ main' = [main EXCEPT !.at = "logout", !.cause = "failure"] /\ UNCHANGED local
     \/ /\ worker.result \in {"failed", "panicked"} /\ UNCHANGED <<worker, gateway, local>>
        /\ Ended("failure", worker.unconfirmed \/ worker.result = "panicked")

\* What is left of the session decides, and the stopping event may be lost.
Collected(unconfirmed) == \E cause \in {main.cause, "failure"} :
                            Ended(IF unconfirmed THEN "failure" ELSE cause, unconfirmed)

\* Mutant: a worker that does not come back in time is taken to have stopped.
GivenUpQuietly == Ended(main.cause, FALSE)

GivenUp == Ended("failure", TRUE)

\* The cancelled worker is collected, or given up when the drain window ends.
Drain ==
  /\ main.at = "drain" /\ UNCHANGED local /\ ControlOnly /\ UNCHANGED worker
  /\ \/ /\ worker.at = "done" /\ worker.result = "session"
        /\ \E out \in LogoutOutcomes :
             gateway' = out.left /\ Collected(~out.ok)
     \/ /\ worker.at = "done" /\ worker.result = "failed" /\ gateway' = gateway
        /\ Collected(worker.unconfirmed)
     \/ /\ worker.at # "done" \/ worker.result = "panicked"
        /\ gateway' = gateway /\ GivenUp

\* The DNS selection, the listener's bind, its events and connected.
Listen ==
  /\ main.at = "listening" /\ UNCHANGED <<worker, gateway>> /\ ControlOnly
  /\ \/ main' = [main EXCEPT !.at = "serving"] /\ local' = [local EXCEPT !.listener = TRUE] /\ Enters("connected")
     \/ main' = [main EXCEPT !.at = "services", !.cause = "failure"] /\ UNCHANGED <<phase, local>>

\* The listener and its tasks, then the netstack, then the gateway's session.
StopServices ==
  /\ main.at = "services" /\ main' = [main EXCEPT !.at = "netstack"] /\ local' = [local EXCEPT !.listener = FALSE]
  /\ BeginsStopping /\ UNCHANGED <<worker, gateway>> /\ ControlOnly
StopNetstack ==
  /\ main.at = "netstack" /\ UNCHANGED <<phase, worker, gateway>> /\ ControlOnly
  /\ \/ main' = [main EXCEPT !.at = "logout"] /\ local' = [local EXCEPT !.netstack = "down"]
     \/ main' = [main EXCEPT !.at = "logout", !.cause = "failure"] /\ local' = [local EXCEPT !.netstack = "stuck"]
GatewayLogout ==
  /\ main.at = "logout" /\ UNCHANGED <<worker, local>> /\ ControlOnly
  /\ \E out \in LogoutOutcomes : gateway' = out.left /\ Collected(~out.ok)

EngineNext ==
  \/ WorkerSteps \/ PipeEnds \/ ReaderHandles \/ ReaderEnds
  \/ Starts \/ Handshake \/ StopCommitted \/ SignalArrives \/ AttemptFails \/ TakeControl \/ ControlGone
  \/ Promote \/ Drain \/ Listen \/ StopServices \/ StopNetstack \/ GatewayLogout
  \/ \E kind \in Kinds : ClientSends(kind)
  \/ \E r \in RequestIds : ClientReads(r) \/ WindowElapses(r)

EngineSpec == EngineInit /\ [][EngineNext]_engineVars

-----------------------------------------------------------------------------
(* An engine that has ended leaves no session at the gateway without saying *)
(* so: whatever the worker was doing, whatever was lost, and whatever ended *)
(* the attempt, the desktop is told that the cleanup is not confirmed.      *)
SessionIsAccountedFor == main.at = "ended" /\ gateway = "open" => main.unconfirmed /\ main.cause = "failure"

(* A clean stop is a complete one: nothing listens, nothing is left.        *)
UserStopIsClean == main.at = "ended" /\ main.cause = "user" => gateway # "open" /\ ~local.listener /\ local.netstack = "down"

(* The gateway's session outlives what uses it: no listener and no netstack *)
(* is up after a logout, and no listener without a netstack.                *)
TeardownInOrder ==
  /\ local.listener => local.netstack = "up" /\ gateway = "open" /\ main.at \in {"serving", "services"}
  /\ gateway = "closed" => local.netstack # "up"

(* An accepted shutdown belongs to the whole attempt: until it is cancelled *)
(* or the engine stops it stays pending, in whichever phase; and one that   *)
(* was answered as cancelled is not what stops the engine.                  *)
ShutdownIsKept ==
  /\ \A r \in reader.active : answers[r] = "accepted" /\ Attending => r \in shutdowns.pending
  /\ \A r \in shutdowns.pending : answers[r] = "accepted"
  /\ main.by # 0 => main.by \in shutdowns.pending
  /\ shutdowns.elapsed \subseteq shutdowns.pending

(* The phases the desktop sees never leave their order.                     *)
PhasesInOrder == phase # "invalid"

EngineSafety ==
  EngineTypeOK /\ SessionIsAccountedFor /\ UserStopIsClean /\ TeardownInOrder /\ ShutdownIsKept /\ PhasesInOrder
=============================================================================
