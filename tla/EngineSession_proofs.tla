------------------------- MODULE EngineSession_proofs --------------------------
(* The safety of EngineSession, for any number of control frames.  What an    *)
(* engine may leave behind follows from where its coordinator is: in each     *)
(* place only certain states of the worker, the gateway's session and the     *)
(* local services are possible.  That an accepted shutdown is kept follows    *)
(* from the order of the frames, of which each is answered once.              *)
EXTENDS EngineSession, TLAPS

-----------------------------------------------------------------------------
(* The invariant *)

Exchanges ==
  [id : RequestIds, of : RequestIds, v3 : BOOLEAN, answer : Answers,
   action : {"none", "shutdown", "close", "cancel"}]

\* What the type invariant leaves open, and what an exchange may say.
Channels ==
  /\ pipe \in [frames : Seq(Frame), ended : BOOLEAN]
  /\ inputs \in Seq(Exchanges)
  /\ \A i \in DOMAIN inputs :
       /\ inputs[i].action = "shutdown" => inputs[i].answer = "accepted"
       /\ inputs[i].action \in {"none", "cancel"} => inputs[i].answer # "accepted"

Early == {"starting", "handshake"}
Up == {"listening", "serving", "services", "netstack"}

\* In which places the coordinator has told the desktop what.
PhaseIsOf ==
  /\ main.at = "starting" => phase \in {"none", "connecting"}
  /\ main.at \in {"handshake", "auth"} => phase = "authenticating"
  /\ main.at \in {"transport", "listening"} => phase = "preparing_tunnel"
  /\ main.at = "serving" => phase = "connected"

\* A worker that has a session holds it open; one that failed, and could
\* confirm its cleanup, has left none.
WorkerAccounts ==
  /\ main.at \in Early => worker = NoWorker /\ gateway = "none"
  /\ main.at \in Up => worker = NoWorker /\ gateway = "open"
  /\ main.at = "logout" => worker.at \in {"none", "done"}
  /\ main.at # "ended" =>
       /\ worker.at \in {"prelogin", "submit"} => gateway = "none"
       /\ worker.at = "connect" => gateway = "open"
       /\ worker.at = "done" /\ worker.result = "session" => gateway = "open"
       /\ worker.at = "done" /\ worker.result = "failed" /\ ~worker.unconfirmed =>
            gateway # "open"

\* The listener and the netstack go with the place of the coordinator; a
\* netstack that does not stop makes the stop a failure.
LocalIsOf ==
  /\ main.at \in Early \cup Waiting \cup {"drain"} =>
       ~local.listener /\ local.netstack = "down"
  /\ main.at \in Up => local.netstack = "up"
  /\ local.listener => main.at \in {"serving", "services"}
  /\ main.at \in {"logout", "ended"} =>
       /\ local.netstack # "up"
       /\ local.netstack = "stuck" => main.cause = "failure"

\* Requests are numbered, read and answered in one order.
InOrder ==
  /\ \A i, j \in DOMAIN pipe.frames : i < j => pipe.frames[i].id < pipe.frames[j].id
  /\ \A i, j \in DOMAIN inputs : i < j => inputs[i].id < inputs[j].id
  /\ \A i \in DOMAIN inputs, j \in DOMAIN pipe.frames : inputs[i].id < pipe.frames[j].id
  /\ \A i \in DOMAIN inputs : inputs[i].id < client.next
  /\ \A j \in DOMAIN pipe.frames : pipe.frames[j].id < client.next

\* The request r comes before all that are still to be read, or to be answered.
Read(r) ==
  r < client.next /\ \A j \in DOMAIN pipe.frames : r < pipe.frames[j].id
Answered(r) == Read(r) /\ \A i \in DOMAIN inputs : r < inputs[i].id

\* The reader is ahead of the coordinator by the exchanges in between.
ReaderAhead ==
  /\ \A r \in RequestIds : answers[r] # "none" => Answered(r)
  /\ \A r \in reader.active : Read(r)
  /\ \A i \in DOMAIN inputs :
       /\ inputs[i].id \in reader.active => inputs[i].action = "shutdown"
       /\ inputs[i].action = "cancel" => Read(inputs[i].of) /\ inputs[i].of \notin reader.active

\* The first exchange of version 2 negotiates, and has no other effect.
FirstNegotiates ==
  main.at \in Early =>
    /\ \A r \in RequestIds : answers[r] # "accepted"
    /\ shutdowns.pending = {}
    /\ reader.negotiated => \E i \in DOMAIN inputs : ~inputs[i].v3
    /\ \A i \in DOMAIN inputs :
         inputs[i].action # "none" => \E j \in 1..(i - 1) : ~inputs[j].v3

\* An accepted shutdown is pending until it is cancelled or the engine stops.
AcceptedIsPending ==
  /\ main.at \notin {"drain", "services", "netstack", "logout", "ended"} =>
       /\ \A r \in reader.active : answers[r] = "accepted" => r \in shutdowns.pending
       /\ main.by = 0
  /\ \A r \in shutdowns.pending : answers[r] = "accepted"
  /\ main.by # 0 => main.by \in shutdowns.pending
  /\ shutdowns.elapsed \subseteq shutdowns.pending

IInv ==
  /\ Channels /\ PhaseIsOf /\ WorkerAccounts /\ LocalIsOf
  /\ InOrder /\ ReaderAhead /\ FirstNegotiates /\ AcceptedIsPending
  /\ SessionIsAccountedFor /\ UserStopIsClean /\ PhasesInOrder

-----------------------------------------------------------------------------
(* Types *)

Types == EngineTypeOK /\ Channels

Places == {"starting", "handshake", "auth", "transport", "listening", "serving", "drain",
           "services", "netstack", "logout", "ended"}
Mains ==
  [at : Places, cause : {"none", "user", "failure"}, by : {0} \cup RequestIds,
   unconfirmed : BOOLEAN, output : BOOLEAN, receiver : BOOLEAN]
Phases == {"none", "connecting", "authenticating", "preparing_tunnel", "connected",
           "stopping", "stopped"}
Workers ==
  [at : {"none", "prelogin", "submit", "answered", "connect", "done"}, cancelled : BOOLEAN,
   result : {"none", "session", "failed", "panicked"}, unconfirmed : BOOLEAN]
Locals == [listener : BOOLEAN, netstack : {"down", "up", "stuck"}]
Readers == [open : BOOLEAN, negotiated : BOOLEAN, active : SUBSET RequestIds]
Clients == [next : 1..MaxFrames + 1, pending : SUBSET RequestIds, negotiated : BOOLEAN]
Pipes == [frames : Seq(Frame), ended : BOOLEAN]
Shutdowns == [pending : SUBSET RequestIds, elapsed : SUBSET RequestIds]

\* What the coordinator and its worker work on, and what belongs to control.
CoreTypes ==
  /\ main \in Mains /\ phase \in Phases /\ worker \in Workers
  /\ gateway \in {"none", "open", "closed"} /\ local \in Locals
ControlTypes ==
  /\ pipe \in Pipes /\ reader \in Readers /\ inputs \in Seq(Exchanges)
  /\ shutdowns \in Shutdowns /\ answers \in [RequestIds -> Answers] /\ client \in Clients

Truthful ==
  \A i \in DOMAIN inputs :
    /\ inputs[i].action = "shutdown" => inputs[i].answer = "accepted"
    /\ inputs[i].action \in {"none", "cancel"} => inputs[i].answer # "accepted"

LEMMA TypesAre == Types <=> CoreTypes /\ ControlTypes /\ Truthful
<1>1. pipe \in Pipes => \A n \in DOMAIN pipe.frames : pipe.frames[n] \in Frame
  BY DEF Pipes
<1>. QED
  BY <1>1 DEF Types, CoreTypes, ControlTypes, Truthful, EngineTypeOK, Channels, Mains, Places,
     Phases, Workers, Locals, Readers, Clients, Pipes, Shutdowns

LEMMA TypesWillBe == Types' <=> CoreTypes' /\ ControlTypes' /\ Truthful'
BY TypesAre, PTL

LEMMA StopsType ==
  ASSUME main \in Mains, worker \in Workers,
         NEW cause \in {"user", "failure"}, NEW by \in {0} \cup RequestIds, Stops(cause, by)
  PROVE  /\ main' \in Mains /\ worker' \in Workers
         /\ main'.cause = cause /\ main'.by = by
         /\ main'.at = IF main.at \in Waiting THEN "drain" ELSE "services"
         /\ \/ main.at \notin Waiting /\ worker' = worker
            \/ main.at \in Waiting /\ worker' = [worker EXCEPT !.cancelled = TRUE]
<1>1. main' \in Mains
  BY DEF Stops, Mains, Places
<1>2. /\ main'.cause = cause /\ main'.by = by
      /\ main'.at = IF main.at \in Waiting THEN "drain" ELSE "services"
  BY DEF Stops, Mains
<1>3. worker' \in Workers
  BY DEF Stops, Workers
<1>. QED  BY <1>1, <1>2, <1>3 DEF Stops

LEMMA EndedType ==
  ASSUME main \in Mains, NEW cause \in {"none", "user", "failure"}, NEW u \in BOOLEAN,
         Ended(cause, u)
  PROVE  /\ main' \in Mains /\ phase' = "stopped" /\ phase' \in Phases
         /\ main'.at = "ended" /\ main'.cause = cause /\ main'.unconfirmed = u
         /\ main'.by = main.by
BY DEF Ended, Mains, Places, Phases

-----------------------------------------------------------------------------
(* The coordinator, the worker, and what they leave behind *)

Core ==
  /\ CoreTypes /\ PhaseIsOf /\ WorkerAccounts /\ LocalIsOf
  /\ SessionIsAccountedFor /\ UserStopIsClean

CoreVars == <<main, phase, worker, gateway, local>>

LEMMA CoreUnchanged ==
  ASSUME Core, UNCHANGED CoreVars
  PROVE  Core'
BY DEF Core, CoreVars, CoreTypes, PhaseIsOf, WorkerAccounts, LocalIsOf, SessionIsAccountedFor,
   UserStopIsClean

\* The coordinator stays where it is.
LEMMA CoreStays ==
  ASSUME Core, main' = [main EXCEPT !.receiver = FALSE], UNCHANGED <<phase, worker, gateway, local>>
  PROVE  Core'
<1>1. /\ main' \in Mains /\ main'.at = main.at /\ main'.cause = main.cause
      /\ main'.unconfirmed = main.unconfirmed
  BY DEF Core, CoreTypes, Mains
<1>. QED
  BY <1>1 DEF Core, CoreTypes, PhaseIsOf, WorkerAccounts, LocalIsOf, SessionIsAccountedFor,
     UserStopIsClean

\* An engine that ends says what is left; nothing it has started stays.
LEMMA CoreEnds ==
  ASSUME Core, NEW cause \in {"none", "user", "failure"}, NEW u \in BOOLEAN, Ended(cause, u),
         worker' \in Workers, gateway' \in {"none", "open", "closed"}, local' = local,
         main.at \notin Up \cup {"ended"},
         main.at = "logout" /\ main.cause = "failure" => cause = "failure",
         gateway' = "open" => u /\ cause = "failure"
  PROVE  Core'
<1>1. /\ main' \in Mains /\ phase' \in Phases
      /\ main'.at = "ended" /\ main'.cause = cause /\ main'.unconfirmed = u
  BY EndedType DEF Core, CoreTypes
<1>2. main.at \in Places
  BY DEF Core, CoreTypes, Mains
<1>3. LocalIsOf'
  BY <1>1, <1>2 DEF Core, LocalIsOf, Early, Waiting, Up, Places
<1>4. UserStopIsClean'
  BY <1>1, <1>2, <1>3
     DEF Core, CoreTypes, Locals, LocalIsOf, UserStopIsClean, Early, Waiting, Up, Places
<1>. QED
  BY <1>1, <1>3, <1>4
     DEF Core, CoreTypes, PhaseIsOf, WorkerAccounts, SessionIsAccountedFor, Early, Up

\* An attempt, or a served session, that stops.
LEMMA CoreStops ==
  ASSUME Core, Attending, NEW cause \in {"user", "failure"}, NEW by \in {0} \cup RequestIds,
         Stops(cause, by), UNCHANGED <<phase, gateway, local>>
  PROVE  Core'
<1>1. /\ main' \in Mains /\ worker' \in Workers
      /\ main'.at = IF main.at \in Waiting THEN "drain" ELSE "services"
      /\ \/ main.at \notin Waiting /\ worker' = worker
         \/ main.at \in Waiting /\ worker' = [worker EXCEPT !.cancelled = TRUE]
  BY StopsType DEF Core, CoreTypes
<1>2. /\ worker'.at = worker.at /\ worker'.result = worker.result
      /\ worker'.unconfirmed = worker.unconfirmed
  BY <1>1 DEF Core, CoreTypes, Workers
<1>3. CASE main.at \in Waiting
  BY <1>1, <1>2, <1>3
     DEF Core, CoreTypes, PhaseIsOf, WorkerAccounts, LocalIsOf, SessionIsAccountedFor,
         UserStopIsClean, Early, Up, Waiting
<1>4. CASE main.at = "serving"
  BY <1>1, <1>4
     DEF Core, CoreTypes, PhaseIsOf, WorkerAccounts, LocalIsOf, SessionIsAccountedFor,
         UserStopIsClean, Early, Up, Waiting
<1>. QED  BY <1>3, <1>4 DEF Attending

\* The worker ends, or goes on to submit the password, or has submitted it.
LEMMA CoreWorks ==
  ASSUME Core, main.at \in Waiting \cup {"drain"}, UNCHANGED <<main, phase, local>>,
         worker' \in Workers, gateway' \in {"none", "open", "closed"},
         worker'.at \in {"prelogin", "submit"} => gateway' = "none",
         worker'.at = "connect" => gateway' = "open",
         worker'.at = "done" /\ worker'.result = "session" => gateway' = "open",
         worker'.at = "done" /\ worker'.result = "failed" /\ ~worker'.unconfirmed =>
           gateway' # "open"
  PROVE  Core'
BY DEF Core, CoreTypes, PhaseIsOf, WorkerAccounts, LocalIsOf, SessionIsAccountedFor,
   UserStopIsClean, Early, Up, Waiting

LEMMA Outcomes ==
  ASSUME NEW out \in LogoutOutcomes, gateway \in {"none", "open", "closed"}
  PROVE  /\ out.ok \in BOOLEAN /\ out.left \in {"none", "open", "closed"}
         /\ out.ok => out.left # "open"
<1>. DEFINE left == IF gateway = "none" THEN "none" ELSE "closed"
<1>1. \/ out = [ok |-> TRUE, left |-> left]
      \/ out = [ok |-> FALSE, left |-> gateway]
      \/ out = [ok |-> FALSE, left |-> left]
  BY DEF LogoutOutcomes
<1>2. left \in {"none", "closed"}
  OBVIOUS
<1>3. /\ out.ok \in BOOLEAN /\ out.left \in {left, gateway}
      /\ out.ok => out.left = left
  <2>1. CASE out = [ok |-> TRUE, left |-> left]
    <3>1. out.ok = TRUE /\ out.left = left
      BY <2>1
    <3>. QED  BY <3>1
  <2>2. ASSUME NEW l \in {left, gateway}, out = [ok |-> FALSE, left |-> l]
        PROVE  out.ok = FALSE /\ out.left = l
    BY <2>2
  <2>. QED  BY <1>1, <2>1, <2>2
<1>. QED  BY <1>2, <1>3

LEMMA WorkerIsActive ==
  ASSUME Core, main.at # "ended", worker.at \in {"prelogin", "submit", "answered", "connect"}
  PROVE  main.at \in Waiting \cup {"drain"}
BY DEF Core, CoreTypes, Mains, Places, WorkerAccounts, Early, Up, Waiting, NoWorker

LEMMA WorkerStepsKeep ==
  ASSUME Core, WorkerSteps
  PROVE  Core'
<1>1. /\ UNCHANGED <<main, phase, local>> /\ main.at # "ended"
      /\ worker \in Workers /\ gateway \in {"none", "open", "closed"}
  BY DEF WorkerSteps, Core, CoreTypes
<1>2. worker.at \in {"prelogin", "submit", "answered", "connect"}
  BY DEF WorkerSteps, WorkerConnects
<1>3. main.at \in Waiting \cup {"drain"}
  BY <1>1, <1>2, WorkerIsActive
<1>4. CASE WorkerLogsOut
  <2>1. PICK out \in LogoutOutcomes : gateway' = out.left /\ WorkerFails(~out.ok)
    BY <1>4 DEF WorkerLogsOut
  <2>2. /\ out.ok \in BOOLEAN /\ out.left \in {"none", "open", "closed"}
        /\ out.ok => out.left # "open"
    BY <1>1, Outcomes
  <2>3. /\ worker' \in Workers
        /\ worker'.at = "done" /\ worker'.result = "failed" /\ worker'.unconfirmed = ~out.ok
    BY <1>1, <2>1, <2>2 DEF WorkerFails, Workers
  <2>. QED  BY <1>1, <1>3, <2>1, <2>2, <2>3, CoreWorks
<1>5. CASE WorkerFails(FALSE) /\ gateway' = gateway /\ gateway = "none"
  <2>1. /\ worker' \in Workers
        /\ worker'.at = "done" /\ worker'.result = "failed"
    BY <1>1, <1>5 DEF WorkerFails, Workers
  <2>. QED  BY <1>1, <1>3, <1>5, <2>1, CoreWorks
<1>6. CASE worker' = [worker EXCEPT !.at = "submit"] /\ gateway' = gateway /\ gateway = "none"
  <2>1. worker' \in Workers /\ worker'.at = "submit"
    BY <1>1, <1>6 DEF Workers
  <2>. QED  BY <1>1, <1>3, <1>6, <2>1, CoreWorks
<1>7. CASE worker' = [worker EXCEPT !.at = "answered"] /\ gateway' \in {"none", "open"}
  <2>1. worker' \in Workers /\ worker'.at = "answered"
    BY <1>1, <1>7 DEF Workers
  <2>. QED  BY <1>1, <1>3, <1>7, <2>1, CoreWorks
<1>8. CASE /\ worker' = [worker EXCEPT !.at = "done", !.result = "session"]
           /\ gateway' = gateway /\ gateway = "open"
  <2>1. worker' \in Workers /\ worker'.at = "done" /\ worker'.result = "session"
    BY <1>1, <1>8 DEF Workers
  <2>. QED  BY <1>1, <1>3, <1>8, <2>1, CoreWorks
<1>9. CASE worker' = [worker EXCEPT !.at = "done", !.result = "panicked"] /\ gateway' = gateway
  <2>1. worker' \in Workers /\ worker'.at = "done" /\ worker'.result = "panicked"
    BY <1>1, <1>9 DEF Workers
  <2>. QED  BY <1>1, <1>3, <1>9, <2>1, CoreWorks
<1>10. /\ worker.at \in {"prelogin", "submit"} => gateway = "none"
       /\ worker.at = "connect" => gateway = "open"
  BY <1>1 DEF Core, WorkerAccounts
<1>. QED
  BY <1>4, <1>5, <1>6, <1>7, <1>8, <1>9, <1>10 DEF WorkerSteps, WorkerConnects

LEMMA StartsKeep ==
  ASSUME Core, Starts
  PROVE  Core'
<1>1. main.at = "starting" /\ UNCHANGED <<worker, gateway, local>> /\ gateway = "none"
  BY DEF Starts, Core, WorkerAccounts, Early
<1>2. CASE phase = "none" /\ Enters("connecting") /\ main' = main
  <2>1. phase' = "connecting"
    BY <1>2 DEF Enters, PhaseSteps
  <2>. QED
    BY <1>1, <1>2, <2>1 DEF Core, CoreTypes, Phases, PhaseIsOf, WorkerAccounts, LocalIsOf,
       SessionIsAccountedFor, UserStopIsClean
<1>3. CASE /\ phase = "connecting" /\ Enters("authenticating")
           /\ main' = [main EXCEPT !.at = "handshake"]
  <2>1. phase' = "authenticating"
    BY <1>3 DEF Enters, PhaseSteps
  <2>2. main' \in Mains /\ main'.at = "handshake"
    BY <1>3 DEF Core, CoreTypes, Mains, Places
  <2>. QED
    BY <1>1, <2>1, <2>2 DEF Core, CoreTypes, Phases, PhaseIsOf, WorkerAccounts, LocalIsOf,
       SessionIsAccountedFor, UserStopIsClean, Early, Up, Waiting
<1>4. CASE Ended("failure", FALSE)
  BY <1>1, <1>4, CoreEnds DEF Core, CoreTypes, Up
<1>. QED  BY <1>2, <1>3, <1>4 DEF Starts

LEMMA HandshakeKeeps ==
  ASSUME Core, Handshake
  PROVE  Core'
<1>1. /\ main.at = "handshake" /\ UNCHANGED <<gateway, local>>
      /\ worker = NoWorker /\ gateway = "none" /\ main \in Mains
  BY DEF Handshake, Core, CoreTypes, WorkerAccounts, Early
<1>2. CASE main' = [main EXCEPT !.at = "auth"] /\ worker' = Spawned("prelogin") /\ UNCHANGED phase
  <2>1. main' \in Mains /\ main'.at = "auth"
    BY <1>1, <1>2 DEF Mains, Places
  <2>2. worker' \in Workers /\ worker'.at = "prelogin"
    BY <1>2 DEF Spawned, NoWorker, Workers
  <2>. QED
    BY <1>1, <1>2, <2>1, <2>2 DEF Core, CoreTypes, PhaseIsOf, WorkerAccounts, LocalIsOf,
       SessionIsAccountedFor, UserStopIsClean, Early, Up, Waiting
<1>3. CASE UNCHANGED <<main, phase, worker>>
  BY <1>1, <1>3, CoreUnchanged DEF CoreVars
<1>4. ASSUME NEW cause \in {"user", "failure"}, Ended(cause, FALSE), UNCHANGED worker
      PROVE  Core'
  BY <1>1, <1>4, CoreEnds DEF Core, CoreTypes, Up
<1>. QED  BY <1>2, <1>3, <1>4 DEF Handshake

LEMMA PromoteKeeps ==
  ASSUME Core, Promote
  PROVE  Core'
<1>1. /\ main.at \in Waiting /\ worker.at = "done"
      /\ main \in Mains /\ worker \in Workers /\ local \in Locals
      /\ worker.result = "session" => gateway = "open"
      /\ worker.result = "failed" /\ ~worker.unconfirmed => gateway # "open"
      /\ ~local.listener /\ local.netstack = "down"
  BY DEF Promote, Core, CoreTypes, WorkerAccounts, LocalIsOf, Waiting
<1>2. CASE /\ worker.result = "session" /\ main.at = "auth"
           /\ main' = [main EXCEPT !.at = "transport"] /\ worker' = Spawned("connect")
           /\ Enters("preparing_tunnel") /\ UNCHANGED <<gateway, local>>
  <2>1. main' \in Mains /\ main'.at = "transport"
    BY <1>1, <1>2 DEF Mains, Places
  <2>2. worker' \in Workers /\ worker'.at = "connect"
    BY <1>2 DEF Spawned, NoWorker, Workers
  <2>3. phase' = "preparing_tunnel"
    BY <1>2 DEF Enters, PhaseSteps, Core, PhaseIsOf
  <2>. QED
    BY <1>1, <1>2, <2>1, <2>2, <2>3 DEF Core, CoreTypes, Phases, PhaseIsOf, WorkerAccounts,
       LocalIsOf, SessionIsAccountedFor, UserStopIsClean, Early, Up, Waiting
<1>3. CASE /\ main' = [main EXCEPT !.at = "logout", !.cause = "failure"]
           /\ UNCHANGED <<phase, gateway, local>> /\ worker' \in {worker, NoWorker}
  <2>1. main' \in Mains /\ main'.at = "logout" /\ main'.cause = "failure"
    BY <1>1, <1>3 DEF Mains, Places
  <2>2. /\ worker' \in Workers
        /\ \/ worker'.at = "none"
           \/ worker'.at = "done" /\ worker'.result = worker.result
                /\ worker'.unconfirmed = worker.unconfirmed
    <3>1. CASE worker' = worker
      BY <1>1, <3>1
    <3>2. CASE worker' = NoWorker
      BY <3>2 DEF NoWorker, Workers
    <3>. QED  BY <1>3, <3>1, <3>2
  <2>. QED
    BY <1>1, <1>3, <2>1, <2>2 DEF Core, CoreTypes, PhaseIsOf, WorkerAccounts,
       LocalIsOf, SessionIsAccountedFor, UserStopIsClean, Early, Up, Waiting
<1>4. CASE /\ worker.result = "session" /\ main.at = "transport"
           /\ UNCHANGED <<phase, gateway>> /\ worker' = NoWorker
           /\ main' = [main EXCEPT !.at = "listening"]
           /\ local' = [local EXCEPT !.netstack = "up"]
  <2>1. main' \in Mains /\ main'.at = "listening"
    BY <1>1, <1>4 DEF Mains, Places
  <2>2. local' \in Locals /\ local'.netstack = "up" /\ ~local'.listener
    BY <1>1, <1>4 DEF Locals
  <2>3. worker' \in Workers /\ worker'.at = "none"
    BY <1>4 DEF NoWorker, Workers
  <2>. QED
    BY <1>1, <1>4, <2>1, <2>2, <2>3 DEF Core, CoreTypes, PhaseIsOf, WorkerAccounts,
       LocalIsOf, SessionIsAccountedFor, UserStopIsClean, Early, Up, Waiting
<1>5. CASE /\ worker.result \in {"failed", "panicked"} /\ UNCHANGED <<worker, gateway, local>>
           /\ Ended("failure", worker.unconfirmed \/ worker.result = "panicked")
  <2>1. worker.unconfirmed \in BOOLEAN
    BY <1>1 DEF Workers
  <2>2. gateway = "open" => worker.unconfirmed \/ worker.result = "panicked"
    BY <1>1, <1>5
  <2>. QED
    BY <1>1, <1>5, <2>1, <2>2, CoreEnds DEF Core, CoreTypes, Up, Waiting
<1>. QED  BY <1>2, <1>3, <1>4, <1>5 DEF Promote

\* The session is logged out, or that is not confirmed.
LEMMA CollectedKeeps ==
  ASSUME Core, NEW u \in BOOLEAN, Collected(u), worker' = worker, local' = local,
         gateway' \in {"none", "open", "closed"}, gateway' = "open" => u,
         main.at \in {"drain", "logout"}
  PROVE  Core'
<1>1. main.cause \in {"none", "user", "failure"} /\ worker' \in Workers
  BY DEF Core, CoreTypes, Mains
<1>2. PICK cause \in {main.cause, "failure"} : Ended(IF u THEN "failure" ELSE cause, u)
  BY DEF Collected
<1>3. CASE u
  BY <1>1, <1>2, <1>3, CoreEnds DEF Up
<1>4. CASE ~u
  BY <1>1, <1>2, <1>4, CoreEnds DEF Up
<1>. QED  BY <1>3, <1>4

LEMMA DrainKeeps ==
  ASSUME Core, Drain
  PROVE  Core'
<1>1. /\ main.at = "drain" /\ UNCHANGED <<worker, local>>
      /\ worker \in Workers /\ gateway \in {"none", "open", "closed"}
      /\ worker.at = "done" /\ worker.result = "failed" /\ ~worker.unconfirmed =>
           gateway # "open"
  BY DEF Drain, Core, CoreTypes, WorkerAccounts
<1>2. ASSUME NEW out \in LogoutOutcomes, gateway' = out.left, Collected(~out.ok)
      PROVE  Core'
  BY <1>1, <1>2, Outcomes, CollectedKeeps
<1>3. CASE /\ worker.at = "done" /\ worker.result = "failed" /\ gateway' = gateway
           /\ Collected(worker.unconfirmed)
  <2>1. worker.unconfirmed \in BOOLEAN
    BY <1>1 DEF Workers
  <2>. QED  BY <1>1, <1>3, <2>1, CollectedKeeps
<1>4. CASE gateway' = gateway /\ GivenUp
  BY <1>1, <1>4, CoreEnds DEF GivenUp, Up
<1>. QED  BY <1>2, <1>3, <1>4 DEF Drain

LEMMA ListenKeeps ==
  ASSUME Core, Listen
  PROVE  Core'
<1>1. /\ main.at = "listening" /\ UNCHANGED <<worker, gateway>>
      /\ main \in Mains /\ local \in Locals /\ phase = "preparing_tunnel"
  BY DEF Listen, Core, CoreTypes, PhaseIsOf
<1>2. CASE /\ main' = [main EXCEPT !.at = "serving"] /\ local' = [local EXCEPT !.listener = TRUE]
           /\ Enters("connected")
  <2>1. main' \in Mains /\ main'.at = "serving"
    BY <1>1, <1>2 DEF Mains, Places
  <2>2. local' \in Locals /\ local'.netstack = local.netstack
    BY <1>1, <1>2 DEF Locals
  <2>3. phase' = "connected"
    BY <1>1, <1>2 DEF Enters, PhaseSteps
  <2>. QED
    BY <1>1, <2>1, <2>2, <2>3 DEF Core, CoreTypes, Phases, PhaseIsOf, WorkerAccounts,
       LocalIsOf, SessionIsAccountedFor, UserStopIsClean, Early, Up, Waiting
<1>3. CASE main' = [main EXCEPT !.at = "services", !.cause = "failure"] /\ UNCHANGED <<phase, local>>
  <2>1. main' \in Mains /\ main'.at = "services"
    BY <1>1, <1>3 DEF Mains, Places
  <2>. QED
    BY <1>1, <1>3, <2>1 DEF Core, CoreTypes, PhaseIsOf, WorkerAccounts,
       LocalIsOf, SessionIsAccountedFor, UserStopIsClean, Early, Up, Waiting
<1>. QED  BY <1>2, <1>3 DEF Listen

LEMMA StopServicesKeep ==
  ASSUME Core, StopServices
  PROVE  Core'
<1>1. /\ main.at = "services" /\ UNCHANGED <<worker, gateway>>
      /\ main \in Mains /\ local \in Locals /\ phase \in Phases
  BY DEF StopServices, Core, CoreTypes
<1>2. main' \in Mains /\ main'.at = "netstack"
  BY <1>1 DEF StopServices, Mains, Places
<1>3. local' \in Locals /\ local'.netstack = local.netstack /\ ~local'.listener
  BY <1>1 DEF StopServices, Locals
<1>4. phase' \in Phases
  BY <1>1 DEF StopServices, BeginsStopping, Phases
<1>. QED
  BY <1>1, <1>2, <1>3, <1>4 DEF Core, CoreTypes, PhaseIsOf, WorkerAccounts,
     LocalIsOf, SessionIsAccountedFor, UserStopIsClean, Early, Up, Waiting

LEMMA StopNetstackKeeps ==
  ASSUME Core, StopNetstack
  PROVE  Core'
<1>1. /\ main.at = "netstack" /\ UNCHANGED <<phase, worker, gateway>>
      /\ main \in Mains /\ local \in Locals /\ worker = NoWorker /\ ~local.listener
  BY DEF StopNetstack, Core, CoreTypes, WorkerAccounts, LocalIsOf, Up
<1>2. main' \in Mains /\ main'.at = "logout"
  BY <1>1 DEF StopNetstack, Mains, Places
<1>3. /\ local' \in Locals /\ local'.netstack # "up" /\ ~local'.listener
      /\ local'.netstack = "stuck" => main'.cause = "failure"
  BY <1>1 DEF StopNetstack, Locals, Mains
<1>4. worker.at = "none"
  BY <1>1 DEF NoWorker
<1>. QED
  BY <1>1, <1>2, <1>3, <1>4 DEF Core, CoreTypes, PhaseIsOf, WorkerAccounts,
     LocalIsOf, SessionIsAccountedFor, UserStopIsClean, Early, Up, Waiting

LEMMA GatewayLogoutKeeps ==
  ASSUME Core, GatewayLogout
  PROVE  Core'
<1>1. /\ main.at = "logout" /\ UNCHANGED <<worker, local>>
      /\ gateway \in {"none", "open", "closed"}
  BY DEF GatewayLogout, Core, CoreTypes
<1>2. PICK out \in LogoutOutcomes : gateway' = out.left /\ Collected(~out.ok)
  BY DEF GatewayLogout
<1>. QED  BY <1>1, <1>2, Outcomes, CollectedKeeps

LEMMA CoreKept ==
  ASSUME Core, ControlTypes, [EngineNext]_engineVars
  PROVE  Core'
<1>. USE DEF CoreVars
<1>1. CASE UNCHANGED CoreVars
  BY <1>1, CoreUnchanged
<1>2. ASSUME NEW cause \in {"user", "failure"}, NEW by \in {0} \cup RequestIds, Attending,
             Stops(cause, by), UNCHANGED <<phase, gateway, local>>
      PROVE  Core'
  BY <1>2, CoreStops
<1>3. CASE StopCommitted
  <2>1. PICK r \in shutdowns.elapsed : Stops("user", r)
    BY <1>3 DEF StopCommitted
  <2>2. r \in RequestIds
    BY DEF ControlTypes, Shutdowns
  <2>. QED  BY <1>2, <1>3, <2>1, <2>2 DEF StopCommitted
<1>4. CASE SignalArrives \/ AttemptFails
  BY <1>2, <1>4 DEF SignalArrives, AttemptFails
<1>5. CASE TakeControl
  BY <1>1, <1>2, <1>5, CoreStays DEF TakeControl
<1>6. CASE ControlGone
  BY <1>1, <1>2, <1>6, CoreStays DEF ControlGone
<1>7. CASE PipeEnds \/ ReaderHandles \/ ReaderEnds
  BY <1>1, <1>7 DEF PipeEnds, ReaderHandles, ReaderEnds
<1>8. CASE \E kind \in Kinds : ClientSends(kind)
  BY <1>1, <1>8 DEF ClientSends, Sends
<1>9. CASE \E r \in RequestIds : ClientReads(r) \/ WindowElapses(r)
  BY <1>1, <1>9 DEF ClientReads, WindowElapses
<1>10. CASE UNCHANGED engineVars
  BY <1>1, <1>10 DEF engineVars
<1>. QED
  BY <1>3, <1>4, <1>5, <1>6, <1>7, <1>8, <1>9, <1>10, WorkerStepsKeep, StartsKeep,
     HandshakeKeeps, PromoteKeeps, DrainKeeps, ListenKeeps, StopServicesKeep,
     StopNetstackKeeps, GatewayLogoutKeeps DEF EngineNext

-----------------------------------------------------------------------------
(* Requests and their answers *)

Ending == {"drain", "services", "netstack", "logout", "ended"}

Control ==
  /\ ControlTypes /\ Truthful /\ InOrder /\ ReaderAhead /\ FirstNegotiates
  /\ AcceptedIsPending

\* The coordinator moves; what was asked and answered stays.
LEMMA ControlSame ==
  ASSUME Control, ControlTypes',
         main'.at \in Early => main.at \in Early,
         main'.at \notin Ending => main.at \notin Ending,
         \/ main'.by = main.by
         \/ main'.at \in Ending /\ main'.by \in {0} \cup shutdowns.elapsed,
         pipe'.frames = pipe.frames, client'.next = client.next,
         reader'.active = reader.active, reader'.negotiated = reader.negotiated,
         shutdowns'.pending = shutdowns.pending,
         shutdowns'.elapsed \subseteq shutdowns.pending,
         inputs' = inputs, answers' = answers
  PROVE  Control'
<1>1. Truthful' /\ InOrder' /\ FirstNegotiates'
  BY DEF Control, Truthful, InOrder, FirstNegotiates
<1>2. ReaderAhead'
  BY DEF Control, ReaderAhead, Read, Answered
<1>3. AcceptedIsPending'
  BY DEF Control, AcceptedIsPending, Ending
<1>. QED  BY <1>1, <1>2, <1>3 DEF Control

LEMMA TailIs ==
  ASSUME NEW S, NEW s \in Seq(S), s # <<>>
  PROVE  /\ Head(s) \in S /\ Tail(s) \in Seq(S)
         /\ 1 \in DOMAIN s /\ Head(s) = s[1]
         /\ \A i \in DOMAIN s : i \in Nat \ {0}
         /\ \A i \in DOMAIN Tail(s) : i \in Nat \ {0} /\ i + 1 \in DOMAIN s /\ Tail(s)[i] = s[i + 1]
         /\ \A i \in DOMAIN s : i # 1 => i - 1 \in DOMAIN Tail(s) /\ Tail(s)[i - 1] = s[i]
OBVIOUS

LEMMA AppendIs ==
  ASSUME NEW S, NEW s \in Seq(S), NEW e \in S
  PROVE  /\ Append(s, e) \in Seq(S)
         /\ Len(s) + 1 \in DOMAIN Append(s, e) /\ Append(s, e)[Len(s) + 1] = e
         /\ \A i \in DOMAIN s : i \in 1..Len(s) /\ i \in DOMAIN Append(s, e) /\ Append(s, e)[i] = s[i]
         /\ \A i \in DOMAIN Append(s, e) : i \in DOMAIN s \/ i = Len(s) + 1
OBVIOUS

LEMMA ElementsOf ==
  ASSUME NEW S, NEW s \in Seq(S)
  PROVE  \A i \in DOMAIN s : s[i] \in S
OBVIOUS

LEMMA IdsAreNumbers ==
  ASSUME ControlTypes
  PROVE  /\ RequestIds \subseteq Nat \ {0} /\ client.next \in Nat \ {0}
         /\ \A i \in DOMAIN inputs : inputs[i] \in Exchanges /\ inputs[i].id \in RequestIds
                                      /\ inputs[i].of \in RequestIds
         /\ \A j \in DOMAIN pipe.frames : pipe.frames[j] \in Frame /\ pipe.frames[j].id \in RequestIds
         /\ pipe.frames \in Seq(Frame) /\ inputs \in Seq(Exchanges)
<1>1. MaxFrames \in Nat
  BY EngineAssumption DEF EngineAssumption
<1>2. RequestIds \subseteq Nat \ {0} /\ client.next \in Nat \ {0}
  BY <1>1 DEF RequestIds, ControlTypes, Clients
<1>3. pipe.frames \in Seq(Frame) /\ inputs \in Seq(Exchanges)
  BY DEF ControlTypes, Pipes
<1>4. \A j \in DOMAIN pipe.frames : pipe.frames[j] \in Frame /\ pipe.frames[j].id \in RequestIds
  <2>1. \A f \in Frame : f.id \in RequestIds
    BY DEF Frame
  <2>. QED  BY <1>3, <2>1, ElementsOf
<1>5. \A i \in DOMAIN inputs : inputs[i] \in Exchanges /\ inputs[i].id \in RequestIds
                                /\ inputs[i].of \in RequestIds
  <2>1. \A e \in Exchanges : e.id \in RequestIds /\ e.of \in RequestIds
    BY DEF Exchanges
  <2>. QED  BY <1>3, <2>1, ElementsOf
<1>. QED  BY <1>2, <1>3, <1>4, <1>5

\* A frame gets the next number, whether or not it arrives.
LEMMA SendsKeep ==
  ASSUME Control, NEW kind \in Kinds, NEW of \in RequestIds,
         Sends([kind |-> kind, id |-> client.next, of |-> of])
  PROVE  Control'
<1>. DEFINE frame == [kind |-> kind, id |-> client.next, of |-> of]
<1>0. ControlTypes
  BY DEF Control
<1>1. /\ client.next <= MaxFrames
      /\ UNCHANGED <<main, reader, inputs, shutdowns, answers>>
      /\ client' \in {[client EXCEPT !.next = @ + 1, !.pending = @ \cup {client.next}],
                      [client EXCEPT !.next = @ + 1]}
      /\ pipe' \in {pipe, [pipe EXCEPT !.frames = Append(@, frame)]}
  BY DEF Sends
<1>2. MaxFrames \in Nat
  BY EngineAssumption DEF EngineAssumption
<1>3. client.next \in RequestIds /\ client.next \in Nat
  BY <1>0, <1>1, <1>2, IdsAreNumbers DEF RequestIds
<1>4. client' \in Clients /\ client'.next = client.next + 1
  <2>1. client \in Clients /\ client.next + 1 \in 1..MaxFrames + 1
    BY <1>0, <1>1, <1>2, <1>3 DEF ControlTypes
  <2>2. CASE client' = [client EXCEPT !.next = @ + 1, !.pending = @ \cup {client.next}]
    <3>1. client.pending \cup {client.next} \in SUBSET RequestIds
      BY <1>3, <2>1 DEF Clients
    <3>. QED  BY <2>1, <2>2, <3>1 DEF Clients
  <2>3. CASE client' = [client EXCEPT !.next = @ + 1]
    BY <2>1, <2>3 DEF Clients
  <2>. QED  BY <1>1, <2>2, <2>3
<1>5. frame \in Frame /\ frame.id = client.next
  BY <1>3 DEF Frame
<1>. HIDE DEF frame
<1>6. pipe' \in Pipes /\ pipe'.frames \in {pipe.frames, Append(pipe.frames, frame)}
  <2>1. pipe \in Pipes /\ Append(pipe.frames, frame) \in Seq(Frame)
    BY <1>0, <1>5, AppendIs, IdsAreNumbers DEF ControlTypes
  <2>2. CASE pipe' = [pipe EXCEPT !.frames = Append(@, frame)]
    BY <2>1, <2>2 DEF Pipes
  <2>. QED  BY <1>1, <2>1, <2>2
<1>7. \A j \in DOMAIN pipe'.frames :
        \/ j \in DOMAIN pipe.frames /\ pipe'.frames[j] = pipe.frames[j]
        \/ j = Len(pipe.frames) + 1 /\ pipe'.frames[j].id = client.next
  <2>1. CASE pipe'.frames = pipe.frames
    BY <2>1
  <2>2. CASE pipe'.frames = Append(pipe.frames, frame)
    <3>1. pipe.frames \in Seq(Frame)
      BY <1>0, IdsAreNumbers
    <3>. QED  BY <1>5, <2>2, <3>1, AppendIs
  <2>. QED  BY <1>6, <2>1, <2>2
<1>8. \A j \in DOMAIN pipe.frames : j \in 1..Len(pipe.frames)
  BY <1>0, IdsAreNumbers
<1>9. Len(pipe.frames) \in Nat
  BY <1>0, IdsAreNumbers
<1>10. ControlTypes' /\ Truthful' /\ FirstNegotiates' /\ AcceptedIsPending'
  BY <1>0, <1>1, <1>4, <1>6
     DEF Control, ControlTypes, Truthful, FirstNegotiates, AcceptedIsPending
<1>11. ASSUME NEW r \in Nat, Read(r)
       PROVE  Read(r)'
  BY <1>0, <1>3, <1>4, <1>7, <1>11 DEF Read
<1>12. InOrder'
  <2>1. \A i, j \in DOMAIN pipe'.frames : i < j => pipe'.frames[i].id < pipe'.frames[j].id
    BY <1>0, <1>3, <1>7, <1>8, <1>9, IdsAreNumbers DEF Control, InOrder
  <2>2. \A i \in DOMAIN inputs, j \in DOMAIN pipe'.frames : inputs[i].id < pipe'.frames[j].id
    BY <1>7 DEF Control, InOrder
  <2>3. \A i \in DOMAIN inputs : inputs[i].id < client'.next
    BY <1>0, <1>3, <1>4, IdsAreNumbers DEF Control, InOrder
  <2>4. \A j \in DOMAIN pipe'.frames : pipe'.frames[j].id < client'.next
    BY <1>0, <1>3, <1>4, <1>7, IdsAreNumbers DEF Control, InOrder
  <2>. QED  BY <1>1, <2>1, <2>2, <2>3, <2>4 DEF Control, InOrder
<1>13. ReaderAhead'
  <2>1. \A r \in RequestIds : answers[r] # "none" => Answered(r)'
    BY <1>0, <1>1, <1>11, IdsAreNumbers DEF Control, ReaderAhead, Answered
  <2>2. \A r \in reader.active : r \in Nat
    BY <1>0, IdsAreNumbers DEF ControlTypes, Readers
  <2>3. \A i \in DOMAIN inputs : inputs[i].action = "cancel" => Read(inputs[i].of)'
    <3>1. ASSUME NEW i \in DOMAIN inputs, inputs[i].action = "cancel"
          PROVE  Read(inputs[i].of) /\ inputs[i].of \in Nat
      BY <1>0, <3>1, IdsAreNumbers DEF Control, ReaderAhead
    <3>2. ASSUME NEW r, r \in Nat, Read(r)
          PROVE  Read(r)'
      BY <1>11, <3>2
    <3>. QED  BY <1>1, <3>1, <3>2
  <2>. QED  BY <1>1, <1>11, <2>1, <2>2, <2>3 DEF Control, ReaderAhead
<1>. QED  BY <1>10, <1>12, <1>13 DEF Control

LEMMA HandledIs ==
  ASSUME NEW f \in Frame, reader \in Readers
  PROVE  /\ Handled(f) \in Exchanges
         /\ Handled(f).id = f.id /\ Handled(f).of = f.of
         /\ Handled(f).answer = "hello" => ~Handled(f).v3
         /\ Handled(f).action = "shutdown" => Handled(f).answer = "accepted"
         /\ Handled(f).action \in {"none", "cancel"} => Handled(f).answer # "accepted"
         /\ Handled(f).action # "none" => reader.negotiated
         /\ Handled(f).action = "cancel" => f.of \in reader.active
<1>1. f.kind \in Kinds /\ f.id \in RequestIds /\ f.of \in RequestIds
  BY DEF Frame
<1>2. ASSUME NEW answer \in Answers, NEW action \in {"none", "shutdown", "close", "cancel"}
      PROVE  /\ Exchange(f, answer, action) \in Exchanges
             /\ Exchange(f, answer, action).id = f.id /\ Exchange(f, answer, action).of = f.of
             /\ f.kind # "auth" => ~Exchange(f, answer, action).v3
             /\ Exchange(f, answer, action).answer = answer
             /\ Exchange(f, answer, action).action = action
  BY <1>1 DEF Exchange, Exchanges
<1>. DEFINE as(answer, action) == Handled(f) = Exchange(f, answer, action)
<1>3. \/ f.kind # "auth" /\ as("hello", "none")
      \/ as("other", "none")
      \/ reader.negotiated /\ (as("accepted", "shutdown") \/ as("accepted", "close"))
      \/ reader.negotiated /\ f.of \in reader.active /\ as("cancelled", "cancel")
  BY <1>1 DEF Handled
<1>4. CASE f.kind # "auth" /\ as("hello", "none")
  BY <1>2, <1>4 DEF Answers
<1>5. CASE as("other", "none")
  BY <1>2, <1>5 DEF Answers
<1>6. CASE reader.negotiated /\ as("accepted", "shutdown")
  BY <1>2, <1>6 DEF Answers
<1>7. CASE reader.negotiated /\ as("accepted", "close")
  BY <1>2, <1>7 DEF Answers
<1>8. CASE reader.negotiated /\ f.of \in reader.active /\ as("cancelled", "cancel")
  BY <1>2, <1>8 DEF Answers
<1>. QED  BY <1>3, <1>4, <1>5, <1>6, <1>7, <1>8

LEMMA ReaderIs ==
  ASSUME NEW a \in BOOLEAN, NEW b \in BOOLEAN, NEW c \in SUBSET RequestIds
  PROVE  [open |-> a, negotiated |-> b, active |-> c] \in Readers
BY DEF Readers

\* What the reader hands over, and which shutdowns it counts as active.
LEMMA ReaderHandlesKeeps ==
  ASSUME Control, ReaderHandles
  PROVE  Control'
<1>. DEFINE f == Head(pipe.frames)
            e == Handled(f)
            n == Len(inputs) + 1
            nextRead(r) == r < client'.next /\ \A j \in DOMAIN pipe'.frames : r < pipe'.frames[j].id
<1>0. ControlTypes
  BY DEF Control
<1>1. /\ pipe.frames # <<>> /\ inputs' = Append(inputs, e)
      /\ reader'.negotiated = (reader.negotiated \/ e.answer = "hello")
      /\ reader'.active = IF e.action = "shutdown" THEN reader.active \cup {e.id}
                          ELSE IF e.action = "cancel" THEN reader.active \ {e.of}
                          ELSE reader.active
      /\ reader' = [open |-> e.action # "close", negotiated |-> reader.negotiated \/ e.answer = "hello",
                    active |-> reader'.active]
      /\ pipe' = [pipe EXCEPT !.frames = Tail(@)]
      /\ UNCHANGED <<main, shutdowns, answers, client>>
  BY DEF ReaderHandles
<1>2. /\ f \in Frame /\ Tail(pipe.frames) \in Seq(Frame)
      /\ 1 \in DOMAIN pipe.frames /\ f = pipe.frames[1]
      /\ \A j \in DOMAIN Tail(pipe.frames) :
           j \in Nat \ {0} /\ j + 1 \in DOMAIN pipe.frames
             /\ Tail(pipe.frames)[j] = pipe.frames[j + 1]
  BY <1>0, <1>1, TailIs, IdsAreNumbers
<1>3. /\ e \in Exchanges /\ e.id = f.id /\ e.of = f.of
      /\ e.answer = "hello" => ~e.v3
      /\ e.action = "shutdown" => e.answer = "accepted"
      /\ e.action \in {"none", "cancel"} => e.answer # "accepted"
      /\ e.action # "none" => reader.negotiated
      /\ e.action = "cancel" => f.of \in reader.active
  BY <1>0, <1>2, HandledIs DEF ControlTypes
<1>4. f.id \in RequestIds /\ f.of \in RequestIds /\ f.id \in Nat
  BY <1>0, <1>2, IdsAreNumbers DEF Frame
<1>. HIDE DEF f, e
<1>5. /\ inputs' \in Seq(Exchanges)
      /\ n \in DOMAIN inputs' /\ inputs'[n] = e
      /\ \A i \in DOMAIN inputs : i \in 1..Len(inputs) /\ i \in DOMAIN inputs' /\ inputs'[i] = inputs[i]
      /\ \A i \in DOMAIN inputs' : i \in DOMAIN inputs \/ i = n
  BY <1>0, <1>1, <1>3, AppendIs, IdsAreNumbers
<1>6. /\ pipe' \in Pipes /\ DOMAIN pipe'.frames = DOMAIN Tail(pipe.frames)
      /\ \A j \in DOMAIN pipe'.frames :
           j \in Nat \ {0} /\ j + 1 \in DOMAIN pipe.frames /\ pipe'.frames[j] = pipe.frames[j + 1]
  <2>1. pipe' \in Pipes /\ pipe'.frames = Tail(pipe.frames)
    BY <1>0, <1>1, <1>2 DEF ControlTypes, Pipes
  <2>. QED  BY <1>2, <2>1
<1>7. reader' \in Readers
  <2>1. reader.negotiated \in BOOLEAN /\ reader.active \in SUBSET RequestIds
    BY <1>0 DEF ControlTypes, Readers
  <2>2. reader'.active \in SUBSET RequestIds
    BY <1>1, <1>3, <1>4, <2>1
  <2>3. (reader.negotiated \/ e.answer = "hello") \in BOOLEAN /\ (e.action # "close") \in BOOLEAN
    OBVIOUS
  <2>. QED  BY <1>1, <2>2, <2>3, ReaderIs, Zenon
<1>8. n \in Nat /\ \A i \in DOMAIN inputs : i < n
  BY <1>0, IdsAreNumbers
<1>9. ControlTypes'
  BY <1>0, <1>1, <1>5, <1>6, <1>7 DEF ControlTypes
<1>10. Truthful'
  BY <1>3, <1>5 DEF Control, Truthful
\* The frame that is read comes after what was, and before what will be.
<1>11. /\ \A i \in DOMAIN inputs : inputs[i].id < f.id
       /\ \A j \in DOMAIN pipe'.frames : f.id < pipe'.frames[j].id
       /\ f.id < client.next
  <2>1. \A j \in DOMAIN pipe'.frames : 1 < j + 1
    BY <1>6
  <2>. QED  BY <1>2, <1>6, <2>1 DEF Control, InOrder
<1>12. ASSUME NEW r, Read(r)
       PROVE  r < f.id /\ nextRead(r)
  BY <1>1, <1>2, <1>6, <1>12 DEF Read
<1>13. InOrder'
  <2>1. \A i, j \in DOMAIN pipe'.frames : i < j => pipe'.frames[i].id < pipe'.frames[j].id
    BY <1>6 DEF Control, InOrder
  <2>2. \A i, j \in DOMAIN inputs' : i < j => inputs'[i].id < inputs'[j].id
    BY <1>3, <1>5, <1>8, <1>11 DEF Control, InOrder
  <2>3. \A i \in DOMAIN inputs', j \in DOMAIN pipe'.frames : inputs'[i].id < pipe'.frames[j].id
    BY <1>3, <1>5, <1>6, <1>11 DEF Control, InOrder
  <2>4. \A i \in DOMAIN inputs' : inputs'[i].id < client'.next
    BY <1>1, <1>3, <1>5, <1>11 DEF Control, InOrder
  <2>5. \A j \in DOMAIN pipe'.frames : pipe'.frames[j].id < client'.next
    BY <1>1, <1>6 DEF Control, InOrder
  <2>. QED  BY <2>1, <2>2, <2>3, <2>4, <2>5 DEF InOrder
<1>14. nextRead(f.id)
  BY <1>1, <1>11
<1>15. ReaderAhead'
  <2>1. \A r \in RequestIds : answers'[r] # "none" => Answered(r)'
    <3>1. ASSUME NEW r \in RequestIds, answers[r] # "none"
          PROVE  Read(r) /\ \A i \in DOMAIN inputs : r < inputs[i].id
      BY <3>1 DEF Control, ReaderAhead, Answered
    <3>2. ASSUME NEW r \in RequestIds, answers[r] # "none"
          PROVE  nextRead(r) /\ \A i \in DOMAIN inputs' : r < inputs'[i].id
      BY <1>3, <1>5, <1>12, <3>1, <3>2
    <3>. QED  BY <1>1, <3>2 DEF Answered, Read
  <2>2. \A r \in reader'.active : nextRead(r)
    BY <1>1, <1>3, <1>12, <1>14 DEF Control, ReaderAhead
  <2>3. ASSUME NEW i \in DOMAIN inputs
        PROVE  /\ inputs[i].id \in reader'.active => inputs[i].action = "shutdown"
               /\ inputs[i].action = "cancel" => nextRead(inputs[i].of) /\ inputs[i].of \notin reader'.active
    <3>1. inputs[i].id # f.id
      BY <1>0, <1>4, <1>11, IdsAreNumbers
    <3>2. inputs[i].id \in reader'.active => inputs[i].id \in reader.active
      BY <1>1, <1>3, <3>1
    <3>3. inputs[i].action = "cancel" => Read(inputs[i].of) /\ inputs[i].of \notin reader.active
      BY DEF Control, ReaderAhead
    <3>4. inputs[i].action = "cancel" => inputs[i].of < f.id /\ nextRead(inputs[i].of)
      BY <1>12, <3>3
    <3>5. inputs[i].action = "cancel" => inputs[i].of # f.id
      BY <1>0, <1>4, <3>4, IdsAreNumbers
    <3>6. inputs[i].action = "cancel" => inputs[i].of \notin reader'.active
      BY <1>1, <1>3, <3>3, <3>5
    <3>. QED  BY <3>2, <3>4, <3>6 DEF Control, ReaderAhead
  <2>4. f.id \notin reader.active
    <3>1. f.id \in reader.active => f.id < f.id
      BY <1>12 DEF Control, ReaderAhead
    <3>. QED  BY <1>4, <3>1
  <2>5. e.id \in reader'.active => e.action = "shutdown"
    BY <1>1, <1>3, <2>4
  <2>6. e.action = "cancel" => nextRead(e.of) /\ e.of \notin reader'.active
    <3>1. e.action = "cancel" => Read(f.of)
      BY <1>3 DEF Control, ReaderAhead
    <3>. QED  BY <1>1, <1>3, <1>12, <3>1
  <2>. QED  BY <1>5, <2>1, <2>2, <2>3, <2>5, <2>6 DEF ReaderAhead, Read
<1>16. FirstNegotiates'
  <2>1. SUFFICES ASSUME main.at \in Early
                 PROVE  /\ reader'.negotiated => \E i \in DOMAIN inputs' : ~inputs'[i].v3
                        /\ \A i \in DOMAIN inputs' :
                             inputs'[i].action # "none" => \E j \in 1..(i - 1) : ~inputs'[j].v3
    BY <1>1 DEF Control, FirstNegotiates
  <2>2. reader.negotiated => \E i \in DOMAIN inputs : ~inputs[i].v3
    BY <2>1 DEF Control, FirstNegotiates
  <2>3. reader'.negotiated => \E i \in DOMAIN inputs' : ~inputs'[i].v3
    BY <1>1, <1>3, <1>5, <2>2
  <2>4. ASSUME NEW i \in DOMAIN inputs, inputs[i].action # "none"
        PROVE  \E j \in 1..(i - 1) : ~inputs'[j].v3
    <3>1. PICK j \in 1..(i - 1) : ~inputs[j].v3
      BY <2>1, <2>4 DEF Control, FirstNegotiates
    <3>2. j \in DOMAIN inputs
      BY <1>0, <1>5, <3>1, IdsAreNumbers
    <3>. QED  BY <1>5, <3>1, <3>2
  <2>5. ASSUME e.action # "none"
        PROVE  \E j \in 1..(n - 1) : ~inputs'[j].v3
    <3>1. PICK j \in DOMAIN inputs : ~inputs[j].v3
      BY <1>3, <2>2, <2>5
    <3>2. j \in 1..(n - 1)
      BY <1>0, <1>5, <1>8, IdsAreNumbers
    <3>. QED  BY <1>5, <3>1, <3>2
  <2>. QED  BY <1>5, <2>3, <2>4, <2>5
<1>17. AcceptedIsPending'
  <2>1. answers[f.id] # "accepted"
    <3>1. answers[f.id] # "none" => f.id < f.id
      BY <1>4, <1>12 DEF Control, ReaderAhead, Answered
    <3>. QED  BY <1>4, <3>1
  <2>2. \A r \in reader'.active : r \in reader.active \/ r = f.id
    BY <1>1, <1>3
  <2>. QED  BY <1>1, <2>1, <2>2 DEF Control, AcceptedIsPending
<1>. QED  BY <1>9, <1>10, <1>13, <1>15, <1>16, <1>17 DEF Control

\* The coordinator takes the first exchange, and its answer goes out or is lost.
LEMMA TakingKeeps ==
  ASSUME Control, inputs # <<>>, inputs' = Tail(inputs), UNCHANGED <<pipe, reader, client>>,
         answers' \in {answers, [answers EXCEPT ![Head(inputs).id] = Head(inputs).answer]},
         shutdowns' \in Shutdowns
  PROVE  /\ ControlTypes' /\ Truthful' /\ InOrder' /\ ReaderAhead'
         /\ Head(inputs) \in Exchanges /\ 1 \in DOMAIN inputs /\ Head(inputs) = inputs[1]
         /\ \A i \in DOMAIN inputs' :
              i \in Nat \ {0} /\ i + 1 \in DOMAIN inputs /\ inputs'[i] = inputs[i + 1]
         /\ \A i \in DOMAIN inputs : i # 1 => i - 1 \in DOMAIN inputs' /\ inputs'[i - 1] = inputs[i]
         /\ answers[Head(inputs).id] = "none"
<1>. DEFINE e == Head(inputs)
<1>0. ControlTypes
  BY DEF Control
<1>1. /\ e \in Exchanges /\ inputs' \in Seq(Exchanges) /\ 1 \in DOMAIN inputs /\ e = inputs[1]
      /\ \A i \in DOMAIN inputs : i \in Nat \ {0}
      /\ \A i \in DOMAIN inputs' :
           i \in Nat \ {0} /\ i + 1 \in DOMAIN inputs /\ inputs'[i] = inputs[i + 1]
      /\ \A i \in DOMAIN inputs : i # 1 => i - 1 \in DOMAIN inputs' /\ inputs'[i - 1] = inputs[i]
  BY <1>0, TailIs, IdsAreNumbers
<1>2. answers' \in {answers, [answers EXCEPT ![e.id] = e.answer]}
  OBVIOUS
<1>. HIDE DEF e
<1>3. e.id \in RequestIds /\ e.answer \in Answers /\ e.id \in Nat
  BY <1>0, <1>1, IdsAreNumbers DEF Exchanges
<1>4. answers' \in [RequestIds -> Answers] /\ \A r \in RequestIds : r # e.id => answers'[r] = answers[r]
  BY <1>0, <1>2, <1>3 DEF ControlTypes
<1>5. ControlTypes'
  BY <1>0, <1>1, <1>4 DEF ControlTypes
<1>6. Truthful'
  BY <1>1 DEF Control, Truthful
<1>7. \A i \in DOMAIN inputs' : e.id < inputs'[i].id
  <2>1. \A i \in DOMAIN inputs' : 1 < i + 1
    BY <1>1
  <2>. QED  BY <1>1, <2>1 DEF Control, InOrder
<1>8. InOrder'
  <2>1. \A i, j \in DOMAIN inputs' : i < j => inputs'[i].id < inputs'[j].id
    BY <1>1 DEF Control, InOrder
  <2>. QED  BY <1>1, <2>1 DEF Control, InOrder
<1>9. ReaderAhead'
  <2>1. \A r \in RequestIds : answers[r] # "none" => Answered(r)
    BY DEF Control, ReaderAhead
  <2>2. \A r \in RequestIds : answers[r] # "none" => \A i \in DOMAIN inputs' : r < inputs'[i].id
    BY <1>1, <2>1 DEF Answered
  <2>3. Read(e.id)
    BY <1>1 DEF Control, InOrder, Read
  <2>4. \A r \in RequestIds : answers'[r] # "none" => Answered(r)'
    BY <1>3, <1>4, <1>7, <2>1, <2>2, <2>3 DEF Answered, Read
  <2>5. \A r \in reader.active : Read(r)'
    BY DEF Control, ReaderAhead, Read
  <2>6. \A i \in DOMAIN inputs' :
          /\ inputs'[i].id \in reader.active => inputs'[i].action = "shutdown"
          /\ inputs'[i].action = "cancel" =>
               Read(inputs'[i].of) /\ inputs'[i].of \notin reader.active
    BY <1>1 DEF Control, ReaderAhead
  <2>. QED  BY <2>4, <2>5, <2>6 DEF ReaderAhead, Read
<1>10. answers[e.id] = "none"
  <2>1. answers[e.id] # "none" => e.id < e.id
    BY <1>1, <1>3 DEF Control, ReaderAhead, Answered
  <2>. QED  BY <1>3, <2>1
<1>. QED  BY <1>1, <1>5, <1>6, <1>8, <1>9, <1>10 DEF e

LEMMA AttendingPlaces ==
  ASSUME Attending
  PROVE  main.at \notin Early /\ main.at \notin Ending
BY DEF Attending, Waiting, Early, Ending

LEMMA TakeControlKeeps ==
  ASSUME Core, Control, TakeControl
  PROVE  Control'
<1>. DEFINE e == Head(inputs)
<1>0. /\ Attending /\ inputs # <<>> /\ inputs' = Tail(inputs) /\ UNCHANGED <<pipe, reader, client>>
      /\ ControlTypes /\ main \in Mains /\ worker \in Workers
  BY DEF TakeControl, Control, Core, CoreTypes
<1>1. ASSUME NEW cause \in {"user", "failure"}, Stops(cause, 0)
      PROVE  main'.at \in Ending /\ main'.by = 0
  BY <1>0, <1>1, StopsType DEF RequestIds, Ending
<1>2. CASE Stops("failure", 0) /\ UNCHANGED <<answers, shutdowns>>
  <2>1. shutdowns' \in Shutdowns
    BY <1>0, <1>2 DEF ControlTypes
  <2>2. ControlTypes' /\ Truthful' /\ InOrder' /\ ReaderAhead'
    BY <1>0, <1>2, <2>1, TakingKeeps
  <2>3. FirstNegotiates' /\ AcceptedIsPending'
    BY <1>1, <1>2 DEF Control, FirstNegotiates, AcceptedIsPending, Early, Ending
  <2>. QED  BY <2>2, <2>3 DEF Control
<1>3. CASE /\ answers' = [answers EXCEPT ![e.id] = e.answer]
           /\ shutdowns' = IF e.action = "shutdown" THEN [shutdowns EXCEPT !.pending = @ \cup {e.id}]
                           ELSE IF e.action = "cancel"
                           THEN [pending |-> shutdowns.pending \ {e.of}, elapsed |-> shutdowns.elapsed \ {e.of}]
                           ELSE shutdowns
           /\ IF e.action # "close" THEN UNCHANGED <<main, worker>>
              ELSE IF main.at = "serving" THEN main' = [main EXCEPT !.receiver = FALSE] /\ UNCHANGED worker
              ELSE Stops("user", 0)
  <2>1. /\ e \in Exchanges /\ e = inputs[1] /\ 1 \in DOMAIN inputs
    BY <1>0, TailIs, IdsAreNumbers
  <2>2. answers' = [answers EXCEPT ![e.id] = e.answer]
    BY <1>3
  <2>3. /\ shutdowns'.pending = IF e.action = "shutdown" THEN shutdowns.pending \cup {e.id}
                                ELSE IF e.action = "cancel" THEN shutdowns.pending \ {e.of}
                                ELSE shutdowns.pending
        /\ shutdowns'.elapsed \subseteq shutdowns.elapsed
        /\ e.action = "cancel" => shutdowns'.elapsed = shutdowns.elapsed \ {e.of}
        /\ shutdowns' \in Shutdowns
    BY <1>0, <1>3, <2>1 DEF ControlTypes, Shutdowns, Exchanges
  <2>4. /\ main'.at = main.at \/ main'.at \in Ending
        /\ main'.by = main.by \/ main'.by = 0
    <3>1. CASE UNCHANGED <<main, worker>>
      BY <3>1
    <3>2. CASE main' = [main EXCEPT !.receiver = FALSE]
      BY <1>0, <3>2 DEF Mains
    <3>3. CASE Stops("user", 0)
      BY <1>1, <3>3
    <3>. QED  BY <1>3, <3>1, <3>2, <3>3
  <2>5. /\ ControlTypes' /\ Truthful' /\ InOrder' /\ ReaderAhead'
        /\ answers[e.id] = "none"
    BY <1>0, <2>2, <2>3, TakingKeeps
  <2>. HIDE DEF e
  <2>6. e.id \in RequestIds /\ \A r \in RequestIds : answers'[r] = IF r = e.id THEN e.answer ELSE answers[r]
    BY <1>0, <2>1, <2>2 DEF ControlTypes, Exchanges
  <2>7. /\ e.action = "shutdown" => e.answer = "accepted"
        /\ e.action \in {"none", "cancel"} => e.answer # "accepted"
        /\ e.id \in reader.active => e.action = "shutdown"
        /\ e.action = "cancel" => e.of \notin reader.active
    BY <2>1 DEF Control, Truthful, ReaderAhead
  <2>8. FirstNegotiates'
    BY <1>0, <2>4, AttendingPlaces DEF FirstNegotiates, Early, Ending
  <2>9. reader.active \subseteq RequestIds /\ shutdowns.pending \subseteq RequestIds
    BY <1>0 DEF ControlTypes, Readers, Shutdowns
  <2>10. main.by = 0 /\ \A r \in reader.active : answers[r] = "accepted" => r \in shutdowns.pending
    BY <1>0, AttendingPlaces DEF Control, AcceptedIsPending, Ending
  <2>11. \A r \in reader.active : answers'[r] = "accepted" => r \in shutdowns'.pending
    BY <2>3, <2>6, <2>7, <2>9, <2>10
  <2>12. \A r \in shutdowns'.pending : answers'[r] = "accepted"
    BY <2>3, <2>5, <2>6, <2>7, <2>9 DEF Control, AcceptedIsPending
  <2>13. shutdowns'.elapsed \subseteq shutdowns'.pending
    BY <2>3 DEF Control, AcceptedIsPending
  <2>14. AcceptedIsPending'
    BY <1>0, <2>4, <2>10, <2>11, <2>12, <2>13 DEF AcceptedIsPending
  <2>. QED  BY <2>5, <2>8, <2>14 DEF Control
<1>. QED  BY <1>2, <1>3 DEF TakeControl

\* Nothing that comes before the first exchange of version 2 has an effect.
LEMMA HandshakeAnswers ==
  ASSUME Core, Control, Handshake, inputs # <<>>, inputs' = Tail(inputs),
         answers' = [answers EXCEPT ![Head(inputs).id] = Head(inputs).answer],
         UNCHANGED shutdowns, main'.by = main.by,
         main'.at \in Early => Head(inputs).v3
  PROVE  Control'
<1>. DEFINE e == Head(inputs)
<1>0. /\ main.at = "handshake" /\ UNCHANGED <<pipe, reader, client>> /\ ControlTypes
  BY DEF Handshake, Control
<1>1. shutdowns' \in Shutdowns
  BY <1>0 DEF ControlTypes
<1>2. /\ ControlTypes' /\ Truthful' /\ InOrder' /\ ReaderAhead'
      /\ e \in Exchanges /\ 1 \in DOMAIN inputs /\ e = inputs[1]
      /\ \A i \in DOMAIN inputs' :
           i \in Nat \ {0} /\ i + 1 \in DOMAIN inputs /\ inputs'[i] = inputs[i + 1]
      /\ \A i \in DOMAIN inputs : i # 1 => i - 1 \in DOMAIN inputs' /\ inputs'[i - 1] = inputs[i]
  BY <1>0, <1>1, TakingKeeps
<1>3. answers' = [answers EXCEPT ![e.id] = e.answer]
  OBVIOUS
<1>4. main'.at \in Early => e.v3
  OBVIOUS
<1>. HIDE DEF e
<1>5. /\ \A r \in RequestIds : answers[r] # "accepted"
      /\ shutdowns.pending = {}
      /\ reader.negotiated => \E i \in DOMAIN inputs : ~inputs[i].v3
      /\ \A i \in DOMAIN inputs : inputs[i].action # "none" => \E j \in 1..(i - 1) : ~inputs[j].v3
  BY <1>0 DEF Control, FirstNegotiates, Early
<1>6. e.answer # "accepted"
  <2>1. e.action = "none"
    BY <1>2, <1>5
  <2>. QED  BY <1>2, <2>1 DEF Control, Truthful
<1>7. \A r \in RequestIds : answers'[r] # "accepted"
  BY <1>0, <1>3, <1>5, <1>6 DEF ControlTypes
<1>8. ASSUME e.v3
      PROVE  /\ reader.negotiated => \E i \in DOMAIN inputs' : ~inputs'[i].v3
             /\ \A i \in DOMAIN inputs' :
                  inputs'[i].action # "none" => \E j \in 1..(i - 1) : ~inputs'[j].v3
  <2>1. ASSUME NEW i \in DOMAIN inputs, ~inputs[i].v3
        PROVE  i - 1 \in DOMAIN inputs' /\ ~inputs'[i - 1].v3
    BY <1>2, <1>8, <2>1
  <2>2. ASSUME NEW i \in DOMAIN inputs', inputs'[i].action # "none"
        PROVE  \E j \in 1..(i - 1) : ~inputs'[j].v3
    <3>1. i \in Nat \ {0} /\ i + 1 \in DOMAIN inputs /\ inputs[i + 1].action # "none"
      BY <1>2, <2>2
    <3>2. PICK j \in 1..(i + 1 - 1) : ~inputs[j].v3
      BY <1>5, <3>1
    <3>3. j \in DOMAIN inputs /\ j # 1
      BY <1>0, <1>2, <1>8, <3>1, <3>2, IdsAreNumbers
    <3>4. ~inputs'[j - 1].v3
      BY <2>1, <3>2, <3>3
    <3>5. j - 1 \in 1..(i - 1)
      BY <3>1, <3>2, <3>3
    <3>. QED  BY <3>4, <3>5
  <2>. QED  BY <1>5, <2>1, <2>2
<1>9. FirstNegotiates'
  BY <1>0, <1>4, <1>5, <1>7, <1>8 DEF FirstNegotiates
<1>10. AcceptedIsPending'
  <2>1. main.by = 0 /\ shutdowns.elapsed \subseteq shutdowns.pending
    BY <1>0 DEF Control, AcceptedIsPending
  <2>2. reader.active \subseteq RequestIds
    BY <1>0 DEF ControlTypes, Readers
  <2>. QED  BY <1>0, <1>5, <1>7, <2>1, <2>2 DEF AcceptedIsPending
<1>. QED  BY <1>2, <1>9, <1>10 DEF Control

LEMMA HandshakeControl ==
  ASSUME Core, Control, Handshake
  PROVE  Control'
<1>0. /\ main.at = "handshake" /\ UNCHANGED <<pipe, reader, client>> /\ ControlTypes /\ main \in Mains
  BY DEF Handshake, Control, Core, CoreTypes
<1>1. ASSUME main' = [main EXCEPT !.at = "auth"]
      PROVE  main'.at = "auth" /\ main'.by = main.by
  BY <1>0, <1>1 DEF Mains
<1>2. ASSUME NEW cause \in {"user", "failure"}, Ended(cause, FALSE)
      PROVE  main'.at = "ended" /\ main'.by = main.by
  BY <1>0, <1>2, EndedType
<1>3. ASSUME UNCHANGED <<inputs, shutdowns, answers>>,
             main'.at \in {"auth", "ended"}, main'.by = main.by
      PROVE  Control'
  <2>1. ControlTypes' /\ shutdowns'.elapsed \subseteq shutdowns.pending
    BY <1>0, <1>3 DEF Control, ControlTypes, AcceptedIsPending
  <2>. QED  BY <1>0, <1>3, <2>1, ControlSame DEF Early, Ending
<1>4. ASSUME main.receiver, inputs # <<>>, inputs' = Tail(inputs), UNCHANGED shutdowns,
             answers' = [answers EXCEPT ![Head(inputs).id] = Head(inputs).answer],
             \/ Head(inputs).v3 /\ main' = main
             \/ main'.at \in {"auth", "ended"} /\ main'.by = main.by
      PROVE  Control'
  BY <1>4, HandshakeAnswers DEF Early
<1>. QED  BY <1>1, <1>2, <1>3, <1>4 DEF Handshake

\* The coordinator does not go back, and stops for nothing but what is committed.
Moves ==
  /\ main'.at \in Early => main.at \in Early
  /\ main'.at \notin Ending => main.at \notin Ending
  /\ \/ main'.by = main.by
     \/ main'.at \in Ending /\ main'.by \in {0} \cup shutdowns.elapsed

LEMMA MovesKeep ==
  ASSUME Control, ControlOnly, Moves
  PROVE  Control'
<1>1. ControlTypes' /\ shutdowns'.elapsed \subseteq shutdowns.pending
  BY DEF Control, ControlTypes, AcceptedIsPending, ControlOnly
<1>. QED  BY <1>1, ControlSame DEF Moves, ControlOnly

LEMMA EndedMoves ==
  ASSUME main \in Mains, NEW cause, NEW u, Ended(cause, u)
  PROVE  Moves
<1>1. main'.at = "ended" /\ main'.by = main.by
  BY DEF Ended, Mains
<1>. QED  BY <1>1 DEF Moves, Early, Ending

LEMMA CollectedMoves ==
  ASSUME main \in Mains, NEW u, Collected(u)
  PROVE  Moves
BY EndedMoves DEF Collected

LEMMA StopsMoves ==
  ASSUME main \in Mains, NEW cause, NEW by \in {0} \cup shutdowns.elapsed, Stops(cause, by)
  PROVE  Moves
<1>1. main'.at \in {"drain", "services"} /\ main'.by = by
  BY DEF Stops, Mains
<1>. QED  BY <1>1 DEF Moves, Early, Ending

LEMMA MainMoves ==
  ASSUME Core,
         \/ WorkerSteps \/ Starts \/ StopCommitted \/ SignalArrives \/ AttemptFails
         \/ ControlGone \/ Promote \/ Drain \/ Listen \/ StopServices \/ StopNetstack
         \/ GatewayLogout
  PROVE  Moves
<1>1. main \in Mains
  BY DEF Core, CoreTypes
<1>2. ASSUME main' = main
      PROVE  Moves
  BY <1>2 DEF Moves
<1>3. ASSUME NEW at \in Places, main' = [main EXCEPT !.at = at],
             at \in Early => main.at \in Early, at \notin Ending => main.at \notin Ending
      PROVE  Moves
  <2>1. main'.at = at /\ main'.by = main.by
    BY <1>1, <1>3 DEF Mains
  <2>. QED  BY <1>3, <2>1 DEF Moves
<1>4. ASSUME NEW at \in Ending, NEW cause, main' = [main EXCEPT !.at = at, !.cause = cause]
      PROVE  Moves
  <2>1. main'.at = at /\ main'.by = main.by
    BY <1>1, <1>4 DEF Mains
  <2>. QED  BY <1>4, <2>1 DEF Moves, Early, Ending
<1>5. CASE WorkerSteps
  BY <1>2, <1>5 DEF WorkerSteps
<1>6. CASE Starts
  BY <1>1, <1>2, <1>3, <1>6, EndedMoves DEF Starts, Places, Early, Ending
<1>7. CASE StopCommitted \/ SignalArrives \/ AttemptFails
  BY <1>1, <1>7, StopsMoves DEF StopCommitted, SignalArrives, AttemptFails
<1>8. CASE ControlGone
  <2>1. CASE main' = [main EXCEPT !.receiver = FALSE]
    <3>1. main'.at = main.at /\ main'.by = main.by
      BY <1>1, <2>1 DEF Mains
    <3>. QED  BY <3>1 DEF Moves
  <2>2. CASE Stops("user", 0)
    BY <1>1, <2>2, StopsMoves
  <2>. QED  BY <1>8, <2>1, <2>2 DEF ControlGone
<1>9. CASE Promote
  BY <1>1, <1>3, <1>4, <1>9, EndedMoves DEF Promote, Waiting, Places, Early, Ending
<1>10. CASE Drain
  BY <1>1, <1>10, EndedMoves, CollectedMoves DEF Drain, GivenUp
<1>11. CASE Listen
  BY <1>3, <1>4, <1>11 DEF Listen, Places, Early, Ending
<1>12. CASE StopServices
  BY <1>3, <1>12 DEF StopServices, Places, Early, Ending
<1>13. CASE StopNetstack
  BY <1>3, <1>4, <1>13 DEF StopNetstack, Places, Early, Ending
<1>14. CASE GatewayLogout
  BY <1>1, <1>14, CollectedMoves DEF GatewayLogout
<1>. QED
  BY <1>5, <1>6, <1>7, <1>8, <1>9, <1>10, <1>11, <1>12, <1>13, <1>14

\* The other end of the pipe, and the windows of the accepted shutdowns.
LEMMA ClientKeeps ==
  ASSUME Control,
         \/ PipeEnds \/ ReaderEnds
         \/ \E r \in RequestIds : ClientReads(r) \/ WindowElapses(r)
  PROVE  Control'
<1>0. ControlTypes /\ shutdowns.elapsed \subseteq shutdowns.pending
  BY DEF Control, AcceptedIsPending
<1>1. CASE PipeEnds
  <2>1. /\ pipe' = [pipe EXCEPT !.ended = TRUE] /\ client' = [client EXCEPT !.pending = {}]
        /\ UNCHANGED <<main, reader, inputs, shutdowns, answers>>
    BY <1>1 DEF PipeEnds
  <2>2. pipe' \in Pipes /\ pipe'.frames = pipe.frames
    BY <1>0, <2>1 DEF ControlTypes, Pipes
  <2>3. client' \in Clients /\ client'.next = client.next
    BY <1>0, <2>1 DEF ControlTypes, Clients
  <2>4. ControlTypes'
    BY <1>0, <2>1, <2>2, <2>3 DEF ControlTypes
  <2>. QED  BY <1>0, <2>1, <2>2, <2>3, <2>4, ControlSame
<1>2. CASE ReaderEnds
  <2>1. /\ reader' = [reader EXCEPT !.open = FALSE]
        /\ UNCHANGED <<main, pipe, inputs, shutdowns, answers, client>>
    BY <1>2 DEF ReaderEnds
  <2>2. /\ reader' \in Readers /\ reader'.active = reader.active
        /\ reader'.negotiated = reader.negotiated
    BY <1>0, <2>1 DEF ControlTypes, Readers
  <2>3. ControlTypes'
    BY <1>0, <2>1, <2>2 DEF ControlTypes
  <2>. QED  BY <1>0, <2>1, <2>2, <2>3, ControlSame
<1>3. ASSUME NEW r \in RequestIds, ClientReads(r)
      PROVE  Control'
  <2>. DEFINE b == client.negotiated \/ answers[r] = "hello"
  <2>1. /\ \/ client' = [client EXCEPT !.pending = @ \ {r}, !.negotiated = b]
           \/ client' = [client EXCEPT !.pending = @ \ {r}]
        /\ UNCHANGED <<main, pipe, reader, inputs, shutdowns, answers>>
    BY <1>3 DEF ClientReads
  <2>2. b \in BOOLEAN
    OBVIOUS
  <2>. HIDE DEF b
  <2>3. client' \in Clients /\ client'.next = client.next
    BY <1>0, <2>1, <2>2 DEF ControlTypes, Clients
  <2>4. ControlTypes'
    BY <1>0, <2>1, <2>3 DEF ControlTypes
  <2>. QED  BY <1>0, <2>1, <2>3, <2>4, ControlSame
<1>4. ASSUME NEW r \in RequestIds, WindowElapses(r)
      PROVE  Control'
  <2>1. /\ shutdowns' = [shutdowns EXCEPT !.elapsed = @ \cup {r}] /\ r \in shutdowns.pending
        /\ UNCHANGED <<main, pipe, reader, inputs, answers, client>>
    BY <1>4 DEF WindowElapses
  <2>2. /\ shutdowns' \in Shutdowns /\ shutdowns'.pending = shutdowns.pending
        /\ shutdowns'.elapsed = shutdowns.elapsed \cup {r}
    BY <1>0, <2>1 DEF ControlTypes, Shutdowns
  <2>3. ControlTypes'
    BY <1>0, <2>1, <2>2 DEF ControlTypes
  <2>. QED  BY <1>0, <2>1, <2>2, <2>3, ControlSame
<1>. QED  BY <1>1, <1>2, <1>3, <1>4

LEMMA ClientSendsKeep ==
  ASSUME Control, NEW kind \in Kinds, ClientSends(kind)
  PROVE  Control'
<1>1. MaxFrames \in Nat /\ client.next \in 1..MaxFrames + 1
  BY EngineAssumption DEF EngineAssumption, Control, ControlTypes, Clients
<1>2. client.next <= MaxFrames
  BY DEF ClientSends, Sends
<1>3. 1 \in RequestIds /\ \A r \in 1..client.next - 1 : r \in RequestIds
  BY <1>1, <1>2 DEF RequestIds
<1>4. CASE kind # "cancel"
  BY <1>3, <1>4, SendsKeep DEF ClientSends
<1>5. CASE kind = "cancel"
  <2>1. PICK r \in 1..client.next - 1 : Sends([kind |-> "cancel", id |-> client.next, of |-> r])
    BY <1>5 DEF ClientSends
  <2>. QED  BY <1>3, <1>5, <2>1, SendsKeep
<1>. QED  BY <1>4, <1>5

LEMMA ControlKept ==
  ASSUME Core, Control, [EngineNext]_engineVars
  PROVE  Control'
<1>1. CASE \/ WorkerSteps \/ Starts \/ StopCommitted \/ SignalArrives \/ AttemptFails
           \/ ControlGone \/ Promote \/ Drain \/ Listen \/ StopServices \/ StopNetstack
           \/ GatewayLogout
  <2>1. ControlOnly
    BY <1>1 DEF WorkerSteps, Starts, StopCommitted, SignalArrives, AttemptFails, ControlGone,
       Promote, Drain, Listen, StopServices, StopNetstack, GatewayLogout
  <2>. QED  BY <1>1, <2>1, MainMoves, MovesKeep
<1>2. CASE UNCHANGED engineVars
  <2>1. Moves /\ ControlOnly
    BY <1>2 DEF engineVars, Moves, ControlOnly
  <2>. QED  BY <2>1, MovesKeep
<1>3. CASE PipeEnds \/ ReaderEnds \/ \E r \in RequestIds : ClientReads(r) \/ WindowElapses(r)
  BY <1>3, ClientKeeps
<1>. QED
  BY <1>1, <1>2, <1>3, ReaderHandlesKeeps, HandshakeControl, TakeControlKeeps, ClientSendsKeep
     DEF EngineNext

-----------------------------------------------------------------------------
(* The theorem *)

LEMMA InvariantAtFirst ==
  ASSUME EngineInit
  PROVE  Core /\ Control
<1>1. MaxFrames \in Nat
  BY EngineAssumption DEF EngineAssumption
<1>2. PICK controlled \in BOOLEAN :
        main = [at |-> "starting", cause |-> "none", by |-> 0, unconfirmed |-> FALSE,
                output |-> TRUE, receiver |-> controlled]
  BY DEF EngineInit
<1>3. CoreTypes
  <2>1. main \in Mains
    BY <1>2 DEF Mains, Places
  <2>2. phase \in Phases /\ worker \in Workers /\ gateway \in {"none", "open", "closed"} /\ local \in Locals
    BY DEF EngineInit, Phases, Workers, Locals, NoWorker
  <2>. QED  BY <2>1, <2>2 DEF CoreTypes
<1>4. main.at = "starting" /\ main.by = 0
  BY <1>2
<1>5. Core
  BY <1>3, <1>4 DEF EngineInit, Core, PhaseIsOf, WorkerAccounts, LocalIsOf,
     SessionIsAccountedFor, UserStopIsClean, Early, Up, Waiting, NoWorker
<1>6. ControlTypes
  <2>1. pipe \in Pipes /\ inputs \in Seq(Exchanges)
    BY DEF EngineInit, Pipes
  <2>2. reader \in Readers /\ shutdowns \in Shutdowns
    BY DEF EngineInit, Readers, Shutdowns
  <2>3. client \in Clients
    BY <1>1 DEF EngineInit, Clients
  <2>4. answers \in [RequestIds -> Answers]
    BY DEF EngineInit, Answers
  <2>. QED  BY <2>1, <2>2, <2>3, <2>4 DEF ControlTypes
<1>7. /\ DOMAIN inputs = {} /\ DOMAIN pipe.frames = {}
      /\ reader.active = {} /\ ~reader.negotiated
      /\ shutdowns.pending = {} /\ shutdowns.elapsed = {}
      /\ \A r \in RequestIds : answers[r] = "none"
  BY DEF EngineInit
<1>8. Truthful /\ InOrder
  BY <1>7 DEF Truthful, InOrder
<1>9. ReaderAhead /\ FirstNegotiates /\ AcceptedIsPending
  BY <1>4, <1>7 DEF ReaderAhead, FirstNegotiates, AcceptedIsPending
<1>. QED  BY <1>5, <1>6, <1>8, <1>9 DEF Control

\* What has been kept apart in the proof is the invariant.
LEMMA InvariantIs == EngineTypeOK /\ IInv <=> Core /\ Control
<1>1. EngineTypeOK /\ Channels <=> CoreTypes /\ ControlTypes /\ Truthful
  BY TypesAre DEF Types
<1>2. CoreTypes => PhasesInOrder
  BY DEF CoreTypes, Phases, PhasesInOrder
<1>. QED  BY <1>1, <1>2 DEF IInv, Core, Control

(* In every reachable state of the engine, the place of its coordinator says *)
(* what the worker, the gateway's session and the local services are, and    *)
(* every shutdown that was accepted on the pipe is pending until it is       *)
(* cancelled or the engine stops: the inductive invariant.                   *)
THEOREM EngineInvariant == EngineSpec => [](EngineTypeOK /\ IInv)
<1>1. EngineInit => Core /\ Control
  BY InvariantAtFirst
<1>2. Core /\ Control /\ [EngineNext]_engineVars => (Core /\ Control)'
  <2>1. Control => ControlTypes
    BY DEF Control
  <2>. QED  BY <2>1, CoreKept, ControlKept
<1>3. EngineSpec => [](Core /\ Control)
  BY <1>1, <1>2, PTL DEF EngineSpec
<1>. QED  BY <1>3, InvariantIs, PTL

(* An engine that has ended has logged its session out or told the desktop   *)
(* that it could not; a clean stop leaves nothing behind; nothing is served  *)
(* without a session, and no tunnel outlives it; an accepted shutdown is     *)
(* never dropped, and one that was cancelled never stops the engine.         *)
THEOREM EngineIsSafe == EngineSpec => []EngineSafety
<1>1. EngineTypeOK /\ IInv => EngineSafety
  <2>1. SUFFICES ASSUME EngineTypeOK, IInv
                 PROVE  TeardownInOrder /\ ShutdownIsKept
    BY DEF EngineSafety, IInv
  <2>2. main \in Mains
    BY <2>1, InvariantIs DEF Core, CoreTypes
  <2>3. TeardownInOrder
    BY <2>1, <2>2
       DEF IInv, TeardownInOrder, WorkerAccounts, LocalIsOf, Up, Early, Waiting, Mains, Places
  <2>4. ShutdownIsKept
    BY <2>1, AttendingPlaces DEF IInv, AcceptedIsPending, ShutdownIsKept, Ending
  <2>. QED  BY <2>3, <2>4
<1>. QED  BY <1>1, EngineInvariant, PTL
====
