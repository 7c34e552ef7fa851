--------------------------- MODULE SecondaryAuth ---------------------------
(***************************************************************************)
(* Secondary authentication, from the gateway's challenge to the prompt:   *)
(* AuthTransactionOwner and AuthControlSession of the engine               *)
(* (independent/src/engine/auth_transaction.rs and auth_control.rs), the   *)
(* inherited pipe, EngineAuthControlClient and EngineControlRegistry       *)
(* (connection/engine), and AuthChallengeCoordinator (connection/auth).    *)
(*                                                                         *)
(* One engine is bound at a time.  A challenge is its epoch: the           *)
(* transaction id is the same for the whole transaction.  What time does   *)
(* is `expired`; what the gateway answers is a choice.                     *)
(***************************************************************************)
EXTENDS Integers, Sequences, FiniteSets

CONSTANTS MaxEpoch,       \* bound of the challenges the gateway asks
          MaxRequestId,   \* bound of nextRequestId
          MaxSubmits, MaxResends, MaxSteps, MaxGatewayRequests   \* AuthBudgetPolicy

ASSUME AuthAssumption ==
  /\ MaxEpoch \in Nat \ {0} /\ MaxRequestId \in Nat \ {0}
  /\ \A limit \in {MaxSubmits, MaxResends, MaxSteps, MaxGatewayRequests} : limit \in Nat \ {0}

VARIABLES
  engine,    \* the transaction's owner: provider, epoch, budget, request ids
  toEngine,  \* frames in the pipe to the engine
  toApp,     \* messages on the engine's output
  client,    \* EngineAuthControlClient: challenge, nextRequestId, pending, closed
  coord      \* AuthChallengeCoordinator: binding, publicView, inFlight, timer, context

authVars == <<engine, toEngine, toApp, client, coord>>

RequestIds == 1..MaxRequestId
Epochs == 0..MaxEpoch          \* 0: no challenge
AuthCommands == {"respond", "resend", "cancel"}
NotPending == [name |-> "none", user |-> FALSE]

ErrorCodes == {"stale_context", "duplicate_request", "unsupported_challenge", "resend_unavailable",
               "challenge_expired", "limit_exceeded", "provider_failure", "transaction_closed"}

AuthTypeOK ==
  /\ engine \in [session : BOOLEAN, provider : {"open", "cancelled", "authenticated"},
                 epoch : 1..MaxEpoch, steps : 1..MaxSteps, submits : 0..MaxSubmits,
                 resends : 0..MaxResends, calls : 0..MaxGatewayRequests, seen : SUBSET RequestIds,
                 expired : BOOLEAN, running : BOOLEAN]
  /\ \A n \in DOMAIN toEngine : toEngine[n] \in [id : RequestIds, epoch : 1..MaxEpoch, name : AuthCommands]
  /\ \A n \in DOMAIN toApp :
       toApp[n] \in [type : {"required", "challenge", "complete", "cancelled"} \cup ErrorCodes,
                     id : RequestIds \cup {0}, epoch : Epochs]
  /\ client \in [challenge : Epochs, next : 1..MaxRequestId + 1,
                 pending : [RequestIds -> [name : AuthCommands \cup {"none"}, user : BOOLEAN]], closed : BOOLEAN]
  /\ coord \in [bound : BOOLEAN, view : Epochs, inFlight : BOOLEAN, timer : BOOLEAN, current : BOOLEAN]

NewEngine == [session |-> TRUE, provider |-> "open", epoch |-> 1, steps |-> 1, submits |-> 0,
              resends |-> 0, calls |-> 0, seen |-> {}, expired |-> FALSE, running |-> TRUE]
NewClient == [challenge |-> 0, next |-> 1, pending |-> [i \in RequestIds |-> NotPending], closed |-> FALSE]
NewBinding == [bound |-> TRUE, view |-> 0, inFlight |-> FALSE, timer |-> FALSE, current |-> TRUE]

\* The engine's first event is the challenge (initial_event).
AuthInit ==
  /\ engine = NewEngine /\ toEngine = <<>> /\ toApp = <<[type |-> "required", id |-> 0, epoch |-> 1]>>
  /\ client = NewClient /\ coord = NewBinding

-----------------------------------------------------------------------------
(* The engine.                                                              *)

Reply(e, id, type) ==
  /\ engine' = e /\ toEngine' = Tail(toEngine)
  /\ toApp' = Append(toApp, [type |-> type, id |-> id, epoch |-> IF type = "challenge" THEN e.epoch ELSE 0])

\* Mutant: it is dropped without a word to the gateway.
PromptDropped(e) == [e EXCEPT !.session = FALSE]

\* A transaction that is given up is cancelled at the gateway: Drop, abort.
PromptReleased(e) == [e EXCEPT !.session = FALSE, !.provider = IF @ = "open" THEN "cancelled" ELSE @]

\* AuthControlSession::error: an expired, exhausted or closed transaction is
\* aborted; any other error leaves it to the next command.
AuthFails(e, id, code) ==
  Reply(IF code \in {"challenge_expired", "limit_exceeded", "transaction_closed"} THEN PromptReleased(e) ELSE e, id, code)

\* validate_context of the owner.
ContextError(e, r) ==
  IF ~e.session THEN "transaction_closed"
  ELSE IF r.epoch # e.epoch THEN "stale_context"
  ELSE IF r.id \in e.seen THEN "duplicate_request"
  ELSE IF e.provider # "open" THEN "transaction_closed"
  ELSE IF e.expired /\ r.name # "cancel" THEN "challenge_expired"
  ELSE "none"

\* A provider that returns another transaction, an older challenge, or a view
\* it does not hold itself, is cancelled, and its owner stays without one.
InvalidTransition(e, id) == Reply([e EXCEPT !.provider = "cancelled"], id, "provider_failure")

\* A challenge after a command: the same one again, or the next, which is a step.
NextChallenge(e, id, isNew) ==
  IF ~isNew THEN Reply(e, id, "challenge")
  ELSE IF e.steps >= MaxSteps THEN AuthFails([e EXCEPT !.provider = "cancelled"], id, "limit_exceeded")
  ELSE /\ e.epoch < MaxEpoch
       /\ Reply([e EXCEPT !.steps = @ + 1, !.epoch = @ + 1, !.expired = FALSE], id, "challenge")

\* What the gateway makes of a command: each HTTP request is reserved first.
GatewayAnswers(e, id, name) ==
  IF e.calls >= MaxGatewayRequests THEN AuthFails(e, id, "limit_exceeded")
  ELSE LET called == [e EXCEPT !.calls = @ + 1] IN
       \/ AuthFails(called, id, "provider_failure")
       \/ InvalidTransition(called, id)
       \/ name = "respond" /\ Reply([called EXCEPT !.provider = "authenticated", !.session = FALSE], id, "complete")
       \/ name = "respond" /\ \E isNew \in BOOLEAN : NextChallenge(called, id, isNew)
       \/ name = "resend" /\ NextChallenge(called, id, TRUE)

EngineRespond(r) ==
  LET e == [engine EXCEPT !.seen = @ \cup {r.id}] IN
  \/ AuthFails(engine, r.id, "unsupported_challenge")
  \/ IF e.submits >= MaxSubmits THEN AuthFails(e, r.id, "limit_exceeded")
     ELSE GatewayAnswers([e EXCEPT !.submits = @ + 1], r.id, "respond")

EngineResend(r) ==
  LET e == [engine EXCEPT !.seen = @ \cup {r.id}] IN
  \/ AuthFails(engine, r.id, "resend_unavailable")
  \/ IF e.resends >= MaxResends \/ e.steps >= MaxSteps THEN AuthFails(e, r.id, "limit_exceeded")
     ELSE GatewayAnswers([e EXCEPT !.resends = @ + 1], r.id, "resend")

\* Once the provider's cleanup has started, its failure is terminal too.
EngineCancel(r) ==
  \E type \in {"cancelled", "provider_failure"} :
    Reply([PromptReleased(engine) EXCEPT !.seen = @ \cup {r.id}], r.id, type)

EngineHandles ==
  /\ engine.running /\ toEngine # <<>>
  /\ LET r == Head(toEngine)  error == ContextError(engine, r) IN
     IF error # "none" THEN AuthFails(engine, r.id, error)
     ELSE \/ r.name = "respond" /\ EngineRespond(r)
          \/ r.name = "resend" /\ EngineResend(r)
          \/ r.name = "cancel" /\ EngineCancel(r)
  /\ UNCHANGED <<client, coord>>

\* The challenge's or the transaction's time is up; expire_if_due then ends it
\* even when no command comes.
TimePasses ==
  /\ engine.provider = "open" /\ ~engine.expired /\ engine' = [engine EXCEPT !.expired = TRUE]
  /\ UNCHANGED <<toEngine, toApp, client, coord>>
EngineExpires ==
  /\ engine.running /\ engine.session /\ engine.expired /\ engine' = PromptReleased(engine)
  /\ UNCHANGED <<toEngine, toApp, client, coord>>

-----------------------------------------------------------------------------
(* The client and the coordinator.                                          *)

Settle(c, ids) == [c EXCEPT !.pending = [i \in RequestIds |-> IF i \in ids THEN NotPending ELSE @[i]]]
\* The promise of a user's action settles: inFlight is reset, whoever is bound.
UserSettles(k, c, ids) == IF \E i \in ids : c.pending[i].user THEN [k EXCEPT !.inFlight = FALSE] ELSE k

Activated(k, epoch, expiry) == IF k.bound /\ k.current THEN [k EXCEPT !.view = epoch, !.timer = expiry] ELSE k
PromptCleared(k) == IF k.bound /\ k.current THEN [k EXCEPT !.view = 0, !.timer = FALSE] ELSE k
Detached(k) == [k EXCEPT !.bound = FALSE, !.view = 0, !.inFlight = FALSE, !.timer = FALSE]

AllIds(c) == {i \in RequestIds : c.pending[i] # NotPending}
ClosedClient == [Settle(client, RequestIds) EXCEPT !.closed = TRUE, !.challenge = 0]
\* close(): every pending request is rejected and the challenge cleared.
ClientCloses(k) ==
  LET settled == UserSettles(k, client, AllIds(client)) IN
  /\ client' = ClosedClient
  /\ coord' = IF client.challenge # 0 THEN PromptCleared(settled) ELSE settled

\* The errors after which the client knows that the challenge is over.
ClearsChallenge(name, code) ==
  code \in {"transaction_closed", "challenge_expired", "limit_exceeded"} \/ (name = "cancel" /\ code = "provider_failure")

\* feed(): a challenge, the answer to a pending request, or nothing that is known.
AppReads ==
  /\ toApp # <<>> /\ toApp' = Tail(toApp) /\ UNCHANGED <<engine, toEngine>>
  /\ LET m == Head(toApp)
         asked == m.id # 0
         name == IF asked THEN client.pending[m.id].name ELSE "none"
         settledClient == IF asked THEN Settle(client, {m.id}) ELSE client
         settledCoord == IF asked THEN UserSettles(coord, client, {m.id}) ELSE coord IN
     IF client.closed \/ (asked /\ name = "none") THEN UNCHANGED <<client, coord>>
     ELSE IF m.type \in {"required", "challenge"}
     THEN /\ client' = [settledClient EXCEPT !.challenge = m.epoch]
          /\ \E expiry \in BOOLEAN : coord' = Activated(settledCoord, m.epoch, expiry)
     ELSE IF m.type \in {"complete", "cancelled"} \/ ClearsChallenge(name, m.type)
     THEN /\ client' = [settledClient EXCEPT !.challenge = 0]
          /\ coord' = IF client.challenge # 0 THEN PromptCleared(settledCoord) ELSE settledCoord
     ELSE client' = settledClient /\ coord' = settledCoord

\* #request: the frame carries the challenge of the moment; a write may fail.
Sends(name, byUser, k) ==
  LET id == client.next IN
  /\ ~client.closed /\ client.challenge # 0 /\ id <= MaxRequestId
  /\ \/ /\ client' = [client EXCEPT !.next = id + 1, !.pending[id] = [name |-> name, user |-> byUser]]
        /\ toEngine' = Append(toEngine, [id |-> id, epoch |-> client.challenge, name |-> name])
        /\ coord' = IF byUser THEN [k EXCEPT !.inFlight = TRUE] ELSE k
     \/ client' = [client EXCEPT !.next = id + 1] /\ coord' = k /\ UNCHANGED toEngine

\* respond, resend and cancel of the prompt (#run).
UserActs(name) ==
  /\ coord.bound /\ coord.view # 0 /\ UNCHANGED <<engine, toApp>>
  /\ IF ~coord.current THEN coord' = Detached(coord) /\ UNCHANGED <<toEngine, client>>
     ELSE ~coord.inFlight /\ Sends(name, TRUE, coord)

\* The prompt's own expiry: cancel, best effort, and clear.
ExpiryFires ==
  /\ coord.timer /\ coord.bound /\ coord.current /\ UNCHANGED <<engine, toApp>>
  /\ \/ Sends("cancel", FALSE, PromptCleared(coord))
     \/ coord' = PromptCleared(coord) /\ UNCHANGED <<toEngine, client>>

\* cancelForLifecycle: the window is gone, or the profile is switched.
CancelForLifecycle ==
  /\ coord.bound /\ coord.view # 0 /\ UNCHANGED <<engine, toApp>>
  /\ \/ Sends("cancel", FALSE, Detached(coord))
     \/ coord' = Detached(coord) /\ UNCHANGED <<toEngine, client>>

\* A request that is never answered destroys the pipe.
RequestTimesOut(id) ==
  /\ client.pending[id] # NotPending
  /\ ClientCloses(coord) /\ toEngine' = <<>> /\ engine' = PromptReleased([engine EXCEPT !.running = FALSE])
  /\ UNCHANGED toApp

ContextChanges ==
  /\ coord.current /\ coord' = [coord EXCEPT !.current = FALSE] /\ UNCHANGED <<engine, toEngine, toApp, client>>
\* snapshot() of a stale context detaches.
CoordinatorSnapshot ==
  /\ coord.bound /\ ~coord.current /\ coord' = Detached(coord) /\ UNCHANGED <<engine, toEngine, toApp, client>>

\* The engine is gone: its registry entry is cleared, then the client closed.
EngineExits ==
  /\ engine' = PromptReleased([engine EXCEPT !.running = FALSE]) /\ toEngine' = <<>> /\ toApp' = <<>>
  /\ ~client.closed /\ ClientCloses(Detached(coord))

\* EngineControlRegistry.bind for the next engine clears the one before.
BindNext ==
  /\ client.closed /\ ~engine.running
  /\ engine' = NewEngine /\ toEngine' = <<>> /\ toApp' = <<[type |-> "required", id |-> 0, epoch |-> 1]>>
  /\ client' = NewClient /\ coord' = NewBinding

AuthNext ==
  \/ EngineHandles \/ TimePasses \/ EngineExpires \/ AppReads \/ ExpiryFires \/ CancelForLifecycle
  \/ ContextChanges \/ CoordinatorSnapshot \/ EngineExits \/ BindNext
  \/ \E name \in AuthCommands : UserActs(name)
  \/ \E id \in RequestIds : RequestTimesOut(id)

AuthSpec == AuthInit /\ [][AuthNext]_authVars

-----------------------------------------------------------------------------
(* A transaction that is given up, by expiry, by a limit, by a cancel, by   *)
(* the end of the pipe, is not left open at the gateway.                    *)
NothingLeftAtTheGateway == ~engine.session => engine.provider # "open"

(* The prompt of the current context is the challenge a command would be    *)
(* sent for, and it does not outlive its engine.                            *)
PromptIsTheChallenge ==
  coord.view # 0 => coord.bound /\ (coord.current => coord.view = client.challenge /\ ~client.closed)

(* The application never answers a challenge the engine has not asked.      *)
NeverAhead ==
  /\ client.challenge <= engine.epoch
  /\ \A n \in DOMAIN toEngine : toEngine[n].epoch <= engine.epoch
  /\ \A m, n \in DOMAIN toEngine : m < n => toEngine[m].id < toEngine[n].id

(* One user action at a time, and none is locked out by one that is over.   *)
OneActionAtATime ==
  LET acting == {i \in RequestIds : client.pending[i].user} IN
  /\ Cardinality(acting) <= 1
  /\ coord.bound => (coord.inFlight <=> acting # {})

(* With nothing under way, the engine and the client agree on the           *)
(* challenge: a command would not be stale.                                 *)
AgreeWhenQuiet ==
  engine.running /\ engine.provider = "open" /\ engine.session /\ toEngine = <<>> /\ toApp = <<>>
    => client.challenge = engine.epoch \/ client.closed

AuthSafety ==
  AuthTypeOK /\ NothingLeftAtTheGateway /\ PromptIsTheChallenge /\ NeverAhead /\ OneActionAtATime /\ AgreeWhenQuiet
=============================================================================
