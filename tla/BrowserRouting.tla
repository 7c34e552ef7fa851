--------------------------- MODULE BrowserRouting ---------------------------
(***************************************************************************)
(* The Campus Browser's proxy policy: BrowserSessionManager and its        *)
(* request gate (desktop/lib/browser/session/browser-session-manager.js),  *)
(* the single-flight activation of BrowserRoutingActivationOwner, and the  *)
(* rule transaction of RoutingPolicyCoordinator                            *)
(* (desktop/lib/routing/rules/routing-policy-transaction.js).              *)
(*                                                                         *)
(* One Chromium Session outlives the Browsers that use it: a Browser that  *)
(* is closed retires its manager, and the next one binds the same Session  *)
(* and the same request gate.  Epochs are compared for equality only, so   *)
(* a newer intent turns the operations before it into "superseded" ones,   *)
(* and a request knows whether the gate was written since it asked.        *)
(* A PAC is the version of the rules it was built from.                    *)
(***************************************************************************)
EXTENDS Integers, Sequences, SequencesExt

CONSTANTS Managers,   \* the session managers, one per Browser, in any order
          MaxRules,   \* bound: rule changes in a behaviour
          MaxQueue    \* bound: a caller that comes finds fewer operations on the chain

NoOwner == "no owner"
ASSUME RoutingAssumption ==
  Managers # {} /\ NoOwner \notin Managers /\ MaxRules \in Nat /\ MaxQueue \in Nat \ {0}

VARIABLES
  gate,      \* the request gate of the Session: blocked, and its owner
  proxy,     \* the Session's PAC, and whether old connections are gone
  manager,   \* per manager: life, bound, suspended, ready, sessionKey
  ops,       \* per manager: operationChain, the head is running
  line,      \* gate.operationChain: the managers that wait for the Session
  rules,     \* the version of the committed routing rules
  topRules,  \* versions handed out so far
  tx,        \* the rule transaction: its step, the rules before it, current
  link,      \* the tunnel as the coordinator sees it
  page,      \* inFlight of the activation owner
  request    \* one web request between onBeforeRequest and its callback

routingVars == <<gate, proxy, manager, ops, line, rules, topRules, tx, link, page, request>>

Versions == 0..MaxRules
FailClosed == -1                     \* the PAC that sends everything nowhere
Unset == -2
Pacs == Versions \cup {FailClosed, Unset}
Callers == {"page", "tx", "link", "none"}
Op == [kind : {"configure", "suspend", "fallback", "superseded"}, force : BOOLEAN,
       at : {"queued", "line", "set", "drain"}, pac : Pacs, who : Callers]
Results == {"done", "null", "error"}
TxSteps == {"idle", "suspending", "resolved", "committed", "aborting", "unrestored", "resuming", "restoring"}

RoutingTypeOK ==
  /\ gate \in [blocked : BOOLEAN, owner : Managers \cup {NoOwner}]
  /\ proxy \in [pac : Pacs, settled : BOOLEAN]
  /\ manager \in [Managers -> [life : {"unmade", "live", "retired"}, bound : BOOLEAN,
                               suspended : BOOLEAN, ready : BOOLEAN, key : Pacs]]
  /\ ops \in [Managers -> Seq(Op)]
  /\ line \in Seq(Managers)
  /\ rules \in Versions /\ topRules \in Versions
  /\ tx \in [step : TxSteps, before : Versions, current : BOOLEAN, of : Managers \cup {NoOwner}]
  /\ link \in {"down", "opening", "up"}
  /\ page \in BOOLEAN
  /\ request \in {"none", "asked", "moved", "crossed", "leaked"}

RoutingInit ==
  /\ gate = [blocked |-> FALSE, owner |-> NoOwner]
  /\ proxy = [pac |-> Unset, settled |-> TRUE]
  /\ manager = [m \in Managers |-> [life |-> "unmade", bound |-> FALSE, suspended |-> FALSE,
                                    ready |-> FALSE, key |-> Unset]]
  /\ ops = [m \in Managers |-> <<>>]
  /\ line = <<>>
  /\ rules = 0 /\ topRules = 0
  /\ tx = [step |-> "idle", before |-> 0, current |-> TRUE, of |-> NoOwner]
  /\ link = "down" /\ page = FALSE
  /\ request = "none"

-----------------------------------------------------------------------------
(* Job order: what follows a settled await, up to the next native call,     *)
(* runs before any native completion and before what the user does.         *)
JobsDrained ==
  /\ tx.step \notin {"resolved", "committed", "aborting", "unrestored"}
  /\ \A m \in Managers : ops[m] # <<>> => Head(ops[m]).at # "queued"
  /\ line # <<>> => Head(ops[Head(line)]).at # "line"

OwnsSession(m) == manager[m].life = "live" /\ (manager[m].bound => gate.owner = m)
Active(m) == ~manager[m].suspended /\ manager[m].ready /\ OwnsSession(m) /\ ~gate.blocked
Running(m) == Head(ops[m])
InForce(op) == op.kind # "superseded"       \* no newer intent of its manager

\* setCampusRequestBlocked: the epoch of the gate moves on every write.  A
\* request that waits remembers whether it moved, and whether the gate closed.
SetGate(blocked, owner) ==
  /\ gate' = [blocked |-> blocked, owner |-> owner]
  /\ request' = IF request = "none" THEN "none"
                ELSE IF blocked \/ request = "crossed" THEN "crossed" ELSE "moved"
KeepGate == UNCHANGED <<gate, request>>
BlockIfBound(m) == IF manager[m].bound THEN SetGate(TRUE, gate.owner) ELSE KeepGate

Room(m) == Len(ops[m]) < MaxQueue
\* Mutant: a newer intent leaves the operations before it in force.
Kept(queue) == queue

\* A newer intent supersedes every operation; what it was to do is forgotten.
Superseded(queue) ==
  [i \in DOMAIN queue |-> [queue[i] EXCEPT !.kind = "superseded", !.force = FALSE]]
Untag(queue, who) == [i \in DOMAIN queue |-> IF queue[i].who = who
                                             THEN [queue[i] EXCEPT !.who = "none"] ELSE queue[i]]

\* configure() and suspend(): the intent is recorded and the gate closed at
\* once, the work is chained behind the operations before it.
Enqueue(m, kind, force, who, queue) ==
  /\ ops' = [ops EXCEPT ![m] = Append(Superseded(queue),
               [kind |-> kind, force |-> force, at |-> "queued", pac |-> FailClosed, who |-> who])]
  /\ BlockIfBound(m)
Configure(m, force, who) == Enqueue(m, "configure", force, who, ops[m]) /\ UNCHANGED manager
Suspend(m, who, queue) ==
  /\ Enqueue(m, "suspend", TRUE, who, queue)
  /\ manager' = [manager EXCEPT ![m].suspended = TRUE]

\* The promise of the operation settles: it leaves the chain and its caller
\* goes on.
Settle(m, result) ==
  LET who == Running(m).who IN
  /\ ops' = [ops EXCEPT ![m] = Tail(@)]
  /\ link' = IF who = "link" /\ link = "opening" THEN "up" ELSE link
  /\ page' = IF who = "page" THEN FALSE ELSE page
  /\ IF who # "tx" THEN UNCHANGED <<rules, tx>>
     ELSE IF tx.step = "suspending"
          THEN /\ tx' = [tx EXCEPT !.step = IF result = "error" \/ ~tx.current THEN "idle" ELSE "resolved"]
               /\ UNCHANGED rules
     ELSE IF tx.step = "resuming" /\ (result = "error" \/ ~tx.current)
          THEN tx' = [tx EXCEPT !.step = "aborting"] /\ rules' = tx.before
     ELSE tx' = [tx EXCEPT !.step = "idle"] /\ UNCHANGED rules

MoveTo(m, op) == ops' = [ops EXCEPT ![m][1] = op] /\ UNCHANGED <<link, page, tx, rules>>
LeaveLine == line' = Tail(line)

\* The catch of configure(): a failed activation leaves the Session fail
\* closed, unless a newer intent or a retirement took over.
Fail(m) ==
  IF Running(m).kind = "configure"
  THEN /\ MoveTo(m, [Running(m) EXCEPT !.kind = "fallback", !.at = "line", !.pac = FailClosed])
       /\ manager' = [manager EXCEPT ![m].suspended = TRUE, ![m].bound = TRUE]
       /\ line' = IF Running(m).at = "queued" THEN Append(line, m) ELSE Append(Tail(line), m)
       /\ SetGate(TRUE, m)
  ELSE /\ Settle(m, IF OwnsSession(m) THEN "error" ELSE "null")
       /\ line' = IF Running(m).at = "queued" THEN line ELSE Tail(line)
       /\ UNCHANGED manager /\ KeepGate

-----------------------------------------------------------------------------
(* The chained operation.                                                   *)

\* serialize's callback: a superseded operation ends without effect; a
\* suspend without a Session only forgets the key; configureNow binds the
\* Session to this manager, blocks it and reads the PAC of the rules.
Begin(m) ==
  /\ ops[m] # <<>> /\ Running(m).at = "queued" /\ tx.step # "resolved"
  /\ UNCHANGED <<proxy, topRules>>
  /\ LET op == Running(m) IN
     \/ /\ ~InForce(op)
        /\ Settle(m, "null") /\ UNCHANGED <<manager, line>> /\ KeepGate
     \/ /\ op.kind = "suspend" /\ ~manager[m].bound
        /\ manager' = [manager EXCEPT ![m].key = Unset]
        /\ Settle(m, "null") /\ UNCHANGED line /\ KeepGate
     \/ /\ op.kind = "suspend" /\ manager[m].bound
        /\ MoveTo(m, [op EXCEPT !.at = "line"])
        /\ line' = Append(line, m) /\ UNCHANGED manager /\ KeepGate
     \/ /\ op.kind = "configure"
        /\ MoveTo(m, [op EXCEPT !.at = "line", !.pac = rules])
        /\ line' = Append(line, m)
        /\ manager' = [manager EXCEPT ![m].bound = TRUE]
        /\ IF manager[m].bound THEN KeepGate ELSE SetGate(TRUE, m)

\* proxyConfig throws (its diagnostic copy could not be written).
BeginFails(m) ==
  /\ ops[m] # <<>> /\ Running(m).at = "queued" /\ tx.step # "resolved"
  /\ Running(m).kind = "configure"
  /\ Fail(m) /\ UNCHANGED <<proxy, topRules>>

Opened(m) == [manager EXCEPT ![m].key = Running(m).pac, ![m].ready = TRUE, ![m].suspended = FALSE]

\* serializeSession's callback, when the Session is free.
Enter(m) ==
  /\ line # <<>> /\ Head(line) = m /\ Running(m).at = "line"
  /\ UNCHANGED <<proxy, topRules>>
  /\ LET op == Running(m) IN
     \/ /\ ~InForce(op)
        /\ Settle(m, "null") /\ LeaveLine /\ UNCHANGED manager /\ KeepGate
     \/ /\ InForce(op) /\ (op.kind # "configure" \/ op.force \/ manager[m].key # op.pac)
        /\ MoveTo(m, [op EXCEPT !.at = "set"])
        /\ SetGate(TRUE, gate.owner) /\ UNCHANGED <<manager, line>>
     \/ /\ op.kind = "configure" /\ ~op.force /\ manager[m].key = op.pac
        /\ Settle(m, "done") /\ LeaveLine /\ manager' = Opened(m)
        /\ SetGate(FALSE, gate.owner)

\* The native calls.  After each one a superseded operation stops.
Completes(m, at) == JobsDrained /\ line # <<>> /\ Head(line) = m /\ Running(m).at = at
Continue(m, next) ==
  /\ IF InForce(Running(m)) THEN MoveTo(m, [Running(m) EXCEPT !.at = next]) /\ UNCHANGED line
                           ELSE Settle(m, "null") /\ LeaveLine
  /\ UNCHANGED <<manager, topRules>> /\ KeepGate

SetProxy(m) ==
  /\ Completes(m, "set")
  /\ proxy' = [pac |-> Running(m).pac, settled |-> proxy.settled /\ proxy.pac = Running(m).pac]
  /\ Continue(m, "drain")

\* forceReloadProxyConfig, closeAllConnections (not called when the operation was
\* superseded during the reload), then the key; a configure opens the gate here.
CloseAll(m) ==
  /\ Completes(m, "drain") /\ UNCHANGED topRules
  /\ \E closed \in BOOLEAN :
       /\ InForce(Running(m)) => closed
       /\ proxy' = [proxy EXCEPT !.settled = @ \/ closed]
  /\ LET op == Running(m) IN
     \/ ~InForce(op) /\ Settle(m, "null") /\ LeaveLine /\ UNCHANGED manager /\ KeepGate
     \/ /\ op.kind = "configure"
        /\ Settle(m, "done") /\ LeaveLine /\ manager' = Opened(m) /\ SetGate(FALSE, gate.owner)
     \/ /\ op.kind \in {"suspend", "fallback"}
        /\ Settle(m, IF op.kind = "suspend" THEN "done" ELSE "error") /\ LeaveLine
        /\ manager' = [manager EXCEPT ![m].key = FailClosed] /\ KeepGate

\* A native call rejects.
NativeFails(m) ==
  /\ \E at \in {"set", "drain"} : Completes(m, at)
  /\ Fail(m) /\ UNCHANGED <<proxy, topRules>>

-----------------------------------------------------------------------------
(* The callers.                                                             *)

\* getOrCreate: one Browser at a time; the one before it was retired.
CreateBrowser(m) ==
  /\ JobsDrained /\ manager[m].life = "unmade"
  /\ \A n \in Managers : manager[n].life # "live"
  /\ manager' = [manager EXCEPT ![m].life = "live"]
  /\ UNCHANGED <<gate, proxy, ops, line, rules, topRules, tx, link, page, request>>

\* retire(): every operation of the manager is superseded, the gate closes
\* and has no owner, and the activation owner forgets what it waits for.  A
\* context switch also cancels the rule transaction that runs.
RetireManager(m) ==
  /\ JobsDrained /\ manager[m].life = "live"
  /\ manager' = [manager EXCEPT ![m].life = "retired"]
  /\ ops' = [ops EXCEPT ![m] = Superseded(Untag(@, "page"))]
  /\ page' = FALSE
  /\ IF gate.owner = m THEN SetGate(TRUE, NoOwner) ELSE KeepGate
  /\ \E cancel \in BOOLEAN : tx' = [tx EXCEPT !.current = @ /\ ~cancel]
  /\ UNCHANGED <<proxy, line, rules, topRules, link>>

\* BrowserRoutingActivationOwner.reset: the window is gone, its operation runs on.
ResetActivation(m) ==
  /\ JobsDrained /\ page /\ page' = FALSE
  /\ manager[m].life = "live" /\ ops' = [ops EXCEPT ![m] = Untag(@, "page")]
  /\ UNCHANGED <<gate, proxy, manager, line, rules, topRules, tx, link, request>>

\* activate(): nothing when the Session already serves; at most one in flight.
Activate(m) ==
  /\ OwnsSession(m) /\ ~Active(m) /\ ~page /\ Room(m)
  /\ page' = TRUE
  /\ Configure(m, manager[m].suspended, "page")
  /\ UNCHANGED <<proxy, line, rules, topRules, tx, link>>

\* markConnected: a suspended Browser is resumed before the state is published.
LinkUp ==
  /\ JobsDrained /\ link = "down"
  /\ \/ /\ \E m \in Managers : /\ OwnsSession(m) /\ manager[m].suspended /\ Room(m)
                               /\ Configure(m, TRUE, "link")
        /\ link' = "opening"
     \/ /\ \A m \in Managers : ~(manager[m].life = "live" /\ manager[m].suspended)
        /\ link' = "up" /\ UNCHANGED <<ops, manager>> /\ KeepGate
  /\ UNCHANGED <<proxy, line, rules, topRules, tx, page>>

\* The engine is about to stop: the Browser is suspended first.
LinkDown ==
  /\ JobsDrained /\ link # "down" /\ link' = "down"
  /\ \/ \E m \in Managers : OwnsSession(m) /\ Room(m) /\ Suspend(m, "none", Untag(ops[m], "link"))
     \/ (\A m \in Managers : ~OwnsSession(m)) /\ UNCHANGED <<ops, manager>> /\ KeepGate
  /\ UNCHANGED <<proxy, line, rules, topRules, tx, page>>

\* runRoutingPolicyTransaction: suspend the Browser, then commit.
TxStart ==
  /\ JobsDrained /\ tx.step = "idle" /\ topRules < MaxRules
  /\ \/ \E m \in Managers :
          /\ OwnsSession(m) /\ Room(m) /\ Suspend(m, "tx", ops[m])
          /\ tx' = [step |-> "suspending", before |-> rules, current |-> TRUE, of |-> m]
     \/ /\ \A m \in Managers : ~OwnsSession(m)
        /\ tx' = [step |-> "resolved", before |-> rules, current |-> TRUE, of |-> NoOwner]
        /\ UNCHANGED <<ops, manager>> /\ KeepGate
  /\ UNCHANGED <<proxy, line, rules, topRules, link, page>>

TxOnly == UNCHANGED <<gate, proxy, manager, ops, line, link, page, request>>

\* commit() runs synchronously behind the suspension; it may fail.
TxCommit ==
  /\ tx.step = "resolved" /\ TxOnly /\ topRules' = topRules + 1
  /\ \/ rules' = topRules + 1 /\ tx' = [tx EXCEPT !.step = "committed"]
     \/ rules' = rules /\ tx' = [tx EXCEPT !.step = "aborting"]

\* The Browser is resumed only while the tunnel is up.
ResumeIfLive(next) ==
  \/ /\ link = "up" /\ \E m \in Managers : OwnsSession(m) /\ Configure(m, TRUE, "tx")
     /\ tx' = [tx EXCEPT !.step = next]
  \/ /\ link # "up" \/ \A m \in Managers : ~OwnsSession(m)
     /\ tx' = [tx EXCEPT !.step = "idle"] /\ UNCHANGED <<ops, manager>> /\ KeepGate

\* applyExternal, applyBrowser.
TxApply ==
  /\ tx.step = "committed" /\ tx.current /\ ResumeIfLive("resuming")
  /\ UNCHANGED <<proxy, line, rules, topRules, link, page>>
\* applyExternal fails, or the context went away: the rules are rolled back,
\* which may fail too.
TxRollback ==
  /\ tx.step = "committed" /\ TxOnly /\ UNCHANGED topRules
  /\ \/ rules' = tx.before /\ tx' = [tx EXCEPT !.step = "aborting"]
     \/ rules' = rules /\ tx' = [tx EXCEPT !.step = "unrestored"]
\* The recovery: resume when every restoring step succeeded, suspend again when
\* the context went away, and otherwise leave the Session as it is.
TxRestore ==
  /\ tx.step \in {"aborting", "unrestored"}
  /\ \/ tx.step = "aborting" /\ tx.current /\ ResumeIfLive("restoring")
     \/ /\ tx.step = "unrestored" \/ ~tx.current
        /\ tx' = [tx EXCEPT !.step = "idle"]
        /\ \/ ~tx.current /\ \E m \in Managers : OwnsSession(m) /\ Suspend(m, "none", ops[m])
           \/ (tx.current \/ \A m \in Managers : ~OwnsSession(m)) /\ UNCHANGED <<ops, manager>> /\ KeepGate
  /\ UNCHANGED <<proxy, line, rules, topRules, link, page>>

\* onBeforeRequest: a closed gate refuses at once, an open one waits for
\* ensureRequestReady.
Ask ==
  /\ JobsDrained /\ request = "none" /\ ~gate.blocked /\ gate.owner # NoOwner
  /\ request' = "asked"
  /\ UNCHANGED <<gate, proxy, manager, ops, line, rules, topRules, tx, link, page>>
\* The answer, whatever it waited for: the request passes when the gate is open
\* and its epoch has not moved.
SameEpoch == request = "asked"
AnswerRequest ==
  /\ JobsDrained /\ request \in {"asked", "moved", "crossed"}
  /\ \E ready \in BOOLEAN :
       request' = IF ready /\ ~gate.blocked /\ SameEpoch /\ request = "crossed" THEN "leaked" ELSE "none"
  /\ UNCHANGED <<gate, proxy, manager, ops, line, rules, topRules, tx, link, page>>

RoutingNext ==
  \/ \E m \in Managers :
       \/ Begin(m) \/ BeginFails(m) \/ Enter(m) \/ SetProxy(m) \/ CloseAll(m)
       \/ NativeFails(m) \/ CreateBrowser(m) \/ RetireManager(m) \/ ResetActivation(m) \/ Activate(m)
  \/ LinkUp \/ LinkDown
  \/ TxStart \/ TxCommit \/ TxApply \/ TxRollback \/ TxRestore
  \/ Ask \/ AnswerRequest

RoutingSpec == RoutingInit /\ [][RoutingNext]_routingVars

-----------------------------------------------------------------------------
(* While requests may pass, the Session runs the PAC its owner last        *)
(* confirmed, with no connection left from an earlier one, and no newer    *)
(* intent of that owner waits: "open it only after every async step        *)
(* confirms that no newer suspend/activation intent superseded this one".  *)
OpenGateIsApplied ==
  gate.owner # NoOwner /\ ~gate.blocked =>
    /\ manager[gate.owner].life = "live" /\ ~manager[gate.owner].suspended
    /\ proxy.settled /\ proxy.pac \in Versions /\ proxy.pac = manager[gate.owner].key
    /\ \A i \in DOMAIN ops[gate.owner] : ~InForce(ops[gate.owner][i])

(* A web request is never let through on an answer that was asked for      *)
(* before the gate last closed, even when it is open again by then.        *)
NoRequestCrossesSuspension == request # "leaked"

(* A Browser that was suspended for a rule change never serves rules older *)
(* than the committed ones, whatever pages and reconnections activate it   *)
(* again in the middle of the change.                                      *)
NeverOlderPolicy == gate.owner = tx.of /\ ~gate.blocked => gate.owner = NoOwner \/ proxy.pac >= rules

(* The three together.                                                     *)
RoutingSafety == RoutingTypeOK /\ OpenGateIsApplied /\ NoRequestCrossesSuspension /\ NeverOlderPolicy
=============================================================================
