------------------------ MODULE BrowserRouting_proofs ------------------------
(***************************************************************************)
(* The proxy policy of the Campus Browser is safe: RoutingCorrect.         *)
(*                                                                         *)
(* RoutingInv has one part for each of the places the state of the policy  *)
(* is kept in: whom the gate belongs to (OwnerInv), what the chain of a    *)
(* manager holds (ChainInv), who waits for the Session (LineInv), what the *)
(* Session runs while the gate is open (ServingInv, RunInv), where the     *)
(* rule transaction is (TxInv), and how old the rules of the open gate may *)
(* be (PolicyInv).  Each action has one lemma, and most of them are one of *)
(* a few kinds of step: an intent, an end of an operation, a move of it.   *)
(***************************************************************************)
EXTENDS BrowserRouting, SequenceTheorems, TLAPS

Live(m) == manager[m].life = "live"
\* The Session runs this manager's PAC and no later intent took it away.
Serving(m) == manager[m].key \in Versions /\ ~manager[m].suspended
Begun(m) == Len(ops[m]) > 0 /\ ops[m][1].at # "queued"

(* One Browser at a time, and the gate belongs to it once it is bound.      *)
OwnerInv ==
  /\ \A m, n \in Managers : Live(m) /\ Live(n) => m = n
  /\ \A m \in Managers : Live(m) /\ manager[m].bound => gate.owner = m
  /\ gate.owner # NoOwner => manager[gate.owner].life = "live" /\ manager[gate.owner].bound
  /\ \A m \in Managers : manager[m].life = "unmade" =>
       Len(ops[m]) = 0 /\ ~manager[m].bound /\ manager[m].key = Unset /\ ~manager[m].suspended

(* A chain: only its head runs, only its last operation is in force.        *)
OpInv(m, i) ==
  /\ i > 1 => ops[m][i].at = "queued"
  /\ InForce(ops[m][i]) => Live(m) /\ i = Len(ops[m])
  /\ ops[m][i].at = "queued" => ops[m][i].kind # "fallback"
  /\ ops[m][i].at # "queued" => manager[m].bound
  /\ ops[m][i].kind = "configure" /\ ops[m][i].at # "queued" => ops[m][i].pac \in Versions
  /\ ops[m][i].kind = "configure" /\ manager[m].suspended => ops[m][i].force
ChainInv == \A m \in Managers : \A i \in 1..Len(ops[m]) : OpInv(m, i)

(* The line of the Session: who waits in it, and what its head is doing.    *)
AtWork == Len(line) > 0 /\ ops[line[1]][1].at \in {"set", "drain"}
LineInv ==
  /\ \A i, j \in 1..Len(line) : line[i] = line[j] => i = j
  /\ \A i \in 1..Len(line) : Len(ops[line[i]]) > 0 /\ ops[line[i]][1].at # "queued"
  /\ \A m \in Managers : Begun(m) => \E i \in 1..Len(line) : line[i] = m
  /\ \A i \in 1..Len(line) : i > 1 => ops[line[i]][1].at = "line"
  /\ \A i \in 1..Len(line) : manager[line[i]].life = "live" => i = Len(line)
  /\ AtWork => gate.blocked
  /\ AtWork /\ ops[line[1]][1].at = "drain" => proxy.pac = ops[line[1]][1].pac

(* A manager that serves has the gate open on its own PAC.                  *)
ServingInv ==
  /\ \A m \in Managers : Live(m) /\ Serving(m) =>
        /\ gate.owner = m /\ ~gate.blocked /\ manager[m].ready
        /\ proxy.pac = manager[m].key /\ proxy.settled
        /\ \A i \in 1..Len(ops[m]) : ~InForce(ops[m][i])
  /\ gate.owner # NoOwner /\ ~gate.blocked =>
        manager[gate.owner].key \in Versions /\ ~manager[gate.owner].suspended
  /\ \A m, n \in Managers : ~Live(m) /\ Len(ops[m]) > 0 /\ Live(n) => manager[n].key = Unset

(* The rule transaction and its one operation.                              *)
TxOpInv(m, i) ==
  /\ tx.step \in {"suspending", "resuming", "restoring"}
  /\ tx.step = "suspending" => m = tx.of /\ ops[m][i].kind \in {"suspend", "superseded"}
  /\ Live(m) => ~Serving(m) /\ tx.current
  /\ \A n \in Managers : \A j \in 1..Len(ops[n]) : (ops[n][j].who = "tx") => n = m /\ j = i
\* The steps at which no operation of the transaction is under way but one is due.
Unsettled == {"resolved", "committed", "aborting", "unrestored"}
RulesInOrder == /\ tx.before <= rules /\ rules <= topRules
                /\ tx.step \in {"suspending", "resolved"} => topRules < MaxRules
TxOps == \A m \in Managers : \A i \in 1..Len(ops[m]) : ops[m][i].who = "tx" => TxOpInv(m, i)
TxWaits == tx.step = "suspending" => \E m \in Managers : \E i \in 1..Len(ops[m]) : ops[m][i].who = "tx"
TxQuiet == tx.step \in Unsettled => \A m \in Managers : Live(m) => ~Serving(m)
TxResolved == tx.step = "resolved" => \A m \in Managers : m = tx.of => ~Begun(m)
NewPacs == \A m \in Managers : m = tx.of => \A i \in 1..Len(ops[m]) :
             ops[m][i].kind = "configure" /\ ops[m][i].at # "queued" => ops[m][i].pac >= rules
TxInv == RulesInOrder /\ TxOps /\ TxWaits /\ TxQuiet /\ TxResolved /\ NewPacs
PolicyInv == gate.owner # NoOwner /\ gate.owner = tx.of /\ ~gate.blocked => proxy.pac >= rules

(* The type invariant, part by part; no request has leaked.                 *)
GateOK == /\ gate \in [blocked : BOOLEAN, owner : Managers \cup {NoOwner}]
          /\ request \in {"none", "asked", "moved", "crossed"}
ProxyOK == proxy \in [pac : Pacs, settled : BOOLEAN]
ManagerState == [life : {"unmade", "live", "retired"}, bound : BOOLEAN,
                 suspended : BOOLEAN, ready : BOOLEAN, key : Pacs]
ManagerOK == manager \in [Managers -> ManagerState]
OpsOK == ops \in [Managers -> Seq(Op)]
LineOK == line \in Seq(Managers)
TxOK == /\ rules \in Versions /\ topRules \in Versions
        /\ tx \in [step : TxSteps, before : Versions, current : BOOLEAN, of : Managers \cup {NoOwner}]
CallersOK == link \in {"down", "opening", "up"} /\ page \in BOOLEAN
RoutingTyped == GateOK /\ ProxyOK /\ ManagerOK /\ OpsOK /\ LineOK /\ TxOK /\ CallersOK

RoutingInv == RoutingTyped /\ OwnerInv /\ ChainInv /\ LineInv /\ ServingInv /\ TxInv /\ PolicyInv

-----------------------------------------------------------------------------
(* The invariant is strong enough.                                          *)

LEMMA TypedParts == RoutingTyped <=> RoutingTypeOK /\ request # "leaked"
BY DEF RoutingTyped, RoutingTypeOK, GateOK, ProxyOK, ManagerOK, OpsOK, LineOK, TxOK, CallersOK, ManagerState

LEMMA RoutingInvIsSafe == RoutingInv => RoutingSafety
<1>. SUFFICES ASSUME RoutingInv PROVE RoutingSafety OBVIOUS
<1>1. RoutingTypeOK /\ request # "leaked" BY TypedParts DEF RoutingInv
<1>2. OpenGateIsApplied
  <2>. SUFFICES ASSUME gate.owner # NoOwner, ~gate.blocked PROVE
         /\ manager[gate.owner].life = "live" /\ ~manager[gate.owner].suspended
         /\ proxy.settled /\ proxy.pac \in Versions /\ proxy.pac = manager[gate.owner].key
         /\ \A i \in DOMAIN ops[gate.owner] : ~InForce(ops[gate.owner][i])
       BY DEF OpenGateIsApplied
  <2>1. gate.owner \in Managers BY <1>1 DEF RoutingTypeOK
  <2>2. Live(gate.owner) /\ Serving(gate.owner) BY <2>1 DEF RoutingInv, OwnerInv, ServingInv, Live, Serving
  <2>3. DOMAIN ops[gate.owner] = 1..Len(ops[gate.owner]) BY <1>1, <2>1, LenProperties DEF RoutingTypeOK
  <2>. QED BY <2>1, <2>2, <2>3 DEF RoutingInv, ServingInv, Live, Serving
<1>3. NeverOlderPolicy BY DEF NeverOlderPolicy, RoutingInv, PolicyInv
<1>. QED BY <1>1, <1>2, <1>3 DEF RoutingSafety, NoRequestCrossesSuspension

LEMMA RoutingInitInv == RoutingInit => RoutingInv
<1>. SUFFICES ASSUME RoutingInit PROVE RoutingInv OBVIOUS
<1>. USE DEF RoutingInit
<1>1. RoutingTyped
  <2>1. 0 \in Versions BY RoutingAssumption DEF Versions
  <2>2. OpsOK /\ LineOK BY DEF OpsOK, LineOK
  <2>3. ProxyOK BY DEF ProxyOK, Pacs
  <2>4. ManagerOK BY DEF ManagerOK, ManagerState, Pacs
  <2>5. TxOK BY <2>1 DEF TxOK, TxSteps
  <2>6. GateOK /\ CallersOK BY DEF GateOK, CallersOK
  <2>. QED BY <2>2, <2>3, <2>4, <2>5, <2>6 DEF RoutingTyped
<1>2. \A m \in Managers : Len(ops[m]) = 0 /\ ~Live(m) /\ manager[m].key = Unset BY DEF Live
<1>3. Len(line) = 0 OBVIOUS
<1>4. OwnerInv BY <1>2 DEF OwnerInv
<1>5. ChainInv BY <1>2 DEF ChainInv
<1>6. LineInv BY <1>2, <1>3 DEF LineInv, AtWork, Begun
<1>7. ServingInv BY <1>2 DEF ServingInv
<1>8. TxInv
  <2>1. tx.before <= rules /\ rules <= topRules /\ tx.step = "idle" OBVIOUS
  <2>2. \A m \in Managers : ~\E i \in 1..Len(ops[m]) : TRUE BY <1>2
  <2>. QED BY <2>1, <2>2 DEF TxInv, RulesInOrder, TxOps, TxWaits, TxQuiet, TxResolved, NewPacs, Unsettled
<1>9. PolicyInv BY DEF PolicyInv
<1>. QED BY <1>1, <1>4, <1>5, <1>6, <1>7, <1>8, <1>9 DEF RoutingInv

-----------------------------------------------------------------------------
(* What the operators on a chain do, operation by operation.                *)

LEMMA LastOfInterval == ASSUME NEW a \in Nat, NEW b \in Nat, 1..a = 1..b PROVE a = b
<1>1. CASE a = 0
  <2>1. 1 \notin 1..a BY <1>1
  <2>2. ~(1 <= b) BY <2>1
  <2>. QED BY <1>1, <2>2
<1>2. CASE a > 0 /\ b = 0
  <2>1. 1 \in 1..a /\ 1 \notin 1..b BY <1>2
  <2>. QED BY <2>1
<1>3. CASE a > 0 /\ b > 0
  <2>1. a \in 1..a /\ b \in 1..b BY <1>3
  <2>2. a \in 1..b /\ b \in 1..a BY <2>1
  <2>3. a <= b /\ b <= a BY <2>2
  <2>. QED BY <2>3
<1>. QED BY <1>1, <1>2, <1>3

Dulled(op) == [op EXCEPT !.kind = "superseded", !.force = FALSE]

LEMMA SupersededFacts ==
  ASSUME NEW q \in Seq(Op)
  PROVE  /\ Superseded(q) \in Seq(Op) /\ Len(Superseded(q)) = Len(q)
         /\ \A i \in 1..Len(q) :
              /\ Superseded(q)[i].kind = "superseded" /\ Superseded(q)[i].at = q[i].at
              /\ Superseded(q)[i].pac = q[i].pac /\ Superseded(q)[i].who = q[i].who
<1>1. DOMAIN q = 1..Len(q) /\ Len(q) \in Nat BY LenProperties
<1>2. \A x \in Op : /\ Dulled(x) \in Op /\ Dulled(x).kind = "superseded" /\ Dulled(x).at = x.at
                       /\ Dulled(x).pac = x.pac /\ Dulled(x).who = x.who
  BY DEF Op, Dulled
<1>3. \A i \in 1..Len(q) : q[i] \in Op BY ElementOfSeq
<1>4. Superseded(q) = [i \in 1..Len(q) |-> Dulled(q[i])]
  BY <1>1 DEF Superseded, Dulled
<1>5. \A i \in 1..Len(q) : Superseded(q)[i] = Dulled(q[i])
  BY <1>4
<1>6. Superseded(q) \in [1..Len(q) -> Op] BY <1>2, <1>3, <1>4
<1>7. Superseded(q) \in Seq(Op) BY <1>1, <1>6, SeqDef
<1>8. DOMAIN Superseded(q) = 1..Len(q) BY <1>4
<1>9. Len(Superseded(q)) = Len(q)
  <2>1. DOMAIN Superseded(q) = 1..Len(Superseded(q)) /\ Len(Superseded(q)) \in Nat BY <1>7, LenProperties
  <2>. QED BY <2>1, <1>8, <1>1, LastOfInterval
<1>10. \A i \in 1..Len(q) :
        /\ Superseded(q)[i].kind = "superseded" /\ Superseded(q)[i].at = q[i].at
        /\ Superseded(q)[i].pac = q[i].pac /\ Superseded(q)[i].who = q[i].who
  BY <1>2, <1>3, <1>5
<1>. QED BY <1>7, <1>9, <1>10

LEMMA UntagFacts ==
  ASSUME NEW q \in Seq(Op), NEW caller \in {"page", "link"}
  PROVE  /\ Untag(q, caller) \in Seq(Op) /\ Len(Untag(q, caller)) = Len(q)
         /\ \A i \in 1..Len(q) :
              /\ Untag(q, caller)[i].kind = q[i].kind /\ Untag(q, caller)[i].at = q[i].at
              /\ Untag(q, caller)[i].pac = q[i].pac /\ Untag(q, caller)[i].force = q[i].force
              /\ ((Untag(q, caller)[i].who = "tx") <=> (q[i].who = "tx"))
<1>1. DOMAIN q = 1..Len(q) /\ Len(q) \in Nat BY LenProperties
<1>2. \A x \in Op : LET y == [x EXCEPT !.who = "none"] IN
        y \in Op /\ y.kind = x.kind /\ y.at = x.at /\ y.pac = x.pac /\ y.force = x.force /\ y.who = "none"
  BY DEF Op, Callers
<1>3. \A i \in 1..Len(q) : q[i] \in Op BY ElementOfSeq
<1>4. Untag(q, caller) = [i \in 1..Len(q) |-> IF q[i].who = caller THEN [q[i] EXCEPT !.who = "none"] ELSE q[i]]
  BY <1>1 DEF Untag
<1>5. \A i \in 1..Len(q) : /\ q[i].who = caller => Untag(q, caller)[i] = [q[i] EXCEPT !.who = "none"]
                           /\ q[i].who # caller => Untag(q, caller)[i] = q[i]
  BY <1>4
<1>6. \A i \in 1..Len(q) :
        /\ Untag(q, caller)[i] \in Op
        /\ Untag(q, caller)[i].kind = q[i].kind /\ Untag(q, caller)[i].at = q[i].at
        /\ Untag(q, caller)[i].pac = q[i].pac /\ Untag(q, caller)[i].force = q[i].force
        /\ ((Untag(q, caller)[i].who = "tx") <=> (q[i].who = "tx"))
  <2>. TAKE i \in 1..Len(q)
  <2>1. CASE q[i].who = caller BY <2>1, <1>2, <1>3, <1>5
  <2>2. CASE q[i].who # caller BY <2>2, <1>3, <1>5
  <2>. QED BY <2>1, <2>2
<1>7. Untag(q, caller) \in [1..Len(q) -> Op] BY <1>4, <1>6
<1>8. Untag(q, caller) \in Seq(Op) BY <1>1, <1>7, SeqDef
<1>9. DOMAIN Untag(q, caller) = 1..Len(q) BY <1>4
<1>10. Len(Untag(q, caller)) = Len(q)
  <2>1. DOMAIN Untag(q, caller) = 1..Len(Untag(q, caller)) /\ Len(Untag(q, caller)) \in Nat BY <1>8, LenProperties
  <2>. QED BY <2>1, <1>9, <1>1, LastOfInterval
<1>. QED BY <1>6, <1>8, <1>10

\* The four ways a step changes the chain of a manager.
OnlyChain(m) == /\ ops' \in [Managers -> Seq(Op)]
                /\ \A n \in Managers : n # m => ops'[n] = ops[n]
Grown(m, op) ==
  /\ OnlyChain(m) /\ Len(ops'[m]) = Len(ops[m]) + 1 /\ ops'[m][Len(ops[m]) + 1] = op
  /\ \A i \in 1..Len(ops[m]) :
       /\ ops'[m][i].kind = "superseded" /\ ops'[m][i].at = ops[m][i].at
       /\ ops'[m][i].pac = ops[m][i].pac
       /\ ((ops'[m][i].who = "tx") <=> (ops[m][i].who = "tx"))
Shrunk(m) ==
  /\ OnlyChain(m) /\ Len(ops[m]) > 0 /\ Len(ops'[m]) = Len(ops[m]) - 1
  /\ \A i \in 1..Len(ops'[m]) : ops'[m][i] = ops[m][i + 1]
Moved(m, op) ==
  /\ OnlyChain(m) /\ Len(ops[m]) > 0 /\ Len(ops'[m]) = Len(ops[m]) /\ ops'[m][1] = op
  /\ \A i \in 1..Len(ops[m]) : i # 1 => ops'[m][i] = ops[m][i]
Marked(m, retires) ==
  /\ OnlyChain(m) /\ Len(ops'[m]) = Len(ops[m])
  /\ \A i \in 1..Len(ops[m]) :
       /\ ops'[m][i].kind = IF retires THEN "superseded" ELSE ops[m][i].kind
       /\ ops'[m][i].at = ops[m][i].at /\ ops'[m][i].pac = ops[m][i].pac
       /\ ~retires => ops'[m][i].force = ops[m][i].force
       /\ ((ops'[m][i].who = "tx") <=> (ops[m][i].who = "tx"))

NewOp(kind, force, who) == [kind |-> kind, force |-> force, at |-> "queued", pac |-> FailClosed, who |-> who]

LEMMA EnqueueGrows ==
  ASSUME ops \in [Managers -> Seq(Op)], NEW m \in Managers, NEW kind \in {"configure", "suspend"},
         NEW force \in BOOLEAN, NEW who \in Callers, NEW queue,
         queue = ops[m] \/ queue = Untag(ops[m], "link"), Enqueue(m, kind, force, who, queue)
  PROVE  Grown(m, NewOp(kind, force, who))
<1>1. ops[m] \in Seq(Op) OBVIOUS
<1>2. /\ queue \in Seq(Op) /\ Len(queue) = Len(ops[m])
      /\ \A i \in 1..Len(queue) : /\ queue[i].at = ops[m][i].at /\ queue[i].pac = ops[m][i].pac
                                  /\ ((queue[i].who = "tx") <=> (ops[m][i].who = "tx"))
  <2>1. CASE queue = ops[m] BY <1>1, <2>1
  <2>2. CASE queue = Untag(ops[m], "link") BY <1>1, <2>2, UntagFacts
  <2>. QED BY <2>1, <2>2
<1>. DEFINE q == Superseded(queue)
            op == NewOp(kind, force, who)
<1>3. /\ q \in Seq(Op) /\ Len(q) = Len(ops[m]) /\ Len(q) \in Nat
      /\ \A i \in 1..Len(q) :
           /\ q[i].kind = "superseded" /\ q[i].at = ops[m][i].at
           /\ q[i].pac = ops[m][i].pac
           /\ ((q[i].who = "tx") <=> (ops[m][i].who = "tx"))
  BY <1>2, SupersededFacts, LenProperties
<1>4. op \in Op BY DEF Op, NewOp, Pacs
<1>5. ops' = [ops EXCEPT ![m] = Append(q, op)] BY DEF Enqueue, NewOp
<1>. HIDE DEF q, op
<1>6. /\ Append(q, op) \in Seq(Op) /\ Len(Append(q, op)) = Len(q) + 1
      /\ \A i \in 1..Len(q) : Append(q, op)[i] = q[i]
      /\ Append(q, op)[Len(q) + 1] = op
  BY <1>3, <1>4, AppendProperties
<1>7. ops'[m] = Append(q, op) /\ OnlyChain(m) BY <1>5, <1>6 DEF OnlyChain
<1>. QED BY <1>3, <1>6, <1>7 DEF Grown, op

LEMMA SettleShrinks ==
  ASSUME ops \in [Managers -> Seq(Op)], NEW m \in Managers, Len(ops[m]) > 0,
         NEW result, Settle(m, result)
  PROVE  Shrunk(m)
<1>1. ops[m] \in Seq(Op) /\ ops[m] # <<>> BY EmptySeq
<1>2. /\ Tail(ops[m]) \in Seq(Op) /\ Len(Tail(ops[m])) = Len(ops[m]) - 1
      /\ \A i \in 1..Len(Tail(ops[m])) : Tail(ops[m])[i] = ops[m][i + 1]
  BY <1>1, HeadTailProperties
<1>3. ops' = [ops EXCEPT ![m] = Tail(@)] BY DEF Settle
<1>4. ops'[m] = Tail(ops[m]) /\ OnlyChain(m) BY <1>2, <1>3 DEF OnlyChain
<1>. QED BY <1>2, <1>4 DEF Shrunk

LEMMA MoveMoves ==
  ASSUME ops \in [Managers -> Seq(Op)], NEW m \in Managers, Len(ops[m]) > 0,
         NEW op \in Op, MoveTo(m, op)
  PROVE  Moved(m, op)
<1>1. ops[m] \in Seq(Op) /\ Len(ops[m]) \in Nat BY LenProperties
<1>2. 1 \in 1..Len(ops[m]) BY <1>1
<1>. DEFINE q == [ops[m] EXCEPT ![1] = op]
<1>3. /\ q \in Seq(Op) /\ Len(q) = Len(ops[m])
      /\ \A j \in 1..Len(ops[m]) : q[j] = IF j = 1 THEN op ELSE ops[m][j]
  BY <1>1, <1>2, ExceptSeq
<1>4. ops' = [ops EXCEPT ![m] = q] BY DEF MoveTo
<1>. HIDE DEF q
<1>5. ops'[m] = q /\ OnlyChain(m) BY <1>3, <1>4 DEF OnlyChain
<1>. QED BY <1>2, <1>3, <1>5 DEF Moved

LEMMA RetireMarks ==
  ASSUME ops \in [Managers -> Seq(Op)], NEW m \in Managers,
         ops' = [ops EXCEPT ![m] = Superseded(Untag(@, "page"))]
  PROVE  Marked(m, TRUE)
<1>. DEFINE u == Untag(ops[m], "page")
            q == Superseded(u)
<1>1. ops[m] \in Seq(Op) OBVIOUS
<1>2. /\ u \in Seq(Op) /\ Len(u) = Len(ops[m])
      /\ \A i \in 1..Len(u) : /\ u[i].at = ops[m][i].at /\ u[i].pac = ops[m][i].pac
                              /\ ((u[i].who = "tx") <=> (ops[m][i].who = "tx"))
  BY <1>1, UntagFacts
<1>. HIDE DEF u
<1>3. /\ q \in Seq(Op) /\ Len(q) = Len(ops[m])
      /\ \A i \in 1..Len(q) :
           /\ q[i].kind = "superseded" /\ q[i].at = ops[m][i].at
           /\ q[i].pac = ops[m][i].pac
           /\ ((q[i].who = "tx") <=> (ops[m][i].who = "tx"))
  BY <1>2, SupersededFacts
<1>4. ops' = [ops EXCEPT ![m] = q] BY DEF u
<1>. HIDE DEF q
<1>5. ops'[m] = q /\ OnlyChain(m) BY <1>3, <1>4 DEF OnlyChain
<1>. QED BY <1>3, <1>5 DEF Marked

LEMMA ResetMarks ==
  ASSUME ops \in [Managers -> Seq(Op)], NEW m \in Managers, ops' = [ops EXCEPT ![m] = Untag(@, "page")]
  PROVE  Marked(m, FALSE)
<1>. DEFINE q == Untag(ops[m], "page")
<1>1. ops[m] \in Seq(Op) OBVIOUS
<1>2. /\ q \in Seq(Op) /\ Len(q) = Len(ops[m])
      /\ \A i \in 1..Len(q) :
           /\ q[i].kind = ops[m][i].kind /\ q[i].at = ops[m][i].at
           /\ q[i].pac = ops[m][i].pac /\ q[i].force = ops[m][i].force
           /\ ((q[i].who = "tx") <=> (ops[m][i].who = "tx"))
  BY <1>1, UntagFacts
<1>3. ops' = [ops EXCEPT ![m] = q] OBVIOUS
<1>. HIDE DEF q
<1>4. ops'[m] = q /\ OnlyChain(m) BY <1>2, <1>3 DEF OnlyChain
<1>. QED BY <1>2, <1>4 DEF Marked

-----------------------------------------------------------------------------
(* An intent joins the chain of a live manager.                             *)

Suspends(m) == manager' = [manager EXCEPT ![m].suspended = TRUE]
Blocks(m) == /\ gate'.owner = gate.owner
             /\ manager[m].bound => gate'.blocked
             /\ ~manager[m].bound => gate' = gate
Joins(m, kind, force, who) ==
  /\ Live(m) /\ Grown(m, NewOp(kind, force, who)) /\ Blocks(m)
  /\ proxy' = proxy /\ line' = line /\ rules' = rules /\ topRules' = topRules
  /\ \/ kind = "configure" /\ manager' = manager /\ (manager[m].suspended => force) /\ ~Serving(m)
     \/ kind = "suspend" /\ Suspends(m)

LEMMA JoinsManager ==
  ASSUME ManagerOK, NEW m \in Managers, NEW kind, NEW force, NEW who, Joins(m, kind, force, who)
  PROVE  /\ \A n \in Managers : /\ manager'[n].life = manager[n].life /\ manager'[n].bound = manager[n].bound
                                /\ manager'[n].key = manager[n].key /\ manager'[n].ready = manager[n].ready
                                /\ n # m => manager'[n].suspended = manager[n].suspended
                                /\ manager[n].suspended => manager'[n].suspended
         /\ kind = "suspend" => manager'[m].suspended
         /\ kind = "configure" => manager'[m].suspended = manager[m].suspended
         /\ manager'[m].suspended /\ kind = "configure" => force
         /\ ~(manager'[m].key \in Versions /\ ~manager'[m].suspended)
         /\ ManagerOK'
<1>1. CASE kind = "configure" /\ manager' = manager /\ (manager[m].suspended => force) /\ ~Serving(m)
  BY <1>1 DEF ManagerOK, Serving
<1>2. CASE kind = "suspend" /\ Suspends(m)
  <2>1. \A x \in ManagerState : LET y == [x EXCEPT !.suspended = TRUE] IN
          y \in ManagerState /\ y.life = x.life /\ y.bound = x.bound /\ y.key = x.key
          /\ y.ready = x.ready /\ y.suspended
    BY DEF ManagerState
  <2>2. manager' = [manager EXCEPT ![m] = [manager[m] EXCEPT !.suspended = TRUE]] BY <1>2 DEF Suspends
  <2>3. manager[m] \in ManagerState BY DEF ManagerOK
  <2>4. manager'[m] = [manager[m] EXCEPT !.suspended = TRUE] BY <2>2 DEF ManagerOK
  <2>5. \A n \in Managers : n # m => manager'[n] = manager[n] BY <2>2 DEF ManagerOK
  <2>6. /\ manager'[m] \in ManagerState /\ manager'[m].life = manager[m].life
        /\ manager'[m].bound = manager[m].bound /\ manager'[m].key = manager[m].key
        /\ manager'[m].ready = manager[m].ready /\ manager'[m].suspended
    BY <2>1, <2>3, <2>4
  <2>7. ManagerOK' BY <2>2, <2>4, <2>6 DEF ManagerOK
  <2>. QED BY <1>2, <2>5, <2>6, <2>7
<1>. QED BY <1>1, <1>2 DEF Joins

LEMMA JoinsOwner ==
  ASSUME RoutingInv, NEW m \in Managers, NEW kind, NEW force, NEW who, Joins(m, kind, force, who)
  PROVE  OwnerInv'
<1>1. OwnerInv /\ ManagerOK BY DEF RoutingInv, RoutingTyped
<1>2. \A n \in Managers : manager'[n].life = manager[n].life /\ manager'[n].bound = manager[n].bound
                         /\ manager'[n].key = manager[n].key
                         /\ (n # m => manager'[n].suspended = manager[n].suspended)
  BY <1>1, JoinsManager
<1>3. \A n \in Managers : n # m => ops'[n] = ops[n] BY DEF Joins, Grown, OnlyChain
<1>4. gate'.owner = gate.owner /\ Live(m) BY DEF Joins, Blocks
<1>5. gate.owner # NoOwner => gate.owner \in Managers BY DEF RoutingInv, RoutingTyped, GateOK
<1>. QED BY <1>1, <1>2, <1>3, <1>4, <1>5 DEF OwnerInv, Live

LEMMA JoinsChain ==
  ASSUME RoutingInv, NEW m \in Managers, NEW kind \in {"configure", "suspend"}, NEW force, NEW who,
         Joins(m, kind, force, who)
  PROVE  ChainInv'
<1>1. ChainInv /\ ManagerOK /\ OpsOK BY DEF RoutingInv, RoutingTyped
<1>2. /\ \A n \in Managers : /\ manager'[n].life = manager[n].life /\ manager'[n].bound = manager[n].bound
                             /\ n # m => manager'[n].suspended = manager[n].suspended
      /\ manager'[m].suspended /\ kind = "configure" => force
  BY <1>1, JoinsManager
<1>3. Grown(m, NewOp(kind, force, who)) /\ Live(m) BY DEF Joins
<1>. SUFFICES ASSUME NEW n \in Managers, NEW i \in 1..Len(ops'[n]) PROVE OpInv(n, i)' BY DEF ChainInv
<1>4. CASE n # m
  <2>1. ops'[n] = ops[n] BY <1>3, <1>4 DEF Grown, OnlyChain
  <2>2. OpInv(n, i) BY <1>1, <2>1 DEF ChainInv
  <2>. QED BY <1>2, <1>4, <2>1, <2>2 DEF OpInv, Live
<1>5. CASE n = m
  <2>1. Len(ops[m]) \in Nat BY <1>1, LenProperties DEF OpsOK
  <2>2. Len(ops'[m]) = Len(ops[m]) + 1 BY <1>3 DEF Grown
  <2>3. CASE i = Len(ops[m]) + 1
    <3>1. ops'[m][i] = NewOp(kind, force, who) BY <1>3, <2>3 DEF Grown
    <3>. QED BY <1>2, <1>3, <1>5, <2>2, <2>3, <3>1 DEF OpInv, Live, NewOp, InForce
  <2>4. CASE i \in 1..Len(ops[m])
    <3>1. OpInv(m, i) BY <1>1, <2>4 DEF ChainInv
    <3>2. ops'[m][i].kind = "superseded" /\ ops'[m][i].at = ops[m][i].at BY <1>3, <2>4 DEF Grown
    <3>. QED BY <1>2, <1>5, <3>1, <3>2 DEF OpInv, Live, InForce
  <2>. QED BY <1>5, <2>1, <2>2, <2>3, <2>4
<1>. QED BY <1>4, <1>5

LEMMA JoinsHeads ==
  ASSUME RoutingInv, NEW m \in Managers, NEW kind, NEW force, NEW who, Joins(m, kind, force, who)
  PROVE  \A n \in Managers :
           /\ Begun(n)' <=> Begun(n)
           /\ Len(ops[n]) > 0 => /\ Len(ops'[n]) > 0 /\ ops'[n][1].at = ops[n][1].at
                                 /\ ops'[n][1].pac = ops[n][1].pac
<1>1. OpsOK BY DEF RoutingInv, RoutingTyped
<1>2. Grown(m, NewOp(kind, force, who)) BY DEF Joins
<1>. TAKE n \in Managers
<1>3. CASE n # m BY <1>2, <1>3 DEF Grown, OnlyChain, Begun
<1>4. CASE n = m
  <2>1. Len(ops[m]) \in Nat BY <1>1, LenProperties DEF OpsOK
  <2>2. CASE Len(ops[m]) = 0
    <3>1. ops'[m][1] = NewOp(kind, force, who) BY <1>2, <2>2 DEF Grown
    <3>. QED BY <1>4, <2>2, <3>1 DEF Begun, NewOp
  <2>3. CASE Len(ops[m]) > 0
    <3>1. 1 \in 1..Len(ops[m]) BY <2>1, <2>3
    <3>2. ops'[m][1].at = ops[m][1].at /\ ops'[m][1].pac = ops[m][1].pac BY <1>2, <3>1 DEF Grown
    <3>3. Len(ops'[m]) > 0 BY <1>2, <2>3 DEF Grown
    <3>. QED BY <1>4, <2>3, <3>2, <3>3 DEF Begun
  <2>. QED BY <2>1, <2>2, <2>3
<1>. QED BY <1>3, <1>4

LEMMA JoinsLine ==
  ASSUME RoutingInv, NEW m \in Managers, NEW kind, NEW force, NEW who, Joins(m, kind, force, who)
  PROVE  LineInv'
<1>1. LineInv /\ ManagerOK /\ LineOK BY DEF RoutingInv, RoutingTyped
<1>2. \A n \in Managers : manager'[n].life = manager[n].life BY <1>1, JoinsManager
<1>3. \A n \in Managers :
           /\ Begun(n)' <=> Begun(n)
           /\ Len(ops[n]) > 0 => /\ Len(ops'[n]) > 0 /\ ops'[n][1].at = ops[n][1].at
                                 /\ ops'[n][1].pac = ops[n][1].pac
  BY JoinsHeads
<1>4. \A i \in 1..Len(line) : line[i] \in Managers /\ Len(ops[line[i]]) > 0
  BY <1>1, ElementOfSeq DEF LineInv, LineOK
<1>5. line' = line /\ proxy' = proxy /\ (gate.blocked => gate'.blocked) BY DEF Joins, Blocks
<1>6. AtWork' <=> AtWork
  <2>1. Len(line) > 0 => 1 \in 1..Len(line) BY <1>1, LenProperties DEF LineOK
  <2>. QED BY <1>3, <1>4, <1>5, <2>1 DEF AtWork
<1>7. AtWork => 1 \in 1..Len(line) BY <1>1, LenProperties DEF LineOK, AtWork
<1>8. \A i \in 1..Len(line) : ops'[line[i]][1].at = ops[line[i]][1].at /\ Len(ops'[line[i]]) > 0
  BY <1>3, <1>4
<1>9. /\ \A i \in 1..Len(line') : Len(ops'[line'[i]]) > 0 /\ ops'[line'[i]][1].at # "queued"
      /\ \A i \in 1..Len(line') : i > 1 => ops'[line'[i]][1].at = "line"
  BY <1>1, <1>5, <1>8 DEF LineInv
<1>10. \A i \in 1..Len(line') : manager'[line'[i]].life = "live" => i = Len(line')
  BY <1>1, <1>2, <1>4, <1>5 DEF LineInv
<1>11. AtWork' => gate'.blocked /\ (ops'[line'[1]][1].at = "drain" => proxy'.pac = ops'[line'[1]][1].pac)
  BY <1>1, <1>3, <1>4, <1>5, <1>6, <1>7 DEF LineInv
<1>12. \A n \in Managers : Begun(n)' => \E i \in 1..Len(line') : line'[i] = n
  BY <1>1, <1>3, <1>5 DEF LineInv
<1>13. \A i, j \in 1..Len(line') : line'[i] = line'[j] => i = j BY <1>1, <1>5 DEF LineInv
<1>. QED BY <1>9, <1>10, <1>11, <1>12, <1>13 DEF LineInv

\* An intent closes the gate of its manager, and only one manager has one.
LEMMA JoinsGate ==
  ASSUME RoutingInv, NEW m \in Managers, NEW kind, NEW force, NEW who, Joins(m, kind, force, who)
  PROVE  gate'.owner = NoOwner \/ gate'.blocked
<1>1. OwnerInv /\ gate.owner \in Managers \cup {NoOwner} BY DEF RoutingInv, RoutingTyped, GateOK
<1>2. Live(m) /\ gate'.owner = gate.owner BY DEF Joins, Blocks
<1>. SUFFICES ASSUME gate.owner # NoOwner, ~gate'.blocked PROVE FALSE BY <1>2
<1>3. gate.owner = m /\ manager[m].bound BY <1>1, <1>2 DEF OwnerInv, Live
<1>. QED BY <1>3 DEF Joins, Blocks

LEMMA JoinsServing ==
  ASSUME RoutingInv, NEW m \in Managers, NEW kind, NEW force, NEW who, Joins(m, kind, force, who)
  PROVE  ServingInv'
<1>1. ServingInv /\ ManagerOK /\ OwnerInv BY DEF RoutingInv, RoutingTyped
<1>2. /\ \A n \in Managers : /\ manager'[n].life = manager[n].life /\ manager'[n].bound = manager[n].bound
                             /\ manager'[n].key = manager[n].key /\ manager'[n].ready = manager[n].ready
                             /\ n # m => manager'[n].suspended = manager[n].suspended
      /\ ~Serving(m)'
  BY <1>1, JoinsManager DEF Serving
<1>3. Live(m) /\ gate'.owner = gate.owner /\ proxy' = proxy BY DEF Joins, Blocks
<1>4. \A n \in Managers : n # m => ops'[n] = ops[n] BY DEF Joins, Grown, OnlyChain
<1>5. \A n \in Managers : ~(Live(n)' /\ Serving(n)') BY <1>1, <1>2, <1>3 DEF OwnerInv, Live, Serving
<1>6. ~(gate'.owner # NoOwner /\ ~gate'.blocked) BY JoinsGate
<1>7. \A n, o \in Managers : ~Live(n)' /\ Len(ops'[n]) > 0 /\ Live(o)' => manager'[o].key = Unset
  BY <1>1, <1>2, <1>3, <1>4 DEF ServingInv, Live
<1>. QED BY <1>5, <1>6, <1>7 DEF ServingInv

\* What the intent means to the rule transaction.
StepsTo(step) == tx' = [tx EXCEPT !.step = step]
Starts(m) == tx' = [step |-> "suspending", before |-> rules, current |-> TRUE, of |-> m]
TxJoins(m, kind, who) ==
  \/ who # "tx" /\ tx' = tx
  \/ who # "tx" /\ tx.step \in {"aborting", "unrestored"} /\ StepsTo("idle")
  \/ who = "tx" /\ kind = "suspend" /\ tx.step = "idle" /\ topRules < MaxRules /\ Starts(m)
  \/ /\ who = "tx" /\ kind = "configure" /\ tx.step \in {"committed", "aborting"} /\ tx.current
     /\ StepsTo("resuming") \/ StepsTo("restoring")

LEMMA StepFields ==
  ASSUME TxOK, NEW step \in TxSteps, StepsTo(step)
  PROVE  /\ tx'.step = step /\ tx'.before = tx.before /\ tx'.current = tx.current /\ tx'.of = tx.of
         /\ tx' \in [step : TxSteps, before : Versions, current : BOOLEAN, of : Managers \cup {NoOwner}]
BY DEF TxOK, StepsTo

LEMMA JoinsTx ==
  ASSUME RoutingInv, NEW m \in Managers, NEW kind \in {"configure", "suspend"}, NEW force, NEW who,
         Joins(m, kind, force, who), TxJoins(m, kind, who)
  PROVE  TxInv' /\ PolicyInv' /\ TxOK'
<1>1. TxInv /\ TxOK /\ ManagerOK /\ OpsOK BY DEF RoutingInv, RoutingTyped
<1>2. /\ \A n \in Managers : /\ manager'[n].life = manager[n].life /\ manager'[n].key = manager[n].key
                             /\ n # m => manager'[n].suspended = manager[n].suspended
      /\ ~Serving(m)'
  BY <1>1, JoinsManager DEF Serving
<1>3. Grown(m, NewOp(kind, force, who)) /\ Live(m) /\ Live(m)' BY <1>2 DEF Joins, Live
<1>4. rules' = rules /\ topRules' = topRules BY DEF Joins
<1>5. Len(ops[m]) \in Nat /\ Len(ops'[m]) = Len(ops[m]) + 1 BY <1>1, <1>3, LenProperties DEF Grown, OpsOK
<1>6. ops'[m][Len(ops[m]) + 1] = NewOp(kind, force, who) BY <1>3 DEF Grown
<1>7. \A n \in Managers : \A i \in 1..Len(ops'[n]) :
        \/ n = m /\ i = Len(ops[m]) + 1
        \/ /\ i \in 1..Len(ops[n]) /\ ((ops'[n][i].who = "tx") <=> (ops[n][i].who = "tx")) /\ ops'[n][i].at = ops[n][i].at
           /\ ops'[n][i].pac = ops[n][i].pac /\ ops'[n][i].kind \in {"superseded", ops[n][i].kind}
  <2>. TAKE n \in Managers
  <2>. TAKE i \in 1..Len(ops'[n])
  <2>1. CASE n # m
    <3>1. ops'[n] = ops[n] BY <1>3, <2>1 DEF Grown, OnlyChain
    <3>. QED BY <3>1
  <2>2. CASE n = m /\ i # Len(ops[m]) + 1
    <3>1. i \in 1..Len(ops[m]) BY <1>5, <2>2
    <3>. QED BY <1>3, <2>2, <3>1 DEF Grown
  <2>. QED BY <2>1, <2>2
<1>8. \A n \in Managers : \A i \in 1..Len(ops[n]) : i \in 1..Len(ops'[n]) /\ ((ops'[n][i].who = "tx") <=> (ops[n][i].who = "tx"))
  <2>. TAKE n \in Managers
  <2>. TAKE i \in 1..Len(ops[n])
  <2>1. CASE n # m BY <1>3, <2>1 DEF Grown, OnlyChain
  <2>2. CASE n = m
    <3>1. i \in 1..Len(ops'[m]) /\ i # Len(ops[m]) + 1 BY <1>5, <2>2
    <3>. QED BY <1>7, <2>2, <3>1
  <2>. QED BY <2>1, <2>2
<1>9. (ops'[m][Len(ops[m]) + 1].who = "tx") <=> who = "tx" BY <1>6 DEF NewOp
<1>10. Len(ops[m]) + 1 \in 1..Len(ops'[m]) BY <1>5
<1>11. \A n \in Managers : Live(n)' /\ Serving(n)' => Live(n) /\ Serving(n) BY <1>2, <1>3 DEF Live, Serving
<1>12. PolicyInv' BY JoinsGate DEF PolicyInv
<1>12a. \A n \in Managers : n = tx.of => \A i \in 1..Len(ops'[n]) :
          ops'[n][i].kind = "configure" /\ ops'[n][i].at # "queued" => ops'[n][i].pac >= rules
  <2>. SUFFICES ASSUME NEW n \in Managers, n = tx.of, NEW i \in 1..Len(ops'[n]),
                       ops'[n][i].kind = "configure", ops'[n][i].at # "queued"
                PROVE  ops'[n][i].pac >= rules
    OBVIOUS
  <2>1. NewOp(kind, force, who).at = "queued" BY DEF NewOp
  <2>2. ~(n = m /\ i = Len(ops[m]) + 1) BY <1>6, <2>1
  <2>3. /\ i \in 1..Len(ops[n]) /\ ops'[n][i].at = ops[n][i].at
        /\ ops'[n][i].pac = ops[n][i].pac /\ ops'[n][i].kind \in {"superseded", ops[n][i].kind}
    BY <1>7, <2>2
  <2>4. ops[n][i].kind = "configure" /\ ops[n][i].at # "queued" BY <2>3
  <2>5. NewPacs BY <1>1 DEF TxInv
  <2>. QED BY <2>3, <2>4, <2>5 DEF NewPacs
<1>13. CASE tx' = tx /\ who # "tx"
  <2>1. \A n \in Managers : \A i \in 1..Len(ops'[n]) : (ops'[n][i].who = "tx") => TxOpInv(n, i)'
    <3>. SUFFICES ASSUME NEW n \in Managers, NEW i \in 1..Len(ops'[n]), (ops'[n][i].who = "tx") PROVE TxOpInv(n, i)' OBVIOUS
    <3>1. i \in 1..Len(ops[n]) /\ (ops[n][i].who = "tx") /\ ops'[n][i].kind \in {"superseded", ops[n][i].kind}
      BY <1>7, <1>9, <1>13
    <3>2. TxOpInv(n, i) BY <1>1, <3>1 DEF TxInv, TxOps
    <3>3. \A o \in Managers : \A j \in 1..Len(ops'[o]) : (ops'[o][j].who = "tx") => o = n /\ j = i
      BY <1>7, <1>9, <1>13, <3>2 DEF TxOpInv
    <3>. QED BY <1>11, <1>2, <1>13, <3>1, <3>2, <3>3 DEF TxOpInv, Live
  <2>2. tx.step = "suspending" => \E n \in Managers : \E i \in 1..Len(ops'[n]) : (ops'[n][i].who = "tx")
    BY <1>1, <1>8 DEF TxInv, TxWaits
  <2>3. tx.step = "resolved" => \A n \in Managers : n = tx.of => ~Begun(n)'
    BY <1>1, JoinsHeads DEF TxInv, TxResolved
  <2>4. \A n \in Managers : n = tx.of => \A i \in 1..Len(ops'[n]) :
          ops'[n][i].kind = "configure" /\ ops'[n][i].at # "queued" => ops'[n][i].pac >= rules
    BY <1>12a
  <2>5. RulesInOrder' /\ TxOK' BY <1>1, <1>4, <1>13 DEF TxInv, RulesInOrder, TxOK
  <2>6. TxQuiet' BY <1>1, <1>11, <1>13 DEF TxInv, TxQuiet
  <2>7. TxOps' /\ TxWaits' BY <1>13, <2>1, <2>2 DEF TxOps, TxWaits
  <2>8. TxResolved' /\ NewPacs' BY <1>4, <1>13, <2>3, <2>4 DEF TxResolved, NewPacs
  <2>. QED BY <1>12, <2>5, <2>6, <2>7, <2>8 DEF TxInv
<1>14. CASE who # "tx" /\ tx.step \in {"aborting", "unrestored"} /\ StepsTo("idle")
  <2>1. tx'.step = "idle" /\ tx'.before = tx.before /\ tx'.of = tx.of /\ TxOK'
    BY <1>1, <1>4, <1>14, StepFields DEF TxSteps, TxOK
  <2>2. \A n \in Managers : \A i \in 1..Len(ops'[n]) : ops'[n][i].who # "tx"
    <3>1. \A n \in Managers : \A i \in 1..Len(ops[n]) : ops[n][i].who # "tx" BY <1>1, <1>14 DEF TxInv, TxOps, TxOpInv
    <3>. QED BY <3>1, <1>7, <1>9, <1>14
  <2>4. \A n \in Managers : n = tx.of => \A i \in 1..Len(ops'[n]) :
          ops'[n][i].kind = "configure" /\ ops'[n][i].at # "queued" => ops'[n][i].pac >= rules
    BY <1>12a
  <2>5. RulesInOrder' BY <1>1, <1>4, <2>1 DEF TxInv, RulesInOrder
  <2>6. TxOps' BY <2>2 DEF TxOps
  <2>7. TxQuiet' /\ TxWaits' /\ TxResolved' BY <2>1 DEF TxQuiet, TxWaits, TxResolved, Unsettled
  <2>8. NewPacs' BY <1>4, <2>1, <2>4 DEF NewPacs
  <2>. QED BY <1>12, <2>1, <2>5, <2>6, <2>7, <2>8 DEF TxInv
<1>15. CASE who = "tx" /\ kind = "suspend" /\ tx.step = "idle" /\ topRules < MaxRules /\ Starts(m)
  <2>1. tx'.step = "suspending" /\ tx'.before = rules /\ tx'.of = m /\ tx'.current /\ TxOK'
    BY <1>1, <1>4, <1>15 DEF Starts, TxOK, TxSteps
  <2>2. \A n \in Managers : \A i \in 1..Len(ops'[n]) : (ops'[n][i].who = "tx") => n = m /\ i = Len(ops[m]) + 1
    <3>1. \A n \in Managers : \A i \in 1..Len(ops[n]) : ops[n][i].who # "tx" BY <1>1, <1>15 DEF TxInv, TxOps, TxOpInv
    <3>. QED BY <3>1, <1>7
  <2>3. ops'[m][Len(ops[m]) + 1].kind = "suspend" BY <1>6, <1>15 DEF NewOp
  <2>4. \A n \in Managers : \A i \in 1..Len(ops'[n]) : (ops'[n][i].who = "tx") => TxOpInv(n, i)'
    BY <1>2, <2>1, <2>2, <2>3 DEF TxOpInv
  <2>5. \A i \in 1..Len(ops'[m]) : ops'[m][i].kind # "configure"
    BY <1>3, <1>5, <2>3 DEF Grown
  <2>6. rules \in Nat /\ tx'.before <= rules' BY <1>1, <1>4, <2>1, RoutingAssumption DEF TxOK, Versions
  <2>7. RulesInOrder' BY <1>1, <1>4, <1>15, <2>6 DEF TxInv, RulesInOrder
  <2>8. TxOps' BY <2>4 DEF TxOps
  <2>9. TxWaits' BY <1>9, <1>10, <1>15 DEF TxWaits
  <2>10. TxQuiet' /\ TxResolved' BY <2>1 DEF TxQuiet, TxResolved, Unsettled
  <2>11. NewPacs' BY <2>1, <2>5 DEF NewPacs
  <2>. QED BY <1>12, <2>1, <2>7, <2>8, <2>9, <2>10, <2>11 DEF TxInv
<1>16. CASE /\ who = "tx" /\ kind = "configure" /\ tx.step \in {"committed", "aborting"} /\ tx.current
            /\ StepsTo("resuming") \/ StepsTo("restoring")
  <2>1. /\ tx'.step \in {"resuming", "restoring"} /\ tx'.before = tx.before /\ tx'.of = tx.of
        /\ tx'.current /\ TxOK'
    BY <1>1, <1>4, <1>16, StepFields DEF TxSteps, TxOK
  <2>2. \A n \in Managers : \A i \in 1..Len(ops'[n]) : (ops'[n][i].who = "tx") => n = m /\ i = Len(ops[m]) + 1
    <3>1. \A n \in Managers : \A i \in 1..Len(ops[n]) : ops[n][i].who # "tx" BY <1>1, <1>16 DEF TxInv, TxOps, TxOpInv
    <3>. QED BY <3>1, <1>7
  <2>4. \A n \in Managers : \A i \in 1..Len(ops'[n]) : (ops'[n][i].who = "tx") => TxOpInv(n, i)'
    BY <1>2, <2>1, <2>2 DEF TxOpInv
  <2>5. \A n \in Managers : n = tx.of => \A i \in 1..Len(ops'[n]) :
          ops'[n][i].kind = "configure" /\ ops'[n][i].at # "queued" => ops'[n][i].pac >= rules
    BY <1>12a
  <2>7. RulesInOrder' BY <1>1, <1>4, <2>1 DEF TxInv, RulesInOrder
  <2>8. TxOps' BY <2>4 DEF TxOps
  <2>9. TxWaits' /\ TxQuiet' /\ TxResolved' BY <2>1 DEF TxWaits, TxQuiet, TxResolved, Unsettled
  <2>10. NewPacs' BY <1>4, <2>1, <2>5 DEF NewPacs
  <2>. QED BY <1>12, <2>1, <2>7, <2>8, <2>9, <2>10 DEF TxInv
<1>. QED BY <1>13, <1>14, <1>15, <1>16 DEF TxJoins

-----------------------------------------------------------------------------
(* The operation at the head of a chain settles and leaves it.              *)

LineShrinks == /\ line' \in Seq(Managers) /\ Len(line') = Len(line) - 1
               /\ \A i \in 1..Len(line') : line'[i] = line[i + 1]
Ends(m) == /\ Shrunk(m)
           /\ \/ ops[m][1].at = "queued" /\ line' = line /\ gate' = gate /\ proxy' = proxy
              \/ Len(line) > 0 /\ line[1] = m /\ LineShrinks

LEMMA LeaveShrinks == ASSUME LineOK, Len(line) > 0, LeaveLine PROVE LineShrinks
<1>1. line \in Seq(Managers) /\ line # <<>> BY EmptySeq DEF LineOK
<1>. QED BY <1>1, HeadTailProperties DEF LineShrinks, LeaveLine

LEMMA EndsHeads ==
  ASSUME RoutingInv, NEW m \in Managers, Ends(m)
  PROVE  /\ Len(ops[m]) > 0 /\ Len(ops'[m]) = Len(ops[m]) - 1
         /\ \A i \in 1..Len(ops'[m]) :
               i + 1 \in 1..Len(ops[m]) /\ ops'[m][i] = ops[m][i + 1] /\ ops'[m][i].at = "queued"
         /\ \A n \in Managers : n # m => ops'[n] = ops[n] /\ (Begun(n)' <=> Begun(n))
         /\ ~Begun(m)' /\ OpsOK'
<1>1. ChainInv /\ OpsOK BY DEF RoutingInv, RoutingTyped
<1>2. Shrunk(m) BY DEF Ends
<1>3. Len(ops[m]) \in Nat /\ Len(ops'[m]) \in Nat BY <1>1, <1>2, LenProperties DEF OpsOK, Shrunk, OnlyChain
<1>4. \A i \in 1..Len(ops'[m]) :
               i + 1 \in 1..Len(ops[m]) /\ ops'[m][i] = ops[m][i + 1] /\ ops'[m][i].at = "queued"
  <2>. TAKE i \in 1..Len(ops'[m])
  <2>1. i + 1 \in 1..Len(ops[m]) /\ i + 1 > 1 /\ ops'[m][i] = ops[m][i + 1] BY <1>2, <1>3 DEF Shrunk
  <2>2. OpInv(m, i + 1) BY <1>1, <2>1 DEF ChainInv
  <2>. QED BY <2>1, <2>2 DEF OpInv
<1>5. ~Begun(m)' BY <1>3, <1>4 DEF Begun
<1>6. \A n \in Managers : n # m => ops'[n] = ops[n] /\ (Begun(n)' <=> Begun(n))
  BY <1>2 DEF Shrunk, OnlyChain, Begun
<1>. QED BY <1>2, <1>4, <1>5, <1>6 DEF Shrunk, OnlyChain, OpsOK

LEMMA EndsLine ==
  ASSUME RoutingInv, NEW m \in Managers, Ends(m), \A n \in Managers : manager'[n].life = manager[n].life
  PROVE  LineInv' /\ LineOK'
<1>1. LineInv /\ LineOK BY DEF RoutingInv, RoutingTyped
<1>2. Len(line) \in Nat /\ \A i \in 1..Len(line) : line[i] \in Managers
  BY <1>1, ElementOfSeq, LenProperties DEF LineOK
<1>3. /\ ~Begun(m)'
      /\ \A n \in Managers : n # m => ops'[n] = ops[n] /\ (Begun(n)' <=> Begun(n))
  BY EndsHeads
<1>4. CASE ops[m][1].at = "queued" /\ line' = line /\ gate' = gate /\ proxy' = proxy
  <2>1. ~Begun(m) BY <1>4 DEF Begun
  <2>2. \A i \in 1..Len(line) : line[i] # m BY <1>1, <2>1 DEF LineInv, Begun
  <2>3. \A i \in 1..Len(line) : ops'[line[i]] = ops[line[i]] BY <1>2, <1>3, <2>2
  <2>4. Len(line) > 0 => 1 \in 1..Len(line) BY <1>2
  <2>5. (AtWork' <=> AtWork) /\ (AtWork => ops'[line[1]] = ops[line[1]]) BY <1>4, <2>3, <2>4 DEF AtWork
  <2>6. \A n \in Managers : Begun(n)' => Begun(n) BY <1>3
  <2>7. \A i \in 1..Len(line') : manager'[line'[i]].life = "live" => i = Len(line') BY <1>1, <1>2, <1>4 DEF LineInv
  <2>8. \A i \in 1..Len(line') : Len(ops'[line'[i]]) > 0 /\ ops'[line'[i]][1].at # "queued"
    BY <1>1, <1>4, <2>3 DEF LineInv
  <2>9. \A i \in 1..Len(line') : i > 1 => ops'[line'[i]][1].at = "line" BY <1>1, <1>4, <2>3 DEF LineInv
  <2>10. AtWork' => gate'.blocked /\ (ops'[line'[1]][1].at = "drain" => proxy'.pac = ops'[line'[1]][1].pac)
    BY <1>1, <1>4, <2>5 DEF LineInv
  <2>11. LineOK' /\ \A i, j \in 1..Len(line') : line'[i] = line'[j] => i = j
    BY <1>1, <1>4 DEF LineInv, LineOK
  <2>12. \A n \in Managers : Begun(n)' => \E i \in 1..Len(line') : line'[i] = n
    BY <1>1, <1>4, <2>6 DEF LineInv
  <2>. QED BY <2>7, <2>8, <2>9, <2>10, <2>11, <2>12 DEF LineInv
<1>5. CASE Len(line) > 0 /\ line[1] = m /\ LineShrinks
  <2>1. Len(line') = Len(line) - 1 /\ LineOK' BY <1>5 DEF LineShrinks, LineOK
  <2>2. \A i \in 1..Len(line') : /\ i + 1 \in 1..Len(line) /\ i + 1 > 1 /\ line'[i] = line[i + 1]
                                /\ line'[i] # m /\ line'[i] \in Managers
    <3>. TAKE i \in 1..Len(line')
    <3>1. i + 1 \in 1..Len(line) /\ i + 1 # 1 /\ 1 \in 1..Len(line) BY <1>2, <1>5, <2>1
    <3>2. line'[i] = line[i + 1] BY <1>5 DEF LineShrinks
    <3>3. line[i + 1] # m BY <1>1, <1>5, <3>1 DEF LineInv
    <3>. QED BY <1>2, <3>1, <3>2, <3>3
  <2>3. \A i, j \in 1..Len(line') : line'[i] = line'[j] => i = j
    <3>. SUFFICES ASSUME NEW i \in 1..Len(line'), NEW j \in 1..Len(line'), line'[i] = line'[j] PROVE i = j
         OBVIOUS
    <3>1. i + 1 = j + 1 BY <1>1, <2>2 DEF LineInv
    <3>. QED BY <3>1
  <2>4. \A i \in 1..Len(line') : Len(ops'[line'[i]]) > 0 /\ ops'[line'[i]][1].at = "line"
    <3>. TAKE i \in 1..Len(line')
    <3>1. Len(ops[line[i + 1]]) > 0 /\ ops[line[i + 1]][1].at = "line" BY <1>1, <2>2 DEF LineInv
    <3>2. ops'[line'[i]] = ops[line[i + 1]] BY <1>3, <2>2
    <3>. QED BY <3>1, <3>2
  <2>5. \A n \in Managers : Begun(n)' => \E i \in 1..Len(line') : line'[i] = n
    <3>. SUFFICES ASSUME NEW n \in Managers, Begun(n)' PROVE \E i \in 1..Len(line') : line'[i] = n OBVIOUS
    <3>1. n # m /\ Begun(n) BY <1>3
    <3>2. PICK j \in 1..Len(line) : line[j] = n BY <1>1, <3>1 DEF LineInv
    <3>3. j # 1 BY <1>5, <3>1, <3>2
    <3>4. j - 1 \in 1..Len(line') /\ (j - 1) + 1 = j BY <1>2, <2>1, <3>2, <3>3
    <3>5. line'[j - 1] = line[j] BY <2>2, <3>4
    <3>. QED BY <3>2, <3>4, <3>5
  <2>6. \A i \in 1..Len(line') : manager'[line'[i]].life = "live" => i = Len(line')
    <3>. SUFFICES ASSUME NEW i \in 1..Len(line'), manager'[line'[i]].life = "live" PROVE i = Len(line')
         OBVIOUS
    <3>1. i + 1 = Len(line) BY <1>1, <2>2 DEF LineInv
    <3>. QED BY <2>1, <3>1, <1>2
  <2>7. ~AtWork'
    <3>1. Len(line') > 0 => 1 \in 1..Len(line') BY <1>2, <2>1
    <3>. QED BY <2>4, <3>1 DEF AtWork
  <2>. QED BY <2>1, <2>3, <2>4, <2>5, <2>6, <2>7 DEF LineInv
<1>. QED BY <1>4, <1>5 DEF Ends

LEMMA EndsChain ==
  ASSUME RoutingInv, NEW m \in Managers, Ends(m),
         \A n \in Managers : /\ manager'[n].life = manager[n].life /\ manager'[n].bound = manager[n].bound
                             /\ manager'[n].suspended => manager[n].suspended
  PROVE  ChainInv'
<1>1. ChainInv BY DEF RoutingInv
<1>2. /\ Len(ops'[m]) = Len(ops[m]) - 1 /\ OpsOK'
      /\ \A i \in 1..Len(ops'[m]) :
               i + 1 \in 1..Len(ops[m]) /\ ops'[m][i] = ops[m][i + 1] /\ ops'[m][i].at = "queued"
      /\ \A n \in Managers : n # m => ops'[n] = ops[n]
  BY EndsHeads
<1>. SUFFICES ASSUME NEW n \in Managers, NEW i \in 1..Len(ops'[n]) PROVE OpInv(n, i)' BY DEF ChainInv
<1>3. CASE n # m
  <2>1. ops'[n] = ops[n] /\ OpInv(n, i) BY <1>1, <1>2, <1>3 DEF ChainInv
  <2>. QED BY <2>1 DEF OpInv, Live
<1>4. CASE n = m
  <2>1. OpInv(m, i + 1) BY <1>1, <1>2, <1>4 DEF ChainInv
  <2>2. i + 1 = Len(ops[m]) => i = Len(ops'[m])
    <3>1. Len(ops'[m]) \in Nat BY <1>2, LenProperties DEF OpsOK
    <3>2. Len(ops[m]) \in Nat BY LenProperties DEF RoutingInv, RoutingTyped, OpsOK
    <3>. QED BY <1>2, <1>4, <3>1, <3>2
  <2>. QED BY <1>2, <1>4, <2>1, <2>2 DEF OpInv, Live
<1>. QED BY <1>3, <1>4

LEMMA EndsOwner ==
  ASSUME RoutingInv, NEW m \in Managers, Ends(m), gate'.owner = gate.owner,
         \A n \in Managers : /\ manager'[n].life = manager[n].life /\ manager'[n].bound = manager[n].bound
                             /\ n # m => manager'[n] = manager[n]
  PROVE  OwnerInv'
<1>1. OwnerInv BY DEF RoutingInv
<1>2. /\ Len(ops[m]) > 0 /\ \A n \in Managers : n # m => ops'[n] = ops[n] BY EndsHeads
<1>3. manager[m].life # "unmade"
  <2>1. Len(ops[m]) # 0 BY <1>2
  <2>. QED BY <1>1, <2>1 DEF OwnerInv
<1>4. gate.owner # NoOwner => gate.owner \in Managers BY DEF RoutingInv, RoutingTyped, GateOK
<1>. QED BY <1>1, <1>2, <1>3, <1>4 DEF OwnerInv, Live

\* No other chain has anything left.
Alone(m) == \A n \in Managers : n # m => Len(ops[n]) = 0

LEMMA EndsServing ==
  ASSUME RoutingInv, NEW m \in Managers, Ends(m), manager' = manager, gate' = gate,
         proxy' = proxy \/ gate.blocked
  PROVE  ServingInv'
<1>1. ServingInv BY DEF RoutingInv
<1>2. /\ Len(ops'[m]) = Len(ops[m]) - 1
      /\ \A i \in 1..Len(ops'[m]) : i + 1 \in 1..Len(ops[m]) /\ ops'[m][i] = ops[m][i + 1]
      /\ \A n \in Managers : n # m => ops'[n] = ops[n]
      /\ Len(ops[m]) > 0
  BY EndsHeads
<1>3. \A n \in Managers : Live(n)' /\ Serving(n)' =>
        /\ gate'.owner = n /\ ~gate'.blocked /\ manager'[n].ready
        /\ proxy'.pac = manager'[n].key /\ proxy'.settled
        /\ \A i \in 1..Len(ops'[n]) : ~InForce(ops'[n][i])
  <2>. SUFFICES ASSUME NEW n \in Managers, Live(n)', Serving(n)' PROVE
        /\ gate'.owner = n /\ ~gate'.blocked /\ manager'[n].ready
        /\ proxy'.pac = manager'[n].key /\ proxy'.settled
        /\ \A i \in 1..Len(ops'[n]) : ~InForce(ops'[n][i])
       OBVIOUS
  <2>1. Live(n) /\ Serving(n) BY DEF Live, Serving
  <2>2. \A i \in 1..Len(ops'[n]) : ~InForce(ops'[n][i])
    <3>1. \A i \in 1..Len(ops[n]) : ~InForce(ops[n][i]) BY <1>1, <2>1 DEF ServingInv
    <3>2. CASE n # m BY <1>2, <3>1, <3>2
    <3>3. CASE n = m BY <1>2, <3>1, <3>3
    <3>. QED BY <3>2, <3>3
  <2>. QED BY <1>1, <2>1, <2>2 DEF ServingInv
<1>4. \A n, o \in Managers : ~Live(n)' /\ Len(ops'[n]) > 0 /\ Live(o)' => manager'[o].key = Unset
  <2>1. \A n \in Managers : Len(ops'[n]) > 0 => Len(ops[n]) > 0 BY <1>2
  <2>. QED BY <1>1, <2>1 DEF ServingInv, Live
<1>5. gate'.owner # NoOwner /\ ~gate'.blocked =>
        manager'[gate'.owner].key \in Versions /\ ~manager'[gate'.owner].suspended
  BY <1>1 DEF ServingInv
<1>. QED BY <1>3, <1>4, <1>5 DEF ServingInv

LEMMA EndsOpen ==
  ASSUME RoutingInv, NEW m \in Managers, Ends(m), Live(m), Alone(m), Len(ops[m]) = 1,
         \A n \in Managers : n # m => manager'[n] = manager[n],
         manager'[m].life = "live", manager'[m].key \in Versions, ~manager'[m].suspended, manager'[m].ready,
         gate'.owner = m, ~gate'.blocked, proxy'.pac = manager'[m].key, proxy'.settled
  PROVE  ServingInv'
<1>1. OwnerInv BY DEF RoutingInv
<1>2. /\ Len(ops'[m]) = 0 /\ \A n \in Managers : n # m => ops'[n] = ops[n]
  BY EndsHeads
<1>3. \A n \in Managers : Len(ops'[n]) = 0 BY <1>2 DEF Alone
<1>4. \A n \in Managers : Live(n)' => n = m BY <1>1 DEF OwnerInv, Live
<1>. QED BY <1>3, <1>4 DEF ServingInv

LEMMA EndsClosed ==
  ASSUME RoutingInv, NEW m \in Managers, Ends(m), Live(m), gate' = gate,
         \A n \in Managers : n # m => manager'[n] = manager[n],
         manager'[m].life = "live", manager'[m].key \notin Versions,
         gate.blocked \/ (~manager[m].bound /\ proxy' = proxy), manager'[m].key = Unset \/ Alone(m)
  PROVE  ServingInv'
<1>1. OwnerInv /\ ServingInv /\ gate.owner \in Managers \cup {NoOwner} BY DEF RoutingInv, RoutingTyped, GateOK
<1>2. /\ Len(ops'[m]) = Len(ops[m]) - 1 /\ \A n \in Managers : n # m => ops'[n] = ops[n] BY EndsHeads
<1>3. \A n \in Managers : Live(n)' => n = m BY <1>1 DEF OwnerInv, Live
<1>4. ~Serving(m)' BY DEF Serving
<1>5. \A n, o \in Managers : ~Live(n)' /\ Len(ops'[n]) > 0 /\ Live(o)' => manager'[o].key = Unset
  BY <1>2, <1>3 DEF Alone, Live
<1>6. gate'.owner # NoOwner => gate'.blocked
  <2>. SUFFICES ASSUME gate.owner # NoOwner, ~gate.blocked PROVE FALSE OBVIOUS
  <2>1. gate.owner = m BY <1>1 DEF OwnerInv, Live
  <2>. QED BY <1>1, <2>1 DEF OwnerInv
<1>. QED BY <1>3, <1>4, <1>5, <1>6 DEF ServingInv

\* What a settled operation means to the rule transaction.
TxEnds(m) ==
  \/ ops[m][1].who # "tx" /\ tx' = tx /\ rules' = rules
  \/ /\ ops[m][1].who = "tx" /\ tx.step \in {"suspending", "resuming", "restoring"}
     /\ \/ StepsTo("idle") /\ rules' = rules
        \/ tx.step = "suspending" /\ StepsTo("resolved") /\ rules' = rules
        \/ tx.step = "resuming" /\ StepsTo("aborting") /\ rules' = tx.before

LEMMA SettleTxEnds ==
  ASSUME RoutingInv, NEW m \in Managers, Len(ops[m]) > 0, NEW result, Settle(m, result)
  PROVE  /\ TxEnds(m) /\ CallersOK'
         /\ tx'.step \in Unsettled => ops[m][1].who # "tx" \/ result # "done" \/ ~tx.current \/ tx.step = "suspending"
<1>1. TxInv /\ CallersOK /\ OpsOK BY DEF RoutingInv, RoutingTyped
<1>2. Running(m) = ops[m][1]
  <2>1. ops[m] # <<>> BY <1>1, EmptySeq DEF OpsOK
  <2>. QED BY <1>1, <2>1 DEF Running, OpsOK
<1>3. 1 \in 1..Len(ops[m]) BY <1>1, LenProperties DEF OpsOK
<1>4. ops[m][1].who = "tx" => tx.step \in {"suspending", "resuming", "restoring"} BY <1>1, <1>3 DEF TxInv, TxOps, TxOpInv
<1>5. CallersOK' BY <1>1 DEF Settle, CallersOK
<1>6. CASE ops[m][1].who # "tx" BY <1>2, <1>5, <1>6 DEF Settle, TxEnds
<1>7. CASE ops[m][1].who = "tx"
  <2>1. TxOK BY DEF RoutingInv, RoutingTyped
  <2>2. CASE tx.step = "suspending" BY <1>2, <1>4, <1>5, <1>7, <2>2 DEF Settle, TxEnds, StepsTo
  <2>3. CASE tx.step = "resuming" /\ (result = "error" \/ ~tx.current)
    <3>1. StepsTo("aborting") /\ rules' = tx.before BY <1>2, <1>7, <2>3 DEF Settle, StepsTo
    <3>. QED BY <1>4, <1>5, <1>7, <2>3, <3>1 DEF TxEnds
  <2>4. CASE tx.step \in {"resuming", "restoring"} /\ ~(tx.step = "resuming" /\ (result = "error" \/ ~tx.current))
    <3>1. StepsTo("idle") /\ rules' = rules BY <1>2, <1>7, <2>4 DEF Settle, StepsTo
    <3>2. tx'.step = "idle" BY <2>1, <3>1, StepFields DEF TxSteps
    <3>. QED BY <1>4, <1>5, <1>7, <2>4, <3>1, <3>2 DEF TxEnds, Unsettled
  <2>. QED BY <1>4, <1>7, <2>2, <2>3, <2>4
<1>. QED BY <1>6, <1>7

LEMMA EndsTx ==
  ASSUME RoutingInv, NEW m \in Managers, Ends(m), TxEnds(m), topRules' = topRules,
         \A n \in Managers : manager'[n].life = manager[n].life,
         \A n \in Managers : Live(n)' /\ Serving(n)' =>
              Serving(n) \/ (n = m /\ Len(ops'[m]) = 0 /\ tx'.step \notin Unsettled)
  PROVE  TxInv' /\ TxOK'
<1>1. TxInv /\ TxOK /\ ServingInv /\ OwnerInv BY DEF RoutingInv, RoutingTyped
<1>2. /\ Len(ops[m]) > 0 /\ Len(ops'[m]) = Len(ops[m]) - 1
      /\ \A i \in 1..Len(ops'[m]) :
               i + 1 \in 1..Len(ops[m]) /\ ops'[m][i] = ops[m][i + 1] /\ ops'[m][i].at = "queued"
      /\ \A n \in Managers : n # m => ops'[n] = ops[n] /\ (Begun(n)' <=> Begun(n))
      /\ ~Begun(m)'
  BY EndsHeads
<1>3. Len(ops[m]) \in Nat BY LenProperties DEF RoutingInv, RoutingTyped, OpsOK
<1>4. 1 \in 1..Len(ops[m]) BY <1>2, <1>3
<1>5. /\ tx'.before = tx.before /\ tx'.of = tx.of /\ tx'.current = tx.current
      /\ rules' \in {rules, tx.before} /\ TxOK'
  <2>1. CASE ops[m][1].who # "tx" /\ tx' = tx /\ rules' = rules BY <1>1, <2>1 DEF TxOK
  <2>2. CASE StepsTo("idle") /\ rules' = rules BY <1>1, <2>2, StepFields DEF TxSteps, TxOK
  <2>3. CASE StepsTo("resolved") /\ rules' = rules BY <1>1, <2>3, StepFields DEF TxSteps, TxOK
  <2>4. CASE StepsTo("aborting") /\ rules' = tx.before
    <3>1. tx.before \in Versions BY <1>1 DEF TxOK
    <3>. QED BY <1>1, <2>4, <3>1, StepFields DEF TxSteps, TxOK
  <2>. QED BY <2>1, <2>2, <2>3, <2>4 DEF TxEnds
<1>6. rules \in Int /\ tx.before \in Int /\ topRules \in Int BY <1>1, RoutingAssumption DEF TxOK, Versions
<1>7. tx'.before <= rules' /\ rules' <= topRules' /\ rules' <= rules BY <1>1, <1>5, <1>6 DEF TxInv, RulesInOrder
<1>8. \A n \in Managers : Live(n)' => Live(n) BY DEF Live
<1>9. NewPacs'
  <2>. SUFFICES ASSUME NEW n \in Managers, n = tx.of, NEW i \in 1..Len(ops'[n]),
                       ops'[n][i].kind = "configure", ops'[n][i].at # "queued"
                PROVE  ops'[n][i].pac >= rules'
       BY <1>5 DEF NewPacs
  <2>1. n # m BY <1>2
  <2>2. ops'[n] = ops[n] BY <1>2, <2>1
  <2>3. ops[n][i].pac >= rules BY <1>1, <2>2 DEF TxInv, NewPacs
  <2>4. ops[n][i] \in Op BY <2>2, ElementOfSeq DEF RoutingInv, RoutingTyped, OpsOK
  <2>5. ops[n][i].pac \in Int BY <2>4, RoutingAssumption DEF Op, Pacs, Versions, FailClosed, Unset
  <2>6. rules' \in Int BY <1>5, <1>6
  <2>. QED BY <1>6, <1>7, <2>2, <2>3, <2>5, <2>6
<1>10. CASE ops[m][1].who # "tx" /\ tx' = tx /\ rules' = rules
  <2>1. \A n \in Managers : \A i \in 1..Len(ops'[n]) : ops'[n][i].who = "tx" => TxOpInv(n, i)'
    <3>. SUFFICES ASSUME NEW n \in Managers, NEW i \in 1..Len(ops'[n]), ops'[n][i].who = "tx"
                  PROVE TxOpInv(n, i)' OBVIOUS
    <3>1. PICK k \in 1..Len(ops[n]) : /\ ops[n][k] = ops'[n][i]
                                      /\ k = IF n = m THEN i + 1 ELSE i BY <1>2
    <3>2. TxOpInv(n, k) BY <1>1, <3>1 DEF TxInv, TxOps
    <3>3. \A o \in Managers : \A j \in 1..Len(ops'[o]) : ops'[o][j].who = "tx" => o = n /\ j = i
      <4>. SUFFICES ASSUME NEW o \in Managers, NEW j \in 1..Len(ops'[o]), ops'[o][j].who = "tx"
                    PROVE o = n /\ j = i OBVIOUS
      <4>1. PICK l \in 1..Len(ops[o]) : /\ ops[o][l] = ops'[o][j]
                                        /\ l = IF o = m THEN j + 1 ELSE j BY <1>2
      <4>2. o = n /\ l = k BY <3>2, <4>1 DEF TxOpInv
      <4>. QED BY <3>1, <4>1, <4>2
    <3>4. Live(n)' => ~Serving(n)' /\ tx.current
      <4>1. n = m => Len(ops'[m]) # 0 OBVIOUS
      <4>. QED BY <1>8, <3>2, <4>1 DEF TxOpInv
    <3>. QED BY <1>10, <3>1, <3>2, <3>3, <3>4 DEF TxOpInv
  <2>2. tx.step = "suspending" => \E n \in Managers : \E i \in 1..Len(ops'[n]) : ops'[n][i].who = "tx"
    <3>. SUFFICES ASSUME tx.step = "suspending"
                  PROVE \E n \in Managers : \E i \in 1..Len(ops'[n]) : ops'[n][i].who = "tx" OBVIOUS
    <3>0. PICK n \in Managers : \E i \in 1..Len(ops[n]) : ops[n][i].who = "tx" BY <1>1 DEF TxInv, TxWaits
    <3>1. PICK i \in 1..Len(ops[n]) : ops[n][i].who = "tx" BY <3>0
    <3>2. CASE n # m BY <1>2, <3>1, <3>2
    <3>3. CASE n = m
      <4>1. i # 1 BY <1>10, <3>1, <3>3
      <4>2. i - 1 \in 1..Len(ops'[m]) /\ (i - 1) + 1 = i BY <1>2, <1>3, <3>3, <4>1
      <4>3. ops'[m][i - 1] = ops[m][i] BY <1>2, <4>2
      <4>. QED BY <3>1, <3>3, <4>2, <4>3
    <3>. QED BY <3>2, <3>3
  <2>3. tx'.step \in Unsettled => \A n \in Managers : Live(n)' => ~Serving(n)'
    BY <1>1, <1>8, <1>10 DEF TxInv, TxQuiet, Unsettled
  <2>4. tx.step = "resolved" => \A n \in Managers : n = tx.of => ~Begun(n)' BY <1>1, <1>2 DEF TxInv, TxResolved
  <2>5. RulesInOrder' BY <1>1, <1>7, <1>10 DEF TxInv, RulesInOrder
  <2>6. TxOps' /\ TxWaits' BY <1>10, <2>1, <2>2 DEF TxOps, TxWaits
  <2>7. TxQuiet' BY <2>3 DEF TxQuiet
  <2>8. TxResolved' BY <1>10, <2>4 DEF TxResolved
  <2>. QED BY <1>5, <1>9, <2>5, <2>6, <2>7, <2>8 DEF TxInv
<1>11. CASE /\ ops[m][1].who = "tx" /\ tx.step \in {"suspending", "resuming", "restoring"}
            /\ \/ StepsTo("idle") /\ rules' = rules
               \/ tx.step = "suspending" /\ StepsTo("resolved") /\ rules' = rules
               \/ tx.step = "resuming" /\ StepsTo("aborting") /\ rules' = tx.before
  <2>1. TxOpInv(m, 1) BY <1>1, <1>4, <1>11 DEF TxInv, TxOps
  <2>2. \A n \in Managers : \A i \in 1..Len(ops'[n]) : ops'[n][i].who # "tx"
    <3>. SUFFICES ASSUME NEW n \in Managers, NEW i \in 1..Len(ops'[n]), ops'[n][i].who = "tx" PROVE FALSE OBVIOUS
    <3>1. CASE n # m BY <1>2, <2>1, <3>1 DEF TxOpInv
    <3>2. CASE n = m
      <4>1. i + 1 \in 1..Len(ops[m]) /\ ops[m][i + 1].who = "tx" BY <1>2, <3>2
      <4>2. i + 1 = 1 BY <2>1, <4>1 DEF TxOpInv
      <4>. QED BY <4>2
    <3>. QED BY <3>1, <3>2
  <2>3. \A n \in Managers : Live(n) => ~Serving(n)
    <3>. SUFFICES ASSUME NEW n \in Managers, Live(n) PROVE ~Serving(n) OBVIOUS
    <3>1. CASE Live(m)
      <4>1. n = m BY <1>1, <3>1 DEF OwnerInv
      <4>. QED BY <2>1, <3>1, <4>1 DEF TxOpInv
    <3>2. CASE ~Live(m)
      <4>1. manager[n].key = Unset BY <1>1, <1>2, <3>2 DEF ServingInv
      <4>. QED BY <4>1, RoutingAssumption DEF Serving, Versions, Unset
    <3>. QED BY <3>1, <3>2
  <2>4. tx'.step \in Unsettled => \A n \in Managers : Live(n)' => ~Serving(n)' BY <1>8, <2>3
  <2>5. tx'.step \in {"idle", "resolved", "aborting"} /\ (tx'.step = "resolved" => tx.step = "suspending")
    BY <1>1, <1>11, StepFields DEF TxSteps
  <2>6. tx'.step = "resolved" => \A n \in Managers : n = tx'.of => ~Begun(n)'
    <3>. SUFFICES ASSUME tx'.step = "resolved", NEW n \in Managers, n = tx'.of PROVE ~Begun(n)' OBVIOUS
    <3>1. n = m BY <1>5, <2>1, <2>5 DEF TxOpInv
    <3>. QED BY <1>2, <3>1
  <2>7. RulesInOrder' BY <1>1, <1>7, <2>5 DEF TxInv, RulesInOrder
  <2>8. TxOps' BY <2>2 DEF TxOps
  <2>9. TxWaits' BY <2>5 DEF TxWaits
  <2>10. TxQuiet' BY <2>4 DEF TxQuiet
  <2>11. TxResolved' BY <2>6 DEF TxResolved
  <2>. QED BY <1>5, <1>9, <2>7, <2>8, <2>9, <2>10, <2>11 DEF TxInv
<1>. QED BY <1>5, <1>10, <1>11 DEF TxEnds

-----------------------------------------------------------------------------
(* The operation in force at the head of a chain goes one step further.     *)

LineGrows(m) == /\ line' \in Seq(Managers) /\ Len(line') = Len(line) + 1 /\ line'[Len(line) + 1] = m
                /\ \A i \in 1..Len(line) : line'[i] = line[i]
Joined(m, op) == op.at = "line" /\ LineGrows(m) /\ proxy' = proxy /\ ops[m][1].at = "queued"
Stayed(m, op) == /\ line' = line /\ Len(line) > 0 /\ line[1] = m /\ op.at \in {"set", "drain"} /\ gate'.blocked
                 /\ op.at = "drain" => proxy'.pac = op.pac
Rejoined(m, op) == /\ Len(line) > 0 /\ line[1] = m /\ op.at = "line"
                   /\ line' \in Seq(Managers) /\ Len(line') = 1 /\ line'[1] = m
SameButBusy(m, op) ==
  /\ \A n \in Managers : n # m => manager'[n] = manager[n]
  /\ manager'[m].life = manager[m].life /\ manager'[m].key = manager[m].key /\ manager'[m].bound
  /\ manager'[m].suspended = manager[m].suspended \/ (op.kind = "fallback" /\ manager'[m].suspended)
Advances(m, op) ==
  /\ Moved(m, op) /\ InForce(ops[m][1]) /\ op.at # "queued"
  /\ op.who = ops[m][1].who /\ op.force = ops[m][1].force
  /\ op.kind = ops[m][1].kind \/ (op.kind = "fallback" /\ ops[m][1].kind = "configure")
  /\ op.kind = "configure" => /\ op.pac \in Versions
                              /\ op.pac = rules \/ (ops[m][1].at # "queued" /\ op.pac = ops[m][1].pac)
  /\ ops[m][1].at = "queued" => tx.step # "resolved"
  /\ gate'.owner = m /\ (gate'.blocked \/ gate' = gate)
  /\ SameButBusy(m, op)
  /\ tx' = tx /\ rules' = rules /\ topRules' = topRules
  /\ Joined(m, op) \/ Stayed(m, op) \/ Rejoined(m, op)

\* An operation in force: its manager lives, has nothing else, and serves nothing.
LEMMA InForceIsLast ==
  ASSUME RoutingInv, NEW m \in Managers, Len(ops[m]) > 0, InForce(ops[m][1])
  PROVE  /\ Live(m) /\ Len(ops[m]) = 1 /\ ~Serving(m) /\ 1 \in 1..Len(ops[m]) /\ OpInv(m, 1)
         /\ gate.owner = NoOwner \/ gate.blocked
<1>1. ChainInv /\ ServingInv /\ OwnerInv /\ OpsOK /\ gate.owner \in Managers \cup {NoOwner}
  BY DEF RoutingInv, RoutingTyped, GateOK
<1>2. 1 \in 1..Len(ops[m]) BY <1>1, LenProperties DEF OpsOK
<1>3. OpInv(m, 1) BY <1>1, <1>2 DEF ChainInv
<1>4. Live(m) /\ Len(ops[m]) = 1 BY <1>3 DEF OpInv
<1>5. ~Serving(m) BY <1>1, <1>2, <1>4 DEF ServingInv
<1>6. gate.owner = NoOwner \/ gate.blocked
  <2>. SUFFICES ASSUME gate.owner # NoOwner, ~gate.blocked PROVE FALSE OBVIOUS
  <2>1. gate.owner = m BY <1>1, <1>4 DEF OwnerInv, Live
  <2>. QED BY <1>1, <1>5, <2>1 DEF ServingInv, Serving
<1>. QED BY <1>2, <1>3, <1>4, <1>5, <1>6

LEMMA AdvancesGate ==
  ASSUME RoutingInv, NEW m \in Managers, NEW op, Advances(m, op)
  PROVE  gate'.blocked
<1>1. Len(ops[m]) > 0 /\ InForce(ops[m][1]) BY DEF Advances, Moved
<1>2. gate.owner = NoOwner \/ gate.blocked BY <1>1, InForceIsLast
<1>3. m # NoOwner BY RoutingAssumption
<1>. QED BY <1>2, <1>3 DEF Advances

LEMMA AdvancesHeads ==
  ASSUME RoutingInv, NEW m \in Managers, NEW op, Advances(m, op)
  PROVE  /\ Len(ops[m]) = 1 /\ Len(ops'[m]) = 1 /\ ops'[m][1] = op /\ Live(m) /\ OpsOK'
         /\ \A n \in Managers : n # m => ops'[n] = ops[n] /\ (Begun(n)' <=> Begun(n))
         /\ Begun(m)'
<1>1. Len(ops[m]) > 0 /\ InForce(ops[m][1]) /\ Moved(m, op) /\ op.at # "queued" BY DEF Advances, Moved
<1>2. Live(m) /\ Len(ops[m]) = 1 BY <1>1, InForceIsLast
<1>. QED BY <1>1, <1>2 DEF Moved, OnlyChain, Begun, OpsOK

LEMMA AdvancesOwner ==
  ASSUME RoutingInv, NEW m \in Managers, NEW op, Advances(m, op)
  PROVE  OwnerInv' /\ ServingInv'
<1>1. OwnerInv /\ ServingInv BY DEF RoutingInv
<1>2. /\ Len(ops[m]) = 1 /\ Len(ops'[m]) = 1 /\ Live(m)
      /\ \A n \in Managers : n # m => ops'[n] = ops[n]
  BY AdvancesHeads
<1>3. ~Serving(m) /\ gate'.blocked BY <1>2, AdvancesGate, InForceIsLast DEF Advances
<1>4. gate'.owner = m /\ SameButBusy(m, op) BY DEF Advances
<1>5. \A n \in Managers : manager'[n].life = manager[n].life /\ manager'[n].key = manager[n].key
  BY <1>4 DEF SameButBusy
<1>6. OwnerInv' BY <1>1, <1>2, <1>4, <1>5 DEF OwnerInv, SameButBusy, Live
<1>7. \A n \in Managers : Live(n)' => n = m BY <1>1, <1>2, <1>5 DEF OwnerInv, Live
<1>8. ~Serving(m)' BY <1>3, <1>4 DEF Serving, SameButBusy
<1>9. \A n, o \in Managers : ~Live(n)' /\ Len(ops'[n]) > 0 /\ Live(o)' => manager'[o].key = Unset
  BY <1>1, <1>2, <1>5 DEF ServingInv, Live
<1>. QED BY <1>3, <1>6, <1>7, <1>8, <1>9 DEF ServingInv

LEMMA AdvancesChain ==
  ASSUME RoutingInv, NEW m \in Managers, NEW op, Advances(m, op)
  PROVE  ChainInv'
<1>1. ChainInv BY DEF RoutingInv
<1>2. /\ Len(ops[m]) = 1 /\ Len(ops'[m]) = 1 /\ ops'[m][1] = op /\ Live(m)
      /\ \A n \in Managers : n # m => ops'[n] = ops[n]
  BY AdvancesHeads
<1>. SUFFICES ASSUME NEW n \in Managers, NEW i \in 1..Len(ops'[n]) PROVE OpInv(n, i)' BY DEF ChainInv
<1>3. CASE n # m
  <2>1. OpInv(n, i) /\ ops'[n] = ops[n] /\ manager'[n] = manager[n]
    BY <1>1, <1>2, <1>3 DEF ChainInv, Advances, SameButBusy
  <2>. QED BY <2>1 DEF OpInv, Live
<1>4. CASE n = m
  <2>1. i = 1
    <3>1. Len(ops'[n]) = 1 BY <1>2, <1>4
    <3>. QED BY <3>1
  <2>2. OpInv(m, 1) BY InForceIsLast DEF Advances, Moved
  <2>3. manager'[m].life = "live" /\ manager'[m].bound BY <1>2 DEF Advances, SameButBusy, Live
  <2>4. op.at # "queued" /\ (op.kind = "configure" => op.pac \in Versions) BY DEF Advances
  <2>5. op.kind = "configure" /\ manager'[m].suspended => op.force
    BY <2>2 DEF Advances, SameButBusy, OpInv
  <2>. QED BY <1>2, <1>4, <2>1, <2>3, <2>4, <2>5 DEF OpInv, Live
<1>. QED BY <1>3, <1>4

LEMMA AdvancesLine ==
  ASSUME RoutingInv, NEW m \in Managers, NEW op, Advances(m, op)
  PROVE  LineInv' /\ LineOK'
<1>1. LineInv /\ LineOK /\ OwnerInv /\ OpsOK BY DEF RoutingInv, RoutingTyped
<1>2. /\ Len(ops[m]) = 1 /\ Len(ops'[m]) = 1 /\ ops'[m][1] = op /\ Live(m)
      /\ \A n \in Managers : n # m => ops'[n] = ops[n] /\ (Begun(n)' <=> Begun(n))
  BY AdvancesHeads
<1>3. Len(line) \in Nat /\ \A i \in 1..Len(line) : line[i] \in Managers
  BY <1>1, ElementOfSeq, LenProperties DEF LineOK
<1>4. gate'.blocked BY AdvancesGate
<1>5. \A n \in Managers : manager'[n].life = manager[n].life BY DEF Advances, SameButBusy
<1>6. \A n \in Managers : Live(n) => n = m BY <1>1, <1>2 DEF OwnerInv
<1>7. CASE Joined(m, op)
  <2>1. \A i \in 1..Len(line) : line[i] # m
    BY <1>1, <1>7 DEF LineInv, Joined
  <2>2. Len(line') = Len(line) + 1 /\ line'[Len(line) + 1] = m /\ LineOK' /\ op.at = "line"
    BY <1>7 DEF Joined, LineGrows, LineOK
  <2>3. \A i \in 1..Len(line) : line'[i] = line[i] /\ ops'[line[i]] = ops[line[i]]
    BY <1>2, <1>3, <1>7, <2>1 DEF Joined, LineGrows
  <2>4. \A i \in 1..Len(line') : i \in 1..Len(line) \/ (i = Len(line) + 1 /\ line'[i] = m)
    BY <1>3, <2>2
  <2>5. \A i, j \in 1..Len(line') : line'[i] = line'[j] => i = j
    BY <1>1, <2>1, <2>3, <2>4 DEF LineInv
  <2>6. \A i \in 1..Len(line') : Len(ops'[line'[i]]) > 0 /\ ops'[line'[i]][1].at # "queued"
    BY <1>1, <1>2, <2>2, <2>3, <2>4 DEF LineInv
  <2>7. \A i \in 1..Len(line') : i > 1 => ops'[line'[i]][1].at = "line"
    BY <1>1, <1>2, <2>2, <2>3, <2>4 DEF LineInv
  <2>8. \A i \in 1..Len(line') : manager'[line'[i]].life = "live" => i = Len(line')
    <3>. SUFFICES ASSUME NEW i \in 1..Len(line'), manager'[line'[i]].life = "live" PROVE i = Len(line') OBVIOUS
    <3>1. CASE i \in 1..Len(line) BY <1>3, <1>5, <1>6, <2>1, <2>3, <3>1 DEF Live
    <3>. QED BY <2>2, <2>4, <3>1
  <2>9. \A n \in Managers : Begun(n)' => \E i \in 1..Len(line') : line'[i] = n
    <3>. SUFFICES ASSUME NEW n \in Managers, Begun(n)' PROVE \E i \in 1..Len(line') : line'[i] = n OBVIOUS
    <3>1. CASE n = m
      <4>1. Len(line) + 1 \in 1..Len(line') BY <1>3, <2>2
      <4>. QED BY <2>2, <3>1, <4>1
    <3>2. CASE n # m
      <4>1. PICK i \in 1..Len(line) : line[i] = n BY <1>1, <1>2, <3>2 DEF LineInv
      <4>2. i \in 1..Len(line') BY <1>3, <2>2
      <4>. QED BY <2>3, <4>1, <4>2
    <3>. QED BY <3>1, <3>2
  <2>10. AtWork' => (ops'[line'[1]][1].at = "drain" => proxy'.pac = ops'[line'[1]][1].pac)
    <3>1. CASE Len(line) = 0 BY <1>2, <2>2, <3>1 DEF AtWork
    <3>2. CASE Len(line) > 0
      <4>1. 1 \in 1..Len(line) BY <1>3, <3>2
      <4>2. line'[1] = line[1] /\ ops'[line[1]] = ops[line[1]] BY <2>3, <4>1
      <4>. QED BY <1>1, <1>7, <3>2, <4>2 DEF AtWork, LineInv, Joined
    <3>. QED BY <1>3, <3>1, <3>2
  <2>. QED BY <1>4, <2>2, <2>5, <2>6, <2>7, <2>8, <2>9, <2>10 DEF LineInv
<1>8. ASSUME Len(line) > 0, line[1] = m PROVE Len(line) = 1
  <2>1. 1 \in 1..Len(line) BY <1>3, <1>8
  <2>. QED BY <1>1, <1>2, <1>8, <2>1 DEF LineInv, Live
<1>9. CASE Stayed(m, op) \/ Rejoined(m, op)
  <2>1. Len(line) = 1 /\ line[1] = m BY <1>8, <1>9 DEF Stayed, Rejoined
  <2>2. Len(line') = 1 /\ line'[1] = m /\ LineOK' BY <1>1, <1>9, <2>1 DEF Stayed, Rejoined, LineOK
  <2>3. \A n \in Managers : Begun(n)' => n = m BY <1>1, <1>2, <2>1 DEF LineInv
  <2>4. op.at # "queued" BY DEF Advances
  <2>5. AtWork' => (ops'[line'[1]][1].at = "drain" => proxy'.pac = ops'[line'[1]][1].pac)
    BY <1>2, <1>9, <2>2 DEF AtWork, Stayed, Rejoined
  <2>. QED BY <1>2, <1>4, <2>2, <2>3, <2>4, <2>5 DEF LineInv
<1>. QED BY <1>7, <1>9 DEF Advances

LEMMA AdvancesTx ==
  ASSUME RoutingInv, NEW m \in Managers, NEW op, Advances(m, op)
  PROVE  TxInv' /\ PolicyInv' /\ TxOK'
<1>1. TxInv /\ TxOK BY DEF RoutingInv, RoutingTyped
<1>2. /\ Len(ops[m]) = 1 /\ Len(ops'[m]) = 1 /\ ops'[m][1] = op /\ Live(m)
      /\ \A n \in Managers : n # m => ops'[n] = ops[n] /\ (Begun(n)' <=> Begun(n))
  BY AdvancesHeads
<1>3. tx' = tx /\ rules' = rules /\ topRules' = topRules BY DEF Advances
<1>4. op.who = ops[m][1].who /\ (op.kind = ops[m][1].kind \/ (op.kind = "fallback" /\ ops[m][1].kind = "configure"))
  BY DEF Advances
<1>5. \A n \in Managers : /\ Len(ops'[n]) = Len(ops[n])
                         /\ \A i \in 1..Len(ops[n]) : (ops'[n][i].who = "tx") <=> (ops[n][i].who = "tx")
  BY <1>2, <1>4
<1>6. \A n \in Managers : Live(n)' /\ Serving(n)' => Live(n) /\ Serving(n)
  BY DEF Advances, SameButBusy, Live, Serving
<1>7. TxOps'
  <2>. SUFFICES ASSUME NEW n \in Managers, NEW i \in 1..Len(ops'[n]), ops'[n][i].who = "tx" PROVE TxOpInv(n, i)'
    BY DEF TxOps
  <2>1. i \in 1..Len(ops[n]) /\ ops[n][i].who = "tx" BY <1>5
  <2>2. TxOpInv(n, i) BY <1>1, <2>1 DEF TxInv, TxOps
  <2>3. \A o \in Managers : \A j \in 1..Len(ops'[o]) : ops'[o][j].who = "tx" => o = n /\ j = i
    BY <1>5, <2>2 DEF TxOpInv
  <2>4. tx.step = "suspending" => ops'[n][i].kind \in {"suspend", "superseded"}
    BY <1>2, <1>4, <2>1, <2>2 DEF TxOpInv
  <2>5. Live(n)' => ~Serving(n)' /\ tx.current
    <3>1. Live(n)' => Live(n) BY DEF Advances, SameButBusy, Live
    <3>. QED BY <1>6, <2>2, <3>1 DEF TxOpInv
  <2>. QED BY <1>3, <2>2, <2>3, <2>4, <2>5 DEF TxOpInv
<1>8. TxWaits' BY <1>1, <1>3, <1>5 DEF TxInv, TxWaits
<1>9. TxQuiet' BY <1>1, <1>3, <1>6 DEF TxInv, TxQuiet
<1>10. RulesInOrder' /\ TxOK' BY <1>1, <1>3 DEF TxInv, RulesInOrder, TxOK
<1>11. TxResolved'
  <2>. SUFFICES ASSUME tx.step = "resolved", NEW n \in Managers, n = tx.of PROVE ~Begun(n)'
    BY <1>3 DEF TxResolved
  <2>1. ~Begun(n) BY <1>1 DEF TxInv, TxResolved
  <2>2. CASE n # m BY <1>2, <2>1, <2>2
  <2>3. CASE n = m BY <1>2, <2>1, <2>3 DEF Advances, Begun
  <2>. QED BY <2>2, <2>3
<1>12. NewPacs'
  <2>. SUFFICES ASSUME NEW n \in Managers, n = tx.of, NEW i \in 1..Len(ops'[n]),
                       ops'[n][i].kind = "configure", ops'[n][i].at # "queued"
                PROVE  ops'[n][i].pac >= rules
    BY <1>3 DEF NewPacs
  <2>1. CASE n # m BY <1>1, <1>2, <2>1 DEF TxInv, NewPacs
  <2>2. CASE n = m
    <3>1. i = 1 /\ op.kind = "configure" /\ 1 \in 1..Len(ops[m]) BY <1>2, <2>2
    <3>2. op.pac = rules \/ (ops[m][1].at # "queued" /\ op.pac = ops[m][1].pac) BY <3>1 DEF Advances
    <3>3. ops[m][1].kind = "configure" BY <1>4, <3>1
    <3>4. CASE op.pac = rules
      <4>1. rules \in Int BY <1>1, RoutingAssumption DEF TxOK, Versions
      <4>. QED BY <1>2, <2>2, <3>1, <3>4, <4>1
    <3>5. CASE ops[m][1].at # "queued" /\ op.pac = ops[m][1].pac
      BY <1>1, <1>2, <2>2, <3>1, <3>3, <3>5 DEF TxInv, NewPacs
    <3>. QED BY <3>2, <3>4, <3>5
  <2>. QED BY <2>1, <2>2
<1>13. PolicyInv' BY AdvancesGate DEF PolicyInv
<1>. QED BY <1>7, <1>8, <1>9, <1>10, <1>11, <1>12, <1>13 DEF TxInv

-----------------------------------------------------------------------------
(* What the guards say of a chain and of the line.                          *)

LEMMA ChainHead ==
  ASSUME RoutingInv, NEW m \in Managers, ops[m] # <<>>
  PROVE  Len(ops[m]) > 0 /\ 1 \in 1..Len(ops[m]) /\ Running(m) = ops[m][1] /\ ops[m][1] \in Op
<1>1. ops[m] \in Seq(Op) BY DEF RoutingInv, RoutingTyped, OpsOK
<1>2. Len(ops[m]) \in Nat /\ Len(ops[m]) # 0 BY <1>1, EmptySeq, LenProperties
<1>3. 1 \in 1..Len(ops[m]) BY <1>2
<1>. QED BY <1>1, <1>2, <1>3, ElementOfSeq DEF Running

LEMMA LineHead ==
  ASSUME RoutingInv, NEW m \in Managers, line # <<>>, Head(line) = m
  PROVE  /\ Len(line) > 0 /\ 1 \in 1..Len(line) /\ line[1] = m /\ ops[m] # <<>> /\ ops[m][1].at # "queued"
         /\ Begun(m) /\ (Live(m) => Len(line) = 1)
<1>1. line \in Seq(Managers) /\ ops[m] \in Seq(Op) /\ LineInv BY DEF RoutingInv, RoutingTyped, OpsOK, LineOK
<1>2. Len(line) \in Nat /\ Len(line) # 0 BY <1>1, EmptySeq, LenProperties
<1>3. 1 \in 1..Len(line) /\ line[1] = m BY <1>1, <1>2
<1>4. Len(ops[m]) > 0 /\ ops[m][1].at # "queued" BY <1>1, <1>3 DEF LineInv
<1>5. ops[m] # <<>> BY <1>1, <1>4, EmptySeq
<1>6. Live(m) => Len(line) = 1 BY <1>1, <1>3 DEF LineInv, Live
<1>. QED BY <1>2, <1>3, <1>4, <1>5, <1>6 DEF Begun

\* When the operation of a live manager has the Session, no other chain has any.
LEMMA HeadIsAlone ==
  ASSUME RoutingInv, NEW m \in Managers, JobsDrained, line # <<>>, Head(line) = m, Live(m)
  PROVE  Alone(m)
<1>0. LineInv BY DEF RoutingInv
<1>1. Len(line) = 1 /\ line[1] = m BY LineHead
<1>. SUFFICES ASSUME NEW n \in Managers, n # m, Len(ops[n]) # 0 PROVE FALSE BY DEF Alone
<1>2. ops[n] # <<>> BY EmptySeq DEF RoutingInv, RoutingTyped, OpsOK
<1>3. Len(ops[n]) > 0 /\ ops[n][1].at # "queued" BY <1>2, ChainHead DEF JobsDrained, Running
<1>4. PICK i \in 1..Len(line) : line[i] = n BY <1>0, <1>3 DEF LineInv, Begun
<1>5. i = 1 BY <1>1
<1>. QED BY <1>1, <1>4, <1>5

LEMMA GateTypes ==
  ASSUME GateOK, NEW blocked \in BOOLEAN, NEW owner \in Managers \cup {NoOwner},
         SetGate(blocked, owner) \/ KeepGate
  PROVE  GateOK'
BY DEF GateOK, SetGate, KeepGate

LEMMA MoveLeaves ==
  ASSUME NEW m, NEW op, MoveTo(m, op)
  PROVE  tx' = tx /\ rules' = rules /\ (CallersOK => CallersOK')
BY DEF MoveTo, CallersOK

-----------------------------------------------------------------------------
(* The kinds of step keep the invariant.                                    *)

LEMMA JoinsInv ==
  ASSUME RoutingInv, NEW m \in Managers, NEW kind \in {"configure", "suspend"}, NEW force, NEW who,
         Joins(m, kind, force, who), TxJoins(m, kind, who), GateOK', CallersOK'
  PROVE  RoutingInv'
<1>1. ProxyOK /\ LineOK /\ ManagerOK BY DEF RoutingInv, RoutingTyped
<1>2. ProxyOK' /\ LineOK' BY <1>1 DEF Joins, ProxyOK, LineOK
<1>3. ManagerOK' BY <1>1, JoinsManager
<1>4. OpsOK' BY DEF Joins, Grown, OnlyChain, OpsOK
<1>5. TxInv' /\ PolicyInv' /\ TxOK' BY JoinsTx
<1>6. OwnerInv' /\ ChainInv' /\ LineInv' /\ ServingInv' BY JoinsOwner, JoinsChain, JoinsLine, JoinsServing
<1>. QED BY <1>2, <1>3, <1>4, <1>5, <1>6 DEF RoutingInv, RoutingTyped

LEMMA AdvancesInv ==
  ASSUME RoutingInv, NEW m \in Managers, NEW op, Advances(m, op), GateOK', CallersOK', ProxyOK', ManagerOK'
  PROVE  RoutingInv'
<1>1. OpsOK' BY AdvancesHeads
<1>2. LineInv' /\ LineOK' BY AdvancesLine
<1>3. TxInv' /\ PolicyInv' /\ TxOK' BY AdvancesTx
<1>4. OwnerInv' /\ ServingInv' /\ ChainInv' BY AdvancesOwner, AdvancesChain
<1>. QED BY <1>1, <1>2, <1>3, <1>4 DEF RoutingInv, RoutingTyped

LEMMA TxEndsRules ==
  ASSUME RoutingInv, NEW m \in Managers, TxEnds(m)
  PROVE  tx'.of = tx.of /\ rules \in Int /\ rules' \in Int /\ rules' <= rules
<1>1. TxOK /\ TxInv BY DEF RoutingInv, RoutingTyped
<1>2. rules \in Int /\ tx.before \in Int BY <1>1, RoutingAssumption DEF TxOK, Versions
<1>3. tx'.of = tx.of BY <1>1, StepFields DEF TxEnds, TxSteps
<1>4. rules' \in {rules, tx.before} BY DEF TxEnds
<1>5. tx.before <= rules BY <1>1 DEF TxInv, RulesInOrder
<1>. QED BY <1>2, <1>3, <1>4, <1>5

\* The operation ends and opens nothing.
LEMMA EndsShut ==
  ASSUME RoutingInv, NEW m \in Managers, Ends(m), TxEnds(m), topRules' = topRules, gate' = gate,
         proxy' = proxy \/ gate.blocked, ServingInv', GateOK', CallersOK', ProxyOK', ManagerOK',
         \A n \in Managers : /\ manager'[n].life = manager[n].life /\ manager'[n].bound = manager[n].bound
                             /\ manager'[n].suspended = manager[n].suspended
                             /\ n # m => manager'[n] = manager[n]
                             /\ manager'[n].key \in Versions => manager'[n].key = manager[n].key
  PROVE  RoutingInv'
<1>1. OpsOK' BY EndsHeads
<1>2. LineInv' /\ LineOK' BY EndsLine
<1>3. ChainInv' BY EndsChain
<1>4. OwnerInv' BY EndsOwner
<1>5. TxInv' /\ TxOK'
  <2>1. \A n \in Managers : Live(n)' /\ Serving(n)' => Serving(n) BY DEF Serving, Live
  <2>. QED BY <2>1, EndsTx
<1>6. PolicyInv'
  <2>1. PolicyInv BY DEF RoutingInv
  <2>2. tx'.of = tx.of /\ rules \in Int /\ rules' \in Int /\ rules' <= rules BY TxEndsRules
  <2>3. proxy.pac \in Int
    BY RoutingAssumption DEF RoutingInv, RoutingTyped, ProxyOK, Pacs, Versions, FailClosed, Unset
  <2>. SUFFICES ASSUME gate.owner # NoOwner, gate.owner = tx.of, ~gate.blocked PROVE proxy'.pac >= rules'
    BY <2>2 DEF PolicyInv
  <2>4. proxy' = proxy /\ proxy.pac >= rules BY <2>1 DEF PolicyInv
  <2>. QED BY <2>2, <2>3, <2>4
<1>. QED BY <1>1, <1>2, <1>3, <1>4, <1>5, <1>6 DEF RoutingInv, RoutingTyped

-----------------------------------------------------------------------------
(* The intents.                                                             *)

LEMMA IntentBlocks ==
  ASSUME GateOK, NEW m \in Managers, BlockIfBound(m)
  PROVE  Blocks(m) /\ GateOK'
<1>1. CASE manager[m].bound
  <2>1. SetGate(TRUE, gate.owner) BY <1>1 DEF BlockIfBound
  <2>2. gate'.blocked /\ gate'.owner = gate.owner BY <2>1 DEF SetGate
  <2>3. gate.owner \in Managers \cup {NoOwner} BY DEF GateOK
  <2>4. GateOK' BY <2>1, <2>3, GateTypes
  <2>. QED BY <1>1, <2>2, <2>4 DEF Blocks
<1>2. CASE ~manager[m].bound
  <2>1. KeepGate BY <1>2 DEF BlockIfBound
  <2>. QED BY <1>2, <2>1 DEF KeepGate, Blocks, GateOK
<1>. QED BY <1>1, <1>2

LEMMA ConfigureJoins ==
  ASSUME RoutingInv, NEW m \in Managers, NEW force \in BOOLEAN, NEW who \in Callers, OwnsSession(m),
         Configure(m, force, who), manager[m].suspended => force, ~Serving(m),
         UNCHANGED <<proxy, line, rules, topRules>>
  PROVE  Joins(m, "configure", force, who) /\ GateOK'
<1>1. GateOK /\ ops \in [Managers -> Seq(Op)] BY DEF RoutingInv, RoutingTyped, OpsOK
<1>2. Enqueue(m, "configure", force, who, ops[m]) /\ manager' = manager BY DEF Configure
<1>3. Grown(m, NewOp("configure", force, who)) BY <1>1, <1>2, EnqueueGrows
<1>4. Blocks(m) /\ GateOK' BY <1>1, <1>2, IntentBlocks DEF Enqueue
<1>5. Live(m) BY DEF OwnsSession, Live
<1>. QED BY <1>2, <1>3, <1>4, <1>5 DEF Joins

LEMMA SuspendJoins ==
  ASSUME RoutingInv, NEW m \in Managers, NEW who \in Callers, NEW queue,
         queue = ops[m] \/ queue = Untag(ops[m], "link"), OwnsSession(m), Suspend(m, who, queue),
         UNCHANGED <<proxy, line, rules, topRules>>
  PROVE  Joins(m, "suspend", TRUE, who) /\ GateOK'
<1>1. GateOK /\ ops \in [Managers -> Seq(Op)] BY DEF RoutingInv, RoutingTyped, OpsOK
<1>2. Enqueue(m, "suspend", TRUE, who, queue) /\ Suspends(m) BY DEF Suspend, Suspends
<1>3. Grown(m, NewOp("suspend", TRUE, who)) BY <1>1, <1>2, EnqueueGrows
<1>4. Blocks(m) /\ GateOK' BY <1>1, <1>2, IntentBlocks DEF Enqueue
<1>5. Live(m) BY DEF OwnsSession, Live
<1>. QED BY <1>2, <1>3, <1>4, <1>5 DEF Joins

\* The manager that lives owns the Session.
LEMMA LiveOwns == ASSUME RoutingInv, NEW m \in Managers PROVE Live(m) <=> OwnsSession(m)
BY DEF RoutingInv, OwnerInv, Live, OwnsSession

LEMMA ActivateInv == ASSUME RoutingInv, NEW m \in Managers, Activate(m) PROVE RoutingInv'
<1>1. ServingInv /\ ManagerOK BY DEF RoutingInv, RoutingTyped
<1>2. ~Serving(m)
  <2>1. Live(m) BY DEF Activate, OwnsSession, Live
  <2>. QED BY <1>1, <2>1 DEF ServingInv, Activate, Active, Serving
<1>3. manager[m].suspended \in BOOLEAN BY <1>1 DEF ManagerOK, ManagerState
<1>4. Joins(m, "configure", manager[m].suspended, "page") /\ GateOK'
  BY <1>2, <1>3, ConfigureJoins DEF Activate, Callers
<1>5. TxJoins(m, "configure", "page") BY DEF Activate, TxJoins
<1>6. CallersOK' BY DEF Activate, CallersOK, RoutingInv, RoutingTyped
<1>. QED BY <1>4, <1>5, <1>6, JoinsInv

\* The Session and the chains stay as they are.
LEMMA SessionStays ==
  ASSUME RoutingInv, UNCHANGED <<gate, proxy, manager, ops, line>>, GateOK', CallersOK',
         TxInv', TxOK', PolicyInv'
  PROVE  RoutingInv'
<1>1. OwnerInv' BY DEF RoutingInv, OwnerInv, Live
<1>2. ChainInv' BY DEF RoutingInv, ChainInv, OpInv, Live
<1>3. LineInv' BY DEF RoutingInv, LineInv, AtWork, Begun
<1>4. ServingInv' BY DEF RoutingInv, ServingInv, Live, Serving
<1>5. ProxyOK' /\ ManagerOK' /\ OpsOK' /\ LineOK'
  BY DEF RoutingInv, RoutingTyped, ProxyOK, ManagerOK, OpsOK, LineOK
<1>. QED BY <1>1, <1>2, <1>3, <1>4, <1>5 DEF RoutingInv, RoutingTyped

LEMMA TxStays ==
  ASSUME RoutingInv, UNCHANGED <<gate, proxy, manager, ops, line>>, UNCHANGED <<rules, topRules, tx>>
  PROVE  TxInv' /\ TxOK' /\ PolicyInv'
<1>1. TxInv /\ TxOK /\ PolicyInv BY DEF RoutingInv, RoutingTyped
<1>2. PolicyInv' /\ TxOK' /\ RulesInOrder' BY <1>1 DEF PolicyInv, TxOK, TxInv, RulesInOrder
<1>3. TxOps' BY <1>1 DEF TxInv, TxOps, TxOpInv, Live, Serving
<1>4. TxWaits' /\ TxQuiet' /\ TxResolved' /\ NewPacs'
  BY <1>1 DEF TxInv, TxWaits, TxQuiet, TxResolved, NewPacs, Live, Serving, Begun
<1>. QED BY <1>2, <1>3, <1>4 DEF TxInv

LEMMA GateStays == ASSUME RoutingInv, KeepGate PROVE gate' = gate /\ GateOK'
BY DEF RoutingInv, RoutingTyped, GateOK, KeepGate

LEMMA LinkUpInv == ASSUME RoutingInv, LinkUp PROVE RoutingInv'
<1>1. CallersOK' BY DEF LinkUp, CallersOK, RoutingInv, RoutingTyped
<1>2. CASE \E m \in Managers : OwnsSession(m) /\ manager[m].suspended /\ Room(m) /\ Configure(m, TRUE, "link")
  <2>1. PICK m \in Managers : OwnsSession(m) /\ manager[m].suspended /\ Configure(m, TRUE, "link") BY <1>2
  <2>2. ~Serving(m) BY <2>1 DEF Serving
  <2>3. Joins(m, "configure", TRUE, "link") /\ GateOK' BY <2>1, <2>2, ConfigureJoins DEF LinkUp, Callers
  <2>4. TxJoins(m, "configure", "link") BY DEF LinkUp, TxJoins
  <2>. QED BY <1>1, <2>3, <2>4, JoinsInv
<1>3. CASE UNCHANGED <<ops, manager>> /\ KeepGate
  BY <1>1, <1>3, GateStays, SessionStays, TxStays DEF LinkUp
<1>. QED BY <1>2, <1>3 DEF LinkUp

LEMMA LinkDownInv == ASSUME RoutingInv, LinkDown PROVE RoutingInv'
<1>1. CallersOK' BY DEF LinkDown, CallersOK, RoutingInv, RoutingTyped
<1>2. CASE \E m \in Managers : OwnsSession(m) /\ Room(m) /\ Suspend(m, "none", Untag(ops[m], "link"))
  <2>1. PICK m \in Managers : OwnsSession(m) /\ Suspend(m, "none", Untag(ops[m], "link")) BY <1>2
  <2>3. Joins(m, "suspend", TRUE, "none") /\ GateOK' BY <2>1, SuspendJoins DEF LinkDown, Callers
  <2>4. TxJoins(m, "suspend", "none") BY DEF LinkDown, TxJoins
  <2>. QED BY <1>1, <2>3, <2>4, JoinsInv
<1>3. CASE UNCHANGED <<ops, manager>> /\ KeepGate
  BY <1>1, <1>3, GateStays, SessionStays, TxStays DEF LinkDown
<1>. QED BY <1>2, <1>3 DEF LinkDown

-----------------------------------------------------------------------------
(* The rule transaction.                                                    *)

\* A step of the transaction at which none of its operations is under way.
LEMMA TxMoves ==
  ASSUME RoutingInv, UNCHANGED <<gate, proxy, manager, ops, line>>, GateOK', CallersOK',
         tx.step \in {"idle"} \cup Unsettled, tx'.step \in {"idle"} \cup Unsettled,
         TxQuiet', TxResolved', NewPacs', RulesInOrder', TxOK', PolicyInv'
  PROVE  RoutingInv'
<1>1. \A n \in Managers : \A i \in 1..Len(ops[n]) : ops[n][i].who # "tx"
  BY DEF RoutingInv, TxInv, TxOps, TxOpInv, Unsettled
<1>2. TxOps' BY <1>1 DEF TxOps
<1>3. TxWaits' BY DEF TxWaits, Unsettled
<1>. QED BY <1>2, <1>3, SessionStays DEF TxInv

\* While the transaction is between two operations no Session is open.
LEMMA QuietGate ==
  ASSUME RoutingInv, tx.step \in Unsettled PROVE gate.owner = NoOwner \/ gate.blocked
<1>. SUFFICES ASSUME gate.owner # NoOwner, ~gate.blocked PROVE FALSE OBVIOUS
<1>1. gate.owner \in Managers BY DEF RoutingInv, RoutingTyped, GateOK
<1>2. Live(gate.owner) /\ Serving(gate.owner) BY DEF RoutingInv, OwnerInv, ServingInv, Live, Serving
<1>. QED BY <1>1, <1>2 DEF RoutingInv, TxInv, TxQuiet

LEMMA TxSettles ==
  ASSUME RoutingInv, UNCHANGED <<gate, proxy, manager, ops, line, rules, topRules>>, GateOK', CallersOK',
         tx.step \in Unsettled, StepsTo("idle")
  PROVE  RoutingInv'
<1>1. TxInv /\ TxOK BY DEF RoutingInv, RoutingTyped
<1>2. tx'.step = "idle" /\ tx'.before = tx.before /\ tx'.of = tx.of /\ TxOK'
  BY <1>1, StepFields DEF TxSteps, TxOK
<1>3. TxQuiet' /\ TxResolved' BY <1>2 DEF TxQuiet, TxResolved, Unsettled
<1>4. NewPacs' BY <1>1, <1>2 DEF TxInv, NewPacs
<1>5. RulesInOrder' BY <1>1, <1>2 DEF TxInv, RulesInOrder
<1>6. PolicyInv' BY QuietGate DEF PolicyInv
<1>. QED BY <1>2, <1>3, <1>4, <1>5, <1>6, TxMoves

LEMMA TxStartInv == ASSUME RoutingInv, TxStart PROVE RoutingInv'
<1>0. CallersOK' BY DEF TxStart, CallersOK, RoutingInv, RoutingTyped
<1>1. TxInv /\ TxOK /\ PolicyInv BY DEF RoutingInv, RoutingTyped
<1>2. CASE \E m \in Managers : /\ OwnsSession(m) /\ Room(m) /\ Suspend(m, "tx", ops[m])
                               /\ tx' = [step |-> "suspending", before |-> rules, current |-> TRUE, of |-> m]
  <2>1. PICK m \in Managers :
          /\ OwnsSession(m) /\ Suspend(m, "tx", ops[m])
          /\ tx' = [step |-> "suspending", before |-> rules, current |-> TRUE, of |-> m]
    BY <1>2
  <2>2. Joins(m, "suspend", TRUE, "tx") /\ GateOK' BY <2>1, SuspendJoins DEF TxStart, Callers
  <2>3. TxJoins(m, "suspend", "tx") BY <2>1 DEF TxStart, TxJoins, Starts
  <2>. QED BY <1>0, <2>2, <2>3, JoinsInv
<1>3. CASE /\ \A m \in Managers : ~OwnsSession(m)
           /\ tx' = [step |-> "resolved", before |-> rules, current |-> TRUE, of |-> NoOwner]
           /\ UNCHANGED <<ops, manager>> /\ KeepGate
  <2>1. UNCHANGED <<gate, proxy, manager, ops, line, rules, topRules>> /\ GateOK'
    BY <1>3, GateStays DEF TxStart
  <2>2. tx.step = "idle" /\ topRules < MaxRules BY DEF TxStart
  <2>3. tx'.step = "resolved" /\ tx'.before = rules /\ tx'.of = NoOwner /\ TxOK' BY <1>1, <1>3, <2>1 DEF TxOK, TxSteps
  <2>4. \A m \in Managers : ~Live(m)' BY <1>3, LiveOwns DEF Live
  <2>5. TxQuiet' BY <2>4 DEF TxQuiet
  <2>6. TxResolved' /\ NewPacs' BY <2>3, RoutingAssumption DEF TxResolved, NewPacs
  <2>7. rules \in Int BY <1>1, RoutingAssumption DEF TxOK, Versions
  <2>8. RulesInOrder' BY <1>1, <2>1, <2>2, <2>3, <2>7 DEF TxInv, RulesInOrder
  <2>9. PolicyInv' BY <2>1, <2>3 DEF PolicyInv
  <2>. QED BY <1>0, <2>1, <2>2, <2>3, <2>5, <2>6, <2>8, <2>9, TxMoves DEF Unsettled
<1>. QED BY <1>2, <1>3 DEF TxStart

LEMMA TxCommitInv == ASSUME RoutingInv, TxCommit PROVE RoutingInv'
<1>1. TxInv /\ TxOK /\ ChainInv /\ GateOK /\ CallersOK BY DEF RoutingInv, RoutingTyped
<1>2. /\ UNCHANGED <<gate, proxy, manager, ops, line>> /\ tx.step = "resolved" /\ topRules' = topRules + 1
      /\ GateOK' /\ CallersOK'
  BY <1>1 DEF TxCommit, TxOnly, GateOK, CallersOK
<1>3. /\ topRules \in Nat /\ topRules < MaxRules /\ rules \in Nat /\ tx.before \in Nat
      /\ tx.before <= rules /\ rules <= topRules
  BY <1>1, <1>2, RoutingAssumption DEF TxInv, RulesInOrder, TxOK, Versions
<1>4. topRules + 1 \in Versions /\ topRules + 1 # 0 BY <1>3, RoutingAssumption DEF Versions
<1>5. tx'.step \in {"committed", "aborting"} /\ tx'.before = tx.before /\ tx'.of = tx.of /\ TxOK'
  <2>1. CASE rules' = topRules + 1 /\ StepsTo("committed") BY <1>1, <1>2, <1>4, <2>1, StepFields DEF TxSteps, TxOK
  <2>2. CASE rules' = rules /\ StepsTo("aborting") BY <1>1, <1>2, <1>4, <2>2, StepFields DEF TxSteps, TxOK
  <2>. QED BY <2>1, <2>2 DEF TxCommit, StepsTo
<1>6. TxQuiet' BY <1>1, <1>2, <1>5 DEF TxInv, TxQuiet, Unsettled, Live, Serving
<1>7. TxResolved' BY <1>5 DEF TxResolved
<1>8. rules' \in {rules, topRules + 1} BY DEF TxCommit
<1>9. RulesInOrder' BY <1>2, <1>3, <1>5, <1>8 DEF RulesInOrder
<1>10. NewPacs'
  <2>. SUFFICES ASSUME NEW m \in Managers, m = tx.of, NEW i \in 1..Len(ops[m]), ops[m][i].at # "queued" PROVE FALSE
    BY <1>2, <1>5 DEF NewPacs
  <2>1. Len(ops[m]) > 0 /\ ops[m][1].at = "queued"
    <3>1. Len(ops[m]) \in Nat BY LenProperties DEF RoutingInv, RoutingTyped, OpsOK
    <3>. QED BY <1>1, <1>2, <3>1 DEF TxInv, TxResolved, Begun
  <2>2. CASE i = 1 BY <2>1, <2>2
  <2>3. CASE i > 1 BY <1>1, <2>3 DEF ChainInv, OpInv
  <2>. QED BY <2>2, <2>3
<1>11. PolicyInv' BY <1>2, QuietGate DEF PolicyInv, Unsettled
<1>. QED BY <1>2, <1>5, <1>6, <1>7, <1>9, <1>10, <1>11, TxMoves DEF Unsettled

LEMMA TxRollbackInv == ASSUME RoutingInv, TxRollback PROVE RoutingInv'
<1>1. TxInv /\ TxOK /\ ChainInv /\ GateOK /\ CallersOK BY DEF RoutingInv, RoutingTyped
<1>2. /\ UNCHANGED <<gate, proxy, manager, ops, line, topRules>> /\ tx.step = "committed"
      /\ GateOK' /\ CallersOK'
  BY <1>1 DEF TxRollback, TxOnly, GateOK, CallersOK
<1>3. /\ topRules \in Int /\ rules \in Int /\ tx.before \in Versions /\ tx.before \in Int
      /\ tx.before <= rules /\ rules <= topRules
  BY <1>1, <1>2, RoutingAssumption DEF TxInv, RulesInOrder, TxOK, Versions
<1>4. tx'.step \in {"aborting", "unrestored"} /\ tx'.before = tx.before /\ tx'.of = tx.of /\ TxOK'
  <2>1. CASE rules' = tx.before /\ StepsTo("aborting") BY <1>1, <1>2, <1>3, <2>1, StepFields DEF TxSteps, TxOK
  <2>2. CASE rules' = rules /\ StepsTo("unrestored") BY <1>1, <1>2, <2>2, StepFields DEF TxSteps, TxOK
  <2>. QED BY <2>1, <2>2 DEF TxRollback, StepsTo
<1>5. TxQuiet' BY <1>1, <1>2, <1>4 DEF TxInv, TxQuiet, Unsettled, Live, Serving
<1>6. TxResolved' BY <1>4 DEF TxResolved
<1>7. rules' \in {rules, tx.before} BY DEF TxRollback
<1>8. RulesInOrder' BY <1>2, <1>3, <1>4, <1>7 DEF RulesInOrder
<1>9. NewPacs'
  <2>. SUFFICES ASSUME NEW m \in Managers, m = tx.of, NEW i \in 1..Len(ops[m]), ops[m][i].kind = "configure",
                       ops[m][i].at # "queued"
                PROVE  ops[m][i].pac >= rules'
    BY <1>2, <1>4 DEF NewPacs
  <2>1. ops[m][i].pac >= rules BY <1>1 DEF TxInv, NewPacs
  <2>2. ops[m][i].pac \in Int
    <3>1. ops[m][i] \in Op BY ElementOfSeq DEF RoutingInv, RoutingTyped, OpsOK
    <3>. QED BY <3>1, RoutingAssumption DEF Op, Pacs, Versions, FailClosed, Unset
  <2>. QED BY <1>3, <1>7, <2>1, <2>2
<1>10. PolicyInv' BY <1>2, QuietGate DEF PolicyInv, Unsettled
<1>. QED BY <1>2, <1>4, <1>5, <1>6, <1>8, <1>9, <1>10, TxMoves DEF Unsettled

\* The transaction resumes its Browser, or settles.
LEMMA ResumeInv ==
  ASSUME RoutingInv, NEW next \in {"resuming", "restoring"}, tx.step \in {"committed", "aborting"}, tx.current,
         ResumeIfLive(next), UNCHANGED <<proxy, line, rules, topRules, link, page>>
  PROVE  RoutingInv'
<1>0. CallersOK' BY DEF CallersOK, RoutingInv, RoutingTyped
<1>1. CASE (\E m \in Managers : OwnsSession(m) /\ Configure(m, TRUE, "tx")) /\ StepsTo(next)
  <2>1. PICK m \in Managers : OwnsSession(m) /\ Configure(m, TRUE, "tx") BY <1>1
  <2>2. ~Serving(m) BY <2>1, LiveOwns DEF RoutingInv, TxInv, TxQuiet, Unsettled
  <2>3. Joins(m, "configure", TRUE, "tx") /\ GateOK' BY <2>1, <2>2, ConfigureJoins DEF Callers
  <2>4. TxJoins(m, "configure", "tx") BY <1>1 DEF TxJoins
  <2>. QED BY <1>0, <2>3, <2>4, JoinsInv
<1>2. CASE StepsTo("idle") /\ UNCHANGED <<ops, manager>> /\ KeepGate
  <2>1. tx.step \in Unsettled BY DEF Unsettled
  <2>. QED BY <1>0, <1>2, <2>1, GateStays, TxSettles
<1>. QED BY <1>1, <1>2 DEF ResumeIfLive, StepsTo

LEMMA TxApplyInv == ASSUME RoutingInv, TxApply PROVE RoutingInv'
BY ResumeInv DEF TxApply

LEMMA TxRestoreInv == ASSUME RoutingInv, TxRestore PROVE RoutingInv'
<1>0. CallersOK' BY DEF TxRestore, CallersOK, RoutingInv, RoutingTyped
<1>1. CASE tx.step = "aborting" /\ tx.current /\ ResumeIfLive("restoring") BY <1>1, ResumeInv DEF TxRestore
<1>2. CASE StepsTo("idle") /\ \E m \in Managers : OwnsSession(m) /\ Suspend(m, "none", ops[m])
  <2>1. PICK m \in Managers : OwnsSession(m) /\ Suspend(m, "none", ops[m]) BY <1>2
  <2>2. Joins(m, "suspend", TRUE, "none") /\ GateOK' BY <2>1, SuspendJoins DEF TxRestore, Callers
  <2>3. TxJoins(m, "suspend", "none") BY <1>2 DEF TxRestore, TxJoins
  <2>. QED BY <1>0, <2>2, <2>3, JoinsInv
<1>3. CASE StepsTo("idle") /\ UNCHANGED <<ops, manager>> /\ KeepGate
  <2>1. tx.step \in Unsettled BY DEF Unsettled, TxRestore
  <2>. QED BY <1>0, <1>3, <2>1, GateStays, TxSettles DEF TxRestore
<1>. QED BY <1>1, <1>2, <1>3 DEF TxRestore, StepsTo

LEMMA RequestInv == ASSUME RoutingInv, Ask \/ AnswerRequest PROVE RoutingInv'
<1>1. /\ UNCHANGED <<gate, proxy, manager, ops, line>> /\ UNCHANGED <<rules, topRules, tx>>
      /\ link' = link /\ page' = page
  BY DEF Ask, AnswerRequest
<1>2. request' \in {"asked", "none"} BY DEF Ask, AnswerRequest, SameEpoch
<1>3. GateOK' /\ CallersOK' BY <1>1, <1>2 DEF GateOK, CallersOK, RoutingInv, RoutingTyped
<1>. QED BY <1>1, <1>3, SessionStays, TxStays

-----------------------------------------------------------------------------
(* The operations.                                                          *)

\* An operation at the head of a chain settles, and nothing opens or closes.
LEMMA QuietEnd ==
  ASSUME RoutingInv, NEW m \in Managers, ops[m] # <<>>, NEW result, Settle(m, result), KeepGate,
         UNCHANGED <<manager, topRules>>, ProxyOK', proxy' = proxy \/ gate.blocked,
         \/ ops[m][1].at = "queued" /\ line' = line /\ proxy' = proxy
         \/ line # <<>> /\ Head(line) = m /\ LeaveLine
  PROVE  RoutingInv'
<1>1. Len(ops[m]) > 0 /\ ops \in [Managers -> Seq(Op)] /\ LineOK /\ ManagerOK BY ChainHead DEF RoutingInv, RoutingTyped, OpsOK
<1>2. gate' = gate /\ GateOK' BY GateStays
<1>3. Shrunk(m) BY <1>1, SettleShrinks
<1>4. TxEnds(m) /\ CallersOK' BY <1>1, SettleTxEnds
<1>5. Ends(m)
  <2>1. CASE ops[m][1].at = "queued" /\ line' = line /\ proxy' = proxy BY <1>2, <1>3, <2>1 DEF Ends
  <2>2. CASE line # <<>> /\ Head(line) = m /\ LeaveLine
    <3>1. Len(line) > 0 /\ line[1] = m BY <2>2, LineHead
    <3>. QED BY <1>1, <1>3, <2>2, <3>1, LeaveShrinks DEF Ends
  <2>. QED BY <2>1, <2>2
<1>6. ServingInv' BY <1>2, <1>5, EndsServing
<1>7. ManagerOK' BY <1>1 DEF ManagerOK
<1>. QED BY <1>2, <1>4, <1>5, <1>6, <1>7, EndsShut

\* The manager of the running operation owns the Session.
LEMMA RunningOwns ==
  ASSUME RoutingInv, NEW m \in Managers, ops[m] # <<>>, InForce(ops[m][1]), manager[m].bound
  PROVE  gate.owner = m
<1>1. Live(m) BY ChainHead, InForceIsLast
<1>. QED BY <1>1 DEF RoutingInv, OwnerInv

LEMMA LineAppends == ASSUME LineOK, NEW m \in Managers, line' = Append(line, m) PROVE LineGrows(m)
<1>1. Len(line) \in Nat BY LenProperties DEF LineOK
<1>. QED BY <1>1, AppendProperties DEF LineOK, LineGrows

LEMMA OneInLine ==
  ASSUME NEW q \in Seq(Managers), Len(q) = 0, NEW m \in Managers
  PROVE  Append(q, m) \in Seq(Managers) /\ Len(Append(q, m)) = 1 /\ Append(q, m)[1] = m
<1>1. Append(q, m) \in Seq(Managers) /\ Len(Append(q, m)) = Len(q) + 1 BY AppendProperties
<1>2. Append(q, m)[Len(q) + 1] = m BY AppendProperties
<1>3. Len(q) + 1 = 1 OBVIOUS
<1>. QED BY <1>1, <1>2, <1>3

\* What the next form of an operation keeps.
At(op, at) == [op EXCEPT !.at = at]
Reads(op, pac) == [op EXCEPT !.at = "line", !.pac = pac]
FallsBack(op) == [op EXCEPT !.kind = "fallback", !.at = "line", !.pac = FailClosed]
LEMMA NextForms ==
  ASSUME NEW op \in Op
  PROVE  /\ \A at \in {"line", "set", "drain"} :
              /\ At(op, at) \in Op /\ At(op, at).at = at /\ At(op, at).kind = op.kind
              /\ At(op, at).who = op.who /\ At(op, at).force = op.force /\ At(op, at).pac = op.pac
         /\ \A pac \in Versions :
              /\ Reads(op, pac) \in Op /\ Reads(op, pac).at = "line" /\ Reads(op, pac).kind = op.kind
              /\ Reads(op, pac).who = op.who /\ Reads(op, pac).force = op.force /\ Reads(op, pac).pac = pac
         /\ FallsBack(op) \in Op /\ FallsBack(op).at = "line" /\ FallsBack(op).kind = "fallback"
         /\ FallsBack(op).who = op.who /\ FallsBack(op).force = op.force /\ FallsBack(op).pac = FailClosed
<1>1. \A at \in {"line", "set", "drain"} :
        /\ At(op, at) \in Op /\ At(op, at).at = at /\ At(op, at).kind = op.kind
        /\ At(op, at).who = op.who /\ At(op, at).force = op.force /\ At(op, at).pac = op.pac
  BY DEF Op, At
<1>2. \A pac \in Versions :
        /\ Reads(op, pac) \in Op /\ Reads(op, pac).at = "line" /\ Reads(op, pac).kind = op.kind
        /\ Reads(op, pac).who = op.who /\ Reads(op, pac).force = op.force /\ Reads(op, pac).pac = pac
  BY DEF Op, Reads, Pacs
<1>3. /\ FallsBack(op) \in Op /\ FallsBack(op).at = "line" /\ FallsBack(op).kind = "fallback"
      /\ FallsBack(op).who = op.who /\ FallsBack(op).force = op.force /\ FallsBack(op).pac = FailClosed
  BY DEF Op, FallsBack, Pacs
<1>. QED BY <1>1, <1>2, <1>3

\* A manager record with one field written.
LEMMA ManagerWrites ==
  ASSUME ManagerOK, NEW m \in Managers, NEW x \in ManagerState, manager' = [manager EXCEPT ![m] = x]
  PROVE  ManagerOK' /\ manager'[m] = x /\ \A n \in Managers : n # m => manager'[n] = manager[n]
BY DEF ManagerOK

\* configure or suspend starts: it binds the Session if need be and joins the line.
LEMMA BeginInv == ASSUME RoutingInv, NEW m \in Managers, Begin(m) PROVE RoutingInv'
<1>1. ops[m] # <<>> /\ Running(m) = ops[m][1] /\ ops[m][1].at = "queued" /\ tx.step # "resolved"
      /\ ops[m][1] \in Op /\ Len(ops[m]) > 0 /\ 1 \in 1..Len(ops[m])
  BY ChainHead DEF Begin
<1>2. proxy' = proxy /\ topRules' = topRules /\ ProxyOK' BY DEF Begin, RoutingInv, RoutingTyped, ProxyOK
<1>3. /\ ops \in [Managers -> Seq(Op)] /\ LineOK /\ ManagerOK /\ GateOK /\ CallersOK /\ TxOK
      /\ OwnerInv /\ ChainInv /\ ServingInv
  BY DEF RoutingInv, RoutingTyped, OpsOK
<1>4. manager[m] \in ManagerState BY <1>3 DEF ManagerOK
<1>. DEFINE op == ops[m][1]
<1>5. CASE Settle(m, "null") /\ UNCHANGED <<manager, line>> /\ KeepGate
  BY <1>1, <1>2, <1>5, QuietEnd
<1>6. CASE /\ op.kind = "suspend" /\ ~manager[m].bound /\ manager' = [manager EXCEPT ![m].key = Unset]
           /\ Settle(m, "null") /\ UNCHANGED line /\ KeepGate
  <2>1. Live(m) BY <1>1, <1>6, InForceIsLast DEF InForce
  <2>. DEFINE x == [manager[m] EXCEPT !.key = Unset]
  <2>2. \A y \in ManagerState : LET z == [y EXCEPT !.key = Unset] IN
          /\ z \in ManagerState /\ z.key = Unset /\ z.life = y.life /\ z.bound = y.bound /\ z.suspended = y.suspended
    BY DEF ManagerState, Pacs
  <2>3. /\ x \in ManagerState /\ x.key = Unset /\ x.life = manager[m].life
        /\ x.bound = manager[m].bound /\ x.suspended = manager[m].suspended
    BY <1>4, <2>2
  <2>4. manager' = [manager EXCEPT ![m] = x] BY <1>6
  <2>. HIDE DEF x
  <2>5. ManagerOK' /\ manager'[m] = x /\ \A n \in Managers : n # m => manager'[n] = manager[n]
    BY <1>3, <2>3, <2>4, ManagerWrites
  <2>6. gate' = gate /\ GateOK' BY <1>6, GateStays
  <2>7. Ends(m) BY <1>1, <1>2, <1>3, <1>6, <2>6, SettleShrinks DEF Ends
  <2>8. TxEnds(m) /\ CallersOK' BY <1>1, <1>6, SettleTxEnds
  <2>9. Unset \notin Versions BY RoutingAssumption DEF Unset, Versions
  <2>10. ServingInv' BY <1>2, <1>6, <2>1, <2>3, <2>5, <2>6, <2>7, <2>9, EndsClosed DEF Live
  <2>11. \A n \in Managers : /\ manager'[n].life = manager[n].life /\ manager'[n].bound = manager[n].bound
                             /\ manager'[n].suspended = manager[n].suspended
                             /\ n # m => manager'[n] = manager[n]
                             /\ manager'[n].key \in Versions => manager'[n].key = manager[n].key
    BY <2>3, <2>5, <2>9
  <2>. QED BY <1>2, <2>5, <2>6, <2>7, <2>8, <2>10, <2>11, EndsShut
<1>7. CASE /\ op.kind = "suspend" /\ manager[m].bound /\ MoveTo(m, [op EXCEPT !.at = "line"])
           /\ line' = Append(line, m) /\ UNCHANGED manager /\ KeepGate
  <2>1. MoveTo(m, At(op, "line")) BY <1>7 DEF At
  <2>2. /\ At(op, "line") \in Op /\ At(op, "line").at = "line" /\ At(op, "line").kind = op.kind
        /\ At(op, "line").who = op.who /\ At(op, "line").force = op.force
    BY <1>1, NextForms
  <2>3. Moved(m, At(op, "line")) BY <1>1, <1>3, <2>1, <2>2, MoveMoves
  <2>4. gate' = gate /\ GateOK' BY <1>7, GateStays
  <2>5. InForce(op) /\ gate.owner = m BY <1>1, <1>7, RunningOwns DEF InForce
  <2>6. Joined(m, At(op, "line")) BY <1>1, <1>2, <1>3, <1>7, <2>2, LineAppends DEF Joined
  <2>7. tx' = tx /\ rules' = rules /\ CallersOK' BY <1>3, <2>1, MoveLeaves
  <2>8. SameButBusy(m, At(op, "line")) BY <1>7 DEF SameButBusy
  <2>9. Advances(m, At(op, "line"))
    BY <1>1, <1>2, <1>7, <2>2, <2>3, <2>4, <2>5, <2>6, <2>7, <2>8 DEF Advances
  <2>10. ManagerOK' BY <1>3, <1>7 DEF ManagerOK
  <2>. QED BY <1>2, <2>4, <2>7, <2>9, <2>10, AdvancesInv
<1>8. CASE /\ op.kind = "configure" /\ MoveTo(m, [op EXCEPT !.at = "line", !.pac = rules])
           /\ line' = Append(line, m) /\ manager' = [manager EXCEPT ![m].bound = TRUE]
           /\ IF manager[m].bound THEN KeepGate ELSE SetGate(TRUE, m)
  <2>0. rules \in Versions BY <1>3 DEF TxOK
  <2>1. MoveTo(m, Reads(op, rules)) BY <1>8 DEF Reads
  <2>2. /\ Reads(op, rules) \in Op /\ Reads(op, rules).at = "line" /\ Reads(op, rules).kind = op.kind
        /\ Reads(op, rules).who = op.who /\ Reads(op, rules).force = op.force /\ Reads(op, rules).pac = rules
    BY <1>1, <2>0, NextForms
  <2>3. Moved(m, Reads(op, rules)) BY <1>1, <1>3, <2>1, <2>2, MoveMoves
  <2>4. InForce(op) BY <1>8 DEF InForce
  <2>5. gate'.owner = m /\ (gate'.blocked \/ gate' = gate) /\ GateOK'
    <3>1. CASE manager[m].bound
      <4>1. gate.owner = m BY <1>1, <2>4, <3>1, RunningOwns
      <4>. QED BY <1>8, <3>1, <4>1, GateStays
    <3>2. CASE ~manager[m].bound
      <4>1. SetGate(TRUE, m) BY <1>8, <3>2
      <4>2. gate'.owner = m /\ gate'.blocked BY <4>1 DEF SetGate
      <4>. QED BY <1>3, <4>1, <4>2, GateTypes
    <3>. QED BY <3>1, <3>2
  <2>6. Joined(m, Reads(op, rules)) BY <1>1, <1>2, <1>3, <1>8, <2>2, LineAppends DEF Joined
  <2>7. tx' = tx /\ rules' = rules /\ CallersOK' BY <1>3, <2>1, MoveLeaves
  <2>. DEFINE x == [manager[m] EXCEPT !.bound = TRUE]
  <2>8. \A y \in ManagerState : LET z == [y EXCEPT !.bound = TRUE] IN
          /\ z \in ManagerState /\ z.key = y.key /\ z.life = y.life /\ z.bound /\ z.suspended = y.suspended
    BY DEF ManagerState
  <2>9. /\ x \in ManagerState /\ x.key = manager[m].key /\ x.life = manager[m].life
        /\ x.bound /\ x.suspended = manager[m].suspended
    BY <1>4, <2>8
  <2>10. manager' = [manager EXCEPT ![m] = x] BY <1>8
  <2>. HIDE DEF x
  <2>11. ManagerOK' /\ manager'[m] = x /\ \A n \in Managers : n # m => manager'[n] = manager[n]
    BY <1>3, <2>9, <2>10, ManagerWrites
  <2>12. SameButBusy(m, Reads(op, rules)) BY <2>9, <2>11 DEF SameButBusy
  <2>13. Advances(m, Reads(op, rules))
    BY <1>1, <1>2, <1>8, <2>0, <2>2, <2>3, <2>4, <2>5, <2>6, <2>7, <2>12 DEF Advances
  <2>. QED BY <1>2, <2>5, <2>7, <2>11, <2>13, AdvancesInv
<1>. QED BY <1>1, <1>5, <1>6, <1>7, <1>8 DEF Begin

\* A failed configure falls back, from wherever it was.
LEMMA FallBackInv ==
  ASSUME RoutingInv, NEW m \in Managers, ops[m] # <<>>, ops[m][1].kind = "configure", Fail(m),
         UNCHANGED <<proxy, topRules>>,
         \/ ops[m][1].at = "queued" /\ tx.step # "resolved"
         \/ ops[m][1].at # "queued" /\ line # <<>> /\ Head(line) = m
  PROVE  RoutingInv'
<1>1. Running(m) = ops[m][1] /\ ops[m][1] \in Op /\ Len(ops[m]) > 0 BY ChainHead
<1>2. /\ ops \in [Managers -> Seq(Op)] /\ LineOK /\ ManagerOK /\ GateOK /\ CallersOK /\ ProxyOK
  BY DEF RoutingInv, RoutingTyped, OpsOK
<1>3. manager[m] \in ManagerState BY <1>2 DEF ManagerOK
<1>. DEFINE op == ops[m][1]
            x == [manager[m] EXCEPT !.suspended = TRUE, !.bound = TRUE]
<1>4. /\ MoveTo(m, FallsBack(op)) /\ SetGate(TRUE, m)
      /\ manager' = [manager EXCEPT ![m].suspended = TRUE, ![m].bound = TRUE]
      /\ line' = IF op.at = "queued" THEN Append(line, m) ELSE Append(Tail(line), m)
  BY <1>1 DEF Fail, FallsBack
<1>5. /\ FallsBack(op) \in Op /\ FallsBack(op).at = "line" /\ FallsBack(op).kind = "fallback"
      /\ FallsBack(op).who = op.who /\ FallsBack(op).force = op.force
  BY <1>1, NextForms
<1>6. Moved(m, FallsBack(op)) BY <1>1, <1>2, <1>4, <1>5, MoveMoves
<1>7. InForce(op) /\ Live(m) BY <1>1, InForceIsLast DEF InForce
<1>8. gate'.owner = m /\ gate'.blocked BY <1>4 DEF SetGate
<1>9. GateOK' BY <1>2, <1>4, GateTypes
<1>10. tx' = tx /\ rules' = rules /\ CallersOK' BY <1>2, <1>4, MoveLeaves
<1>11. Joined(m, FallsBack(op)) \/ Rejoined(m, FallsBack(op))
  <2>1. CASE op.at = "queued" BY <1>2, <1>4, <1>5, <2>1, LineAppends DEF Joined
  <2>2. CASE op.at # "queued" /\ line # <<>> /\ Head(line) = m
    <3>1. Len(line) = 1 /\ line[1] = m BY <1>7, <2>2, LineHead
    <3>2. line \in Seq(Managers) BY <1>2 DEF LineOK
    <3>3. Tail(line) \in Seq(Managers) /\ Len(Tail(line)) = 0 BY <2>2, <3>1, <3>2, HeadTailProperties
    <3>4. line' = Append(Tail(line), m) BY <1>4, <2>2
    <3>7. line' \in Seq(Managers) /\ Len(line') = 1 /\ line'[1] = m BY <3>3, <3>4, OneInLine
    <3>. QED BY <1>5, <3>1, <3>7 DEF Rejoined
  <2>. QED BY <2>1, <2>2
<1>12. \A y \in ManagerState : LET z == [y EXCEPT !.suspended = TRUE, !.bound = TRUE] IN
         /\ z \in ManagerState /\ z.key = y.key /\ z.life = y.life /\ z.bound /\ z.suspended
  BY DEF ManagerState
<1>13. x \in ManagerState /\ x.key = manager[m].key /\ x.life = manager[m].life /\ x.bound /\ x.suspended
  BY <1>3, <1>12
<1>14. manager' = [manager EXCEPT ![m] = x] BY <1>4
<1>. HIDE DEF x
<1>15. ManagerOK' /\ manager'[m] = x /\ \A n \in Managers : n # m => manager'[n] = manager[n]
  BY <1>2, <1>13, <1>14, ManagerWrites
<1>16. SameButBusy(m, FallsBack(op)) BY <1>5, <1>13, <1>15 DEF SameButBusy
<1>17. op.at = "queued" => tx.step # "resolved" OBVIOUS
<1>18. Advances(m, FallsBack(op))
  BY <1>5, <1>6, <1>7, <1>8, <1>10, <1>11, <1>16, <1>17 DEF Advances
<1>19. ProxyOK' BY <1>2 DEF ProxyOK
<1>. QED BY <1>9, <1>10, <1>15, <1>18, <1>19, AdvancesInv

LEMMA BeginFailsInv == ASSUME RoutingInv, NEW m \in Managers, BeginFails(m) PROVE RoutingInv'
BY ChainHead, FallBackInv DEF BeginFails

\* The operation that has the Session goes on to its next native call.
LEMMA StepInv ==
  ASSUME RoutingInv, NEW m \in Managers, line # <<>>, Head(line) = m, InForce(ops[m][1]),
         NEW at \in {"set", "drain"}, MoveTo(m, At(ops[m][1], at)), UNCHANGED <<manager, line, topRules>>,
         SetGate(TRUE, gate.owner) \/ (gate.blocked /\ KeepGate), ProxyOK',
         at = "drain" => proxy'.pac = ops[m][1].pac
  PROVE  RoutingInv'
<1>1. ops[m] # <<>> /\ ops[m][1].at # "queued" /\ Len(line) > 0 /\ line[1] = m BY LineHead
<1>2. ops[m][1] \in Op /\ Len(ops[m]) > 0 /\ OpInv(m, 1) BY <1>1, ChainHead, InForceIsLast
<1>3. /\ ops \in [Managers -> Seq(Op)] /\ ManagerOK /\ GateOK /\ CallersOK
  BY DEF RoutingInv, RoutingTyped, OpsOK
<1>. DEFINE op == At(ops[m][1], at)
<1>4. /\ op \in Op /\ op.at = at /\ op.kind = ops[m][1].kind
      /\ op.who = ops[m][1].who /\ op.force = ops[m][1].force /\ op.pac = ops[m][1].pac
  BY <1>2, NextForms
<1>5. Moved(m, op) BY <1>2, <1>3, <1>4, MoveMoves
<1>6. manager[m].bound /\ (ops[m][1].kind = "configure" => ops[m][1].pac \in Versions) BY <1>1, <1>2 DEF OpInv
<1>7. gate.owner = m BY <1>1, <1>6, RunningOwns
<1>8. gate'.owner = m /\ gate'.blocked /\ GateOK'
  <2>1. CASE SetGate(TRUE, gate.owner)
    <3>1. gate'.owner = m /\ gate'.blocked BY <1>7, <2>1 DEF SetGate
    <3>. QED BY <1>3, <1>7, <2>1, <3>1, GateTypes
  <2>2. CASE gate.blocked /\ KeepGate BY <1>7, <2>2, GateStays
  <2>. QED BY <2>1, <2>2
<1>9. tx' = tx /\ rules' = rules /\ CallersOK' BY <1>3, MoveLeaves
<1>10. SameButBusy(m, op) BY <1>6 DEF SameButBusy
<1>11. Stayed(m, op) BY <1>1, <1>4, <1>8 DEF Stayed
<1>12. Advances(m, op)
  BY <1>1, <1>4, <1>5, <1>6, <1>8, <1>9, <1>10, <1>11 DEF Advances
<1>13. ManagerOK' BY <1>3 DEF ManagerOK
<1>. QED BY <1>8, <1>9, <1>12, <1>13, AdvancesInv

\* A configure that is not forced and finds its own PAC in place would open a
\* gate that is open: such a manager serves, and has no operation in force.
LEMMA EnterInv == ASSUME RoutingInv, NEW m \in Managers, Enter(m) PROVE RoutingInv'
<1>1. /\ line # <<>> /\ Head(line) = m /\ Running(m).at = "line" /\ ops[m] # <<>>
      /\ Running(m) = ops[m][1] /\ ops[m][1].at # "queued" /\ Len(ops[m]) > 0
  BY LineHead, ChainHead DEF Enter
<1>2. proxy' = proxy /\ topRules' = topRules /\ ProxyOK' BY DEF Enter, RoutingInv, RoutingTyped, ProxyOK
<1>3. CASE ~InForce(ops[m][1]) /\ Settle(m, "null") /\ LeaveLine /\ UNCHANGED manager /\ KeepGate
  BY <1>1, <1>2, <1>3, QuietEnd
<1>4. CASE /\ InForce(ops[m][1]) /\ MoveTo(m, [ops[m][1] EXCEPT !.at = "set"])
           /\ SetGate(TRUE, gate.owner) /\ UNCHANGED <<manager, line>>
  <2>1. MoveTo(m, At(ops[m][1], "set")) BY <1>4 DEF At
  <2>. QED BY <1>1, <1>2, <1>4, <2>1, StepInv
<1>5. CASE ops[m][1].kind = "configure" /\ ~ops[m][1].force /\ manager[m].key = ops[m][1].pac
  <2>1. OpInv(m, 1) /\ ~Serving(m) BY <1>1, <1>5, InForceIsLast DEF InForce
  <2>2. Serving(m) BY <1>1, <1>5, <2>1 DEF OpInv, Serving
  <2>. QED BY <2>1, <2>2
<1>. QED BY <1>1, <1>3, <1>4, <1>5 DEF Enter

\* What a native completion finds.
LEMMA CompletesFacts ==
  ASSUME RoutingInv, NEW m \in Managers, NEW at \in {"set", "drain"}, Completes(m, at)
  PROVE  /\ line # <<>> /\ Head(line) = m /\ ops[m] # <<>> /\ Running(m) = ops[m][1]
         /\ ops[m][1].at = at /\ gate.blocked /\ Len(ops[m]) > 0
         /\ at = "drain" => proxy.pac = ops[m][1].pac
<1>1. line # <<>> /\ Head(line) = m /\ Running(m).at = at BY DEF Completes
<1>2. ops[m] # <<>> /\ Len(line) > 0 /\ line[1] = m BY <1>1, LineHead
<1>3. Running(m) = ops[m][1] /\ Len(ops[m]) > 0 BY <1>2, ChainHead
<1>4. AtWork BY <1>1, <1>2, <1>3 DEF AtWork
<1>. QED BY <1>1, <1>2, <1>3, <1>4 DEF RoutingInv, LineInv

LEMMA SetProxyInv == ASSUME RoutingInv, NEW m \in Managers, SetProxy(m) PROVE RoutingInv'
<1>1. /\ line # <<>> /\ Head(line) = m /\ ops[m] # <<>> /\ Running(m) = ops[m][1]
      /\ ops[m][1].at = "set" /\ gate.blocked /\ ops[m][1] \in Op
  BY CompletesFacts, ChainHead DEF SetProxy
<1>2. proxy' = [pac |-> ops[m][1].pac, settled |-> proxy.settled /\ proxy.pac = ops[m][1].pac]
  BY <1>1 DEF SetProxy
<1>3. ProxyOK' /\ proxy'.pac = ops[m][1].pac BY <1>1, <1>2 DEF Op, ProxyOK, RoutingInv, RoutingTyped
<1>4. UNCHANGED <<manager, topRules>> /\ KeepGate BY DEF SetProxy, Continue
<1>5. CASE InForce(ops[m][1]) /\ MoveTo(m, [ops[m][1] EXCEPT !.at = "drain"]) /\ UNCHANGED line
  <2>1. MoveTo(m, At(ops[m][1], "drain")) BY <1>5 DEF At
  <2>. QED BY <1>1, <1>3, <1>4, <1>5, <2>1, StepInv
<1>6. CASE Settle(m, "null") /\ LeaveLine BY <1>1, <1>3, <1>4, <1>6, QuietEnd
<1>. QED BY <1>1, <1>5, <1>6 DEF SetProxy, Continue

\* A configure that stays in force through all its native calls opens the gate
\* on the PAC the Session then runs, once nothing else is under way.
LEMMA OpensInv ==
  ASSUME RoutingInv, NEW m \in Managers, Completes(m, "drain"), ops[m][1].kind = "configure",
         Settle(m, "done"), LeaveLine, manager' = Opened(m), SetGate(FALSE, gate.owner),
         topRules' = topRules, proxy' = [proxy EXCEPT !.settled = TRUE]
  PROVE  RoutingInv'
<1>1. /\ line # <<>> /\ Head(line) = m /\ ops[m] # <<>> /\ Running(m) = ops[m][1] /\ ops[m][1].at = "drain"
      /\ Len(ops[m]) > 0 /\ proxy.pac = ops[m][1].pac /\ ops[m][1] \in Op /\ 1 \in 1..Len(ops[m])
  BY CompletesFacts, ChainHead
<1>2. /\ ops \in [Managers -> Seq(Op)] /\ LineOK /\ ManagerOK /\ GateOK /\ ProxyOK /\ TxInv /\ OwnerInv
  BY DEF RoutingInv, RoutingTyped, OpsOK
<1>3. InForce(ops[m][1]) BY DEF InForce
<1>4. Live(m) /\ Len(ops[m]) = 1 /\ OpInv(m, 1) BY <1>1, <1>3, InForceIsLast
<1>5. Alone(m) BY <1>1, <1>4, HeadIsAlone DEF Completes
<1>6. gate.owner = m BY <1>1, <1>3, <1>4, RunningOwns DEF OpInv
<1>7. ops[m][1].pac \in Versions BY <1>1, <1>4 DEF OpInv
<1>8. Ends(m)
  <2>1. Len(line) > 0 /\ line[1] = m BY <1>1, LineHead
  <2>. QED BY <1>1, <1>2, <2>1, LeaveShrinks, SettleShrinks DEF Ends
<1>9. TxEnds(m) /\ CallersOK' BY <1>1, SettleTxEnds
<1>. DEFINE x == [manager[m] EXCEPT !.key = ops[m][1].pac, !.ready = TRUE, !.suspended = FALSE]
<1>10. \A y \in ManagerState : \A v \in Versions :
         LET z == [y EXCEPT !.key = v, !.ready = TRUE, !.suspended = FALSE] IN
         z \in ManagerState /\ z.key = v /\ z.life = y.life /\ z.bound = y.bound /\ ~z.suspended /\ z.ready
  BY DEF ManagerState, Pacs
<1>11. manager[m] \in ManagerState BY <1>2 DEF ManagerOK
<1>12. /\ x \in ManagerState /\ x.key = ops[m][1].pac /\ x.life = manager[m].life
       /\ x.bound = manager[m].bound /\ ~x.suspended /\ x.ready
  BY <1>7, <1>10, <1>11
<1>13. manager' = [manager EXCEPT ![m] = x] BY <1>1 DEF Opened
<1>. HIDE DEF x
<1>14. ManagerOK' /\ manager'[m] = x /\ \A n \in Managers : n # m => manager'[n] = manager[n]
  BY <1>2, <1>12, <1>13, ManagerWrites
<1>15. proxy'.settled /\ proxy'.pac = ops[m][1].pac /\ ProxyOK'
  <2>1. \A y \in [pac : Pacs, settled : BOOLEAN] : LET z == [y EXCEPT !.settled = TRUE] IN
          z \in [pac : Pacs, settled : BOOLEAN] /\ z.settled /\ z.pac = y.pac
    OBVIOUS
  <2>. QED BY <1>1, <1>2, <2>1 DEF ProxyOK
<1>16. gate'.owner = m /\ ~gate'.blocked BY <1>6 DEF SetGate
<1>17. GateOK' BY <1>2, <1>6, GateTypes
<1>18. ServingInv' BY <1>4, <1>5, <1>7, <1>8, <1>12, <1>14, <1>15, <1>16, EndsOpen DEF Live
<1>19. \A n \in Managers : /\ manager'[n].life = manager[n].life /\ manager'[n].bound = manager[n].bound
                           /\ n # m => manager'[n] = manager[n]
                           /\ manager'[n].suspended => manager[n].suspended
  BY <1>12, <1>14
<1>20. OwnerInv' BY <1>6, <1>8, <1>16, <1>19, EndsOwner
<1>21. ChainInv' BY <1>8, <1>19, EndsChain
<1>22. LineInv' /\ LineOK' BY <1>8, <1>19, EndsLine
<1>23. Len(ops'[m]) = 0 /\ OpsOK'
  <2>1. Len(ops'[m]) = Len(ops[m]) - 1 /\ OpsOK' BY <1>8, EndsHeads
  <2>. QED BY <1>4, <2>1
<1>24. tx'.step \notin Unsettled
  <2>1. tx.step \notin Unsettled BY DEF Completes, JobsDrained, Unsettled
  <2>2. CASE ops[m][1].who # "tx" BY <2>1, <2>2, <1>9 DEF TxEnds
  <2>3. CASE ops[m][1].who = "tx"
    <3>1. TxOpInv(m, 1) BY <1>1, <1>2, <2>3 DEF TxInv, TxOps
    <3>2. tx.current /\ tx.step # "suspending" BY <1>4, <3>1 DEF TxOpInv
    <3>. QED BY <1>1, <2>3, <3>2, SettleTxEnds
  <2>. QED BY <2>2, <2>3
<1>25. TxInv' /\ TxOK'
  <2>1. \A n \in Managers : Live(n)' /\ Serving(n)' =>
              Serving(n) \/ (n = m /\ Len(ops'[m]) = 0 /\ tx'.step \notin Unsettled)
    BY <1>14, <1>23, <1>24 DEF Serving
  <2>. QED BY <1>8, <1>9, <1>19, <2>1, EndsTx
<1>26. PolicyInv'
  <2>. SUFFICES ASSUME m = tx'.of PROVE proxy'.pac >= rules' BY <1>16 DEF PolicyInv
  <2>1. tx'.of = tx.of /\ rules \in Int /\ rules' \in Int /\ rules' <= rules BY <1>9, TxEndsRules
  <2>2. ops[m][1].pac >= rules BY <1>1, <1>2, <2>1 DEF TxInv, NewPacs
  <2>3. ops[m][1].pac \in Int BY <1>7, RoutingAssumption DEF Versions
  <2>. QED BY <1>15, <2>1, <2>2, <2>3
<1>. QED BY <1>9, <1>14, <1>15, <1>17, <1>18, <1>20, <1>21, <1>22, <1>23, <1>25, <1>26
     DEF RoutingInv, RoutingTyped

\* A suspend or a fallback that runs to its end leaves the Session fail closed.
LEMMA ClosesInv ==
  ASSUME RoutingInv, NEW m \in Managers, Completes(m, "drain"), InForce(ops[m][1]), NEW result,
         Settle(m, result), LeaveLine, manager' = [manager EXCEPT ![m].key = FailClosed], KeepGate,
         topRules' = topRules, ProxyOK'
  PROVE  RoutingInv'
<1>1. /\ line # <<>> /\ Head(line) = m /\ ops[m] # <<>> /\ ops[m][1].at = "drain"
      /\ Len(ops[m]) > 0 /\ gate.blocked
  BY CompletesFacts, ChainHead
<1>2. ops \in [Managers -> Seq(Op)] /\ LineOK /\ ManagerOK BY DEF RoutingInv, RoutingTyped, OpsOK
<1>3. Live(m) BY <1>1, InForceIsLast
<1>4. Alone(m) BY <1>1, <1>3, HeadIsAlone DEF Completes
<1>5. Ends(m)
  <2>1. Len(line) > 0 /\ line[1] = m BY <1>1, LineHead
  <2>. QED BY <1>1, <1>2, <2>1, LeaveShrinks, SettleShrinks DEF Ends
<1>6. TxEnds(m) /\ CallersOK' BY <1>1, SettleTxEnds
<1>. DEFINE x == [manager[m] EXCEPT !.key = FailClosed]
<1>7. \A y \in ManagerState : LET z == [y EXCEPT !.key = FailClosed] IN
        /\ z \in ManagerState /\ z.key = FailClosed /\ z.life = y.life /\ z.bound = y.bound
        /\ z.suspended = y.suspended
  BY DEF ManagerState, Pacs
<1>8. manager[m] \in ManagerState BY <1>2 DEF ManagerOK
<1>9. /\ x \in ManagerState /\ x.key = FailClosed /\ x.life = manager[m].life /\ x.bound = manager[m].bound
      /\ x.suspended = manager[m].suspended
  BY <1>7, <1>8
<1>10. manager' = [manager EXCEPT ![m] = x] OBVIOUS
<1>. HIDE DEF x
<1>11. ManagerOK' /\ manager'[m] = x /\ \A n \in Managers : n # m => manager'[n] = manager[n]
  BY <1>2, <1>9, <1>10, ManagerWrites
<1>12. gate' = gate /\ GateOK' BY GateStays
<1>13. FailClosed \notin Versions BY RoutingAssumption DEF FailClosed, Versions
<1>14. ServingInv' BY <1>1, <1>3, <1>4, <1>5, <1>9, <1>11, <1>12, <1>13, EndsClosed DEF Live
<1>15. \A n \in Managers : /\ manager'[n].life = manager[n].life /\ manager'[n].bound = manager[n].bound
                           /\ manager'[n].suspended = manager[n].suspended
                           /\ n # m => manager'[n] = manager[n]
                           /\ manager'[n].key \in Versions => manager'[n].key = manager[n].key
  BY <1>9, <1>11, <1>13
<1>. QED BY <1>1, <1>5, <1>6, <1>11, <1>12, <1>14, <1>15, EndsShut

LEMMA CloseAllInv == ASSUME RoutingInv, NEW m \in Managers, CloseAll(m) PROVE RoutingInv'
<1>1. /\ line # <<>> /\ Head(line) = m /\ ops[m] # <<>> /\ Running(m) = ops[m][1]
      /\ ops[m][1].at = "drain" /\ gate.blocked /\ Completes(m, "drain") /\ topRules' = topRules
  BY CompletesFacts DEF CloseAll
<1>2. PICK closed \in BOOLEAN : /\ InForce(ops[m][1]) => closed
                                /\ proxy' = [proxy EXCEPT !.settled = @ \/ closed]
  BY <1>1 DEF CloseAll
<1>3. ProxyOK' BY <1>2 DEF ProxyOK, RoutingInv, RoutingTyped
<1>4. CASE Settle(m, "null") /\ LeaveLine /\ UNCHANGED manager /\ KeepGate BY <1>1, <1>3, <1>4, QuietEnd
<1>5. CASE /\ ops[m][1].kind = "configure"
           /\ Settle(m, "done") /\ LeaveLine /\ manager' = Opened(m) /\ SetGate(FALSE, gate.owner)
  <2>1. closed = TRUE BY <1>2, <1>5 DEF InForce
  <2>2. proxy' = [proxy EXCEPT !.settled = TRUE]
    <3>1. (proxy.settled \/ closed) = TRUE BY <2>1
    <3>. QED BY <1>2, <3>1
  <2>. QED BY <1>1, <1>5, <2>2, OpensInv
<1>6. CASE /\ ops[m][1].kind \in {"suspend", "fallback"}
           /\ Settle(m, IF ops[m][1].kind = "suspend" THEN "done" ELSE "error") /\ LeaveLine
           /\ manager' = [manager EXCEPT ![m].key = FailClosed] /\ KeepGate
  BY <1>1, <1>3, <1>6, ClosesInv DEF InForce
<1>. QED BY <1>1, <1>4, <1>5, <1>6 DEF CloseAll

LEMMA NativeFailsInv == ASSUME RoutingInv, NEW m \in Managers, NativeFails(m) PROVE RoutingInv'
<1>1. PICK at \in {"set", "drain"} : Completes(m, at) BY DEF NativeFails
<1>2. /\ line # <<>> /\ Head(line) = m /\ ops[m] # <<>> /\ Running(m) = ops[m][1]
      /\ ops[m][1].at # "queued" /\ gate.blocked
  BY <1>1, CompletesFacts
<1>3. Fail(m) /\ proxy' = proxy /\ topRules' = topRules BY DEF NativeFails
<1>4. CASE ops[m][1].kind = "configure" BY <1>2, <1>3, <1>4, FallBackInv
<1>5. CASE ops[m][1].kind # "configure"
  <2>1. /\ Settle(m, IF OwnsSession(m) THEN "error" ELSE "null") /\ LeaveLine
        /\ UNCHANGED manager /\ KeepGate
    BY <1>2, <1>3, <1>5 DEF Fail, LeaveLine
  <2>2. ProxyOK' BY <1>3 DEF ProxyOK, RoutingInv, RoutingTyped
  <2>. QED BY <1>2, <1>3, <2>1, <2>2, QuietEnd
<1>. QED BY <1>4, <1>5

-----------------------------------------------------------------------------
(* The life of a Browser.                                                   *)

LEMMA MarkedHeads ==
  ASSUME RoutingInv, NEW m \in Managers, NEW retires, Marked(m, retires)
  PROVE  /\ OpsOK'
         /\ \A n \in Managers :
              /\ Len(ops'[n]) = Len(ops[n]) /\ (Begun(n)' <=> Begun(n))
              /\ \A i \in 1..Len(ops[n]) :
                   /\ ops'[n][i].at = ops[n][i].at /\ ops'[n][i].pac = ops[n][i].pac
                   /\ ops'[n][i].kind \in {ops[n][i].kind, "superseded"}
                   /\ ((ops'[n][i].who = "tx") <=> (ops[n][i].who = "tx"))
<1>1. ops \in [Managers -> Seq(Op)] /\ OnlyChain(m) BY DEF RoutingInv, RoutingTyped, OpsOK, Marked
<1>2. \A n \in Managers :
        /\ Len(ops'[n]) = Len(ops[n])
        /\ \A i \in 1..Len(ops[n]) :
             /\ ops'[n][i].at = ops[n][i].at /\ ops'[n][i].pac = ops[n][i].pac
             /\ ops'[n][i].kind \in {ops[n][i].kind, "superseded"}
             /\ ((ops'[n][i].who = "tx") <=> (ops[n][i].who = "tx"))
  <2>. TAKE n \in Managers
  <2>1. CASE n # m BY <1>1, <2>1 DEF OnlyChain
  <2>2. CASE n = m BY <2>2 DEF Marked
  <2>. QED BY <2>1, <2>2
<1>3. \A n \in Managers : Len(ops[n]) > 0 => 1 \in 1..Len(ops[n])
  <2>. TAKE n \in Managers
  <2>1. Len(ops[n]) \in Nat BY <1>1, LenProperties
  <2>. QED BY <2>1
<1>4. \A n \in Managers : Begun(n)' <=> Begun(n) BY <1>2, <1>3 DEF Begun
<1>. QED BY <1>1, <1>2, <1>4 DEF OpsOK, OnlyChain

LEMMA MarkedLine ==
  ASSUME RoutingInv, NEW m \in Managers, NEW retires, Marked(m, retires), line' = line, proxy' = proxy,
         gate.blocked => gate'.blocked,
         \A n \in Managers : manager'[n].life = "live" => manager[n].life = "live"
  PROVE  LineInv' /\ LineOK'
<1>1. LineInv /\ LineOK BY DEF RoutingInv, RoutingTyped
<1>2. Len(line) \in Nat /\ \A i \in 1..Len(line) : line[i] \in Managers /\ Len(ops[line[i]]) > 0
  BY <1>1, ElementOfSeq, LenProperties DEF LineOK, LineInv
<1>3. \A n \in Managers : Len(ops[n]) > 0 => 1 \in 1..Len(ops[n])
  <2>. TAKE n \in Managers
  <2>1. Len(ops[n]) \in Nat BY LenProperties DEF RoutingInv, RoutingTyped, OpsOK
  <2>. QED BY <2>1
<1>4. \A i \in 1..Len(line) : /\ Len(ops'[line[i]]) > 0 /\ ops'[line[i]][1].at = ops[line[i]][1].at
                              /\ ops'[line[i]][1].pac = ops[line[i]][1].pac
  <2>. TAKE i \in 1..Len(line)
  <2>1. line[i] \in Managers /\ Len(ops[line[i]]) > 0 /\ 1 \in 1..Len(ops[line[i]]) BY <1>2, <1>3
  <2>. QED BY <2>1, MarkedHeads
<1>5. \A n \in Managers : Begun(n)' => Begun(n) BY MarkedHeads
<1>6. Len(line) > 0 => 1 \in 1..Len(line) BY <1>2
<1>7. AtWork' => AtWork /\ 1 \in 1..Len(line) BY <1>4, <1>6 DEF AtWork
<1>8. AtWork' => gate'.blocked /\ (ops'[line'[1]][1].at = "drain" => proxy'.pac = ops'[line'[1]][1].pac)
  BY <1>1, <1>4, <1>7 DEF LineInv
<1>9. /\ \A i \in 1..Len(line') : Len(ops'[line'[i]]) > 0 /\ ops'[line'[i]][1].at # "queued"
      /\ \A i \in 1..Len(line') : i > 1 => ops'[line'[i]][1].at = "line"
  BY <1>1, <1>4 DEF LineInv
<1>10. \A i \in 1..Len(line') : manager'[line'[i]].life = "live" => i = Len(line') BY <1>1, <1>2 DEF LineInv
<1>11. \A n \in Managers : Begun(n)' => \E i \in 1..Len(line') : line'[i] = n BY <1>1, <1>5 DEF LineInv
<1>12. LineOK' /\ \A i, j \in 1..Len(line') : line'[i] = line'[j] => i = j BY <1>1 DEF LineInv, LineOK
<1>. QED BY <1>8, <1>9, <1>10, <1>11, <1>12 DEF LineInv

LEMMA MarkedTx ==
  ASSUME RoutingInv, NEW m \in Managers, NEW retires, Marked(m, retires), rules' = rules, topRules' = topRules,
         tx'.step = tx.step, tx'.before = tx.before, tx'.of = tx.of,
         \A n \in Managers : Live(n)' => Live(n) /\ manager'[n] = manager[n] /\ tx'.current = tx.current
  PROVE  TxInv'
<1>1. TxInv BY DEF RoutingInv
<1>2. \A n \in Managers :
        /\ Len(ops'[n]) = Len(ops[n]) /\ (Begun(n)' <=> Begun(n))
        /\ \A i \in 1..Len(ops[n]) :
             /\ ops'[n][i].at = ops[n][i].at /\ ops'[n][i].pac = ops[n][i].pac
             /\ ops'[n][i].kind \in {ops[n][i].kind, "superseded"}
             /\ ((ops'[n][i].who = "tx") <=> (ops[n][i].who = "tx"))
  BY MarkedHeads
<1>3. TxOps'
  <2>. SUFFICES ASSUME NEW n \in Managers, NEW i \in 1..Len(ops'[n]), ops'[n][i].who = "tx" PROVE TxOpInv(n, i)'
    BY DEF TxOps
  <2>1. i \in 1..Len(ops[n]) /\ ops[n][i].who = "tx" BY <1>2
  <2>2. TxOpInv(n, i) BY <1>1, <2>1 DEF TxInv, TxOps
  <2>3. \A o \in Managers : \A j \in 1..Len(ops'[o]) : ops'[o][j].who = "tx" => o = n /\ j = i
    BY <1>2, <2>2 DEF TxOpInv
  <2>4. tx.step = "suspending" => ops'[n][i].kind \in {"suspend", "superseded"} BY <1>2, <2>1, <2>2 DEF TxOpInv
  <2>5. Live(n)' => ~Serving(n)' /\ tx'.current BY <2>2 DEF TxOpInv, Serving
  <2>. QED BY <2>2, <2>3, <2>4, <2>5 DEF TxOpInv
<1>4. TxWaits' BY <1>1, <1>2 DEF TxInv, TxWaits
<1>5. TxQuiet' BY <1>1 DEF TxInv, TxQuiet, Serving
<1>6. TxResolved' BY <1>1, <1>2 DEF TxInv, TxResolved
<1>7. RulesInOrder' BY <1>1 DEF TxInv, RulesInOrder
<1>8. NewPacs'
  <2>. SUFFICES ASSUME NEW n \in Managers, n = tx.of, NEW i \in 1..Len(ops'[n]),
                       ops'[n][i].kind = "configure", ops'[n][i].at # "queued"
                PROVE  ops'[n][i].pac >= rules
    BY DEF NewPacs
  <2>1. i \in 1..Len(ops[n]) /\ ops[n][i].kind = "configure" /\ ops[n][i].at # "queued" /\ ops'[n][i].pac = ops[n][i].pac
    BY <1>2
  <2>. QED BY <1>1, <2>1 DEF TxInv, NewPacs
<1>. QED BY <1>3, <1>4, <1>5, <1>6, <1>7, <1>8 DEF TxInv

\* A retired manager leaves its operations behind, none of them in force, and
\* the Session closed and without an owner.
LEMMA RetireManagerInv == ASSUME RoutingInv, NEW m \in Managers, RetireManager(m) PROVE RoutingInv'
<1>1. /\ OwnerInv /\ ChainInv /\ GateOK /\ ManagerOK /\ ProxyOK /\ TxOK /\ CallersOK
      /\ ops \in [Managers -> Seq(Op)]
  BY DEF RoutingInv, RoutingTyped, OpsOK
<1>2. Live(m) /\ proxy' = proxy /\ line' = line /\ rules' = rules /\ topRules' = topRules
  BY DEF RetireManager, Live
<1>3. Marked(m, TRUE) BY <1>1, RetireMarks DEF RetireManager
<1>4. manager[m] \in ManagerState BY <1>1 DEF ManagerOK
<1>. DEFINE x == [manager[m] EXCEPT !.life = "retired"]
<1>5. x \in ManagerState /\ x.life = "retired" BY <1>4 DEF ManagerState
<1>6. manager' = [manager EXCEPT ![m] = x] BY DEF RetireManager
<1>. HIDE DEF x
<1>7. ManagerOK' /\ manager'[m] = x /\ \A n \in Managers : n # m => manager'[n] = manager[n]
  BY <1>1, <1>5, <1>6, ManagerWrites
<1>8. \A n \in Managers : ~Live(n)' BY <1>1, <1>2, <1>5, <1>7 DEF OwnerInv, Live
<1>9. gate'.owner = NoOwner /\ (gate.blocked => gate'.blocked) /\ GateOK'
  <2>1. CASE gate.owner = m
    <3>1. SetGate(TRUE, NoOwner) BY <2>1 DEF RetireManager
    <3>2. gate'.owner = NoOwner /\ gate'.blocked BY <3>1 DEF SetGate
    <3>. QED BY <1>1, <3>1, <3>2, GateTypes
  <2>2. CASE gate.owner # m
    <3>1. gate.owner = NoOwner BY <1>1, <1>2, <2>2 DEF OwnerInv, Live, GateOK
    <3>2. KeepGate BY <2>2 DEF RetireManager
    <3>. QED BY <3>1, <3>2, GateStays
  <2>. QED BY <2>1, <2>2
<1>10. PICK cancel \in BOOLEAN : tx' = [tx EXCEPT !.current = @ /\ ~cancel] BY DEF RetireManager
<1>11. tx'.step = tx.step /\ tx'.before = tx.before /\ tx'.of = tx.of /\ TxOK' BY <1>1, <1>2, <1>10 DEF TxOK
<1>12. TxInv' BY <1>2, <1>3, <1>8, <1>11, MarkedTx
<1>13. LineInv' /\ LineOK' BY <1>2, <1>3, <1>8, <1>9, MarkedLine DEF Live
<1>14. ServingInv' BY <1>8, <1>9 DEF ServingInv
<1>15. OpsOK' /\ \A n \in Managers : n # m => ops'[n] = ops[n] BY <1>3 DEF Marked, OnlyChain, OpsOK
<1>16. OwnerInv' BY <1>1, <1>5, <1>7, <1>8, <1>9, <1>15 DEF OwnerInv
<1>17. manager'[m].bound = manager[m].bound /\ manager'[m].suspended = manager[m].suspended
  BY <1>4, <1>7 DEF x, ManagerState
<1>18. ChainInv'
  <2>. SUFFICES ASSUME NEW n \in Managers, NEW i \in 1..Len(ops'[n]) PROVE OpInv(n, i)' BY DEF ChainInv
  <2>1. CASE n # m
    <3>1. OpInv(n, i) /\ ops'[n] = ops[n] /\ manager'[n] = manager[n] BY <1>1, <1>7, <1>15, <2>1 DEF ChainInv
    <3>. QED BY <3>1 DEF OpInv, Live
  <2>2. CASE n = m
    <3>1. i \in 1..Len(ops[m]) BY <1>3, <2>2 DEF Marked
    <3>2. OpInv(m, i) BY <1>1, <3>1 DEF ChainInv
    <3>3. ops'[m][i].kind = "superseded" /\ ops'[m][i].at = ops[m][i].at BY <1>3, <3>1 DEF Marked
    <3>. QED BY <1>17, <2>2, <3>2, <3>3 DEF OpInv, InForce
  <2>. QED BY <2>1, <2>2
<1>19. PolicyInv' BY <1>9 DEF PolicyInv
<1>20. ProxyOK' /\ CallersOK' BY <1>1, <1>2 DEF ProxyOK, CallersOK, RetireManager
<1>. QED BY <1>7, <1>9, <1>11, <1>12, <1>13, <1>14, <1>15, <1>16, <1>18, <1>19, <1>20 DEF RoutingInv, RoutingTyped

LEMMA ResetActivationInv == ASSUME RoutingInv, NEW m \in Managers, ResetActivation(m) PROVE RoutingInv'
<1>1. /\ OwnerInv /\ ChainInv /\ ServingInv /\ PolicyInv /\ ops \in [Managers -> Seq(Op)]
      /\ GateOK /\ ManagerOK /\ ProxyOK /\ TxOK /\ CallersOK
  BY DEF RoutingInv, RoutingTyped, OpsOK
<1>2. UNCHANGED <<gate, proxy, manager, line, rules, topRules, tx, link, request>> /\ page' = FALSE
  BY DEF ResetActivation
<1>3. Marked(m, FALSE) BY <1>1, ResetMarks DEF ResetActivation
<1>4. LineInv' /\ LineOK' BY <1>2, <1>3, MarkedLine
<1>5. TxInv' BY <1>2, <1>3, MarkedTx DEF Live
<1>6. /\ OpsOK'
      /\ \A n \in Managers : Len(ops'[n]) = Len(ops[n])
      /\ \A n \in Managers : \A i \in 1..Len(ops[n]) :
           /\ ops'[n][i].kind = ops[n][i].kind /\ ops'[n][i].at = ops[n][i].at
           /\ ops'[n][i].pac = ops[n][i].pac /\ ops'[n][i].force = ops[n][i].force
  BY <1>3 DEF Marked, OnlyChain, OpsOK
<1>7. OwnerInv' BY <1>1, <1>2, <1>6 DEF OwnerInv, Live
<1>8. ChainInv'
  <2>. SUFFICES ASSUME NEW n \in Managers, NEW i \in 1..Len(ops'[n]) PROVE OpInv(n, i)' BY DEF ChainInv
  <2>1. i \in 1..Len(ops[n]) /\ Len(ops'[n]) = Len(ops[n]) BY <1>6
  <2>2. /\ ops'[n][i].kind = ops[n][i].kind /\ ops'[n][i].at = ops[n][i].at
        /\ ops'[n][i].pac = ops[n][i].pac /\ ops'[n][i].force = ops[n][i].force
    BY <1>6, <2>1
  <2>3. OpInv(n, i) BY <1>1, <2>1 DEF ChainInv
  <2>. QED BY <1>2, <2>1, <2>2, <2>3 DEF OpInv, InForce, Live
<1>9. ServingInv'
  <2>1. \A n \in Managers : (Live(n)' <=> Live(n)) /\ (Serving(n)' <=> Serving(n)) BY <1>2 DEF Live, Serving
  <2>2. \A n \in Managers : Live(n) /\ Serving(n) => \A i \in 1..Len(ops'[n]) : ~InForce(ops'[n][i])
    <3>1. \A n \in Managers : \A i \in 1..Len(ops[n]) : InForce(ops'[n][i]) <=> InForce(ops[n][i])
      BY <1>6 DEF InForce
    <3>. QED BY <1>1, <1>6, <3>1 DEF ServingInv
  <2>. QED BY <1>1, <1>2, <1>6, <2>1, <2>2 DEF ServingInv
<1>10. PolicyInv' BY <1>1, <1>2 DEF PolicyInv
<1>11. GateOK' /\ ManagerOK' /\ ProxyOK' /\ TxOK' /\ CallersOK'
  BY <1>1, <1>2 DEF GateOK, ManagerOK, ProxyOK, TxOK, CallersOK
<1>. QED BY <1>4, <1>5, <1>6, <1>7, <1>8, <1>9, <1>10, <1>11 DEF RoutingInv, RoutingTyped

\* A new manager has no chain and no Session yet, whatever the one before left.
LEMMA CreateBrowserInv == ASSUME RoutingInv, NEW m \in Managers, CreateBrowser(m) PROVE RoutingInv'
<1>1. /\ OwnerInv /\ ChainInv /\ LineInv /\ ServingInv /\ TxInv /\ PolicyInv
      /\ GateOK /\ ManagerOK /\ ProxyOK /\ TxOK /\ CallersOK /\ LineOK /\ OpsOK
  BY DEF RoutingInv, RoutingTyped
<1>2. /\ manager[m].life = "unmade" /\ \A n \in Managers : ~Live(n)
      /\ UNCHANGED <<gate, proxy, ops, line, rules, topRules, tx, link, page, request>>
  BY DEF CreateBrowser, Live
<1>3. Len(ops[m]) = 0 /\ ~manager[m].bound /\ manager[m].key = Unset /\ ~manager[m].suspended
  BY <1>1, <1>2 DEF OwnerInv
<1>. DEFINE x == [manager[m] EXCEPT !.life = "live"]
<1>4. \A y \in ManagerState : LET z == [y EXCEPT !.life = "live"] IN
        /\ z \in ManagerState /\ z.life = "live" /\ z.key = y.key /\ z.bound = y.bound
        /\ z.suspended = y.suspended
  BY DEF ManagerState
<1>5. x \in ManagerState /\ x.life = "live" /\ x.key = Unset /\ ~x.bound /\ ~x.suspended
  <2>1. manager[m] \in ManagerState BY <1>1 DEF ManagerOK
  <2>. QED BY <1>3, <1>4, <2>1
<1>6. manager' = [manager EXCEPT ![m] = x] BY DEF CreateBrowser
<1>. HIDE DEF x
<1>7. ManagerOK' /\ manager'[m] = x /\ \A n \in Managers : n # m => manager'[n] = manager[n]
  BY <1>1, <1>5, <1>6, ManagerWrites
<1>8. \A n \in Managers : ((Live(n)' <=> n = m) /\ ~Serving(n)') \/ n # m
  <2>1. Unset \notin Versions BY RoutingAssumption DEF Unset, Versions
  <2>. QED BY <1>2, <1>5, <1>7, <2>1 DEF Live, Serving
<1>9. \A n \in Managers : Live(n)' <=> n = m BY <1>2, <1>5, <1>7 DEF Live
<1>10. ~Serving(m)' BY <1>8
<1>11. gate.owner = NoOwner BY <1>1, <1>2 DEF OwnerInv, GateOK, Live
<1>12. OwnerInv' BY <1>1, <1>2, <1>3, <1>5, <1>7, <1>9, <1>11 DEF OwnerInv, Live
<1>13. ChainInv'
  <2>. SUFFICES ASSUME NEW n \in Managers, NEW i \in 1..Len(ops[n]) PROVE OpInv(n, i)' BY <1>2 DEF ChainInv
  <2>1. n # m BY <1>3
  <2>2. OpInv(n, i) /\ manager'[n] = manager[n] BY <1>1, <1>7, <2>1 DEF ChainInv
  <2>. QED BY <1>2, <2>2 DEF OpInv, Live
<1>14. LineInv'
  <2>1. \A i \in 1..Len(line) : line[i] \in Managers /\ Len(ops[line[i]]) > 0
    BY <1>1, ElementOfSeq DEF LineOK, LineInv
  <2>2. \A i \in 1..Len(line) : manager'[line[i]].life # "live" BY <1>3, <1>9, <2>1 DEF Live
  <2>. QED BY <1>1, <1>2, <2>2 DEF LineInv, AtWork, Begun
<1>15. ServingInv' BY <1>2, <1>5, <1>7, <1>9, <1>10, <1>11 DEF ServingInv, Live
<1>16. TxInv'
  <2>1. TxOps'
    <3>. SUFFICES ASSUME NEW n \in Managers, NEW i \in 1..Len(ops[n]), ops[n][i].who = "tx" PROVE TxOpInv(n, i)'
      BY <1>2 DEF TxOps
    <3>1. TxOpInv(n, i) /\ ~Live(n)' BY <1>1, <1>3, <1>9 DEF TxInv, TxOps
    <3>. QED BY <1>2, <3>1 DEF TxOpInv
  <2>2. TxQuiet' BY <1>9, <1>10 DEF TxQuiet
  <2>3. RulesInOrder' /\ TxWaits' /\ TxResolved' /\ NewPacs'
    BY <1>1, <1>2 DEF TxInv, RulesInOrder, TxWaits, TxResolved, NewPacs, Begun
  <2>. QED BY <2>1, <2>2, <2>3 DEF TxInv
<1>17. PolicyInv' BY <1>2, <1>11 DEF PolicyInv
<1>18. GateOK' /\ ProxyOK' /\ TxOK' /\ CallersOK' /\ LineOK' /\ OpsOK'
  BY <1>1, <1>2 DEF GateOK, ProxyOK, TxOK, CallersOK, LineOK, OpsOK
<1>. QED BY <1>7, <1>12, <1>13, <1>14, <1>15, <1>16, <1>17, <1>18 DEF RoutingInv, RoutingTyped

-----------------------------------------------------------------------------
(* Every reachable state of the routing policy is safe, for any number of   *)
(* Browsers, rule changes and waiting operations: the gate is open only on  *)
(* the PAC its owner last confirmed, no request crosses a suspension, and   *)
(* the Browser of a rule change never serves older rules.                   *)
THEOREM RoutingCorrect == RoutingSpec => []RoutingSafety
<1>1. RoutingInit => RoutingInv BY RoutingInitInv
<1>2. RoutingInv /\ [RoutingNext]_routingVars => RoutingInv'
  <2>1. ASSUME RoutingInv, RoutingNext PROVE RoutingInv'
    <3>1. CASE \E m \in Managers :
                 \/ Begin(m) \/ BeginFails(m) \/ Enter(m) \/ SetProxy(m) \/ CloseAll(m)
                 \/ NativeFails(m) \/ CreateBrowser(m) \/ RetireManager(m) \/ ResetActivation(m) \/ Activate(m)
      BY <2>1, <3>1, BeginInv, BeginFailsInv, EnterInv, SetProxyInv, CloseAllInv, NativeFailsInv,
         CreateBrowserInv, RetireManagerInv, ResetActivationInv, ActivateInv
    <3>2. CASE LinkUp \/ LinkDown BY <2>1, <3>2, LinkUpInv, LinkDownInv
    <3>3. CASE TxStart \/ TxCommit \/ TxApply \/ TxRollback \/ TxRestore
      BY <2>1, <3>3, TxStartInv, TxCommitInv, TxApplyInv, TxRollbackInv, TxRestoreInv
    <3>4. CASE Ask \/ AnswerRequest BY <2>1, <3>4, RequestInv
    <3>. QED BY <2>1, <3>1, <3>2, <3>3, <3>4 DEF RoutingNext
  <2>2. ASSUME RoutingInv, UNCHANGED routingVars PROVE RoutingInv'
    <3>1. /\ UNCHANGED <<gate, proxy, manager, ops, line>> /\ UNCHANGED <<rules, topRules, tx>>
          /\ UNCHANGED <<link, page, request>>
      BY <2>2 DEF routingVars
    <3>2. GateOK' /\ CallersOK' BY <2>2, <3>1 DEF GateOK, CallersOK, RoutingInv, RoutingTyped
    <3>. QED BY <2>2, <3>1, <3>2, SessionStays, TxStays
  <2>. QED BY <2>1, <2>2
<1>. QED BY <1>1, <1>2, RoutingInvIsSafe, PTL DEF RoutingSpec
=============================================================================
