---------------------------- MODULE EngineService ----------------------------
(***************************************************************************)
(* What the connection core promises about VPN engines: there is at most   *)
(* one; it is launched only while a connection is wanted; it serves only   *)
(* after it has started; once retired it never serves again; it is retired *)
(* before it is released, and in the same step as the wish it was launched *)
(* for changes; the next one is launched only after its release.           *)
(***************************************************************************)
EXTENDS Naturals

VARIABLES
  intent,   \* the user's wishes so far
  wanted,   \* whether the last one is to be connected
  engine    \* the engine that exists

vars == <<intent, wanted, engine>>

Engines == {"none", "starting", "serving", "retired"}

TypeOK == intent \in Nat /\ wanted \in BOOLEAN /\ engine \in Engines

Init == intent = 0 /\ wanted = FALSE /\ engine = "none"

Retired(e) == IF e = "none" THEN e ELSE "retired"

\* The user connects, disconnects or reconnects.
Wish ==
  /\ intent' = intent + 1
  /\ wanted' \in BOOLEAN
  /\ engine' = Retired(engine)

\* A launch that has lost its connection meanwhile is retired from the start.
Launch ==
  /\ wanted
  /\ engine = "none"
  /\ engine' \in {"starting", "retired"}
  /\ UNCHANGED <<intent, wanted>>

Serve ==
  /\ wanted
  /\ engine = "starting"
  /\ engine' = "serving"
  /\ UNCHANGED <<intent, wanted>>

\* The wish may be given up with the engine.
Retire ==
  /\ engine' = Retired(engine)
  /\ wanted' \in {wanted, FALSE}
  /\ UNCHANGED intent

Release ==
  /\ engine \in {"starting", "retired"}
  /\ engine' = "none"
  /\ wanted' \in {wanted, FALSE}
  /\ UNCHANGED intent

Next == Wish \/ Launch \/ Serve \/ Retire \/ Release

Spec == Init /\ [][Next]_vars
=============================================================================
