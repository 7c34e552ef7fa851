-------------------------- MODULE SchoolOnboarding --------------------------
(***************************************************************************)
(* Adding a school by its gateway: the probe child (GatewayProbeRunner),   *)
(* the confirmation it earns (CustomGatewayConfirmationOwner) and the      *)
(* coordinator that turns a confirmation into a provisioned profile        *)
(* (SchoolProfileOnboardingCoordinator).  A killed child may still answer, *)
(* the user may cancel, repeat or confirm at any time, and a confirmation  *)
(* expires.  The continuation of a settled probe runs before any other     *)
(* handler, so both are one step.                                          *)
(***************************************************************************)
EXTENDS Integers, FiniteSets

CONSTANTS Gateways,   \* entries the user may type
          Leaves,     \* leaf certificates a gateway may show
          MaxProbes   \* probes in a behaviour

VARIABLES
  children,   \* per probe, in order of start: the child process
  activeProbe,\* #active of the runner; while it is set, #running of the coordinator is too
  record,     \* #record of the confirmation owner
  begun,      \* history: the confirmations a provisioning began with
  withdrawn   \* history: probes up to this one were cancelled, superseded or consumed

onboardingVars == <<children, activeProbe, record, begun, withdrawn>>

Probes == 1..MaxProbes
NoProbe == 0
NoLeaf == "no leaf"
ASSUME OnboardingAssumption == NoLeaf \notin Leaves /\ MaxProbes \in Nat \ {0}

NoRecord == [handle |-> NoProbe, gateway |-> NoLeaf, pin |-> NoLeaf, requiresTrust |-> FALSE, expired |-> FALSE]
NotSpawned == [state |-> "none", gateway |-> NoLeaf, pin |-> NoLeaf]

\* What a child prints: a valid identity, a leaf that needs the user's trust, or nothing of use.
Results == [kind : {"valid", "unsupported", "failed"}, leaf : {NoLeaf}] \cup [kind : {"untrusted"}, leaf : Leaves]

OnboardingTypeOK ==
  /\ children \in [Probes -> [state : {"none", "probing", "settled", "closed"},
                              gateway : Gateways \cup {NoLeaf}, pin : Leaves \cup {NoLeaf}]]
  /\ activeProbe \in Probes \cup {NoProbe}
  /\ record \in [handle : Probes \cup {NoProbe}, gateway : Gateways \cup {NoLeaf},
                 pin : Leaves \cup {NoLeaf}, requiresTrust : BOOLEAN, expired : BOOLEAN]
  /\ begun \subseteq [handle : Probes, gateway : Gateways, pin : Leaves \cup {NoLeaf},
                      needed : BOOLEAN, trusted : BOOLEAN, expired : BOOLEAN, late : BOOLEAN]
  /\ withdrawn \in 0..MaxProbes

OnboardingInit ==
  /\ children = [n \in Probes |-> NotSpawned]
  /\ activeProbe = NoProbe /\ record = NoRecord /\ begun = {} /\ withdrawn = 0

-----------------------------------------------------------------------------
Started == Cardinality({n \in Probes : children[n].state # "none"})
Newest(a, b) == IF a > b THEN a ELSE b

\* probe: one at a time; it withdraws the confirmation before.
Probe(gateway, pin) ==
  /\ activeProbe = NoProbe /\ Started < MaxProbes
  /\ children' = [children EXCEPT ![Started + 1] = [state |-> "probing", gateway |-> gateway, pin |-> pin]]
  /\ activeProbe' = Started + 1 /\ record' = NoRecord /\ withdrawn' = Started
  /\ UNCHANGED begun

\* probe: the child cannot be started.
SpawnFails ==
  /\ activeProbe = NoProbe /\ Started < MaxProbes
  /\ record' = NoRecord /\ withdrawn' = Started
  /\ UNCHANGED <<children, activeProbe, begun>>

\* issue: an untrusted leaf is pinned by the confirmation itself, and never beside a pin of the user.
Issuable(n, result) ==
  result.kind = "valid" \/ (result.kind = "untrusted" /\ children[n].pin = NoLeaf)
Pinned(n, result) == IF result.kind = "untrusted" THEN result.leaf ELSE children[n].pin
Issued(n, result) ==
  [handle |-> n, gateway |-> children[n].gateway, requiresTrust |-> result.kind = "untrusted", expired |-> FALSE,
   pin |-> Pinned(n, result)]

\* finish: only the first end of a child counts.
Settles(n) == children[n].state = "probing"
\* Mutant: a child that was given up is heard when it closes.
ClosesLate(n, result) ==
  /\ children[n].state \in {"probing", "settled"}
  /\ children' = [children EXCEPT ![n].state = "closed"]
  /\ activeProbe' = (IF activeProbe = n THEN NoProbe ELSE activeProbe)
  /\ record' = IF Issuable(n, result) THEN Issued(n, result) ELSE record
  /\ UNCHANGED <<begun, withdrawn>>
Closes(n, result) ==
  /\ children[n].state \in {"probing", "settled"}
  /\ children' = [children EXCEPT ![n].state = "closed"]
  /\ IF Settles(n)
     THEN /\ activeProbe' = (IF activeProbe = n THEN NoProbe ELSE activeProbe)
          /\ record' = IF Issuable(n, result) THEN Issued(n, result) ELSE record
     ELSE UNCHANGED <<activeProbe, record>>
  /\ UNCHANGED <<begun, withdrawn>>

\* The timeout, an output too large or an error of the child: it is killed and its end comes later.
Abandons(n) ==
  /\ Settles(n)
  /\ children' = [children EXCEPT ![n].state = "settled"]
  /\ activeProbe' = (IF activeProbe = n THEN NoProbe ELSE activeProbe)
  /\ UNCHANGED <<record, begun, withdrawn>>

\* cancel: the user's, or the barrier's of a profile switch.
Cancel ==
  /\ IF activeProbe = NoProbe THEN UNCHANGED children
     ELSE children' = [children EXCEPT ![activeProbe].state = "settled"]
  /\ activeProbe' = NoProbe /\ record' = NoRecord /\ withdrawn' = Started
  /\ UNCHANGED begun

\* snapshot, consume: the time to live of the confirmation has passed.
Expire ==
  /\ record # NoRecord /\ ~record.expired /\ record' = [record EXCEPT !.expired = TRUE]
  /\ UNCHANGED <<children, activeProbe, begun, withdrawn>>

\* confirm: the record is consumed even when the confirmation is refused.
Accepts(handle, trust) ==
  record # NoRecord /\ handle = record.handle /\ ~record.expired /\ (record.requiresTrust => trust)
Confirm(handle, trust) ==
  /\ activeProbe = NoProbe
  /\ record' = NoRecord /\ withdrawn' = Newest(withdrawn, record.handle)
  /\ begun' = begun \cup
       IF Accepts(handle, trust)
       THEN {[handle |-> handle, gateway |-> record.gateway, pin |-> record.pin, needed |-> record.requiresTrust,
              trusted |-> trust, expired |-> record.expired, late |-> handle <= withdrawn]}
       ELSE {}
  /\ UNCHANGED <<children, activeProbe>>

OnboardingNext ==
  \/ SpawnFails \/ Cancel \/ Expire
  \/ \E g \in Gateways, pin \in Leaves \cup {NoLeaf} : Probe(g, pin)
  \/ \E n \in Probes : Abandons(n) \/ \E r \in Results : Closes(n, r)
  \/ \E n \in Probes, trust \in BOOLEAN : Confirm(n, trust)

OnboardingSpec == OnboardingInit /\ [][OnboardingNext]_onboardingVars

-----------------------------------------------------------------------------
(* Properties.                                                              *)

\* A provisioning begins only with the confirmation of the newest probe, once,
\* before it expires, for the gateway that probe asked, and with the user's
\* trust where the certificate needs it; a late answer of a cancelled or
\* superseded child, or an old handle, never provisions anything.
ConfirmedOnly ==
  \A b \in begun : /\ ~b.late /\ ~b.expired /\ b.gateway = children[b.handle].gateway
                   /\ b.needed => b.trusted /\ b.pin # NoLeaf
                   /\ ~b.needed => b.pin = children[b.handle].pin
                   /\ \A c \in begun : c.handle = b.handle => c = b

\* The coordinator is busy exactly while a child is still to settle, so that
\* the next probe is never refused for good.
BusyWhileProbing == \A n \in Probes : Settles(n) <=> activeProbe = n

\* A confirmation on show belongs to the newest probe.
NewestConfirmation == record # NoRecord => record.handle > withdrawn /\ record.handle = Started

OnboardingSafety == OnboardingTypeOK /\ ConfirmedOnly /\ BusyWhileProbing /\ NewestConfirmation
=============================================================================
