-------------------------- MODULE CertificateTrust --------------------------
(***************************************************************************)
(* Certificates the user trusts although Chromium does not: the decisions  *)
(* of CertificateController (browser/certificates/certificate-controller.  *)
(* js) and the document of CampusCertificateTrustStore                     *)
(* (campus-certificate-trust.js), with its backup copy.                    *)
(*                                                                         *)
(* The file system is synchronous: a save is one step that may fail, or be *)
(* cut off by a crash, after any of its effects.  A message box cannot be  *)
(* closed by the program: it stays open after its decision is cancelled,   *)
(* and the user may still answer it.                                       *)
(***************************************************************************)
EXTENDS Integers, Sequences, SequencesExt, FiniteSets

CONSTANTS TrustOrigins, Fingerprints,
          CertificateRequests,   \* requests with a certificate error at a time
          Boxes,                 \* message boxes open at a time
          MaxPins                \* MAX_CERTIFICATE_PINS

NoBox == "no box"
ASSUME TrustAssumption ==
  MaxPins \in Nat \ {0} /\ NoBox \notin Boxes /\ "none" \notin TrustOrigins

VARIABLES
  primary,   \* the trust document: its pins, or what cannot be read
  backup,    \* the copy beside it
  boxes,     \* per message box: its origin and fingerprint, and the decision's state
  active,    \* activePrompt
  requests,  \* per request: the decision it waits for
  granted    \* pins the user approved and has not withdrawn

trustVars == <<primary, backup, boxes, active, requests, granted>>

Pin == [origin : TrustOrigins, print : Fingerprints]
NoDocument == [is |-> "absent", pins |-> <<>>]
Corrupt == [is |-> "corrupt", pins |-> <<>>]
Doc(pins) == [is |-> "document", pins |-> pins]
Readable(f) == f.is = "document"
NoPin == [origin |-> "none", print |-> "none"]
Closed == [open |-> FALSE, pin |-> NoPin]
RequestIdle == [at |-> "idle", box |-> NoBox, pin |-> NoPin]

PinsOf(f) == Range(f.pins)

TrustTypeOK ==
  /\ \A f \in {primary, backup} : f \in {NoDocument, Corrupt} \/ (Readable(f) /\ Len(f.pins) <= MaxPins /\ PinsOf(f) \subseteq Pin)
  /\ boxes \in [Boxes -> [open : BOOLEAN, pin : Pin \cup {NoPin}]]
  /\ active \in Boxes \cup {NoBox}
  /\ requests \in [CertificateRequests -> [at : {"idle", "shares", "denied later"},
                                           box : Boxes \cup {NoBox}, pin : Pin \cup {NoPin}]]
  /\ granted \subseteq Pin

TrustInit ==
  /\ primary = NoDocument /\ backup = NoDocument /\ granted = {}
  /\ boxes = [b \in Boxes |-> Closed] /\ active = NoBox
  /\ requests = [q \in CertificateRequests |-> RequestIdle]

-----------------------------------------------------------------------------
(* The document.                                                            *)

\* loadCertificateTrust: a lost or a corrupt primary means no pins; the corrupt
\* one is moved away, if that works, and the backup removed, if that works.
TrustLoads == IF Readable(primary) THEN {[pins |-> primary.pins, primary |-> primary, backup |-> backup]}
              ELSE [pins : {<<>>}, primary : {primary, NoDocument}, backup : {backup, NoDocument}]

\* saveCertificateTrust: the backup goes first, the primary is replaced, and a
\* copy is made when possible.  Each outcome is also what a crash leaves.
Saves(loaded, pins) ==
  {[primary |-> loaded.primary, backup |-> b, ok |-> FALSE] : b \in {loaded.backup, NoDocument}}
  \cup [primary : {Doc(pins)}, backup : {NoDocument}, ok : BOOLEAN]
  \cup [primary : {Doc(pins)}, backup : {Doc(pins)}, ok : {TRUE}]

NewestPins(pins, n) == SubSeq(pins, IF Len(pins) > n THEN Len(pins) - n + 1 ELSE 1, Len(pins))

\* filter(): the pins that stay, in their order.
Without(pins, gone) ==
  LET kept[i \in 0..Len(pins)] == IF i = 0 THEN <<>>
                                  ELSE IF pins[i] \in gone THEN kept[i - 1] ELSE Append(kept[i - 1], pins[i])
  IN kept[Len(pins)]

\* Mutant: the pins of the same origin stay.
WithAnotherPin(pins, p) == Append(NewestPins(pins, MaxPins - 1), p)

\* trust(): a new pin replaces the older ones of its origin.
WithPin(pins, p) == Append(NewestPins(Without(pins, {x \in Pin : x.origin = p.origin}), MaxPins - 1), p)
WithoutPin(pins, p) == Without(pins, {p})

-----------------------------------------------------------------------------
(* Decisions.                                                               *)

\* decisions holds at most the active prompt's record: one box decides at a time.
Pending(origin) == active # NoBox /\ boxes[active].pin.origin = origin

\* An answered request is idle again.
Decided(b) == requests' = [q \in CertificateRequests |-> IF requests[q].box # b THEN requests[q] ELSE RequestIdle]

\* handle(): another certificate of an origin that is being decided is denied
\* with it; a trusted pin is allowed; else the decision is shared, denied while
\* another origin is being decided, or asked for.  What is answered at once
\* (a subresource, an unreadable document, a trusted pin) keeps no record.
CertificateError(q, p) ==
  /\ requests[q].at = "idle"
  /\ IF Pending(p.origin) /\ boxes[active].pin # p
     THEN /\ requests' = [requests EXCEPT ![q] = [at |-> "denied later", box |-> active, pin |-> p]]
          /\ UNCHANGED <<primary, backup, boxes, active>>
     ELSE \E f \in TrustLoads :
          /\ primary' = f.primary /\ backup' = f.backup
          /\ \/ /\ p \in Range(f.pins) \/ (active # NoBox /\ ~Pending(p.origin))
                /\ UNCHANGED <<boxes, active, requests>>
             \/ /\ p \notin Range(f.pins) /\ Pending(p.origin)
                /\ requests' = [requests EXCEPT ![q] = [at |-> "shares", box |-> active, pin |-> p]]
                /\ UNCHANGED <<boxes, active>>
             \/ /\ p \notin Range(f.pins) /\ active = NoBox
                /\ \E b \in Boxes : ~boxes[b].open
                /\ LET b == CHOOSE x \in Boxes : ~boxes[x].open IN
                     /\ boxes' = [boxes EXCEPT ![b] = [open |-> TRUE, pin |-> p]] /\ active' = b
                     /\ requests' = [requests EXCEPT ![q] = [at |-> "shares", box |-> b, pin |-> p]]
  /\ UNCHANGED granted

\* The answer of a box whose decision was cancelled has no effect.
LateAnswer(b) ==
  /\ boxes[b].open /\ active # b
  /\ boxes' = [boxes EXCEPT ![b] = Closed] /\ UNCHANGED <<primary, backup, active, requests, granted>>
\* The user cancels, or the document cannot be read.
Refuses(b) ==
  /\ boxes[b].open /\ active = b
  /\ boxes' = [boxes EXCEPT ![b] = Closed] /\ active' = NoBox /\ Decided(b)
  /\ UNCHANGED <<primary, backup, granted>>
Trusts(b) ==
  LET p == boxes[b].pin IN
  /\ boxes[b].open /\ active = b
  /\ \E f \in TrustLoads : \E out \in Saves(f, WithPin(f.pins, p)) :
       /\ primary' = out.primary /\ backup' = out.backup
       /\ granted' = (IF out.ok THEN {x \in granted : x.origin # p.origin} ELSE granted) \cup {p}
       /\ boxes' = [boxes EXCEPT ![b] = Closed] /\ active' = NoBox /\ Decided(b)

\* cancelAll: a tab or the window closes, a renderer crashes, the context goes.
CancelAll ==
  /\ active # NoBox /\ active' = NoBox /\ Decided(active)
  /\ UNCHANGED <<primary, backup, boxes, granted>>

\* delete-certificate-pin.
Revoke(p) ==
  /\ \E f \in TrustLoads :
       IF p \notin Range(f.pins)
       THEN primary' = f.primary /\ backup' = f.backup /\ granted' = granted \ {p}
       ELSE \E out \in Saves(f, WithoutPin(f.pins, p)) :
              /\ primary' = out.primary /\ backup' = out.backup
              /\ granted' = IF out.ok THEN granted \ {p} ELSE granted
  /\ UNCHANGED <<boxes, active, requests>>

\* A crash, which may cut a save off; a document damaged or lost from outside.
Restarted == /\ boxes' = [b \in Boxes |-> Closed] /\ active' = NoBox
             /\ requests' = [q \in CertificateRequests |-> RequestIdle]
CrashInTrust(b) ==
  /\ boxes[b].open /\ active = b /\ Restarted
  /\ \E f \in TrustLoads : \E out \in Saves(f, WithPin(f.pins, boxes[b].pin)) : primary' = out.primary /\ backup' = out.backup
  /\ granted' = granted \cup {boxes[b].pin}
CrashInRevoke(p) ==
  /\ Restarted /\ UNCHANGED granted
  /\ \E f \in TrustLoads : /\ p \in Range(f.pins)
                           /\ \E out \in Saves(f, WithoutPin(f.pins, p)) : primary' = out.primary /\ backup' = out.backup
Damaged == /\ primary' \in {NoDocument, Corrupt} \ {primary} /\ UNCHANGED <<backup, boxes, active, requests, granted>>

TrustNext ==
  \/ CancelAll \/ Damaged
  \/ \E b \in Boxes : LateAnswer(b) \/ Refuses(b) \/ Trusts(b) \/ CrashInTrust(b)
  \/ \E p \in Pin : Revoke(p) \/ CrashInRevoke(p)
  \/ \E q \in CertificateRequests, p \in Pin : CertificateError(q, p)

TrustSpec == TrustInit /\ [][TrustNext]_trustVars

-----------------------------------------------------------------------------
(* The document holds only what the user approved and has not withdrawn:    *)
(* not after a revocation that was reported done, after a crash within a    *)
(* save, after a damaged document, and not for a box whose decision was     *)
(* cancelled.                                                               *)
OnlyGrantedPins == PinsOf(primary) \subseteq granted

(* One certificate per origin: a site that renews does not widen the trust. *)
OneCertificatePerOrigin == \A x, y \in PinsOf(primary) : x.origin = y.origin => x = y

(* Beside a readable document there is no older copy: an older version of   *)
(* the program, which recovers from the copy, finds no withdrawn pin.       *)
CopyIsNeverOlder == Readable(primary) /\ backup # NoDocument => backup = primary

(* A request that waits, waits for the box the user sees decided: no        *)
(* certificate error of a page is left without an answer.                   *)
WaitersHaveABox == \A q \in CertificateRequests : requests[q].box # NoBox => requests[q].box = active /\ boxes[active].open
(* Who shares a decision, shares it about its own certificate.              *)
SharedIsTheSame == \A q \in CertificateRequests : requests[q].at = "shares" => boxes[requests[q].box].pin = requests[q].pin

CertificateSafety ==
  TrustTypeOK /\ OnlyGrantedPins /\ OneCertificatePerOrigin /\ CopyIsNeverOlder /\ WaitersHaveABox /\ SharedIsTheSame
=============================================================================
