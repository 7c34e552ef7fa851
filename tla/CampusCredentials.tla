------------------------- MODULE CampusCredentials -------------------------
(***************************************************************************)
(* Website logins of the Campus Browser                                    *)
(* (browser/credentials/credential-controller.js): CredentialController    *)
(* stages a submitted password, collects evidence that the login went      *)
(* through - across the popups an identity provider opens for a second     *)
(* factor - and offers to save it; ManagedCredentialPopupOwner owns the    *)
(* popups; BrowserCredentialCommandOwner serves the user's own commands    *)
(* (look up, fill, delete) and the approved shared login.                  *)
(*                                                                         *)
(* What a page reports is arbitrary.  Passwords are not distinguished:     *)
(* `staged`, `offer` and `command` say where one is held.                  *)
(***************************************************************************)
EXTENDS Integers, FiniteSets

CONSTANTS Tabs, Popups,        \* pages in the tab strip, and authentication windows
          Origins,             \* canonical https origins
          MaxNavigations       \* bound of navigationSequence

VARIABLES
  pageAt,       \* per page: whether it is open, its origin, its navigationRevision moved
  staged,       \* per page: pendingCredential
  flow,         \* per page: popupFlows
  popup,        \* per popup: its owner and its navigation evidence
  reservation,  \* the popup creation under way
  offer,        \* per origin: offers / prompts
  command,      \* the vault command of a tab (manages / fills)
  sequence,     \* navigationSequence
  campusWindow  \* the Browser window: open, or gone

credentialVars == <<pageAt, staged, flow, popup, reservation, offer, command, sequence, campusWindow>>

Pages == Tabs \cup Popups
NoPage == "no page"
NoOrigin == "no origin"

ASSUME CredentialAssumption ==
  Tabs \cap Popups = {} /\ NoPage \notin Tabs \cup Popups /\ MaxNavigations \in Nat \ {0}

Revisions == 0..MaxNavigations
NoEvidence == [committed |-> FALSE, destination |-> NoOrigin, revision |-> 0]
Evidence == [committed : BOOLEAN, destination : Origins \cup {NoOrigin}, revision : Revisions]
NotStaged == [held |-> FALSE, origin |-> NoOrigin, evidence |-> NoEvidence]
NoFlow == [open |-> FALSE, reservations |-> 0, popups |-> {}, challenge |-> FALSE,
           challengeRevision |-> 0, challengeTab |-> NoPage]
NoOffer == [at |-> "none", tab |-> NoPage, active |-> FALSE, held |-> FALSE]
NoCommand == [at |-> "none", tab |-> NoPage, origin |-> NoOrigin, active |-> FALSE, held |-> FALSE]

CredentialTypeOK ==
  /\ pageAt \in [Pages -> [open : BOOLEAN, origin : Origins \cup {NoOrigin}]]
  /\ staged \in [Pages -> [held : BOOLEAN, origin : Origins \cup {NoOrigin}, evidence : Evidence]]
  /\ flow \in [Pages -> [open : BOOLEAN, reservations : 0..1, popups : SUBSET Popups, challenge : BOOLEAN,
                         challengeRevision : Revisions, challengeTab : Pages \cup {NoPage}]]
  /\ popup \in [Popups -> [owner : Pages \cup {NoPage}, evidence : Evidence]]
  /\ reservation \in Pages \cup {NoPage}
  /\ offer \in [Origins -> [at : {"none", "reading", "asking", "saving"}, tab : Pages \cup {NoPage},
                            active : BOOLEAN, held : BOOLEAN]]
  /\ command \in [at : {"none", "reading", "asking"}, tab : Pages \cup {NoPage},
                  origin : Origins \cup {NoOrigin}, active : BOOLEAN, held : BOOLEAN]
  /\ sequence \in Revisions /\ campusWindow \in BOOLEAN

CredentialInit ==
  /\ pageAt = [p \in Pages |-> [open |-> p \in Tabs, origin |-> NoOrigin]]
  /\ staged = [p \in Pages |-> NotStaged]
  /\ flow = [p \in Pages |-> NoFlow]
  /\ popup = [p \in Popups |-> [owner |-> NoPage, evidence |-> NoEvidence]]
  /\ reservation = NoPage
  /\ offer = [o \in Origins |-> NoOffer]
  /\ command = NoCommand
  /\ sequence = 0 /\ campusWindow = TRUE

-----------------------------------------------------------------------------
OwnerOf(p) == IF p \in Popups /\ popup[p].owner # NoPage THEN popup[p].owner ELSE p

\* Mutant: the password that an offer holds is not forgotten with it.
OffersForgotten(from) == [o \in Origins |-> IF offer[o].tab \in from THEN [offer[o] EXCEPT !.active = FALSE] ELSE offer[o]]

\* retireOffer: the offer is void and forgets its password; what it awaits runs on.
RetiredOffers(from) == [o \in Origins |-> IF offer[o].tab \in from
                                          THEN [offer[o] EXCEPT !.active = FALSE, !.held = FALSE] ELSE offer[o]]
\* clear(): the staged password of the owner, its offers, its timer and its flow.
LoginCleared(owner) ==
  /\ staged' = [staged EXCEPT ![owner] = NotStaged]
  /\ flow' = [flow EXCEPT ![owner] = NoFlow]
  /\ popup' = [p \in Popups |-> IF popup[p].owner = owner THEN [owner |-> NoPage, evidence |-> NoEvidence]
                                ELSE popup[p]]
  /\ offer' = RetiredOffers({owner})
KeepLogin == UNCHANGED <<staged, flow, popup, offer>>
\* BrowserCredentialCommandOwner.clearTab: any navigation or close of the tab.
CommandCleared(p) == command' = IF command.tab = p THEN [command EXCEPT !.active = FALSE, !.held = FALSE] ELSE command

\* stage(): a submitted password, from a page that is current in the Browser.
Stage(p) ==
  /\ campusWindow
  /\ pageAt[p].open /\ pageAt[p].origin # NoOrigin
  /\ LET owner == OwnerOf(p) IN
     /\ staged' = [staged EXCEPT ![owner] = NotStaged,
                                 ![p] = [held |-> TRUE, origin |-> pageAt[p].origin, evidence |-> NoEvidence]]
     /\ flow' = [flow EXCEPT ![owner] = NoFlow, ![p] = [NoFlow EXCEPT !.open = TRUE]]
     /\ popup' = [q \in Popups |-> IF popup[q].owner = owner THEN [owner |-> NoPage, evidence |-> NoEvidence]
                                   ELSE popup[q]]
     /\ offer' = RetiredOffers({owner})
  /\ UNCHANGED <<pageAt, reservation, command, sequence, campusWindow>>

\* The candidate timer (90 s).
CandidateExpires(p) ==
  /\ staged[p].held /\ LoginCleared(p)
  /\ UNCHANGED <<pageAt, reservation, command, sequence, campusWindow>>

\* did-navigate: markNavigation.  An insecure destination or an HTTP rejection
\* retires the candidate; a good one is evidence of the page it happened in.
Navigated(p) ==
  /\ pageAt[p].open /\ CommandCleared(p)
  /\ \/ /\ \E o \in Origins :
             /\ pageAt' = [pageAt EXCEPT ![p].origin = o]
             /\ IF ~staged[OwnerOf(p)].held THEN KeepLogin /\ UNCHANGED sequence
                ELSE /\ sequence < MaxNavigations /\ sequence' = sequence + 1
                     /\ LET seen == [committed |-> TRUE, destination |-> o, revision |-> sequence + 1]
                        IN IF OwnerOf(p) = p
                           THEN staged' = [staged EXCEPT ![p].evidence = seen] /\ UNCHANGED popup
                           ELSE popup' = [popup EXCEPT ![p].evidence = seen] /\ UNCHANGED staged
                     /\ UNCHANGED <<flow, offer>>
     \/ /\ pageAt' = [pageAt EXCEPT ![p].origin = NoOrigin] /\ UNCHANGED sequence
        /\ IF staged[OwnerOf(p)].held THEN LoginCleared(OwnerOf(p)) ELSE KeepLogin
  /\ UNCHANGED <<reservation, campusWindow>>

\* confirmPageState: take() hands the only copy to the offer.
Confirms(p, sameDocument) ==
  LET owner == OwnerOf(p)
      evidence == IF p = owner THEN staged[p].evidence ELSE popup[p].evidence
      fl == flow[owner]
      matches == evidence.committed /\ evidence.destination = pageAt[p].origin
      admitted == IF sameDocument
                  THEN \/ p = owner /\ ~evidence.committed /\ staged[owner].origin = pageAt[p].origin
                       \/ matches /\ fl.challenge
                  ELSE matches
      waits == \/ p = owner /\ (fl.reservations > 0 \/ fl.popups # {})
               \/ p # owner /\ ~fl.challenge
               \/ /\ fl.challenge /\ fl.challengeTab # p /\ ~sameDocument
                  /\ evidence.revision <= fl.challengeRevision
  IN [admitted |-> admitted, resolved |-> ~waits, revision |-> evidence.revision]

PageState(p, login, challenge, sameDocument) ==
  LET owner == OwnerOf(p) o == staged[owner].origin c == Confirms(p, sameDocument) IN
  /\ pageAt[p].open /\ pageAt[p].origin # NoOrigin /\ staged[owner].held /\ c.admitted
  /\ \/ login /\ LoginCleared(owner)
     \/ /\ ~login /\ challenge
        /\ flow' = [flow EXCEPT ![owner].challenge = TRUE, ![owner].challengeTab = p, ![owner].open = TRUE,
                                ![owner].challengeRevision = IF c.revision > 0 THEN c.revision ELSE sequence]
        /\ UNCHANGED <<staged, popup, offer>>
     \/ /\ ~login /\ ~challenge /\ c.resolved
        /\ staged' = [staged EXCEPT ![owner] = NotStaged]
        /\ flow' = [flow EXCEPT ![owner] = NoFlow]
        /\ popup' = [q \in Popups |-> IF popup[q].owner = owner THEN [owner |-> NoPage, evidence |-> NoEvidence]
                                      ELSE popup[q]]
        /\ offer' = IF offer[o].active \/ ~campusWindow THEN offer
                    ELSE [offer EXCEPT ![o] = [at |-> "reading", tab |-> owner, active |-> TRUE, held |-> TRUE]]
        /\ offer[o].at # "none" => offer[o].active  \* bound: one offer per origin is still awaited
  /\ UNCHANGED <<pageAt, reservation, command, sequence, campusWindow>>

\* offerCurrent
OfferCurrent(o) == offer[o].active /\ campusWindow /\ (offer[o].tab \in Tabs => pageAt[offer[o].tab].open)

\* The vault answers, the user answers, the vault has saved; each time the offer
\* ends unless it is still current.
OfferStep(o) ==
  /\ offer[o].at # "none"
  /\ \/ /\ offer[o].at = "reading" /\ OfferCurrent(o)
        /\ offer' = [offer EXCEPT ![o].at = "asking"]
     \/ /\ offer[o].at = "asking" /\ OfferCurrent(o)
        /\ offer' = [offer EXCEPT ![o].at = "saving", ![o].held = FALSE]
     \/ /\ offer[o].at = "saving"
        /\ offer' = [offer EXCEPT ![o] = NoOffer]
     \/ offer' = [offer EXCEPT ![o] = NoOffer]
  /\ UNCHANGED <<pageAt, staged, flow, popup, reservation, command, sequence, campusWindow>>

-----------------------------------------------------------------------------
(* Authentication popups.                                                   *)

\* windowOpenResponse: a login that is under way reserves a native child.
ReservePopup(p) ==
  /\ pageAt[p].open /\ campusWindow /\ reservation = NoPage /\ staged[OwnerOf(p)].held
  /\ reservation' = OwnerOf(p)
  /\ flow' = [flow EXCEPT ![OwnerOf(p)].open = TRUE, ![OwnerOf(p)].reservations = 1]
  /\ UNCHANGED <<pageAt, staged, popup, offer, command, sequence, campusWindow>>

\* createManagedCredentialPopup: linked when its login is still under way,
\* otherwise the reservation is released and the window closed again.
CreatePopup(q) ==
  /\ reservation # NoPage /\ reservation' = NoPage /\ ~pageAt[q].open
  /\ LET owner == reservation
         released == [flow EXCEPT ![owner].reservations = 0]
     IN \/ /\ staged[owner].held /\ campusWindow
           /\ pageAt' = [pageAt EXCEPT ![q] = [open |-> TRUE, origin |-> NoOrigin]]
           /\ popup' = [popup EXCEPT ![q] = [owner |-> owner, evidence |-> NoEvidence]]
           /\ flow' = [released EXCEPT ![owner].popups = @ \cup {q}, ![owner].open = TRUE]
        \/ flow' = released /\ UNCHANGED <<pageAt, popup>>
  /\ UNCHANGED <<staged, offer, command, sequence, campusWindow>>

\* closeTab() of a popup leaves its owner's login alone; of any other page it
\* clears what the page holds.
Left(p) ==
  IF OwnerOf(p) = p THEN LoginCleared(p)
  ELSE /\ flow' = [flow EXCEPT ![popup[p].owner].popups = @ \ {p},
                               ![popup[p].owner].challengeTab = IF @ = p THEN NoPage ELSE @]
       /\ popup' = [popup EXCEPT ![p] = [owner |-> NoPage, evidence |-> NoEvidence]]
       /\ UNCHANGED <<staged, offer>>
PageCloses(p) ==
  /\ pageAt[p].open /\ Left(p) /\ CommandCleared(p)
  /\ pageAt' = [pageAt EXCEPT ![p] = [open |-> FALSE, origin |-> NoOrigin]]
  /\ UNCHANGED <<reservation, sequence, campusWindow>>

\* render-process-gone of a popup: its login is cleared, then it closes.
PopupCrashes(q) ==
  /\ pageAt[q].open
  /\ LoginCleared(OwnerOf(q))
  /\ pageAt' = [pageAt EXCEPT ![q] = [open |-> FALSE, origin |-> NoOrigin]]
  /\ UNCHANGED <<reservation, command, sequence, campusWindow>>

\* The teardown of the Browser: reset() of both owners, closeAll() of the popups.
TearDown ==
  /\ campusWindow /\ campusWindow' = FALSE
  /\ pageAt' = [p \in Pages |-> [open |-> FALSE, origin |-> NoOrigin]]
  /\ staged' = [p \in Pages |-> NotStaged] /\ flow' = [p \in Pages |-> NoFlow]
  /\ popup' = [p \in Popups |-> [owner |-> NoPage, evidence |-> NoEvidence]]
  /\ offer' = RetiredOffers(Pages)
  /\ command' = [command EXCEPT !.active = FALSE, !.held = FALSE]
  /\ UNCHANGED <<reservation, sequence>>

-----------------------------------------------------------------------------
(* The user's commands, and the shared login of the school portal.          *)

\* manage(), fillShared(): one flight per tab and kind.
CommandStarts(p) ==
  /\ p \in Tabs /\ pageAt[p].open /\ campusWindow /\ pageAt[p].origin # NoOrigin /\ command.at = "none"
  /\ command' = [at |-> "reading", tab |-> p, origin |-> pageAt[p].origin,
                 active |-> TRUE, held |-> FALSE]
  /\ UNCHANGED <<pageAt, staged, flow, popup, reservation, offer, sequence, campusWindow>>

CommandCurrent == command.active /\ campusWindow /\ pageAt[command.tab].origin = command.origin

\* runManage and runFill after each await: fill, delete, or nothing.
CommandStep ==
  /\ command.at # "none"
  /\ \/ /\ command.at = "reading" /\ CommandCurrent
        /\ command' = [command EXCEPT !.at = "asking", !.held = TRUE]
     \/ /\ command.at = "asking" /\ command.held /\ CommandCurrent
        /\ command' = NoCommand
     \/ command' = NoCommand
  /\ UNCHANGED <<pageAt, staged, flow, popup, reservation, offer, sequence, campusWindow>>

CredentialNext ==
  \/ \E p \in Pages : Stage(p) \/ CandidateExpires(p) \/ Navigated(p) \/ ReservePopup(p) \/ PageCloses(p)
  \/ \E p \in Pages, login, challenge, same \in BOOLEAN : PageState(p, login, challenge, same)
  \/ \E o \in Origins : OfferStep(o)
  \/ \E q \in Popups : CreatePopup(q) \/ PopupCrashes(q)
  \/ TearDown
  \/ \E p \in Tabs : CommandStarts(p)
  \/ CommandStep

CredentialSpec == CredentialInit /\ [][CredentialNext]_credentialVars

-----------------------------------------------------------------------------
(* A password the user typed is held in one place, and only while its page  *)
(* is open in a Browser that is open: closing the page, the popup or the    *)
(* window, and every await that outlives them, leaves none behind.          *)
SecretHasOwner ==
  /\ \A p \in Pages : staged[p].held => pageAt[p].open /\ campusWindow
  /\ \A o \in Origins : offer[o].held =>
       campusWindow /\ offer[o].active /\ (offer[o].tab \in Tabs => pageAt[offer[o].tab].open)
  /\ command.held => campusWindow /\ pageAt[command.tab].open /\ pageAt[command.tab].origin = command.origin

(* The popups a login waits for are exactly the open windows it opened, so  *)
(* a second factor under way always holds the offer back, and one that is   *)
(* over never does.                                                         *)
FlowMatchesPopups ==
  \A p \in Pages :
    /\ flow[p].popups = {q \in Popups : popup[q].owner = p}
    /\ \A q \in flow[p].popups : pageAt[q].open /\ staged[p].held
    /\ flow[p].reservations > 0 => reservation = p

LoginSafety == CredentialTypeOK /\ SecretHasOwner /\ FlowMatchesPopups
=============================================================================
