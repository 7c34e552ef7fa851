---------------------------- MODULE CampusBrowser_proofs ----------------------------
(* The safety of the Campus Browser's services, each for any number of the    *)
(* things it deals with: the website logins, the window with its openings     *)
(* and closes, its tabs, the downloads, the portal data and the trusted       *)
(* certificates.  They share no state, so each has its invariant and its      *)
(* theorem, one after the other.                                              *)
EXTENDS CampusCredentials, BrowserWindow, BrowserTabs, BrowserDownloads, PortalData,
        CertificateTrust, SequenceTheorems, WellFoundedInduction, TLAPS

-----------------------------------------------------------------------------
(* Website logins.  A login is a page, the popups it opened and the flow that *)
(* counts them; it ends in one step, which forgets all three.                 *)

-----------------------------------------------------------------------------
(* The invariant *)

SecretOfOpenPage == \A p \in Pages : staged[p].held => pageAt[p].open /\ campusWindow

\* A popup of a login holds no password of its own.
OwnedHoldNone == \A q \in Popups : popup[q].owner # NoPage => ~staged[q].held

OfferOfOpenTab(o) ==
  offer[o].held =>
    /\ campusWindow /\ offer[o].active /\ offer[o].tab \in Pages
    /\ offer[o].tab \in Tabs => pageAt[offer[o].tab].open
OffersOfOpenTabs == \A o \in Origins : OfferOfOpenTab(o)

\* A command ends with the tab it was given in.
CommandOfTab ==
  /\ command.active => command.tab \in Tabs /\ pageAt[command.tab].open /\ campusWindow
  /\ command.held => command.active /\ pageAt[command.tab].origin = command.origin

Logins == SecretOfOpenPage /\ OwnedHoldNone /\ FlowMatchesPopups

IInv == Logins /\ OffersOfOpenTabs /\ CommandOfTab

-----------------------------------------------------------------------------
(* Types *)

PageRecords == [open : BOOLEAN, origin : Origins \cup {NoOrigin}]
Candidates == [held : BOOLEAN, origin : Origins \cup {NoOrigin}, evidence : Evidence]
Flows == [open : BOOLEAN, reservations : 0..1, popups : SUBSET Popups, challenge : BOOLEAN,
          challengeRevision : Revisions, challengeTab : Pages \cup {NoPage}]
PopupRecords == [owner : Pages \cup {NoPage}, evidence : Evidence]
Offers == [at : {"none", "reading", "asking", "saving"}, tab : Pages \cup {NoPage},
           active : BOOLEAN, held : BOOLEAN]
CommandRecords == [at : {"none", "reading", "asking"}, tab : Pages \cup {NoPage},
                   origin : Origins \cup {NoOrigin}, active : BOOLEAN, held : BOOLEAN]

LoginTypes ==
  /\ staged \in [Pages -> Candidates] /\ flow \in [Pages -> Flows]
  /\ popup \in [Popups -> PopupRecords] /\ offer \in [Origins -> Offers]
RestTypes ==
  /\ pageAt \in [Pages -> PageRecords] /\ reservation \in Pages \cup {NoPage}
  /\ command \in CommandRecords /\ sequence \in Revisions /\ campusWindow \in BOOLEAN

LEMMA TypesAre == CredentialTypeOK <=> LoginTypes /\ RestTypes
BY DEF CredentialTypeOK, LoginTypes, RestTypes, PageRecords, Candidates, Flows, PopupRecords,
   Offers, CommandRecords

LEMMA TypesWillBe == CredentialTypeOK' <=> LoginTypes' /\ RestTypes'
BY TypesAre, PTL

LEMMA NothingHeld ==
  /\ 0 \in Revisions /\ NoEvidence \in Evidence /\ NotStaged \in Candidates /\ ~NotStaged.held
  /\ NoFlow \in Flows /\ NoFlow.reservations = 0 /\ NoFlow.popups = {}
  /\ [NoFlow EXCEPT !.open = TRUE] \in Flows
  /\ [NoFlow EXCEPT !.open = TRUE].reservations = 0
  /\ [NoFlow EXCEPT !.open = TRUE].popups = {}
  /\ [owner |-> NoPage, evidence |-> NoEvidence] \in PopupRecords
  /\ NoOffer \in Offers /\ ~NoOffer.held
  /\ NoCommand \in CommandRecords /\ ~NoCommand.held /\ ~NoCommand.active
<1>1. MaxNavigations \in Nat
  BY CredentialAssumption DEF CredentialAssumption
<1>2. 0 \in Revisions
  BY <1>1 DEF Revisions
<1>3. NoEvidence \in Evidence
  BY <1>2 DEF NoEvidence, Evidence
<1>4. NotStaged \in Candidates /\ ~NotStaged.held
  BY <1>3 DEF NotStaged, Candidates
<1>5. /\ NoFlow \in Flows /\ NoFlow.reservations = 0 /\ NoFlow.popups = {}
      /\ [NoFlow EXCEPT !.open = TRUE] \in Flows
      /\ [NoFlow EXCEPT !.open = TRUE].reservations = 0
      /\ [NoFlow EXCEPT !.open = TRUE].popups = {}
  <2>1. NoFlow \in Flows
    BY <1>2 DEF NoFlow, Flows
  <2>2. NoFlow.reservations = 0 /\ NoFlow.popups = {}
    BY DEF NoFlow
  <2>3. [NoFlow EXCEPT !.open = TRUE] \in Flows
    BY <2>1 DEF Flows
  <2>4. /\ [NoFlow EXCEPT !.open = TRUE].reservations = NoFlow.reservations
        /\ [NoFlow EXCEPT !.open = TRUE].popups = NoFlow.popups
    BY <2>1 DEF Flows
  <2>. QED  BY <2>1, <2>2, <2>3, <2>4
<1>6. [owner |-> NoPage, evidence |-> NoEvidence] \in PopupRecords
  BY <1>3 DEF PopupRecords
<1>7. NoOffer \in Offers /\ ~NoOffer.held
  BY DEF NoOffer, Offers
<1>8. NoCommand \in CommandRecords /\ ~NoCommand.held /\ ~NoCommand.active
  BY DEF NoCommand, CommandRecords
<1>. QED  BY <1>2, <1>3, <1>4, <1>5, <1>6, <1>7, <1>8

LEMMA PagesAre ==
  /\ Tabs \cap Popups = {} /\ NoPage \notin Pages /\ Popups \subseteq Pages /\ Tabs \subseteq Pages
  /\ MaxNavigations \in Nat
BY CredentialAssumption DEF CredentialAssumption, Pages

Inv == LoginTypes /\ RestTypes /\ IInv

-----------------------------------------------------------------------------
(* Logins *)

\* Who is not a popup of a login is its own owner, and so is an owner.
LEMMA OwnersAre ==
  ASSUME Inv, NEW p \in Pages
  PROVE  /\ OwnerOf(p) \in Pages
         /\ OwnerOf(p) # p => p \in Popups /\ popup[p].owner = OwnerOf(p) /\ p \in flow[OwnerOf(p)].popups
         /\ OwnerOf(p) = p => \A r \in Pages : p \notin flow[r].popups
         /\ p \in Popups /\ popup[p].owner # NoPage =>
              staged[popup[p].owner].held /\ pageAt[p].open /\ OwnerOf(p) # p
         /\ staged[p].held => OwnerOf(p) = p
<1>1. /\ FlowMatchesPopups /\ OwnedHoldNone
      /\ popup \in [Popups -> PopupRecords] /\ flow \in [Pages -> Flows]
  BY DEF Inv, IInv, Logins, LoginTypes
<1>2. \A r \in Pages : flow[r].popups = {q \in Popups : popup[q].owner = r}
  BY <1>1 DEF FlowMatchesPopups
<1>3. \A r \in Pages : \A q \in flow[r].popups : pageAt[q].open /\ staged[r].held
  BY <1>1 DEF FlowMatchesPopups
<1>4. \A q \in Popups : popup[q].owner \in Pages \cup {NoPage}
  BY <1>1 DEF PopupRecords
<1>5. \A q \in Popups : popup[q].owner # NoPage => ~staged[q].held
  BY <1>1 DEF OwnedHoldNone
<1>6. ASSUME p \in Popups, popup[p].owner # NoPage
      PROVE  /\ popup[p].owner \in Pages /\ p \in flow[popup[p].owner].popups
             /\ staged[popup[p].owner].held /\ pageAt[p].open /\ ~staged[p].held
             /\ popup[p].owner # p
  BY <1>2, <1>3, <1>4, <1>5, <1>6
<1>7. CASE p \in Popups /\ popup[p].owner # NoPage
  BY <1>6, <1>7, <1>2 DEF OwnerOf
<1>8. CASE ~(p \in Popups /\ popup[p].owner # NoPage)
  BY <1>2, <1>8, PagesAre DEF OwnerOf
<1>. QED  BY <1>7, <1>8

\* The login of o is over: its password, its popups and its flow are forgotten.
Forgotten(o) ==
  /\ \A p \in Pages : p # o => staged'[p].held = staged[p].held /\ flow'[p] = flow[p]
  /\ ~staged'[o].held /\ flow'[o].reservations = 0 /\ flow'[o].popups = {}
  /\ \A q \in Popups : popup'[q].owner = IF popup[q].owner = o THEN NoPage ELSE popup[q].owner

OffersRetired(o) ==
  \A x \in Origins :
    /\ offer'[x].tab = offer[x].tab
    /\ offer'[x].held => offer[x].held /\ offer'[x].active = offer[x].active /\ offer[x].tab # o

LEMMA RetiredOffersAre ==
  ASSUME LoginTypes, NEW from, offer' = RetiredOffers(from)
  PROVE  /\ offer' \in [Origins -> Offers]
         /\ \A o \in from : OffersRetired(o)
         /\ \A x \in Origins : offer[x].tab \in from => ~offer'[x].held
BY DEF LoginTypes, RetiredOffers, Offers, OffersRetired

LEMMA PopupsForgotten ==
  ASSUME LoginTypes, NEW o \in Pages,
         popup' = [q \in Popups |-> IF popup[q].owner = o THEN [owner |-> NoPage, evidence |-> NoEvidence]
                                    ELSE popup[q]]
  PROVE  /\ popup' \in [Popups -> PopupRecords]
         /\ \A q \in Popups : popup'[q].owner = IF popup[q].owner = o THEN NoPage ELSE popup[q].owner
BY NothingHeld DEF LoginTypes

LEMMA LoginForgotten ==
  ASSUME LoginTypes, NEW o \in Pages,
         staged' = [staged EXCEPT ![o] = NotStaged], flow' = [flow EXCEPT ![o] = NoFlow],
         popup' = [q \in Popups |-> IF popup[q].owner = o THEN [owner |-> NoPage, evidence |-> NoEvidence]
                                    ELSE popup[q]]
  PROVE  /\ staged' \in [Pages -> Candidates] /\ flow' \in [Pages -> Flows]
         /\ popup' \in [Popups -> PopupRecords]
         /\ Forgotten(o)
<1>1. /\ staged' \in [Pages -> Candidates] /\ ~staged'[o].held
      /\ \A p \in Pages : p # o => staged'[p] = staged[p]
  BY NothingHeld DEF LoginTypes
<1>2. /\ flow' \in [Pages -> Flows] /\ flow'[o].reservations = 0 /\ flow'[o].popups = {}
      /\ \A p \in Pages : p # o => flow'[p] = flow[p]
  BY NothingHeld DEF LoginTypes
<1>. QED  BY <1>1, <1>2, PopupsForgotten DEF Forgotten

LEMMA LoginClearedIs ==
  ASSUME LoginTypes, NEW o \in Pages, LoginCleared(o)
  PROVE  LoginTypes' /\ Forgotten(o) /\ OffersRetired(o)
<1>1. offer' \in [Origins -> Offers] /\ OffersRetired(o)
  BY RetiredOffersAre DEF LoginCleared
<1>. QED  BY <1>1, LoginForgotten DEF LoginTypes, LoginCleared

\* With a login its own page or its popups may close.
LEMMA ForgottenKeeps ==
  ASSUME Inv, NEW o \in Pages, OwnerOf(o) = o, Forgotten(o), LoginTypes',
         reservation' = reservation, campusWindow' = campusWindow,
         \A p \in Pages : pageAt[p].open => pageAt'[p].open \/ OwnerOf(p) = o
  PROVE  Logins'
<1>1. /\ FlowMatchesPopups /\ SecretOfOpenPage /\ OwnedHoldNone
      /\ popup \in [Popups -> PopupRecords] /\ flow \in [Pages -> Flows]
      /\ Popups \subseteq Pages /\ NoPage \notin Pages
  BY PagesAre DEF Inv, IInv, Logins, LoginTypes
<1>2. ASSUME NEW p \in Pages, p # o
      PROVE  /\ flow'[p].popups = flow[p].popups /\ flow'[p].reservations = flow[p].reservations
             /\ staged'[p].held = staged[p].held
  BY <1>2 DEF Forgotten
<1>3. SecretOfOpenPage'
  <2>1. ASSUME NEW p \in Pages, staged'[p].held
        PROVE  pageAt'[p].open /\ campusWindow'
    <3>1. p # o /\ staged[p].held
      BY <2>1 DEF Forgotten
    <3>2. OwnerOf(p) = p
      BY <3>1, OwnersAre
    <3>. QED  BY <1>1, <3>1, <3>2 DEF SecretOfOpenPage
  <2>. QED  BY <2>1 DEF SecretOfOpenPage
<1>4. OwnedHoldNone'
  BY <1>1 DEF OwnedHoldNone, Forgotten
<1>5. ASSUME NEW p \in Pages
      PROVE  /\ flow'[p].popups = {q \in Popups : popup'[q].owner = p}
             /\ \A q \in flow'[p].popups : pageAt'[q].open /\ staged'[p].held
             /\ flow'[p].reservations > 0 => reservation' = p
  <2>1. CASE p = o
    BY <1>1, <2>1 DEF Forgotten
  <2>2. CASE p # o
    <3>1. flow'[p].popups = {q \in Popups : popup'[q].owner = p}
      BY <1>1, <1>2, <2>2 DEF FlowMatchesPopups, Forgotten
    <3>2. ASSUME NEW q \in flow[p].popups
          PROVE  pageAt'[q].open /\ staged'[p].held
      <4>1. q \in Popups /\ q \in Pages /\ popup[q].owner = p /\ pageAt[q].open /\ staged[p].held
        BY <1>1 DEF FlowMatchesPopups
      <4>2. OwnerOf(q) = p
        BY <1>1, <4>1 DEF OwnerOf
      <4>. QED  BY <1>2, <2>2, <4>1, <4>2
    <3>3. flow'[p].reservations > 0 => reservation' = p
      BY <1>1, <1>2, <2>2 DEF FlowMatchesPopups
    <3>. QED  BY <1>2, <2>2, <3>1, <3>2, <3>3
  <2>. QED  BY <2>1, <2>2
<1>6. FlowMatchesPopups'
  BY <1>5 DEF FlowMatchesPopups
<1>. QED  BY <1>3, <1>4, <1>6 DEF Logins

\* Logins as they were, in pages and a window that stay open.
LEMMA LoginsSame ==
  ASSUME Inv, reservation' = reservation, campusWindow' = campusWindow,
         \A p \in Pages : pageAt[p].open => pageAt'[p].open,
         \A p \in Pages : staged'[p].held = staged[p].held,
         \A p \in Pages : flow'[p].popups = flow[p].popups /\ flow'[p].reservations = flow[p].reservations,
         \A q \in Popups : popup'[q].owner = popup[q].owner
  PROVE  Logins'
<1>1. Popups \subseteq Pages
  BY PagesAre
<1>2. SecretOfOpenPage' /\ OwnedHoldNone'
  BY <1>1 DEF Inv, IInv, Logins, SecretOfOpenPage, OwnedHoldNone
<1>3. ASSUME NEW p \in Pages
      PROVE  /\ flow'[p].popups = {q \in Popups : popup'[q].owner = p}
             /\ \A q \in flow'[p].popups : pageAt'[q].open /\ staged'[p].held
             /\ flow'[p].reservations > 0 => reservation' = p
  <2>1. /\ flow[p].popups = {q \in Popups : popup[q].owner = p}
        /\ \A q \in flow[p].popups : pageAt[q].open /\ staged[p].held
        /\ flow[p].reservations > 0 => reservation = p
    BY DEF Inv, IInv, Logins, FlowMatchesPopups
  <2>. QED  BY <1>1, <2>1
<1>. QED  BY <1>2, <1>3 DEF Logins, FlowMatchesPopups

-----------------------------------------------------------------------------
(* Offers and commands *)

LEMMA OffersSame ==
  ASSUME Inv, campusWindow' = campusWindow,
         \A p \in Tabs : pageAt[p].open => pageAt'[p].open,
         \A x \in Origins : /\ offer'[x].tab = offer[x].tab
                            /\ offer'[x].held => offer[x].held /\ offer'[x].active = offer[x].active
  PROVE  OffersOfOpenTabs'
BY DEF Inv, IInv, OffersOfOpenTabs, OfferOfOpenTab

LEMMA OffersAfter ==
  ASSUME Inv, campusWindow' = campusWindow, NEW o \in Pages, OffersRetired(o),
         \A p \in Tabs : pageAt[p].open => pageAt'[p].open \/ p = o
  PROVE  OffersOfOpenTabs'
BY DEF Inv, IInv, OffersOfOpenTabs, OfferOfOpenTab, OffersRetired

LEMMA CommandSame ==
  ASSUME Inv, command' = command, campusWindow' = campusWindow,
         \A p \in Tabs : pageAt'[p] = pageAt[p]
  PROVE  CommandOfTab'
BY DEF Inv, IInv, CommandOfTab

LEMMA CommandAfter ==
  ASSUME Inv, NEW p \in Pages, CommandCleared(p), campusWindow' = campusWindow,
         \A q \in Pages : q # p => pageAt'[q] = pageAt[q]
  PROVE  command' \in CommandRecords /\ CommandOfTab'
<1>1. command \in CommandRecords /\ CommandOfTab /\ Tabs \subseteq Pages
  BY PagesAre DEF Inv, RestTypes, IInv
<1>2. CASE command.tab = p
  <2>1. command' \in CommandRecords /\ ~command'.active /\ ~command'.held
    BY <1>1, <1>2 DEF CommandCleared, CommandRecords
  <2>. QED  BY <2>1 DEF CommandOfTab
<1>3. CASE command.tab # p
  BY <1>1, <1>3 DEF CommandCleared, CommandOfTab
<1>. QED  BY <1>2, <1>3

LEMMA InvariantIs == Inv <=> LoginTypes /\ RestTypes /\ Logins /\ OffersOfOpenTabs /\ CommandOfTab
BY DEF Inv, IInv

LEMMA InvariantWillBe ==
  Inv' <=> LoginTypes' /\ RestTypes' /\ Logins' /\ OffersOfOpenTabs' /\ CommandOfTab'
BY InvariantIs, PTL

-----------------------------------------------------------------------------
(* The steps *)

LEMMA StageKeeps ==
  ASSUME Inv, NEW p \in Pages, Stage(p)
  PROVE  Inv'
<1>. DEFINE o == OwnerOf(p)
            submitted == [held |-> TRUE, origin |-> pageAt[p].origin, evidence |-> NoEvidence]
<1>1. /\ campusWindow /\ pageAt[p].open
      /\ staged' = [staged EXCEPT ![o] = NotStaged, ![p] = submitted]
      /\ flow' = [flow EXCEPT ![o] = NoFlow, ![p] = [NoFlow EXCEPT !.open = TRUE]]
      /\ popup' = [q \in Popups |-> IF popup[q].owner = o THEN [owner |-> NoPage, evidence |-> NoEvidence]
                                    ELSE popup[q]]
      /\ offer' = RetiredOffers({o})
      /\ UNCHANGED <<pageAt, reservation, command, sequence, campusWindow>>
  BY DEF Stage
<1>2. LoginTypes /\ RestTypes /\ Logins /\ Popups \subseteq Pages /\ NoPage \notin Pages
  BY PagesAre DEF Inv, IInv
<1>3. /\ o \in Pages
      /\ o # p => p \in Popups /\ popup[p].owner = o /\ p \in flow[o].popups
      /\ o = p => \A r \in Pages : p \notin flow[r].popups
      /\ p \in Popups /\ popup[p].owner # NoPage => o # p
      /\ staged[p].held => o = p
  BY OwnersAre
<1>. HIDE DEF o
<1>4. submitted \in Candidates /\ submitted.held
  BY <1>2, NothingHeld DEF RestTypes, PageRecords, Candidates
<1>. HIDE DEF submitted
<1>5. /\ staged' \in [Pages -> Candidates] /\ staged'[p].held /\ (o # p => ~staged'[o].held)
      /\ \A r \in Pages : r # o /\ r # p => staged'[r] = staged[r]
  BY <1>1, <1>2, <1>3, <1>4, NothingHeld DEF LoginTypes
<1>6. /\ flow' \in [Pages -> Flows]
      /\ flow'[p].popups = {} /\ flow'[p].reservations = 0
      /\ flow'[o].popups = {} /\ flow'[o].reservations = 0
      /\ \A r \in Pages : r # o /\ r # p => flow'[r] = flow[r]
  BY <1>1, <1>2, <1>3, NothingHeld DEF LoginTypes
<1>7. /\ popup' \in [Popups -> PopupRecords]
      /\ \A q \in Popups : popup'[q].owner = IF popup[q].owner = o THEN NoPage ELSE popup[q].owner
  BY <1>1, <1>2, <1>3, PopupsForgotten
<1>8. offer' \in [Origins -> Offers] /\ OffersRetired(o)
  BY <1>1, <1>2, RetiredOffersAre
<1>9. LoginTypes' /\ RestTypes'
  BY <1>1, <1>2, <1>5, <1>6, <1>7, <1>8 DEF LoginTypes, RestTypes
<1>10. SecretOfOpenPage' /\ OwnedHoldNone'
  BY <1>1, <1>2, <1>3, <1>5, <1>7 DEF Logins, SecretOfOpenPage, OwnedHoldNone
<1>11. ASSUME NEW r \in Pages
       PROVE  /\ flow'[r].popups = {q \in Popups : popup'[q].owner = r}
              /\ \A q \in flow'[r].popups : pageAt'[q].open /\ staged'[r].held
              /\ flow'[r].reservations > 0 => reservation' = r
  <2>1. /\ flow[r].popups = {q \in Popups : popup[q].owner = r}
        /\ \A q \in flow[r].popups : pageAt[q].open /\ staged[r].held
        /\ flow[r].reservations > 0 => reservation = r
    BY <1>2 DEF Logins, FlowMatchesPopups
  <2>2. CASE r = o
    BY <1>2, <1>6, <1>7, <2>2
  <2>3. CASE r = p /\ r # o
    BY <1>2, <1>3, <1>6, <1>7, <2>1, <2>3
  <2>4. CASE r # p /\ r # o
    BY <1>1, <1>2, <1>5, <1>6, <1>7, <2>1, <2>4
  <2>. QED  BY <2>2, <2>3, <2>4
<1>12. Logins'
  BY <1>10, <1>11 DEF Logins, FlowMatchesPopups
<1>13. OffersOfOpenTabs' /\ CommandOfTab'
  BY <1>1, <1>3, <1>8, OffersAfter, CommandSame
<1>. QED  BY <1>9, <1>12, <1>13, InvariantWillBe

\* The login of a page ends; a page that closes is its own or of one of its popups.
LEMMA ClearingKeeps ==
  ASSUME Inv, NEW o \in Pages, OwnerOf(o) = o, LoginCleared(o),
         reservation' = reservation, campusWindow' = campusWindow,
         \A p \in Pages : pageAt[p].open => pageAt'[p].open \/ OwnerOf(p) = o
  PROVE  LoginTypes' /\ Logins' /\ OffersOfOpenTabs'
<1>1. LoginTypes' /\ Forgotten(o) /\ OffersRetired(o)
  BY LoginClearedIs DEF Inv
<1>2. \A p \in Tabs : OwnerOf(p) = p /\ p \in Pages
  BY PagesAre DEF OwnerOf
<1>. QED  BY <1>1, <1>2, ForgottenKeeps, OffersAfter

LEMMA CandidateExpiresKeeps ==
  ASSUME Inv, NEW p \in Pages, CandidateExpires(p)
  PROVE  Inv'
<1>1. /\ staged[p].held /\ LoginCleared(p)
      /\ UNCHANGED <<pageAt, reservation, command, sequence, campusWindow>>
  BY DEF CandidateExpires
<1>2. LoginTypes' /\ Logins' /\ OffersOfOpenTabs'
  BY <1>1, OwnersAre, ClearingKeeps
<1>3. RestTypes' /\ CommandOfTab'
  BY <1>1, CommandSame DEF Inv, RestTypes
<1>. QED  BY <1>2, <1>3, InvariantWillBe

\* The owner of a page is its own owner.
LEMMA OwnerOwnsItself ==
  ASSUME Inv, NEW p \in Pages
  PROVE  OwnerOf(p) \in Pages /\ OwnerOf(OwnerOf(p)) = OwnerOf(p)
<1>1. CASE OwnerOf(p) = p
  BY <1>1
<1>2. CASE OwnerOf(p) # p
  <2>1. p \in Popups /\ popup[p].owner = OwnerOf(p) /\ OwnerOf(p) \in Pages
    BY <1>2, OwnersAre
  <2>2. staged[OwnerOf(p)].held
    BY <2>1, OwnersAre, PagesAre
  <2>. QED  BY <2>1, <2>2, OwnersAre
<1>. QED  BY <1>1, <1>2

LEMMA NavigatedKeeps ==
  ASSUME Inv, NEW p \in Pages, Navigated(p)
  PROVE  Inv'
<1>1. /\ pageAt[p].open /\ CommandCleared(p) /\ UNCHANGED <<reservation, campusWindow>>
      /\ LoginTypes /\ RestTypes
  BY DEF Navigated, Inv
<1>2. PICK x \in Origins \cup {NoOrigin} : pageAt' = [pageAt EXCEPT ![p].origin = x]
  BY DEF Navigated
<1>3. /\ pageAt' \in [Pages -> PageRecords]
      /\ \A q \in Pages : q # p => pageAt'[q] = pageAt[q]
      /\ \A q \in Pages : pageAt[q].open => pageAt'[q].open
  BY <1>1, <1>2 DEF RestTypes, PageRecords
<1>4. command' \in CommandRecords /\ CommandOfTab'
  BY <1>1, <1>3, CommandAfter
<1>5. CASE LoginCleared(OwnerOf(p)) /\ UNCHANGED sequence
  <2>1. LoginTypes' /\ Logins' /\ OffersOfOpenTabs'
    BY <1>1, <1>3, <1>5, OwnerOwnsItself, ClearingKeeps
  <2>2. RestTypes'
    BY <1>1, <1>3, <1>4, <1>5 DEF RestTypes
  <2>. QED  BY <1>4, <2>1, <2>2, InvariantWillBe
<1>6. ASSUME LoginTypes', sequence' \in Revisions, offer' = offer, flow' = flow,
             \A q \in Pages : staged'[q].held = staged[q].held,
             \A q \in Popups : popup'[q].owner = popup[q].owner
      PROVE  Inv'
  <2>1. RestTypes'
    BY <1>1, <1>3, <1>4, <1>6 DEF RestTypes
  <2>2. Logins'
    BY <1>1, <1>3, <1>6, LoginsSame
  <2>3. OffersOfOpenTabs'
    BY <1>1, <1>3, <1>6, PagesAre, OffersSame
  <2>. QED  BY <1>4, <1>6, <2>1, <2>2, <2>3, InvariantWillBe
<1>7. CASE KeepLogin /\ UNCHANGED sequence
  BY <1>1, <1>6, <1>7 DEF KeepLogin, LoginTypes, RestTypes
<1>8. ASSUME NEW o \in Origins, sequence < MaxNavigations, sequence' = sequence + 1,
             NEW seen, seen = [committed |-> TRUE, destination |-> o, revision |-> sequence + 1],
             \/ staged' = [staged EXCEPT ![p].evidence = seen] /\ UNCHANGED popup
             \/ popup' = [popup EXCEPT ![p].evidence = seen] /\ UNCHANGED staged,
             UNCHANGED <<flow, offer>>
      PROVE  Inv'
  <2>1. sequence + 1 \in Revisions /\ sequence' \in Revisions
    BY <1>1, <1>8, PagesAre DEF RestTypes, Revisions
  <2>2. seen \in Evidence
    BY <1>8, <2>1 DEF Evidence
  <2>3. /\ staged' \in [Pages -> Candidates]
        /\ \A q \in Pages : staged'[q].held = staged[q].held
    <3>1. CASE staged' = [staged EXCEPT ![p].evidence = seen]
      <4>1. \A c \in Candidates : /\ [c EXCEPT !.evidence = seen] \in Candidates
                                  /\ [c EXCEPT !.evidence = seen].held = c.held
        BY <2>2 DEF Candidates
      <4>2. staged' = [staged EXCEPT ![p] = [staged[p] EXCEPT !.evidence = seen]]
        BY <3>1
      <4>. QED  BY <1>1, <4>1, <4>2 DEF LoginTypes
    <3>. QED  BY <1>1, <1>8, <3>1 DEF LoginTypes
  <2>4. /\ popup' \in [Popups -> PopupRecords]
        /\ \A q \in Popups : popup'[q].owner = popup[q].owner
    <3>1. CASE popup' = [popup EXCEPT ![p].evidence = seen]
      <4>1. \A c \in PopupRecords : /\ [c EXCEPT !.evidence = seen] \in PopupRecords
                                    /\ [c EXCEPT !.evidence = seen].owner = c.owner
        BY <2>2 DEF PopupRecords
      <4>2. popup' = [popup EXCEPT ![p] = [popup[p] EXCEPT !.evidence = seen]]
        BY <3>1
      <4>. QED  BY <1>1, <4>1, <4>2 DEF LoginTypes
    <3>. QED  BY <1>1, <1>8, <3>1 DEF LoginTypes
  <2>. QED  BY <1>1, <1>6, <1>8, <2>1, <2>3, <2>4 DEF LoginTypes
<1>. QED  BY <1>5, <1>7, <1>8 DEF Navigated

LEMMA ConfirmsType ==
  ASSUME Inv, NEW p \in Pages, NEW same \in BOOLEAN
  PROVE  Confirms(p, same).revision \in Revisions
<1>1. /\ staged \in [Pages -> Candidates] /\ popup \in [Popups -> PopupRecords]
      /\ \A e \in Evidence : e.revision \in Revisions
  BY DEF Inv, LoginTypes, Evidence
<1>2. \A q \in Pages : staged[q].evidence.revision \in Revisions
  BY <1>1 DEF Candidates
<1>3. \A q \in Popups : popup[q].evidence.revision \in Revisions
  BY <1>1 DEF PopupRecords
<1>4. p # OwnerOf(p) => p \in Popups
  BY OwnersAre
<1>. QED  BY <1>2, <1>3, <1>4 DEF Confirms

LEMMA PageStateKeeps ==
  ASSUME Inv, NEW p \in Pages, NEW login \in BOOLEAN, NEW challenge \in BOOLEAN, NEW same \in BOOLEAN,
         PageState(p, login, challenge, same)
  PROVE  Inv'
<1>. DEFINE o == OwnerOf(p)
            x == staged[o].origin
            c == Confirms(p, same)
<1>1. /\ staged[o].held /\ UNCHANGED <<pageAt, reservation, command, sequence, campusWindow>>
      /\ LoginTypes /\ RestTypes /\ SecretOfOpenPage
  BY DEF PageState, Inv, IInv, Logins
<1>2. o \in Pages /\ OwnerOf(o) = o /\ c.revision \in Revisions
  BY OwnerOwnsItself, ConfirmsType
<1>3. /\ RestTypes' /\ CommandOfTab'
      /\ \A q \in Pages : pageAt[q].open => pageAt'[q].open
  BY <1>1, CommandSame DEF RestTypes
<1>4. CASE LoginCleared(o)
  <2>1. LoginTypes' /\ Logins' /\ OffersOfOpenTabs'
    BY <1>1, <1>2, <1>3, <1>4, ClearingKeeps
  <2>. QED  BY <1>3, <2>1, InvariantWillBe
<1>5. CASE /\ flow' = [flow EXCEPT ![o].challenge = TRUE, ![o].challengeTab = p, ![o].open = TRUE,
                                   ![o].challengeRevision = IF c.revision > 0 THEN c.revision ELSE sequence]
           /\ UNCHANGED <<staged, popup, offer>>
  <2>. DEFINE n == IF c.revision > 0 THEN c.revision ELSE sequence
              f == [flow[o] EXCEPT !.challenge = TRUE, !.challengeTab = p, !.open = TRUE,
                                   !.challengeRevision = n]
  <2>1. n \in Revisions
    BY <1>1, <1>2 DEF RestTypes
  <2>2. flow' = [flow EXCEPT ![o] = f]
    BY <1>2, <1>5
  <2>. HIDE DEF n
  <2>3. f \in Flows /\ f.popups = flow[o].popups /\ f.reservations = flow[o].reservations
    BY <1>1, <1>2, <2>1 DEF LoginTypes, Flows
  <2>. HIDE DEF f
  <2>4. /\ flow' \in [Pages -> Flows]
        /\ \A q \in Pages : flow'[q].popups = flow[q].popups /\ flow'[q].reservations = flow[q].reservations
    BY <1>1, <1>2, <2>2, <2>3 DEF LoginTypes
  <2>5. LoginTypes' /\ Logins' /\ OffersOfOpenTabs'
    BY <1>1, <1>3, <1>5, <2>4, LoginsSame, OffersSame, PagesAre DEF LoginTypes
  <2>. QED  BY <1>3, <2>5, InvariantWillBe
<1>6. CASE /\ staged' = [staged EXCEPT ![o] = NotStaged]
           /\ flow' = [flow EXCEPT ![o] = NoFlow]
           /\ popup' = [q \in Popups |-> IF popup[q].owner = o THEN [owner |-> NoPage, evidence |-> NoEvidence]
                                         ELSE popup[q]]
           /\ offer' = IF offer[x].active \/ ~campusWindow THEN offer
                       ELSE [offer EXCEPT ![x] = [at |-> "reading", tab |-> o, active |-> TRUE, held |-> TRUE]]
  <2>. DEFINE new == [at |-> "reading", tab |-> o, active |-> TRUE, held |-> TRUE]
  <2>1. /\ staged' \in [Pages -> Candidates] /\ flow' \in [Pages -> Flows]
        /\ popup' \in [Popups -> PopupRecords] /\ Forgotten(o)
    BY <1>1, <1>2, <1>6, LoginForgotten
  <2>2. new \in Offers /\ new.tab = o /\ new.active
    BY <1>2 DEF Offers
  <2>3. offer' = offer \/ (campusWindow /\ offer' = [offer EXCEPT ![x] = new])
    BY <1>6
  <2>. HIDE DEF new
  <2>4. /\ offer' \in [Origins -> Offers]
        /\ \A y \in Origins : offer'[y] = offer[y] \/ (campusWindow /\ offer'[y] = new)
    BY <1>1, <2>2, <2>3 DEF LoginTypes
  <2>5. LoginTypes' /\ Logins'
    BY <1>1, <1>2, <1>3, <2>1, <2>4, ForgottenKeeps DEF LoginTypes
  <2>6. pageAt[o].open
    BY <1>1, <1>2 DEF SecretOfOpenPage
  <2>7. OffersOfOpenTabs'
    BY <1>1, <1>2, <2>2, <2>4, <2>6 DEF Inv, IInv, OffersOfOpenTabs, OfferOfOpenTab
  <2>. QED  BY <1>3, <2>5, <2>7, InvariantWillBe
<1>. QED  BY <1>4, <1>5, <1>6 DEF PageState

LEMMA OfferStepKeeps ==
  ASSUME Inv, NEW o \in Origins, OfferStep(o)
  PROVE  Inv'
<1>1. /\ UNCHANGED <<pageAt, staged, flow, popup, reservation, command, sequence, campusWindow>>
      /\ offer \in [Origins -> Offers]
  BY DEF OfferStep, Inv, LoginTypes
<1>2. PICK new \in Offers :
        /\ offer' = [offer EXCEPT ![o] = new]
        /\ new.held => /\ offer[o].held /\ new.tab = offer[o].tab
                        /\ new.active = offer[o].active
  <2>0. /\ [offer[o] EXCEPT !.at = "asking"] \in Offers
        /\ [offer[o] EXCEPT !.at = "saving", !.held = FALSE] \in Offers
    BY <1>1 DEF Offers
  <2>1. CASE offer' = [offer EXCEPT ![o].at = "asking"]
    <3>. DEFINE new == [offer[o] EXCEPT !.at = "asking"]
    <3>1. new.held = offer[o].held /\ new.tab = offer[o].tab /\ new.active = offer[o].active
      BY <1>1 DEF Offers
    <3>. QED  BY <2>0, <2>1, <3>1
  <2>2. CASE offer' = [offer EXCEPT ![o].at = "saving", ![o].held = FALSE]
    <3>. DEFINE new == [offer[o] EXCEPT !.at = "saving", !.held = FALSE]
    <3>1. ~new.held /\ new.tab = offer[o].tab /\ new.active = offer[o].active
      BY <1>1 DEF Offers
    <3>2. offer' = [offer EXCEPT ![o] = new]
      BY <1>1, <2>2
    <3>. QED  BY <2>0, <3>1, <3>2
  <2>3. CASE offer' = [offer EXCEPT ![o] = NoOffer]
    BY <2>3, NothingHeld
  <2>. QED  BY <2>1, <2>2, <2>3 DEF OfferStep
<1>3. LoginTypes' /\ RestTypes'
  BY <1>1, <1>2 DEF Inv, LoginTypes, RestTypes
<1>4. Logins' /\ CommandOfTab'
  BY <1>1, LoginsSame, CommandSame
<1>5. OffersOfOpenTabs'
  BY <1>1, <1>2 DEF Inv, IInv, OffersOfOpenTabs, OfferOfOpenTab
<1>. QED  BY <1>3, <1>4, <1>5, InvariantWillBe

\* What a new popup and one that closes make of the flow of their login.
Linked(c, q) == [c EXCEPT !.reservations = 0, !.popups = @ \cup {q}, !.open = TRUE]
Unlinked(c, q) == [c EXCEPT !.popups = @ \ {q}, !.challengeTab = IF @ = q THEN NoPage ELSE @]

LEMMA FlowIs ==
  ASSUME NEW c \in Flows, NEW q \in Popups
  PROVE  /\ Linked(c, q) \in Flows
         /\ Linked(c, q).popups = c.popups \cup {q} /\ Linked(c, q).reservations = 0
         /\ Unlinked(c, q) \in Flows
         /\ Unlinked(c, q).popups = c.popups \ {q} /\ Unlinked(c, q).reservations = c.reservations
<1>1. /\ c.popups \cup {q} \in SUBSET Popups /\ c.popups \ {q} \in SUBSET Popups
      /\ (IF c.challengeTab = q THEN NoPage ELSE c.challengeTab) \in Pages \cup {NoPage}
      /\ 0 \in 0..1
  BY DEF Flows
<1>2. Linked(c, q) \in Flows
  BY <1>1 DEF Linked, Flows
<1>3. Linked(c, q).popups = c.popups \cup {q} /\ Linked(c, q).reservations = 0
  BY DEF Linked, Flows
<1>4. Unlinked(c, q) \in Flows
  BY <1>1 DEF Unlinked, Flows
<1>5. /\ Unlinked(c, q).popups = c.popups \ {q} /\ Unlinked(c, q).reservations = c.reservations
  BY DEF Unlinked, Flows
<1>. QED  BY <1>2, <1>3, <1>4, <1>5

\* A popup is reserved by one login at a time.
LEMMA ReservePopupKeeps ==
  ASSUME Inv, NEW p \in Pages, ReservePopup(p)
  PROVE  Inv'
<1>. DEFINE o == OwnerOf(p)
            f == [flow[o] EXCEPT !.open = TRUE, !.reservations = 1]
<1>1. /\ reservation = NoPage /\ reservation' = o /\ staged[o].held
      /\ flow' = [flow EXCEPT ![o].open = TRUE, ![o].reservations = 1]
      /\ UNCHANGED <<pageAt, staged, popup, offer, command, sequence, campusWindow>>
      /\ LoginTypes /\ RestTypes /\ Logins /\ o \in Pages
  BY OwnersAre DEF ReservePopup, Inv, IInv
<1>2. f \in Flows /\ f.popups = flow[o].popups
  <2>1. flow[o] \in Flows /\ 1 \in 0..1 /\ OwnerOf(p) \in Pages
    BY <1>1 DEF LoginTypes
  <2>2. f.popups = flow[o].popups
    BY <2>1 DEF Flows
  <2>3. f \in Flows
    BY <2>1 DEF Flows
  <2>. QED  BY <2>2, <2>3
<1>3. flow' = [flow EXCEPT ![o] = f]
  BY <1>1
<1>. HIDE DEF f, o
<1>4. /\ flow' \in [Pages -> Flows]
      /\ \A r \in Pages : flow'[r].popups = flow[r].popups
      /\ \A r \in Pages : r # o => flow'[r] = flow[r]
  BY <1>1, <1>2, <1>3 DEF LoginTypes
<1>5. LoginTypes' /\ RestTypes'
  BY <1>1, <1>4 DEF LoginTypes, RestTypes
<1>6. ASSUME NEW r \in Pages
      PROVE  /\ flow'[r].popups = {q \in Popups : popup'[q].owner = r}
             /\ \A q \in flow'[r].popups : pageAt'[q].open /\ staged'[r].held
             /\ flow'[r].reservations > 0 => reservation' = r
  BY <1>1, <1>4, PagesAre DEF Logins, FlowMatchesPopups
<1>7. SecretOfOpenPage' /\ OwnedHoldNone'
  BY <1>1 DEF Logins, SecretOfOpenPage, OwnedHoldNone
<1>8. Logins'
  BY <1>6, <1>7 DEF Logins, FlowMatchesPopups
<1>9. OffersOfOpenTabs' /\ CommandOfTab'
  BY <1>1, OffersSame, CommandSame
<1>. QED  BY <1>5, <1>8, <1>9, InvariantWillBe

LEMMA CreatePopupKeeps ==
  ASSUME Inv, NEW q \in Popups, CreatePopup(q)
  PROVE  Inv'
<1>. DEFINE o == reservation
            released == [flow EXCEPT ![o].reservations = 0]
            linked == [owner |-> o, evidence |-> NoEvidence]
            blank == [open |-> TRUE, origin |-> NoOrigin]
<1>1. /\ o \in Pages /\ reservation' = NoPage /\ ~pageAt[q].open
      /\ UNCHANGED <<staged, offer, command, sequence, campusWindow>>
      /\ LoginTypes /\ RestTypes /\ Logins /\ q \in Pages
      /\ Popups \subseteq Pages /\ NoPage \notin Pages
  BY PagesAre DEF CreatePopup, Inv, IInv, RestTypes
<1>2. /\ popup[q].owner = NoPage /\ ~staged[q].held
  BY <1>1, OwnersAre DEF Logins, SecretOfOpenPage
<1>3. linked \in PopupRecords /\ linked.owner = o /\ blank \in PageRecords /\ blank.open
  BY <1>1, NothingHeld DEF PopupRecords, PageRecords
<1>4. \/ /\ staged[o].held /\ campusWindow
         /\ pageAt' = [pageAt EXCEPT ![q] = blank] /\ popup' = [popup EXCEPT ![q] = linked]
         /\ flow' = [released EXCEPT ![o].popups = @ \cup {q}, ![o].open = TRUE]
      \/ flow' = released /\ UNCHANGED <<pageAt, popup>>
  BY DEF CreatePopup
<1>. HIDE DEF linked, blank
<1>5. CASE flow' = released /\ UNCHANGED <<pageAt, popup>>
  <2>. DEFINE f == [flow[o] EXCEPT !.reservations = 0]
  <2>1. f \in Flows /\ f.popups = flow[o].popups /\ f.reservations = 0
    BY <1>1 DEF LoginTypes, Flows
  <2>2. flow' = [flow EXCEPT ![o] = f]
    BY <1>5
  <2>. HIDE DEF f
  <2>3. /\ flow' \in [Pages -> Flows]
        /\ \A r \in Pages : flow'[r].popups = flow[r].popups
        /\ \A r \in Pages : r # o => flow'[r] = flow[r]
        /\ flow'[o].reservations = 0
    BY <1>1, <2>1, <2>2 DEF LoginTypes
  <2>4. LoginTypes' /\ RestTypes'
    BY <1>1, <1>5, <2>3 DEF LoginTypes, RestTypes
  <2>5. ASSUME NEW r \in Pages
        PROVE  /\ flow'[r].popups = {d \in Popups : popup'[d].owner = r}
               /\ \A d \in flow'[r].popups : pageAt'[d].open /\ staged'[r].held
               /\ flow'[r].reservations > 0 => reservation' = r
    BY <1>1, <1>5, <2>3 DEF Logins, FlowMatchesPopups
  <2>6. SecretOfOpenPage' /\ OwnedHoldNone'
    BY <1>1, <1>5 DEF Logins, SecretOfOpenPage, OwnedHoldNone
  <2>7. OffersOfOpenTabs' /\ CommandOfTab'
    BY <1>1, <1>5, OffersSame, CommandSame
  <2>. QED  BY <2>4, <2>5, <2>6, <2>7, InvariantWillBe DEF Logins, FlowMatchesPopups
<1>6. CASE /\ staged[o].held /\ campusWindow
           /\ pageAt' = [pageAt EXCEPT ![q] = blank] /\ popup' = [popup EXCEPT ![q] = linked]
           /\ flow' = [released EXCEPT ![o].popups = @ \cup {q}, ![o].open = TRUE]
  <2>. DEFINE f == Linked(flow[o], q)
  <2>1. f \in Flows /\ f.popups = flow[o].popups \cup {q} /\ f.reservations = 0
    <3>1. flow[o] \in Flows
      BY <1>1 DEF LoginTypes
    <3>. QED  BY <3>1, FlowIs
  <2>2. flow' = [flow EXCEPT ![o] = f]
    BY <1>1, <1>6 DEF LoginTypes, Linked
  <2>. HIDE DEF f
  <2>3. /\ flow' \in [Pages -> Flows]
        /\ flow'[o].popups = flow[o].popups \cup {q} /\ flow'[o].reservations = 0
        /\ \A r \in Pages : r # o => flow'[r] = flow[r]
    BY <1>1, <2>1, <2>2 DEF LoginTypes
  <2>4. /\ popup' \in [Popups -> PopupRecords] /\ popup'[q].owner = o
        /\ \A d \in Popups : d # q => popup'[d] = popup[d]
    BY <1>1, <1>3, <1>6 DEF LoginTypes
  <2>5. /\ pageAt' \in [Pages -> PageRecords] /\ pageAt'[q].open
        /\ \A d \in Pages : d # q => pageAt'[d] = pageAt[d]
    BY <1>1, <1>3, <1>6 DEF RestTypes
  <2>6. LoginTypes' /\ RestTypes'
    BY <1>1, <2>3, <2>4, <2>5 DEF LoginTypes, RestTypes
  <2>7. ASSUME NEW r \in Pages
        PROVE  /\ flow'[r].popups = {d \in Popups : popup'[d].owner = r}
               /\ \A d \in flow'[r].popups : pageAt'[d].open /\ staged'[r].held
               /\ flow'[r].reservations > 0 => reservation' = r
    <3>1. /\ flow[r].popups = {d \in Popups : popup[d].owner = r}
          /\ \A d \in flow[r].popups : pageAt[d].open /\ staged[r].held
          /\ flow[r].reservations > 0 => reservation = r
      BY <1>1 DEF Logins, FlowMatchesPopups
    <3>2. CASE r = o
      <4>1. flow'[r].popups = {d \in Popups : popup'[d].owner = r}
        BY <2>3, <2>4, <3>1, <3>2
      <4>2. \A d \in flow'[r].popups : pageAt'[d].open /\ staged'[r].held
        BY <1>1, <1>6, <2>3, <2>5, <3>1, <3>2
      <4>. QED  BY <2>3, <3>2, <4>1, <4>2
    <3>3. CASE r # o
      <4>1. flow'[r].popups = {d \in Popups : popup'[d].owner = r}
        BY <1>1, <1>2, <2>3, <2>4, <3>1, <3>3
      <4>2. \A d \in flow'[r].popups : pageAt'[d].open /\ staged'[r].held
        BY <1>1, <2>3, <2>5, <3>1, <3>3
      <4>. QED  BY <1>1, <2>3, <3>1, <3>3, <4>1, <4>2
    <3>. QED  BY <3>2, <3>3
  <2>8. SecretOfOpenPage' /\ OwnedHoldNone'
    BY <1>1, <1>2, <2>4, <2>5 DEF Logins, SecretOfOpenPage, OwnedHoldNone
  <2>9. \A d \in Tabs : d # q /\ d \in Pages
    BY PagesAre
  <2>10. OffersOfOpenTabs' /\ CommandOfTab'
    BY <1>1, <2>5, <2>9, OffersSame, CommandSame
  <2>. QED  BY <2>6, <2>7, <2>8, <2>10, InvariantWillBe DEF Logins, FlowMatchesPopups
<1>. QED  BY <1>4, <1>5, <1>6

\* The page p is closed.
LEMMA ClosedIs ==
  ASSUME RestTypes, NEW p \in Pages,
         pageAt' = [pageAt EXCEPT ![p] = [open |-> FALSE, origin |-> NoOrigin]]
  PROVE  /\ pageAt' \in [Pages -> PageRecords]
         /\ \A q \in Pages : q # p => pageAt'[q] = pageAt[q]
BY DEF RestTypes, PageRecords

LEMMA PageClosesKeeps ==
  ASSUME Inv, NEW p \in Pages, PageCloses(p)
  PROVE  Inv'
<1>1. /\ pageAt[p].open /\ Left(p) /\ CommandCleared(p) /\ UNCHANGED <<reservation, sequence, campusWindow>>
      /\ LoginTypes /\ RestTypes /\ Logins /\ Popups \subseteq Pages /\ NoPage \notin Pages
  BY PagesAre DEF PageCloses, Inv, IInv
<1>2. /\ pageAt' \in [Pages -> PageRecords]
      /\ \A q \in Pages : q # p => pageAt'[q] = pageAt[q]
  BY <1>1, ClosedIs DEF PageCloses
<1>3. command' \in CommandRecords /\ CommandOfTab'
  BY <1>1, <1>2, CommandAfter
<1>4. RestTypes'
  BY <1>1, <1>2, <1>3 DEF RestTypes
<1>5. CASE OwnerOf(p) = p
  <2>1. LoginTypes' /\ Logins' /\ OffersOfOpenTabs'
    BY <1>1, <1>2, <1>5, ClearingKeeps DEF Left
  <2>. QED  BY <1>3, <1>4, <2>1, InvariantWillBe
<1>6. CASE OwnerOf(p) # p
  <2>. DEFINE o == popup[p].owner
              f == Unlinked(flow[o], p)
              none == [owner |-> NoPage, evidence |-> NoEvidence]
  <2>1. /\ flow' = [flow EXCEPT ![o].popups = @ \ {p}, ![o].challengeTab = IF @ = p THEN NoPage ELSE @]
        /\ popup' = [popup EXCEPT ![p] = none] /\ UNCHANGED <<staged, offer>>
    BY <1>1, <1>6 DEF Left
  <2>2. p \in Popups /\ o \in Pages /\ o # NoPage
    BY <1>1, <1>6, OwnersAre
  <2>3. ~staged[p].held
    BY <1>6, OwnersAre
  <2>4. f \in Flows /\ f.popups = flow[o].popups \ {p} /\ f.reservations = flow[o].reservations
    <3>1. flow[o] \in Flows
      BY <1>1, <2>2 DEF LoginTypes
    <3>. QED  BY <2>2, <3>1, FlowIs
  <2>5. flow' = [flow EXCEPT ![o] = f]
    BY <1>1, <2>1, <2>2 DEF LoginTypes, Unlinked
  <2>. HIDE DEF f
  <2>6. /\ flow' \in [Pages -> Flows]
        /\ flow'[o].popups = flow[o].popups \ {p}
        /\ \A r \in Pages : flow'[r].reservations = flow[r].reservations
        /\ \A r \in Pages : r # o => flow'[r] = flow[r]
    BY <1>1, <2>2, <2>4, <2>5 DEF LoginTypes
  <2>7. none \in PopupRecords /\ none.owner = NoPage
    BY NothingHeld
  <2>. HIDE DEF none
  <2>8. /\ popup' \in [Popups -> PopupRecords] /\ popup'[p].owner = NoPage
        /\ \A d \in Popups : d # p => popup'[d] = popup[d]
    BY <1>1, <2>1, <2>2, <2>7 DEF LoginTypes
  <2>9. LoginTypes'
    BY <1>1, <2>1, <2>6, <2>8 DEF LoginTypes
  <2>10. ASSUME NEW r \in Pages
         PROVE  /\ flow'[r].popups = {d \in Popups : popup'[d].owner = r}
                /\ \A d \in flow'[r].popups : pageAt'[d].open /\ staged'[r].held
                /\ flow'[r].reservations > 0 => reservation' = r
    <3>1. /\ flow[r].popups = {d \in Popups : popup[d].owner = r}
          /\ \A d \in flow[r].popups : pageAt[d].open /\ staged[r].held
          /\ flow[r].reservations > 0 => reservation = r
      BY <1>1 DEF Logins, FlowMatchesPopups
    <3>2. flow'[r].popups = flow[r].popups \ {p}
      BY <2>2, <2>6, <3>1
    <3>3. flow'[r].popups = {d \in Popups : popup'[d].owner = r}
      BY <1>1, <2>8, <3>1, <3>2
    <3>4. \A d \in flow'[r].popups : pageAt'[d].open /\ staged'[r].held
      BY <1>1, <1>2, <2>1, <3>1, <3>2
    <3>. QED  BY <1>1, <2>6, <3>1, <3>3, <3>4
  <2>11. SecretOfOpenPage' /\ OwnedHoldNone'
    BY <1>1, <1>2, <2>1, <2>3, <2>8 DEF Logins, SecretOfOpenPage, OwnedHoldNone
  <2>12. OffersOfOpenTabs'
    <3>1. \A d \in Tabs : d # p /\ d \in Pages
      BY <2>2, PagesAre
    <3>. QED  BY <1>1, <1>2, <2>1, <3>1, OffersSame
  <2>. QED  BY <1>3, <1>4, <2>9, <2>10, <2>11, <2>12, InvariantWillBe DEF Logins, FlowMatchesPopups
<1>. QED  BY <1>5, <1>6

LEMMA PopupCrashesKeeps ==
  ASSUME Inv, NEW q \in Popups, PopupCrashes(q)
  PROVE  Inv'
<1>1. /\ LoginCleared(OwnerOf(q)) /\ UNCHANGED <<reservation, command, sequence, campusWindow>>
      /\ RestTypes /\ q \in Pages
  BY PagesAre DEF PopupCrashes, Inv
<1>2. /\ pageAt' \in [Pages -> PageRecords]
      /\ \A p \in Pages : p # q => pageAt'[p] = pageAt[p]
  BY <1>1, ClosedIs DEF PopupCrashes
<1>3. LoginTypes' /\ Logins' /\ OffersOfOpenTabs'
  BY <1>1, <1>2, OwnerOwnsItself, ClearingKeeps
<1>4. CommandOfTab' /\ RestTypes'
  <2>1. \A p \in Tabs : p # q /\ p \in Pages
    BY PagesAre
  <2>. QED  BY <1>1, <1>2, <2>1, CommandSame DEF RestTypes
<1>. QED  BY <1>3, <1>4, InvariantWillBe

LEMMA TearDownKeeps ==
  ASSUME Inv, TearDown
  PROVE  Inv'
<1>1. /\ campusWindow' = FALSE /\ UNCHANGED <<reservation, sequence>> /\ LoginTypes /\ RestTypes
      /\ pageAt' = [p \in Pages |-> [open |-> FALSE, origin |-> NoOrigin]]
      /\ staged' = [p \in Pages |-> NotStaged] /\ flow' = [p \in Pages |-> NoFlow]
      /\ popup' = [p \in Popups |-> [owner |-> NoPage, evidence |-> NoEvidence]]
      /\ offer' = RetiredOffers(Pages)
      /\ command' = [command EXCEPT !.active = FALSE, !.held = FALSE]
  BY DEF TearDown, Inv
<1>2. /\ offer' \in [Origins -> Offers]
      /\ \A x \in Origins : offer[x].tab \in Pages => ~offer'[x].held
  BY <1>1, RetiredOffersAre
<1>3. command' \in CommandRecords /\ ~command'.active /\ ~command'.held
  BY <1>1 DEF RestTypes, CommandRecords
<1>4. pageAt' \in [Pages -> PageRecords]
  BY <1>1 DEF PageRecords
<1>5. LoginTypes' /\ RestTypes'
  BY <1>1, <1>2, <1>3, <1>4, NothingHeld DEF LoginTypes, RestTypes
<1>6. ASSUME NEW x \in Origins
      PROVE  ~offer'[x].held
  <2>1. CASE offer[x].tab \in Pages
    BY <1>2, <2>1
  <2>2. CASE offer[x].tab \notin Pages
    <3>1. offer'[x] = offer[x]
      BY <1>1, <2>2 DEF RetiredOffers
    <3>. QED  BY <2>2, <3>1 DEF Inv, IInv, OffersOfOpenTabs, OfferOfOpenTab
  <2>. QED  BY <2>1, <2>2
<1>7. Logins'
  <2>1. SecretOfOpenPage' /\ OwnedHoldNone'
    BY <1>1, PagesAre, NothingHeld DEF SecretOfOpenPage, OwnedHoldNone
  <2>2. FlowMatchesPopups'
    BY <1>1, PagesAre, NothingHeld DEF FlowMatchesPopups
  <2>. QED  BY <2>1, <2>2 DEF Logins
<1>8. OffersOfOpenTabs' /\ CommandOfTab'
  BY <1>3, <1>6 DEF OffersOfOpenTabs, OfferOfOpenTab, CommandOfTab
<1>. QED  BY <1>5, <1>7, <1>8, InvariantWillBe

LEMMA CommandStartsKeeps ==
  ASSUME Inv, NEW p \in Tabs, CommandStarts(p)
  PROVE  Inv'
<1>1. /\ pageAt[p].open /\ campusWindow /\ p \in Pages
      /\ command' = [at |-> "reading", tab |-> p, origin |-> pageAt[p].origin, active |-> TRUE, held |-> FALSE]
      /\ UNCHANGED <<pageAt, staged, flow, popup, reservation, offer, sequence, campusWindow>>
  BY PagesAre DEF CommandStarts
<1>2. command' \in CommandRecords /\ CommandOfTab'
  <2>1. pageAt[p].origin \in Origins \cup {NoOrigin}
    BY <1>1 DEF Inv, RestTypes, PageRecords
  <2>. QED  BY <1>1, <2>1 DEF CommandRecords, CommandOfTab
<1>3. LoginTypes' /\ RestTypes'
  BY <1>1, <1>2 DEF Inv, LoginTypes, RestTypes
<1>. QED  BY <1>1, <1>2, <1>3, LoginsSame, OffersSame, InvariantWillBe

LEMMA CommandStepKeeps ==
  ASSUME Inv, CommandStep
  PROVE  Inv'
<1>1. /\ UNCHANGED <<pageAt, staged, flow, popup, reservation, offer, sequence, campusWindow>>
      /\ command \in CommandRecords
      /\ \/ CommandCurrent /\ command' = [command EXCEPT !.at = "asking", !.held = TRUE]
         \/ command' = NoCommand
  BY DEF CommandStep, Inv, RestTypes
<1>2. command' \in CommandRecords /\ CommandOfTab'
  <2>1. CASE command' = NoCommand
    BY <2>1, NothingHeld DEF CommandOfTab
  <2>2. CASE CommandCurrent /\ command' = [command EXCEPT !.at = "asking", !.held = TRUE]
    <3>1. /\ command' \in CommandRecords /\ command'.active = command.active
          /\ command'.tab = command.tab /\ command'.origin = command.origin
      BY <1>1, <2>2 DEF CommandRecords
    <3>. QED  BY <1>1, <2>2, <3>1 DEF CommandCurrent, Inv, IInv, CommandOfTab
  <2>. QED  BY <1>1, <2>1, <2>2
<1>3. LoginTypes' /\ RestTypes'
  BY <1>1, <1>2 DEF Inv, LoginTypes, RestTypes
<1>. QED  BY <1>1, <1>2, <1>3, LoginsSame, OffersSame, InvariantWillBe

LEMMA InvariantKept ==
  ASSUME Inv, [CredentialNext]_credentialVars
  PROVE  Inv'
<1>1. CASE UNCHANGED credentialVars
  <2>1. LoginTypes' /\ RestTypes'
    BY <1>1 DEF Inv, LoginTypes, RestTypes, credentialVars
  <2>. QED  BY <1>1, <2>1, LoginsSame, OffersSame, CommandSame, InvariantWillBe DEF credentialVars
<1>2. CASE CredentialNext
  BY <1>2, StageKeeps, CandidateExpiresKeeps, NavigatedKeeps, ReservePopupKeeps, PageClosesKeeps,
     PageStateKeeps, OfferStepKeeps, CreatePopupKeeps, PopupCrashesKeeps, TearDownKeeps,
     CommandStartsKeeps, CommandStepKeeps DEF CredentialNext
<1>. QED  BY <1>1, <1>2

-----------------------------------------------------------------------------
(* The theorem *)

(* A password the user typed is held only while its page is open in an open   *)
(* Browser, by the candidate, the offer or the command of that page alone;    *)
(* and the popups a login waits for are exactly the windows it opened.        *)
THEOREM LoginIsSafe == CredentialSpec => []LoginSafety
<1>1. CredentialInit => Inv
  <2>1. SUFFICES ASSUME CredentialInit PROVE Inv
    OBVIOUS
  <2>2. LoginTypes /\ RestTypes
    <3>1. pageAt \in [Pages -> PageRecords]
      BY <2>1 DEF CredentialInit, PageRecords
    <3>. QED  BY <2>1, <3>1, NothingHeld DEF CredentialInit, LoginTypes, RestTypes
  <2>3. /\ \A p \in Pages : /\ ~staged[p].held
                            /\ flow[p].popups = {} /\ flow[p].reservations = 0
        /\ \A q \in Popups : popup[q].owner = NoPage
        /\ \A o \in Origins : ~offer[o].held
        /\ ~command.active /\ ~command.held
    BY <2>1, NothingHeld DEF CredentialInit
  <2>4. Logins
    BY <2>3, PagesAre DEF Logins, SecretOfOpenPage, OwnedHoldNone, FlowMatchesPopups
  <2>5. OffersOfOpenTabs /\ CommandOfTab
    BY <2>3 DEF OffersOfOpenTabs, OfferOfOpenTab, CommandOfTab
  <2>. QED  BY <2>2, <2>4, <2>5, InvariantIs
<1>2. Inv /\ [CredentialNext]_credentialVars => Inv'
  BY InvariantKept
<1>3. Inv => LoginSafety
  <2>1. SUFFICES ASSUME Inv PROVE SecretHasOwner
    BY TypesAre DEF LoginSafety, Inv, IInv, Logins
  <2>. QED
    BY <2>1 DEF Inv, IInv, Logins, SecretOfOpenPage, OffersOfOpenTabs, OfferOfOpenTab, CommandOfTab,
       SecretHasOwner
<1>. QED  BY <1>1, <1>2, <1>3, PTL DEF CredentialSpec

-----------------------------------------------------------------------------
(* The window.  What a request still waits for is compared with the Browser   *)
(* that is held now and with the window's cleanup.                            *)

-----------------------------------------------------------------------------
(* The invariant *)

Holders == [browser : Browsers \cup {NoBrowser}, disposing : Browsers \cup {NoBrowser}]
BrowserRecords == [used : BOOLEAN, contextRetired : BOOLEAN, tabs : 0..MaxTabs]
WindowRecords == [phase : Phases, alive : BOOLEAN, cleanup : {"no", "failed", "done"},
                  failure : BOOLEAN, flight : BOOLEAN, unconfirmed : BOOLEAN]
OpenRecords == [at : {"idle", "connecting", "routing", "window"}, of : Browsers \cup {NoBrowser},
                managerEpoch : BOOLEAN, ownEpoch : BOOLEAN,
                promise : {"none", "pending", "ready", "rejected"}, late : BOOLEAN]
Switches == [at : {"idle", "waiting", "true", "false"}, of : Browsers \cup {NoBrowser}]

WindowTypes ==
  /\ holder \in Holders /\ browser \in [Browsers -> BrowserRecords]
  /\ window \in [Browsers -> WindowRecords] /\ open \in [Requests -> OpenRecords]
  /\ switching \in Switches /\ opens \in 0..MaxOpens

LEMMA WindowTypesAre == WindowTypeOK <=> WindowTypes
BY DEF WindowTypeOK, WindowTypes, Holders, BrowserRecords, WindowRecords, OpenRecords, Switches

LEMMA WindowTypesWillBe == WindowTypeOK' <=> WindowTypes'
BY WindowTypesAre, PTL

\* A Browser that is kept as unconfirmed keeps its place as the Browser too.
DisposedIsHeld == holder.disposing \in {NoBrowser, holder.browser}

\* A record whose cleanup is complete is kept only because the close was not observed.
RecordOk(w) ==
  /\ w.alive => w.phase # "none" /\ ~w.unconfirmed
  /\ w.flight => w.alive
  /\ w.cleanup = "done" => w.unconfirmed
RecordsOk == \A b \in Browsers : RecordOk(window[b])

PlacesAreHeld == \A b \in Browsers : window[b].phase # "none" \/ browser[b].tabs > 0 => holder.browser = b
HeldIsUsed == \A b \in Browsers : holder.browser = b => browser[b].used
LetGoIsRetired == \A b \in Browsers : browser[b].used /\ holder.browser # b => browser[b].contextRetired

\* A request the manager has given up is given up by its open owner, or its Browser is.
OpenRequestOk(r) ==
  open[r].at \in {"routing", "window"} =>
    /\ open[r].of \in Browsers /\ browser[open[r].of].used
    /\ open[r].managerEpoch \/ ~OpenCurrent(r)
RequestsOk == \A r \in Requests : OpenRequestOk(r) /\ ~open[r].late
AllStale == \A r \in Requests : open[r].at # "idle" => ~open[r].managerEpoch

\* While the switch waits for the close, and until it has gone on, nothing begins.
SwitchWaits ==
  switching.at = "waiting" =>
    /\ switching.of \in Browsers /\ holder.browser = switching.of
    /\ window[switching.of].flight /\ browser[switching.of].contextRetired
SwitchConfirmed ==
  switching.at = "true" =>
    /\ \A b \in Browsers : window[b].phase = "none" /\ browser[b].tabs = 0
    /\ switching.of \in Browsers => browser[switching.of].contextRetired
SwitchStale == switching.at \in {"waiting", "true"} => AllStale

WindowInv == DisposedIsHeld /\ RecordsOk /\ PlacesAreHeld /\ HeldIsUsed /\ LetGoIsRetired /\ RequestsOk
             /\ SwitchWaits /\ SwitchConfirmed /\ SwitchStale
WindowGood == WindowTypes /\ WindowInv

-----------------------------------------------------------------------------
(* Requests *)

LEMMA NoRequest == IdleOpen \in OpenRecords /\ IdleOpen.at = "idle" /\ ~IdleOpen.late
BY DEF IdleOpen, OpenRecords

\* o becomes p, and each request is as far as before and no fresher.
Staler(p, o) ==
  /\ p \in [Requests -> OpenRecords]
  /\ \A r \in Requests : /\ p[r].at = o[r].at /\ p[r].of = o[r].of /\ p[r].late = o[r].late
                         /\ p[r].managerEpoch => o[r].managerEpoch
                         /\ p[r].ownEpoch => o[r].ownEpoch

LEMMA EpochMovesIs ==
  ASSUME NEW o \in [Requests -> OpenRecords]
  PROVE  /\ Staler(EpochMoves(o), o)
         /\ \A r \in Requests : o[r].at # "idle" => ~EpochMoves(o)[r].managerEpoch
<1>1. ASSUME NEW r \in Requests
      PROVE  /\ EpochMoves(o)[r] \in OpenRecords /\ EpochMoves(o)[r].at = o[r].at
             /\ EpochMoves(o)[r].of = o[r].of /\ EpochMoves(o)[r].late = o[r].late
             /\ EpochMoves(o)[r].ownEpoch = o[r].ownEpoch
             /\ EpochMoves(o)[r].managerEpoch = (o[r].managerEpoch /\ o[r].at = "idle")
  BY DEF EpochMoves, OpenRecords
<1>2. EpochMoves(o) \in [Requests -> OpenRecords]
  BY <1>1 DEF EpochMoves
<1>. QED  BY <1>1, <1>2 DEF Staler

LEMMA OpenSettledIs ==
  ASSUME NEW o \in [Requests -> OpenRecords], NEW b \in Browsers, NEW how \in {"ready", "rejected"}
  PROVE  /\ Staler(Settled(b, how, o), o)
         /\ \A r \in Requests : /\ Settled(b, how, o)[r].managerEpoch = o[r].managerEpoch
                                /\ Settled(b, how, o)[r].ownEpoch = o[r].ownEpoch
<1>1. ASSUME NEW r \in Requests
      PROVE  /\ Settled(b, how, o)[r] \in OpenRecords /\ Settled(b, how, o)[r].at = o[r].at
             /\ Settled(b, how, o)[r].of = o[r].of /\ Settled(b, how, o)[r].late = o[r].late
             /\ Settled(b, how, o)[r].ownEpoch = o[r].ownEpoch
             /\ Settled(b, how, o)[r].managerEpoch = o[r].managerEpoch
  BY DEF Settled, OpenRecords
<1>2. Settled(b, how, o) \in [Requests -> OpenRecords]
  BY <1>1 DEF Settled
<1>. QED  BY <1>1, <1>2 DEF Staler

LEMMA OpensResetIs ==
  ASSUME NEW o \in [Requests -> OpenRecords], NEW b \in Browsers, NEW failure \in BOOLEAN
  PROVE  /\ Staler(OpensReset(b, failure, o), o)
         /\ \A r \in Requests :
              /\ o[r].of = b => ~OpensReset(b, failure, o)[r].ownEpoch
              /\ holder.browser # b => OpensReset(b, failure, o)[r].managerEpoch = o[r].managerEpoch
<1>. DEFINE own == [r \in Requests |-> [o[r] EXCEPT !.ownEpoch = @ /\ o[r].of # b]]
<1>1. ASSUME NEW r \in Requests
      PROVE  /\ own[r] \in OpenRecords /\ own[r].at = o[r].at /\ own[r].of = o[r].of
             /\ own[r].late = o[r].late /\ own[r].managerEpoch = o[r].managerEpoch
             /\ own[r].ownEpoch = (o[r].ownEpoch /\ o[r].of # b)
  BY DEF OpenRecords
<1>2. own \in [Requests -> OpenRecords]
  BY <1>1
<1>3. OpensReset(b, failure, o) = IF failure \/ holder.browser # b THEN own ELSE EpochMoves(own)
  BY DEF OpensReset
<1>. HIDE DEF own
<1>4. CASE failure \/ holder.browser # b
  BY <1>1, <1>2, <1>3, <1>4 DEF Staler
<1>5. CASE ~(failure \/ holder.browser # b)
  <2>1. Staler(EpochMoves(own), own)
    BY <1>2, EpochMovesIs
  <2>. QED  BY <2>1, <1>1, <1>2, <1>3, <1>5 DEF Staler
<1>. QED  BY <1>4, <1>5

LEMMA StalerTwice ==
  ASSUME NEW o, NEW p, NEW q, Staler(p, o), Staler(q, p)
  PROVE  Staler(q, o)
BY DEF Staler

\* Browsers are used once and retired for good.
Retiring ==
  /\ browser' \in [Browsers -> BrowserRecords]
  /\ \A b \in Browsers : /\ browser[b].used => browser'[b].used
                         /\ browser[b].contextRetired => browser'[b].contextRetired

\* Requests that become stale are not current any more.
LEMMA RequestsAge ==
  ASSUME WindowTypes, RequestsOk, Retiring, Staler(open', open),
         \A r \in Requests :
           /\ open[r].at \in {"routing", "window"} /\ open[r].managerEpoch /\ ~open'[r].managerEpoch
           => ~open'[r].ownEpoch \/ browser'[open[r].of].contextRetired
  PROVE  RequestsOk' /\ (AllStale => AllStale')
<1>1. ASSUME NEW r \in Requests, open'[r].at \in {"routing", "window"}
      PROVE  /\ open'[r].of \in Browsers /\ browser'[open'[r].of].used
             /\ open'[r].managerEpoch \/ ~(open'[r].ownEpoch /\ ~browser'[open'[r].of].contextRetired)
  <2>1. /\ open'[r].at = open[r].at /\ open'[r].of = open[r].of
        /\ open'[r].managerEpoch => open[r].managerEpoch
        /\ open'[r].ownEpoch => open[r].ownEpoch
    BY DEF Staler
  <2>2. /\ open[r].of \in Browsers /\ browser[open[r].of].used
        /\ open[r].managerEpoch \/ ~(open[r].ownEpoch /\ ~browser[open[r].of].contextRetired)
    BY <1>1, <2>1 DEF RequestsOk, OpenRequestOk, OpenCurrent
  <2>. QED  BY <1>1, <2>1, <2>2 DEF Retiring
<1>2. \A r \in Requests : ~open'[r].late
  BY DEF Staler, RequestsOk
<1>3. AllStale => AllStale'
  BY DEF AllStale, Staler
<1>. QED  BY <1>1, <1>2, <1>3 DEF RequestsOk, OpenRequestOk, OpenCurrent

\* One request goes on, or ends.
LEMMA RequestMoves ==
  ASSUME WindowTypes, RequestsOk, Retiring, NEW r \in Requests, NEW q \in OpenRecords,
         open' = [open EXCEPT ![r] = q], ~q.late,
         q.at \in {"routing", "window"} =>
           /\ q.of \in Browsers /\ browser'[q.of].used
           /\ q.managerEpoch \/ ~(q.ownEpoch /\ ~browser'[q.of].contextRetired)
  PROVE  /\ open' \in [Requests -> OpenRecords] /\ RequestsOk'
         /\ AllStale /\ (q.at # "idle" => ~q.managerEpoch) => AllStale'
<1>1. open' \in [Requests -> OpenRecords] /\ open'[r] = q /\ \A s \in Requests : s # r => open'[s] = open[s]
  BY DEF WindowTypes
<1>2. ASSUME NEW s \in Requests, s # r
      PROVE  OpenRequestOk(s)' /\ ~open'[s].late
  BY <1>1, <1>2 DEF RequestsOk, OpenRequestOk, OpenCurrent, Retiring
<1>3. OpenRequestOk(r)' /\ ~open'[r].late
  BY <1>1 DEF OpenRequestOk, OpenCurrent
<1>4. AllStale /\ (q.at # "idle" => ~q.managerEpoch) => AllStale'
  BY <1>1 DEF AllStale
<1>. QED  BY <1>1, <1>2, <1>3, <1>4 DEF RequestsOk

LEMMA BrowserStays ==
  ASSUME WindowTypes, UNCHANGED browser
  PROVE  Retiring
BY DEF WindowTypes, Retiring

LEMMA OnlyRequests ==
  ASSUME WindowGood, UNCHANGED <<holder, browser, window, switching>>, opens' \in 0..MaxOpens,
         open' \in [Requests -> OpenRecords], RequestsOk', SwitchStale'
  PROVE  WindowGood'
BY DEF WindowGood, WindowTypes, WindowInv, DisposedIsHeld, RecordsOk, PlacesAreHeld, HeldIsUsed, LetGoIsRetired,
   SwitchWaits, SwitchConfirmed

LEMMA OpensIsCounted ==
  ASSUME WindowTypes, opens < MaxOpens, opens' = opens + 1
  PROVE  opens' \in 0..MaxOpens
BY WindowAssumption DEF WindowTypes, WindowAssumption

LEMMA OpenStartKeeps ==
  ASSUME WindowGood, NEW r \in Requests, OpenStart(r)
  PROVE  WindowGood'
<1>. DEFINE q == [IdleOpen EXCEPT !.at = "connecting"]
<1>1. q \in OpenRecords /\ ~q.late /\ q.at = "connecting"
  BY DEF IdleOpen, OpenRecords
<1>2. open' = [open EXCEPT ![r] = q] /\ UNCHANGED <<holder, browser, window, switching>>
  BY DEF OpenStart
<1>. HIDE DEF q
<1>3. open' \in [Requests -> OpenRecords] /\ RequestsOk'
  BY <1>1, <1>2, RequestMoves, BrowserStays DEF WindowGood, WindowInv
<1>4. switching.at \notin {"waiting", "true"}
  <2>1. switching.at # "true"
    BY DEF OpenStart, Answered
  <2>2. ASSUME switching.at = "waiting" PROVE FALSE
    <3>1. holder.browser \in Browsers /\ browser[holder.browser].contextRetired
      BY <2>2 DEF WindowGood, WindowInv, SwitchWaits
    <3>2. Prepared(holder.browser)
      BY <3>1, WindowAssumption DEF OpenStart, WindowAssumption
    <3>. QED  BY <3>1, <3>2 DEF Prepared
  <2>. QED  BY <2>1, <2>2
<1>5. SwitchStale'
  BY <1>2, <1>4 DEF SwitchStale
<1>6. opens' \in 0..MaxOpens
  BY OpensIsCounted DEF OpenStart, WindowGood
<1>. QED  BY <1>2, <1>3, <1>5, <1>6, OnlyRequests

\* A request that ends leaves nothing behind.
LEMMA EndsKeeps ==
  ASSUME WindowGood, NEW r \in Requests, OpenEnds(r), UNCHANGED <<holder, browser, window, switching, opens>>
  PROVE  WindowGood'
<1>. DEFINE q == [IdleOpen EXCEPT !.late = open[r].late]
<1>1. q \in OpenRecords /\ q.late = open[r].late /\ q.at = "idle"
  BY DEF IdleOpen, OpenRecords, WindowGood, WindowTypes
<1>2. ~open[r].late
  BY DEF WindowGood, WindowInv, RequestsOk
<1>3. open' = [open EXCEPT ![r] = q]
  BY DEF OpenEnds
<1>. HIDE DEF q
<1>4. open' \in [Requests -> OpenRecords] /\ RequestsOk' /\ (AllStale => AllStale')
  BY <1>1, <1>2, <1>3, RequestMoves, BrowserStays DEF WindowGood, WindowInv
<1>5. SwitchStale'
  BY <1>4 DEF SwitchStale, WindowGood, WindowInv
<1>. QED  BY <1>4, <1>5, OnlyRequests DEF WindowGood, WindowTypes

LEMMA OpenConnectedKeeps ==
  ASSUME WindowGood, NEW r \in Requests, OpenConnected(r)
  PROVE  WindowGood'
<1>. DEFINE q(b) == [[open[r] EXCEPT !.at = "routing"] EXCEPT !.of = b]
<1>1. /\ open[r].at = "connecting" /\ UNCHANGED <<window, switching, opens>>
      /\ open[r] \in OpenRecords /\ open \in [Requests -> OpenRecords] /\ ~open[r].late
  BY DEF OpenConnected, WindowGood, WindowTypes, WindowInv, RequestsOk
<1>2. ASSUME NEW b \in Browsers
      PROVE  /\ q(b) \in OpenRecords /\ q(b).late = open[r].late /\ q(b).managerEpoch = open[r].managerEpoch
             /\ q(b).at = "routing" /\ q(b).of = b
             /\ [open EXCEPT ![r].at = "routing", ![r].of = b] = [open EXCEPT ![r] = q(b)]
  BY <1>1 DEF OpenRecords
<1>. HIDE DEF q
<1>3. CASE OpenEnds(r) /\ UNCHANGED <<holder, browser>>
  BY <1>1, <1>3, EndsKeeps
<1>4. ASSUME NEW b \in Browsers, holder.browser = b, UNCHANGED <<holder, browser>>,
             open[r].managerEpoch, open' = [open EXCEPT ![r].at = "routing", ![r].of = b]
      PROVE  WindowGood'
  <2>1. browser[b].used
    BY <1>4 DEF WindowGood, WindowInv, HeldIsUsed
  <2>2. open' \in [Requests -> OpenRecords] /\ RequestsOk'
    <3>1. q(b) \in OpenRecords /\ ~q(b).late /\ open' = [open EXCEPT ![r] = q(b)]
      BY <1>1, <1>2, <1>4
    <3>2. q(b).of \in Browsers /\ browser'[q(b).of].used /\ q(b).managerEpoch
      BY <1>2, <1>4, <2>1
    <3>. QED  BY <3>1, <3>2, <1>4, RequestMoves, BrowserStays DEF WindowGood, WindowInv
  <2>3. ~AllStale
    BY <1>1, <1>4 DEF AllStale
  <2>4. SwitchStale'
    BY <1>1, <2>3 DEF SwitchStale, WindowGood, WindowInv
  <2>. QED  BY <1>1, <1>4, <2>2, <2>4, OnlyRequests DEF WindowGood, WindowTypes
<1>5. ASSUME NEW b \in Browsers, holder.browser = NoBrowser, ~browser[b].used, holder.disposing = NoBrowser,
             holder' = [holder EXCEPT !.browser = b], browser' = [browser EXCEPT ![b].used = TRUE],
             open[r].managerEpoch, open' = [open EXCEPT ![r].at = "routing", ![r].of = b]
      PROVE  WindowGood'
  <2>1. /\ browser \in [Browsers -> BrowserRecords] /\ holder \in Holders /\ b # NoBrowser
        /\ \A c \in Browsers : holder.browser # c
    BY <1>5, WindowAssumption DEF WindowGood, WindowTypes, WindowAssumption
  <2>2. holder' \in Holders /\ holder'.browser = b /\ holder'.disposing = NoBrowser
    BY <1>5, <2>1 DEF Holders
  <2>3. /\ browser' \in [Browsers -> BrowserRecords] /\ browser'[b].used
        /\ \A c \in Browsers : /\ browser'[c].contextRetired = browser[c].contextRetired
                               /\ browser'[c].tabs = browser[c].tabs
                               /\ c # b => browser'[c] = browser[c]
    BY <1>5, <2>1 DEF BrowserRecords
  <2>4. Retiring
    BY <2>3 DEF Retiring
  <2>5. open' \in [Requests -> OpenRecords] /\ RequestsOk'
    <3>1. q(b) \in OpenRecords /\ ~q(b).late /\ open' = [open EXCEPT ![r] = q(b)]
      BY <1>1, <1>2, <1>5
    <3>2. q(b).of \in Browsers /\ browser'[q(b).of].used /\ q(b).managerEpoch
      BY <1>2, <1>5, <2>3
    <3>. QED  BY <3>1, <3>2, <2>4, RequestMoves DEF WindowGood, WindowInv
  <2>6. WindowTypes'
    BY <1>1, <2>2, <2>3, <2>5 DEF WindowGood, WindowTypes
  <2>7. ~AllStale
    BY <1>1, <1>5 DEF AllStale
  <2>8. SwitchStale' /\ SwitchWaits' /\ SwitchConfirmed'
    BY <1>1, <2>7 DEF SwitchStale, SwitchWaits, SwitchConfirmed, WindowGood, WindowInv
  <2>9. DisposedIsHeld' /\ RecordsOk' /\ PlacesAreHeld' /\ HeldIsUsed' /\ LetGoIsRetired'
    BY <1>1, <2>1, <2>2, <2>3
    DEF DisposedIsHeld, RecordsOk, PlacesAreHeld, HeldIsUsed, LetGoIsRetired, WindowGood, WindowInv
  <2>. QED  BY <2>5, <2>6, <2>8, <2>9 DEF WindowGood, WindowInv
<1>6. CASE /\ open[r].managerEpoch /\ holder.browser # NoBrowser /\ UNCHANGED <<holder, browser>>
           /\ open' = [open EXCEPT ![r].at = "routing", ![r].of = holder.browser]
  <2>1. holder.browser \in Browsers
    BY <1>6 DEF WindowGood, WindowTypes, Holders
  <2>. QED  BY <1>4, <1>6, <2>1
<1>7. CASE /\ open[r].managerEpoch /\ holder.browser = NoBrowser /\ holder.disposing = NoBrowser
           /\ \E b \in Browsers :
                   /\ ~browser[b].used
                   /\ holder' = [holder EXCEPT !.browser = b]
                   /\ browser' = [browser EXCEPT ![b].used = TRUE]
                   /\ open' = [open EXCEPT ![r].at = "routing", ![r].of = b]
  BY <1>5, <1>7
<1>. QED  BY <1>3, <1>6, <1>7 DEF OpenConnected

\* A Browser that may still open a window is the one that is held.
LEMMA CurrentIsHeld ==
  ASSUME WindowGood, NEW r \in Requests, open[r].at \in {"routing", "window"}, OpenCurrent(r)
  PROVE  /\ open[r].of \in Browsers /\ holder.browser = open[r].of /\ open[r].managerEpoch
         /\ browser[open[r].of].used /\ ~AllStale
BY DEF WindowGood, WindowInv, RequestsOk, OpenRequestOk, OpenCurrent, LetGoIsRetired, AllStale

LEMMA OpenRoutedKeeps ==
  ASSUME WindowGood, NEW r \in Requests, OpenRouted(r)
  PROVE  WindowGood'
<1>. DEFINE b == open[r].of
            q(how) == [[open[r] EXCEPT !.at = "window"] EXCEPT !.promise = how]
            w == [NoWindow EXCEPT !.phase = "loading", !.alive = TRUE]
<1>1. /\ open[r].at = "routing" /\ UNCHANGED <<holder, switching>>
      /\ open[r] \in OpenRecords /\ open \in [Requests -> OpenRecords] /\ ~open[r].late
      /\ window \in [Browsers -> WindowRecords]
  BY DEF OpenRouted, WindowGood, WindowTypes, WindowInv, RequestsOk
<1>2. ASSUME NEW how \in {"ready", "pending"}
      PROVE  /\ q(how) \in OpenRecords /\ q(how).late = open[r].late /\ q(how).managerEpoch = open[r].managerEpoch
             /\ q(how).at = "window" /\ q(how).of = b
             /\ [open EXCEPT ![r].at = "window", ![r].promise = how] = [open EXCEPT ![r] = q(how)]
  BY <1>1 DEF OpenRecords
<1>3. w \in WindowRecords /\ w.phase = "loading" /\ RecordOk(w) /\ ~w.flight
  BY DEF NoWindow, WindowRecords, Phases, RecordOk
<1>. HIDE DEF q, w
<1>4. CASE OpenEnds(r) /\ UNCHANGED <<browser, window, opens>>
  BY <1>1, <1>4, EndsKeeps
<1>5. ASSUME OpenCurrent(r), NEW how \in {"ready", "pending"}, UNCHANGED browser,
             open' = [open EXCEPT ![r].at = "window", ![r].promise = how]
      PROVE  open' \in [Requests -> OpenRecords] /\ RequestsOk' /\ SwitchStale' /\ ~AllStale
  <2>1. b \in Browsers /\ browser[b].used /\ open[r].managerEpoch /\ ~AllStale
    BY <1>1, <1>5, CurrentIsHeld
  <2>2. open' \in [Requests -> OpenRecords] /\ RequestsOk'
    <3>1. WindowTypes /\ RequestsOk /\ Retiring
      BY <1>5, BrowserStays DEF WindowGood, WindowInv
    <3>2. PICK x \in OpenRecords : x = q(how)
      BY <1>2, <1>5
    <3>3. open' = [open EXCEPT ![r] = x] /\ ~x.late /\ x.of \in Browsers /\ browser'[x.of].used /\ x.managerEpoch
      BY <1>1, <1>2, <1>5, <2>1, <3>2
    <3>. QED  BY <3>1, <3>3, RequestMoves
  <2>. QED  BY <1>1, <2>1, <2>2 DEF SwitchStale, WindowGood, WindowInv
<1>6. CASE /\ OpenCurrent(r) /\ UNCHANGED <<browser, window, opens>>
           /\ open' = [open EXCEPT ![r].at = "window",
                                   ![r].promise = IF window[b].phase = "ready" THEN "ready" ELSE "pending"]
  <2>1. (IF window[b].phase = "ready" THEN "ready" ELSE "pending") \in {"ready", "pending"}
    OBVIOUS
  <2>2. open' \in [Requests -> OpenRecords] /\ RequestsOk' /\ SwitchStale'
    BY <1>5, <1>6, <2>1
  <2>. QED  BY <1>1, <1>6, <2>2, OnlyRequests DEF WindowGood, WindowTypes
<1>7. CASE /\ OpenCurrent(r) /\ window[b].phase = "none" /\ opens < MaxOpens /\ opens' = opens + 1
           /\ window' = [window EXCEPT ![b] = w] /\ UNCHANGED browser
           /\ open' = [open EXCEPT ![r].at = "window", ![r].promise = "pending"]
  <2>1. b \in Browsers /\ holder.browser = b
    BY <1>1, <1>7, CurrentIsHeld
  <2>2. open' \in [Requests -> OpenRecords] /\ RequestsOk' /\ SwitchStale' /\ ~AllStale
    BY <1>5, <1>7
  <2>3. /\ window' \in [Browsers -> WindowRecords] /\ window'[b] = w
        /\ \A c \in Browsers : c # b => window'[c] = window[c]
    BY <1>1, <1>3, <1>7, <2>1
  <2>4. WindowTypes'
    BY <1>1, <1>7, <2>2, <2>3, OpensIsCounted DEF WindowGood, WindowTypes
  <2>5. switching.at \notin {"waiting", "true"}
    BY <2>2 DEF WindowGood, WindowInv, SwitchStale
  <2>6. SwitchWaits' /\ SwitchConfirmed'
    BY <1>1, <2>5 DEF SwitchWaits, SwitchConfirmed
  <2>7. DisposedIsHeld' /\ RecordsOk' /\ PlacesAreHeld' /\ HeldIsUsed' /\ LetGoIsRetired'
    BY <1>1, <1>3, <1>7, <2>1, <2>3
    DEF DisposedIsHeld, RecordsOk, PlacesAreHeld, HeldIsUsed, LetGoIsRetired, WindowGood, WindowInv
  <2>. QED  BY <2>2, <2>4, <2>6, <2>7 DEF WindowGood, WindowInv
<1>. QED  BY <1>4, <1>6, <1>7 DEF OpenRouted, w

LEMMA OpenShownKeeps ==
  ASSUME WindowGood, NEW r \in Requests, OpenShown(r)
  PROVE  WindowGood'
<1>. DEFINE b == open[r].of
            q == [IdleOpen EXCEPT !.late = ~open[r].managerEpoch]
<1>1. /\ open[r].at = "window" /\ UNCHANGED <<holder, window, switching, opens>>
      /\ open[r] \in OpenRecords /\ open \in [Requests -> OpenRecords]
  BY DEF OpenShown, WindowGood, WindowTypes
<1>2. CASE OpenEnds(r) /\ UNCHANGED browser
  BY <1>1, <1>2, EndsKeeps
<1>3. CASE /\ window[b].phase = "ready" /\ OpenCurrent(r) /\ browser[b].tabs < MaxTabs
           /\ browser' = [browser EXCEPT ![b].tabs = @ + 1] /\ open' = [open EXCEPT ![r] = q]
  <2>1. b \in Browsers /\ holder.browser = b /\ open[r].managerEpoch /\ ~AllStale
    BY <1>1, <1>3, CurrentIsHeld
  <2>2. q \in OpenRecords /\ q.at = "idle" /\ ~q.late
    BY <2>1 DEF IdleOpen, OpenRecords
  <2>3. browser \in [Browsers -> BrowserRecords] /\ browser[b].tabs \in 0..MaxTabs /\ MaxTabs \in Nat
    BY <2>1, WindowAssumption DEF WindowGood, WindowTypes, BrowserRecords, WindowAssumption
  <2>4. /\ browser' \in [Browsers -> BrowserRecords]
        /\ \A c \in Browsers : /\ browser'[c].used = browser[c].used
                               /\ browser'[c].contextRetired = browser[c].contextRetired
                               /\ c # b => browser'[c] = browser[c]
    BY <1>3, <2>1, <2>3 DEF BrowserRecords
  <2>5. Retiring
    BY <2>4 DEF Retiring
  <2>. HIDE DEF q
  <2>6. open' \in [Requests -> OpenRecords] /\ RequestsOk'
    BY <1>3, <2>2, <2>5, RequestMoves DEF WindowGood, WindowInv
  <2>7. WindowTypes'
    BY <1>1, <2>4, <2>6 DEF WindowGood, WindowTypes
  <2>8. switching.at \notin {"waiting", "true"}
    BY <2>1 DEF WindowGood, WindowInv, SwitchStale
  <2>9. SwitchWaits' /\ SwitchConfirmed' /\ SwitchStale'
    BY <1>1, <2>8 DEF SwitchWaits, SwitchConfirmed, SwitchStale
  <2>10. DisposedIsHeld' /\ RecordsOk' /\ PlacesAreHeld' /\ HeldIsUsed' /\ LetGoIsRetired'
    BY <1>1, <2>1, <2>4
    DEF DisposedIsHeld, RecordsOk, PlacesAreHeld, HeldIsUsed, LetGoIsRetired, WindowGood, WindowInv
  <2>. QED  BY <2>6, <2>7, <2>9, <2>10 DEF WindowGood, WindowInv
<1>. QED  BY <1>2, <1>3 DEF OpenShown

-----------------------------------------------------------------------------
(* Windows *)

\* What belongs to the Browser that is held: no other one has a window.
Standing == DisposedIsHeld /\ RecordsOk /\ PlacesAreHeld /\ HeldIsUsed /\ LetGoIsRetired

\* Browsers other than b are as before; b is in use, and may be retired.
OnlyBrowser(b) ==
  /\ browser' \in [Browsers -> BrowserRecords]
  /\ \A c \in Browsers : /\ browser'[c].used = browser[c].used
                         /\ browser[c].contextRetired => browser'[c].contextRetired
                         /\ c # b => browser'[c] = browser[c]

LEMMA HeldBrowserMoves ==
  ASSUME WindowGood, NEW b \in Browsers, holder.browser = b, OnlyBrowser(b),
         NEW w \in WindowRecords, window' = [window EXCEPT ![b] = w], RecordOk(w),
         holder' = holder \/ holder' = [holder EXCEPT !.disposing = b]
  PROVE  /\ Standing' /\ Retiring
         /\ holder' \in Holders /\ holder'.browser = b /\ browser[b].used
         /\ window' \in [Browsers -> WindowRecords] /\ window'[b] = w
         /\ \A c \in Browsers : c # b => /\ window'[c] = window[c] /\ window[c].phase = "none" /\ browser[c].tabs = 0
                                         /\ browser'[c] = browser[c] /\ (browser[c].used => browser[c].contextRetired)
<1>1. /\ window \in [Browsers -> WindowRecords] /\ browser \in [Browsers -> BrowserRecords] /\ holder \in Holders
      /\ DisposedIsHeld /\ RecordsOk /\ PlacesAreHeld /\ HeldIsUsed /\ LetGoIsRetired
  BY DEF WindowGood, WindowTypes, WindowInv
<1>2. /\ window' \in [Browsers -> WindowRecords] /\ window'[b] = w
      /\ \A c \in Browsers : c # b => window'[c] = window[c]
  BY <1>1
<1>3. holder' \in Holders /\ holder'.browser = b /\ holder'.disposing \in {NoBrowser, b}
  BY <1>1 DEF Holders, DisposedIsHeld
<1>4. browser[b].used
  BY <1>1 DEF HeldIsUsed
<1>5. ASSUME NEW c \in Browsers, c # b
      PROVE  /\ window[c].phase = "none" /\ browser[c].tabs = 0 /\ browser'[c] = browser[c]
             /\ browser[c].used => browser[c].contextRetired
  <2>1. browser[c].tabs \in 0..MaxTabs /\ MaxTabs \in Nat
    BY <1>1, WindowAssumption DEF BrowserRecords, WindowAssumption
  <2>2. ~(window[c].phase # "none" \/ browser[c].tabs > 0)
    BY <1>1, <1>5 DEF PlacesAreHeld
  <2>. QED  BY <1>1, <1>5, <2>1, <2>2 DEF LetGoIsRetired, OnlyBrowser
<1>6. Retiring
  BY DEF OnlyBrowser, Retiring
<1>7. DisposedIsHeld' /\ RecordsOk'
  BY <1>1, <1>2, <1>3 DEF DisposedIsHeld, RecordsOk
<1>8. PlacesAreHeld'
  BY <1>2, <1>3, <1>5 DEF PlacesAreHeld
<1>9. HeldIsUsed' /\ LetGoIsRetired'
  BY <1>3, <1>4, <1>5 DEF OnlyBrowser, HeldIsUsed, LetGoIsRetired
<1>. QED  BY <1>2, <1>3, <1>4, <1>5, <1>6, <1>7, <1>8, <1>9 DEF Standing

LEMMA SameBrowsers ==
  ASSUME WindowTypes, UNCHANGED browser, NEW b
  PROVE  OnlyBrowser(b)
BY DEF WindowTypes, OnlyBrowser

\* A window that is there belongs to the Browser that is held.
LEMMA WindowIsHeld ==
  ASSUME WindowGood, NEW b \in Browsers, window[b].phase # "none"
  PROVE  holder.browser = b
BY DEF WindowGood, WindowInv, PlacesAreHeld

LEMMA AliveIsThere ==
  ASSUME WindowGood, NEW b \in Browsers, window[b].alive
  PROVE  /\ window[b].phase # "none" /\ ~window[b].unconfirmed /\ window[b].cleanup # "done"
         /\ holder.browser = b
BY DEF WindowGood, WindowInv, RecordsOk, RecordOk, PlacesAreHeld

\* A page load ends well or badly.
LEMMA LoadKeeps ==
  ASSUME WindowGood, NEW b \in Browsers, ~Answered, window[b].phase = "loading",
         NEW w \in WindowRecords, w.phase # "none", window' = [window EXCEPT ![b] = w],
         w.alive = window[b].alive, w.flight = window[b].flight,
         w.unconfirmed = window[b].unconfirmed, w.cleanup = window[b].cleanup,
         NEW how \in {"ready", "rejected"}, open' = Settled(b, how, open),
         UNCHANGED <<holder, browser, switching, opens>>
  PROVE  WindowGood'
<1>1. RecordOk(window[b]) /\ open \in [Requests -> OpenRecords]
  BY DEF WindowGood, WindowInv, RecordsOk, WindowTypes
<1>2. RecordOk(w)
  BY <1>1 DEF RecordOk
<1>3. holder.browser = b
  BY WindowIsHeld
<1>4. OnlyBrowser(b)
  BY SameBrowsers DEF WindowGood
<1>5. /\ Standing' /\ Retiring /\ window' \in [Browsers -> WindowRecords] /\ window'[b] = w
      /\ \A c \in Browsers : c # b => window'[c] = window[c]
  BY <1>2, <1>3, <1>4, HeldBrowserMoves
<1>6. /\ Staler(open', open)
      /\ \A r \in Requests : open'[r].managerEpoch = open[r].managerEpoch
  BY <1>1, OpenSettledIs
<1>7. RequestsOk' /\ (AllStale => AllStale')
  BY <1>5, <1>6, RequestsAge DEF WindowGood, WindowInv
<1>8. WindowTypes'
  BY <1>5, <1>6 DEF WindowGood, WindowTypes, Staler
<1>9. SwitchWaits'
  BY <1>5 DEF WindowGood, WindowInv, SwitchWaits
<1>10. SwitchConfirmed' /\ SwitchStale'
  BY <1>7 DEF WindowGood, WindowInv, SwitchStale, SwitchConfirmed, Answered
<1>. QED  BY <1>5, <1>7, <1>8, <1>9, <1>10 DEF WindowGood, WindowInv, Standing

LEMMA WindowLoadsKeeps ==
  ASSUME WindowGood, NEW b \in Browsers, WindowLoads(b)
  PROVE  WindowGood'
<1>. DEFINE w == [window[b] EXCEPT !.phase = "ready"]
<1>1. window[b] \in WindowRecords /\ window \in [Browsers -> WindowRecords]
  BY DEF WindowGood, WindowTypes
<1>2. /\ w \in WindowRecords /\ w.phase # "none" /\ w.alive = window[b].alive /\ w.flight = window[b].flight
      /\ w.unconfirmed = window[b].unconfirmed /\ w.cleanup = window[b].cleanup
  BY <1>1 DEF WindowRecords, Phases
<1>3. window' = [window EXCEPT ![b] = w]
  BY <1>1 DEF WindowLoads
<1>. HIDE DEF w
<1>. QED  BY <1>2, <1>3, LoadKeeps DEF WindowLoads

LEMMA WindowLoadFailsKeeps ==
  ASSUME WindowGood, NEW b \in Browsers, WindowLoadFails(b)
  PROVE  WindowGood'
<1>. DEFINE w == [[window[b] EXCEPT !.phase = "failed"] EXCEPT !.failure = TRUE]
<1>1. window[b] \in WindowRecords /\ window \in [Browsers -> WindowRecords]
  BY DEF WindowGood, WindowTypes
<1>2. /\ w \in WindowRecords /\ w.phase # "none" /\ w.alive = window[b].alive /\ w.flight = window[b].flight
      /\ w.unconfirmed = window[b].unconfirmed /\ w.cleanup = window[b].cleanup
  BY <1>1 DEF WindowRecords, Phases
<1>3. window' = [window EXCEPT ![b] = w]
  BY <1>1 DEF WindowLoadFails
<1>. HIDE DEF w
<1>. QED  BY <1>2, <1>3, LoadKeeps DEF WindowLoadFails

LEMMA CloseTimesOutKeeps ==
  ASSUME WindowGood, NEW b \in Browsers, CloseTimesOut(b)
  PROVE  WindowGood'
<1>. DEFINE w == [window[b] EXCEPT !.flight = FALSE]
<1>1. /\ window[b] \in WindowRecords /\ window \in [Browsers -> WindowRecords]
      /\ RecordOk(window[b]) /\ switching \in Switches
  BY DEF WindowGood, WindowTypes, WindowInv, RecordsOk
<1>2. /\ w \in WindowRecords /\ w.phase = window[b].phase /\ w.alive = window[b].alive /\ ~w.flight
      /\ w.unconfirmed = window[b].unconfirmed /\ w.cleanup = window[b].cleanup
  BY <1>1 DEF WindowRecords
<1>3. window' = [window EXCEPT ![b] = w]
  BY <1>1 DEF CloseTimesOut
<1>. HIDE DEF w
<1>4. holder.browser = b /\ RecordOk(w)
  BY <1>1, <1>2, AliveIsThere DEF RecordOk, CloseTimesOut
<1>5. /\ Standing' /\ Retiring /\ window' \in [Browsers -> WindowRecords]
      /\ \A c \in Browsers : c # b => window'[c] = window[c]
  BY <1>2, <1>3, <1>4, HeldBrowserMoves, SameBrowsers DEF CloseTimesOut, WindowGood
<1>6. switching' \in Switches /\ switching'.at \notin {"waiting", "true"}
  <2>1. switching.at # "true"
    BY DEF CloseTimesOut, Answered
  <2>2. switching.at = "waiting" => switching.of = b
    BY <1>4 DEF WindowGood, WindowInv, SwitchWaits
  <2>. QED  BY <1>1, <2>1, <2>2 DEF CloseTimesOut, FlightEnds, Switches
<1>7. WindowTypes'
  BY <1>5, <1>6 DEF WindowGood, WindowTypes, CloseTimesOut
<1>8. RequestsOk'
  BY DEF WindowGood, WindowInv, RequestsOk, OpenRequestOk, OpenCurrent, CloseTimesOut
<1>9. SwitchWaits' /\ SwitchConfirmed' /\ SwitchStale'
  BY <1>6 DEF SwitchWaits, SwitchConfirmed, SwitchStale
<1>. QED  BY <1>5, <1>7, <1>8, <1>9 DEF WindowGood, WindowInv, Standing

\* The record of a window that is gone.
LEMMA RetiredRecordIs ==
  ASSUME WindowGood, NEW b \in Browsers, window[b].alive, NEW clean \in BOOLEAN
  PROVE  /\ RetiredRecord(b, clean) \in WindowRecords /\ ~RetiredRecord(b, clean).alive
         /\ RetiredRecord(b, clean).cleanup = "done" => clean /\ window[b].flight
         /\ clean /\ ~window[b].flight => RetiredRecord(b, clean) = NoWindow
         /\ ~window[b].flight => ~RetiredRecord(b, clean).flight
         /\ RetiredRecord(b, clean).flight => window[b].flight
<1>. DEFINE lost == [window[b] EXCEPT !.phase = "failed", !.alive = FALSE, !.cleanup = "failed"]
            kept == [window[b] EXCEPT !.phase = "failed", !.alive = FALSE, !.cleanup = "done"]
<1>1. window[b] \in WindowRecords /\ ~window[b].unconfirmed
  BY AliveIsThere DEF WindowGood, WindowTypes
<1>2. /\ lost \in WindowRecords /\ ~lost.alive /\ lost.cleanup = "failed" /\ lost.flight = window[b].flight
      /\ kept \in WindowRecords /\ ~kept.alive /\ kept.flight = window[b].flight
  BY <1>1 DEF WindowRecords, Phases
<1>3. NoWindow \in WindowRecords /\ ~NoWindow.alive /\ NoWindow.cleanup = "no" /\ ~NoWindow.flight
  BY DEF NoWindow, WindowRecords, Phases
<1>4. RetiredRecord(b, clean) = IF ~clean THEN lost ELSE IF window[b].unconfirmed \/ window[b].flight THEN kept ELSE NoWindow
  BY DEF RetiredRecord
<1>. HIDE DEF lost, kept
<1>5. CASE ~clean
  BY <1>2, <1>4, <1>5
<1>6. CASE clean /\ window[b].flight
  BY <1>2, <1>4, <1>6
<1>7. CASE clean /\ ~window[b].flight
  BY <1>1, <1>3, <1>4, <1>7
<1>. QED  BY <1>5, <1>6, <1>7

LEMMA NoWindowIs ==
  /\ NoWindow \in WindowRecords /\ NoWindow.phase = "none" /\ RecordOk(NoWindow)
  /\ ~NoWindow.alive /\ ~NoWindow.flight
BY DEF NoWindow, WindowRecords, Phases, RecordOk

LEMMA ClosedTabsIs ==
  ASSUME WindowGood, NEW b \in Browsers, NEW clean \in BOOLEAN, browser' = ClosedTabs(b, clean)
  PROVE  OnlyBrowser(b) /\ (clean => browser'[b].tabs = 0)
<1>1. browser \in [Browsers -> BrowserRecords] /\ 0 \in 0..MaxTabs
  BY WindowAssumption DEF WindowGood, WindowTypes, WindowAssumption
<1>. QED  BY <1>1 DEF ClosedTabs, OnlyBrowser, BrowserRecords

LEMMA WindowClosedKeeps ==
  ASSUME WindowGood, NEW b \in Browsers, WindowClosed(b)
  PROVE  WindowGood'
<1>1. PICK clean \in BOOLEAN, observed \in BOOLEAN :
       /\ ~window[b].flight => observed
       /\ browser' = ClosedTabs(b, clean)
       /\ open' = OpensReset(b, window[b].failure, Settled(b, "rejected", open))
       /\ IF ~window[b].flight
          THEN window' = [window EXCEPT ![b] = RetiredRecord(b, clean)] /\ UNCHANGED switching
          ELSE /\ window' = [window EXCEPT ![b] =
                    IF clean /\ observed THEN NoWindow
                    ELSE [RetiredRecord(b, clean) EXCEPT !.flight = FALSE, !.unconfirmed = ~observed]]
               /\ FlightEnds(b, clean /\ observed)
  BY DEF WindowClosed
<1>2. window[b].alive /\ ~Answered /\ UNCHANGED <<holder, opens>>
  BY DEF WindowClosed
<1>3. holder.browser = b
  BY <1>2, AliveIsThere
<1>. DEFINE ended == [RetiredRecord(b, clean) EXCEPT !.flight = FALSE, !.unconfirmed = ~observed]
            w == IF ~window[b].flight THEN RetiredRecord(b, clean)
                 ELSE IF clean /\ observed THEN NoWindow ELSE ended
<1>4. w \in WindowRecords /\ RecordOk(w) /\ (clean /\ observed => w.phase = "none")
  <2>1. /\ RetiredRecord(b, clean) \in WindowRecords /\ ~RetiredRecord(b, clean).alive
        /\ RetiredRecord(b, clean).cleanup = "done" => clean /\ window[b].flight
        /\ clean /\ ~window[b].flight => RetiredRecord(b, clean) = NoWindow
        /\ RetiredRecord(b, clean).flight => window[b].flight
    BY <1>2, RetiredRecordIs
  <2>2. /\ ended \in WindowRecords /\ ~ended.flight /\ ended.alive = RetiredRecord(b, clean).alive
        /\ ended.cleanup = RetiredRecord(b, clean).cleanup /\ ended.unconfirmed = ~observed
    BY <2>1 DEF WindowRecords
  <2>. HIDE DEF ended
  <2>3. CASE ~window[b].flight
    BY <2>1, <2>3, NoWindowIs DEF RecordOk
  <2>4. CASE window[b].flight /\ clean /\ observed
    BY <2>4, NoWindowIs
  <2>5. CASE window[b].flight /\ ~(clean /\ observed)
    BY <2>1, <2>2, <2>5 DEF RecordOk
  <2>. QED  BY <2>3, <2>4, <2>5
<1>5. window' = [window EXCEPT ![b] = w]
  BY <1>1
<1>. HIDE DEF w
<1>6. OnlyBrowser(b) /\ (clean => browser'[b].tabs = 0)
  BY <1>1, ClosedTabsIs
<1>7. /\ Standing' /\ Retiring /\ holder' \in Holders /\ browser[b].used
      /\ window' \in [Browsers -> WindowRecords] /\ window'[b] = w
      /\ \A c \in Browsers : c # b => /\ window'[c] = window[c] /\ window[c].phase = "none" /\ browser[c].tabs = 0
                                      /\ browser'[c] = browser[c] /\ (browser[c].used => browser[c].contextRetired)
  BY <1>2, <1>3, <1>4, <1>5, <1>6, HeldBrowserMoves
<1>. DEFINE settled == Settled(b, "rejected", open)
<1>8. /\ Staler(settled, open) /\ Staler(open', settled) /\ Staler(open', open)
      /\ \A r \in Requests : open[r].of = b => ~open'[r].ownEpoch
  <2>1. open \in [Requests -> OpenRecords] /\ window[b].failure \in BOOLEAN
    BY DEF WindowGood, WindowTypes, WindowRecords
  <2>2. Staler(settled, open)
    BY <2>1, OpenSettledIs
  <2>3. settled \in [Requests -> OpenRecords] /\ open' = OpensReset(b, window[b].failure, settled)
    BY <1>1, <2>2 DEF Staler
  <2>. HIDE DEF settled
  <2>4. Staler(open', settled) /\ \A r \in Requests : settled[r].of = b => ~open'[r].ownEpoch
    BY <2>1, <2>3, OpensResetIs
  <2>5. Staler(open', open)
    BY <2>2, <2>4, StalerTwice
  <2>6. \A r \in Requests : settled[r].of = open[r].of
    BY <2>2 DEF Staler
  <2>. QED  BY <2>2, <2>4, <2>5, <2>6
<1>. HIDE DEF settled
<1>9. RequestsOk' /\ (AllStale => AllStale')
  <2>1. ASSUME NEW r \in Requests, open[r].at \in {"routing", "window"}
        PROVE  ~open'[r].ownEpoch \/ browser'[open[r].of].contextRetired
    <3>1. open[r].of \in Browsers /\ browser[open[r].of].used
      BY <2>1 DEF WindowGood, WindowInv, RequestsOk, OpenRequestOk
    <3>2. CASE open[r].of = b
      BY <1>8, <3>2
    <3>3. CASE open[r].of # b
      BY <1>7, <3>1, <3>3
    <3>. QED  BY <3>2, <3>3
  <2>. QED  BY <1>7, <1>8, <2>1, RequestsAge DEF WindowGood, WindowInv
<1>10. switching' \in Switches /\ (switching'.at \in {"waiting", "true"} => switching.at = "waiting")
  BY <1>1, <1>2 DEF FlightEnds, Switches, WindowGood, WindowTypes, Answered
<1>11. WindowTypes'
  BY <1>2, <1>6, <1>7, <1>8, <1>10 DEF WindowGood, WindowTypes, OnlyBrowser, Staler
<1>12. SwitchStale'
  BY <1>9, <1>10 DEF WindowGood, WindowInv, SwitchStale
<1>13. ASSUME switching'.at \in {"waiting", "true"}
       PROVE  /\ switching.at = "waiting" /\ switching.of = b /\ window[b].flight /\ browser[b].contextRetired
              /\ FlightEnds(b, clean /\ observed)
  BY <1>1, <1>3, <1>10, <1>13 DEF WindowGood, WindowInv, SwitchWaits
<1>14. SwitchWaits'
  <2>1. ASSUME switching'.at = "waiting" PROVE FALSE
    BY <1>13, <2>1 DEF FlightEnds, WindowGood, WindowTypes, Switches
  <2>. QED  BY <2>1 DEF SwitchWaits
<1>15. SwitchConfirmed'
  <2>1. ASSUME switching'.at = "true"
        PROVE  clean /\ observed /\ switching'.of = b
    BY <1>13, <2>1 DEF FlightEnds, WindowGood, WindowTypes, Switches
  <2>2. ASSUME switching'.at = "true"
        PROVE  /\ \A c \in Browsers : window'[c].phase = "none" /\ browser'[c].tabs = 0
               /\ browser'[b].contextRetired
    BY <1>4, <1>6, <1>7, <1>13, <2>1, <2>2 DEF OnlyBrowser
  <2>. QED  BY <2>1, <2>2 DEF SwitchConfirmed
<1>. QED  BY <1>7, <1>9, <1>11, <1>12, <1>14, <1>15 DEF WindowGood, WindowInv, Standing

-----------------------------------------------------------------------------
(* Disposal and context switch *)

\* With every Browser retired that was in use, requests that become stale are harmless.
LEMMA RetiredAge ==
  ASSUME WindowGood, Retiring, Staler(open', open),
         \A b \in Browsers : browser[b].used => browser'[b].contextRetired
  PROVE  RequestsOk'
<1>1. \A r \in Requests : open[r].at \in {"routing", "window"} => open[r].of \in Browsers /\ browser[open[r].of].used
  BY DEF WindowGood, WindowInv, RequestsOk, OpenRequestOk
<1>. QED  BY <1>1, RequestsAge DEF WindowGood, WindowInv

LEMMA MovedAreStale ==
  ASSUME NEW o, Staler(o, open), WindowTypes, open' = EpochMoves(o)
  PROVE  Staler(open', open) /\ AllStale'
<1>1. o \in [Requests -> OpenRecords] /\ \A r \in Requests : o[r].at = open[r].at
  BY DEF Staler
<1>2. /\ Staler(open', o)
      /\ \A r \in Requests : o[r].at # "idle" => ~open'[r].managerEpoch
  BY <1>1, EpochMovesIs
<1>3. Staler(open', open)
  BY <1>2, StalerTwice
<1>4. \A r \in Requests : open'[r].at = open[r].at
  BY <1>3 DEF Staler
<1>. QED  BY <1>1, <1>2, <1>3, <1>4 DEF AllStale

LEMMA StalerItself ==
  ASSUME WindowTypes
  PROVE  Staler(open, open)
BY DEF WindowTypes, Staler

LEMMA MovedAfterReset ==
  ASSUME WindowGood, NEW o, Staler(o, open), NEW b \in Browsers, open' = EpochMoves(OpensReset(b, FALSE, o))
  PROVE  Staler(open', open) /\ AllStale'
<1>1. o \in [Requests -> OpenRecords]
  BY DEF Staler
<1>2. Staler(OpensReset(b, FALSE, o), o)
  BY <1>1, OpensResetIs
<1>3. Staler(OpensReset(b, FALSE, o), open)
  BY <1>2, StalerTwice
<1>. QED  BY <1>3, MovedAreStale DEF WindowGood

LEMMA TornDownIs ==
  ASSUME WindowGood, NEW b \in Browsers, NEW clean \in BOOLEAN,
         browser' = TornDown(b, clean) \/ browser' = [browser EXCEPT ![b].contextRetired = TRUE]
  PROVE  /\ OnlyBrowser(b) /\ browser'[b].contextRetired
         /\ browser' = TornDown(b, clean) /\ clean => browser'[b].tabs = 0
<1>1. browser \in [Browsers -> BrowserRecords] /\ 0 \in 0..MaxTabs
  BY WindowAssumption DEF WindowGood, WindowTypes, WindowAssumption
<1>. DEFINE n == IF clean THEN 0 ELSE browser[b].tabs
            t == [[browser[b] EXCEPT !.contextRetired = TRUE] EXCEPT !.tabs = n]
<1>2. CASE browser' = TornDown(b, clean)
  <2>1. browser' = [browser EXCEPT ![b] = t]
    BY <1>1, <1>2 DEF TornDown, BrowserRecords
  <2>2. n \in 0..MaxTabs /\ (clean => n = 0)
    BY <1>1 DEF BrowserRecords
  <2>. HIDE DEF n
  <2>3. t \in BrowserRecords /\ t.used = browser[b].used /\ t.contextRetired /\ t.tabs = n
    BY <1>1, <2>2 DEF BrowserRecords
  <2>. HIDE DEF t
  <2>. QED  BY <1>1, <2>1, <2>2, <2>3 DEF OnlyBrowser
<1>3. CASE browser' = [browser EXCEPT ![b].contextRetired = TRUE] /\ browser' # TornDown(b, clean)
  BY <1>1, <1>3 DEF OnlyBrowser, BrowserRecords
<1>. QED  BY <1>2, <1>3

\* The Browser that is held is retired; what the switch says of it is proved apart.
LEMMA HeldIsRetired ==
  ASSUME WindowGood, NEW b \in Browsers, holder.browser = b,
         OnlyBrowser(b), browser'[b].contextRetired,
         NEW w \in WindowRecords, RecordOk(w), window' = [window EXCEPT ![b] = w],
         Staler(open', open), AllStale',
         holder' = [holder EXCEPT !.disposing = b] \/ holder' = holder,
         opens' \in 0..MaxOpens, switching' \in Switches
  PROVE  /\ SwitchWaits' /\ SwitchConfirmed' => WindowGood'
         /\ holder'.browser = b /\ window'[b] = w
         /\ \A c \in Browsers : c # b => window'[c].phase = "none" /\ browser'[c].tabs = 0
<1>1. /\ Standing' /\ Retiring /\ holder' \in Holders /\ holder'.browser = b
      /\ window' \in [Browsers -> WindowRecords] /\ window'[b] = w
      /\ \A c \in Browsers : c # b => /\ window'[c] = window[c] /\ window[c].phase = "none" /\ browser[c].tabs = 0
                                      /\ browser'[c] = browser[c] /\ (browser[c].used => browser[c].contextRetired)
  BY HeldBrowserMoves
<1>2. RequestsOk'
  BY <1>1, RetiredAge
<1>3. WindowTypes'
  BY <1>1 DEF WindowGood, WindowTypes, OnlyBrowser, Staler
<1>4. SwitchStale'
  BY DEF SwitchStale
<1>. QED  BY <1>1, <1>2, <1>3, <1>4 DEF WindowGood, WindowInv, Standing

\* The Browser is given up, and kept while its window may be there.
LEMMA KeptAsDisposing ==
  ASSUME WindowGood, NEW b \in Browsers, holder.browser = b, ~Answered,
         OnlyBrowser(b), browser'[b].contextRetired,
         NEW w \in WindowRecords, RecordOk(w), window' = [window EXCEPT ![b] = w],
         window[b].flight => w.flight,
         Staler(open', open), AllStale',
         holder' = [holder EXCEPT !.disposing = b],
         opens' \in 0..MaxOpens, UNCHANGED switching
  PROVE  WindowGood'
<1>1. /\ SwitchWaits' /\ SwitchConfirmed' => WindowGood'
      /\ holder'.browser = b /\ window'[b] = w
  BY HeldIsRetired DEF WindowGood, WindowTypes
<1>2. SwitchWaits' /\ SwitchConfirmed'
  BY <1>1 DEF WindowGood, WindowInv, SwitchWaits, SwitchConfirmed, Answered
<1>. QED  BY <1>1, <1>2

\* The Browser that is held is let go, with nothing of it left.
LEMMA LetGo ==
  ASSUME WindowGood, NEW b \in Browsers, holder.browser = b, ~Answered, ~window[b].flight,
         OnlyBrowser(b), browser'[b].contextRetired, browser'[b].tabs = 0,
         NEW w \in WindowRecords, RecordOk(w), w.phase = "none", window' = [window EXCEPT ![b] = w],
         Staler(open', open), AllStale',
         holder' = [browser |-> NoBrowser, disposing |-> NoBrowser],
         opens' \in 0..MaxOpens, UNCHANGED switching
  PROVE  WindowGood'
<1>1. /\ window \in [Browsers -> WindowRecords] /\ browser \in [Browsers -> BrowserRecords]
      /\ RecordsOk /\ PlacesAreHeld /\ LetGoIsRetired
  BY DEF WindowGood, WindowTypes, WindowInv
<1>2. /\ window' \in [Browsers -> WindowRecords] /\ window'[b] = w
      /\ \A c \in Browsers : c # b => window'[c] = window[c]
  BY <1>1
<1>3. holder' \in Holders /\ holder'.browser = NoBrowser /\ holder'.disposing = NoBrowser
  BY DEF Holders
<1>4. ASSUME NEW c \in Browsers
      PROVE  /\ window'[c].phase = "none" /\ browser'[c].tabs = 0
             /\ browser[c].used => browser'[c].contextRetired
  <2>1. CASE c = b
    BY <1>2, <2>1
  <2>2. CASE c # b
    <3>1. browser[c].tabs \in 0..MaxTabs /\ MaxTabs \in Nat
      BY <1>1, WindowAssumption DEF BrowserRecords, WindowAssumption
    <3>2. ~(window[c].phase # "none" \/ browser[c].tabs > 0)
      BY <1>1, <2>2 DEF PlacesAreHeld
    <3>. QED  BY <1>1, <1>2, <2>2, <3>1, <3>2 DEF LetGoIsRetired, OnlyBrowser
  <2>. QED  BY <2>1, <2>2
<1>5. Retiring
  BY DEF OnlyBrowser, Retiring
<1>6. RequestsOk'
  BY <1>4, <1>5, RetiredAge
<1>7. DisposedIsHeld' /\ RecordsOk' /\ PlacesAreHeld' /\ HeldIsUsed'
  <2>1. RecordsOk'
    BY <1>1, <1>2 DEF RecordsOk
  <2>. QED  BY <1>3, <1>4, <2>1, WindowAssumption DEF DisposedIsHeld, PlacesAreHeld, HeldIsUsed, WindowAssumption
<1>8. LetGoIsRetired'
  BY <1>4 DEF OnlyBrowser, LetGoIsRetired
<1>9. WindowTypes'
  BY <1>2, <1>3 DEF WindowGood, WindowTypes, OnlyBrowser, Staler
<1>10. switching.at \notin {"waiting", "true"}
  BY DEF WindowGood, WindowInv, SwitchWaits, Answered
<1>11. SwitchWaits' /\ SwitchConfirmed' /\ SwitchStale'
  BY <1>10 DEF SwitchWaits, SwitchConfirmed, SwitchStale
<1>. QED  BY <1>6, <1>7, <1>8, <1>9, <1>11 DEF WindowGood, WindowInv

LEMMA DisposeAliveKeeps ==
  ASSUME WindowGood, NEW b \in Browsers, holder.browser = b, ~Answered, opens' \in 0..MaxOpens,
         UNCHANGED switching, DisposeAlive(b)
  PROVE  WindowGood'
<1>1. PICK effect \in {"at once", "later", "refused"}, clean \in BOOLEAN :
       /\ window[b].flight => effect # "at once"
       /\ browser' = IF effect = "at once" THEN TornDown(b, clean) ELSE [browser EXCEPT ![b].contextRetired = TRUE]
       /\ window' = [window EXCEPT ![b] =
            IF effect = "at once" THEN RetiredRecord(b, clean)
            ELSE IF effect = "later" THEN [@ EXCEPT !.phase = "closing"]
            ELSE [@ EXCEPT !.phase = "failed", !.failure = TRUE]]
       /\ open' = EpochMoves(OpensReset(b, FALSE,
            IF effect = "refused" THEN open ELSE Settled(b, "rejected", open)))
       /\ holder' = IF effect = "at once" /\ clean
                    THEN [browser |-> NoBrowser, disposing |-> NoBrowser]
                    ELSE [holder EXCEPT !.disposing = b]
  BY DEF DisposeAlive
<1>. DEFINE asked == [window[b] EXCEPT !.phase = "closing"]
            refused == [window[b] EXCEPT !.phase = "failed", !.failure = TRUE]
            w == IF effect = "at once" THEN RetiredRecord(b, clean) ELSE IF effect = "later" THEN asked ELSE refused
            o == IF effect = "refused" THEN open ELSE Settled(b, "rejected", open)
<1>2. /\ window[b] \in WindowRecords /\ window \in [Browsers -> WindowRecords] /\ RecordOk(window[b])
      /\ window[b].alive /\ open \in [Requests -> OpenRecords]
  BY DEF WindowGood, WindowTypes, WindowInv, RecordsOk, DisposeAlive
<1>3. /\ asked \in WindowRecords /\ asked.phase = "closing" /\ asked.alive = window[b].alive
      /\ asked.flight = window[b].flight /\ asked.unconfirmed = window[b].unconfirmed
      /\ asked.cleanup = window[b].cleanup
  BY <1>2 DEF WindowRecords, Phases
<1>4. /\ refused \in WindowRecords /\ refused.phase = "failed" /\ refused.alive = window[b].alive
      /\ refused.flight = window[b].flight /\ refused.unconfirmed = window[b].unconfirmed
      /\ refused.cleanup = window[b].cleanup
  BY <1>2 DEF WindowRecords, Phases
<1>5. window' = [window EXCEPT ![b] = w]
  BY <1>1, <1>2
<1>. HIDE DEF asked, refused
<1>6. /\ w \in WindowRecords /\ RecordOk(w) /\ (window[b].flight => w.flight)
      /\ effect = "at once" /\ clean => w.phase = "none" /\ ~window[b].flight
  <2>1. CASE effect = "at once"
    <3>1. ~window[b].flight
      BY <1>1, <2>1
    <3>2. /\ RetiredRecord(b, clean) \in WindowRecords /\ ~RetiredRecord(b, clean).alive
          /\ RetiredRecord(b, clean).cleanup # "done" /\ ~RetiredRecord(b, clean).flight
          /\ clean => RetiredRecord(b, clean) = NoWindow
      BY <1>2, <3>1, RetiredRecordIs
    <3>3. w = RetiredRecord(b, clean)
      BY <2>1
    <3>. HIDE DEF w
    <3>4. RecordOk(w)
      BY <3>2, <3>3 DEF RecordOk
    <3>. QED  BY <3>1, <3>2, <3>3, <3>4, NoWindowIs
  <2>2. CASE effect = "later"
    BY <1>2, <1>3, <2>2 DEF RecordOk
  <2>3. CASE effect = "refused"
    BY <1>2, <1>4, <2>3 DEF RecordOk
  <2>. QED  BY <2>1, <2>2, <2>3
<1>. HIDE DEF w
<1>7. /\ OnlyBrowser(b) /\ browser'[b].contextRetired
      /\ effect = "at once" /\ clean => browser'[b].tabs = 0
  BY <1>1, TornDownIs
<1>8. Staler(open', open) /\ AllStale'
  <2>1. Staler(o, open)
    BY <1>2, OpenSettledIs, StalerItself DEF WindowGood
  <2>2. open' = EpochMoves(OpensReset(b, FALSE, o))
    BY <1>1
  <2>. HIDE DEF o
  <2>. QED  BY <2>1, <2>2, MovedAfterReset
<1>9. CASE effect = "at once" /\ clean
  <2>1. holder' = [browser |-> NoBrowser, disposing |-> NoBrowser]
    BY <1>1, <1>9
  <2>. QED  BY <1>5, <1>6, <1>7, <1>8, <1>9, <2>1, LetGo
<1>10. CASE ~(effect = "at once" /\ clean)
  <2>1. holder' = [holder EXCEPT !.disposing = b]
    BY <1>1, <1>10
  <2>. QED  BY <1>5, <1>6, <1>7, <1>8, <2>1, KeptAsDisposing
<1>. QED  BY <1>9, <1>10

LEMMA WindowItself ==
  ASSUME WindowGood, NEW b \in Browsers
  PROVE  window[b] \in WindowRecords /\ RecordOk(window[b]) /\ window = [window EXCEPT ![b] = window[b]]
BY DEF WindowGood, WindowTypes, WindowInv, RecordsOk

LEMMA DisposeGoneKeeps ==
  ASSUME WindowGood, NEW b \in Browsers, holder.browser = b, ~Answered, opens' \in 0..MaxOpens,
         UNCHANGED switching, DisposeGone(b)
  PROVE  WindowGood'
<1>1. PICK clean \in BOOLEAN :
       /\ browser' = IF window[b].phase = "none" THEN TornDown(b, clean)
                     ELSE [browser EXCEPT ![b].contextRetired = TRUE]
       /\ open' = EpochMoves(OpensReset(b, FALSE, open))
       /\ holder' = IF window[b].phase = "none" /\ clean
                    THEN [browser |-> NoBrowser, disposing |-> NoBrowser]
                    ELSE [holder EXCEPT !.disposing = b]
  BY DEF DisposeGone
<1>2. /\ window[b] \in WindowRecords /\ RecordOk(window[b]) /\ ~window[b].flight
      /\ window' = [window EXCEPT ![b] = window[b]]
  BY WindowItself DEF DisposeGone, RecordOk
<1>3. /\ OnlyBrowser(b) /\ browser'[b].contextRetired
      /\ window[b].phase = "none" /\ clean => browser'[b].tabs = 0
  BY <1>1, TornDownIs
<1>4. Staler(open', open) /\ AllStale'
  BY <1>1, MovedAfterReset, StalerItself DEF WindowGood
<1>5. CASE window[b].phase = "none" /\ clean
  <2>1. holder' = [browser |-> NoBrowser, disposing |-> NoBrowser]
    BY <1>1, <1>5
  <2>. QED  BY <1>2, <1>3, <1>4, <1>5, <2>1, LetGo
<1>6. CASE ~(window[b].phase = "none" /\ clean)
  <2>1. holder' = [holder EXCEPT !.disposing = b]
    BY <1>1, <1>6
  <2>. QED  BY <1>2, <1>3, <1>4, <2>1, KeptAsDisposing
<1>. QED  BY <1>5, <1>6

\* With no Browser, the requests that wait are given up.
LEMMA NoneHeld ==
  ASSUME WindowGood, holder.browser = NoBrowser, open' = EpochMoves(open), UNCHANGED <<holder, browser, window>>,
         opens' \in 0..MaxOpens, switching' \in Switches, SwitchWaits', SwitchConfirmed'
  PROVE  WindowGood'
<1>1. Staler(open', open) /\ AllStale'
  BY MovedAreStale, StalerItself DEF WindowGood
<1>2. \A b \in Browsers : browser[b].used => browser'[b].contextRetired
  BY WindowAssumption DEF WindowGood, WindowInv, LetGoIsRetired, WindowAssumption
<1>3. RequestsOk'
  BY <1>1, <1>2, RetiredAge, BrowserStays DEF WindowGood
<1>4. WindowTypes' /\ SwitchStale'
  BY <1>1 DEF WindowGood, WindowTypes, Staler, SwitchStale
<1>5. DisposedIsHeld' /\ RecordsOk' /\ PlacesAreHeld' /\ HeldIsUsed' /\ LetGoIsRetired'
  BY DEF WindowGood, WindowInv, DisposedIsHeld, RecordsOk, PlacesAreHeld, HeldIsUsed, LetGoIsRetired
<1>. QED  BY <1>3, <1>4, <1>5 DEF WindowGood, WindowInv

LEMMA DisposeKeeps ==
  ASSUME WindowGood, Dispose
  PROVE  WindowGood'
<1>1. opens' \in 0..MaxOpens /\ ~Answered /\ UNCHANGED switching
  BY OpensIsCounted DEF Dispose, WindowGood
<1>2. ASSUME NEW b \in Browsers, holder.browser = b, DisposeAlive(b) \/ DisposeGone(b)
      PROVE  WindowGood'
  BY <1>1, <1>2, DisposeAliveKeeps, DisposeGoneKeeps
<1>3. CASE holder.browser = NoBrowser /\ open' = EpochMoves(open) /\ UNCHANGED <<holder, browser, window>>
  <2>1. switching' \in Switches /\ SwitchWaits' /\ SwitchConfirmed'
    BY <1>1, <1>3, WindowAssumption
    DEF WindowGood, WindowTypes, WindowInv, SwitchWaits, SwitchConfirmed, Answered, WindowAssumption
  <2>. QED  BY <1>1, <1>3, <2>1, NoneHeld
<1>. QED  BY <1>2, <1>3 DEF Dispose

LEMMA SwitchCloseKeeps ==
  ASSUME WindowGood, SwitchClose
  PROVE  WindowGood'
<1>1. opens' \in 0..MaxOpens /\ switching.at = "idle"
  BY OpensIsCounted DEF SwitchClose, WindowGood
<1>2. /\ browser \in [Browsers -> BrowserRecords] /\ window \in [Browsers -> WindowRecords]
      /\ open \in [Requests -> OpenRecords] /\ MaxTabs \in Nat /\ PlacesAreHeld /\ NoBrowser \notin Browsers
  BY WindowAssumption DEF WindowGood, WindowTypes, WindowInv, WindowAssumption
<1>3. CASE /\ holder.browser = NoBrowser
           /\ open' = EpochMoves(open) /\ switching' = [at |-> "true", of |-> NoBrowser]
           /\ UNCHANGED <<holder, browser, window>>
  <2>1. ASSUME NEW b \in Browsers
        PROVE  window[b].phase = "none" /\ browser[b].tabs = 0
    <3>1. browser[b].tabs \in 0..MaxTabs
      BY <1>2 DEF BrowserRecords
    <3>. QED  BY <1>2, <1>3, <3>1 DEF PlacesAreHeld
  <2>2. switching' \in Switches /\ switching'.at = "true" /\ switching'.of = NoBrowser
    BY <1>3 DEF Switches
  <2>3. SwitchWaits' /\ SwitchConfirmed'
    BY <1>2, <1>3, <2>1, <2>2 DEF SwitchWaits, SwitchConfirmed
  <2>. QED  BY <1>1, <1>3, <2>2, <2>3, NoneHeld
<1>4. ASSUME NEW b \in Browsers, holder.browser = b, window[b].phase = "none", NEW clean \in BOOLEAN,
             browser' = TornDown(b, clean),
             switching' = [at |-> IF clean THEN "true" ELSE "false", of |-> b],
             open' = EpochMoves(OpensReset(b, FALSE, open)), UNCHANGED <<holder, window>>
      PROVE  WindowGood'
  <2>1. /\ window[b] \in WindowRecords /\ RecordOk(window[b]) /\ window' = [window EXCEPT ![b] = window[b]]
    BY <1>4, WindowItself
  <2>2. /\ OnlyBrowser(b) /\ browser'[b].contextRetired
        /\ clean => browser'[b].tabs = 0
    BY <1>4, TornDownIs
  <2>3. Staler(open', open) /\ AllStale'
    BY <1>4, MovedAfterReset, StalerItself DEF WindowGood
  <2>4. switching' \in Switches /\ switching'.at = (IF clean THEN "true" ELSE "false") /\ switching'.of = b
    BY <1>4 DEF Switches
  <2>5. /\ SwitchWaits' /\ SwitchConfirmed' => WindowGood'
        /\ \A c \in Browsers : c # b => window'[c].phase = "none" /\ browser'[c].tabs = 0
    BY <1>1, <1>4, <2>1, <2>2, <2>3, <2>4, HeldIsRetired
  <2>6. SwitchWaits' /\ SwitchConfirmed'
    BY <1>4, <2>2, <2>4, <2>5 DEF SwitchWaits, SwitchConfirmed
  <2>. QED  BY <2>5, <2>6
<1>5. ASSUME NEW b \in Browsers, holder.browser = b, ~window[b].alive,
             browser' = [browser EXCEPT ![b].contextRetired = TRUE],
             switching' = [at |-> IF window[b].cleanup = "done" /\ ~window[b].unconfirmed
                                  THEN "true" ELSE "false", of |-> b],
             open' = EpochMoves(open), UNCHANGED <<holder, window>>
      PROVE  WindowGood'
  <2>1. /\ window[b] \in WindowRecords /\ RecordOk(window[b]) /\ window' = [window EXCEPT ![b] = window[b]]
    BY <1>5, WindowItself
  <2>2. OnlyBrowser(b) /\ browser'[b].contextRetired
    BY <1>5, TornDownIs
  <2>3. Staler(open', open) /\ AllStale'
    BY <1>5, MovedAreStale, StalerItself DEF WindowGood
  <2>4. ~(window[b].cleanup = "done" /\ ~window[b].unconfirmed)
    BY <2>1 DEF RecordOk
  <2>5. switching' \in Switches /\ switching'.at = "false"
    BY <1>5, <2>4 DEF Switches
  <2>6. SwitchWaits' /\ SwitchConfirmed'
    BY <2>5 DEF SwitchWaits, SwitchConfirmed
  <2>. QED  BY <1>1, <1>5, <2>1, <2>2, <2>3, <2>5, <2>6, HeldIsRetired
<1>6. ASSUME NEW b \in Browsers, holder.browser = b, window[b].alive,
             browser' = [browser EXCEPT ![b].contextRetired = TRUE],
             switching' = [at |-> "waiting", of |-> b],
             window' = [window EXCEPT ![b].flight = TRUE, ![b].phase = "closing"],
             open' = EpochMoves(Settled(b, "rejected", open)), UNCHANGED holder
      PROVE  WindowGood'
  <2>. DEFINE w == [[window[b] EXCEPT !.flight = TRUE] EXCEPT !.phase = "closing"]
  <2>1. window[b] \in WindowRecords /\ RecordOk(window[b])
    BY WindowItself
  <2>2. /\ w \in WindowRecords /\ w.flight /\ w.phase = "closing" /\ w.alive = window[b].alive
        /\ w.unconfirmed = window[b].unconfirmed /\ w.cleanup = window[b].cleanup
    BY <2>1 DEF WindowRecords, Phases
  <2>3. window' = [window EXCEPT ![b] = w]
    BY <1>2, <1>6
  <2>. HIDE DEF w
  <2>4. RecordOk(w)
    BY <1>6, <2>1, <2>2 DEF RecordOk
  <2>5. OnlyBrowser(b) /\ browser'[b].contextRetired
    BY <1>6, TornDownIs
  <2>6. Staler(open', open) /\ AllStale'
    BY <1>2, <1>6, OpenSettledIs, MovedAreStale DEF WindowGood
  <2>7. switching' \in Switches /\ switching'.at = "waiting" /\ switching'.of = b
    BY <1>6 DEF Switches
  <2>8. /\ SwitchWaits' /\ SwitchConfirmed' => WindowGood'
        /\ holder'.browser = b /\ window'[b] = w
    BY <1>1, <1>6, <2>2, <2>3, <2>4, <2>5, <2>6, <2>7, HeldIsRetired
  <2>9. SwitchWaits' /\ SwitchConfirmed'
    BY <2>2, <2>5, <2>7, <2>8 DEF SwitchWaits, SwitchConfirmed
  <2>. QED  BY <2>8, <2>9
<1>. QED  BY <1>3, <1>4, <1>5, <1>6 DEF SwitchClose

LEMMA SwitchClosedKeeps ==
  ASSUME WindowGood, SwitchClosed
  PROVE  WindowGood'
<1>. DEFINE d == switching.of
            let == [browser |-> IF holder.browser = d THEN NoBrowser ELSE holder.browser,
                    disposing |-> IF holder.disposing = d THEN NoBrowser ELSE holder.disposing]
<1>1. /\ holder \in Holders /\ DisposedIsHeld /\ SwitchConfirmed /\ LetGoIsRetired /\ HeldIsUsed
      /\ PlacesAreHeld /\ browser \in [Browsers -> BrowserRecords] /\ NoBrowser \notin Browsers
  BY WindowAssumption DEF WindowGood, WindowTypes, WindowInv, WindowAssumption
<1>2. /\ Answered /\ switching' = [at |-> "idle", of |-> NoBrowser] /\ UNCHANGED <<browser, window, open, opens>>
      /\ holder' = IF switching.at = "false" THEN holder ELSE let
  BY DEF SwitchClosed
<1>3. /\ switching' \in Switches /\ SwitchWaits' /\ SwitchConfirmed' /\ SwitchStale'
  BY <1>2 DEF Switches, SwitchWaits, SwitchConfirmed, SwitchStale
<1>4. RecordsOk' /\ RequestsOk'
  BY <1>2 DEF WindowGood, WindowInv, RecordsOk, RequestsOk, OpenRequestOk, OpenCurrent
<1>5. holder' \in Holders /\ DisposedIsHeld' /\ PlacesAreHeld' /\ HeldIsUsed' /\ LetGoIsRetired'
  <2>1. CASE switching.at = "false"
    BY <1>1, <1>2, <2>1 DEF DisposedIsHeld, PlacesAreHeld, HeldIsUsed, LetGoIsRetired
  <2>2. CASE switching.at # "false"
    <3>1. switching.at = "true" /\ holder' = let
      BY <1>2, <2>2 DEF Answered
    <3>2. let \in Holders /\ let.browser = (IF holder.browser = d THEN NoBrowser ELSE holder.browser)
          /\ let.disposing = (IF holder.disposing = d THEN NoBrowser ELSE holder.disposing)
      BY <1>1 DEF Holders
    <3>. HIDE DEF let
    <3>3. holder' \in Holders /\ DisposedIsHeld'
      BY <1>1, <3>1, <3>2 DEF DisposedIsHeld
    <3>4. PlacesAreHeld'
      BY <1>1, <1>2, <3>1 DEF SwitchConfirmed, PlacesAreHeld
    <3>5. HeldIsUsed'
      BY <1>1, <1>2, <3>1, <3>2 DEF HeldIsUsed
    <3>6. LetGoIsRetired'
      BY <1>1, <1>2, <3>1, <3>2 DEF LetGoIsRetired, SwitchConfirmed
    <3>. QED  BY <3>3, <3>4, <3>5, <3>6
  <2>. QED  BY <2>1, <2>2
<1>6. WindowTypes'
  BY <1>2, <1>3, <1>5 DEF WindowGood, WindowTypes
<1>. QED  BY <1>3, <1>4, <1>5, <1>6 DEF WindowGood, WindowInv

-----------------------------------------------------------------------------
(* The theorems *)

LEMMA WindowAtFirst ==
  ASSUME WindowInit
  PROVE  WindowGood
<1>1. /\ 0 \in 0..MaxTabs /\ 0 \in 0..MaxOpens /\ NoBrowser \notin Browsers
  BY WindowAssumption DEF WindowAssumption
<1>2. holder \in Holders /\ holder.browser = NoBrowser /\ holder.disposing = NoBrowser
  BY DEF WindowInit, Holders
<1>3. /\ browser \in [Browsers -> BrowserRecords]
      /\ \A b \in Browsers : ~browser[b].used /\ browser[b].tabs = 0
  BY <1>1 DEF WindowInit, BrowserRecords
<1>4. window \in [Browsers -> WindowRecords] /\ \A b \in Browsers : window[b] = NoWindow
  BY NoWindowIs DEF WindowInit
<1>5. open \in [Requests -> OpenRecords] /\ \A r \in Requests : open[r] = IdleOpen
  BY NoRequest DEF WindowInit
<1>6. switching \in Switches /\ switching.at = "idle" /\ opens = 0
  BY DEF WindowInit, Switches
<1>7. WindowTypes
  BY <1>1, <1>2, <1>3, <1>4, <1>5, <1>6 DEF WindowTypes
<1>8. DisposedIsHeld /\ HeldIsUsed /\ LetGoIsRetired
  BY <1>1, <1>2, <1>3 DEF DisposedIsHeld, HeldIsUsed, LetGoIsRetired
<1>9. RecordsOk /\ PlacesAreHeld
  BY <1>3, <1>4, NoWindowIs DEF RecordsOk, PlacesAreHeld
<1>10. RequestsOk
  BY <1>5, NoRequest DEF RequestsOk, OpenRequestOk
<1>11. SwitchWaits /\ SwitchConfirmed /\ SwitchStale
  BY <1>6 DEF SwitchWaits, SwitchConfirmed, SwitchStale
<1>. QED  BY <1>7, <1>8, <1>9, <1>10, <1>11 DEF WindowGood, WindowInv

LEMMA WindowKept == WindowGood /\ [WindowNext]_windowVars => WindowGood'
<1>. SUFFICES ASSUME WindowGood, [WindowNext]_windowVars PROVE WindowGood'
  OBVIOUS
<1>1. ASSUME NEW r \in Requests, OpenStart(r) \/ OpenConnected(r) \/ OpenRouted(r) \/ OpenShown(r)
      PROVE  WindowGood'
  BY <1>1, OpenStartKeeps, OpenConnectedKeeps, OpenRoutedKeeps, OpenShownKeeps
<1>2. ASSUME NEW b \in Browsers, WindowLoads(b) \/ WindowLoadFails(b) \/ WindowClosed(b) \/ CloseTimesOut(b)
      PROVE  WindowGood'
  BY <1>2, WindowLoadsKeeps, WindowLoadFailsKeeps, WindowClosedKeeps, CloseTimesOutKeeps
<1>3. CASE Dispose \/ SwitchClose \/ SwitchClosed
  BY <1>3, DisposeKeeps, SwitchCloseKeeps, SwitchClosedKeeps
<1>4. CASE UNCHANGED windowVars
  BY <1>4 DEF windowVars, WindowGood, WindowTypes, WindowInv, DisposedIsHeld, RecordsOk, PlacesAreHeld,
     HeldIsUsed, LetGoIsRetired, RequestsOk, OpenRequestOk, OpenCurrent, SwitchWaits, SwitchConfirmed,
     SwitchStale, AllStale
<1>. QED  BY <1>1, <1>2, <1>3, <1>4 DEF WindowNext

LEMMA WindowIsSafe ==
  ASSUME WindowGood
  PROVE  WindowSafety
<1>1. WindowTypeOK
  BY WindowTypesAre DEF WindowGood
<1>2. NoTabAfterRetirement
  BY DEF WindowGood, WindowInv, RequestsOk, NoTabAfterRetirement
<1>3. OneWindow
  BY AliveIsThere DEF WindowGood, WindowInv, PlacesAreHeld, OneWindow
<1>4. ConfirmedCloseIsComplete
  BY AliveIsThere DEF WindowGood, WindowInv, SwitchConfirmed, ConfirmedCloseIsComplete
<1>. QED  BY <1>1, <1>2, <1>3, <1>4 DEF WindowSafety

\* There is one window, and the Browser that has it keeps its place; a request that
\* was still waiting opens no tab in a Browser that was let go; and a switch is told
\* that the Browser is closed only when no window and no tab of it are left
\* (CampusBrowserManager, openBrowser, closeForContextSwitch).
THEOREM WindowCorrect == WindowSpec => []WindowSafety
<1>1. WindowInit => WindowGood
  BY WindowAtFirst
<1>2. WindowGood => WindowSafety
  BY WindowIsSafe
<1>. QED  BY <1>1, <1>2, WindowKept, PTL DEF WindowSpec

-----------------------------------------------------------------------------
(* The tabs.  Ids are not used twice, so no command waits on a tab that is    *)
(* yet to come; what the strip, the pages and the toolbar say fits together   *)
(* after every step, whichever native call of it has failed.                  *)

-----------------------------------------------------------------------------
(* The invariant *)

Strips == [active : {NoTab} \cup TabIds, attached : {NoTab} \cup TabIds, next : 1..MaxTabId + 1]
PageStates == [kind : Kinds, loading : BOOLEAN, slow : BOOLEAN, timer : BOOLEAN, gone : BOOLEAN]
Waits == [at : {"none", "navigate", "reload", "home", "new", "rule", "route"},
          tab : {NoTab} \cup TabIds, intent : BOOLEAN]
Toolbars == [scheduled : BOOLEAN, shows : {"present", "past", "failure"}]

TabStrip(ts) == ts \in Seq(TabIds) /\ IsInjective(ts) /\ Len(ts) <= MaxOpenTabs

\* Ids are not used twice, so no command waits on a tab that is yet to come.
NextIsNew ==
  /\ \A t \in Range(tabs) : t < strip.next
  /\ \A c \in Commands : waiting[c].tab < strip.next

\* A toolbar that is left behind belongs to a page that is gone.
ToolbarIsBehind ==
  ~toolbar.scheduled /\ toolbar.shows = "past" => strip.active = NoTab \/ pages[strip.active].gone

TabsTyped ==
  /\ TabStrip(tabs) /\ strip \in Strips /\ pages \in [TabIds -> PageStates]
  /\ waiting \in [Commands -> Waits] /\ moved \in [Commands -> BOOLEAN] /\ toolbar \in Toolbars

StripOk == OnlyActiveAttached /\ SomeTabActive

TabsInv == TabsTyped /\ NextIsNew /\ StripOk /\ LoadsAreWanted /\ SlowMeansLoading /\ ToolbarIsBehind

-----------------------------------------------------------------------------
(* Sequences of tabs *)

LEMMA TabIdsAre == TabIds \subseteq Int /\ NoTab \notin TabIds /\ MaxTabId \in Nat /\ MaxOpenTabs \in Nat
                   /\ 1 \in TabIds /\ \A t \in TabIds : 1 <= t /\ t <= MaxTabId
BY TabsAssumption DEF TabsAssumption, TabIds, NoTab

LEMMA SeqIs ==
  ASSUME NEW s \in Seq(TabIds)
  PROVE  /\ Len(s) \in Nat /\ DOMAIN s = 1..Len(s) /\ \A i \in 1..Len(s) : s[i] \in TabIds
         /\ Range(s) \subseteq TabIds /\ \A i \in 1..Len(s) : s[i] \in Range(s)
         /\ \A t \in Range(s) : \E i \in 1..Len(s) : s[i] = t
         /\ s = <<>> <=> Len(s) = 0
         /\ s = <<>> <=> Range(s) = {}
<1>1. Len(s) \in Nat /\ DOMAIN s = 1..Len(s) /\ \A i \in 1..Len(s) : s[i] \in TabIds
  BY LenProperties, ElementOfSeq
<1>2. s = <<>> <=> Len(s) = 0
  BY EmptySeq, SeqEqual
<1>3. /\ Range(s) \subseteq TabIds /\ \A i \in 1..Len(s) : s[i] \in Range(s)
      /\ \A t \in Range(s) : \E i \in 1..Len(s) : s[i] = t
  BY <1>1 DEF Range
<1>4. Range(s) = {} <=> Len(s) = 0
  BY <1>1, <1>3
<1>. QED  BY <1>1, <1>2, <1>3, <1>4

LEMMA AppendedIs ==
  ASSUME NEW s \in Seq(TabIds), IsInjective(s), NEW t \in TabIds, t \notin Range(s)
  PROVE  /\ Append(s, t) \in Seq(TabIds) /\ IsInjective(Append(s, t)) /\ Len(Append(s, t)) = Len(s) + 1
         /\ Range(Append(s, t)) = Range(s) \cup {t}
<1>. DEFINE r == Append(s, t)
<1>1. /\ r \in Seq(TabIds) /\ Len(r) = Len(s) + 1 /\ r[Len(s) + 1] = t /\ \A i \in 1..Len(s) : r[i] = s[i]
  BY AppendProperties
<1>2. Len(s) \in Nat /\ DOMAIN s = 1..Len(s) /\ DOMAIN r = 1..Len(s) + 1
  BY <1>1, LenProperties
<1>3. /\ \A i \in 1..Len(s) : s[i] \in Range(s)
      /\ \A u \in Range(s) : \E i \in 1..Len(s) : s[i] = u
  BY SeqIs
<1>. HIDE DEF r
<1>4. IsInjective(r)
  BY <1>1, <1>2, <1>3 DEF IsInjective
<1>5. Range(r) = Range(s) \cup {t}
  BY <1>1, <1>2, <1>3 DEF Range
<1>. QED  BY <1>1, <1>4, <1>5 DEF r

\* Where an element of the shorter sequence stood.
Before(i, k) == IF k < i THEN k ELSE k + 1

LEMMA BeforeIs ==
  ASSUME NEW n \in Nat, NEW i \in 1..n
  PROVE  /\ \A k \in 1..n - 1 : Before(i, k) \in 1..n /\ Before(i, k) # i
         /\ \A k, l \in 1..n - 1 : Before(i, k) = Before(i, l) => k = l
         /\ \A m \in 1..n : m # i => \E k \in 1..n - 1 : Before(i, k) = m
<1>1. i \in Int /\ 1 <= i /\ i <= n
  OBVIOUS
<1>2. ASSUME NEW m \in 1..n, m # i
      PROVE  \E k \in 1..n - 1 : Before(i, k) = m
  <2>1. CASE m < i
    <3>1. m \in 1..n - 1 /\ Before(i, m) = m
      BY <1>1, <2>1 DEF Before
    <3>. QED  BY <3>1
  <2>2. CASE m > i
    <3>1. m - 1 \in 1..n - 1 /\ Before(i, m - 1) = m
      BY <1>1, <2>2 DEF Before
    <3>. QED  BY <3>1
  <2>. QED  BY <1>1, <1>2, <2>1, <2>2
<1>3. \A k \in 1..n - 1 : Before(i, k) \in 1..n /\ Before(i, k) # i
  BY <1>1 DEF Before
<1>4. \A k, l \in 1..n - 1 : Before(i, k) = Before(i, l) => k = l
  BY <1>1 DEF Before
<1>. QED  BY <1>2, <1>3, <1>4

LEMMA RemoveAtIs ==
  ASSUME NEW s \in Seq(TabIds), NEW i \in 1..Len(s)
  PROVE  /\ RemoveAt(s, i) \in Seq(TabIds) /\ Len(RemoveAt(s, i)) = Len(s) - 1
         /\ \A k \in 1..Len(s) - 1 : RemoveAt(s, i)[k] = s[Before(i, k)]
<1>. DEFINE n == Len(s)
            a == SubSeq(s, 1, i - 1)
            b == SubSeq(s, i + 1, n)
            r == a \o b
<1>1. n \in Nat /\ \A k \in 1..n : s[k] \in TabIds
  BY SeqIs
<1>2. RemoveAt(s, i) = r
  BY DEF RemoveAt
<1>. HIDE DEF n
<1>3. i \in Int /\ 1 <= i /\ i <= n
  BY <1>1 DEF n
<1>4. a \in Seq(TabIds) /\ Len(a) = i - 1 /\ \A k \in 1..i - 1 : a[k] = s[k]
  <2>1. 1 \in Int /\ i - 1 \in Int /\ \A k \in 1..i - 1 : s[k] \in TabIds
    BY <1>1, <1>3
  <2>2. /\ a \in Seq(TabIds) /\ Len(a) = (IF 1 <= i - 1 THEN i - 1 - 1 + 1 ELSE 0)
        /\ \A k \in 1..i - 1 - 1 + 1 : a[k] = s[1 + k - 1]
    BY <2>1, SubSeqProperties
  <2>. HIDE DEF a
  <2>3. i - 1 - 1 + 1 = i - 1 /\ \A k \in 1..i - 1 : 1 + k - 1 = k
    BY <1>3
  <2>. QED  BY <1>3, <2>2, <2>3
<1>5. b \in Seq(TabIds) /\ Len(b) = n - i /\ \A k \in 1..n - i : b[k] = s[i + k]
  <2>1. i + 1 \in Int /\ n \in Int /\ \A k \in i + 1..n : s[k] \in TabIds
    BY <1>1, <1>3
  <2>2. /\ b \in Seq(TabIds) /\ Len(b) = (IF i + 1 <= n THEN n - (i + 1) + 1 ELSE 0)
        /\ \A k \in 1..n - (i + 1) + 1 : b[k] = s[i + 1 + k - 1]
    BY <2>1, SubSeqProperties
  <2>. HIDE DEF b
  <2>3. n - (i + 1) + 1 = n - i /\ \A k \in 1..n - i : i + 1 + k - 1 = i + k
    BY <1>1, <1>3
  <2>4. Len(b) = n - i
    BY <1>1, <1>3, <2>2
  <2>. QED  BY <2>2, <2>3, <2>4
<1>. HIDE DEF a, b
<1>6. /\ r \in Seq(TabIds) /\ Len(r) = Len(a) + Len(b)
      /\ \A k \in 1..Len(a) + Len(b) : r[k] = IF k <= Len(a) THEN a[k] ELSE b[k - Len(a)]
  BY <1>4, <1>5, ConcatProperties
<1>. HIDE DEF r
<1>7. Len(a) + Len(b) = n - 1
  BY <1>1, <1>3, <1>4, <1>5
<1>8. ASSUME NEW k \in 1..n - 1
      PROVE  r[k] = s[Before(i, k)]
  <2>1. r[k] = IF k <= i - 1 THEN a[k] ELSE b[k - (i - 1)]
    BY <1>4, <1>6, <1>7
  <2>2. CASE k < i
    <3>1. k <= i - 1 /\ k \in 1..i - 1
      BY <1>1, <1>3, <2>2
    <3>. QED  BY <1>4, <2>1, <2>2, <3>1 DEF Before
  <2>3. CASE ~(k < i)
    <3>1. k - (i - 1) \in 1..n - i /\ i + (k - (i - 1)) = k + 1 /\ ~(k <= i - 1)
      BY <1>1, <1>3, <2>3
    <3>. QED  BY <1>5, <2>1, <2>3, <3>1 DEF Before
  <2>. QED  BY <2>2, <2>3
<1>. QED  BY <1>2, <1>6, <1>7, <1>8 DEF n

LEMMA RemovedIs ==
  ASSUME NEW s \in Seq(TabIds), IsInjective(s), NEW i \in 1..Len(s)
  PROVE  /\ RemoveAt(s, i) \in Seq(TabIds) /\ IsInjective(RemoveAt(s, i)) /\ Len(RemoveAt(s, i)) = Len(s) - 1
         /\ Range(RemoveAt(s, i)) = Range(s) \ {s[i]}
<1>. DEFINE n == Len(s)
            r == RemoveAt(s, i)
<1>1. n \in Nat /\ DOMAIN s = 1..n
  BY SeqIs
<1>2. r \in Seq(TabIds) /\ Len(r) = n - 1 /\ \A k \in 1..n - 1 : r[k] = s[Before(i, k)]
  BY RemoveAtIs
<1>3. DOMAIN r = 1..n - 1
  BY <1>2, LenProperties
<1>. HIDE DEF n, r
<1>4. /\ i \in 1..n /\ \A k \in 1..n - 1 : Before(i, k) \in 1..n /\ Before(i, k) # i
      /\ \A k, l \in 1..n - 1 : Before(i, k) = Before(i, l) => k = l
      /\ \A m \in 1..n : m # i => \E k \in 1..n - 1 : Before(i, k) = m
  BY <1>1, BeforeIs DEF n
<1>5. IsInjective(r)
  BY <1>1, <1>2, <1>3, <1>4 DEF IsInjective
<1>6. Range(r) = Range(s) \ {s[i]}
  <2>1. /\ \A t : t \in Range(r) <=> \E k \in 1..n - 1 : t = r[k]
        /\ \A t : t \in Range(s) <=> \E m \in 1..n : t = s[m]
    BY <1>1, <1>3 DEF Range
  <2>2. ASSUME NEW t \in Range(r)
        PROVE  t \in Range(s) \ {s[i]}
    <3>1. PICK k \in 1..n - 1 : t = s[Before(i, k)]
      BY <1>2, <2>1
    <3>2. t \in Range(s)
      BY <1>4, <2>1, <3>1
    <3>3. t # s[i]
      BY <1>1, <1>4, <3>1 DEF IsInjective
    <3>. QED  BY <3>2, <3>3
  <2>3. ASSUME NEW t \in Range(s), t # s[i]
        PROVE  t \in Range(r)
    <3>1. PICK m \in 1..n : t = s[m]
      BY <2>1
    <3>2. PICK k \in 1..n - 1 : Before(i, k) = m
      BY <1>4, <2>3, <3>1
    <3>. QED  BY <1>2, <2>1, <3>1, <3>2
  <2>. QED  BY <2>2, <2>3
<1>. QED  BY <1>2, <1>5, <1>6 DEF n, r

-----------------------------------------------------------------------------
(* Commands *)

LEMMA NewIntentIs ==
  ASSUME NEW w \in [Commands -> Waits], NEW t
  PROVE  /\ NewIntent(w, t) \in [Commands -> Waits]
         /\ \A c \in Commands : NewIntent(w, t)[c].tab = w[c].tab
         /\ \A c \in Commands : NewIntent(w, t)[c].intent => w[c].intent /\ (t = NoTab \/ w[c].tab # t)
<1>. DEFINE superseded(x) == [x EXCEPT !.intent = FALSE]
<1>1. \A x \in Waits : superseded(x) \in Waits /\ superseded(x).tab = x.tab /\ ~superseded(x).intent
  BY DEF Waits
<1>2. NewIntent(w, t) = [c \in Commands |-> IF t # NoTab /\ w[c].tab = t THEN superseded(w[c]) ELSE w[c]]
  BY DEF NewIntent
<1>. HIDE DEF superseded
<1>. QED  BY <1>1, <1>2

LEMMA NoCommandWaitsIs == NoCommandWaits \in Waits /\ NoCommandWaits.tab = NoTab
BY DEF NoCommandWaits, Waits

LEMMA ReleasedIs ==
  ASSUME waiting \in [Commands -> Waits], moved \in [Commands -> BOOLEAN], NEW c \in Commands
  PROVE  /\ Released(c) \in [Commands -> Waits] /\ Rested(c) \in [Commands -> BOOLEAN]
         /\ Released(c)[c] = NoCommandWaits /\ ~Rested(c)[c]
         /\ \A x \in Commands : x # c => Released(c)[x] = waiting[x] /\ Rested(c)[x] = moved[x]
BY NoCommandWaitsIs DEF Released, Rested

\* What the commands that wait may be, for the tabs opened and the pages there.
Wanted(w, m, opened, pg) ==
  \A c \in Commands : m[c] => ~w[c].intent \/ w[c].tab \notin opened \/ pg[w[c].tab].gone
Earlier(w, n) == \A c \in Commands : w[c].tab < n

LEMMA WantedIs == LoadsAreWanted <=> Wanted(waiting, moved, Range(tabs), pages)
BY DEF LoadsAreWanted, Wanted, IntentCurrent, Live, Open

LEMMA ReleasedWanted ==
  ASSUME waiting \in [Commands -> Waits], moved \in [Commands -> BOOLEAN], NEW c \in Commands,
         NEW opened, NEW pg, Wanted(waiting, moved, opened, pg), NEW n \in Nat \ {0}, Earlier(waiting, n)
  PROVE  Wanted(Released(c), Rested(c), opened, pg) /\ Earlier(Released(c), n)
<1>1. NoTab < n
  BY DEF NoTab
<1>. QED  BY <1>1, ReleasedIs, NoCommandWaitsIs DEF Wanted, Earlier

\* The user goes on with tab t.
LEMMA MovedWanted ==
  ASSUME NEW w \in [Commands -> Waits], NEW m \in [Commands -> BOOLEAN], NEW t, NEW k,
         k = [c \in Commands |-> m[c] \/ (t # NoTab /\ w[c].tab = t)],
         NEW opened, NEW pg, Wanted(w, m, opened, pg), NEW n, Earlier(w, n)
  PROVE  /\ NewIntent(w, t) \in [Commands -> Waits] /\ k \in [Commands -> BOOLEAN]
         /\ Wanted(NewIntent(w, t), k, opened, pg) /\ Earlier(NewIntent(w, t), n)
<1>1. k \in [Commands -> BOOLEAN]
  OBVIOUS
<1>2. Earlier(NewIntent(w, t), n)
  BY NewIntentIs DEF Earlier
<1>3. Wanted(NewIntent(w, t), k, opened, pg)
  <2>. SUFFICES ASSUME NEW c \in Commands, k[c]
                PROVE  LET x == NewIntent(w, t)[c] IN ~x.intent \/ x.tab \notin opened \/ pg[x.tab].gone
    BY DEF Wanted
  <2>1. m[c] \/ (t # NoTab /\ w[c].tab = t)
    OBVIOUS
  <2>. QED  BY <2>1, NewIntentIs DEF Wanted
<1>. QED  BY <1>1, <1>2, <1>3, NewIntentIs

-----------------------------------------------------------------------------
(* Steps *)

LEMMA InvIs ==
  ASSUME TabsInv
  PROVE  /\ TabsTyped /\ NextIsNew /\ StripOk /\ SlowMeansLoading /\ ToolbarIsBehind
         /\ tabs \in Seq(TabIds) /\ IsInjective(tabs) /\ Len(tabs) <= MaxOpenTabs
         /\ strip \in Strips /\ pages \in [TabIds -> PageStates] /\ waiting \in [Commands -> Waits]
         /\ moved \in [Commands -> BOOLEAN] /\ toolbar \in Toolbars
         /\ Wanted(waiting, moved, Range(tabs), pages) /\ Earlier(waiting, strip.next)
         /\ strip.next \in Nat \ {0} /\ strip.next <= MaxTabId + 1
         /\ strip.active \in {NoTab} \cup TabIds /\ strip.attached \in {NoTab} \cup TabIds
         /\ Range(tabs) \subseteq TabIds
<1>1. TabsTyped /\ NextIsNew /\ StripOk /\ SlowMeansLoading /\ ToolbarIsBehind /\ LoadsAreWanted
  BY DEF TabsInv
<1>2. /\ tabs \in Seq(TabIds) /\ IsInjective(tabs) /\ Len(tabs) <= MaxOpenTabs
      /\ strip \in Strips /\ pages \in [TabIds -> PageStates] /\ waiting \in [Commands -> Waits]
      /\ moved \in [Commands -> BOOLEAN] /\ toolbar \in Toolbars
  BY <1>1 DEF TabsTyped, TabStrip
<1>3. strip.next \in 1..MaxTabId + 1 /\ strip.active \in {NoTab} \cup TabIds /\ strip.attached \in {NoTab} \cup TabIds
  BY <1>2 DEF Strips
<1>4. strip.next \in Nat \ {0} /\ strip.next <= MaxTabId + 1
  BY <1>3, TabIdsAre
<1>5. Range(tabs) \subseteq TabIds
  BY <1>2, SeqIs
<1>. QED  BY <1>1, <1>2, <1>3, <1>4, <1>5, WantedIs DEF Earlier, NextIsNew

LEMMA ShownIs == Shown => toolbar' \in Toolbars /\ ToolbarIsBehind'
BY DEF Shown, Toolbars, ToolbarIsBehind

\* Only the commands change, and perhaps the toolbar.
LEMMA CommandsChange ==
  ASSUME TabsInv, UNCHANGED <<tabs, strip, pages>>, waiting' \in [Commands -> Waits],
         moved' \in [Commands -> BOOLEAN], Earlier(waiting', strip.next),
         Wanted(waiting', moved', Range(tabs), pages), Shown \/ UNCHANGED toolbar
  PROVE  TabsInv'
<1>1. TabsTyped'
  BY InvIs, ShownIs DEF TabsTyped, TabStrip
<1>2. NextIsNew'
  BY InvIs DEF NextIsNew, Earlier
<1>3. StripOk'
  BY InvIs DEF StripOk, OnlyActiveAttached, SomeTabActive, Open
<1>4. LoadsAreWanted'
  BY DEF LoadsAreWanted, Wanted, IntentCurrent, Live, Open
<1>5. SlowMeansLoading'
  BY InvIs DEF SlowMeansLoading, Live, Open
<1>6. ToolbarIsBehind'
  BY InvIs, ShownIs DEF ToolbarIsBehind
<1>. QED  BY <1>1, <1>2, <1>3, <1>4, <1>5, <1>6 DEF TabsInv

LEMMA DroppedKeeps ==
  ASSUME TabsInv, NEW c \in Commands, waiting' = Released(c), moved' = Rested(c), UNCHANGED <<tabs, strip, pages>>,
         Shown \/ UNCHANGED toolbar
  PROVE  TabsInv'
<1>1. Wanted(Released(c), Rested(c), Range(tabs), pages) /\ Earlier(Released(c), strip.next)
  BY InvIs, ReleasedWanted
<1>2. Released(c) \in [Commands -> Waits] /\ Rested(c) \in [Commands -> BOOLEAN]
  BY InvIs, ReleasedIs
<1>. QED  BY <1>1, <1>2, CommandsChange

LEMMA CommandWaitsKeeps ==
  ASSUME TabsInv, NEW c \in Commands, NEW t \in TabIds, NEW at \in {"navigate", "reload", "home", "rule"},
         CommandWaits(c, at, t)
  PROVE  TabsInv'
<1>. DEFINE w == NewIntent(waiting, t)
            m == Moved(t)
            x == [at |-> at, tab |-> t, intent |-> TRUE]
<1>1. /\ waiting' = [w EXCEPT ![c] = x] /\ moved' = [m EXCEPT ![c] = FALSE]
      /\ UNCHANGED <<tabs, strip, pages, toolbar>> /\ t \in Range(tabs)
  BY DEF CommandWaits, Live, Open
<1>2. m = [d \in Commands |-> moved[d] \/ (t # NoTab /\ waiting[d].tab = t)]
  BY DEF Moved
<1>3. /\ w \in [Commands -> Waits] /\ m \in [Commands -> BOOLEAN]
      /\ Wanted(w, m, Range(tabs), pages) /\ Earlier(w, strip.next)
  BY <1>2, InvIs, MovedWanted
<1>4. x \in Waits /\ x.tab = t /\ t < strip.next
  BY <1>1, InvIs DEF Waits, NextIsNew
<1>. HIDE DEF w, m, x
<1>5. waiting' \in [Commands -> Waits] /\ moved' \in [Commands -> BOOLEAN]
  BY <1>1, <1>3, <1>4
<1>6. waiting'[c] = x /\ ~moved'[c] /\ \A d \in Commands : d # c => waiting'[d] = w[d] /\ moved'[d] = m[d]
  BY <1>1, <1>3
<1>7. Earlier(waiting', strip.next)
  BY <1>3, <1>4, <1>6 DEF Earlier
<1>8. Wanted(waiting', moved', Range(tabs), pages)
  BY <1>3, <1>6 DEF Wanted
<1>. QED  BY <1>1, <1>5, <1>7, <1>8, CommandsChange

\* A command for a new tab, which waits on none.
LEMMA AskedIs ==
  ASSUME TabsInv, NEW c \in Commands, NEW w, w = [waiting EXCEPT ![c] = [NoCommandWaits EXCEPT !.at = "new"]]
  PROVE  /\ w \in [Commands -> Waits] /\ Earlier(w, strip.next)
         /\ \A m, opened, pg : opened \subseteq TabIds /\ Wanted(waiting, m, opened, pg) => Wanted(w, m, opened, pg)
<1>. DEFINE x == [NoCommandWaits EXCEPT !.at = "new"]
<1>1. x \in Waits /\ x.tab = NoTab
  BY DEF NoCommandWaits, Waits
<1>. HIDE DEF x
<1>2. w \in [Commands -> Waits] /\ w[c] = x /\ \A d \in Commands : d # c => w[d] = waiting[d]
  BY <1>1, InvIs DEF x
<1>3. NoTab < strip.next
  BY InvIs DEF NoTab
<1>4. Earlier(w, strip.next)
  BY <1>1, <1>2, <1>3, InvIs DEF Earlier
<1>5. ASSUME NEW m, NEW opened, NEW pg, opened \subseteq TabIds, Wanted(waiting, m, opened, pg)
      PROVE  Wanted(w, m, opened, pg)
  BY <1>1, <1>2, <1>5, TabIdsAre DEF Wanted
<1>. QED  BY <1>2, <1>4, <1>5

LEMMA NewTabWaitsKeeps ==
  ASSUME TabsInv, NEW c \in Commands, NewTabWaits(c)
  PROVE  TabsInv'
<1>1. /\ waiting' = [waiting EXCEPT ![c] = [NoCommandWaits EXCEPT !.at = "new"]]
      /\ UNCHANGED <<tabs, strip, pages, moved, toolbar>>
  BY DEF NewTabWaits
<1>2. /\ waiting' \in [Commands -> Waits] /\ Earlier(waiting', strip.next)
      /\ Wanted(waiting', moved, Range(tabs), pages)
  BY <1>1, AskedIs, InvIs
<1>. QED  BY <1>1, <1>2, InvIs, CommandsChange

LEMMA HistoryKeeps ==
  ASSUME TabsInv, NEW t \in TabIds, History(t)
  PROVE  TabsInv'
<1>1. waiting' = NewIntent(waiting, t) /\ moved' = Moved(t) /\ UNCHANGED <<tabs, strip, pages, toolbar>>
  BY DEF History
<1>2. Moved(t) = [d \in Commands |-> moved[d] \/ (t # NoTab /\ waiting[d].tab = t)]
  BY DEF Moved
<1>3. /\ NewIntent(waiting, t) \in [Commands -> Waits] /\ Moved(t) \in [Commands -> BOOLEAN]
      /\ Wanted(NewIntent(waiting, t), Moved(t), Range(tabs), pages) /\ Earlier(NewIntent(waiting, t), strip.next)
  BY <1>2, InvIs, MovedWanted
<1>. QED  BY <1>1, <1>3, CommandsChange

\* setTabRoute: the rule is saved, and then the reload waits.
LEMMA RuleKeeps ==
  ASSUME TabsInv, NEW c \in Commands, waiting' = [waiting EXCEPT ![c].at = "route"],
         UNCHANGED <<tabs, strip, pages, moved, toolbar>>
  PROVE  TabsInv'
<1>. DEFINE x == [waiting[c] EXCEPT !.at = "route"]
<1>1. x \in Waits /\ x.tab = waiting[c].tab /\ x.intent = waiting[c].intent
  <2>1. waiting[c] \in Waits
    BY InvIs
  <2>2. \A y \in Waits : LET z == [y EXCEPT !.at = "route"] IN z \in Waits /\ z.tab = y.tab /\ z.intent = y.intent
    BY DEF Waits
  <2>. QED  BY <2>1, <2>2
<1>2. waiting' = [waiting EXCEPT ![c] = x]
  OBVIOUS
<1>. HIDE DEF x
<1>3. /\ waiting' \in [Commands -> Waits]
      /\ \A d \in Commands : waiting'[d].tab = waiting[d].tab /\ waiting'[d].intent = waiting[d].intent
  BY <1>1, <1>2, InvIs
<1>4. Earlier(waiting', strip.next) /\ Wanted(waiting', moved', Range(tabs), pages)
  BY <1>3, InvIs DEF Earlier, Wanted
<1>. QED  BY <1>3, <1>4, InvIs, CommandsChange

\* Only pages change: what is gone stays gone.
LEMMA PagesChange ==
  ASSUME TabsInv, UNCHANGED <<tabs, strip, waiting, moved>>, pages' \in [TabIds -> PageStates],
         \A t \in TabIds : pages[t].gone => pages'[t].gone, SlowMeansLoading', Shown \/ UNCHANGED toolbar
  PROVE  TabsInv'
<1>1. TabsTyped'
  BY InvIs, ShownIs DEF TabsTyped, TabStrip
<1>2. NextIsNew'
  BY InvIs DEF NextIsNew
<1>3. StripOk'
  BY InvIs DEF StripOk, OnlyActiveAttached, SomeTabActive, Open
<1>4. LoadsAreWanted'
  BY InvIs DEF LoadsAreWanted, Wanted, IntentCurrent, Live, Open
<1>5. ToolbarIsBehind'
  BY InvIs, ShownIs DEF ToolbarIsBehind
<1>. QED  BY <1>1, <1>2, <1>3, <1>4, <1>5 DEF TabsInv

LEMMA PageChanges ==
  ASSUME TabsInv, UNCHANGED <<tabs, strip, waiting, moved>>, NEW t \in TabIds, NEW y \in PageStates,
         pages' = [pages EXCEPT ![t] = y], pages[t].gone => y.gone,
         y.timer \/ y.slow => y.loading /\ ~y.gone /\ Open(t), Shown \/ UNCHANGED toolbar
  PROVE  TabsInv'
<1>1. pages' \in [TabIds -> PageStates] /\ pages'[t] = y /\ \A u \in TabIds : u # t => pages'[u] = pages[u]
  BY InvIs
<1>2. \A u \in TabIds : pages[u].gone => pages'[u].gone
  BY <1>1
<1>3. SlowMeansLoading'
  BY <1>1, InvIs DEF SlowMeansLoading, Live, Open
<1>. QED  BY <1>1, <1>2, <1>3, PagesChange

LEMMA PageStepsKeep ==
  ASSUME TabsInv, NEW t \in TabIds, LoadStarts(t) \/ LoadStops(t) \/ LoadFails(t) \/ SlowHint(t) \/ PageDestroyed(t)
  PROVE  TabsInv'
<1>. DEFINE p == pages[t]
<1>1. p \in PageStates /\ pages \in [TabIds -> PageStates]
  BY InvIs
<1>2. \A x \in PageStates :
        /\ LET y == [x EXCEPT !.loading = TRUE, !.slow = FALSE, !.timer = TRUE] IN
           y \in PageStates /\ y.gone = x.gone /\ y.loading
        /\ LET y == [x EXCEPT !.loading = FALSE, !.slow = FALSE, !.timer = FALSE] IN
           y \in PageStates /\ y.gone = x.gone /\ ~y.timer /\ ~y.slow
  BY DEF PageStates
<1>3. CASE LoadStarts(t)
  <2>. DEFINE y == [p EXCEPT !.loading = TRUE, !.slow = FALSE, !.timer = TRUE]
  <2>1. Live(t) /\ pages' = [pages EXCEPT ![t] = y] /\ Shown /\ UNCHANGED <<tabs, strip, waiting, moved>>
    BY <1>1, <1>3 DEF LoadStarts
  <2>2. y \in PageStates /\ y.gone = p.gone /\ y.loading
    BY <1>1, <1>2
  <2>. HIDE DEF y
  <2>. QED  BY <2>1, <2>2, PageChanges DEF Live
<1>4. CASE LoadStops(t) \/ LoadFails(t)
  <2>. DEFINE y == [p EXCEPT !.loading = FALSE, !.slow = FALSE, !.timer = FALSE]
  <2>1. Live(t) /\ pages' = [pages EXCEPT ![t] = y] /\ Shown /\ UNCHANGED <<tabs, strip, waiting, moved>>
    BY <1>1, <1>4 DEF LoadStops, LoadFails
  <2>2. y \in PageStates /\ y.gone = p.gone /\ ~y.timer /\ ~y.slow
    BY <1>1, <1>2
  <2>. HIDE DEF y
  <2>. QED  BY <2>1, <2>2, PageChanges DEF Live
<1>5. CASE SlowHint(t)
  <2>. DEFINE y == [p EXCEPT !.timer = FALSE, !.slow = TRUE]
  <2>1. p.timer /\ pages' = [pages EXCEPT ![t] = y] /\ Shown /\ UNCHANGED <<tabs, strip, waiting, moved>>
    BY <1>1, <1>5 DEF SlowHint
  <2>2. \A x \in PageStates : LET z == [x EXCEPT !.timer = FALSE, !.slow = TRUE] IN
          z \in PageStates /\ z.gone = x.gone /\ z.loading = x.loading
    BY DEF PageStates
  <2>3. y \in PageStates /\ y.gone = p.gone /\ y.loading = p.loading
    BY <1>1, <2>2
  <2>4. Live(t) /\ p.loading
    BY <2>1, InvIs DEF SlowMeansLoading
  <2>. HIDE DEF y
  <2>. QED  BY <2>1, <2>3, <2>4, PageChanges DEF Live
<1>6. CASE PageDestroyed(t)
  <2>. DEFINE y == [p EXCEPT !.gone = TRUE, !.slow = FALSE, !.timer = FALSE]
  <2>1. pages' = [pages EXCEPT ![t] = y] /\ UNCHANGED <<tabs, strip, waiting, moved, toolbar>>
    BY <1>1, <1>6 DEF PageDestroyed
  <2>2. \A x \in PageStates : LET z == [x EXCEPT !.gone = TRUE, !.slow = FALSE, !.timer = FALSE] IN
          z \in PageStates /\ z.gone /\ ~z.slow /\ ~z.timer
    BY DEF PageStates
  <2>3. y \in PageStates /\ y.gone /\ ~y.slow /\ ~y.timer
    BY <1>1, <2>2
  <2>. HIDE DEF y
  <2>. QED  BY <2>1, <2>3, PageChanges
<1>. QED  BY <1>3, <1>4, <1>5, <1>6

LEMMA SendToolbarKeeps ==
  ASSUME TabsInv, SendToolbar
  PROVE  TabsInv'
<1>1. /\ toolbar' = [scheduled |-> FALSE,
                     shows |-> IF strip.active = NoTab \/ ~pages[strip.active].gone THEN "present" ELSE toolbar.shows]
      /\ UNCHANGED <<tabs, strip, pages, waiting, moved>>
  BY DEF SendToolbar
<1>2. toolbar' \in Toolbars /\ (toolbar'.shows = "past" => strip.active = NoTab \/ pages[strip.active].gone)
  BY <1>1, InvIs DEF Toolbars
<1>3. TabsTyped'
  BY <1>1, <1>2, InvIs DEF TabsTyped, TabStrip
<1>4. NextIsNew' /\ ToolbarIsBehind'
  BY <1>1, <1>2, InvIs DEF NextIsNew, ToolbarIsBehind
<1>5. StripOk'
  BY <1>1, InvIs DEF StripOk, OnlyActiveAttached, SomeTabActive, Open
<1>6. LoadsAreWanted' /\ SlowMeansLoading'
  BY <1>1, InvIs DEF LoadsAreWanted, Wanted, IntentCurrent, SlowMeansLoading, Live, Open
<1>. QED  BY <1>3, <1>4, <1>5, <1>6 DEF TabsInv

-----------------------------------------------------------------------------
(* The strip *)

\* The active tab is opened, and what is attached is the active one.
ActiveOk(ts, s) ==
  /\ ts = <<>> <=> s.active = NoTab
  /\ s.active # NoTab => s.active \in Range(ts)
  /\ s.attached # NoTab => s.attached = s.active /\ s.attached \in Range(ts)
Loading(ts, pg) == \A t \in TabIds : pg[t].timer \/ pg[t].slow => t \in Range(ts) /\ ~pg[t].gone /\ pg[t].loading
Behind(s, pg, tb) == ~tb.scheduled /\ tb.shows = "past" => s.active = NoTab \/ pg[s.active].gone

LEMMA PartsAre ==
  ASSUME TabsInv
  PROVE  ActiveOk(tabs, strip) /\ Loading(tabs, pages) /\ Behind(strip, pages, toolbar)
BY InvIs DEF ActiveOk, StripOk, OnlyActiveAttached, SomeTabActive, Open, Loading, SlowMeansLoading, Live,
             Behind, ToolbarIsBehind

LEMMA PartsMake ==
  ASSUME TabStrip(tabs'), strip' \in Strips, pages' \in [TabIds -> PageStates], waiting' \in [Commands -> Waits],
         moved' \in [Commands -> BOOLEAN], toolbar' \in Toolbars, \A t \in Range(tabs') : t < strip'.next,
         Earlier(waiting', strip'.next), Wanted(waiting', moved', Range(tabs'), pages'),
         ActiveOk(tabs', strip'), Loading(tabs', pages'), Behind(strip', pages', toolbar')
  PROVE  TabsInv'
<1>1. TabsTyped'
  BY DEF TabsTyped
<1>2. NextIsNew'
  BY DEF NextIsNew, Earlier
<1>3. StripOk'
  BY DEF ActiveOk, StripOk, OnlyActiveAttached, SomeTabActive, Open
<1>4. LoadsAreWanted'
  BY DEF LoadsAreWanted, Wanted, IntentCurrent, Live, Open
<1>5. SlowMeansLoading'
  BY DEF Loading, SlowMeansLoading, Live, Open
<1>6. ToolbarIsBehind'
  BY DEF Behind, ToolbarIsBehind
<1>. QED  BY <1>1, <1>2, <1>3, <1>4, <1>5, <1>6 DEF TabsInv

LEMMA ShownMakes ==
  ASSUME Shown, NEW s, NEW pg
  PROVE  toolbar' \in Toolbars /\ Behind(s, pg, toolbar')
BY DEF Shown, Toolbars, Behind

\* An activation that failed: the tab before is attached again, or nothing is.
LEMMA FailsIs ==
  ASSUME NEW s \in Strips, NEW prev \in {NoTab} \cup TabIds, NEW x \in ActivateFails(prev, s)
  PROVE  /\ x \in Strips /\ x.next = s.next
         /\ \/ x.active = s.active /\ x.attached = NoTab
            \/ x.active = prev /\ x.attached = prev /\ prev # NoTab /\ ~pages[prev].gone
<1>. DEFINE y == [s EXCEPT !.active = prev, !.attached = prev]
            z == [s EXCEPT !.attached = NoTab]
<1>1. y \in Strips /\ y.next = s.next /\ y.active = prev /\ y.attached = prev
  BY DEF Strips
<1>2. z \in Strips /\ z.next = s.next /\ z.active = s.active /\ z.attached = NoTab
  BY DEF Strips
<1>3. (x = y /\ prev # NoTab /\ ~pages[prev].gone) \/ x = z
  BY DEF ActivateFails
<1>. QED  BY <1>1, <1>2, <1>3

LEMMA SelectedIs ==
  ASSUME strip \in Strips, NEW t \in TabIds
  PROVE  Selected(t) \in Strips /\ Selected(t).next = strip.next /\ Selected(t).active = t /\ Selected(t).attached = t
BY DEF Selected, Strips

LEMMA AsideIs == Aside(NoTab) \in {NoTab, strip.active} /\ \A t \in TabIds : Aside(t) \in {NoTab, strip.active}
BY DEF Aside

LEMMA SwitchTabKeeps ==
  ASSUME TabsInv, NEW t \in TabIds, SwitchTab(t)
  PROVE  TabsInv'
<1>1. /\ t \in Range(tabs) /\ ~pages[t].gone /\ UNCHANGED <<tabs, pages>>
      /\ waiting' = NewIntent(waiting, Aside(t)) /\ moved' = Moved(Aside(t))
      /\ (strip' = Selected(t) /\ Shown) \/ (strip' \in ActivateFails(strip.active, strip) /\ UNCHANGED toolbar)
  BY DEF SwitchTab, Live, Open
<1>2. Moved(Aside(t)) = [d \in Commands |-> moved[d] \/ (Aside(t) # NoTab /\ waiting[d].tab = Aside(t))]
  BY DEF Moved
<1>3. /\ waiting' \in [Commands -> Waits] /\ moved' \in [Commands -> BOOLEAN]
      /\ Wanted(waiting', moved', Range(tabs'), pages') /\ Earlier(waiting', strip.next)
  BY <1>1, <1>2, InvIs, MovedWanted
<1>4. /\ TabStrip(tabs') /\ pages' \in [TabIds -> PageStates] /\ Loading(tabs', pages')
  BY <1>1, InvIs, PartsAre DEF TabStrip
<1>5. /\ strip' \in Strips /\ strip'.next = strip.next /\ ActiveOk(tabs', strip')
      /\ toolbar' \in Toolbars /\ Behind(strip', pages', toolbar')
  <2>1. CASE strip' = Selected(t) /\ Shown
    <3>1. strip' \in Strips /\ strip'.next = strip.next /\ strip'.active = t /\ strip'.attached = t
      BY <2>1, InvIs, SelectedIs
    <3>2. tabs # <<>> /\ t # NoTab
      BY <1>1, InvIs, SeqIs, TabIdsAre
    <3>. QED  BY <1>1, <2>1, <3>1, <3>2, ShownMakes DEF ActiveOk
  <2>2. CASE strip' \in ActivateFails(strip.active, strip) /\ UNCHANGED toolbar
    <3>1. /\ strip' \in Strips /\ strip'.next = strip.next /\ strip'.active = strip.active
          /\ strip'.attached \in {NoTab, strip.active}
      BY <2>2, InvIs, FailsIs
    <3>. QED  BY <1>1, <2>2, <3>1, InvIs, PartsAre DEF ActiveOk, Behind
  <2>. QED  BY <1>1, <2>1, <2>2
<1>6. \A u \in Range(tabs') : u < strip'.next
  BY <1>1, <1>5, InvIs DEF NextIsNew
<1>. QED  BY <1>3, <1>4, <1>5, <1>6, PartsMake

\* A page of a new tab: no command waits on it.
LEMMA NewPageIs ==
  /\ \A kind \in Kinds : LET y == NewPage(kind) IN y \in PageStates /\ ~y.gone /\ ~y.slow /\ ~y.timer
  /\ LET y == [NewPage("blank") EXCEPT !.gone = TRUE] IN y \in PageStates /\ y.gone /\ ~y.slow /\ ~y.timer
BY DEF NewPage, PageStates, Kinds

LEMMA TabOfWaitIs ==
  ASSUME NEW w \in [Commands -> Waits], NEW n \in Int, Earlier(w, n), NEW c \in Commands
  PROVE  w[c].tab \in Int /\ w[c].tab < n /\ w[c].tab < n + 1
<1>1. \A x \in Waits : x.tab \in {NoTab} \cup TabIds
  BY DEF Waits
<1>2. {NoTab} \cup TabIds \subseteq Int
  BY TabIdsAre DEF NoTab
<1>3. w[c].tab \in Int
  BY <1>1, <1>2
<1>4. w[c].tab < n
  BY DEF Earlier
<1>. HIDE DEF Earlier
<1>. QED  BY <1>3, <1>4

LEMMA OpenedWanted ==
  ASSUME NEW w, NEW m, NEW opened, opened \subseteq TabIds, Wanted(w, m, opened, pages), pages \in [TabIds -> PageStates],
         NEW t \in TabIds, Earlier(w, t), NEW y, w \in [Commands -> Waits]
  PROVE  Wanted(w, m, opened \cup {t}, [pages EXCEPT ![t] = y]) /\ Earlier(w, t + 1)
<1>2. t \in Int
  BY TabIdsAre
<1>1. \A c \in Commands : w[c].tab < t /\ w[c].tab \in Int /\ w[c].tab < t + 1
  BY <1>2, TabOfWaitIs
<1>3. \A u \in TabIds : u # t => [pages EXCEPT ![t] = y][u] = pages[u]
  OBVIOUS
<1>4. \A c \in Commands : w[c].tab # t
  BY <1>1, <1>2
<1>. QED  BY <1>1, <1>3, <1>4 DEF Wanted, Earlier

LEMMA CreateKeeps ==
  ASSUME TabsInv, NEW kind \in Kinds, NEW w \in [Commands -> Waits], NEW m \in [Commands -> BOOLEAN],
         Wanted(w, m, Range(tabs), pages), Earlier(w, strip.next), Create(kind, w, m)
  PROVE  TabsInv'
<1>. DEFINE t == strip.next
            a == Aside(t)
            k == [c \in Commands |-> m[c] \/ (a # NoTab /\ w[c].tab = a)]
<1>1. /\ t <= MaxTabId /\ Len(tabs) < MaxOpenTabs /\ waiting' = NewIntent(w, a) /\ Shown
      /\ \/ /\ tabs' = Append(tabs, t) /\ strip' = [Selected(t) EXCEPT !.next = t + 1]
            /\ pages' = [pages EXCEPT ![t] = NewPage(kind)] /\ moved' = k
         \/ /\ UNCHANGED <<tabs, pages>> /\ moved' = m
            /\ strip' \in {[s EXCEPT !.next = t + 1] : s \in {strip} \cup ActivateFails(strip.active, strip)}
  BY DEF Create
<1>2. t \in TabIds /\ t \in Nat /\ t + 1 \in 1..MaxTabId + 1
  BY <1>1, InvIs, TabIdsAre DEF TabIds
<1>3. /\ waiting' \in [Commands -> Waits] /\ k \in [Commands -> BOOLEAN]
      /\ Wanted(waiting', k, Range(tabs), pages) /\ Earlier(waiting', t)
  BY <1>1, MovedWanted
<1>4. Wanted(waiting', m, Range(tabs), pages)
  BY <1>1, NewIntentIs DEF Wanted
<1>. HIDE DEF a, k
<1>5. t \notin Range(tabs) /\ \A u \in Range(tabs) : u < t
  BY <1>2, InvIs DEF NextIsNew
<1>. HIDE DEF t
<1>6. CASE /\ tabs' = Append(tabs, t) /\ strip' = [Selected(t) EXCEPT !.next = t + 1]
           /\ pages' = [pages EXCEPT ![t] = NewPage(kind)] /\ moved' = k
  <2>1. /\ tabs' \in Seq(TabIds) /\ IsInjective(tabs') /\ Len(tabs') = Len(tabs) + 1
        /\ Range(tabs') = Range(tabs) \cup {t}
    BY <1>2, <1>5, <1>6, InvIs, AppendedIs
  <2>2. TabStrip(tabs') /\ tabs' # <<>>
    BY <1>1, <2>1, InvIs, SeqIs, TabIdsAre DEF TabStrip
  <2>3. strip' \in Strips /\ strip'.next = t + 1 /\ strip'.active = t /\ strip'.attached = t
    <3>1. Selected(t) \in Strips /\ Selected(t).active = t /\ Selected(t).attached = t
      BY <1>2, InvIs, SelectedIs
    <3>. QED  BY <1>2, <1>6, <3>1 DEF Strips
  <2>4. /\ pages' \in [TabIds -> PageStates] /\ pages'[t] = NewPage(kind)
        /\ \A u \in TabIds : u # t => pages'[u] = pages[u]
    BY <1>2, <1>6, InvIs, NewPageIs
  <2>5. Wanted(waiting', moved', Range(tabs'), pages') /\ Earlier(waiting', strip'.next)
    <3>1. pages \in [TabIds -> PageStates] /\ Range(tabs) \subseteq TabIds
      BY InvIs
    <3>. DEFINE pg == [pages EXCEPT ![t] = NewPage(kind)]
    <3>2. Wanted(waiting', k, Range(tabs) \cup {t}, pg) /\ Earlier(waiting', t + 1)
      BY <1>2, <1>3, <3>1, OpenedWanted
    <3>3. pages' = pg
      BY <1>6
    <3>. HIDE DEF pg
    <3>. QED  BY <1>6, <2>1, <2>3, <3>2, <3>3
  <2>6. ActiveOk(tabs', strip')
    BY <1>2, <2>1, <2>2, <2>3, TabIdsAre DEF ActiveOk
  <2>7. Loading(tabs', pages')
    BY <2>1, <2>4, PartsAre, NewPageIs DEF Loading
  <2>8. \A u \in Range(tabs') : u < strip'.next
    <3>1. \A u \in Range(tabs') : u \in Int /\ (u < t \/ u = t)
      BY <1>2, <1>5, <2>1, InvIs, TabIdsAre
    <3>. QED  BY <1>2, <2>3, <3>1
  <2>9. toolbar' \in Toolbars /\ Behind(strip', pages', toolbar')
    BY <1>1, ShownMakes
  <2>. QED  BY <1>3, <1>6, <2>2, <2>3, <2>4, <2>5, <2>6, <2>7, <2>8, <2>9, PartsMake
<1>7. CASE /\ UNCHANGED <<tabs, pages>> /\ moved' = m
           /\ strip' \in {[s EXCEPT !.next = t + 1] : s \in {strip} \cup ActivateFails(strip.active, strip)}
  <2>1. PICK s \in {strip} \cup ActivateFails(strip.active, strip) : strip' = [s EXCEPT !.next = t + 1]
    BY <1>7
  <2>2. s \in Strips /\ s.active = strip.active /\ s.attached \in {NoTab, strip.active, strip.attached}
    BY InvIs, FailsIs
  <2>3. /\ strip' \in Strips /\ strip'.next = t + 1 /\ strip'.active = strip.active
        /\ strip'.attached \in {NoTab, strip.active, strip.attached}
    BY <1>2, <2>1, <2>2 DEF Strips
  <2>4. ActiveOk(tabs', strip')
    BY <1>7, <2>3, PartsAre DEF ActiveOk
  <2>5. TabStrip(tabs') /\ pages' \in [TabIds -> PageStates] /\ Loading(tabs', pages')
    BY <1>7, InvIs, PartsAre DEF TabStrip
  <2>6. Wanted(waiting', moved', Range(tabs'), pages')
    BY <1>4, <1>7
  <2>7. Earlier(waiting', strip'.next)
    <3>1. \A c \in Commands : waiting'[c].tab < t + 1
      BY <1>2, <1>3, TabOfWaitIs
    <3>. QED  BY <2>3, <3>1 DEF Earlier
  <2>8. \A u \in Range(tabs') : u < strip'.next
    <3>1. \A u \in Range(tabs') : u \in Int /\ u < t
      BY <1>5, <1>7, InvIs, TabIdsAre
    <3>. QED  BY <1>2, <2>3, <3>1
  <2>9. toolbar' \in Toolbars /\ Behind(strip', pages', toolbar')
    BY <1>1, ShownMakes
  <2>. QED  BY <1>3, <1>7, <2>3, <2>4, <2>5, <2>6, <2>7, <2>8, <2>9, PartsMake
<1>. QED  BY <1>1, <1>6, <1>7 DEF t

LEMMA ResumeKeeps ==
  ASSUME TabsInv, NEW c \in Commands, Resume(c)
  PROVE  TabsInv'
<1>1. /\ Released(c) \in [Commands -> Waits] /\ Rested(c) \in [Commands -> BOOLEAN]
      /\ Wanted(Released(c), Rested(c), Range(tabs), pages) /\ Earlier(Released(c), strip.next)
  BY InvIs, ReleasedIs, ReleasedWanted
<1>2. CASE Dropped(c) \/ Loads(c, waiting[c].tab)
  BY <1>2, DroppedKeeps DEF Dropped, Loads
<1>3. CASE \E kind \in {"page", "blank"} : Create(kind, Released(c), Rested(c))
  BY <1>1, <1>3, CreateKeeps DEF Kinds
<1>4. CASE waiting' = [waiting EXCEPT ![c].at = "route"] /\ UNCHANGED <<tabs, strip, pages, moved, toolbar>>
  BY <1>4, RuleKeeps
<1>. QED  BY <1>2, <1>3, <1>4 DEF Resume
-----------------------------------------------------------------------------
(* Closing *)

\* A page that is gone, and a strip that no longer has its tab.
ClosedPages(t) == [pages EXCEPT ![t] = [NewPage("blank") EXCEPT !.gone = TRUE]]

LEMMA TabClosedIs ==
  ASSUME TabsInv, NEW t \in TabIds
  PROVE  LET pg == ClosedPages(t) IN
         /\ pg \in [TabIds -> PageStates] /\ pg[t].gone /\ \A u \in TabIds : u # t => pg[u] = pages[u]
         /\ \A u \in TabIds : pg[u].timer \/ pg[u].slow => u \in Range(tabs) \ {t} /\ ~pg[u].gone /\ pg[u].loading
         /\ Moved(t) \in [Commands -> BOOLEAN] /\ Wanted(waiting, Moved(t), Range(tabs) \ {t}, pg)
<1>. DEFINE pg == ClosedPages(t)
            m == Moved(t)
            y == [NewPage("blank") EXCEPT !.gone = TRUE]
<1>1. y \in PageStates /\ y.gone /\ ~y.slow /\ ~y.timer
  BY NewPageIs
<1>2. pages \in [TabIds -> PageStates] /\ Range(tabs) \subseteq TabIds /\ waiting \in [Commands -> Waits]
  BY InvIs
<1>3. pg = [pages EXCEPT ![t] = y]
  BY DEF ClosedPages
<1>7. m = [c \in Commands |-> moved[c] \/ (t # NoTab /\ waiting[c].tab = t)]
  BY DEF Moved
<1>8. m \in [Commands -> BOOLEAN]
  BY <1>7
<1>. HIDE DEF y, pg, m
<1>4. pg \in [TabIds -> PageStates] /\ pg[t] = y /\ \A u \in TabIds : u # t => pg[u] = pages[u]
  BY <1>1, <1>2, <1>3
<1>5. ASSUME NEW u \in TabIds, pg[u].timer \/ pg[u].slow
      PROVE  u \in Range(tabs) \ {t} /\ ~pg[u].gone /\ pg[u].loading
  BY <1>1, <1>4, <1>5, PartsAre DEF Loading
<1>6. ASSUME NEW c \in Commands, m[c]
      PROVE  ~waiting[c].intent \/ waiting[c].tab \notin Range(tabs) \ {t} \/ pg[waiting[c].tab].gone
  <2>1. CASE waiting[c].tab # t /\ waiting[c].tab \in Range(tabs)
    <3>1. moved[c]
      BY <1>6, <1>7, <2>1
    <3>2. ~waiting[c].intent \/ pages[waiting[c].tab].gone
      BY <2>1, <3>1, InvIs DEF Wanted
    <3>. QED  BY <1>2, <1>4, <2>1, <3>2
  <2>. QED  BY <2>1
<1>9. Wanted(waiting, m, Range(tabs) \ {t}, pg)
  BY <1>6 DEF Wanted
<1>. QED  BY <1>1, <1>4, <1>5, <1>8, <1>9 DEF pg, m

\* What stays attached when tab t is closed.
LeftOpen(t) == [strip EXCEPT !.attached = IF @ = t THEN NoTab ELSE @]

LEMMA LeftOpenIs ==
  ASSUME strip \in Strips, NEW t
  PROVE  /\ LeftOpen(t) \in Strips /\ LeftOpen(t).next = strip.next /\ LeftOpen(t).active = strip.active
         /\ LeftOpen(t).attached = IF strip.attached = t THEN NoTab ELSE strip.attached
         /\ \A n \in {NoTab} \cup TabIds :
              /\ LET x == [LeftOpen(t) EXCEPT !.active = n] IN
                 x \in Strips /\ x.next = strip.next /\ x.active = n /\ x.attached = LeftOpen(t).attached
              /\ LET x == [LeftOpen(t) EXCEPT !.active = n, !.attached = n] IN
                 x \in Strips /\ x.next = strip.next /\ x.active = n /\ x.attached = n
<1>. DEFINE l == LeftOpen(t)
<1>1. l \in Strips /\ l.next = strip.next /\ l.active = strip.active
      /\ l.attached = IF strip.attached = t THEN NoTab ELSE strip.attached
  BY DEF LeftOpen, Strips
<1>. HIDE DEF l
<1>2. \A n \in {NoTab} \cup TabIds :
        /\ LET x == [l EXCEPT !.active = n] IN
           x \in Strips /\ x.next = l.next /\ x.active = n /\ x.attached = l.attached
        /\ LET x == [l EXCEPT !.active = n, !.attached = n] IN
           x \in Strips /\ x.next = l.next /\ x.active = n /\ x.attached = n
  BY <1>1 DEF Strips
<1>. QED  BY <1>1, <1>2 DEF l

LEMMA CancelledMakes ==
  ASSUME NEW shows \in {"present", "past", "failure"}, Cancelled(shows), NEW s, NEW pg
  PROVE  /\ toolbar' \in Toolbars
         /\ (shows # "past" \/ s.active = NoTab \/ pg[s.active].gone => Behind(s, pg, toolbar'))
BY DEF Cancelled, Toolbars, Behind

LEMMA CloseTabKeeps ==
  ASSUME TabsInv, NEW t \in TabIds, CloseTab(t)
  PROVE  TabsInv'
<1>. DEFINE i == CHOOSE n \in DOMAIN tabs : tabs[n] = t
            rest == RemoveAt(tabs, i)
            next == rest[IF i <= Len(rest) THEN i ELSE Len(rest)]
            left == LeftOpen(t)
<1>1. /\ t \in Range(tabs) /\ tabs' = rest /\ moved' = Moved(t)
      /\ pages' = [pages EXCEPT ![t] = [NewPage("blank") EXCEPT !.gone = TRUE]]
      /\ \/ /\ rest = <<>> /\ strip' = [left EXCEPT !.active = NoTab] /\ Cancelled("past")
            /\ \/ \E c \in Commands : waiting' = [waiting EXCEPT ![c] = [NoCommandWaits EXCEPT !.at = "new"]]
               \/ waiting' = waiting
         \/ /\ rest # <<>> /\ strip.active = t /\ waiting' = waiting
            /\ \/ pages[next].gone /\ strip' = [left EXCEPT !.active = next] /\ Cancelled("past")
               \/ strip' = [left EXCEPT !.active = next, !.attached = next] /\ Shown
               \/ strip' \in ActivateFails(next, [left EXCEPT !.active = next]) /\ Cancelled("failure")
         \/ rest # <<>> /\ strip.active # t /\ waiting' = waiting /\ strip' = left /\ Shown
  BY DEF CloseTab, Open, LeftOpen
<1>2. i \in 1..Len(tabs) /\ tabs[i] = t
  <2>1. \E n \in DOMAIN tabs : tabs[n] = t
    BY <1>1, InvIs, SeqIs
  <2>2. i \in DOMAIN tabs /\ tabs[i] = t
    BY <2>1
  <2>. QED  BY <2>2, InvIs, SeqIs
<1>. HIDE DEF i
<1>3. /\ rest \in Seq(TabIds) /\ IsInjective(rest) /\ Len(rest) = Len(tabs) - 1 /\ Range(rest) = Range(tabs) \ {t}
  BY <1>2, InvIs, RemovedIs
<1>. HIDE DEF rest
<1>4. rest # <<>> => next \in Range(rest)
  <2>1. Len(rest) \in Nat /\ i \in Int /\ 1 <= i
    BY <1>2, <1>3, InvIs, SeqIs
  <2>2. ASSUME rest # <<>>
        PROVE  (IF i <= Len(rest) THEN i ELSE Len(rest)) \in 1..Len(rest)
    BY <1>3, <2>1, <2>2, SeqIs
  <2>. QED  BY <1>3, <2>2, SeqIs
<1>. HIDE DEF next
<1>5. TabStrip(tabs') /\ Range(tabs') = Range(tabs) \ {t}
  <2>1. Len(tabs) \in Nat /\ Len(tabs) <= MaxOpenTabs /\ MaxOpenTabs \in Nat
    BY InvIs, SeqIs, TabIdsAre
  <2>. QED  BY <1>1, <1>3, <2>1 DEF TabStrip
<1>7. Moved(t) \in [Commands -> BOOLEAN]
  BY TabClosedIs
<1>8. /\ pages' \in [TabIds -> PageStates] /\ pages'[t].gone /\ \A u \in TabIds : u # t => pages'[u] = pages[u]
      /\ \A u \in TabIds : pages'[u].timer \/ pages'[u].slow
                             => u \in Range(tabs) \ {t} /\ ~pages'[u].gone /\ pages'[u].loading
      /\ Wanted(waiting, moved', Range(tabs) \ {t}, pages')
  <2>1. pages' = ClosedPages(t) /\ moved' = Moved(t)
    BY <1>1 DEF ClosedPages
  <2>. QED  BY <2>1, TabClosedIs
<1>9. /\ waiting' \in [Commands -> Waits] /\ Earlier(waiting', strip.next)
      /\ Wanted(waiting', moved', Range(tabs) \ {t}, pages')
  <2>1. CASE waiting' = waiting
    BY <1>8, <2>1, InvIs
  <2>2. CASE \E c \in Commands : waiting' = [waiting EXCEPT ![c] = [NoCommandWaits EXCEPT !.at = "new"]]
    <3>1. PICK c \in Commands : waiting' = [waiting EXCEPT ![c] = [NoCommandWaits EXCEPT !.at = "new"]]
      BY <2>2
    <3>2. Range(tabs) \ {t} \subseteq TabIds
      BY InvIs
    <3>3. /\ waiting' \in [Commands -> Waits] /\ Earlier(waiting', strip.next)
          /\ \A k, opened, pg : opened \subseteq TabIds /\ Wanted(waiting, k, opened, pg) => Wanted(waiting', k, opened, pg)
      BY <3>1, AskedIs
    <3>. QED  BY <1>8, <3>2, <3>3
  <2>. QED  BY <1>1, <2>1, <2>2
<1>10. Loading(tabs', pages') /\ Wanted(waiting', moved', Range(tabs'), pages')
  BY <1>5, <1>8, <1>9 DEF Loading
<1>11. /\ left \in Strips /\ left.next = strip.next /\ left.active = strip.active
       /\ left.attached = IF strip.attached = t THEN NoTab ELSE strip.attached
       /\ \A n \in {NoTab} \cup TabIds :
            /\ LET x == [left EXCEPT !.active = n] IN
               x \in Strips /\ x.next = strip.next /\ x.active = n /\ x.attached = left.attached
            /\ LET x == [left EXCEPT !.active = n, !.attached = n] IN
               x \in Strips /\ x.next = strip.next /\ x.active = n /\ x.attached = n
  BY InvIs, LeftOpenIs
<1>. HIDE DEF left
<1>12. ActiveOk(tabs, strip) /\ t # NoTab /\ (rest = <<>> <=> Range(rest) = {})
  BY <1>3, PartsAre, SeqIs, TabIdsAre
<1>13. /\ strip' \in Strips /\ strip'.next = strip.next /\ ActiveOk(tabs', strip')
       /\ toolbar' \in Toolbars /\ Behind(strip', pages', toolbar')
  <2>1. CASE rest = <<>> /\ strip' = [left EXCEPT !.active = NoTab] /\ Cancelled("past")
    <3>1. strip' \in Strips /\ strip'.next = strip.next /\ strip'.active = NoTab /\ strip'.attached = left.attached
      BY <1>11, <2>1
    <3>2. left.attached = NoTab
      BY <1>3, <1>11, <1>12, <2>1 DEF ActiveOk
    <3>3. toolbar' \in Toolbars /\ Behind(strip', pages', toolbar')
      BY <2>1, <3>1, CancelledMakes
    <3>4. ActiveOk(tabs', strip')
      BY <1>1, <2>1, <3>1, <3>2 DEF ActiveOk
    <3>. QED  BY <3>1, <3>3, <3>4
  <2>2. CASE rest # <<>> /\ strip.active = t
             /\ \/ pages[next].gone /\ strip' = [left EXCEPT !.active = next] /\ Cancelled("past")
                \/ strip' = [left EXCEPT !.active = next, !.attached = next] /\ Shown
                \/ strip' \in ActivateFails(next, [left EXCEPT !.active = next]) /\ Cancelled("failure")
    <3>1. next \in Range(tabs') /\ next \in TabIds /\ next # t /\ next # NoTab /\ pages'[next] = pages[next]
      BY <1>1, <1>3, <1>4, <1>8, <2>2, SeqIs, TabIdsAre
    <3>2. left.attached = NoTab
      BY <1>11, <1>12, <2>2 DEF ActiveOk
    <3>. DEFINE l == [left EXCEPT !.active = next]
    <3>3. l \in Strips /\ l.next = strip.next /\ l.active = next /\ l.attached = NoTab
      BY <1>11, <3>1, <3>2
    <3>4. CASE pages[next].gone /\ strip' = l /\ Cancelled("past")
      <4>1. pages'[strip'.active].gone
        BY <3>1, <3>3, <3>4
      <4>2. toolbar' \in Toolbars /\ Behind(strip', pages', toolbar')
        BY <3>4, <4>1, CancelledMakes
      <4>. QED  BY <1>1, <2>2, <3>1, <3>3, <3>4, <4>2 DEF ActiveOk
    <3>5. CASE strip' = [left EXCEPT !.active = next, !.attached = next] /\ Shown
      <4>1. strip' \in Strips /\ strip'.next = strip.next /\ strip'.active = next /\ strip'.attached = next
        BY <1>11, <3>1, <3>5
      <4>2. toolbar' \in Toolbars /\ Behind(strip', pages', toolbar')
        BY <3>5, ShownMakes
      <4>. QED  BY <1>1, <2>2, <3>1, <4>1, <4>2 DEF ActiveOk
    <3>6. CASE strip' \in ActivateFails(next, l) /\ Cancelled("failure")
      <4>1. /\ strip' \in Strips /\ strip'.next = strip.next /\ strip'.active = next
            /\ strip'.attached \in {NoTab, next}
        <5>1. l \in Strips /\ next \in {NoTab} \cup TabIds /\ strip' \in ActivateFails(next, l)
          BY <3>1, <3>3, <3>6
        <5>. HIDE DEF l
        <5>2. /\ strip' \in Strips /\ strip'.next = l.next
              /\ \/ strip'.active = l.active /\ strip'.attached = NoTab
                 \/ strip'.active = next /\ strip'.attached = next
          BY <5>1, FailsIs
        <5>. QED  BY <3>3, <5>2
      <4>2. toolbar' \in Toolbars /\ Behind(strip', pages', toolbar')
        BY <3>6, CancelledMakes
      <4>. QED  BY <1>1, <2>2, <3>1, <4>1, <4>2 DEF ActiveOk
    <3>. QED  BY <2>2, <3>4, <3>5, <3>6
  <2>3. CASE rest # <<>> /\ strip.active # t /\ strip' = left /\ Shown
    <3>1. strip.active # NoTab /\ strip.active \in Range(tabs')
      <4>1. tabs # <<>>
        BY <1>1, InvIs, SeqIs
      <4>. QED  BY <1>5, <1>12, <2>3, <4>1 DEF ActiveOk
    <3>2. toolbar' \in Toolbars /\ Behind(strip', pages', toolbar')
      BY <2>3, ShownMakes
    <3>3. ActiveOk(tabs', strip')
      BY <1>1, <1>5, <1>11, <1>12, <2>3, <3>1 DEF ActiveOk
    <3>. QED  BY <1>11, <2>3, <3>2, <3>3
  <2>. QED  BY <1>1, <2>1, <2>2, <2>3
<1>14. \A u \in Range(tabs') : u < strip'.next
  BY <1>5, <1>13, InvIs DEF NextIsNew
<1>. QED  BY <1>1, <1>5, <1>7, <1>8, <1>9, <1>10, <1>13, <1>14, PartsMake

LEMMA WindowGoneKeeps ==
  ASSUME TabsInv, WindowGone
  PROVE  TabsInv'
<1>. DEFINE y == [NewPage("blank") EXCEPT !.gone = TRUE]
<1>1. /\ tabs' = <<>> /\ strip' = [strip EXCEPT !.active = NoTab, !.attached = NoTab]
      /\ pages' = [t \in TabIds |-> IF Open(t) THEN y ELSE pages[t]]
      /\ moved' = [c \in Commands |-> moved[c] \/ Open(waiting[c].tab)]
      /\ Cancelled("present") /\ UNCHANGED waiting
  BY DEF WindowGone
<1>2. y \in PageStates /\ y.gone /\ ~y.slow /\ ~y.timer
  BY NewPageIs
<1>. HIDE DEF y
<1>3. tabs' \in Seq(TabIds) /\ Len(tabs') = 0 /\ DOMAIN tabs' = {} /\ Range(tabs') = {}
  BY <1>1, EmptySeq DEF Range
<1>4. TabStrip(tabs')
  BY <1>3, TabIdsAre DEF TabStrip, IsInjective
<1>5. strip' \in Strips /\ strip'.next = strip.next /\ strip'.active = NoTab /\ strip'.attached = NoTab
  BY <1>1, InvIs DEF Strips
<1>6. pages' \in [TabIds -> PageStates] /\ Loading(tabs', pages')
  <2>1. pages' \in [TabIds -> PageStates]
    BY <1>1, <1>2, InvIs
  <2>2. ASSUME NEW t \in TabIds
        PROVE  ~(pages'[t].timer \/ pages'[t].slow)
    <3>1. CASE Open(t)
      BY <1>1, <1>2, <3>1
    <3>2. CASE ~Open(t)
      <4>1. pages'[t] = pages[t] /\ t \notin Range(tabs)
        BY <1>1, <3>2 DEF Open
      <4>. QED  BY <4>1, PartsAre DEF Loading
    <3>. QED  BY <3>1, <3>2
  <2>. QED  BY <2>1, <2>2 DEF Loading
<1>7. moved' \in [Commands -> BOOLEAN] /\ waiting' \in [Commands -> Waits] /\ Earlier(waiting', strip'.next)
  BY <1>1, <1>5, InvIs DEF Open
<1>8. Wanted(waiting', moved', Range(tabs'), pages')
  BY <1>3 DEF Wanted
<1>9. ActiveOk(tabs', strip')
  BY <1>1, <1>5 DEF ActiveOk
<1>10. toolbar' \in Toolbars /\ Behind(strip', pages', toolbar')
  BY <1>1, <1>5, CancelledMakes
<1>11. \A t \in Range(tabs') : t < strip'.next
  BY <1>3
<1>. QED  BY <1>4, <1>5, <1>6, <1>7, <1>8, <1>9, <1>10, <1>11, PartsMake

LEMMA TabsInvInit == TabsInit => TabsInv
<1>. SUFFICES ASSUME TabsInit PROVE TabsInv
  OBVIOUS
<1>1. tabs \in Seq(TabIds) /\ Len(tabs) = 0 /\ DOMAIN tabs = {} /\ Range(tabs) = {}
  BY EmptySeq DEF TabsInit, Range
<1>2. TabStrip(tabs)
  BY <1>1, TabIdsAre DEF TabStrip, IsInjective
<1>3. strip \in Strips /\ strip.active = NoTab /\ strip.attached = NoTab /\ strip.next = 1
  BY TabIdsAre DEF TabsInit, Strips
<1>4. "blank" \in Kinds /\ pages = [t \in TabIds |-> NewPage("blank")]
  BY DEF Kinds, TabsInit
<1>5. pages \in [TabIds -> PageStates] /\ \A t \in TabIds : ~pages[t].slow /\ ~pages[t].timer
  BY <1>4, NewPageIs
<1>6. /\ waiting \in [Commands -> Waits] /\ moved \in [Commands -> BOOLEAN] /\ \A c \in Commands : ~moved[c]
      /\ \A c \in Commands : waiting[c].tab = NoTab
  BY NoCommandWaitsIs DEF TabsInit
<1>7. toolbar \in Toolbars /\ toolbar.shows = "present"
  BY DEF TabsInit, Toolbars
<1>8. NoTab < 1 /\ tabs = <<>>
  BY DEF NoTab, TabsInit
<1>9. TabsTyped
  BY <1>2, <1>3, <1>5, <1>6, <1>7 DEF TabsTyped
<1>10. NextIsNew /\ StripOk
  BY <1>1, <1>3, <1>6, <1>8 DEF NextIsNew, StripOk, OnlyActiveAttached, SomeTabActive
<1>11. LoadsAreWanted /\ SlowMeansLoading /\ ToolbarIsBehind
  BY <1>5, <1>6, <1>7 DEF LoadsAreWanted, SlowMeansLoading, ToolbarIsBehind
<1>. QED  BY <1>9, <1>10, <1>11 DEF TabsInv

LEMMA TabsInvNext == TabsInv /\ [TabsNext]_tabVars => TabsInv'
<1>. SUFFICES ASSUME TabsInv, [TabsNext]_tabVars PROVE TabsInv'
  OBVIOUS
<1>1. ASSUME NewWorkspaceTab PROVE TabsInv'
  BY <1>1, InvIs, CreateKeeps DEF NewWorkspaceTab, Kinds
<1>2. ASSUME SendToolbar \/ WindowGone PROVE TabsInv'
  BY <1>2, SendToolbarKeeps, WindowGoneKeeps
<1>3. ASSUME NEW t \in TabIds, SwitchTab(t) \/ CloseTab(t) \/ History(t) PROVE TabsInv'
  BY <1>3, SwitchTabKeeps, CloseTabKeeps, HistoryKeeps
<1>4. ASSUME NEW t \in TabIds, LoadStarts(t) \/ LoadStops(t) \/ SlowHint(t) \/ LoadFails(t) \/ PageDestroyed(t)
      PROVE  TabsInv'
  BY <1>4, PageStepsKeep
<1>5. ASSUME NEW c \in Commands, NewTabWaits(c) \/ Resume(c) PROVE TabsInv'
  BY <1>5, NewTabWaitsKeeps, ResumeKeeps
<1>6. ASSUME NEW c \in Commands, NEW t \in TabIds, NEW at \in {"navigate", "reload", "home", "rule"},
             CommandWaits(c, at, t)
      PROVE  TabsInv'
  BY <1>6, CommandWaitsKeeps
<1>7. ASSUME UNCHANGED tabVars PROVE TabsInv'
  <2>1. UNCHANGED <<tabs, strip, pages, waiting, moved, toolbar>>
    BY <1>7 DEF tabVars
  <2>. QED  BY <2>1, InvIs, CommandsChange
<1>. QED  BY <1>1, <1>2, <1>3, <1>4, <1>5, <1>6, <1>7 DEF TabsNext

LEMMA TabsInvIsSafe == TabsInv => TabsSafety
<1>. SUFFICES ASSUME TabsInv PROVE TabsSafety
  OBVIOUS
<1>1. TabsTypeOK
  BY InvIs DEF TabsTypeOK, Strips, PageStates, Waits, Toolbars
<1>2. OnlyActiveAttached /\ SomeTabActive /\ LoadsAreWanted /\ SlowMeansLoading
  BY DEF TabsInv, StripOk
<1>3. ToolbarCatchesUp
  BY <1>2, InvIs DEF ToolbarCatchesUp, ToolbarIsBehind, OnlyActiveAttached
<1>. QED  BY <1>1, <1>2, <1>3 DEF TabsSafety

(* For any number of tabs and commands: only the active tab's page is       *)
(* attached to the window, a strip with tabs has an active one, no load     *)
(* begins for a command the user has moved on from, only a page that loads  *)
(* turns slow, and the toolbar catches up.                                  *)
THEOREM TabsCorrect == TabsSpec => []TabsSafety
<1>1. TabsInit => TabsInv
  BY TabsInvInit
<1>2. TabsInv /\ [TabsNext]_tabVars => TabsInv'
  BY TabsInvNext
<1>3. TabsInv => TabsSafety
  BY TabsInvIsSafe
<1>. QED  BY <1>1, <1>2, <1>3, PTL DEF TabsSpec

-----------------------------------------------------------------------------
(* Downloads.  A controller that is retired is bound to no session any more,  *)
(* and no download of it is active.                                           *)

Downloads == [at : {"none", "active", "cancelling", "prompt", "finished"},
              owner : Controllers \cup {Nobody}, runs : BOOLEAN]

BindingTypes ==
  /\ listeners \in [Sessions -> SUBSET Handlers] /\ binding \in [Sessions -> Handlers \cup {Nobody}]
  /\ mine \in [Controllers -> SUBSET Sessions] /\ retired \subseteq Controllers
ItemTypes == items \in [Items -> Downloads] /\ visible \in [Controllers -> Items \cup {NoItem}]

LEMMA DownloadTypesAre == DownloadTypeOK <=> BindingTypes /\ ItemTypes
BY DEF DownloadTypeOK, BindingTypes, ItemTypes, Downloads

\* A session is one's own exactly while one is bound to it.
MineIsBound == \A c \in Controllers : \A s \in Sessions : s \in mine[c] <=> binding[s] = c

\* A download of item record d, of a controller that is not retired while it goes on.
DownloadOk(d) ==
  /\ d.runs => d.at \in {"active", "cancelling"}
  /\ d.at = "active" => d.owner \in Controllers \ retired
  /\ d.at = "none" => d.owner = Nobody
DownloadsOk == \A i \in Items : DownloadOk(items[i])
RetiredShowNothing == \A c \in retired : visible[c] = NoItem

Bindings == BindingTypes /\ OneHandler /\ MineIsBound
DownloadsShown == ItemTypes /\ DownloadsOk /\ RetiredShowNothing /\ ShownIsOwn
DownloadGood == Bindings /\ DownloadsShown

\* The session s may be bound to before; nobody is bound to it who is retired.
LEMMA RetiresIs ==
  ASSUME DownloadGood, NEW c \in Controllers
  PROVE  /\ Retires(c).listeners = [s \in Sessions |-> IF binding[s] = c THEN {Deny} ELSE listeners[s]]
         /\ Retires(c).binding = [s \in Sessions |-> IF binding[s] = c THEN Deny ELSE binding[s]]
         /\ Retires(c).mine = [mine EXCEPT ![c] = {}]
         /\ Retires(c).items = [i \in Items |-> IF items[i].owner = c /\ items[i].at = "active"
                                                THEN [items[i] EXCEPT !.at = "cancelling"] ELSE items[i]]
         /\ Retires(c).visible = [visible EXCEPT ![c] = NoItem]
<1>. DEFINE own == {s \in mine[c] : binding[s] = c}
<1>1. \A s \in Sessions : s \in own <=> binding[s] = c
  BY DEF DownloadGood, Bindings, MineIsBound
<1>2. \A s \in Sessions : binding[s] = c => (listeners[s] \ {c}) \cup {Deny} = {Deny}
  BY DownloadAssumption DEF DownloadGood, Bindings, OneHandler, DownloadAssumption
<1>3. /\ Retires(c).listeners = [s \in Sessions |-> IF s \in own THEN (listeners[s] \ {c}) \cup {Deny} ELSE listeners[s]]
      /\ Retires(c).binding = [s \in Sessions |-> IF s \in own THEN Deny ELSE binding[s]]
      /\ Retires(c).mine = [mine EXCEPT ![c] = {}]
      /\ Retires(c).items = [i \in Items |-> IF items[i].owner = c /\ items[i].at = "active"
                                             THEN [items[i] EXCEPT !.at = "cancelling"] ELSE items[i]]
      /\ Retires(c).visible = [visible EXCEPT ![c] = NoItem]
  BY DEF Retires
<1>. HIDE DEF own
<1>4. \A s \in Sessions : (IF s \in own THEN (listeners[s] \ {c}) \cup {Deny} ELSE listeners[s])
                          = (IF binding[s] = c THEN {Deny} ELSE listeners[s])
  BY <1>1, <1>2
<1>5. \A s \in Sessions : (IF s \in own THEN Deny ELSE binding[s]) = (IF binding[s] = c THEN Deny ELSE binding[s])
  BY <1>1
<1>6. Retires(c).listeners = [s \in Sessions |-> IF binding[s] = c THEN {Deny} ELSE listeners[s]]
  <2>1. [s \in Sessions |-> IF s \in own THEN (listeners[s] \ {c}) \cup {Deny} ELSE listeners[s]]
          = [s \in Sessions |-> IF binding[s] = c THEN {Deny} ELSE listeners[s]]
    BY <1>4
  <2>. QED  BY <1>3, <2>1
<1>7. Retires(c).binding = [s \in Sessions |-> IF binding[s] = c THEN Deny ELSE binding[s]]
  BY <1>3, <1>5
<1>. QED  BY <1>3, <1>6, <1>7

\* The downloads of a controller that is retired are cancelled.
LEMMA RetiringShown ==
  ASSUME DownloadGood, NEW c \in Controllers, retired' = retired \cup {c},
         items' = Retires(c).items, visible' = Retires(c).visible
  PROVE  DownloadsShown'
<1>1. /\ items \in [Items -> Downloads] /\ visible \in [Controllers -> Items \cup {NoItem}]
      /\ DownloadsOk /\ RetiredShowNothing /\ ShownIsOwn /\ retired \subseteq Controllers
      /\ NoItem \notin Items /\ Nobody \notin Controllers
  BY DownloadAssumption DEF DownloadGood, Bindings, BindingTypes, DownloadsShown, ItemTypes, DownloadAssumption
<1>2. ASSUME NEW i \in Items
      PROVE  /\ items'[i] \in Downloads /\ items'[i].owner = items[i].owner /\ items'[i].runs = items[i].runs
             /\ items'[i].at = IF items[i].owner = c /\ items[i].at = "active" THEN "cancelling" ELSE items[i].at
  <2>1. items[i] \in Downloads
    BY <1>1
  <2>2. items' = [j \in Items |-> IF items[j].owner = c /\ items[j].at = "active"
                                  THEN [items[j] EXCEPT !.at = "cancelling"] ELSE items[j]]
    BY RetiresIs
  <2>. QED  BY <2>1, <2>2 DEF Downloads
<1>3. items' \in [Items -> Downloads]
  <2>1. items' = [i \in Items |-> items'[i]]
    BY RetiresIs
  <2>. QED  BY <1>2, <2>1
<1>4. /\ visible' \in [Controllers -> Items \cup {NoItem}] /\ visible'[c] = NoItem
      /\ \A d \in Controllers : d # c => visible'[d] = visible[d]
  BY <1>1, RetiresIs
<1>5. DownloadsOk'
  <2>1. ASSUME NEW i \in Items
        PROVE  DownloadOk(items[i])'
    <3>1. DownloadOk(items[i])
      BY <1>1 DEF DownloadsOk
    <3>. QED  BY <1>2, <3>1 DEF DownloadOk
  <2>. QED  BY <2>1 DEF DownloadsOk
<1>6. RetiredShowNothing' /\ ShownIsOwn'
  BY <1>1, <1>2, <1>4 DEF RetiredShowNothing, ShownIsOwn
<1>. QED  BY <1>3, <1>4, <1>5, <1>6 DEF DownloadsShown, ItemTypes

LEMMA RetireKeeps ==
  ASSUME DownloadGood, NEW c \in Controllers, Retire(c)
  PROVE  DownloadGood'
<1>1. /\ retired' = retired \cup {c}
      /\ listeners' = Retires(c).listeners /\ binding' = Retires(c).binding /\ mine' = Retires(c).mine
      /\ items' = Retires(c).items /\ visible' = Retires(c).visible
  BY DEF Retire
<1>2. DownloadsShown'
  BY <1>1, RetiringShown
<1>3. /\ listeners \in [Sessions -> SUBSET Handlers] /\ binding \in [Sessions -> Handlers \cup {Nobody}]
      /\ mine \in [Controllers -> SUBSET Sessions] /\ retired \subseteq Controllers
      /\ OneHandler /\ MineIsBound /\ Deny \notin Controllers /\ Nobody \notin Controllers
  BY DownloadAssumption DEF DownloadGood, Bindings, BindingTypes, DownloadAssumption
<1>4. /\ listeners' = [s \in Sessions |-> IF binding[s] = c THEN {Deny} ELSE listeners[s]]
      /\ binding' = [s \in Sessions |-> IF binding[s] = c THEN Deny ELSE binding[s]]
      /\ mine' = [mine EXCEPT ![c] = {}]
  BY <1>1, RetiresIs
<1>5. BindingTypes'
  BY <1>1, <1>3, <1>4 DEF BindingTypes, Handlers
<1>6. OneHandler'
  BY <1>1, <1>3, <1>4 DEF OneHandler, Deny, Nobody
<1>7. MineIsBound'
  BY <1>3, <1>4 DEF MineIsBound
<1>. QED  BY <1>2, <1>5, <1>6, <1>7 DEF DownloadGood, Bindings

\* Session s is bound to c, and before it is not bound to anybody who goes on.
LEMMA BoundTo ==
  ASSUME DownloadGood, NEW c \in Controllers, NEW s \in Sessions, Apply(c, s)
  PROVE  Bindings'
<1>. DEFINE before == binding[s]
<1>1. /\ listeners \in [Sessions -> SUBSET Handlers] /\ binding \in [Sessions -> Handlers \cup {Nobody}]
      /\ mine \in [Controllers -> SUBSET Sessions] /\ retired \subseteq Controllers
      /\ OneHandler /\ MineIsBound /\ Deny \notin Controllers /\ Nobody \notin Controllers
  BY DownloadAssumption DEF DownloadGood, Bindings, BindingTypes, DownloadAssumption
<1>2. /\ c \notin retired /\ s \notin mine[c] /\ before # c /\ before \notin retired
      /\ retired' = retired \cup ({before} \cap Controllers)
  BY <1>1 DEF Apply, OneHandler
<1>3. CASE before \in Controllers
  <2>. DEFINE r == Retires(before)
  <2>1. /\ listeners' = [r.listeners EXCEPT ![s] = (@ \ {r.binding[s]}) \cup {c}]
        /\ binding' = [r.binding EXCEPT ![s] = c] /\ mine' = [r.mine EXCEPT ![c] = @ \cup {s}]
    BY <1>2, <1>3 DEF Apply
  <2>2. /\ r.listeners = [t \in Sessions |-> IF binding[t] = before THEN {Deny} ELSE listeners[t]]
        /\ r.binding = [t \in Sessions |-> IF binding[t] = before THEN Deny ELSE binding[t]]
        /\ r.mine = [mine EXCEPT ![before] = {}]
    BY <1>3, RetiresIs
  <2>. HIDE DEF r
  <2>3. retired' = retired \cup {before}
    BY <1>2, <1>3
  <2>4. ASSUME NEW t \in Sessions
        PROVE  /\ t = s => listeners'[t] = {c} /\ binding'[t] = c
               /\ t # s /\ binding[t] = before => listeners'[t] = {Deny} /\ binding'[t] = Deny
               /\ t # s /\ binding[t] # before => listeners'[t] = listeners[t] /\ binding'[t] = binding[t]
    BY <1>1, <2>1, <2>2
  <2>5. ASSUME NEW d \in Controllers
        PROVE  /\ d = c => mine'[d] = mine[c] \cup {s}
               /\ d = before => mine'[d] = {}
               /\ d # c /\ d # before => mine'[d] = mine[d]
    BY <1>1, <1>2, <2>1, <2>2
  <2>6. BindingTypes'
    <3>1. listeners' \in [Sessions -> SUBSET Handlers] /\ binding' \in [Sessions -> Handlers \cup {Nobody}]
      BY <1>1, <2>1, <2>2, <2>4 DEF Handlers
    <3>2. mine' \in [Controllers -> SUBSET Sessions]
      BY <1>1, <2>1, <2>2, <2>5
    <3>. QED  BY <1>1, <1>3, <2>3, <3>1, <3>2 DEF BindingTypes
  <2>7. OneHandler'
    BY <1>1, <1>2, <2>3, <2>4 DEF OneHandler, Deny, Nobody
  <2>8. MineIsBound'
    BY <1>1, <1>2, <2>4, <2>5 DEF MineIsBound
  <2>. QED  BY <2>6, <2>7, <2>8 DEF Bindings
<1>4. CASE before \notin Controllers
  <2>1. /\ listeners' = [listeners EXCEPT ![s] = (@ \ {before}) \cup {c}]
        /\ binding' = [binding EXCEPT ![s] = c] /\ mine' = [mine EXCEPT ![c] = @ \cup {s}]
    BY <1>2, <1>4 DEF Apply, Unchanged
  <2>2. retired' = retired
    BY <1>2, <1>4
  <2>3. listeners[s] \ {before} = {}
    BY <1>1 DEF OneHandler
  <2>4. ASSUME NEW t \in Sessions
        PROVE  /\ t = s => listeners'[t] = {c} /\ binding'[t] = c
               /\ t # s => listeners'[t] = listeners[t] /\ binding'[t] = binding[t]
    BY <1>1, <2>1, <2>3
  <2>5. ASSUME NEW d \in Controllers
        PROVE  /\ d = c => mine'[d] = mine[c] \cup {s}
               /\ d # c => mine'[d] = mine[d]
    BY <1>1, <2>1
  <2>6. BindingTypes'
    BY <1>1, <2>1, <2>2, <2>4, <2>5 DEF BindingTypes, Handlers
  <2>7. OneHandler'
    BY <1>1, <1>2, <2>2, <2>4 DEF OneHandler
  <2>8. MineIsBound'
    BY <1>1, <1>4, <2>4, <2>5 DEF MineIsBound
  <2>. QED  BY <2>6, <2>7, <2>8 DEF Bindings
<1>. QED  BY <1>3, <1>4

LEMMA ApplyKeeps ==
  ASSUME DownloadGood, NEW c \in Controllers, NEW s \in Sessions, Apply(c, s)
  PROVE  DownloadGood'
<1>1. binding[s] \notin retired
  BY DEF DownloadGood, Bindings, OneHandler
<1>2. CASE binding[s] \in Controllers
  <2>1. /\ retired' = retired \cup {binding[s]}
        /\ items' = Retires(binding[s]).items /\ visible' = Retires(binding[s]).visible
    BY <1>1, <1>2 DEF Apply
  <2>. QED  BY <1>2, <2>1, RetiringShown, BoundTo DEF DownloadGood
<1>3. CASE binding[s] \notin Controllers
  <2>1. UNCHANGED <<retired, items, visible>>
    BY <1>1, <1>3 DEF Apply, Unchanged
  <2>2. DownloadsShown'
    BY <2>1 DEF DownloadGood, DownloadsShown, ItemTypes, DownloadsOk, DownloadOk, RetiredShowNothing, ShownIsOwn
  <2>. QED  BY <2>2, BoundTo DEF DownloadGood
<1>. QED  BY <1>2, <1>3

\* One download goes on; it is shown, if at all, to its owner, who is not retired.
LEMMA DownloadMoves ==
  ASSUME DownloadGood, NEW i \in Items, NEW d \in Downloads, DownloadOk(d), UNCHANGED <<listeners, binding, mine, retired>>,
         items' = [items EXCEPT ![i] = d],
         items[i].owner \in Controllers => d.owner = items[i].owner,
         visible' \in [Controllers -> Items \cup {NoItem}],
         \A c \in Controllers : \/ visible'[c] \in {visible[c], NoItem}
                                \/ c \notin retired /\ visible'[c] = i /\ d.owner = c
  PROVE  DownloadGood'
<1>1. /\ items \in [Items -> Downloads] /\ visible \in [Controllers -> Items \cup {NoItem}]
      /\ DownloadsOk /\ RetiredShowNothing /\ ShownIsOwn /\ retired \subseteq Controllers
      /\ NoItem \notin Items /\ Nobody \notin Controllers
  BY DownloadAssumption DEF DownloadGood, Bindings, BindingTypes, DownloadsShown, ItemTypes, DownloadAssumption
<1>2. /\ items' \in [Items -> Downloads] /\ items'[i] = d
      /\ \A j \in Items : j # i => items'[j] = items[j]
  BY <1>1
<1>4. DownloadsOk'
  BY <1>1, <1>2 DEF DownloadsOk, DownloadOk
<1>5. RetiredShowNothing'
  BY <1>1 DEF RetiredShowNothing
<1>6. ShownIsOwn'
  <2>1. ASSUME NEW e \in Controllers, visible'[e] # NoItem, visible'[e] = visible[e]
        PROVE  items'[visible'[e]].owner = e
    <3>1. items[visible[e]].owner = e /\ visible[e] \in Items
      BY <1>1, <2>1 DEF ShownIsOwn
    <3>. QED  BY <1>2, <2>1, <3>1
  <2>. QED  BY <1>1, <1>2, <2>1 DEF ShownIsOwn
<1>7. Bindings'
  BY DEF DownloadGood, Bindings, BindingTypes, OneHandler, MineIsBound
<1>. QED  BY <1>2, <1>4, <1>5, <1>6, <1>7 DEF DownloadGood, DownloadsShown, ItemTypes

LEMMA WillDownloadKeeps ==
  ASSUME DownloadGood, NEW s \in Sessions, NEW i \in Items, WillDownload(s, i)
  PROVE  DownloadGood'
<1>1. /\ visible \in [Controllers -> Items \cup {NoItem}] /\ items[i] \in Downloads /\ DownloadOk(items[i])
      /\ listeners \in [Sessions -> SUBSET Handlers] /\ retired \subseteq Controllers
      /\ Nobody \notin Controllers
  BY DownloadAssumption DEF DownloadGood, Bindings, BindingTypes, DownloadsShown, ItemTypes, DownloadsOk, DownloadAssumption
<1>2. items[i].at = "none" /\ UNCHANGED <<listeners, binding, mine, retired>> /\ items[i].owner = Nobody
  BY <1>1 DEF WillDownload, DownloadOk
<1>3. CASE UNCHANGED <<items, visible>>
  BY <1>2, <1>3 DEF DownloadGood, Bindings, BindingTypes, OneHandler, MineIsBound, DownloadsShown, ItemTypes, DownloadsOk,
     DownloadOk, RetiredShowNothing, ShownIsOwn
<1>4. ASSUME Deny \notin listeners[s], NEW c \in listeners[s] \ retired,
             items' = [items EXCEPT ![i] = [at |-> "active", owner |-> c, runs |-> TRUE]],
             visible' = [visible EXCEPT ![c] = i]
      PROVE  DownloadGood'
  <2>1. c \in Controllers \ retired
    BY <1>1, <1>4 DEF Handlers
  <2>. DEFINE d == [at |-> "active", owner |-> c, runs |-> TRUE]
  <2>2. d \in Downloads /\ DownloadOk(d) /\ d.owner = c
    BY <2>1 DEF Downloads, DownloadOk
  <2>. HIDE DEF d
  <2>3. items' = [items EXCEPT ![i] = d]
    BY <1>4 DEF d
  <2>. QED  BY <1>1, <1>2, <1>4, <2>1, <2>2, <2>3, DownloadMoves
<1>. QED  BY <1>3, <1>4 DEF WillDownload

LEMMA ItemKeeps ==
  ASSUME DownloadGood, NEW i \in Items,
         Updated(i) \/ PromptAnswered(i) \/ Cancelling(i)
         \/ \E state \in {"completed", "cancelled", "interrupted"} : Done(i, state)
  PROVE  DownloadGood'
<1>. DEFINE d(at, runs) == [[items[i] EXCEPT !.runs = runs] EXCEPT !.at = at]
<1>1. /\ items \in [Items -> Downloads] /\ visible \in [Controllers -> Items \cup {NoItem}]
      /\ DownloadOk(items[i]) /\ RetiredShowNothing /\ retired \subseteq Controllers
  BY DEF DownloadGood, Bindings, BindingTypes, DownloadsShown, ItemTypes, DownloadsOk
<1>2. UNCHANGED <<listeners, binding, mine, retired>>
  BY DEF Updated, PromptAnswered, Cancelling, Done
<1>3. ASSUME NEW at \in {"prompt", "finished"}
      PROVE  d(at, FALSE) \in Downloads /\ DownloadOk(d(at, FALSE)) /\ d(at, FALSE).owner = items[i].owner
  BY <1>1 DEF Downloads, DownloadOk
<1>4. items[i].at = "active" => items[i].owner \in Controllers \ retired
  BY <1>1 DEF DownloadOk
<1>5. CASE Updated(i)
  <2>1. items' = [items EXCEPT ![i] = items[i]] /\ items[i] \in Downloads
    BY <1>1, <1>5 DEF Updated
  <2>2. visible' = [visible EXCEPT ![items[i].owner] = i] /\ items[i].owner \in Controllers \ retired
    BY <1>4, <1>5 DEF Updated
  <2>. QED  BY <1>1, <1>2, <2>1, <2>2, DownloadMoves
<1>6. CASE PromptAnswered(i)
  <2>1. items[i].runs = FALSE
    BY <1>1, <1>6 DEF PromptAnswered, DownloadOk, Downloads
  <2>2. items' = [items EXCEPT ![i] = d("finished", FALSE)] /\ visible' = visible
    BY <1>1, <1>6, <2>1 DEF PromptAnswered, Downloads
  <2>. HIDE DEF d
  <2>. QED  BY <1>1, <1>2, <1>3, <2>2, DownloadMoves
<1>7. CASE Cancelling(i)
  <2>1. items' = [items EXCEPT ![i] = d("finished", FALSE)] /\ visible' = visible
    BY <1>1, <1>7 DEF Cancelling, Downloads
  <2>. HIDE DEF d
  <2>. QED  BY <1>1, <1>2, <1>3, <2>1, DownloadMoves
<1>8. ASSUME NEW state \in {"completed", "cancelled", "interrupted"}, Done(i, state)
      PROVE  DownloadGood'
  <2>. DEFINE at == IF state = "completed" THEN "prompt" ELSE "finished"
              c == items[i].owner
  <2>1. at \in {"prompt", "finished"} /\ items' = [items EXCEPT ![i] = d(at, FALSE)]
    BY <1>1, <1>8 DEF Done
  <2>2. c \in Controllers \ retired
    BY <1>4, <1>8 DEF Done
  <2>3. visible' = [visible EXCEPT ![c] = IF state # "cancelled" THEN i ELSE IF @ = i THEN NoItem ELSE @]
    BY <1>8 DEF Done
  <2>. HIDE DEF d, at
  <2>4. /\ visible' \in [Controllers -> Items \cup {NoItem}]
        /\ \A e \in Controllers : visible'[e] \in {visible[e], NoItem} \/ (e = c /\ visible'[e] = i)
    BY <1>1, <2>2, <2>3
  <2>5. /\ d(at, FALSE) \in Downloads /\ DownloadOk(d(at, FALSE)) /\ d(at, FALSE).owner = c
    BY <1>3, <2>1
  <2>6. \A e \in Controllers : \/ visible'[e] \in {visible[e], NoItem}
                               \/ e \notin retired /\ visible'[e] = i /\ d(at, FALSE).owner = e
    BY <2>2, <2>4, <2>5
  <2>. QED  BY <1>2, <2>1, <2>4, <2>5, <2>6, DownloadMoves
<1>. QED  BY <1>5, <1>6, <1>7, <1>8

LEMMA DownloadKept == DownloadGood /\ [DownloadNext]_downloadVars => DownloadGood'
<1>. SUFFICES ASSUME DownloadGood, [DownloadNext]_downloadVars PROVE DownloadGood'
  OBVIOUS
<1>1. ASSUME NEW c \in Controllers, Retire(c) \/ \E s \in Sessions : Apply(c, s)
      PROVE  DownloadGood'
  BY <1>1, RetireKeeps, ApplyKeeps
<1>2. ASSUME NEW i \in Items, \E s \in Sessions : WillDownload(s, i)
      PROVE  DownloadGood'
  BY <1>2, WillDownloadKeeps
<1>3. CASE UNCHANGED downloadVars
  BY <1>3 DEF downloadVars, DownloadGood, Bindings, BindingTypes, OneHandler, MineIsBound, DownloadsShown, ItemTypes,
     DownloadsOk, DownloadOk, RetiredShowNothing, ShownIsOwn
<1>. QED  BY <1>1, <1>2, <1>3, ItemKeeps DEF DownloadNext

LEMMA DownloadAtFirst ==
  ASSUME DownloadInit
  PROVE  DownloadGood
<1>1. NoDownload \in Downloads /\ DownloadOk(NoDownload)
  BY DEF NoDownload, Downloads, DownloadOk
<1>2. BindingTypes /\ ItemTypes
  BY <1>1 DEF DownloadInit, BindingTypes, ItemTypes
<1>3. OneHandler /\ MineIsBound
  BY DownloadAssumption DEF DownloadInit, OneHandler, MineIsBound, DownloadAssumption
<1>4. DownloadsOk /\ RetiredShowNothing /\ ShownIsOwn
  BY <1>1 DEF DownloadInit, DownloadsOk, RetiredShowNothing, ShownIsOwn
<1>. QED  BY <1>2, <1>3, <1>4 DEF DownloadGood, Bindings, DownloadsShown

LEMMA DownloadIsSafe ==
  ASSUME DownloadGood
  PROVE  DownloadSafety
<1>1. DownloadTypeOK /\ OneHandler /\ ShownIsOwn
  BY DownloadTypesAre DEF DownloadGood, Bindings, DownloadsShown
<1>2. NoDownloadSurvives
  BY DEF DownloadGood, DownloadsShown, DownloadsOk, DownloadOk, RetiredShowNothing, NoDownloadSurvives
<1>. QED  BY <1>1, <1>2 DEF DownloadSafety

\* A session has one download handler, a download of a retired controller goes on
\* only while it is being cancelled and is not shown, and what a controller shows is
\* its own (DownloadController: bind, retire, handleDownload).
THEOREM DownloadCorrect == DownloadSpec => []DownloadSafety
BY DownloadAtFirst, DownloadKept, DownloadIsSafe, PTL DEF DownloadSpec

-----------------------------------------------------------------------------
(* Portal data.  What is kept is of the context known, and what a request of  *)
(* the current epoch reads is neither stale nor another context's.            *)

Stores == [known : Keys \cup {NoRead}, cached : Values, inflight : Reads \cup {NoRead},
           calendar : [Weeks -> Values], weeks : [Weeks -> Reads \cup {NoRead}]]
ReadRecords == [at : {"idle", "waits", "resumes", "reads", "done"},
                kind : {"none", "snapshot", "schedule", "week"}, week : Weeks \cup {NoRead},
                on : Reads \cup {NoRead}, current : BOOLEAN, stale : BOOLEAN,
                key : Keys \cup {NoRead}, value : Values]

LEMMA PortalTypesAre ==
  PortalTypeOK <=> /\ context \in Keys /\ clearing \in BOOLEAN
                   /\ store \in Stores /\ reads \in [Reads -> ReadRecords]
BY DEF PortalTypeOK, Stores, ReadRecords

LEMMA PortalTypesWillBe ==
  PortalTypeOK' <=> /\ context' \in Keys /\ clearing' \in BOOLEAN
                    /\ store' \in Stores /\ reads' \in [Reads -> ReadRecords]
BY DEF PortalTypeOK, Stores, ReadRecords

\* A value that may be shown.
Clean(v) == ~v.stale /\ ~v.foreign
KeptClean(s) == Clean(s.cached) /\ \A w \in Weeks : Clean(s.calendar[w])

\* While a request is of the current epoch, nothing it reads is stale, and it reads for the store's context.
RequestOk(s, r, o) ==
  /\ Clean(r[o].value)
  /\ r[o].current => ~r[o].stale /\ r[o].key = s.known
  /\ r[o].at \in {"idle", "done"} => r[o].week = NoRead
  /\ r[o].kind = "week" => r[o].week \in Weeks

WaitOk(r, o) == r[o].at = "waits" => r[o].on \in Reads /\ r[r[o].on].at = "reads"

SlotsOk(s, r) ==
  /\ s.inflight # NoRead => r[s.inflight].at = "reads" /\ r[s.inflight].kind # "week"
  /\ \A w \in Weeks : s.weeks[w] # NoRead => r[s.weeks[w]].week = w

Held(s, r) ==
  /\ s \in Stores /\ r \in [Reads -> ReadRecords]
  /\ KeptClean(s) /\ SlotsOk(s, r) /\ \A o \in Reads : RequestOk(s, r, o)
Consistent(s, r) == Held(s, r) /\ \A o \in Reads : WaitOk(r, o)
\* Request o is handled: it need not wait properly yet.
Passing(s, r, o) == Held(s, r) /\ \A p \in Reads \ {o} : WaitOk(r, p)

PortalInv == context \in Keys /\ clearing \in BOOLEAN /\ Consistent(store, reads)

-----------------------------------------------------------------------------
LEMMA NothingIs == Nothing \in Values /\ Nothing.what = "none" /\ Clean(Nothing)
BY DEF Nothing, Values, Contents, Clean

LEMMA IdleReadIs ==
  /\ IdleRead \in ReadRecords /\ IdleRead.at = "idle" /\ IdleRead.kind = "none" /\ IdleRead.week = NoRead
  /\ IdleRead.on = NoRead /\ IdleRead.current = FALSE /\ IdleRead.stale = FALSE /\ IdleRead.value = Nothing
BY NothingIs DEF IdleRead, ReadRecords

\* invalidate() leaves nothing in the store.
LEMMA ClearedIs ==
  ASSUME NEW s \in Stores
  PROVE  /\ PortalCleared(s) \in Stores /\ PortalCleared(s).known = s.known /\ PortalCleared(s).inflight = NoRead
         /\ PortalCleared(s).cached = Nothing
         /\ \A w \in Weeks : PortalCleared(s).calendar[w] = Nothing /\ PortalCleared(s).weeks[w] = NoRead
BY NothingIs DEF PortalCleared, Stores

LEMMA StaleIs ==
  ASSUME NEW s \in Stores
  PROVE  StoreStale(s) \in Stores /\ StoreStale(s).known = s.known
<1>1. \A v \in Values : Stale(v) \in Values
  BY DEF Stale, Values
<1>2. s.cached \in Values /\ s.calendar \in [Weeks -> Values]
  BY DEF Stores
<1>3. Stale(s.cached) \in Values /\ [w \in Weeks |-> Stale(s.calendar[w])] \in [Weeks -> Values]
  BY <1>1, <1>2
<1>. QED  BY <1>3 DEF StoreStale, Stores

LEMMA OutdatedIs ==
  ASSUME NEW r \in [Reads -> ReadRecords]
  PROVE  /\ Outdated(r) \in [Reads -> ReadRecords]
         /\ \A o \in Reads :
              /\ Outdated(r)[o].current = FALSE /\ Outdated(r)[o].at = r[o].at /\ Outdated(r)[o].on = r[o].on
              /\ Outdated(r)[o].kind = r[o].kind /\ Outdated(r)[o].week = r[o].week
              /\ Outdated(r)[o].value = r[o].value /\ Outdated(r)[o].key = r[o].key
<1>1. \A x \in ReadRecords :
        LET y == [x EXCEPT !.current = FALSE] IN
        /\ y \in ReadRecords /\ y.current = FALSE /\ y.at = x.at /\ y.on = x.on
        /\ y.kind = x.kind /\ y.week = x.week /\ y.value = x.value /\ y.key = x.key
  BY DEF ReadRecords
<1>2. \A o \in Reads : r[o] \in ReadRecords
  OBVIOUS
<1>. QED  BY <1>1, <1>2 DEF Outdated

LEMMA ReadsStaleIs ==
  ASSUME NEW r \in [Reads -> ReadRecords]
  PROVE  /\ ReadsStale(r) \in [Reads -> ReadRecords]
         /\ \A o \in Reads :
              /\ ReadsStale(r)[o].at = r[o].at /\ ReadsStale(r)[o].on = r[o].on
              /\ ReadsStale(r)[o].kind = r[o].kind /\ ReadsStale(r)[o].week = r[o].week
              /\ ReadsStale(r)[o].value = r[o].value /\ ReadsStale(r)[o].key = r[o].key
<1>1. \A x \in ReadRecords :
        LET y == [x EXCEPT !.stale = TRUE] IN
        /\ y \in ReadRecords /\ y.at = x.at /\ y.on = x.on
        /\ y.kind = x.kind /\ y.week = x.week /\ y.value = x.value /\ y.key = x.key
  BY DEF ReadRecords
<1>2. \A o \in Reads : r[o] \in ReadRecords
  OBVIOUS
<1>. QED  BY <1>1, <1>2 DEF ReadsStale

LEMMA LapsedIs ==
  ASSUME NEW r \in [Reads -> ReadRecords]
  PROVE  LET q == Outdated(ReadsStale(r)) IN
         /\ q \in [Reads -> ReadRecords]
         /\ \A o \in Reads :
              /\ q[o].current = FALSE /\ q[o].at = r[o].at /\ q[o].on = r[o].on
              /\ q[o].kind = r[o].kind /\ q[o].week = r[o].week
              /\ q[o].value = r[o].value /\ q[o].key = r[o].key
<1>. DEFINE m == ReadsStale(r)
<1>1. /\ m \in [Reads -> ReadRecords]
      /\ \A o \in Reads :
              /\ m[o].at = r[o].at /\ m[o].on = r[o].on /\ m[o].kind = r[o].kind /\ m[o].week = r[o].week
              /\ m[o].value = r[o].value /\ m[o].key = r[o].key
  BY ReadsStaleIs, Zenon
<1>. HIDE DEF m
<1>. DEFINE q == Outdated(m)
<1>2. /\ q \in [Reads -> ReadRecords]
      /\ \A o \in Reads :
              /\ q[o].current = FALSE /\ q[o].at = m[o].at /\ q[o].on = m[o].on
              /\ q[o].kind = m[o].kind /\ q[o].week = m[o].week
              /\ q[o].value = m[o].value /\ q[o].key = m[o].key
  BY <1>1, OutdatedIs
<1>. HIDE DEF q
<1>3. \A o \in Reads :
              /\ q[o].current = FALSE /\ q[o].at = r[o].at /\ q[o].on = r[o].on
              /\ q[o].kind = r[o].kind /\ q[o].week = r[o].week
              /\ q[o].value = r[o].value /\ q[o].key = r[o].key
  BY <1>1, <1>2
<1>. QED  BY <1>2, <1>3 DEF q, m

\* Everything is emptied: the store, and the epoch of the reads.
Emptied(s) ==
  /\ s \in Stores /\ s.inflight = NoRead /\ Clean(s.cached)
  /\ \A w \in Weeks : s.calendar[w] = Nothing /\ s.weeks[w] = NoRead
Lapsed(q, r) ==
  /\ q \in [Reads -> ReadRecords]
  /\ \A o \in Reads : /\ q[o].current = FALSE /\ q[o].at = r[o].at /\ q[o].on = r[o].on
                       /\ q[o].kind = r[o].kind /\ q[o].week = r[o].week /\ q[o].value = r[o].value

LEMMA EmptiedIsConsistent ==
  ASSUME NEW s, NEW r, NEW t, NEW q, Consistent(s, r), Emptied(t), Lapsed(q, r)
  PROVE  Consistent(t, q)
<1>1. KeptClean(t) /\ SlotsOk(t, q)
  BY NothingIs DEF Emptied, KeptClean, SlotsOk
<1>2. \A o \in Reads : RequestOk(t, q, o) /\ WaitOk(q, o)
  BY DEF Lapsed, Consistent, Held, RequestOk, WaitOk
<1>. QED  BY <1>1, <1>2 DEF Emptied, Lapsed, Consistent, Held

\* captureContext
LEMMA CapturedIs ==
  ASSUME PortalInv
  PROVE  /\ Consistent(CapturedStore, CapturedReads) /\ CapturedStore.known = context
         /\ \A o \in Reads : CapturedReads[o].at = reads[o].at
<1>1. store \in Stores /\ reads \in [Reads -> ReadRecords] /\ Consistent(store, reads) /\ context \in Keys
  BY DEF PortalInv, Consistent, Held
<1>2. CASE store.known = context
  BY <1>1, <1>2 DEF CapturedStore, CapturedReads
<1>3. CASE store.known # context
  <2>. DEFINE c == PortalCleared(store)
              t == [c EXCEPT !.known = context]
  <2>1. /\ c \in Stores /\ c.inflight = NoRead /\ c.cached = Nothing
        /\ \A w \in Weeks : c.calendar[w] = Nothing /\ c.weeks[w] = NoRead
    BY <1>1, ClearedIs
  <2>2. CapturedStore = t /\ CapturedReads = Outdated(reads)
    BY <1>3 DEF CapturedStore, CapturedReads
  <2>. HIDE DEF c
  <2>3. /\ t \in Stores /\ t.known = context /\ t.inflight = NoRead /\ t.cached = Nothing
        /\ \A w \in Weeks : t.calendar[w] = Nothing /\ t.weeks[w] = NoRead
    BY <1>1, <2>1 DEF Stores
  <2>. HIDE DEF t
  <2>4. /\ Outdated(reads) \in [Reads -> ReadRecords]
        /\ \A o \in Reads : LET q == Outdated(reads) IN
             /\ q[o].current = FALSE /\ q[o].at = reads[o].at /\ q[o].on = reads[o].on
             /\ q[o].kind = reads[o].kind /\ q[o].week = reads[o].week /\ q[o].value = reads[o].value
    BY <1>1, OutdatedIs
  <2>5. Consistent(t, Outdated(reads))
    <3>1. Emptied(t)
      BY <2>3, NothingIs DEF Emptied
    <3>2. Lapsed(Outdated(reads), reads)
      BY <2>4 DEF Lapsed
    <3>. QED  BY <1>1, <3>1, <3>2, EmptiedIsConsistent
  <2>. QED  BY <2>2, <2>3, <2>4, <2>5
<1>. QED  BY <1>2, <1>3

-----------------------------------------------------------------------------
(* What a request does to a store s and the requests r *)

\* A request that nobody waits for, and that has no slot.
LEMMA IdleIsFree ==
  ASSUME NEW s, NEW r, Consistent(s, r), NEW o \in Reads, r[o].at \in {"idle", "done"}
  PROVE  /\ s.inflight # o /\ \A w \in Weeks : s.weeks[w] # o
         /\ \A p \in Reads : r[p].at = "waits" => r[p].on # o
BY PortalAssumption DEF Consistent, Held, SlotsOk, RequestOk, WaitOk

LEMMA NobodyWaits ==
  ASSUME NEW s, NEW r, Consistent(s, r), NEW o \in Reads, r[o].at # "reads"
  PROVE  s.inflight # o /\ \A p \in Reads : r[p].at = "waits" => r[p].on # o
BY PortalAssumption DEF Consistent, Held, SlotsOk, WaitOk

LEMMA BeginsKeeps ==
  ASSUME NEW s, NEW r, Consistent(s, r), s.known = context, context \in Keys,
         NEW o \in Reads, NEW kind \in {"snapshot", "schedule"}, r[o].at # "reads", Begins(s, r, o, kind)
  PROVE  Consistent(store', reads')
<1>. DEFINE b == [IdleRead EXCEPT !.at = "reads", !.kind = kind, !.current = TRUE, !.key = context]
            q == Outdated(r)
<1>1. s \in Stores /\ r \in [Reads -> ReadRecords]
  BY DEF Consistent, Held
<1>2. /\ b \in ReadRecords /\ b.at = "reads" /\ b.kind = kind /\ b.current = TRUE /\ b.stale = FALSE
      /\ b.key = context /\ b.week = NoRead /\ b.value = Nothing
  BY NothingIs DEF IdleRead, ReadRecords
<1>3. reads' = [q EXCEPT ![o] = b]
  BY DEF Begins
<1>4. /\ store' = [s EXCEPT !.inflight = o, !.calendar = [w \in Weeks |-> Nothing], !.weeks = [w \in Weeks |-> NoRead]]
  BY DEF Begins
<1>5. /\ q \in [Reads -> ReadRecords]
      /\ \A p \in Reads : /\ q[p].current = FALSE /\ q[p].at = r[p].at /\ q[p].on = r[p].on
                          /\ q[p].kind = r[p].kind /\ q[p].week = r[p].week /\ q[p].value = r[p].value
  BY <1>1, OutdatedIs
<1>. HIDE DEF b, q
<1>6. /\ store' \in Stores /\ store'.inflight = o /\ store'.known = s.known /\ store'.cached = s.cached
      /\ \A w \in Weeks : store'.calendar[w] = Nothing /\ store'.weeks[w] = NoRead
  BY <1>1, <1>4, NothingIs DEF Stores
<1>7. reads' \in [Reads -> ReadRecords] /\ reads'[o] = b /\ \A p \in Reads : p # o => reads'[p] = q[p]
  BY <1>2, <1>3, <1>5
<1>8. KeptClean(store') /\ SlotsOk(store', reads')
  BY <1>2, <1>6, <1>7, NothingIs DEF Consistent, Held, KeptClean, SlotsOk
<1>9. \A p \in Reads : RequestOk(store', reads', p)
  BY <1>2, <1>5, <1>6, <1>7, NothingIs DEF Consistent, Held, RequestOk
<1>10. \A p \in Reads : WaitOk(reads', p)
  BY <1>2, <1>5, <1>7 DEF Consistent, WaitOk
<1>. QED  BY <1>6, <1>7, <1>8, <1>9, <1>10 DEF Consistent, Held

LEMMA ServesKeeps ==
  ASSUME NEW s, NEW r, Consistent(s, r), NEW o \in Reads, r[o].at = "idle",
         NEW v \in Values, Clean(v), Serves(s, r, o, v)
  PROVE  Consistent(store', reads')
<1>. DEFINE b == [IdleRead EXCEPT !.at = "done", !.value = v]
<1>1. s \in Stores /\ r \in [Reads -> ReadRecords]
  BY DEF Consistent, Held
<1>2. /\ b \in ReadRecords /\ b.at = "done" /\ b.kind = "none" /\ b.current = FALSE /\ b.week = NoRead /\ b.value = v
  BY NothingIs DEF IdleRead, ReadRecords
<1>3. store' = s /\ reads' = [r EXCEPT ![o] = b]
  BY DEF Serves
<1>. HIDE DEF b
<1>4. reads' \in [Reads -> ReadRecords] /\ reads'[o] = b /\ \A p \in Reads : p # o => reads'[p] = r[p]
  BY <1>1, <1>2, <1>3
<1>5. /\ s.inflight # o /\ \A w \in Weeks : s.weeks[w] # o
      /\ \A p \in Reads : r[p].at = "waits" => r[p].on # o
  BY IdleIsFree
<1>6. KeptClean(store') /\ SlotsOk(store', reads')
  BY <1>1, <1>3, <1>4, <1>5 DEF Consistent, Held, KeptClean, SlotsOk, Stores
<1>7. \A p \in Reads : RequestOk(store', reads', p)
  BY <1>2, <1>3, <1>4 DEF Consistent, Held, RequestOk
<1>8. \A p \in Reads : WaitOk(reads', p)
  BY <1>2, <1>4, <1>5 DEF Consistent, WaitOk
<1>. QED  BY <1>1, <1>3, <1>4, <1>6, <1>7, <1>8 DEF Consistent, Held

LEMMA JoinIs ==
  ASSUME NEW s, NEW r, Consistent(s, r), s.known = context, context \in Keys, NEW o \in Reads, r[o].at = "idle",
         NEW kind \in {"schedule", "week"}, NEW w \in Weeks \cup {NoRead}, kind = "week" => w \in Weeks,
         NEW on \in Reads \cup {NoRead}, on # NoRead => r[on].at = "reads",
         NEW t, t = s \/ (t = [s EXCEPT !.weeks[w] = o] /\ w \in Weeks)
  PROVE  LET q == Joins(s, r, o, kind, w, on) IN
         /\ Passing(t, q, o) /\ q[o].at = "waits" /\ q[o].key = context /\ q[o].kind = kind
         /\ on # NoRead => Consistent(t, q)
         /\ t.known = context /\ t.inflight = s.inflight /\ t.inflight # o
         /\ \A p \in Reads : q[p].at = "waits" => q[p].on # o
<1>. DEFINE b == [IdleRead EXCEPT !.at = "waits", !.kind = kind, !.week = w, !.on = on, !.current = TRUE,
                                !.key = context]
            q == Joins(s, r, o, kind, w, on)
<1>1. s \in Stores /\ r \in [Reads -> ReadRecords]
  BY DEF Consistent, Held
<1>2. /\ b \in ReadRecords /\ b.at = "waits" /\ b.kind = kind /\ b.current = TRUE /\ b.stale = FALSE
      /\ b.key = context /\ b.week = w /\ b.value = Nothing /\ b.on = on
  BY NothingIs DEF IdleRead, ReadRecords
<1>3. q = [r EXCEPT ![o] = b]
  BY DEF Joins
<1>. HIDE DEF b, q
<1>4. q \in [Reads -> ReadRecords] /\ q[o] = b /\ \A p \in Reads : p # o => q[p] = r[p]
  BY <1>1, <1>2, <1>3
<1>5. /\ t \in Stores /\ t.known = s.known /\ t.cached = s.cached /\ t.calendar = s.calendar
      /\ t.inflight = s.inflight
      /\ \A x \in Weeks : t.weeks[x] = s.weeks[x] \/ (x = w /\ t.weeks[x] = o)
  <2>1. CASE t = s
    BY <1>1, <2>1
  <2>2. CASE t = [s EXCEPT !.weeks[w] = o] /\ w \in Weeks
    <3>. DEFINE m == [s.weeks EXCEPT ![w] = o]
    <3>1. s.weeks \in [Weeks -> Reads \cup {NoRead}]
      BY <1>1 DEF Stores
    <3>2. /\ m \in [Weeks -> Reads \cup {NoRead}] /\ m[w] = o
          /\ \A x \in Weeks : x # w => m[x] = s.weeks[x]
      BY <2>2, <3>1
    <3>3. t = [s EXCEPT !.weeks = m]
      BY <2>2
    <3>. HIDE DEF m
    <3>4. t \in Stores /\ t.weeks = m
      BY <1>1, <3>2, <3>3 DEF Stores
    <3>. QED  BY <1>1, <3>2, <3>3, <3>4 DEF Stores
  <2>. QED  BY <2>1, <2>2
<1>6. /\ s.inflight # o /\ \A x \in Weeks : s.weeks[x] # o
      /\ \A p \in Reads : r[p].at = "waits" => r[p].on # o
  BY IdleIsFree
<1>7. on # o
  BY PortalAssumption
<1>8. KeptClean(t) /\ SlotsOk(t, q)
  BY <1>1, <1>2, <1>4, <1>5, <1>6 DEF Consistent, Held, KeptClean, SlotsOk, Stores
<1>9. \A p \in Reads : RequestOk(t, q, p)
  BY <1>2, <1>4, <1>5, NothingIs DEF Consistent, Held, RequestOk
<1>10. \A p \in Reads : p # o => WaitOk(q, p)
  BY <1>4, <1>6 DEF Consistent, WaitOk
<1>11. on # NoRead => WaitOk(q, o)
  BY <1>2, <1>4, <1>7 DEF WaitOk
<1>12. Held(t, q)
  BY <1>4, <1>5, <1>8, <1>9 DEF Held
<1>13. Passing(t, q, o) /\ (on # NoRead => Consistent(t, q))
  BY <1>10, <1>11, <1>12 DEF Passing, Consistent
<1>14. \A p \in Reads : q[p].at = "waits" => q[p].on # o
  BY <1>2, <1>4, <1>6, <1>7
<1>15. q[o].at = "waits" /\ q[o].key = context /\ q[o].kind = kind
  BY <1>2, <1>4
<1>16. t.known = context /\ t.inflight = s.inflight /\ t.inflight # o
  BY <1>5, <1>6
<1>. QED  BY <1>13, <1>14, <1>15, <1>16 DEF q

\* The slots of request o are free, and those of the requests that fail with it.
FreedOf(s, o, failed) ==
  LET base == Freed(s, o) IN [base EXCEPT !.weeks = [w \in Weeks |-> IF @[w] \in failed THEN NoRead ELSE @[w]]]

LEMMA FreedIs ==
  ASSUME NEW s \in Stores, NEW o \in Reads, NEW failed \in SUBSET Reads
  PROVE  LET t == FreedOf(s, o, failed) IN
         /\ t \in Stores /\ t.known = s.known /\ t.cached = s.cached /\ t.calendar = s.calendar
         /\ t.inflight = IF s.inflight = o THEN NoRead ELSE s.inflight
         /\ \A w \in Weeks : /\ t.weeks[w] \in {s.weeks[w], NoRead} /\ t.weeks[w] # o
                             /\ s.weeks[w] \in failed => t.weeks[w] = NoRead
<1>. DEFINE base == Freed(s, o)
            m == [w \in Weeks |-> IF base.weeks[w] \in failed THEN NoRead ELSE base.weeks[w]]
            t == FreedOf(s, o, failed)
<1>1. s.weeks \in [Weeks -> Reads \cup {NoRead}] /\ s.inflight \in Reads \cup {NoRead}
  BY DEF Stores
<1>2. /\ base \in Stores /\ base.known = s.known /\ base.cached = s.cached /\ base.calendar = s.calendar
      /\ base.inflight = IF s.inflight = o THEN NoRead ELSE s.inflight
      /\ \A w \in Weeks : base.weeks[w] = IF s.weeks[w] = o THEN NoRead ELSE s.weeks[w]
  <2>. DEFINE g == [w \in Weeks |-> IF s.weeks[w] = o THEN NoRead ELSE s.weeks[w]]
              i == IF s.inflight = o THEN NoRead ELSE s.inflight
  <2>1. g \in [Weeks -> Reads \cup {NoRead}] /\ i \in Reads \cup {NoRead}
    BY <1>1
  <2>2. base = [s EXCEPT !.inflight = i, !.weeks = g]
    BY DEF Freed
  <2>3. \A w \in Weeks : g[w] = IF s.weeks[w] = o THEN NoRead ELSE s.weeks[w]
    OBVIOUS
  <2>. HIDE DEF g, base
  <2>4. /\ base \in Stores /\ base.known = s.known /\ base.cached = s.cached /\ base.calendar = s.calendar
        /\ base.inflight = i /\ base.weeks = g
    BY <2>1, <2>2 DEF Stores
  <2>. QED  BY <2>3, <2>4
<1>3. t = [base EXCEPT !.weeks = m]
  BY DEF FreedOf
<1>. HIDE DEF base
<1>4. m \in [Weeks -> Reads \cup {NoRead}]
  BY <1>2 DEF Stores
<1>5. \A w \in Weeks : m[w] = IF base.weeks[w] \in failed THEN NoRead ELSE base.weeks[w]
  OBVIOUS
<1>6. \A w \in Weeks : /\ m[w] \in {s.weeks[w], NoRead} /\ m[w] # o
                       /\ s.weeks[w] \in failed => m[w] = NoRead
  BY <1>2, <1>5, PortalAssumption
<1>. HIDE DEF t, m
<1>7. /\ t \in Stores /\ t.known = s.known /\ t.cached = s.cached /\ t.calendar = s.calendar
      /\ t.inflight = base.inflight /\ t.weeks = m
  BY <1>2, <1>3, <1>4 DEF Stores
<1>. QED  BY <1>2, <1>6, <1>7 DEF t

LEMMA SettledIs ==
  ASSUME NEW r \in [Reads -> ReadRecords], NEW o \in Reads
  PROVE  LET q == SettledReads(r, o, TRUE) IN
         /\ q \in [Reads -> ReadRecords]
         /\ \A p \in Reads :
              /\ ~(r[p].at = "waits" /\ r[p].on = o) => q[p] = r[p]
              /\ r[p].at = "waits" /\ r[p].on = o => q[p].at = "resumes"
              /\ q[p].kind = r[p].kind /\ q[p].week = r[p].week /\ q[p].current = r[p].current
              /\ q[p].stale = r[p].stale /\ q[p].key = r[p].key /\ q[p].value = r[p].value
<1>. DEFINE q == SettledReads(r, o, TRUE)
            d(p) == [r[p] EXCEPT !.at = "resumes", !.on = NoRead]
<1>1. \A p \in Reads : /\ d(p) \in ReadRecords /\ d(p).at = "resumes"
                       /\ d(p).kind = r[p].kind /\ d(p).week = r[p].week /\ d(p).current = r[p].current
                       /\ d(p).stale = r[p].stale /\ d(p).key = r[p].key /\ d(p).value = r[p].value
  <2>1. \A x \in ReadRecords :
          LET y == [x EXCEPT !.at = "resumes", !.on = NoRead] IN
          /\ y \in ReadRecords /\ y.at = "resumes"
          /\ y.kind = x.kind /\ y.week = x.week /\ y.current = x.current
          /\ y.stale = x.stale /\ y.key = x.key /\ y.value = x.value
    BY DEF ReadRecords
  <2>2. \A p \in Reads : r[p] \in ReadRecords
    OBVIOUS
  <2>. QED  BY <2>1, <2>2
<1>2. q = [p \in Reads |-> IF r[p].at = "waits" /\ r[p].on = o THEN d(p) ELSE r[p]]
  BY DEF SettledReads
<1>. HIDE DEF d, q
<1>3. q \in [Reads -> ReadRecords]
  BY <1>1, <1>2
<1>4. \A p \in Reads : q[p] = IF r[p].at = "waits" /\ r[p].on = o THEN d(p) ELSE r[p]
  BY <1>2
<1>5. \A p \in Reads :
        /\ q[p].kind = r[p].kind /\ q[p].week = r[p].week /\ q[p].current = r[p].current
        /\ q[p].stale = r[p].stale /\ q[p].key = r[p].key /\ q[p].value = r[p].value
  BY <1>1, <1>4
<1>6. \A p \in Reads :
        /\ ~(r[p].at = "waits" /\ r[p].on = o) => q[p] = r[p]
        /\ r[p].at = "waits" /\ r[p].on = o => q[p].at = "resumes"
  BY <1>1, <1>4
<1>. QED  BY <1>3, <1>5, <1>6 DEF q

LEMMA ReturnsKeeps ==
  ASSUME NEW s, NEW r, NEW o \in Reads, Passing(s, r, o), r[o].key = context,
         NEW v, v.what \in Contents, v.stale = FALSE, Returns(s, r, o, v)
  PROVE  Consistent(store', reads')
<1>. DEFINE x == [what |-> v.what, stale |-> v.stale, foreign |-> r[o].key # context]
            b == [IdleRead EXCEPT !.at = "done", !.value = x]
            q == SettledReads(r, o, TRUE)
<1>1. s \in Stores /\ r \in [Reads -> ReadRecords]
  BY DEF Passing, Held
<1>2. x \in Values /\ Clean(x)
  <2>1. (r[o].key # context) = FALSE
    OBVIOUS
  <2>. DEFINE f == r[o].key # context
  <2>2. f = FALSE
    BY <2>1
  <2>3. x = [what |-> v.what, stale |-> v.stale, foreign |-> f]
    OBVIOUS
  <2>. HIDE DEF f, x
  <2>4. x \in Values /\ x.stale = FALSE /\ x.foreign = FALSE
    BY <2>2, <2>3 DEF Values
  <2>. QED  BY <2>4 DEF Clean
<1>3. reads' = [q EXCEPT ![o] = b]
  BY DEF Returns
<1>. HIDE DEF x
<1>4. /\ b \in ReadRecords /\ b.at = "done" /\ b.kind = "none" /\ b.current = FALSE /\ b.week = NoRead /\ b.value = x
  BY <1>2, NothingIs DEF IdleRead, ReadRecords
<1>5. /\ q \in [Reads -> ReadRecords]
      /\ \A p \in Reads :
              /\ ~(r[p].at = "waits" /\ r[p].on = o) => q[p] = r[p]
              /\ r[p].at = "waits" /\ r[p].on = o => q[p].at = "resumes"
              /\ q[p].kind = r[p].kind /\ q[p].week = r[p].week /\ q[p].current = r[p].current
              /\ q[p].stale = r[p].stale /\ q[p].key = r[p].key /\ q[p].value = r[p].value
  BY <1>1, SettledIs
<1>6. store' = FreedWith(s, r, o, TRUE)
  BY DEF Returns
<1>7. /\ store' \in Stores /\ store'.known = s.known /\ store'.cached = s.cached /\ store'.calendar = s.calendar
      /\ store'.inflight = IF s.inflight = o THEN NoRead ELSE s.inflight
      /\ \A w \in Weeks : store'.weeks[w] \in {s.weeks[w], NoRead} /\ store'.weeks[w] # o
  <2>. DEFINE failed == {p \in Reads : ~TRUE /\ r[p].at = "waits" /\ r[p].on = o}
  <2>1. store' = FreedOf(s, o, failed) /\ failed \in SUBSET Reads
    BY <1>6 DEF FreedWith, FreedOf
  <2>. HIDE DEF failed
  <2>. QED  BY <1>1, <2>1, FreedIs
<1>. HIDE DEF b, q
<1>8. reads' \in [Reads -> ReadRecords] /\ reads'[o] = b /\ \A p \in Reads : p # o => reads'[p] = q[p]
  BY <1>3, <1>4, <1>5
<1>9. s.inflight \in Reads \cup {NoRead} /\ \A w \in Weeks : s.weeks[w] \in Reads \cup {NoRead}
  BY <1>1 DEF Stores
<1>10. KeptClean(store') /\ SlotsOk(store', reads')
  <2>1. KeptClean(store')
    BY <1>7 DEF Passing, Held, KeptClean
  <2>2. store'.inflight # NoRead => reads'[store'.inflight].at = "reads" /\ reads'[store'.inflight].kind # "week"
    BY <1>5, <1>7, <1>8, <1>9 DEF Passing, Held, SlotsOk
  <2>3. \A w \in Weeks : store'.weeks[w] # NoRead => reads'[store'.weeks[w]].week = w
    BY <1>5, <1>7, <1>8, <1>9 DEF Passing, Held, SlotsOk
  <2>. QED  BY <2>1, <2>2, <2>3 DEF SlotsOk
<1>11. \A p \in Reads : RequestOk(store', reads', p)
  BY <1>2, <1>4, <1>5, <1>7, <1>8 DEF Passing, Held, RequestOk
<1>12. \A p \in Reads : WaitOk(reads', p)
  <2>. SUFFICES ASSUME NEW p \in Reads, reads'[p].at = "waits"
                PROVE  reads'[p].on \in Reads /\ reads'[reads'[p].on].at = "reads"
    BY DEF WaitOk
  <2>1. p # o /\ r[p].at = "waits" /\ r[p].on # o /\ reads'[p] = r[p]
    BY <1>4, <1>5, <1>8
  <2>2. r[p].on \in Reads /\ r[r[p].on].at = "reads"
    BY <2>1 DEF Passing, WaitOk
  <2>. QED  BY <1>5, <1>8, <2>1, <2>2
<1>. QED  BY <1>7, <1>8, <1>10, <1>11, <1>12 DEF Consistent, Held

LEMMA ThrowsKeeps ==
  ASSUME PortalInv, NEW o \in Reads, reads[o].at \in {"reads", "resumes"}, Throws(o)
  PROVE  Consistent(store', reads')
<1>. DEFINE q == SettledReads(reads, o, FALSE)
            Fails(p) == p = o \/ (reads[p].at = "waits" /\ reads[p].on = o)
<1>1. store \in Stores /\ reads \in [Reads -> ReadRecords] /\ Consistent(store, reads)
  BY DEF PortalInv, Consistent, Held
<1>2. /\ q \in [Reads -> ReadRecords]
      /\ \A p \in Reads : q[p] = IF reads[p].at = "waits" /\ reads[p].on = o THEN IdleRead ELSE reads[p]
  BY <1>1, IdleReadIs DEF SettledReads
<1>3. reads' = [q EXCEPT ![o] = IdleRead]
  BY DEF Throws
<1>4. store' = FreedWith(store, reads, o, FALSE)
  BY DEF Throws
<1>5. /\ store' \in Stores /\ store'.known = store.known /\ store'.cached = store.cached
      /\ store'.calendar = store.calendar
      /\ store'.inflight = IF store.inflight = o THEN NoRead ELSE store.inflight
      /\ \A w \in Weeks :
           /\ store'.weeks[w] \in {store.weeks[w], NoRead} /\ store'.weeks[w] # o
           /\ store.weeks[w] \in Reads /\ reads[store.weeks[w]].at = "waits" /\ reads[store.weeks[w]].on = o
                => store'.weeks[w] = NoRead
  <2>. DEFINE failed == {p \in Reads : ~FALSE /\ reads[p].at = "waits" /\ reads[p].on = o}
  <2>1. store' = FreedOf(store, o, failed) /\ failed \in SUBSET Reads
    BY <1>4 DEF FreedWith, FreedOf
  <2>2. \A w \in Weeks :
          store.weeks[w] \in Reads /\ reads[store.weeks[w]].at = "waits" /\ reads[store.weeks[w]].on = o
            => store.weeks[w] \in failed
    OBVIOUS
  <2>. HIDE DEF failed
  <2>. QED  BY <1>1, <2>1, <2>2, FreedIs
<1>. HIDE DEF q
<1>6. /\ reads' \in [Reads -> ReadRecords]
      /\ \A p \in Reads : reads'[p] = IF Fails(p) THEN IdleRead ELSE reads[p]
  BY <1>2, <1>3, IdleReadIs
<1>7. store.inflight \in Reads \cup {NoRead} /\ \A w \in Weeks : store.weeks[w] \in Reads \cup {NoRead}
  BY <1>1 DEF Stores
<1>8. store'.inflight # NoRead => store'.inflight \in Reads /\ ~Fails(store'.inflight)
                                  /\ store'.inflight = store.inflight
  BY <1>1, <1>5, <1>7 DEF Consistent, Held, SlotsOk
<1>9. \A w \in Weeks : store'.weeks[w] # NoRead => /\ store'.weeks[w] \in Reads /\ ~Fails(store'.weeks[w])
                                                   /\ store'.weeks[w] = store.weeks[w]
  BY <1>5, <1>7
<1>10. KeptClean(store') /\ SlotsOk(store', reads')
  BY <1>1, <1>5, <1>6, <1>8, <1>9 DEF Consistent, Held, KeptClean, SlotsOk
<1>11. \A p \in Reads : RequestOk(store', reads', p)
  BY <1>1, <1>5, <1>6, IdleReadIs, NothingIs DEF Consistent, Held, RequestOk
<1>12. \A p \in Reads : WaitOk(reads', p)
  <2>. SUFFICES ASSUME NEW p \in Reads, reads'[p].at = "waits"
                PROVE  reads'[p].on \in Reads /\ reads'[reads'[p].on].at = "reads"
    BY DEF WaitOk
  <2>1. ~Fails(p) /\ reads'[p] = reads[p]
    BY <1>6, IdleReadIs
  <2>2. reads[p].on \in Reads /\ reads[reads[p].on].at = "reads" /\ reads[p].on # o
    BY <1>1, <2>1 DEF Consistent, WaitOk
  <2>. QED  BY <1>6, <2>1, <2>2
<1>. QED  BY <1>5, <1>6, <1>10, <1>11, <1>12 DEF Consistent, Held

LEMMA ReadsWeekKeeps ==
  ASSUME NEW s, NEW r, NEW o \in Reads, Passing(s, r, o), r[o].key = context, r[o].at \in {"waits", "resumes"},
         s.inflight # o, \A p \in Reads : r[p].at = "waits" => r[p].on # o, ReadsWeek(s, r, o)
  PROVE  Consistent(store', reads')
<1>1. s \in Stores /\ r \in [Reads -> ReadRecords] /\ s.cached \in Values /\ Clean(s.cached)
  BY DEF Passing, Held, Stores, KeptClean
<1>2. CASE s.cached.what = "data" /\ Returns(s, r, o, s.cached)
  <2>1. s.cached.what \in Contents /\ s.cached.stale = FALSE
    BY <1>1 DEF Values, Clean
  <2>. QED  BY <1>2, <2>1, ReturnsKeeps
<1>3. CASE store' = s /\ reads' = [r EXCEPT ![o].at = "reads"]
  <2>. DEFINE b == [r[o] EXCEPT !.at = "reads"]
  <2>1. /\ b \in ReadRecords /\ b.at = "reads" /\ b.kind = r[o].kind /\ b.week = r[o].week
        /\ b.current = r[o].current /\ b.stale = r[o].stale /\ b.key = r[o].key /\ b.value = r[o].value
    BY <1>1 DEF ReadRecords
  <2>2. reads' = [r EXCEPT ![o] = b]
    BY <1>1, <1>3
  <2>. HIDE DEF b
  <2>3. reads' \in [Reads -> ReadRecords] /\ reads'[o] = b /\ \A p \in Reads : p # o => reads'[p] = r[p]
    BY <1>1, <2>1, <2>2
  <2>4. KeptClean(store') /\ SlotsOk(store', reads')
    BY <1>1, <1>3, <2>1, <2>3 DEF Passing, Held, KeptClean, SlotsOk, Stores
  <2>5. \A p \in Reads : RequestOk(store', reads', p)
    BY <1>3, <2>1, <2>3 DEF Passing, Held, RequestOk
  <2>6. \A p \in Reads : WaitOk(reads', p)
    BY <1>3, <2>1, <2>3 DEF Passing, WaitOk
  <2>. QED  BY <1>1, <1>3, <2>3, <2>4, <2>5, <2>6 DEF Consistent, Held
<1>. QED  BY <1>2, <1>3 DEF ReadsWeek

-----------------------------------------------------------------------------
(* Steps *)

LEMMA PortalIs ==
  ASSUME PortalInv
  PROVE  /\ context \in Keys /\ store \in Stores /\ reads \in [Reads -> ReadRecords] /\ Consistent(store, reads)
         /\ store.cached \in Values /\ Clean(store.cached)
         /\ \A w \in Weeks : store.calendar[w] \in Values /\ Clean(store.calendar[w])
BY DEF PortalInv, Consistent, Held, Stores, KeptClean

LEMMA SnapshotKeeps ==
  ASSUME PortalInv, NEW o \in Reads, Snapshot(o)
  PROVE  PortalInv'
<1>. DEFINE s == CapturedStore
            r == CapturedReads
<1>1. /\ Consistent(s, r) /\ s.known = context /\ r[o].at = "idle" /\ context \in Keys /\ clearing \in BOOLEAN
      /\ UNCHANGED <<context, clearing>>
  BY CapturedIs DEF Snapshot, PortalInv
<1>2. s.cached \in Values /\ Clean(s.cached)
  BY <1>1 DEF Consistent, Held, Stores, KeptClean
<1>3. Serves(s, r, o, s.cached) \/ Begins(s, r, o, "snapshot")
  BY DEF Snapshot
<1>. HIDE DEF s, r
<1>4. Consistent(store', reads')
  BY <1>1, <1>2, <1>3, ServesKeeps, BeginsKeeps
<1>. QED  BY <1>1, <1>4 DEF PortalInv

LEMMA RefreshScheduleKeeps ==
  ASSUME PortalInv, NEW o \in Reads, RefreshSchedule(o)
  PROVE  PortalInv'
<1>. DEFINE s == CapturedStore
            r == CapturedReads
<1>1. /\ Consistent(s, r) /\ s.known = context /\ r[o].at = "idle" /\ context \in Keys /\ clearing \in BOOLEAN
      /\ UNCHANGED <<context, clearing>>
  BY CapturedIs DEF RefreshSchedule, PortalInv
<1>2. s.inflight \in Reads \cup {NoRead} /\ (s.inflight # NoRead => r[s.inflight].at = "reads")
  BY <1>1 DEF Consistent, Held, Stores, SlotsOk
<1>3. \/ s.inflight # NoRead /\ store' = s /\ reads' = Joins(s, r, o, "schedule", NoRead, s.inflight)
      \/ Begins(s, r, o, "schedule")
  BY DEF RefreshSchedule
<1>. HIDE DEF s, r
<1>4. CASE Begins(s, r, o, "schedule")
  BY <1>1, <1>4, BeginsKeeps DEF PortalInv
<1>5. CASE s.inflight # NoRead /\ store' = s /\ reads' = Joins(s, r, o, "schedule", NoRead, s.inflight)
  <2>1. Consistent(s, Joins(s, r, o, "schedule", NoRead, s.inflight))
    BY <1>1, <1>2, <1>5, JoinIs
  <2>. QED  BY <1>1, <1>5, <2>1 DEF PortalInv
<1>. QED  BY <1>3, <1>4, <1>5

LEMMA ScheduleWeekKeeps ==
  ASSUME PortalInv, NEW o \in Reads, NEW w \in Weeks, ScheduleWeek(o, w)
  PROVE  PortalInv'
<1>. DEFINE s == CapturedStore
            r == CapturedReads
            slot == [s EXCEPT !.weeks[w] = o]
            q == Joins(s, r, o, "week", w, s.inflight)
<1>1. /\ Consistent(s, r) /\ s.known = context /\ r[o].at = "idle" /\ context \in Keys /\ clearing \in BOOLEAN
      /\ UNCHANGED <<context, clearing>>
  BY CapturedIs DEF ScheduleWeek, PortalInv
<1>2. s.inflight \in Reads \cup {NoRead} /\ (s.inflight # NoRead => r[s.inflight].at = "reads")
  BY <1>1 DEF Consistent, Held, Stores, SlotsOk
<1>3. \/ Serves(s, r, o, s.calendar[w])
      \/ s.inflight # NoRead /\ store' = slot /\ reads' = Joins(s, r, o, "week", w, s.inflight)
      \/ s.inflight = NoRead /\ ReadsWeek(slot, Joins(s, r, o, "week", w, NoRead), o)
  <2>1. CASE s.inflight = NoRead
    BY <2>1 DEF ScheduleWeek, Joins
  <2>2. CASE s.inflight # NoRead
    BY <2>2 DEF ScheduleWeek, Joins
  <2>. QED  BY <2>1, <2>2
<1>4. s.calendar[w] \in Values /\ Clean(s.calendar[w])
  BY <1>1 DEF Consistent, Held, Stores, KeptClean
<1>. HIDE DEF s, r
<1>5. CASE Serves(s, r, o, s.calendar[w])
  BY <1>1, <1>4, <1>5, ServesKeeps DEF PortalInv
<1>6. CASE s.inflight # NoRead /\ store' = slot /\ reads' = q
  <2>1. Consistent(slot, q)
    BY <1>1, <1>2, <1>6, JoinIs
  <2>. QED  BY <1>1, <1>6, <2>1 DEF PortalInv
<1>7. CASE s.inflight = NoRead /\ ReadsWeek(slot, Joins(s, r, o, "week", w, NoRead), o)
  <2>. DEFINE j == Joins(s, r, o, "week", w, NoRead)
  <2>1. /\ Passing(slot, j, o) /\ j[o].at = "waits" /\ j[o].key = context /\ slot.inflight # o
        /\ \A p \in Reads : j[p].at = "waits" => j[p].on # o
    BY <1>1, JoinIs
  <2>. HIDE DEF j, slot
  <2>2. ReadsWeek(slot, j, o)
    BY <1>7 DEF j
  <2>3. Consistent(store', reads')
    BY <2>1, <2>2, ReadsWeekKeeps
  <2>. QED  BY <1>1, <2>3 DEF PortalInv
<1>. QED  BY <1>3, <1>5, <1>6, <1>7

LEMMA ResumeReadKeeps ==
  ASSUME PortalInv, NEW o \in Reads, ResumeRead(o)
  PROVE  PortalInv'
<1>1. /\ reads[o].at = "resumes" /\ context \in Keys /\ clearing \in BOOLEAN /\ UNCHANGED <<context, clearing>>
      /\ Consistent(store, reads)
  BY DEF ResumeRead, PortalInv
<1>2. CASE Throws(o)
  BY <1>1, <1>2, ThrowsKeeps DEF PortalInv
<1>3. CASE Current(o) /\ Begins(store, reads, o, "schedule")
  <2>1. store.known = context
    BY <1>1, <1>3 DEF Current, Consistent, Held, RequestOk
  <2>. QED  BY <1>1, <1>3, <2>1, BeginsKeeps DEF PortalInv
<1>4. CASE Current(o) /\ ReadsWeek(store, reads, o)
  <2>1. store.inflight # o /\ \A p \in Reads : reads[p].at = "waits" => reads[p].on # o
    BY <1>1, NobodyWaits
  <2>2. reads[o].key = context /\ Passing(store, reads, o)
    BY <1>1, <1>4 DEF Current, Consistent, Passing
  <2>. QED  BY <1>1, <1>4, <2>1, <2>2, ReadsWeekKeeps DEF PortalInv
<1>. QED  BY <1>2, <1>3, <1>4 DEF ResumeRead

LEMMA TakenKeeps ==
  ASSUME PortalInv, NEW o \in Reads, Taken(o)
  PROVE  PortalInv'
<1>1. /\ reads[o].at = "done" /\ reads' = [reads EXCEPT ![o] = IdleRead] /\ UNCHANGED <<context, store, clearing>>
      /\ context \in Keys /\ clearing \in BOOLEAN
  BY DEF Taken, PortalInv
<1>2. store \in Stores /\ reads \in [Reads -> ReadRecords] /\ Consistent(store, reads)
  BY PortalIs
<1>3. reads' \in [Reads -> ReadRecords] /\ reads'[o] = IdleRead /\ \A p \in Reads : p # o => reads'[p] = reads[p]
  BY <1>1, <1>2, IdleReadIs
<1>4. /\ store.inflight # o /\ \A w \in Weeks : store.weeks[w] # o
      /\ \A p \in Reads : reads[p].at = "waits" => reads[p].on # o
  BY <1>1, <1>2, IdleIsFree
<1>5. KeptClean(store) /\ SlotsOk(store, reads')
  BY <1>2, <1>3, <1>4 DEF Consistent, Held, SlotsOk, Stores
<1>6. \A p \in Reads : RequestOk(store, reads', p) /\ WaitOk(reads', p)
  BY <1>2, <1>3, <1>4, IdleReadIs, NothingIs DEF Consistent, Held, RequestOk, WaitOk
<1>7. Consistent(store, reads')
  BY <1>2, <1>3, <1>5, <1>6 DEF Consistent, Held
<1>. QED  BY <1>1, <1>7 DEF PortalInv

\* What is asked by the current epoch is not stale, and belongs to the context.
LEMMA StoredIs ==
  ASSUME PortalInv, NEW o \in Reads, Current(o), NEW v \in Values, Clean(v)
  PROVE  Consistent(Stored(o, v), reads)
<1>1. store \in Stores /\ Consistent(store, reads)
  BY PortalIs
<1>2. CASE Stored(o, v) = store
  BY <1>1, <1>2
<1>3. CASE reads[o].kind = "week" /\ Stored(o, v) = [store EXCEPT !.calendar[reads[o].week] = v]
  <2>1. PICK w \in Weeks : w = reads[o].week
    BY <1>1, <1>3 DEF Consistent, Held, RequestOk
  <2>. DEFINE g == [store.calendar EXCEPT ![w] = v]
              t == Stored(o, v)
  <2>2. /\ g \in [Weeks -> Values] /\ \A x \in Weeks : g[x] = IF x = w THEN v ELSE store.calendar[x]
    BY <1>1 DEF Stores
  <2>3. t = [store EXCEPT !.calendar = g]
    BY <1>3, <2>1
  <2>. HIDE DEF g, t
  <2>4. /\ t \in Stores /\ t.known = store.known /\ t.cached = store.cached /\ t.inflight = store.inflight
        /\ t.weeks = store.weeks /\ t.calendar = g
    BY <1>1, <2>2, <2>3 DEF Stores
  <2>5. KeptClean(t) /\ SlotsOk(t, reads) /\ \A p \in Reads : RequestOk(t, reads, p)
    BY <1>1, <2>2, <2>4 DEF Consistent, Held, KeptClean, SlotsOk, RequestOk
  <2>. QED  BY <1>1, <2>4, <2>5 DEF Consistent, Held, t
<1>4. CASE Stored(o, v) = [store EXCEPT !.cached = v]
  <2>. DEFINE t == Stored(o, v)
  <2>1. /\ t \in Stores /\ t.known = store.known /\ t.cached = v /\ t.inflight = store.inflight
        /\ t.weeks = store.weeks /\ t.calendar = store.calendar
    BY <1>1, <1>4 DEF Stores
  <2>2. KeptClean(t) /\ SlotsOk(t, reads) /\ \A p \in Reads : RequestOk(t, reads, p)
    BY <1>1, <2>1 DEF Consistent, Held, KeptClean, SlotsOk, RequestOk
  <2>. QED  BY <1>1, <2>1, <2>2 DEF Consistent, Held
<1>. QED  BY <1>2, <1>3, <1>4 DEF Stored

\* The session, or the schedule, has been denied: nothing is left.
LEMMA DeniedIs ==
  ASSUME PortalInv, NEW what \in {"out", "forbidden"}
  PROVE  Consistent(Denied(what), Outdated(ReadsStale(reads)))
<1>1. store \in Stores /\ Consistent(store, reads) /\ reads \in [Reads -> ReadRecords]
  BY PortalIs
<1>. DEFINE c == PortalCleared(StoreStale(store))
            t == Denied(what)
            q == Outdated(ReadsStale(reads))
            n == [Nothing EXCEPT !.what = "out"]
<1>2. /\ c \in Stores /\ c.inflight = NoRead /\ c.cached = Nothing
      /\ \A w \in Weeks : c.calendar[w] = Nothing /\ c.weeks[w] = NoRead
  BY <1>1, StaleIs, ClearedIs
<1>3. n \in Values /\ Clean(n)
  BY DEF Nothing, Values, Contents, Clean
<1>4. t = c \/ t = [c EXCEPT !.cached = n]
  <2>1. c.cached = Nothing
    BY <1>2
  <2>. QED  BY <2>1 DEF Denied
<1>5. /\ q \in [Reads -> ReadRecords]
      /\ \A o \in Reads : /\ q[o].current = FALSE /\ q[o].at = reads[o].at /\ q[o].on = reads[o].on
                          /\ q[o].kind = reads[o].kind /\ q[o].week = reads[o].week /\ q[o].value = reads[o].value
  BY <1>1, LapsedIs
<1>. HIDE DEF c, t, n, q
<1>6. /\ t \in Stores /\ t.inflight = NoRead /\ Clean(t.cached)
      /\ \A w \in Weeks : t.calendar[w] = Nothing /\ t.weeks[w] = NoRead
  BY <1>2, <1>3, <1>4, NothingIs DEF Stores
<1>7. Consistent(t, q)
  <2>1. Emptied(t) /\ Lapsed(q, reads)
    BY <1>5, <1>6 DEF Emptied, Lapsed
  <2>. QED  BY <1>1, <2>1, EmptiedIsConsistent
<1>. QED  BY <1>7 DEF t, q

LEMMA AnswerKeeps ==
  ASSUME PortalInv, NEW o \in Reads, NEW answer \in {"out", "forbidden", "thin", "data", "error"}, Answer(o, answer)
  PROVE  PortalInv'
<1>. DEFINE stale == reads[o].stale
            foreign == reads[o].key # store.known
            v == [what |-> answer, stale |-> stale, foreign |-> foreign]
            q == Outdated(ReadsStale(reads))
            n == [Nothing EXCEPT !.what = "out"]
<1>1. /\ reads[o].at = "reads" /\ context \in Keys /\ clearing \in BOOLEAN /\ UNCHANGED <<context, clearing>>
      /\ Consistent(store, reads) /\ reads \in [Reads -> ReadRecords]
  BY PortalIs DEF Answer, PortalInv
<1>2. CASE Throws(o)
  BY <1>1, <1>2, ThrowsKeeps DEF PortalInv
<1>3. CASE /\ Current(o) /\ answer \in {"out", "forbidden"} /\ Returns(Denied(answer), q, o, n)
  <2>1. Consistent(Denied(answer), q) /\ q[o].key = reads[o].key /\ reads[o].key = context
    BY <1>1, <1>3, DeniedIs, LapsedIs DEF Current
  <2>2. n.what \in Contents /\ n.stale = FALSE
    BY DEF Nothing, Contents
  <2>3. Passing(Denied(answer), q, o)
    BY <2>1 DEF Consistent, Passing
  <2>. HIDE DEF q, n
  <2>4. Consistent(store', reads')
    BY <1>3, <2>1, <2>2, <2>3, ReturnsKeeps
  <2>. QED  BY <1>1, <2>4 DEF PortalInv
<1>4. CASE /\ Current(o) /\ answer \in {"thin", "data"} /\ Returns(Stored(o, v), reads, o, v)
  <2>1. reads[o].key = context /\ reads[o].key = store.known /\ stale = FALSE /\ foreign = FALSE
    BY <1>1, <1>4 DEF Current, Consistent, Held, RequestOk, ReadRecords
  <2>. HIDE DEF stale, foreign
  <2>2. v \in Values /\ Clean(v) /\ v.what \in Contents /\ v.stale = FALSE
    BY <1>4, <2>1 DEF Values, Contents, Clean
  <2>. HIDE DEF v
  <2>3. Consistent(Stored(o, v), reads)
    BY <1>4, <2>2, StoredIs
  <2>4. Passing(Stored(o, v), reads, o)
    BY <2>3 DEF Consistent, Passing
  <2>5. Consistent(store', reads')
    BY <1>4, <2>1, <2>2, <2>4, ReturnsKeeps
  <2>. QED  BY <1>1, <2>5 DEF PortalInv
<1>. QED  BY <1>2, <1>3, <1>4 DEF Answer

LEMMA SwitchContextKeeps ==
  ASSUME PortalInv, SwitchContext
  PROVE  PortalInv'
BY DEF PortalInv, SwitchContext

LEMMA ClearKeeps ==
  ASSUME PortalInv, ClearBegins \/ ClearEnds
  PROVE  PortalInv'
<1>1. store \in Stores /\ Consistent(store, reads) /\ reads \in [Reads -> ReadRecords] /\ context \in Keys
  BY PortalIs
<1>2. UNCHANGED context /\ clearing' \in BOOLEAN
  BY DEF ClearBegins, ClearEnds
<1>3. /\ store' \in Stores /\ store'.inflight = NoRead /\ store'.cached = Nothing
      /\ \A w \in Weeks : store'.calendar[w] = Nothing /\ store'.weeks[w] = NoRead
  BY <1>1, StaleIs, ClearedIs DEF ClearBegins, ClearEnds
<1>4. /\ reads' \in [Reads -> ReadRecords]
      /\ \A o \in Reads :
           /\ reads'[o].current = FALSE /\ reads'[o].at = reads[o].at /\ reads'[o].on = reads[o].on
           /\ reads'[o].kind = reads[o].kind /\ reads'[o].week = reads[o].week /\ reads'[o].value = reads[o].value
  <2>1. reads' = Outdated(reads) \/ reads' = Outdated(ReadsStale(reads))
    BY DEF ClearBegins, ClearEnds
  <2>2. CASE reads' = Outdated(reads)
    BY <1>1, <2>2, OutdatedIs
  <2>3. CASE reads' = Outdated(ReadsStale(reads))
    BY <1>1, <2>3, LapsedIs
  <2>. QED  BY <2>1, <2>2, <2>3
<1>5. Consistent(store', reads')
  <2>1. Emptied(store') /\ Lapsed(reads', reads)
    BY <1>3, <1>4, NothingIs DEF Emptied, Lapsed
  <2>. QED  BY <1>1, <2>1, EmptiedIsConsistent
<1>. QED  BY <1>1, <1>2, <1>5 DEF PortalInv

LEMMA PortalKept ==
  ASSUME PortalInv, [PortalNext]_portalVars
  PROVE  PortalInv'
<1>1. CASE SwitchContext \/ ClearBegins \/ ClearEnds
  BY <1>1, SwitchContextKeeps, ClearKeeps
<1>2. CASE \E o \in Reads : Snapshot(o) \/ RefreshSchedule(o) \/ ResumeRead(o) \/ Taken(o)
  BY <1>2, SnapshotKeeps, RefreshScheduleKeeps, ResumeReadKeeps, TakenKeeps
<1>3. CASE \E o \in Reads, w \in Weeks : ScheduleWeek(o, w)
  BY <1>3, ScheduleWeekKeeps
<1>4. CASE \E o \in Reads : \E answer \in {"out", "forbidden", "thin", "data", "error"} : Answer(o, answer)
  BY <1>4, AnswerKeeps
<1>5. CASE UNCHANGED portalVars
  BY <1>5 DEF portalVars, PortalInv
<1>. QED  BY <1>1, <1>2, <1>3, <1>4, <1>5 DEF PortalNext

LEMMA PortalAtFirst ==
  ASSUME PortalInit
  PROVE  PortalInv
<1>1. /\ store \in Stores /\ store.cached = Nothing /\ store.inflight = NoRead
      /\ \A w \in Weeks : store.calendar[w] = Nothing /\ store.weeks[w] = NoRead
  BY NothingIs DEF PortalInit, Stores
<1>2. reads = [o \in Reads |-> IdleRead]
  BY DEF PortalInit
<1>3. reads \in [Reads -> ReadRecords] /\ \A o \in Reads : reads[o] = IdleRead
  BY <1>2, IdleReadIs
<1>4. KeptClean(store) /\ SlotsOk(store, reads)
  BY <1>1, NothingIs DEF KeptClean, SlotsOk
<1>5. \A o \in Reads : RequestOk(store, reads, o) /\ WaitOk(reads, o)
  BY <1>3, IdleReadIs, NothingIs DEF RequestOk, WaitOk
<1>. QED  BY <1>1, <1>3, <1>4, <1>5 DEF PortalInv, PortalInit, Consistent, Held

LEMMA PortalInvIsSafe ==
  ASSUME PortalInv
  PROVE  PortalSafety
<1>1. PortalTypeOK
  BY PortalIs, PortalTypesAre DEF PortalInv
<1>2. NothingAfterDenial /\ OwnContextOnly
  BY DEF PortalInv, Consistent, Held, KeptClean, RequestOk, Clean, NothingAfterDenial, OwnContextOnly
<1>3. NobodyLeftBehind
  BY DEF PortalInv, Consistent, Held, SlotsOk, WaitOk, NobodyLeftBehind
<1>. QED  BY <1>1, <1>2, <1>3 DEF PortalSafety

\* No personal data read before the portal denied the session, or before the
\* browser data were cleared, are kept or returned afterwards; none are shown to
\* another profile than they were read for; and no request waits for one that no
\* longer reads (MyPortalDataRuntime: captureContext, acceptDataResult, invalidate).
THEOREM PortalCorrect == PortalSpec => []PortalSafety
<1>1. PortalInit => PortalInv
  BY PortalAtFirst
<1>2. PortalInv /\ [PortalNext]_portalVars => PortalInv'
  BY PortalKept
<1>3. PortalInv => PortalSafety
  BY PortalInvIsSafe
<1>. QED  BY <1>1, <1>2, <1>3, PTL DEF PortalSpec

-----------------------------------------------------------------------------
(* Trusted certificates.  The store saves the list of pins and only then      *)
(* serves it; a prompt answers one certificate error.                          *)

(* A set of numbers has a smallest one: how facts about what a filter keeps *)
(* are shown for lists of any length.                                       *)
Below == {ss \in Nat \X Nat : ss[1] < ss[2]}
LEMMA BelowIsWellFounded == IsWellFoundedOn(Below, Nat)
BY NatLessThanWellFounded DEF OpToRel, Below

LEMMA Smallest == ASSUME NEW S, S \subseteq Nat, S # {} PROVE \E k \in S : \A m \in S : k <= m
<1>1. \E k \in S : \A m \in S : ~(<<m, k>> \in Below) BY BelowIsWellFounded, WFMin
<1>2. \A m, k \in Nat : m < k => <<m, k>> \in Below BY DEF Below
<1>3. PICK k \in S : \A m \in S : ~(<<m, k>> \in Below) BY <1>1
<1>4. ASSUME NEW m \in S PROVE k <= m
  <2>1. k \in Nat /\ m \in Nat OBVIOUS
  <2>2. ~(m < k) BY <1>2, <1>3, <2>1
  <2>. QED BY <2>1, <2>2
<1>. QED BY <1>4

LEMMA FromZero ==
  ASSUME NEW n \in Nat, NEW S, 0 \in S, \A k \in 0..n-1 : k \in S => k + 1 \in S
  PROVE  \A k \in 0..n : k \in S
<1>. DEFINE T == {k \in 0..n : k \notin S}
<1>. SUFFICES ASSUME T # {} PROVE FALSE OBVIOUS
<1>1. PICK k \in T : \A m \in T : k <= m
  <2>1. T \subseteq Nat OBVIOUS
  <2>. HIDE DEF T
  <2>. QED BY <2>1, Smallest
<1>2. k # 0 /\ k \in 0..n /\ k \notin S OBVIOUS
<1>3. k - 1 \in 0..n-1 BY <1>2
<1>4. k - 1 \in S BY <1>1, <1>3
<1>5. (k - 1) + 1 \in S BY <1>3, <1>4
<1>. QED BY <1>2, <1>5

\* One more element of a list is looked at.
Looked(pins, gone, i, before) == IF pins[i] \in gone THEN before ELSE Append(before, pins[i])
KeepsUpTo(f, pins, gone, n) ==
  f = [i \in 0..n |-> IF i = 0 THEN <<>> ELSE IF pins[i] \in gone THEN f[i-1] ELSE Append(f[i-1], pins[i])]

LEMMA KeepsExists ==
  ASSUME NEW pins, NEW gone, NEW n \in Nat
  PROVE  \E f : KeepsUpTo(f, pins, gone, n)
<1>. DEFINE S == {k \in Nat : \E f : KeepsUpTo(f, pins, gone, k)}
<1>1. 0 \in S
  <2>. DEFINE g == [i \in 0..0 |-> <<>>]
  <2>1. KeepsUpTo(g, pins, gone, 0) BY DEF KeepsUpTo
  <2>. QED BY <2>1
<1>2. \A k \in 0..n-1 : k \in S => k + 1 \in S
  <2>. SUFFICES ASSUME NEW k \in 0..n-1, NEW f, KeepsUpTo(f, pins, gone, k) PROVE \E g : KeepsUpTo(g, pins, gone, k+1)
    OBVIOUS
  <2>. DEFINE g == [i \in 0..k+1 |-> IF i <= k THEN f[i] ELSE Looked(pins, gone, k+1, f[k])]
  <2>1. \A i \in 0..k : f[i] = IF i = 0 THEN <<>> ELSE IF pins[i] \in gone THEN f[i-1] ELSE Append(f[i-1], pins[i])
    BY DEF KeepsUpTo
  <2>2. \A i \in 0..k+1 : g[i] = IF i = 0 THEN <<>> ELSE IF pins[i] \in gone THEN g[i-1] ELSE Append(g[i-1], pins[i])
    <3>1. ASSUME NEW i \in 0..k PROVE g[i] = IF i = 0 THEN <<>> ELSE IF pins[i] \in gone THEN g[i-1] ELSE Append(g[i-1], pins[i])
      <4>1. g[i] = f[i] OBVIOUS
      <4>2. i # 0 => g[i-1] = f[i-1] OBVIOUS
      <4>. HIDE DEF g
      <4>. QED BY <2>1, <4>1, <4>2
    <3>2. g[k+1] = Looked(pins, gone, k+1, f[k]) /\ g[(k+1)-1] = f[k] /\ k + 1 # 0
      <4>1. k+1 \in 0..k+1 /\ ~(k+1 <= k) /\ (k+1)-1 = k /\ k \in 0..k+1 OBVIOUS
      <4>. HIDE DEF Looked
      <4>. QED BY <4>1
    <3>3. \A i \in 0..k+1 : i \in 0..k \/ i = k+1 OBVIOUS
    <3>. HIDE DEF g
    <3>. QED BY <3>1, <3>2, <3>3 DEF Looked
  <2>3. g = [i \in 0..k+1 |-> g[i]] OBVIOUS
  <2>. HIDE DEF g
  <2>4. KeepsUpTo(g, pins, gone, k+1) BY <2>2, <2>3 DEF KeepsUpTo
  <2>. QED BY <2>4
<1>. HIDE DEF S
<1>3. n \in S BY <1>1, <1>2, FromZero
<1>. QED BY <1>3 DEF S

LEMMA AppendRange ==
  ASSUME NEW E, NEW s \in Seq(E), NEW e \in E
  PROVE  /\ Append(s, e) \in Seq(E) /\ Len(Append(s, e)) = Len(s) + 1
         /\ Range(Append(s, e)) = Range(s) \cup {e}
<1>1. Append(s, e) \in Seq(E) /\ Len(Append(s, e)) = Len(s) + 1 BY AppendProperties
<1>2. \A x \in 1..Len(s)+1 : Append(s, e)[x] = IF x <= Len(s) THEN s[x] ELSE e BY AppendProperties
<1>3. DOMAIN Append(s, e) = 1..Len(s)+1 /\ DOMAIN s = 1..Len(s) /\ Len(s) \in Nat BY <1>1, LenProperties
<1>4. ASSUME NEW x PROVE x \in Range(Append(s, e)) <=> x \in Range(s) \/ x = e
  <2>1. ASSUME x \in Range(Append(s, e)) PROVE x \in Range(s) \/ x = e
    <3>1. PICK i \in 1..Len(s)+1 : Append(s, e)[i] = x BY <1>3, <2>1 DEF Range
    <3>2. i <= Len(s) => i \in DOMAIN s BY <1>3
    <3>. QED BY <1>2, <3>1, <3>2 DEF Range
  <2>2. ASSUME x \in Range(s) PROVE x \in Range(Append(s, e))
    <3>1. PICK i \in 1..Len(s) : s[i] = x BY <1>3, <2>2 DEF Range
    <3>2. i \in 1..Len(s)+1 /\ i <= Len(s) BY <1>3
    <3>. QED BY <1>2, <1>3, <3>1, <3>2 DEF Range
  <2>3. Len(s)+1 \in 1..Len(s)+1 /\ ~(Len(s)+1 <= Len(s)) BY <1>3
  <2>4. e \in Range(Append(s, e)) BY <1>2, <1>3, <2>3 DEF Range
  <2>. QED BY <2>1, <2>2, <2>4
<1>. QED BY <1>1, <1>4

LEMMA WithoutIs ==
  ASSUME NEW E, NEW pins \in Seq(E), NEW gone
  PROVE  /\ Without(pins, gone) \in Seq(E) /\ Len(Without(pins, gone)) <= Len(pins)
         /\ Range(Without(pins, gone)) = Range(pins) \ gone
<1>. DEFINE F == CHOOSE f : KeepsUpTo(f, pins, gone, Len(pins))
<1>1. Len(pins) \in Nat BY LenProperties
<1>2. KeepsUpTo(F, pins, gone, Len(pins)) BY <1>1, KeepsExists
<1>3. Without(pins, gone) = F[Len(pins)] BY DEF Without, KeepsUpTo
<1>. HIDE DEF F
<1>. DEFINE Good(i) == /\ F[i] \in Seq(E) /\ Len(F[i]) <= i
                       /\ Range(F[i]) = {pins[k] : k \in 1..i} \ gone
            S == {i \in 0..Len(pins) : Good(i)}
<1>4. 0 \in S
  <2>1. F[0] = <<>> BY <1>1, <1>2 DEF KeepsUpTo
  <2>2. <<>> \in Seq(E) /\ Len(<<>>) = 0 /\ Range(<<>>) = {} BY DEF Range
  <2>3. {pins[k] : k \in 1..0} = {} OBVIOUS
  <2>4. Good(0) BY <2>1, <2>2, <2>3
  <2>. QED BY <1>1, <2>4
<1>5. \A k \in 0..Len(pins)-1 : k \in S => k + 1 \in S
  <2>. SUFFICES ASSUME NEW k \in 0..Len(pins)-1, Good(k) PROVE Good(k+1)
    <3>. HIDE DEF Good
    <3>1. \A k \in 0..Len(pins)-1 : k \in 0..Len(pins) /\ k+1 \in 0..Len(pins) BY <1>1
    <3>. QED BY <3>1
  <2>1. F[k+1] = IF pins[k+1] \in gone THEN F[k] ELSE Append(F[k], pins[k+1])
    <3>1. k+1 \in 0..Len(pins) /\ k+1 # 0 /\ (k+1)-1 = k BY <1>1
    <3>2. \A i \in 0..Len(pins) : F[i] = IF i = 0 THEN <<>> ELSE IF pins[i] \in gone THEN F[i-1] ELSE Append(F[i-1], pins[i])
      BY <1>2 DEF KeepsUpTo
    <3>. QED BY <3>1, <3>2
  <2>2. pins[k+1] \in E BY <1>1, ElementOfSeq
  <2>3. {pins[j] : j \in 1..k+1} = {pins[j] : j \in 1..k} \cup {pins[k+1]}
    <3>1. \A j : j \in 1..k+1 <=> j \in 1..k \/ j = k+1 BY <1>1
    <3>. QED BY <3>1
  <2>4. CASE pins[k+1] \in gone BY <1>1, <2>1, <2>3, <2>4
  <2>5. CASE pins[k+1] \notin gone
    <3>1. F[k+1] = Append(F[k], pins[k+1]) BY <2>1, <2>5
    <3>2. Append(F[k], pins[k+1]) \in Seq(E) /\ Len(Append(F[k], pins[k+1])) = Len(F[k]) + 1
      BY <2>2, AppendProperties
    <3>3. Range(Append(F[k], pins[k+1])) = Range(F[k]) \cup {pins[k+1]} BY <2>2, AppendRange
    <3>4. Len(F[k]) \in Nat BY LenProperties
    <3>. QED BY <1>1, <2>3, <2>5, <3>1, <3>2, <3>3, <3>4
  <2>. QED BY <2>4, <2>5
<1>6. Len(pins) \in S
  <2>. HIDE DEF S
  <2>1. \A k \in 0..Len(pins) : k \in S BY <1>1, <1>4, <1>5, FromZero
  <2>. QED BY <1>1, <2>1
<1>7. Range(pins) = {pins[k] : k \in 1..Len(pins)} BY LenProperties DEF Range
<1>. QED BY <1>3, <1>6, <1>7

LEMMA NewestIs ==
  ASSUME NEW E, NEW pins \in Seq(E), NEW n \in Nat
  PROVE  /\ NewestPins(pins, n) \in Seq(E) /\ Len(NewestPins(pins, n)) <= n
         /\ Range(NewestPins(pins, n)) \subseteq Range(pins)
<1>. DEFINE first == IF Len(pins) > n THEN Len(pins) - n + 1 ELSE 1
            new == NewestPins(pins, n)
<1>1. Len(pins) \in Nat /\ DOMAIN pins = 1..Len(pins) BY LenProperties
<1>2. first \in 1..Len(pins)+1 /\ Len(pins) - first + 1 <= n /\ first + (Len(pins) - first) = Len(pins) BY <1>1
<1>3. new = SubSeq(pins, first, Len(pins)) BY DEF NewestPins
<1>4. CASE first = Len(pins) + 1
  <2>. HIDE DEF first, new
  <2>1. first \in Int /\ Len(pins) \in Int /\ Len(pins) < first BY <1>1, <1>4
  <2>4. new = <<>> BY <1>3, <2>1, SubSeqEmpty
  <2>2. <<>> \in Seq(E) /\ Len(<<>>) = 0 /\ Range(<<>>) = {} BY DEF Range
  <2>3. new \in Seq(E) /\ Len(new) <= n /\ Range(new) = {} BY <2>2, <2>4
  <2>. QED BY <2>3 DEF new
<1>5. CASE first <= Len(pins)
  <2>. HIDE DEF first
  <2>1. \A i \in first..Len(pins) : pins[i] \in E BY <1>1, <1>2, ElementOfSeq
  <2>2. new \in Seq(E) /\ Len(new) = Len(pins) - first + 1
        /\ \A i \in 1..Len(new) : new[i] = pins[first + i - 1]
    BY <1>1, <1>2, <1>3, <1>5, <2>1, SubSeqProperties
  <2>. HIDE DEF new
  <2>3. ASSUME NEW i \in 1..Len(new) PROVE new[i] \in Range(pins)
    <3>1. first + i - 1 \in DOMAIN pins BY <1>1, <1>2, <2>2
    <3>. QED BY <2>2, <3>1 DEF Range
  <2>4. DOMAIN new = 1..Len(new) BY <2>2, LenProperties
  <2>5. Range(new) \subseteq Range(pins) BY <2>3, <2>4 DEF Range
  <2>. QED BY <1>2, <2>2, <2>5 DEF new
<1>. QED BY <1>2, <1>4, <1>5

-----------------------------------------------------------------------------
(* The trust document.                                                      *)

DocOK(f) == f \in {NoDocument, Corrupt} \/ \E pins \in Seq(Pin) : f = Doc(pins) /\ Len(pins) <= MaxPins
OneEach(pins) == \A x, y \in pins : x.origin = y.origin => x = y
DiskOK(p, b, allowed) ==
  /\ DocOK(p) /\ DocOK(b) /\ PinsOf(p) \subseteq allowed /\ OneEach(PinsOf(p))
  /\ Readable(p) /\ b # NoDocument => b = p

LEMMA DocParts ==
  ASSUME NEW f, DocOK(f)
  PROVE  /\ f.pins \in Seq(Pin) /\ Len(f.pins) <= MaxPins /\ PinsOf(f) = Range(f.pins) /\ Range(f.pins) \subseteq Pin
         /\ ~Readable(f) => Range(f.pins) = {}
<1>1. <<>> \in Seq(Pin) /\ Len(<<>>) = 0 /\ Range(<<>>) = {} BY DEF Range
<1>2. MaxPins \in Nat BY TrustAssumption
<1>3. CASE f \in {NoDocument, Corrupt}
  <2>1. f.pins = <<>> /\ ~Readable(f) BY <1>3 DEF NoDocument, Corrupt, Readable
  <2>2. 0 <= MaxPins BY <1>2
  <2>. QED BY <1>1, <2>1, <2>2 DEF PinsOf
<1>4. CASE f \notin {NoDocument, Corrupt}
  <2>1. PICK pins \in Seq(Pin) : f = Doc(pins) /\ Len(pins) <= MaxPins BY <1>4 DEF DocOK
  <2>2. f.pins = pins /\ Readable(f) BY <2>1 DEF Doc, Readable
  <2>3. Range(pins) \subseteq Pin
    <3>1. DOMAIN pins = 1..Len(pins) BY LenProperties
    <3>. QED BY <3>1, ElementOfSeq DEF Range
  <2>. QED BY <2>1, <2>2, <2>3 DEF PinsOf
<1>. QED BY <1>3, <1>4

LEMMA LoadsKeep ==
  ASSUME NEW allowed, DiskOK(primary, backup, allowed), NEW f \in TrustLoads
  PROVE  /\ DiskOK(f.primary, f.backup, allowed)
         /\ f.pins \in Seq(Pin) /\ Len(f.pins) <= MaxPins /\ Range(f.pins) \subseteq PinsOf(primary)
         /\ PinsOf(f.primary) = Range(f.pins)
<1>1. DocOK(NoDocument) /\ ~Readable(NoDocument) BY DEF DocOK, NoDocument, Readable
<1>2. DocOK(primary) /\ DocOK(backup) BY DEF DiskOK
<1>3. CASE Readable(primary)
  <2>1. f.pins = primary.pins /\ f.primary = primary /\ f.backup = backup BY <1>3 DEF TrustLoads
  <2>. QED BY <1>2, <2>1, DocParts
<1>4. CASE ~Readable(primary)
  <2>1. f.pins = <<>> /\ f.primary \in {primary, NoDocument} /\ f.backup \in {backup, NoDocument}
    BY <1>4 DEF TrustLoads
  <2>2. Range(<<>>) = {} /\ <<>> \in Seq(Pin) /\ Len(<<>>) = 0 BY DEF Range
  <2>3. MaxPins \in Nat BY TrustAssumption
  <2>4. ~Readable(f.primary) /\ DocOK(f.primary) /\ DocOK(f.backup) BY <1>1, <1>2, <1>4, <2>1
  <2>5. PinsOf(f.primary) = {} BY <2>4, DocParts
  <2>. QED BY <2>1, <2>2, <2>3, <2>4, <2>5 DEF DiskOK, OneEach
<1>. QED BY <1>3, <1>4

\* Every outcome of a save is the document there was, or the new one.
LEMMA SavesKeep ==
  ASSUME NEW allowed, NEW f, DiskOK(f.primary, f.backup, allowed),
         NEW pins \in Seq(Pin), Len(pins) <= MaxPins, OneEach(Range(pins)),
         NEW out \in Saves(f, pins)
  PROVE  /\ Range(pins) \subseteq allowed => DiskOK(out.primary, out.backup, allowed)
         /\ out.ok => DiskOK(out.primary, out.backup, Range(pins))
         /\ out.ok \in BOOLEAN
<1>1. DocOK(NoDocument) /\ DocOK(Doc(pins)) BY DEF DocOK
<1>2. PinsOf(Doc(pins)) = Range(pins) BY DEF PinsOf, Doc
<1>3. \/ out.primary = f.primary /\ out.backup \in {f.backup, NoDocument} /\ out.ok = FALSE
      \/ out.primary = Doc(pins) /\ out.backup \in {NoDocument, Doc(pins)} /\ out.ok \in BOOLEAN
  <2>. DEFINE failed == {[primary |-> f.primary, backup |-> b, ok |-> FALSE] : b \in {f.backup, NoDocument}}
              saved == [primary : {Doc(pins)}, backup : {NoDocument}, ok : BOOLEAN]
              copied == [primary : {Doc(pins)}, backup : {Doc(pins)}, ok : {TRUE}]
  <2>1. out \in failed \/ out \in saved \/ out \in copied BY DEF Saves
  <2>2. CASE out \in failed BY <2>2
  <2>3. CASE out \in saved BY <2>3
  <2>4. CASE out \in copied BY <2>4
  <2>. HIDE DEF failed, saved, copied
  <2>. QED BY <2>1, <2>2, <2>3, <2>4
<1>4. CASE out.primary = f.primary /\ out.backup \in {f.backup, NoDocument} /\ out.ok = FALSE
  BY <1>1, <1>4 DEF DiskOK
<1>5. CASE out.primary = Doc(pins) /\ out.backup \in {NoDocument, Doc(pins)} /\ out.ok \in BOOLEAN
  BY <1>1, <1>2, <1>5 DEF DiskOK
<1>. QED BY <1>3, <1>4, <1>5

\* A new pin takes the place of the older ones of its origin.
LEMMA PinAdded ==
  ASSUME NEW pins \in Seq(Pin), Len(pins) <= MaxPins, OneEach(Range(pins)), NEW p \in Pin
  PROVE  /\ WithPin(pins, p) \in Seq(Pin) /\ Len(WithPin(pins, p)) <= MaxPins
         /\ OneEach(Range(WithPin(pins, p)))
         /\ Range(WithPin(pins, p)) \subseteq {x \in Range(pins) : x.origin # p.origin} \cup {p}
<1>. DEFINE others == Without(pins, {x \in Pin : x.origin = p.origin})
            kept == NewestPins(others, MaxPins - 1)
<1>1. MaxPins - 1 \in Nat BY TrustAssumption
<1>2. others \in Seq(Pin) /\ Range(others) = Range(pins) \ {x \in Pin : x.origin = p.origin} BY WithoutIs
<1>. HIDE DEF others
<1>3. kept \in Seq(Pin) /\ Len(kept) <= MaxPins - 1 /\ Range(kept) \subseteq Range(others)
  BY <1>1, <1>2, NewestIs
<1>4. WithPin(pins, p) = Append(kept, p) BY DEF WithPin, others
<1>. HIDE DEF kept
<1>5. /\ Append(kept, p) \in Seq(Pin) /\ Len(Append(kept, p)) = Len(kept) + 1
      /\ Range(Append(kept, p)) = Range(kept) \cup {p}
  BY <1>3, AppendRange
<1>6. Range(pins) \subseteq Pin
  <2>1. DOMAIN pins = 1..Len(pins) BY LenProperties
  <2>. QED BY <2>1, ElementOfSeq DEF Range
<1>7. Range(others) \subseteq {x \in Range(pins) : x.origin # p.origin} BY <1>2, <1>6
<1>8. Range(WithPin(pins, p)) \subseteq {x \in Range(pins) : x.origin # p.origin} \cup {p} BY <1>3, <1>4, <1>5, <1>7
<1>9. OneEach(Range(WithPin(pins, p))) BY <1>8 DEF OneEach
<1>10. Len(kept) + 1 <= MaxPins
  <2>1. Len(kept) \in Nat /\ MaxPins \in Nat BY <1>3, LenProperties, TrustAssumption
  <2>2. Len(kept) <= MaxPins - 1 BY <1>3
  <2>. QED BY <2>1, <2>2
<1>. QED BY <1>4, <1>5, <1>8, <1>9, <1>10

LEMMA PinRemoved ==
  ASSUME NEW pins \in Seq(Pin), Len(pins) <= MaxPins, OneEach(Range(pins)), NEW p \in Pin
  PROVE  /\ WithoutPin(pins, p) \in Seq(Pin) /\ Len(WithoutPin(pins, p)) <= MaxPins
         /\ OneEach(Range(WithoutPin(pins, p))) /\ Range(WithoutPin(pins, p)) = Range(pins) \ {p}
<1>1. /\ WithoutPin(pins, p) \in Seq(Pin) /\ Len(WithoutPin(pins, p)) <= Len(pins)
      /\ Range(WithoutPin(pins, p)) = Range(pins) \ {p}
  BY WithoutIs DEF WithoutPin
<1>2. Len(WithoutPin(pins, p)) \in Nat /\ Len(pins) \in Nat /\ MaxPins \in Nat BY <1>1, LenProperties, TrustAssumption
<1>. QED BY <1>1, <1>2 DEF OneEach

-----------------------------------------------------------------------------
(* The prompts, and the theorem.                                            *)

RequestState == [at : {"idle", "shares", "denied later"}, box : Boxes \cup {NoBox}, pin : Pin \cup {NoPin}]
BoxState == [open : BOOLEAN, pin : Pin \cup {NoPin}]
PromptInv ==
  /\ boxes \in [Boxes -> BoxState] /\ active \in Boxes \cup {NoBox}
  /\ requests \in [CertificateRequests -> RequestState] /\ granted \subseteq Pin
  /\ \A b \in Boxes : boxes[b].open => boxes[b].pin \in Pin
  /\ active # NoBox => boxes[active].open
  /\ \A q \in CertificateRequests :
       /\ requests[q].box # NoBox => requests[q].box = active
       /\ requests[q].at = "shares" => requests[q].box # NoBox /\ boxes[active].pin = requests[q].pin
TrustInv == DiskOK(primary, backup, granted) /\ PromptInv

LEMMA TrustInvIsSafe == TrustInv => CertificateSafety
<1>. SUFFICES ASSUME TrustInv PROVE CertificateSafety OBVIOUS
<1>1. DocOK(primary) /\ DocOK(backup) /\ PromptInv BY DEF TrustInv, DiskOK
<1>2. ASSUME NEW f, DocOK(f) PROVE f \in {NoDocument, Corrupt} \/ (Readable(f) /\ Len(f.pins) <= MaxPins /\ PinsOf(f) \subseteq Pin)
  <2>1. Len(f.pins) <= MaxPins /\ PinsOf(f) \subseteq Pin BY <1>2, DocParts
  <2>2. \A pins : Readable(Doc(pins)) BY DEF Readable, Doc
  <2>. QED BY <1>2, <2>1, <2>2 DEF DocOK
<1>3. TrustTypeOK BY <1>1, <1>2 DEF PromptInv, TrustTypeOK, BoxState, RequestState
<1>4. OnlyGrantedPins /\ OneCertificatePerOrigin /\ CopyIsNeverOlder
  BY DEF TrustInv, DiskOK, OneEach, OnlyGrantedPins, OneCertificatePerOrigin, CopyIsNeverOlder
<1>5. WaitersHaveABox BY <1>1 DEF PromptInv, WaitersHaveABox
<1>6. SharedIsTheSame BY <1>1 DEF PromptInv, SharedIsTheSame
<1>. QED BY <1>3, <1>4, <1>5, <1>6 DEF CertificateSafety

LEMMA TrustInitInv == TrustInit => TrustInv
<1>. SUFFICES ASSUME TrustInit PROVE TrustInv OBVIOUS
<1>1. DocOK(NoDocument) /\ PinsOf(NoDocument) = {}
  <2>1. DocOK(NoDocument) /\ ~Readable(NoDocument) BY DEF DocOK, NoDocument, Readable
  <2>. QED BY <2>1, DocParts
<1>2. DiskOK(primary, backup, granted) BY <1>1 DEF TrustInit, DiskOK, OneEach
<1>3. Closed \in BoxState /\ RequestIdle \in RequestState /\ RequestIdle.box = NoBox /\ RequestIdle.at = "idle" /\ ~Closed.open
  BY DEF Closed, RequestIdle, BoxState, RequestState
<1>4. PromptInv BY <1>3 DEF PromptInv, TrustInit
<1>. QED BY <1>2, <1>4 DEF TrustInv

\* Nothing is being decided any more: whoever waited has the answer.
NothingDecided == active' = NoBox /\ \A q \in CertificateRequests : requests'[q] \in {requests[q], RequestIdle} /\ requests'[q].box = NoBox
LEMMA DecidedKeeps ==
  ASSUME PromptInv, NothingDecided, requests' = [q \in CertificateRequests |-> requests'[q]],
         granted' \subseteq Pin, \A b \in Boxes : boxes'[b] \in {boxes[b], Closed}, boxes' = [b \in Boxes |-> boxes'[b]]
  PROVE  PromptInv'
<1>1. Closed \in BoxState /\ RequestIdle \in RequestState /\ RequestIdle.at = "idle" /\ ~Closed.open
  BY DEF Closed, RequestIdle, BoxState, RequestState
<1>2. boxes' \in [Boxes -> BoxState]
  <2>1. \A b \in Boxes : boxes'[b] \in BoxState BY <1>1 DEF PromptInv
  <2>. QED BY <2>1
<1>3. requests' \in [CertificateRequests -> RequestState]
  <2>1. \A q \in CertificateRequests : requests'[q] \in RequestState BY <1>1 DEF PromptInv, NothingDecided
  <2>. QED BY <2>1
<1>4. \A q \in CertificateRequests : requests'[q].at # "shares"
  <2>. SUFFICES ASSUME NEW q \in CertificateRequests, requests'[q].at = "shares" PROVE FALSE OBVIOUS
  <2>1. requests'[q] = requests[q] /\ requests[q].box = NoBox BY <1>1 DEF NothingDecided
  <2>. QED BY <2>1 DEF PromptInv
<1>5. \A b \in Boxes : boxes'[b].open => boxes'[b].pin \in Pin BY <1>1 DEF PromptInv
<1>. QED BY <1>2, <1>3, <1>4, <1>5 DEF PromptInv, NothingDecided

LEMMA DecidedIs ==
  ASSUME PromptInv, NEW b \in Boxes, active = b, active' = NoBox, Decided(b)
  PROVE  NothingDecided /\ requests' = [q \in CertificateRequests |-> requests'[q]]
<1>1. b # NoBox BY TrustAssumption
<1>2. requests' = [q \in CertificateRequests |-> IF requests[q].box # b THEN requests[q] ELSE RequestIdle] BY DEF Decided
<1>3. RequestIdle.box = NoBox BY DEF RequestIdle
<1>4. \A q \in CertificateRequests : requests[q].box \in {b, NoBox} BY DEF PromptInv
<1>. QED BY <1>1, <1>2, <1>3, <1>4 DEF NothingDecided

LEMMA RestartedIs ==
  ASSUME PromptInv, Restarted
  PROVE  /\ NothingDecided /\ requests' = [q \in CertificateRequests |-> requests'[q]]
         /\ boxes' = [b \in Boxes |-> boxes'[b]] /\ \A b \in Boxes : boxes'[b] \in {boxes[b], Closed}
BY DEF Restarted, NothingDecided, RequestIdle

LEMMA BoxClosed ==
  ASSUME PromptInv, NEW b \in Boxes, boxes' = [boxes EXCEPT ![b] = Closed]
  PROVE  boxes' = [c \in Boxes |-> boxes'[c]] /\ \A c \in Boxes : boxes'[c] \in {boxes[c], Closed}
BY DEF PromptInv

LEMMA TrustsInv == ASSUME TrustInv, NEW b \in Boxes, Trusts(b) PROVE TrustInv'
<1>. DEFINE p == boxes[b].pin
<1>1. /\ boxes[b].open /\ active = b /\ boxes' = [boxes EXCEPT ![b] = Closed] /\ active' = NoBox /\ Decided(b)
  BY DEF Trusts
<1>2. PICK f \in TrustLoads : \E out \in Saves(f, WithPin(f.pins, p)) :
        /\ primary' = out.primary /\ backup' = out.backup
        /\ granted' = (IF out.ok THEN {x \in granted : x.origin # p.origin} ELSE granted) \cup {p}
  BY DEF Trusts
<1>3. PICK out \in Saves(f, WithPin(f.pins, p)) :
        /\ primary' = out.primary /\ backup' = out.backup
        /\ granted' = (IF out.ok THEN {x \in granted : x.origin # p.origin} ELSE granted) \cup {p}
  BY <1>2
<1>4. p \in Pin /\ granted \subseteq Pin /\ DiskOK(primary, backup, granted) BY <1>1 DEF TrustInv, PromptInv
<1>. HIDE DEF p
<1>5. /\ DiskOK(f.primary, f.backup, granted) /\ f.pins \in Seq(Pin) /\ Len(f.pins) <= MaxPins
      /\ Range(f.pins) \subseteq PinsOf(primary) /\ OneEach(Range(f.pins)) /\ Range(f.pins) \subseteq granted
  <2>1. DiskOK(f.primary, f.backup, granted) /\ f.pins \in Seq(Pin) /\ Len(f.pins) <= MaxPins /\ PinsOf(f.primary) = Range(f.pins)
        /\ Range(f.pins) \subseteq PinsOf(primary)
    BY <1>4, LoadsKeep
  <2>. QED BY <2>1 DEF DiskOK
<1>6. /\ WithPin(f.pins, p) \in Seq(Pin) /\ Len(WithPin(f.pins, p)) <= MaxPins /\ OneEach(Range(WithPin(f.pins, p)))
      /\ Range(WithPin(f.pins, p)) \subseteq {x \in Range(f.pins) : x.origin # p.origin} \cup {p}
  BY <1>4, <1>5, PinAdded
<1>7. DiskOK(f.primary, f.backup, granted \cup {p}) BY <1>5 DEF DiskOK
<1>8. /\ DiskOK(out.primary, out.backup, granted \cup {p}) /\ out.ok \in BOOLEAN
      /\ out.ok => DiskOK(out.primary, out.backup, Range(WithPin(f.pins, p)))
  BY <1>5, <1>6, <1>7, SavesKeep
<1>9. DiskOK(primary', backup', granted')
  <2>1. CASE out.ok
    <3>1. Range(WithPin(f.pins, p)) \subseteq granted' BY <1>3, <1>5, <1>6, <2>1
    <3>. QED BY <1>3, <1>8, <2>1, <3>1 DEF DiskOK
  <2>2. CASE ~out.ok BY <1>3, <1>8, <2>2
  <2>. QED BY <2>1, <2>2
<1>10. granted' \subseteq Pin BY <1>3, <1>4
<1>11. PromptInv' BY <1>1, <1>10, DecidedIs, BoxClosed, DecidedKeeps DEF TrustInv
<1>. QED BY <1>9, <1>11 DEF TrustInv, DiskOK

LEMMA AnswersInv ==
  ASSUME TrustInv, NEW b \in Boxes, LateAnswer(b) \/ Refuses(b)
  PROVE  TrustInv'
<1>1. UNCHANGED <<primary, backup, granted>> /\ boxes' = [boxes EXCEPT ![b] = Closed] /\ boxes[b].open
  BY DEF LateAnswer, Refuses
<1>2. CASE LateAnswer(b)
  <2>1. UNCHANGED <<active, requests>> /\ active # b BY <1>2 DEF LateAnswer
  <2>2. Closed \in BoxState /\ ~Closed.open BY DEF Closed, BoxState
  <2>3. boxes' \in [Boxes -> BoxState] /\ \A c \in Boxes : c # b => boxes'[c] = boxes[c] BY <1>1, <2>2 DEF TrustInv, PromptInv
  <2>4. boxes'[b] = Closed BY <1>1 DEF TrustInv, PromptInv
  <2>5. PromptInv' BY <1>1, <2>1, <2>2, <2>3, <2>4 DEF TrustInv, PromptInv
  <2>. QED BY <1>1, <2>1, <2>5 DEF TrustInv
<1>3. CASE Refuses(b)
  <2>1. active = b /\ active' = NoBox /\ Decided(b) BY <1>3 DEF Refuses
  <2>2. granted' \subseteq Pin BY <1>1 DEF TrustInv, PromptInv
  <2>3. PromptInv' BY <1>1, <2>1, <2>2, DecidedIs, BoxClosed, DecidedKeeps DEF TrustInv
  <2>. QED BY <1>1, <2>3 DEF TrustInv
<1>. QED BY <1>2, <1>3

LEMMA CancelAllInv == ASSUME TrustInv, CancelAll PROVE TrustInv'
<1>1. UNCHANGED <<primary, backup, boxes, granted>> /\ active # NoBox /\ active' = NoBox /\ Decided(active)
  BY DEF CancelAll
<1>2. active \in Boxes BY <1>1 DEF TrustInv, PromptInv
<1>3. NothingDecided /\ requests' = [q \in CertificateRequests |-> requests'[q]]
  <2>1. PICK b \in Boxes : b = active BY <1>2
  <2>. QED BY <1>1, <2>1, DecidedIs DEF TrustInv
<1>4. /\ boxes' = [b \in Boxes |-> boxes'[b]] /\ granted' \subseteq Pin
      /\ \A b \in Boxes : boxes'[b] \in {boxes[b], Closed}
  BY <1>1 DEF TrustInv, PromptInv
<1>5. PromptInv' BY <1>3, <1>4, DecidedKeeps DEF TrustInv
<1>. QED BY <1>1, <1>5 DEF TrustInv

\* What a revocation leaves, whether it was reported done or not.
LEMMA RevokedDisk ==
  ASSUME DiskOK(primary, backup, granted), NEW p \in Pin, NEW f \in TrustLoads
  PROVE  /\ p \notin Range(f.pins) => DiskOK(f.primary, f.backup, granted \ {p})
         /\ \A out \in Saves(f, WithoutPin(f.pins, p)) :
              /\ DiskOK(out.primary, out.backup, granted)
              /\ out.ok => DiskOK(out.primary, out.backup, granted \ {p})
<1>1. /\ DiskOK(f.primary, f.backup, granted) /\ f.pins \in Seq(Pin) /\ Len(f.pins) <= MaxPins
      /\ PinsOf(f.primary) = Range(f.pins)
  BY LoadsKeep
<1>2. OneEach(Range(f.pins)) /\ Range(f.pins) \subseteq granted BY <1>1 DEF DiskOK
<1>3. /\ WithoutPin(f.pins, p) \in Seq(Pin) /\ Len(WithoutPin(f.pins, p)) <= MaxPins
      /\ OneEach(Range(WithoutPin(f.pins, p))) /\ Range(WithoutPin(f.pins, p)) = Range(f.pins) \ {p}
  BY <1>1, <1>2, PinRemoved
<1>4. p \notin Range(f.pins) => DiskOK(f.primary, f.backup, granted \ {p}) BY <1>1 DEF DiskOK
<1>5. ASSUME NEW out \in Saves(f, WithoutPin(f.pins, p))
      PROVE  DiskOK(out.primary, out.backup, granted) /\ (out.ok => DiskOK(out.primary, out.backup, granted \ {p}))
  <2>1. /\ DiskOK(out.primary, out.backup, granted)
        /\ out.ok => DiskOK(out.primary, out.backup, Range(WithoutPin(f.pins, p)))
    BY <1>1, <1>2, <1>3, SavesKeep
  <2>2. Range(WithoutPin(f.pins, p)) \subseteq granted \ {p} BY <1>2, <1>3
  <2>. QED BY <2>1, <2>2 DEF DiskOK
<1>. QED BY <1>4, <1>5

LEMMA RevokeInv == ASSUME TrustInv, NEW p \in Pin, Revoke(p) PROVE TrustInv'
<1>1. UNCHANGED <<boxes, active, requests>> BY DEF Revoke
<1>2. PICK f \in TrustLoads :
        IF p \notin Range(f.pins)
        THEN primary' = f.primary /\ backup' = f.backup /\ granted' = granted \ {p}
        ELSE \E out \in Saves(f, WithoutPin(f.pins, p)) :
               /\ primary' = out.primary /\ backup' = out.backup
               /\ granted' = IF out.ok THEN granted \ {p} ELSE granted
  BY DEF Revoke
<1>3. DiskOK(primary', backup', granted') /\ granted' \subseteq granted
  <2>1. CASE p \notin Range(f.pins) BY <1>2, <2>1, RevokedDisk DEF TrustInv
  <2>2. CASE p \in Range(f.pins)
    <3>1. PICK out \in Saves(f, WithoutPin(f.pins, p)) :
               /\ primary' = out.primary /\ backup' = out.backup
               /\ granted' = IF out.ok THEN granted \ {p} ELSE granted
      BY <1>2, <2>2
    <3>2. /\ DiskOK(out.primary, out.backup, granted)
          /\ out.ok => DiskOK(out.primary, out.backup, granted \ {p})
      BY RevokedDisk DEF TrustInv
    <3>. QED BY <3>1, <3>2
  <2>. QED BY <2>1, <2>2
<1>4. PromptInv' BY <1>1, <1>3 DEF TrustInv, PromptInv
<1>. QED BY <1>3, <1>4 DEF TrustInv, DiskOK

LEMMA CrashesInv ==
  ASSUME TrustInv, (\E b \in Boxes : CrashInTrust(b)) \/ (\E p \in Pin : CrashInRevoke(p))
  PROVE  TrustInv'
<1>1. Restarted BY DEF CrashInTrust, CrashInRevoke
<1>2. DiskOK(primary', backup', granted') /\ granted' \subseteq Pin
  <2>1. ASSUME NEW b \in Boxes, CrashInTrust(b) PROVE DiskOK(primary', backup', granted') /\ granted' \subseteq Pin
    <3>. DEFINE p == boxes[b].pin
    <3>1. PICK f \in TrustLoads : \E out \in Saves(f, WithPin(f.pins, p)) : primary' = out.primary /\ backup' = out.backup
      BY <2>1 DEF CrashInTrust
    <3>2. PICK out \in Saves(f, WithPin(f.pins, p)) : primary' = out.primary /\ backup' = out.backup BY <3>1
    <3>3. p \in Pin /\ granted' = granted \cup {p} /\ granted \subseteq Pin BY <2>1 DEF CrashInTrust, TrustInv, PromptInv
    <3>. HIDE DEF p
    <3>4. DiskOK(f.primary, f.backup, granted) /\ f.pins \in Seq(Pin) /\ Len(f.pins) <= MaxPins /\ PinsOf(f.primary) = Range(f.pins)
      BY LoadsKeep DEF TrustInv
    <3>5. OneEach(Range(f.pins)) /\ Range(f.pins) \subseteq granted BY <3>4 DEF DiskOK
    <3>6. /\ WithPin(f.pins, p) \in Seq(Pin) /\ Len(WithPin(f.pins, p)) <= MaxPins /\ OneEach(Range(WithPin(f.pins, p)))
          /\ Range(WithPin(f.pins, p)) \subseteq {x \in Range(f.pins) : x.origin # p.origin} \cup {p}
      BY <3>3, <3>4, <3>5, PinAdded
    <3>7. DiskOK(f.primary, f.backup, granted \cup {p}) BY <3>4 DEF DiskOK
    <3>8. Range(WithPin(f.pins, p)) \subseteq granted \cup {p} BY <3>5, <3>6
    <3>9. DiskOK(out.primary, out.backup, granted \cup {p}) BY <3>6, <3>7, <3>8, SavesKeep
    <3>. QED BY <3>2, <3>3, <3>9
  <2>2. ASSUME NEW p \in Pin, CrashInRevoke(p) PROVE DiskOK(primary', backup', granted') /\ granted' \subseteq Pin
    <3>1. PICK f \in TrustLoads : \E out \in Saves(f, WithoutPin(f.pins, p)) : primary' = out.primary /\ backup' = out.backup
      BY <2>2 DEF CrashInRevoke
    <3>2. granted' = granted BY <2>2 DEF CrashInRevoke
    <3>. QED BY <3>1, <3>2, RevokedDisk DEF TrustInv, PromptInv
  <2>. QED BY <2>1, <2>2
<1>3. PromptInv' BY <1>1, <1>2, RestartedIs, DecidedKeeps DEF TrustInv
<1>. QED BY <1>2, <1>3 DEF TrustInv

LEMMA DamagedInv == ASSUME TrustInv, Damaged PROVE TrustInv'
<1>1. primary' \in {NoDocument, Corrupt} /\ UNCHANGED <<backup, boxes, active, requests, granted>> BY DEF Damaged
<1>2. DocOK(primary') /\ ~Readable(primary') BY <1>1 DEF DocOK, NoDocument, Corrupt, Readable
<1>3. PinsOf(primary') = {} BY <1>2, DocParts
<1>4. DiskOK(primary', backup', granted') BY <1>1, <1>2, <1>3 DEF TrustInv, DiskOK, OneEach
<1>. QED BY <1>1, <1>4 DEF TrustInv, PromptInv

LEMMA CertificateErrorInv ==
  ASSUME TrustInv, NEW q \in CertificateRequests, NEW p \in Pin, CertificateError(q, p)
  PROVE  TrustInv'
<1>1. granted' = granted /\ PromptInv /\ requests[q].at = "idle" /\ DiskOK(primary, backup, granted)
  BY DEF CertificateError, TrustInv
<1>2. CASE Pending(p.origin) /\ boxes[active].pin # p
  <2>1. requests' = [requests EXCEPT ![q] = [at |-> "denied later", box |-> active, pin |-> p]]
        /\ UNCHANGED <<primary, backup, boxes, active>>
    BY <1>2 DEF CertificateError
  <2>2. [at |-> "denied later", box |-> active, pin |-> p] \in RequestState BY <1>1 DEF PromptInv, RequestState
  <2>3. PromptInv' BY <1>1, <2>1, <2>2 DEF PromptInv
  <2>. QED BY <1>1, <2>1, <2>3 DEF TrustInv
<1>3. CASE ~(Pending(p.origin) /\ boxes[active].pin # p)
  <2>1. PICK f \in TrustLoads :
          /\ primary' = f.primary /\ backup' = f.backup
          /\ \/ /\ p \in Range(f.pins) \/ (active # NoBox /\ ~Pending(p.origin))
                /\ UNCHANGED <<boxes, active, requests>>
             \/ /\ p \notin Range(f.pins) /\ Pending(p.origin)
                /\ requests' = [requests EXCEPT ![q] = [at |-> "shares", box |-> active, pin |-> p]]
                /\ UNCHANGED <<boxes, active>>
             \/ /\ p \notin Range(f.pins) /\ active = NoBox
                /\ \E b \in Boxes : ~boxes[b].open
                /\ LET b == CHOOSE x \in Boxes : ~boxes[x].open IN
                     /\ boxes' = [boxes EXCEPT ![b] = [open |-> TRUE, pin |-> p]] /\ active' = b
                     /\ requests' = [requests EXCEPT ![q] = [at |-> "shares", box |-> b, pin |-> p]]
    BY <1>3 DEF CertificateError
  <2>2. DiskOK(primary', backup', granted') BY <1>1, <2>1, LoadsKeep
  <2>3. CASE UNCHANGED <<boxes, active, requests>> BY <1>1, <2>2, <2>3 DEF TrustInv, PromptInv
  <2>4. CASE /\ Pending(p.origin) /\ UNCHANGED <<boxes, active>>
             /\ requests' = [requests EXCEPT ![q] = [at |-> "shares", box |-> active, pin |-> p]]
    <3>1. active \in Boxes /\ boxes[active].pin = p BY <1>1, <1>3, <2>4 DEF Pending, PromptInv
    <3>2. [at |-> "shares", box |-> active, pin |-> p] \in RequestState BY <3>1 DEF RequestState
    <3>3. PromptInv' BY <1>1, <2>4, <3>1, <3>2, TrustAssumption DEF PromptInv
    <3>. QED BY <2>2, <3>3 DEF TrustInv
  <2>5. CASE /\ active = NoBox /\ \E b \in Boxes : ~boxes[b].open
             /\ LET b == CHOOSE x \in Boxes : ~boxes[x].open IN
                     /\ boxes' = [boxes EXCEPT ![b] = [open |-> TRUE, pin |-> p]] /\ active' = b
                     /\ requests' = [requests EXCEPT ![q] = [at |-> "shares", box |-> b, pin |-> p]]
    <3>1. PICK b \in Boxes :
             /\ boxes' = [boxes EXCEPT ![b] = [open |-> TRUE, pin |-> p]] /\ active' = b
             /\ requests' = [requests EXCEPT ![q] = [at |-> "shares", box |-> b, pin |-> p]]
      BY <2>5
    <3>2. [at |-> "shares", box |-> b, pin |-> p] \in RequestState /\ [open |-> TRUE, pin |-> p] \in BoxState
      BY DEF RequestState, BoxState
    <3>3. \A k \in CertificateRequests : requests[k].box = NoBox /\ requests[k].at # "shares" BY <1>1, <2>5 DEF PromptInv
    <3>4. b # NoBox BY TrustAssumption
    <3>5. boxes' \in [Boxes -> BoxState] /\ requests' \in [CertificateRequests -> RequestState]
      BY <1>1, <3>1, <3>2 DEF PromptInv
    <3>6. boxes'[b] = [open |-> TRUE, pin |-> p] /\ \A c \in Boxes : c # b => boxes'[c] = boxes[c]
      BY <1>1, <3>1 DEF PromptInv
    <3>7. requests'[q] = [at |-> "shares", box |-> b, pin |-> p]
          /\ \A k \in CertificateRequests : k # q => requests'[k] = requests[k]
      BY <1>1, <3>1 DEF PromptInv
    <3>8. PromptInv' BY <1>1, <3>1, <3>3, <3>4, <3>5, <3>6, <3>7 DEF PromptInv
    <3>. QED BY <2>2, <3>8 DEF TrustInv
  <2>. QED BY <2>1, <2>3, <2>4, <2>5
<1>. QED BY <1>2, <1>3

(* What is trusted is what the user approved and has not withdrawn, one     *)
(* certificate per origin, and no certificate error is left without an      *)
(* answer: for any number of origins, certificates, requests and boxes,     *)
(* wherever a save is cut off and whatever happens to the document.         *)
THEOREM CertificatesCorrect == TrustSpec => []CertificateSafety
<1>1. TrustInv /\ [TrustNext]_trustVars => TrustInv'
  <2>1. ASSUME TrustInv, TrustNext PROVE TrustInv'
    BY <2>1, CancelAllInv, DamagedInv, AnswersInv, TrustsInv, CrashesInv, RevokeInv, CertificateErrorInv DEF TrustNext
  <2>2. ASSUME TrustInv, UNCHANGED trustVars PROVE TrustInv' BY <2>2 DEF TrustInv, PromptInv, trustVars
  <2>. QED BY <2>1, <2>2
<1>. QED BY <1>1, TrustInitInv, TrustInvIsSafe, PTL DEF TrustSpec

=============================================================================
