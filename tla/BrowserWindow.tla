--------------------------- MODULE BrowserWindow ---------------------------
(***************************************************************************)
(* Opening and closing the Campus Browser: CampusBrowserManager and        *)
(* CampusBrowserWindowOwner (browser/session/campus-browser-manager.js),   *)
(* BrowserOpenOwner, BrowserTabCreationOwner and BrowserTeardownOwner      *)
(* (browser/session/browser-session-manager.js).                           *)
(*                                                                         *)
(* An open request crosses four awaits (the connection, the routing, the   *)
(* window, the result), and a user close, a disposal or a context switch   *)
(* may come in any of them.  The epochs of the manager and of the open     *)
(* owner are only compared for equality: a request carries whether they    *)
(* moved since it captured them.                                           *)
(***************************************************************************)
EXTENDS Integers, FiniteSets

CONSTANTS Browsers,     \* the CampusBrowser objects, used once each
          Requests,     \* open requests that may be under way together
          MaxTabs,      \* bound of the tabs of one window (12 in the code)
          MaxOpens      \* bound: windows and retirements in a behaviour

VARIABLES
  holder,    \* CampusBrowserManager: browser, disposing
  browser,   \* per Browser: used, contextRetired, tabs
  window,    \* per Browser: the record `current` of its window owner
  open,      \* per request: where it is and what it captured
  switching, \* closeForContextSwitch of the manager
  opens      \* counts the bounded events

windowVars == <<holder, browser, window, open, switching, opens>>

NoBrowser == "no browser"

ASSUME WindowAssumption == NoBrowser \notin Browsers /\ MaxTabs \in Nat \ {0} /\ MaxOpens \in Nat \ {0}

Phases == {"none", "loading", "ready", "closing", "failed"}
NoWindow == [phase |-> "none", alive |-> FALSE, cleanup |-> "no", failure |-> FALSE,
             flight |-> FALSE, unconfirmed |-> FALSE]
IdleOpen == [at |-> "idle", of |-> NoBrowser, managerEpoch |-> TRUE, ownEpoch |-> TRUE,
             promise |-> "none", late |-> FALSE]

WindowTypeOK ==
  /\ holder \in [browser : Browsers \cup {NoBrowser}, disposing : Browsers \cup {NoBrowser}]
  /\ browser \in [Browsers -> [used : BOOLEAN, contextRetired : BOOLEAN, tabs : 0..MaxTabs]]
  /\ window \in [Browsers -> [phase : Phases, alive : BOOLEAN, cleanup : {"no", "failed", "done"},
                              failure : BOOLEAN, flight : BOOLEAN, unconfirmed : BOOLEAN]]
  /\ open \in [Requests -> [at : {"idle", "connecting", "routing", "window"}, of : Browsers \cup {NoBrowser},
                            managerEpoch : BOOLEAN, ownEpoch : BOOLEAN,
                            promise : {"none", "pending", "ready", "rejected"}, late : BOOLEAN]]
  /\ switching \in [at : {"idle", "waiting", "true", "false"}, of : Browsers \cup {NoBrowser}]
  /\ opens \in 0..MaxOpens

WindowInit ==
  /\ holder = [browser |-> NoBrowser, disposing |-> NoBrowser]
  /\ browser = [b \in Browsers |-> [used |-> FALSE, contextRetired |-> FALSE, tabs |-> 0]]
  /\ window = [b \in Browsers |-> NoWindow]
  /\ open = [r \in Requests |-> IdleOpen]
  /\ switching = [at |-> "idle", of |-> NoBrowser]
  /\ opens = 0

-----------------------------------------------------------------------------
(* Epochs and promises.                                                     *)

\* ++#openEpoch: every request of the manager is stale.
EpochMoves(o) == [r \in Requests |-> [o[r] EXCEPT !.managerEpoch = @ /\ o[r].at = "idle"]]
\* BrowserOpenOwner.reset: with a failure the manager keeps its epoch, so that
\* the request can still report what failed.
OpensReset(b, failure, o) ==
  LET own == [r \in Requests |-> [o[r] EXCEPT !.ownEpoch = @ /\ o[r].of # b]]
  IN IF failure \/ holder.browser # b THEN own ELSE EpochMoves(own)
Settled(b, how, o) ==
  [r \in Requests |-> IF o[r].of = b /\ o[r].promise = "pending" THEN [o[r] EXCEPT !.promise = how] ELSE o[r]]

\* CampusBrowserWindowOwner.retire on a window that is gone: the listeners are
\* detached and the Browser's own teardown runs (BrowserTeardownOwner.closed).
\* A failure of either keeps the record, and it blocks.
RetiredRecord(b, clean) ==
  LET w == window[b] IN
  IF ~clean THEN [w EXCEPT !.phase = "failed", !.alive = FALSE, !.cleanup = "failed"]
  ELSE IF w.unconfirmed \/ w.flight
       THEN [w EXCEPT !.phase = "failed", !.alive = FALSE, !.cleanup = "done"]
  ELSE NoWindow
ClosedTabs(b, clean) == IF clean THEN [browser EXCEPT ![b].tabs = 0] ELSE browser

Usable(w) == w.phase \in {"loading", "ready"}
\* prepareOpen of the open owner and of the window owner.
Prepared(b) == ~browser[b].contextRetired /\ (window[b].phase = "none" \/ Usable(window[b]))

\* The caller of closeForContextSwitch goes on before anything new begins.
Answered == switching.at \in {"true", "false"}

-----------------------------------------------------------------------------
(* An open request.                                                         *)

\* open(): the admission, then a campus page waits for the connection.  A
\* refused request has reported its failure and is over.
OpenStart(r) ==
  /\ ~Answered /\ open[r].at = "idle" /\ opens < MaxOpens /\ opens' = opens + 1
  /\ holder.disposing = NoBrowser
  /\ holder.browser # NoBrowser => Prepared(holder.browser)
  /\ open' = [open EXCEPT ![r] = [IdleOpen EXCEPT !.at = "connecting"]]
  /\ UNCHANGED <<holder, browser, window, switching>>

OpenEnds(r) == open' = [open EXCEPT ![r] = [IdleOpen EXCEPT !.late = open[r].late]]

\* ensureConnected has answered (or the page is direct): getOrCreate, and the
\* open owner captures its own epoch before it waits for the routing.
OpenConnected(r) ==
  /\ open[r].at = "connecting"
  /\ \/ /\ open[r].managerEpoch /\ holder.disposing = NoBrowser
        /\ \/ /\ holder.browser # NoBrowser /\ Prepared(holder.browser)
              /\ open' = [open EXCEPT ![r].at = "routing", ![r].of = holder.browser]
              /\ UNCHANGED <<holder, browser>>
           \/ /\ holder.browser = NoBrowser
              /\ \E b \in Browsers :
                   /\ ~browser[b].used
                   /\ holder' = [holder EXCEPT !.browser = b]
                   /\ browser' = [browser EXCEPT ![b].used = TRUE]
                   /\ open' = [open EXCEPT ![r].at = "routing", ![r].of = b]
     \/ OpenEnds(r) /\ UNCHANGED <<holder, browser>>
  /\ UNCHANGED <<window, switching, opens>>

\* Mutant: what the manager gave up during the wait is not looked at.
OpenRetiredOnly(r) == ~browser[open[r].of].contextRetired

OpenCurrent(r) == open[r].ownEpoch /\ ~browser[open[r].of].contextRetired

\* ensureRoutingReady has answered, perform: createWindow shares the window that
\* is loading or ready, and refuses beside one that closes or failed.
OpenRouted(r) ==
  /\ open[r].at = "routing" /\ UNCHANGED <<holder, switching>>
  /\ LET b == open[r].of IN
     \/ /\ OpenCurrent(r) /\ Usable(window[b])
        /\ open' = [open EXCEPT ![r].at = "window",
                                ![r].promise = IF window[b].phase = "ready" THEN "ready" ELSE "pending"]
        /\ UNCHANGED <<browser, window, opens>>
     \/ /\ OpenCurrent(r) /\ window[b].phase = "none" /\ opens < MaxOpens /\ opens' = opens + 1
        /\ window' = [window EXCEPT ![b] = [NoWindow EXCEPT !.phase = "loading", !.alive = TRUE]]
        /\ open' = [open EXCEPT ![r].at = "window", ![r].promise = "pending"]
        /\ UNCHANGED browser
     \/ OpenEnds(r) /\ UNCHANGED <<browser, window, opens>>

\* The readiness promise has settled: the window is shown, the request is
\* checked against the epoch and the window it captured, and a tab is created.
OpenShown(r) ==
  /\ open[r].at = "window" /\ open[r].promise \in {"ready", "rejected"}
  /\ LET b == open[r].of IN
     \/ /\ open[r].promise = "ready" /\ window[b].phase = "ready" /\ OpenCurrent(r)
        /\ \/ /\ browser[b].tabs < MaxTabs
              /\ browser' = [browser EXCEPT ![b].tabs = @ + 1]
              /\ open' = [open EXCEPT ![r] = [IdleOpen EXCEPT !.late = ~open[r].managerEpoch]]
           \/ browser[b].tabs = MaxTabs /\ UNCHANGED browser /\ OpenEnds(r)
     \/ /\ open[r].promise = "rejected" \/ window[b].phase # "ready" \/ ~OpenCurrent(r)
        /\ OpenEnds(r) /\ UNCHANGED browser
  /\ UNCHANGED <<holder, window, switching, opens>>

-----------------------------------------------------------------------------
(* The native window.                                                       *)

WindowLoads(b) ==
  /\ ~Answered
  /\ window[b].phase = "loading"
  /\ window' = [window EXCEPT ![b].phase = "ready"]
  /\ open' = Settled(b, "ready", open)
  /\ UNCHANGED <<holder, browser, switching, opens>>

\* failLoad: the window is closed, its cleanup follows when it is gone.
WindowLoadFails(b) ==
  /\ ~Answered
  /\ window[b].phase = "loading"
  /\ window' = [window EXCEPT ![b].phase = "failed", ![b].failure = TRUE]
  /\ open' = Settled(b, "rejected", open)
  /\ UNCHANGED <<holder, browser, switching, opens>>

\* The answer of closeForContextSwitch is false, or true when the cleanup is
\* complete and the observer of the close could be removed.
FlightEnds(b, confirmed) ==
  switching' = IF switching.at = "waiting" /\ switching.of = b
               THEN [switching EXCEPT !.at = IF confirmed THEN "true" ELSE "false"] ELSE switching

\* 'closed': the window is gone, whoever closed it.
WindowClosed(b) ==
  /\ ~Answered
  /\ window[b].alive
  /\ \E clean, observed \in BOOLEAN :
       /\ ~window[b].flight => observed
       /\ browser' = ClosedTabs(b, clean)
       /\ open' = OpensReset(b, window[b].failure, Settled(b, "rejected", open))
       /\ IF ~window[b].flight
          THEN window' = [window EXCEPT ![b] = RetiredRecord(b, clean)] /\ UNCHANGED switching
          ELSE /\ window' = [window EXCEPT ![b] =
                    IF clean /\ observed THEN NoWindow
                    ELSE [RetiredRecord(b, clean) EXCEPT !.flight = FALSE, !.unconfirmed = ~observed]]
               /\ FlightEnds(b, clean /\ observed)
  /\ UNCHANGED <<holder, opens>>

\* The deadline of the close (5 s).
CloseTimesOut(b) ==
  /\ ~Answered
  /\ window[b].flight
  /\ window' = [window EXCEPT ![b].flight = FALSE]
  /\ FlightEnds(b, FALSE)
  /\ UNCHANGED <<holder, browser, open, opens>>

-----------------------------------------------------------------------------
(* Disposal and context switch.                                             *)

\* BrowserTeardownOwner.close without a native window: the tabs are released.
TornDown(b, clean) ==
  [browser EXCEPT ![b].contextRetired = TRUE, ![b].tabs = IF clean THEN 0 ELSE @]

\* close() of the manager: admission is retired, the window is asked to close,
\* and a Browser whose window is still there is kept as unconfirmed.  The native
\* close takes effect at once, later, or is refused with an error.
DisposeAlive(b) ==
  /\ window[b].alive
  /\ \E effect \in {"at once", "later", "refused"}, clean \in BOOLEAN :
       /\ window[b].flight => effect # "at once"
       /\ browser' = IF effect = "at once" THEN TornDown(b, clean) ELSE [browser EXCEPT ![b].contextRetired = TRUE]
       /\ window' = [window EXCEPT ![b] =
            IF effect = "at once" THEN RetiredRecord(b, clean)
            ELSE IF effect = "later" THEN [@ EXCEPT !.phase = "closing"]
            ELSE [@ EXCEPT !.phase = "failed", !.failure = TRUE]]
       /\ open' = EpochMoves(OpensReset(b, FALSE,
            IF effect = "refused" THEN open ELSE Settled(b, "rejected", open)))
       /\ holder' = IF effect = "at once" /\ clean
                    THEN [browser |-> NoBrowser, disposing |-> NoBrowser]
                    ELSE [holder EXCEPT !.disposing = b]
DisposeGone(b) ==
  /\ ~window[b].alive /\ UNCHANGED window
  /\ \E clean \in BOOLEAN :
       /\ browser' = IF window[b].phase = "none" THEN TornDown(b, clean)
                     ELSE [browser EXCEPT ![b].contextRetired = TRUE]
       /\ open' = EpochMoves(OpensReset(b, FALSE, open))
       /\ holder' = IF window[b].phase = "none" /\ clean
                    THEN [browser |-> NoBrowser, disposing |-> NoBrowser]
                    ELSE [holder EXCEPT !.disposing = b]
Dispose ==
  /\ ~Answered /\ opens < MaxOpens /\ opens' = opens + 1 /\ UNCHANGED switching
  /\ \/ \E b \in Browsers : holder.browser = b /\ (DisposeAlive(b) \/ DisposeGone(b))
     \/ holder.browser = NoBrowser /\ open' = EpochMoves(open) /\ UNCHANGED <<holder, browser, window>>

\* closeForContextSwitch of the manager and of the window owner: admission is
\* retired before the first await; a window that is there is closed under a
\* deadline, a missing one is torn down at once.
SwitchClose ==
  /\ switching.at = "idle" /\ opens < MaxOpens /\ opens' = opens + 1
  /\ \/ /\ holder.browser = NoBrowser
        /\ open' = EpochMoves(open) /\ switching' = [at |-> "true", of |-> NoBrowser]
        /\ UNCHANGED <<holder, browser, window>>
     \/ \E b \in Browsers :
          /\ holder.browser = b /\ window[b].phase = "none"
          /\ \E clean \in BOOLEAN :
               /\ browser' = TornDown(b, clean)
               /\ switching' = [at |-> IF clean THEN "true" ELSE "false", of |-> b]
          /\ open' = EpochMoves(OpensReset(b, FALSE, open)) /\ UNCHANGED <<holder, window>>
     \/ \E b \in Browsers :
          /\ holder.browser = b /\ window[b].phase # "none" /\ ~window[b].alive
          /\ browser' = [browser EXCEPT ![b].contextRetired = TRUE]
          /\ switching' = [at |-> IF window[b].cleanup = "done" /\ ~window[b].unconfirmed
                                  THEN "true" ELSE "false", of |-> b]
          /\ open' = EpochMoves(open) /\ UNCHANGED <<holder, window>>
     \/ \E b \in Browsers :
          /\ holder.browser = b /\ window[b].alive
          /\ browser' = [browser EXCEPT ![b].contextRetired = TRUE]
          /\ switching' = [at |-> "waiting", of |-> b]
          /\ window' = [window EXCEPT ![b].flight = TRUE, ![b].phase = "closing"]
          /\ open' = EpochMoves(Settled(b, "rejected", open)) /\ UNCHANGED holder

\* The manager goes on after its await: it lets go of a Browser that closed.
SwitchClosed ==
  /\ Answered
  /\ switching' = [at |-> "idle", of |-> NoBrowser]
  /\ holder' = IF switching.at = "false" THEN holder
               ELSE [browser |-> IF holder.browser = switching.of THEN NoBrowser ELSE holder.browser,
                     disposing |-> IF holder.disposing = switching.of THEN NoBrowser ELSE holder.disposing]
  /\ UNCHANGED <<browser, window, open, opens>>

WindowNext ==
  \/ \E r \in Requests : OpenStart(r) \/ OpenConnected(r) \/ OpenRouted(r) \/ OpenShown(r)
  \/ \E b \in Browsers : WindowLoads(b) \/ WindowLoadFails(b) \/ WindowClosed(b) \/ CloseTimesOut(b)
  \/ Dispose \/ SwitchClose \/ SwitchClosed

WindowSpec == WindowInit /\ [][WindowNext]_windowVars

-----------------------------------------------------------------------------
(* A request that a close, a disposal or a context switch has retired never *)
(* creates a tab, in the window it waited for or in a later one.            *)
NoTabAfterRetirement == \A r \in Requests : ~open[r].late

(* There is never a second Browser window: a Browser whose native close or  *)
(* cleanup is not confirmed keeps its place.                                *)
OneWindow ==
  /\ \A b, c \in Browsers : window[b].alive /\ window[c].alive => b = c
  /\ \A b \in Browsers : window[b].phase # "none" \/ browser[b].tabs > 0 => holder.browser = b \/ holder.disposing = b

(* closeForContextSwitch answers true only when no window and no tab of the *)
(* old context is left; the barrier of the switch relies on it.             *)
ConfirmedCloseIsComplete ==
  switching.at = "true" => \A b \in Browsers : ~window[b].alive /\ browser[b].tabs = 0

WindowSafety == WindowTypeOK /\ NoTabAfterRetirement /\ OneWindow /\ ConfirmedCloseIsComplete
=============================================================================
