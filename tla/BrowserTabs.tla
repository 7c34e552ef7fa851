---------------------------- MODULE BrowserTabs ----------------------------
(***************************************************************************)
(* The tabs of the Campus Browser window: TabManager, BrowserTabLifecycle  *)
(* and BrowserNavigationOwner (browser/tabs/tab-manager.js), the page      *)
(* records and the toolbar of browser/toolbar/browser-toolbar-owner.js,    *)
(* and BrowserRouteCommandOwner (session/browser-session-manager.js).      *)
(*                                                                         *)
(* A navigation, a reload, a new tab or a route command first waits for    *)
(* the routing to be ready; meanwhile the user goes on.  `navigationIntent`*)
(* of a tab is compared for equality only: a command in flight carries     *)
(* whether its intent is still the tab's.                                  *)
(***************************************************************************)
EXTENDS Integers, Sequences, SequencesExt, FiniteSets

CONSTANTS MaxTabId,     \* bound of nextTabId
          MaxOpenTabs,  \* maxTabs
          Commands      \* commands that may wait for the routing together

ASSUME TabsAssumption == MaxTabId \in Nat \ {0} /\ MaxOpenTabs \in Nat \ {0}

VARIABLES
  tabs,      \* the tab strip, a sequence of ids
  strip,     \* activeTabId, attachedView and nextTabId
  pages,     \* per id: kind, loading, slow, slowTimer, renderer gone
  waiting,   \* per command: what waits for ensureRoutingReady, on which tab
  moved,     \* per command: the user did something else with the tab since
  toolbar    \* scheduledUpdate, and whether the toolbar shows the present state

tabVars == <<tabs, strip, pages, waiting, moved, toolbar>>

TabIds == 1..MaxTabId
NoTab == 0
NewPage(kind) == [kind |-> kind, loading |-> kind # "blank", slow |-> FALSE, timer |-> FALSE,
                  gone |-> FALSE]
NoCommandWaits == [at |-> "none", tab |-> NoTab, intent |-> TRUE]
Kinds == {"page", "blank", "workspace"}

TabsTypeOK ==
  /\ IsInjective(tabs) /\ Range(tabs) \subseteq TabIds /\ Len(tabs) <= MaxOpenTabs
  /\ strip \in [active : {NoTab} \cup TabIds, attached : {NoTab} \cup TabIds, next : 1..MaxTabId + 1]
  /\ pages \in [TabIds -> [kind : Kinds, loading : BOOLEAN, slow : BOOLEAN, timer : BOOLEAN,
                           gone : BOOLEAN]]
  /\ waiting \in [Commands -> [at : {"none", "navigate", "reload", "home", "new", "rule", "route"},
                               tab : {NoTab} \cup TabIds, intent : BOOLEAN]]
  /\ moved \in [Commands -> BOOLEAN]
  /\ toolbar \in [scheduled : BOOLEAN, shows : {"present", "past", "failure"}]

TabsInit ==
  /\ tabs = <<>>
  /\ strip = [active |-> NoTab, attached |-> NoTab, next |-> 1]
  /\ pages = [t \in TabIds |-> NewPage("blank")]
  /\ waiting = [c \in Commands |-> NoCommandWaits] /\ moved = [c \in Commands |-> FALSE]
  /\ toolbar = [scheduled |-> FALSE, shows |-> "present"]

-----------------------------------------------------------------------------
Open(t) == t \in Range(tabs)
Live(t) == Open(t) /\ ~pages[t].gone

\* Mutant: the commands that wait keep their intent.
IntentKept(w, t) == w

\* beginNavigationIntent: every command that waits with an earlier intent is superseded.
NewIntent(w, t) == [c \in Commands |-> IF t # NoTab /\ w[c].tab = t THEN [w[c] EXCEPT !.intent = FALSE] ELSE w[c]]
Moved(t) == [c \in Commands |-> moved[c] \/ (t # NoTab /\ waiting[c].tab = t)]
Idle(c) == waiting[c].at = "none"
Released(c) == [waiting EXCEPT ![c] = NoCommandWaits]
Rested(c) == [moved EXCEPT ![c] = FALSE]

\* scheduleToolbarUpdate after a change.
Shown == toolbar' = [scheduled |-> TRUE, shows |-> "past"]
\* close() cancels what is scheduled; what the toolbar then shows is said.
Cancelled(shows) == toolbar' = [scheduled |-> FALSE, shows |-> shows]

\* activate(id): the tab before is detached and its intent superseded, and the
\* selected one attached.  When a native call fails the tab before is attached
\* again, or nothing is.
Selected(to) == [strip EXCEPT !.active = to, !.attached = to]
ActivateFails(prev, s) == IF prev # NoTab /\ ~pages[prev].gone THEN {[s EXCEPT !.active = prev, !.attached = prev],
                                                                    [s EXCEPT !.attached = NoTab]}
                          ELSE {[s EXCEPT !.attached = NoTab]}

\* The tab a new one pushes aside gets a new intent when it is another one.
Aside(t) == IF strip.active # NoTab /\ strip.active # t /\ Live(strip.active) THEN strip.active ELSE NoTab

-----------------------------------------------------------------------------
(* Tabs.                                                                    *)

\* createPage and createWorkspace: id, view, page events, activation and the
\* first load, or everything is taken back and the tab before is activated.
Create(kind, w, m) ==
  LET t == strip.next IN
  /\ t <= MaxTabId /\ Len(tabs) < MaxOpenTabs
  /\ kind = "workspace" => \A u \in Range(tabs) : pages[u].kind # "workspace"
  /\ \/ /\ tabs' = Append(tabs, t)
        /\ strip' = [Selected(t) EXCEPT !.next = t + 1]
        /\ pages' = [pages EXCEPT ![t] = NewPage(kind)]
        /\ waiting' = NewIntent(w, Aside(t))
        /\ moved' = [c \in Commands |-> m[c] \/ (Aside(t) # NoTab /\ w[c].tab = Aside(t))]
     \/ /\ UNCHANGED <<tabs, pages>> /\ moved' = m /\ waiting' = NewIntent(w, Aside(t))
        /\ strip' \in {[s EXCEPT !.next = t + 1] : s \in {strip} \cup ActivateFails(strip.active, strip)}
  /\ Shown

NewWorkspaceTab == Create("workspace", waiting, moved)

SwitchTab(t) ==
  /\ Live(t) /\ t # strip.active
  /\ UNCHANGED <<tabs, pages>>
  /\ waiting' = NewIntent(waiting, Aside(t)) /\ moved' = Moved(Aside(t))
  /\ \/ strip' = Selected(t) /\ Shown
     \/ strip' \in ActivateFails(strip.active, strip) /\ UNCHANGED toolbar

\* close(): the tab that takes its place is activated; after the last one a new
\* tab is asked for, which waits for the routing like any other.
CloseTab(t) ==
  LET i == CHOOSE n \in DOMAIN tabs : tabs[n] = t
      rest == RemoveAt(tabs, i)
      next == rest[IF i <= Len(rest) THEN i ELSE Len(rest)]
      left == [strip EXCEPT !.attached = IF @ = t THEN NoTab ELSE @] IN
  /\ Open(t) /\ tabs' = rest
  /\ pages' = [pages EXCEPT ![t] = [NewPage("blank") EXCEPT !.gone = TRUE]]
  /\ moved' = Moved(t)
  /\ \/ /\ rest = <<>>
        /\ strip' = [left EXCEPT !.active = NoTab] /\ Cancelled("past")
        /\ \/ \E c \in Commands : Idle(c) /\ waiting' = [waiting EXCEPT ![c] = [NoCommandWaits EXCEPT !.at = "new"]]
           \/ waiting' = waiting
     \/ /\ rest # <<>> /\ strip.active = t /\ waiting' = waiting
        /\ IF pages[next].gone THEN strip' = [left EXCEPT !.active = next] /\ Cancelled("past")
           ELSE \/ strip' = [left EXCEPT !.active = next, !.attached = next] /\ Shown
                \/ strip' \in ActivateFails(next, [left EXCEPT !.active = next]) /\ Cancelled("failure")
     \/ /\ rest # <<>> /\ strip.active # t /\ waiting' = waiting /\ strip' = left /\ Shown

-----------------------------------------------------------------------------
(* Commands that wait for the routing.                                      *)

\* navigateWhenReady, reloadWhenReady, openHome, setTabRoute: a new intent, then
\* the wait.
CommandWaits(c, at, t) ==
  /\ Idle(c) /\ Live(t) /\ (at \in {"reload", "rule"} => pages[t].kind # "workspace")
  /\ waiting' = [NewIntent(waiting, t) EXCEPT ![c] = [at |-> at, tab |-> t, intent |-> TRUE]]
  /\ moved' = [Moved(t) EXCEPT ![c] = FALSE]
  /\ UNCHANGED <<tabs, strip, pages, toolbar>>
NewTabWaits(c) ==
  /\ Idle(c) /\ waiting' = [waiting EXCEPT ![c] = [NoCommandWaits EXCEPT !.at = "new"]]
  /\ UNCHANGED <<tabs, strip, pages, moved, toolbar>>

\* Back and forward are an intent of their own.
History(t) ==
  /\ Live(t) /\ t = strip.active
  /\ waiting' = NewIntent(waiting, t) /\ moved' = Moved(t)
  /\ UNCHANGED <<tabs, strip, pages, toolbar>>

\* navigate(): the load begins in the tab.
Loads(c, t) ==
  /\ waiting' = Released(c) /\ moved' = Rested(c) /\ Shown /\ UNCHANGED <<tabs, strip, pages>>

IntentCurrent(c) == waiting[c].intent /\ Live(waiting[c].tab)
Dropped(c) == waiting' = Released(c) /\ moved' = Rested(c) /\ UNCHANGED <<tabs, strip, pages, toolbar>>

\* ensureRoutingReady has answered.
Resume(c) ==
  LET t == waiting[c].tab IN
  \/ Idle(c) = FALSE /\ Dropped(c)
  \/ /\ waiting[c].at \in {"navigate", "home", "reload"} /\ IntentCurrent(c) /\ pages[t].kind # "workspace"
     /\ Loads(c, t)
  \/ /\ waiting[c].at \in {"navigate", "home"} /\ IntentCurrent(c) /\ pages[t].kind = "workspace"
     /\ Create("page", Released(c), Rested(c))
  \/ waiting[c].at = "new" /\ \E kind \in {"page", "blank"} : Create(kind, Released(c), Rested(c))
  \/ /\ waiting[c].at = "rule" /\ IntentCurrent(c)
     /\ waiting' = [waiting EXCEPT ![c].at = "route"] /\ UNCHANGED <<tabs, strip, pages, moved, toolbar>>
  \/ waiting[c].at = "route" /\ IntentCurrent(c) /\ Loads(c, t)

-----------------------------------------------------------------------------
(* What pages do.                                                           *)

\* did-start-loading and did-stop-loading, and the hint of a slow load.
LoadStarts(t) ==
  /\ Live(t) /\ pages[t].kind # "workspace"
  /\ pages' = [pages EXCEPT ![t].loading = TRUE, ![t].slow = FALSE, ![t].timer = TRUE]
  /\ Shown /\ UNCHANGED <<tabs, strip, waiting, moved>>
LoadStops(t) ==
  /\ Live(t) /\ pages[t].loading
  /\ pages' = [pages EXCEPT ![t].loading = FALSE, ![t].slow = FALSE, ![t].timer = FALSE]
  /\ Shown /\ UNCHANGED <<tabs, strip, waiting, moved>>
SlowHint(t) ==
  /\ pages[t].timer /\ pages' = [pages EXCEPT ![t].timer = FALSE, ![t].slow = TRUE]
  /\ Shown /\ UNCHANGED <<tabs, strip, waiting, moved>>
\* renderFailure: a failed load or a crashed renderer shows the error page; its
\* address (failedUrl) only decides what is drawn and is left out.
LoadFails(t) ==
  /\ Live(t) /\ pages[t].kind # "workspace"
  /\ pages' = [pages EXCEPT ![t].loading = FALSE, ![t].slow = FALSE, ![t].timer = FALSE]
  /\ Shown /\ UNCHANGED <<tabs, strip, waiting, moved>>
\* 'destroyed': the record is detached and its timer cleared; the tab stays in
\* the strip, which shows it as before, until the user closes it.
PageDestroyed(t) ==
  /\ Live(t) /\ pages' = [pages EXCEPT ![t].gone = TRUE, ![t].slow = FALSE, ![t].timer = FALSE]
  /\ UNCHANGED <<tabs, strip, waiting, moved, toolbar>>

\* setImmediate: the scheduled update is sent, unless the active page is gone.
SendToolbar ==
  /\ toolbar.scheduled
  /\ toolbar' = [scheduled |-> FALSE,
                 shows |-> IF strip.active = NoTab \/ ~pages[strip.active].gone THEN "present" ELSE toolbar.shows]
  /\ UNCHANGED <<tabs, strip, pages, waiting, moved>>

\* The window is gone: BrowserTeardownOwner closes the views and clears the tabs.
WindowGone ==
  /\ tabs # <<>> /\ tabs' = <<>>
  /\ strip' = [strip EXCEPT !.active = NoTab, !.attached = NoTab]
  /\ pages' = [t \in TabIds |-> IF Open(t) THEN [NewPage("blank") EXCEPT !.gone = TRUE] ELSE pages[t]]
  /\ moved' = [c \in Commands |-> moved[c] \/ Open(waiting[c].tab)]
  /\ Cancelled("present") /\ UNCHANGED waiting

TabsNext ==
  \/ NewWorkspaceTab \/ SendToolbar \/ WindowGone
  \/ \E t \in TabIds :
       \/ SwitchTab(t) \/ CloseTab(t) \/ History(t) \/ LoadStarts(t) \/ LoadStops(t) \/ SlowHint(t)
       \/ LoadFails(t) \/ PageDestroyed(t)
  \/ \E c \in Commands : NewTabWaits(c) \/ Resume(c)
  \/ \E c \in Commands, t \in TabIds, at \in {"navigate", "reload", "home", "rule"} : CommandWaits(c, at, t)

TabsSpec == TabsInit /\ [][TabsNext]_tabVars

-----------------------------------------------------------------------------
(* The page that is attached to the window is the active tab: a closed or a *)
(* hidden page is never reachable, for assistive technology included,       *)
(* whichever native call of a switch, a creation or a close has failed.     *)
OnlyActiveAttached == strip.attached # NoTab => strip.attached = strip.active /\ Open(strip.attached)

(* A strip with tabs has an active one.                                     *)
SomeTabActive == /\ tabs = <<>> <=> strip.active = NoTab
                 /\ strip.active # NoTab => Open(strip.active)

(* No load begins in a tab for a command that waited while the user went on *)
(* to something else there: another page, another tab, back, or a close.    *)
LoadsAreWanted == \A c \in Commands : moved[c] => ~IntentCurrent(c)

(* A page that is gone, failed or has loaded never turns slow.              *)
SlowMeansLoading == \A t \in TabIds : pages[t].timer \/ pages[t].slow => Live(t) /\ pages[t].loading

(* The toolbar catches up: with an attached page and nothing scheduled it   *)
(* shows the present tabs, load states and failures, unless a native call   *)
(* failed while the tab that replaces a closed one was activated.           *)
ToolbarCatchesUp == strip.attached # NoTab /\ ~pages[strip.attached].gone /\ ~toolbar.scheduled
                      => toolbar.shows # "past"

TabsSafety == TabsTypeOK /\ OnlyActiveAttached /\ SomeTabActive /\ LoadsAreWanted /\ SlowMeansLoading
              /\ ToolbarCatchesUp
=============================================================================
