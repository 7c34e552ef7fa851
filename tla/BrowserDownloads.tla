-------------------------- MODULE BrowserDownloads --------------------------
(***************************************************************************)
(* BrowserDownloadController (browser/downloads/download-controller.js):   *)
(* each Browser has one, and they share the Electron sessions, which       *)
(* outlive the Browser.                                                    *)
(***************************************************************************)
EXTENDS FiniteSets

CONSTANTS Controllers, Sessions, Items

Deny == "deny"
Nobody == "nobody"
NoItem == "no item"
Handlers == Controllers \cup {Deny}

ASSUME DownloadAssumption == Deny \notin Controllers /\ Nobody \notin Controllers /\ NoItem \notin Items

VARIABLES
  listeners,   \* per session: the 'will-download' handlers it calls
  binding,     \* sessionBindings: the owner the module remembers
  mine,        \* per controller: downloadSessions
  retired,     \* the controllers that are retired
  items,       \* per download: owner, state, whether the native item still runs
  visible      \* per controller: whose state the toolbar shows

downloadVars == <<listeners, binding, mine, retired, items, visible>>

NoDownload == [at |-> "none", owner |-> Nobody, runs |-> FALSE]

DownloadTypeOK ==
  /\ listeners \in [Sessions -> SUBSET Handlers] /\ binding \in [Sessions -> Handlers \cup {Nobody}]
  /\ mine \in [Controllers -> SUBSET Sessions] /\ retired \subseteq Controllers
  /\ items \in [Items -> [at : {"none", "active", "cancelling", "prompt", "finished"},
                          owner : Controllers \cup {Nobody}, runs : BOOLEAN]]
  /\ visible \in [Controllers -> Items \cup {NoItem}]

DownloadInit ==
  /\ listeners = [s \in Sessions |-> {}] /\ binding = [s \in Sessions |-> Nobody]
  /\ mine = [c \in Controllers |-> {}] /\ retired = {}
  /\ items = [i \in Items |-> NoDownload] /\ visible = [c \in Controllers |-> NoItem]

-----------------------------------------------------------------------------
\* Mutant: the handler of a retired controller stays beside the one that denies.
RetiresBeside(c) ==
  LET own == {s \in mine[c] : binding[s] = c} IN
  [listeners |-> [s \in Sessions |-> IF s \in own THEN listeners[s] \cup {Deny} ELSE listeners[s]],
   binding |-> [s \in Sessions |-> IF s \in own THEN Deny ELSE binding[s]],
   mine |-> [mine EXCEPT ![c] = {}], items |-> items, visible |-> [visible EXCEPT ![c] = NoItem]]

\* retire(): its sessions deny from now on, and its downloads are cancelled
\* when the native observer has returned.
Retires(c) ==
  LET own == {s \in mine[c] : binding[s] = c} IN
  [listeners |-> [s \in Sessions |-> IF s \in own THEN (listeners[s] \ {c}) \cup {Deny} ELSE listeners[s]],
   binding |-> [s \in Sessions |-> IF s \in own THEN Deny ELSE binding[s]],
   mine |-> [mine EXCEPT ![c] = {}],
   items |-> [i \in Items |-> IF items[i].owner = c /\ items[i].at = "active"
                              THEN [items[i] EXCEPT !.at = "cancelling"] ELSE items[i]],
   visible |-> [visible EXCEPT ![c] = NoItem]]
Unchanged == [listeners |-> listeners, binding |-> binding, mine |-> mine, items |-> items, visible |-> visible]

Retire(c) ==
  LET r == Retires(c) IN
  /\ c \notin retired /\ retired' = retired \cup {c}
  /\ listeners' = r.listeners /\ binding' = r.binding /\ mine' = r.mine
  /\ items' = r.items /\ visible' = r.visible

\* applyDownloadHandler: the owner before is retired first.
Apply(c, s) ==
  LET before == binding[s]
      r == IF before \in Controllers \ retired THEN Retires(before) ELSE Unchanged IN
  /\ c \notin retired /\ s \notin mine[c] /\ before # c
  /\ retired' = retired \cup ({before} \cap Controllers)
  /\ listeners' = [r.listeners EXCEPT ![s] = (@ \ {r.binding[s]}) \cup {c}]
  /\ binding' = [r.binding EXCEPT ![s] = c] /\ mine' = [r.mine EXCEPT ![c] = @ \cup {s}]
  /\ items' = r.items /\ visible' = r.visible

\* 'will-download': each handler is called; a deny-only one prevents the
\* download, an owner takes it, or cancels it when the native set-up fails.
WillDownload(s, i) ==
  /\ items[i].at = "none" /\ listeners[s] # {}
  /\ \/ /\ Deny \notin listeners[s]
        /\ \E c \in listeners[s] \ retired :
             /\ items' = [items EXCEPT ![i] = [at |-> "active", owner |-> c, runs |-> TRUE]]
             /\ visible' = [visible EXCEPT ![c] = i]
     \/ UNCHANGED <<items, visible>>
  /\ UNCHANGED <<listeners, binding, mine, retired>>

\* 'updated': the progress of the latest download is shown.
Updated(i) ==
  /\ items[i].at = "active" /\ visible' = [visible EXCEPT ![items[i].owner] = i]
  /\ UNCHANGED <<listeners, binding, mine, retired, items>>

\* 'done': the native item has ended; a completed one may ask to be shown.
Done(i, state) ==
  LET c == items[i].owner IN
  /\ items[i].at = "active"
  /\ items' = [items EXCEPT ![i].runs = FALSE,
                            ![i].at = IF state = "completed" THEN "prompt" ELSE "finished"]
  /\ visible' = [visible EXCEPT ![c] = IF state # "cancelled" THEN i ELSE IF @ = i THEN NoItem ELSE @]
  /\ UNCHANGED <<listeners, binding, mine, retired>>
\* The answer counts only while the controller and the window are the same.
PromptAnswered(i) ==
  /\ items[i].at = "prompt" /\ items' = [items EXCEPT ![i].at = "finished"]
  /\ UNCHANGED <<listeners, binding, mine, retired, visible>>
\* setImmediate, after a retirement; a native item may end by itself before.
Cancelling(i) ==
  /\ items[i].at = "cancelling" /\ items' = [items EXCEPT ![i].at = "finished", ![i].runs = FALSE]
  /\ UNCHANGED <<listeners, binding, mine, retired, visible>>

DownloadNext ==
  \/ \E c \in Controllers : Retire(c) \/ \E s \in Sessions : Apply(c, s)
  \/ \E i \in Items :
       \/ Updated(i) \/ PromptAnswered(i) \/ Cancelling(i)
       \/ \E s \in Sessions : WillDownload(s, i)
       \/ \E state \in {"completed", "cancelled", "interrupted"} : Done(i, state)

DownloadSpec == DownloadInit /\ [][DownloadNext]_downloadVars

-----------------------------------------------------------------------------
(* A session that was bound once has one handler for good: its owner, or    *)
(* the one that denies; a retired controller has none.                      *)
OneHandler ==
  \A s \in Sessions :
    /\ IF binding[s] = Nobody THEN listeners[s] = {} ELSE listeners[s] = {binding[s]}
    /\ binding[s] \notin retired

(* No download of a retired controller goes on, and none is shown.          *)
NoDownloadSurvives ==
  /\ \A i \in Items : items[i].owner \in retired /\ items[i].runs => items[i].at = "cancelling"
  /\ \A c \in retired : visible[c] = NoItem

(* What the toolbar shows is a download of its own Browser.                 *)
ShownIsOwn == \A c \in Controllers : visible[c] # NoItem => items[visible[c]].owner = c

DownloadSafety == DownloadTypeOK /\ OneHandler /\ NoDownloadSurvives /\ ShownIsOwn
=============================================================================
