----------------------------- MODULE PortalData -----------------------------
(***************************************************************************)
(* The personal data of the school portal that the Campus Home shows:      *)
(* MyPortalDataRuntime (browser/session/browser-session-manager.js) and    *)
(* the four channels of ipc/browser-data-ipc.js.                           *)
(*                                                                         *)
(* A read takes seconds, and meanwhile the session may expire, the user    *)
(* may clear the browser data or switch to another profile.  calendarEpoch *)
(* is compared for equality only: a read carries whether its epoch is      *)
(* still the runtime's.                                                    *)
(***************************************************************************)
EXTENDS FiniteSets

CONSTANTS Reads,   \* requests in progress at a time
          Weeks,   \* weeks of the schedule
          Keys     \* portal contexts: browser partition and portal address

NoRead == "no read"
ASSUME PortalAssumption == NoRead \notin Reads /\ NoRead \notin Weeks

Contents == {"none", "out", "thin", "data"}   \* data: personal items; thin: no source answered
Nothing == [what |-> "none", stale |-> FALSE, foreign |-> FALSE]
Values == [what : Contents, stale : BOOLEAN, foreign : BOOLEAN]

VARIABLES
  context,   \* the partition and the portal address in use
  store,     \* contextKey, cached, inflight, calendarCache, calendarInflight
  reads,     \* per request: what it waits for or the value it has returned
  clearing   \* clear-browser-data waits for clearSiteData

portalVars == <<context, store, reads, clearing>>

IdleRead == [at |-> "idle", kind |-> "none", week |-> NoRead, on |-> NoRead, current |-> FALSE,
         stale |-> FALSE, key |-> NoRead, value |-> Nothing]

PortalTypeOK ==
  /\ context \in Keys /\ clearing \in BOOLEAN
  /\ store \in [known : Keys \cup {NoRead}, cached : Values, inflight : Reads \cup {NoRead},
                calendar : [Weeks -> Values], weeks : [Weeks -> Reads \cup {NoRead}]]
  /\ reads \in [Reads -> [at : {"idle", "waits", "resumes", "reads", "done"},
                          kind : {"none", "snapshot", "schedule", "week"}, week : Weeks \cup {NoRead},
                          on : Reads \cup {NoRead}, current : BOOLEAN, stale : BOOLEAN,
                          key : Keys \cup {NoRead}, value : Values]]

PortalInit ==
  /\ context \in Keys /\ clearing = FALSE
  /\ store = [known |-> NoRead, cached |-> Nothing, inflight |-> NoRead,
              calendar |-> [w \in Weeks |-> Nothing], weeks |-> [w \in Weeks |-> NoRead]]
  /\ reads = [o \in Reads |-> IdleRead]

-----------------------------------------------------------------------------
\* invalidate(), and the epoch that ends with it.
PortalCleared(s) == [s EXCEPT !.cached = Nothing, !.inflight = NoRead,
                        !.calendar = [w \in Weeks |-> Nothing], !.weeks = [w \in Weeks |-> NoRead]]
Outdated(r) == [o \in Reads |-> [r[o] EXCEPT !.current = FALSE]]

\* What is in progress or stored when the portal denies the session, or the
\* browser data are gone, is stale from then on.
Stale(v) == [v EXCEPT !.stale = (v.what = "data")]
StoreStale(s) == [s EXCEPT !.cached = Stale(@), !.calendar = [w \in Weeks |-> Stale(@[w])]]
ReadsStale(r) == [o \in Reads |-> IF r[o].at \in {"idle", "done"} THEN r[o] ELSE [r[o] EXCEPT !.stale = TRUE]]

\* Mutant: the reads of the other context go on.
ReadsKept == reads

\* captureContext: another context empties everything first.
CapturedStore == IF store.known = context THEN store ELSE [PortalCleared(store) EXCEPT !.known = context]
CapturedReads == IF store.known = context THEN reads ELSE Outdated(reads)

Current(o) == reads[o].current /\ reads[o].key = context

\* The promise of request o settles: its slots are free, and the requests that
\* waited for it go on or fail with it.
Freed(s, o) == [s EXCEPT !.inflight = IF @ = o THEN NoRead ELSE @,
                         !.weeks = [w \in Weeks |-> IF @[w] = o THEN NoRead ELSE @[w]]]
SettledReads(r, o, ok) ==
  [p \in Reads |-> IF r[p].at = "waits" /\ r[p].on = o
                   THEN IF ok THEN [r[p] EXCEPT !.at = "resumes", !.on = NoRead] ELSE IdleRead
                   ELSE r[p]]
\* A week that fails with the request it waited for leaves its slot as well.
FreedWith(s, r, o, ok) ==
  LET base == Freed(s, o)
      failed == {p \in Reads : ~ok /\ r[p].at = "waits" /\ r[p].on = o} IN
  [base EXCEPT !.weeks = [w \in Weeks |-> IF @[w] \in failed THEN NoRead ELSE @[w]]]

Returns(s, r, o, v) ==
  /\ store' = FreedWith(s, r, o, TRUE)
  /\ reads' = [SettledReads(r, o, TRUE) EXCEPT ![o] = [IdleRead EXCEPT !.at = "done",
                 !.value = [what |-> v.what, stale |-> v.stale, foreign |-> r[o].key # context]]]
Throws(o) ==
  /\ store' = FreedWith(store, reads, o, FALSE)
  /\ reads' = [SettledReads(reads, o, FALSE) EXCEPT ![o] = IdleRead]

-----------------------------------------------------------------------------
(* Requests.                                                                *)

\* readSnapshot: a new source read ends the epoch and the weeks read in it.
Begins(s, r, o, kind) ==
  /\ store' = [s EXCEPT !.inflight = o, !.calendar = [w \in Weeks |-> Nothing],
                        !.weeks = [w \in Weeks |-> NoRead]]
  /\ reads' = [Outdated(r) EXCEPT ![o] = [IdleRead EXCEPT !.at = "reads", !.kind = kind, !.current = TRUE,
                                                      !.key = context]]
Joins(s, r, o, kind, w, on) ==
  [r EXCEPT ![o] = [IdleRead EXCEPT !.at = "waits", !.kind = kind, !.week = w, !.on = on, !.current = TRUE,
                                !.key = context]]

Serves(s, r, o, v) ==
  /\ store' = s
  /\ reads' = [r EXCEPT ![o] = [IdleRead EXCEPT !.at = "done", !.value = v]]

\* snapshot(): the cached value while it is fresh, the read in flight, or a new one.
\* A caller that joins the read in flight shares its promise, and its value.
Snapshot(o) ==
  LET s == CapturedStore  r == CapturedReads IN
  /\ reads[o].at = "idle"
  /\ \/ s.cached.what # "none" /\ Serves(s, r, o, s.cached)
     \/ Begins(s, r, o, "snapshot")
  /\ UNCHANGED <<context, clearing>>

RefreshSchedule(o) ==
  LET s == CapturedStore  r == CapturedReads IN
  /\ reads[o].at = "idle"
  /\ IF s.inflight # NoRead THEN store' = s /\ reads' = Joins(s, r, o, "schedule", NoRead, s.inflight)
     ELSE Begins(s, r, o, "schedule")
  /\ UNCHANGED <<context, clearing>>

\* readWeek once no snapshot is in flight: the week of the cached snapshot, or a
\* read of its own.
ReadsWeek(s, r, o) ==
  \/ s.cached.what = "data" /\ Returns(s, r, o, s.cached)
  \/ store' = s /\ reads' = [r EXCEPT ![o].at = "reads"]

\* scheduleWeek(): the cached week while it is fresh, or a new read.
ScheduleWeek(o, w) ==
  LET s == CapturedStore  r == CapturedReads IN
  /\ reads[o].at = "idle"
  /\ \/ s.calendar[w].what # "none" /\ Serves(s, r, o, s.calendar[w])
     \/ LET slot == [s EXCEPT !.weeks[w] = o] IN
        IF s.inflight # NoRead THEN store' = slot /\ reads' = Joins(s, r, o, "week", w, s.inflight)
        ELSE ReadsWeek(slot, Joins(s, r, o, "week", w, NoRead), o)
  /\ UNCHANGED <<context, clearing>>

\* The read in flight has ended well: the context is compared first.
ResumeRead(o) ==
  /\ reads[o].at = "resumes"
  /\ IF ~Current(o) THEN Throws(o)
     ELSE IF reads[o].kind = "schedule" THEN Begins(store, reads, o, "schedule")
     ELSE ReadsWeek(store, reads, o)
  /\ UNCHANGED <<context, clearing>>

\* readNow answers, and acceptDataResult looks at the answer: a denial of the
\* session, or of the schedule, empties every cache; another value is stored
\* by the request that still owns its slot.
Stored(o, v) ==
  IF reads[o].kind = "week"
  THEN IF v.what = "data" /\ store.weeks[reads[o].week] = o
       THEN [store EXCEPT !.calendar[reads[o].week] = v] ELSE store
  ELSE IF store.inflight = o THEN [store EXCEPT !.cached = v] ELSE store
Denied(what) == IF what = "out" THEN [PortalCleared(StoreStale(store)) EXCEPT !.cached.what = "out"]
                ELSE PortalCleared(StoreStale(store))
Answer(o, answer) ==
  LET v == [what |-> answer, stale |-> reads[o].stale, foreign |-> reads[o].key # store.known] IN
  /\ reads[o].at = "reads"
  /\ IF ~Current(o) \/ answer = "error" THEN Throws(o)
     ELSE IF answer \in {"out", "forbidden"}
     THEN Returns(Denied(answer), Outdated(ReadsStale(reads)), o, [Nothing EXCEPT !.what = "out"])
     ELSE Returns(Stored(o, v), reads, o, v)
  /\ UNCHANGED <<context, clearing>>

\* The caller has its value.
Taken(o) == reads[o].at = "done" /\ reads' = [reads EXCEPT ![o] = IdleRead] /\ UNCHANGED <<context, store, clearing>>

-----------------------------------------------------------------------------
(* Around the reads.                                                        *)

\* Another profile: getPartition and getPortalUrl answer differently.
SwitchContext == context' \in Keys \ {context} /\ UNCHANGED <<store, reads, clearing>>

\* clear-browser-data: once before, and once after clearSiteData has ended.
ClearBegins ==
  /\ ~clearing /\ clearing' = TRUE
  /\ store' = PortalCleared(store) /\ reads' = Outdated(reads) /\ UNCHANGED context
ClearEnds ==
  /\ clearing /\ clearing' = FALSE
  /\ store' = PortalCleared(StoreStale(store)) /\ reads' = Outdated(ReadsStale(reads)) /\ UNCHANGED context

PortalNext ==
  \/ SwitchContext \/ ClearBegins \/ ClearEnds
  \/ \E o \in Reads :
       \/ Snapshot(o) \/ RefreshSchedule(o) \/ ResumeRead(o) \/ Taken(o)
       \/ \E w \in Weeks : ScheduleWeek(o, w)
       \/ \E answer \in {"out", "forbidden", "thin", "data", "error"} : Answer(o, answer)

PortalSpec == PortalInit /\ [][PortalNext]_portalVars

-----------------------------------------------------------------------------
(* Personal data read before the portal denied the session, or before the   *)
(* browser data were cleared, are never kept or returned afterwards.        *)
NothingAfterDenial ==
  /\ ~store.cached.stale /\ \A w \in Weeks : ~store.calendar[w].stale
  /\ \A o \in Reads : ~reads[o].value.stale

(* What is kept or returned belongs to the profile in use when it was asked *)
(* for: no reader of another profile sees it.                               *)
OwnContextOnly ==
  /\ ~store.cached.foreign /\ \A w \in Weeks : ~store.calendar[w].foreign
  /\ \A o \in Reads : ~reads[o].value.foreign

(* A request that waits, waits for one that is reading: nobody is left      *)
(* behind, and a slot names a request that still uses it.                   *)
NobodyLeftBehind ==
  /\ \A o \in Reads : reads[o].at = "waits" => reads[reads[o].on].at = "reads"
  /\ store.inflight # NoRead => reads[store.inflight].at = "reads" /\ reads[store.inflight].kind # "week"
  /\ \A w \in Weeks : store.weeks[w] # NoRead => reads[store.weeks[w]].week = w

PortalSafety == PortalTypeOK /\ NothingAfterDenial /\ OwnContextOnly /\ NobodyLeftBehind
=============================================================================
