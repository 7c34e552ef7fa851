------------------------- MODULE UpdateNotification -------------------------
(***************************************************************************)
(* The update notice of platform/update/update-check.js: which release a   *)
(* check offers, and the checks of UpdateNotificationRuntime, automatic or *)
(* asked for, whose date is saved in the settings.                         *)
(*                                                                         *)
(* The project publishes releases while the program runs.  The host that   *)
(* lists them is external: its "latest" release is the stable one that was *)
(* published last.  The user installs what the notice offers and starts    *)
(* that version.  The transactions of the settings run one at a time, and  *)
(* one that fails leaves what was there.  Time is counted in the intervals *)
(* between automatic checks.                                               *)
(***************************************************************************)
EXTENDS Integers, Sequences, FiniteSets, FiniteSetsExt

CONSTANTS Checks,        \* checks in flight at a time
          MaxMinor, MaxPatch, MaxReleases,
          MaxDays        \* intervals the clock counts

ASSUME UpdateAssumption == MaxReleases \in Nat \ {0} /\ MaxDays \in Nat

VARIABLES
  releases,   \* the published versions
  newest,     \* the stable one that was published last
  running,    \* the version of this process
  ran,        \* the versions the user ran
  disposed,   \* #disposed
  checking,   \* #checks: per record, where its run is and what it found
  latest,     \* the update on offer
  checkedAt,  \* updateCheckedAt in the stored settings, 0 when there was no check
  sealed,     \* what it was when this process was disposed, else 0
  today

updateVars == <<releases, newest, running, ran, disposed, checking, latest, checkedAt, sealed, today>>

\* A prerelease tag is a list of identifiers: a name, or a number.
Beta == [number |-> FALSE, rank |-> 1]
First == [number |-> TRUE, rank |-> 1]
Version == [minor : 0 .. MaxMinor, patch : 0 .. MaxPatch, pre : {<<>>, <<Beta>>, <<Beta, First>>}]
NoVersion == [minor |-> -1, patch |-> 0, pre |-> <<>>]
CheckIdle == [at |-> "idle", found |-> NoVersion]
Stable(v) == v.pre = <<>>

UpdateTypeOK ==
  /\ releases \subseteq Version /\ newest \in releases \cup {NoVersion} /\ running \in releases /\ ran \subseteq releases
  /\ disposed \in BOOLEAN /\ latest \in releases \cup {NoVersion} /\ today \in 1 .. MaxDays + 1
  /\ \A c \in Checks : checking[c].at \in {"idle", "asked", "found"} /\ checking[c].found \in releases \cup {NoVersion}

UpdatesInit ==
  /\ \E v \in Version : releases = {v} /\ running = v /\ ran = {v} /\ newest = IF Stable(v) THEN v ELSE NoVersion
  /\ disposed = FALSE /\ latest = NoVersion /\ today = 1
  /\ checking = [c \in Checks |-> CheckIdle]
  /\ checkedAt = 0 /\ sealed = 0

-----------------------------------------------------------------------------
(* Which release is an update.                                              *)

\* comparePrereleaseIdentifiers: a number comes before a name.
IdentifierBelow(a, b) == IF a.number = b.number THEN a.rank < b.rank ELSE a.number

\* The tag that ends first comes first.
TagBelow(s, t) ==
  LET differ == {i \in 1 .. Len(s) + Len(t) : i \notin DOMAIN s \/ i \notin DOMAIN t \/ s[i] # t[i]}
      i == Min(differ) IN
  s # t /\ (i \notin DOMAIN s \/ (i \in DOMAIN t /\ IdentifierBelow(s[i], t[i])))

\* compareVersions(v, w) = -1: a stable version follows its prereleases.
Below(v, w) ==
  \/ v.minor < w.minor
  \/ v.minor = w.minor /\ v.patch < w.patch
  \/ /\ v.minor = w.minor /\ v.patch = w.patch /\ v.pre # w.pre
     /\ Stable(w) \/ (~Stable(v) /\ TagBelow(v.pre, w.pre))

\* Mutant: any release of the series is offered to a Beta.
SameSeries(candidate, current) ==
  candidate.patch = 0 /\ ~Stable(current) /\ current.pre[1] = Beta /\ candidate.minor = current.minor

\* isBetaFinalPromotion: the final release of the series the Beta belongs to.
Promotion(candidate, current) ==
  /\ Stable(candidate) /\ candidate.patch = 0
  /\ ~Stable(current) /\ current.pre[1] = Beta /\ candidate.minor = current.minor

Eligible(current) == {v \in releases : Below(current, v) \/ Promotion(v, current)}
Greatest(S) == IF S = {} THEN NoVersion ELSE CHOOSE v \in S : \A w \in S \ {v} : Below(w, v)

\* selectPrereleaseUpdate: a stable release wins, then the greatest.
ForBeta(current) ==
  LET stable == {v \in Eligible(current) : Stable(v)} IN
  Greatest(IF stable # {} THEN stable ELSE Eligible(current))

\* The host's latest release, offered when it is above this version.
ForStable(current) == IF Below(current, newest) THEN newest ELSE NoVersion

\* checkForUpdate.
Offer == IF Stable(running) THEN ForStable(running) ELSE ForBeta(running)

-----------------------------------------------------------------------------
(* The checks.                                                              *)

\* shouldAutoCheck.
Due == checkedAt = 0 \/ today - checkedAt >= 1

\* run(): the user asks, or a timer that finds the last check an interval old.
Run(c, force) ==
  /\ ~disposed /\ checking[c].at = "idle" /\ (force \/ Due)
  /\ checking' = [checking EXCEPT ![c].at = "asked"]
  /\ UNCHANGED <<releases, newest, running, ran, disposed, latest, checkedAt, sealed, today>>

\* The host answers; or the request fails, is too large or is aborted.
CheckAnswered(c) ==
  /\ checking[c].at = "asked"
  /\ checking' = [checking EXCEPT ![c] = IF disposed THEN CheckIdle ELSE [at |-> "found", found |-> Offer]]
  /\ UNCHANGED <<releases, newest, running, ran, disposed, latest, checkedAt, sealed, today>>
CheckFails(c) ==
  /\ checking[c].at = "asked" /\ checking' = [checking EXCEPT ![c] = CheckIdle]
  /\ UNCHANGED <<releases, newest, running, ran, disposed, latest, checkedAt, sealed, today>>

\* Mutant: the transaction does not ask whether the program still runs.
SavesAlways(c) == TRUE
\* #current, asked at each step of the transaction.
IsCurrent(c) == ~disposed /\ checking[c].at # "idle"

\* The check's turn among the transactions of the settings: its date is saved,
\* and what it found is offered.  A check that found nothing leaves the notice.
Recorded(c) ==
  /\ checking[c].at = "found" /\ checking' = [checking EXCEPT ![c] = CheckIdle]
  /\ IF IsCurrent(c)
     THEN checkedAt' = today /\ latest' = IF checking[c].found # NoVersion THEN checking[c].found ELSE latest
     ELSE UNCHANGED <<checkedAt, latest>>
  /\ UNCHANGED <<releases, newest, running, ran, disposed, sealed, today>>
\* The transaction is refused, or its save fails: the run ends with the error.
NotRecorded(c) ==
  /\ checking[c].at = "found" /\ checking' = [checking EXCEPT ![c] = CheckIdle]
  /\ UNCHANGED <<releases, newest, running, ran, disposed, latest, checkedAt, sealed, today>>

\* dispose(), when the program quits: what still runs ends without effect.
UpdatesDisposed ==
  /\ ~disposed /\ disposed' = TRUE /\ latest' = NoVersion /\ sealed' = checkedAt
  /\ UNCHANGED <<releases, newest, running, ran, checking, checkedAt, today>>

\* The program starts, with nothing on offer; its timers (startAutomatic) may ask.
StartsAs(v) ==
  /\ running' = v /\ ran' = ran \cup {v} /\ disposed' = FALSE /\ latest' = NoVersion
  /\ checking' = [c \in Checks |-> CheckIdle] /\ sealed' = 0
  /\ UNCHANGED <<releases, newest, checkedAt, today>>
\* It is the version it was.
Restart == disposed /\ StartsAs(running)
\* The user opens the page of the update on offer (open) and installs it.
Install == latest # NoVersion /\ StartsAs(latest)

\* The project publishes a release; a day goes by.
Publish(v) ==
  /\ Cardinality(releases) < MaxReleases /\ v \notin releases /\ releases' = releases \cup {v}
  /\ newest' = IF Stable(v) THEN v ELSE newest
  /\ UNCHANGED <<running, ran, disposed, checking, latest, checkedAt, sealed, today>>
Tick ==
  /\ today <= MaxDays /\ today' = today + 1
  /\ UNCHANGED <<releases, newest, running, ran, disposed, checking, latest, checkedAt, sealed>>

UpdatesNext ==
  \/ \E c \in Checks, force \in BOOLEAN : Run(c, force)
  \/ \E c \in Checks : CheckAnswered(c) \/ CheckFails(c) \/ Recorded(c) \/ NotRecorded(c)
  \/ UpdatesDisposed \/ Restart \/ Install \/ Tick
  \/ \E v \in Version : Publish(v)

-----------------------------------------------------------------------------
\* What the notice leads to is a version the user never ran: whichever releases
\* come out between the checks, in whatever order the checks end, following it
\* makes no circle, though the final release of a series is below its own last
\* Betas (the promotion rule of update-check.js:113).
NeverBack == latest \notin ran

\* A stable version is never led to a Beta, nor below itself.
StableStaysStable == latest # NoVersion /\ Stable(running) => Stable(latest) /\ Below(running, latest)

\* Once the program quits, a check that was in flight saves no date and raises
\* no notice (#current at each step of run()).
QuietAfterQuit == disposed => latest = NoVersion /\ checkedAt = sealed

\* The three together.
UpdateSafety == UpdateTypeOK /\ NeverBack /\ StableStaysStable /\ QuietAfterQuit
=============================================================================
