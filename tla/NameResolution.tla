--------------------------- MODULE NameResolution ---------------------------
(***************************************************************************)
(* The engine's resolver (independent/src/engine/dns.rs and dns/tcp.rs):   *)
(* VpnDnsResolver over its cache, the SingleFlight that collapses lookups  *)
(* of one host, the race between the gateway's servers, and the chain of   *)
(* canonical names in an answer.                                           *)
(*                                                                         *)
(* The runtime has several threads, so another lookup may act between any  *)
(* two locks of one.  A lookup is a future: its client's deadline drops it *)
(* where it awaits, and the guard LeaderSlot then gives its slot back.     *)
(***************************************************************************)
EXTENDS Integers, FiniteSets, Sequences, SequencesExt, FiniteSetsExt

CONSTANTS
  Lookups,          \* the callers of resolve_ipv4
  Hosts,            \* what they look up
  CampusHosts,      \* those whose address may be used
  Servers,          \* VpnDnsResolver.servers
  MaxEntries,       \* MAX_CACHE_ENTRIES
  MaxAliases        \* MAX_CNAME_CHAIN

ASSUME NameAssumption == /\ CampusHosts \subseteq Hosts /\ "none" \notin Lookups \cup Hosts
                         /\ MaxEntries \in Nat \ {0} /\ MaxAliases \in Nat

VARIABLES
  lookup,   \* per caller: where its future is, and what it holds
  flight,   \* SingleFlight.lookups: whose channel a host's entry sends on
  cache     \* DnsCache.entries, and whether an entry has expired

nameVars == <<lookup, flight, cache>>

Addresses == {"campus", "prohibited"}
NoAnswer == [host |-> "none", address |-> "none"]
AnswerFor(h, address) == [host |-> h, address |-> address]
AnswerRecord == [host : Hosts \cup {"none"}, address : Addresses \cup {"none"}]

Unsettled == {"missed", "leading", "alone", "querying", "resolved", "published"}

NamesTypeOK ==
  /\ lookup \in [Lookups -> [at : Unsettled \cup {"idle", "waiting", "answered", "failed"}, host : Hosts \cup {"none"},
                             leads : BOOLEAN, of : Lookups \cup {"none"}, answer : AnswerRecord,
                             asked : [Servers -> {"no", "udp", "tcp", "failed"}]]]
  /\ flight \in [Hosts -> Lookups \cup {"none"}]
  /\ cache \in [Hosts -> [answer : AnswerRecord, expired : BOOLEAN]]

NoEntry == [answer |-> NoAnswer, expired |-> FALSE]
NoLookup == [at |-> "idle", host |-> "none", leads |-> FALSE, of |-> "none", answer |-> NoAnswer,
             asked |-> [s \in Servers |-> "no"]]

NamesInit == /\ lookup = [l \in Lookups |-> NoLookup] /\ flight = [h \in Hosts |-> "none"]
             /\ cache = [h \in Hosts |-> NoEntry]

-----------------------------------------------------------------------------
(* The answer of a server: address and alias records, in their order.       *)

Address(owner, address, ttl) == [type |-> "A", owner |-> owner, value |-> address, ttl |-> ttl]
Alias(owner, target, ttl) == [type |-> "CNAME", owner |-> owner, value |-> target, ttl |-> ttl]
Refused == [value |-> "none", ttl |-> 0]

\* One name of the chain: its address, or the alias to follow.
Follow(records, walk, followed) ==
  LET owned(type) == SelectSeq(records, LAMBDA r : r.owner = walk.current /\ r.type = type)
      addresses == owned("A")
      aliases == owned("CNAME")
      shortest(ttl) == IF walk.ttl = -1 THEN ttl ELSE Min({walk.ttl, ttl}) IN
  IF walk.done THEN walk
  ELSE IF Len(aliases) > 1 \/ (addresses # <<>> /\ aliases # <<>>) THEN [walk EXCEPT !.done = TRUE]
  ELSE IF addresses # <<>>
       THEN [walk EXCEPT !.done = TRUE, !.answer = [value |-> addresses[1].value, ttl |-> shortest(addresses[1].ttl)]]
  ELSE IF aliases = <<>> \/ followed = MaxAliases \/ aliases[1].value \in walk.visited
       THEN [walk EXCEPT !.done = TRUE]
  ELSE [walk EXCEPT !.current = aliases[1].value, !.visited = @ \cup {aliases[1].value}, !.ttl = shortest(aliases[1].ttl)]

AnswerOf(question, records) ==
  FoldLeft(LAMBDA walk, followed : Follow(records, walk, followed),
           [current |-> question, visited |-> {question}, ttl |-> -1, done |-> FALSE, answer |-> Refused],
           [n \in 1..MaxAliases + 1 |-> n - 1]).answer

\* What it should be: the one path of aliases from the question to a name that
\* has addresses, no name on it having records of both types or two aliases.
At(records, name, type) == {i \in DOMAIN records : records[i].owner = name /\ records[i].type = type}
IsPath(records, path) ==
  /\ \A i \in 1..Len(path) - 1 : /\ Cardinality(At(records, path[i], "CNAME")) = 1 /\ At(records, path[i], "A") = {}
                                 /\ \A r \in At(records, path[i], "CNAME") : records[r].value = path[i + 1]
  /\ At(records, Last(path), "A") # {} /\ At(records, Last(path), "CNAME") = {}
  /\ IsInjective(path)
PathsFrom(names, question) == {p \in UNION {[1..n -> names] : n \in 1..MaxAliases + 1} : p[1] = question}
ReferenceAnswer(names, question, records) ==
  LET paths == {p \in PathsFrom(names, question) : IsPath(records, p)} IN
  IF paths = {} THEN Refused
  ELSE LET path == CHOOSE p \in paths : TRUE
           first == Min(At(records, Last(path), "A"))
           used == {first} \cup UNION {At(records, path[i], "CNAME") : i \in 1..Len(path) - 1} IN
       [value |-> records[first].value, ttl |-> Min({records[r].ttl : r \in used})]

\* What a server may answer for a host: over an alias, or in a loop.
ValueOf(h) == IF h \in CampusHosts THEN "campus" ELSE "prohibited"
Responses(h) == {<<Address("canonical", ValueOf(h), 1), Alias(h, "canonical", 1)>>,
                 <<Alias(h, "canonical", 1), Alias("canonical", h, 1)>>}

-----------------------------------------------------------------------------
(* DnsCache.                                                                *)

Stored(h) == cache[h] # NoEntry
Cached(h) == Stored(h) /\ ~cache[h].expired

\* A full cache lets the expired entries go, and if it is still full all.
Inserted(h, answer) ==
  LET full(kept) == Cardinality(kept) >= MaxEntries
      all == {k \in Hosts : Stored(k)}
      live == {k \in all : Cached(k)}
      kept == IF ~full(all) THEN all ELSE IF ~full(live) THEN live ELSE {} IN
  [k \in Hosts |-> IF k = h THEN [answer |-> answer, expired |-> FALSE] ELSE IF k \in kept THEN cache[k] ELSE NoEntry]

\* The time to live, MIN_CACHE_TTL at least and MAX_CACHE_TTL at most, is over.
Expires(h) == Cached(h) /\ cache' = [cache EXCEPT ![h].expired = TRUE] /\ UNCHANGED <<lookup, flight>>

-----------------------------------------------------------------------------
(* SingleFlight.  take() is by host: it removes whatever entry is there.    *)

Subscribers(h) == {l \in Lookups : lookup[l].at = "waiting" /\ lookup[l].of = flight[h]}
Settled(k, answer) == [lookup[k] EXCEPT !.at = IF answer = NoAnswer THEN "failed" ELSE "answered", !.answer = answer, !.of = "none"]
Woken(k) == [lookup[k] EXCEPT !.at = "alone", !.of = "none"]
Taken(h) == flight' = [flight EXCEPT ![h] = "none"]

\* LeaderSlot::drop, and where its holder then is.
Released(l, after) ==
  /\ Taken(lookup[l].host)
  /\ lookup' = [k \in Lookups |-> IF k = l THEN after ELSE IF k \in Subscribers(lookup[l].host) THEN Woken(k) ELSE lookup[k]]

\* resolve: the cache first.
BeginLookup(l, h) ==
  IF Cached(h) THEN [NoLookup EXCEPT !.at = "answered", !.host = h, !.answer = cache[h].answer]
  ELSE [NoLookup EXCEPT !.at = "missed", !.host = h]

\* SingleFlight::join.
Join(l) ==
  /\ lookup[l].at = "missed" /\ UNCHANGED cache
  /\ LET h == lookup[l].host IN
     IF flight[h] = "none"
     THEN /\ flight' = [flight EXCEPT ![h] = l]
          /\ lookup' = [lookup EXCEPT ![l].at = "leading", ![l].leads = TRUE]
     ELSE lookup' = [lookup EXCEPT ![l].at = "waiting", ![l].of = flight[h]] /\ UNCHANGED flight

\* query_servers: the cache again, then every server at once.
Query(l) ==
  /\ lookup[l].at \in {"leading", "alone"} /\ UNCHANGED <<flight, cache>>
  /\ lookup' = IF Cached(lookup[l].host)
               THEN [lookup EXCEPT ![l].at = "resolved", ![l].answer = cache[lookup[l].host].answer]
               ELSE [lookup EXCEPT ![l].at = "querying", ![l].asked = [s \in Servers |-> "udp"]]

Asked(l, s) == lookup[l].at = "querying" /\ lookup[l].asked[s] \in {"udp", "tcp"}
NoneAsked == [s \in Servers |-> "no"]

\* The first success ends the race and is cached; a failure ends an attempt,
\* and the last one the query.
ServerAnswers(l, s) ==
  /\ Asked(l, s) /\ UNCHANGED flight
  /\ \E records \in Responses(lookup[l].host) :
       LET h == lookup[l].host
           found == AnswerOf(h, records)
           left == \E other \in Servers \ {s} : Asked(l, other) IN
       IF found = Refused
       THEN /\ UNCHANGED cache
            /\ lookup' = IF left THEN [lookup EXCEPT ![l].asked[s] = "failed"]
                         ELSE [lookup EXCEPT ![l].at = "resolved", ![l].asked = NoneAsked]
       ELSE /\ cache' = Inserted(h, AnswerFor(h, found.value))
            /\ lookup' = [lookup EXCEPT ![l].at = "resolved", ![l].asked = NoneAsked, ![l].answer = AnswerFor(h, found.value)]

\* A truncated answer is asked for again over TCP, once.
Truncated(l, s) ==
  /\ Asked(l, s) /\ lookup[l].asked[s] = "udp"
  /\ lookup' = [lookup EXCEPT ![l].asked[s] = "tcp"] /\ UNCHANGED <<flight, cache>>

\* LeaderSlot::publish: whoever waits on the host's entry has the answer.
Publish(l) ==
  /\ lookup[l].at = "resolved" /\ UNCHANGED cache
  /\ IF ~lookup[l].leads THEN lookup' = [lookup EXCEPT ![l] = Settled(l, lookup[l].answer)] /\ UNCHANGED flight
     ELSE /\ Taken(lookup[l].host)
          /\ lookup' = [k \in Lookups |-> IF k = l THEN [lookup[k] EXCEPT !.at = "published"]
                                          ELSE IF k \in Subscribers(lookup[l].host) THEN Settled(k, lookup[l].answer)
                                          ELSE lookup[k]]

\* The slot goes out of scope after its answer was published.
ReleaseSlot(l) == lookup[l].at = "published" /\ Released(l, Settled(l, lookup[l].answer)) /\ UNCHANGED cache

\* Mutant: a leader that is dropped leaves its entry behind.
DroppedQuietly(l) == lookup' = [lookup EXCEPT ![l] = NoLookup] /\ UNCHANGED flight

\* The caller drops the future where it awaits.
Cancellable(l) == lookup[l].at \in {"waiting", "querying"}

Dropped(l) ==
  IF lookup[l].leads THEN Released(l, NoLookup)
  ELSE lookup' = [lookup EXCEPT ![l] = NoLookup] /\ UNCHANGED flight

\* What goes on by itself once a caller waits.
ResolverSteps ==
  \/ \E l \in Lookups : Join(l) \/ Query(l) \/ Publish(l) \/ ReleaseSlot(l)
  \/ \E l \in Lookups, s \in Servers : ServerAnswers(l, s) \/ Truncated(l, s)
  \/ \E h \in Hosts : Expires(h)

Begins(l) == /\ lookup[l].at = "idle" /\ UNCHANGED <<flight, cache>>
             /\ \E h \in Hosts : lookup' = [lookup EXCEPT ![l] = BeginLookup(l, h)]
Cancels(l) == Cancellable(l) /\ Dropped(l) /\ UNCHANGED cache
Ends(l) == lookup[l].at \in {"answered", "failed"} /\ lookup' = [lookup EXCEPT ![l] = NoLookup] /\ UNCHANGED <<flight, cache>>

NamesNext == ResolverSteps \/ \E l \in Lookups : Begins(l) \/ Cancels(l) \/ Ends(l)

-----------------------------------------------------------------------------
(* Nobody is stranded: a lookup that waits does so on a channel that is     *)
(* still in the map, and whose leader still runs for the same host.  The    *)
(* leader may be cancelled at any time, and another's publish or release,   *)
(* coming late, may have removed this one's entry.                          *)
WaiterHasLeader ==
  \A l \in Lookups : lookup[l].at = "waiting" =>
    LET leader == lookup[l].of IN
    flight[lookup[l].host] = leader /\ lookup[leader].leads /\ lookup[leader].host = lookup[l].host
    /\ lookup[leader].at \in {"leading", "querying", "resolved"}

(* An entry in the map belongs to a lookup that will still take it out, so  *)
(* a host is never left without anyone to ask for it.                       *)
EntryHasLeader ==
  \A h \in Hosts : flight[h] # "none" =>
    lookup[flight[h]].leads /\ lookup[flight[h]].host = h /\ lookup[flight[h]].at \in {"leading", "querying", "resolved"}

(* Every answer, shared or cached, is one for the host that was asked for.  *)
AnswersMatch ==
  /\ \A l \in Lookups : lookup[l].answer # NoAnswer => lookup[l].answer.host = lookup[l].host
  /\ \A h \in Hosts : Stored(h) => cache[h].answer.host = h
  /\ Cardinality({h \in Hosts : Stored(h)}) <= MaxEntries

(* The chain of canonical names, against its definition by paths.           *)
SampleNames == {"a", "b", "c"}
SampleRecords == {Address(n, v, 2) : n \in SampleNames, v \in Addresses}
                 \cup {Alias(n, m, ttl) : n, m \in SampleNames, ttl \in {1, 3}}
ChainIsSound ==
  \A n \in 0..3 : \A records \in [1..n -> SampleRecords] :
    AnswerOf("a", records) = ReferenceAnswer(SampleNames, "a", records)

NamesSafety == NamesTypeOK /\ WaiterHasLeader /\ EntryHasLeader /\ AnswersMatch /\ ChainIsSound
=============================================================================
