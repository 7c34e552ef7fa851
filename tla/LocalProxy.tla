----------------------------- MODULE LocalProxy -----------------------------
(***************************************************************************)
(* The engine's loopback proxy (independent/src/engine/socks.rs and        *)
(* socks/http_forward.rs, with proxy.rs, socks_auth.rs and                 *)
(* destination_policy.rs): what is accepted, how a client authenticates,   *)
(* what it may ask for, where that goes and what comes back.  One task per *)
(* client; its names are looked up by the resolver, its sockets are the    *)
(* netstack's.  Bytes are left out but for the framing of a forwarded body.*)
(***************************************************************************)
EXTENDS NameResolution, TunnelNetstack

CONSTANTS
  Clients,             \* connections to the listener
  Peers,               \* UDP sources on the loopback
  MaxActive,           \* MAX_ACTIVE_CONNECTIONS
  MaxAcceptFailures,   \* MAX_CONSECUTIVE_ACCEPT_FAILURES
  MaxBody, MaxChunks   \* MAX_HTTP_REQUEST_BODY_BYTES, MAX_HTTP_CHUNKS

ASSUME ProxyAssumption == /\ Clients \subseteq Lookups /\ "none" \notin Peers
                          /\ {MaxActive, MaxAcceptFailures, MaxBody, MaxChunks} \subseteq Nat \ {0}

VARIABLES
  policy,     \* ProxyAuthentication: none, optional or required
  listener,   \* whether serve() runs, and its consecutive failures
  conn        \* per client: its task

proxyVars == <<policy, listener, conn, nameVars, stack>>

Serving == {"greeting", "request", "resolving", "dialling", "head", "body", "response", "stream", "relay"}
Replies == {"none", "407", "400", "431", "502", "refused", "established"}
NoBody == [framing |-> "none", left |-> 0, chunks |-> 0, expect |-> FALSE, continued |-> FALSE, upgrade |-> FALSE]
NoClient == [at |-> "absent", front |-> "none", user |-> "none", kind |-> "none", to |-> "none", body |-> NoBody,
           peer |-> "none", busy |-> "none", sources |-> {}, told |-> "none"]

ProxyTypeOK ==
  /\ policy \in {"none", "optional", "required"}
  /\ listener \in [open : BOOLEAN, failures : 0..MaxAcceptFailures]
  /\ conn \in [Clients -> [at : Serving \cup {"absent", "ended"}, front : {"none", "socks", "http"},
                           user : {"none", "password"}, kind : {"none", "connect", "forward", "udp"},
                           to : Addresses \cup {"none"}, peer : Peers \cup {"none"}, busy : Peers \cup {"none"},
                           sources : SUBSET Peers, told : Replies,
                           body : [framing : {"none", "length", "chunked"}, left : 0..MaxBody, chunks : 0..MaxChunks,
                                   expect : BOOLEAN, continued : BOOLEAN, upgrade : BOOLEAN]]]

ProxyInit ==
  /\ policy \in {"none", "optional", "required"} /\ listener = [open |-> TRUE, failures |-> 0]
  /\ conn = [c \in Clients |-> NoClient] /\ NamesInit /\ StackInit

\* destination_policy.rs.
Allowed(address) == address = "campus"

-----------------------------------------------------------------------------
(* serve: the listener and its tasks.                                       *)

NamesRest == UNCHANGED nameVars
Listening == UNCHANGED <<policy, listener, stack>>

Tasks == {c \in Clients : conn[c].at \in Serving}
Reaped(c) == IF conn[c].at = "ended" THEN NoClient ELSE conn[c]

\* The finished tasks are reaped before the limit is looked at.
Accept(c) ==
  /\ listener.open /\ conn[c].at = "absent" /\ listener' = [listener EXCEPT !.failures = 0]
  /\ conn' = [k \in Clients |-> IF k = c /\ Cardinality(Tasks) < MaxActive THEN [NoClient EXCEPT !.at = "greeting"] ELSE Reaped(k)]
  /\ UNCHANGED <<policy, stack>> /\ NamesRest
AcceptFails ==
  /\ listener.open
  /\ listener' = [open |-> listener.failures + 1 < MaxAcceptFailures, failures |-> listener.failures + 1]
  /\ UNCHANGED <<policy, conn, stack>> /\ NamesRest
Reap(c) ==
  /\ conn[c].at = "ended" /\ conn' = [conn EXCEPT ![c] = NoClient] /\ Listening /\ NamesRest

\* abort_and_drain_services; the tasks of the clients go where they next await.
StopServing ==
  /\ listener.open /\ listener' = [listener EXCEPT !.open = FALSE]
  /\ UNCHANGED <<policy, conn, stack>> /\ NamesRest

\* A task ends, and what it told its client last.
Becomes(c, record) == conn' = [conn EXCEPT ![c] = record]
EndTask(c, reply) == Becomes(c, [NoClient EXCEPT !.at = "ended", !.user = conn[c].user, !.told = reply])

Aborted(c) ==
  /\ ~listener.open /\ conn[c].at \in Serving /\ Listening /\ EndTask(c, "none") /\ UNCHANGED cache
  /\ \/ lookup[c].at = "idle" /\ UNCHANGED <<lookup, flight>>
     \/ Cancellable(c) /\ Dropped(c)
     \/ lookup[c].at \in {"answered", "failed"} /\ lookup' = [lookup EXCEPT ![c] = NoLookup] /\ UNCHANGED flight

In(c, at) == listener.open /\ conn[c].at = at /\ Listening

\* The deadlines of the handshake, a client that has gone, an unusable greeting.
HandshakeEnds(c) == listener.open /\ conn[c].at \in {"greeting", "request"} /\ Listening /\ EndTask(c, "none") /\ NamesRest
LookupTimesOut(c) ==
  /\ In(c, "resolving") /\ Cancellable(c) /\ Dropped(c) /\ UNCHANGED cache /\ EndTask(c, "none")

-----------------------------------------------------------------------------
(* The greeting.                                                            *)

\* negotiate_socks5: NO_AUTH is preferred where it is accepted.
GreetSocks(c) ==
  /\ In(c, "greeting") /\ NamesRest
  /\ \E methods \in SUBSET {"open", "password"}, right \in BOOLEAN :
       LET greeted(user) == Becomes(c, [conn[c] EXCEPT !.at = "request", !.front = "socks", !.user = user]) IN
       IF policy # "required" /\ "open" \in methods THEN greeted("none")
       ELSE IF policy # "none" /\ "password" \in methods /\ right THEN greeted("password")
       ELSE EndTask(c, "refused")

HttpRequest == [right : BOOLEAN, sound : BOOLEAN, connect : BOOLEAN, ws : BOOLEAN, current : BOOLEAN,
                length : {"none", "fits", "large"}, chunked : BOOLEAN, expect : BOOLEAN, upgrade : BOOLEAN,
                upgrades : BOOLEAN]

\* parse_forward_request: the framing must be one, and an upgrade has none.
Framing(r) == IF r.chunked THEN "chunked" ELSE IF r.length = "none" THEN "none" ELSE "length"
WellFramed(r) ==
  /\ r.length # "large" /\ ~(r.chunked /\ r.length # "none")
  /\ r.chunked \/ r.expect => r.current          \* HTTP/1.1
  /\ r.upgrade = r.upgrades
  /\ r.ws => r.upgrade
  /\ r.upgrade => r.current /\ Framing(r) = "none" /\ ~r.expect
  /\ r.expect => Framing(r) # "none"

\* Mutant: the request is parsed before its credentials are looked at.
ParsedFirst(r) ==
  IF ~r.sound \/ ~(r.connect \/ WellFramed(r)) THEN "400"
  ELSE IF ~r.right THEN "407"
  ELSE IF r.connect THEN "connect" ELSE "forward"

\* parse_authenticated_header: who asks comes before what is asked.
Parsed(r) ==
  IF ~r.right THEN "407"
  ELSE IF ~r.sound \/ ~(r.connect \/ WellFramed(r)) THEN "400"
  ELSE IF r.connect THEN "connect" ELSE "forward"

BodyOf(r, size) == [NoBody EXCEPT !.framing = Framing(r), !.left = IF Framing(r) = "length" THEN size ELSE 0,
                                  !.expect = r.expect, !.upgrade = r.upgrade]

GreetHttp(c) ==
  /\ In(c, "greeting") /\ policy = "required" /\ NamesRest
  /\ \/ EndTask(c, "431")
     \/ \E r \in HttpRequest :
          IF Parsed(r) \in {"407", "400"}
          THEN Becomes(c, [NoClient EXCEPT !.at = "ended", !.user = IF r.right THEN "password" ELSE "none", !.told = Parsed(r)])
          ELSE \E size \in 0..MaxBody :
                 Becomes(c, [conn[c] EXCEPT !.at = "request", !.front = "http", !.user = "password", !.kind = Parsed(r),
                                            !.body = IF Parsed(r) = "connect" THEN NoBody ELSE BodyOf(r, size)])

-----------------------------------------------------------------------------
(* The request and its destination.                                         *)

\* What a failed destination is answered with.
Failure(c) == IF conn[c].front = "http" THEN "502" ELSE "refused"

\* handle: the policy on addresses, then the netstack.
Dials(record) == [record EXCEPT !.at = "dialling"]
GoTo(c, record, address) ==
  IF Allowed(address) THEN Becomes(c, Dials([record EXCEPT !.to = address])) ELSE EndTask(c, Failure(c))

\* read_socks_request: a relay is for a client that needed no password.
MayRelay(user) == user = "none"

\* read_socks_request, or the request that came with the HTTP greeting.
Request(c) ==
  /\ In(c, "request")
  /\ LET named(kind) ==
           \E h \in Hosts : /\ lookup' = [lookup EXCEPT ![c] = BeginLookup(c, h)] /\ UNCHANGED <<flight, cache>>
                            /\ Becomes(c, [conn[c] EXCEPT !.at = "resolving", !.kind = kind])
         literal(kind) == \E a \in Addresses : GoTo(c, [conn[c] EXCEPT !.kind = kind], a) /\ NamesRest IN
     IF conn[c].front = "http" THEN named(conn[c].kind) \/ literal(conn[c].kind)
     ELSE \/ EndTask(c, "refused") /\ NamesRest          \* an unsupported command or address
          \/ named("connect") \/ literal("connect")
          \/ /\ NamesRest                               \* UDP ASSOCIATE
             /\ IF MayRelay(conn[c].user) THEN Becomes(c, [conn[c] EXCEPT !.at = "dialling", !.kind = "udp"])
                ELSE EndTask(c, "refused")

\* The address is there; a SOCKS client whose name has none is only closed.
Resolved(c) ==
  /\ In(c, "resolving") /\ lookup[c].at \in {"answered", "failed"}
  /\ lookup' = [lookup EXCEPT ![c] = NoLookup] /\ UNCHANGED <<flight, cache>>
  /\ IF lookup[c].at = "answered" THEN GoTo(c, conn[c], lookup[c].answer.address)
     ELSE EndTask(c, IF conn[c].front = "http" THEN "502" ELSE "none")

\* connect_tcp, bind_udp.
Dial(c) ==
  /\ In(c, "dialling") /\ NamesRest
  /\ \/ EndTask(c, IF conn[c].kind = "udp" THEN "none" ELSE Failure(c))
     \/ /\ stack.healthy
        /\ Becomes(c, [conn[c] EXCEPT !.at = CASE conn[c].kind = "connect" -> "stream"
                                                [] conn[c].kind = "udp" -> "relay"
                                                [] OTHER -> "head"])

-----------------------------------------------------------------------------
(* forward_request: one request, then its response.                         *)

\* The rebuilt head is written; the proxy itself answers an Expect.
SendHead(c) ==
  /\ In(c, "head") /\ NamesRest
  /\ Becomes(c, [conn[c] EXCEPT !.at = IF conn[c].body.upgrade THEN "stream" ELSE "body",
                                !.body.continued = conn[c].body.expect])

Willing(c) == conn[c].body.expect => conn[c].body.continued
BodyDone(c) == [conn[c] EXCEPT !.at = "response"]

\* copy_exact_body and relay_chunked_body: what the framing says, and no more.
RelayBody(c) ==
  /\ In(c, "body") /\ NamesRest
  /\ LET b == conn[c].body IN
     \/ b.framing = "none" /\ Becomes(c, BodyDone(c))
     \/ /\ b.framing = "length" /\ Willing(c)
        /\ Becomes(c, IF b.left = 0 THEN BodyDone(c) ELSE [conn[c] EXCEPT !.body.left = @ - 1])
     \/ /\ b.framing = "chunked" /\ Willing(c)
        /\ \/ Becomes(c, BodyDone(c))                   \* the last chunk, without trailers
           \/ \E size \in 1..MaxBody :
                IF b.chunks < MaxChunks /\ b.left + size <= MaxBody
                THEN Becomes(c, [conn[c] EXCEPT !.body.left = @ + size, !.body.chunks = @ + 1])
                ELSE EndTask(c, "none")

\* An end of either side, a failure, a deadline.
StreamEnds(c) ==
  /\ listener.open /\ conn[c].at \in {"head", "body", "response", "stream"} /\ Listening /\ EndTask(c, "none") /\ NamesRest

-----------------------------------------------------------------------------
(* The UDP relay of an association.                                         *)

\* The first source of a datagram that parses has the relay.
Forwards(c, p, address) ==
  IF Allowed(address) /\ conn[c].peer \in {"none", p}
  THEN Becomes(c, [conn[c] EXCEPT !.peer = p, !.busy = "none", !.to = address, !.sources = @ \cup {p}])
  ELSE Becomes(c, [conn[c] EXCEPT !.busy = "none"])

Datagram(c, p) ==
  /\ In(c, "relay") /\ conn[c].busy = "none"
  /\ \/ \E a \in Addresses : Forwards(c, p, a) /\ NamesRest
     \/ \E h \in Hosts : /\ lookup' = [lookup EXCEPT ![c] = BeginLookup(c, h)] /\ UNCHANGED <<flight, cache>>
                         /\ Becomes(c, [conn[c] EXCEPT !.busy = p])
DatagramResolved(c) ==
  /\ In(c, "relay") /\ conn[c].busy # "none" /\ lookup[c].at \in {"answered", "failed"}
  /\ lookup' = [lookup EXCEPT ![c] = NoLookup] /\ UNCHANGED <<flight, cache>>
  /\ IF lookup[c].at = "answered" THEN Forwards(c, conn[c].busy, lookup[c].answer.address)
     ELSE Becomes(c, [conn[c] EXCEPT !.busy = "none"])

\* The control connection closes, or one direction fails: the other is dropped.
RelayEnds(c) ==
  /\ In(c, "relay") /\ UNCHANGED cache /\ EndTask(c, "none")
  /\ \/ lookup[c].at = "idle" /\ UNCHANGED <<lookup, flight>>
     \/ Cancellable(c) /\ Dropped(c)

-----------------------------------------------------------------------------
ProxyNext ==
  \/ \E c \in Clients :
       \/ Accept(c) \/ Reap(c) \/ Aborted(c) \/ HandshakeEnds(c) \/ LookupTimesOut(c) \/ GreetSocks(c) \/ GreetHttp(c)
       \/ Request(c) \/ Resolved(c) \/ Dial(c) \/ SendHead(c) \/ RelayBody(c) \/ StreamEnds(c)
       \/ DatagramResolved(c) \/ RelayEnds(c) \/ \E p \in Peers : Datagram(c, p)
  \/ AcceptFails \/ StopServing
  \/ ResolverSteps /\ UNCHANGED <<policy, listener, conn, stack>>
  \/ \E b \in Bridges : BridgeEnds(b) /\ UNCHANGED <<policy, listener, conn>> /\ NamesRest

ProxySpec == ProxyInit /\ [][ProxyNext]_proxyVars

-----------------------------------------------------------------------------
(* What reaches the tunnel was allowed to: in required mode only who knew   *)
(* the password, never a destination the policy refuses (whether literal or *)
(* the gateway's own answer to a name), and no relay for a password.        *)
InTunnel == {"head", "body", "response", "stream"}
OnlyAllowedReach ==
  \A c \in Clients :
    /\ conn[c].at \in InTunnel => Allowed(conn[c].to)
    /\ conn[c].at \in InTunnel /\ policy = "required" => conn[c].user = "password"
    /\ conn[c].at = "relay" => conn[c].user = "none" /\ policy # "required" /\ (conn[c].to = "none" \/ Allowed(conn[c].to))

(* Who has not authenticated learns nothing of what it asked for: a request *)
(* that would have been malformed is answered like one that would not.      *)
NothingLearned ==
  \A c \in Clients : conn[c].at = "ended" /\ conn[c].user = "none" /\ policy = "required" =>
    conn[c].told \in {"none", "refused", "407", "431"}

(* A relay serves one source, whatever order the datagrams and their names  *)
(* come in; and a task holds a lookup just while it waits for one, so a     *)
(* deadline leaves no lookup without a client.                              *)
RelaysAreOwned ==
  \A c \in Clients :
    /\ Cardinality(conn[c].sources) <= 1 /\ conn[c].sources \subseteq {conn[c].peer}
    /\ lookup[c].at # "idle" <=> conn[c].at = "resolving" \/ conn[c].busy # "none"

(* Proxy and client never wait for each other: while the proxy reads a body *)
(* its sender has been told to go on.                                       *)
NoStandoff == \A c \in Clients : conn[c].at = "body" => Willing(c)

ProxySafety ==
  /\ ProxyTypeOK /\ OnlyAllowedReach /\ NothingLearned /\ RelaysAreOwned /\ NoStandoff
  /\ Cardinality(Tasks) <= MaxActive
=============================================================================
