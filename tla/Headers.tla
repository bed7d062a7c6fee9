------------------------------ MODULE Headers ------------------------------
(***************************************************************************)
(* The headers of a request on its way to a backend and of the response on *)
(* its way back, through a chain of the proxies of this repository: what   *)
(* each data plane strips, adds, filters and rewrites (lb_core::proxy,     *)
(* lb_core::filter and the handlers of proxy-hyper, proxy-pingora and      *)
(* proxy-monoio, HTTP/1.1 and HTTP/2).                                     *)
(*                                                                         *)
(* A header value is the sequence of its comma-separated tokens: the       *)
(* addresses of an X-Forwarded-For chain, the options of a Connection      *)
(* header, the one token of any other value.                               *)
(***************************************************************************)
EXTENDS Filters

CONSTANTS
    Requests,          \* header maps a client can send
    Responses,         \* header maps a backend can answer with
    RuleFilters,       \* the filters of the HTTPRoute rules: sequences of Gateway API filters
    Opaque,            \* a token that is not visible ASCII: to_str() fails on its value
    ForwardedHeaders,  \* ServerConfig, ServiceConfig and WorkerConfig: forwarded_headers
    MaxHops            \* bound on the length of the chain of proxies

VARIABLES
    leg,       \* "request", "response" or "done"
    hops,      \* the proxies the request has gone through: [plane, filters]
    headers,   \* the header map in transit
    origin,    \* what the client, or on the way back the backend, sent
    gone,      \* names that a hop since then had to drop (history)
    touched    \* names that a hop's filters modify (history)

vars == <<leg, hops, headers, origin, gone, touched>>

Planes == {"hyper", "hyper_h2_upstream", "pingora", "monoio", "monoio_h2"}

FORWARDED_FOR == "x-forwarded-for"
FORWARDED_PROTO == "x-forwarded-proto"
CONNECTION == "connection"
HOST == "host"

-----------------------------------------------------------------------------
(* lb_core::proxy, on a header map. *)

HOP_BY_HOP == {"keep-alive", "proxy-authenticate", "proxy-authorization",
               "proxy-connection", "te", "trailer", "upgrade"}

\* HeaderValue::to_str.
IsText(value) == Opaque \notin ToSet(value)

nominated_from_value(value) ==
    ToSet(value) \ {"close", "keep-alive", InvalidName}

connection_nominated(h) ==
    UNION {nominated_from_value(v) : v \in {x \in ToSet(get_all(h, CONNECTION)) : IsText(x)}}

HopByHop(h) == {CONNECTION} \union HOP_BY_HOP \union connection_nominated(h)

\* Mutant: Connection is removed before its value is read.
StripConnectionFirst(h) ==
    LET rest == removeAll(h, {CONNECTION})
    IN  removeAll(rest, HOP_BY_HOP \union connection_nominated(rest))

strip_hop_by_hop(h) ==
    removeAll(h, HopByHop(h))

\* The first value, if it is text, is the chain the peer is appended to; the
\* new value replaces all of them.
append_forwarded_for(h, peer) ==
    LET values == get_all(h, FORWARDED_FOR)
        chain  == IF values = <<>> \/ ~IsText(values[1]) THEN <<>> ELSE values[1]
    IN  insert(h, FORWARDED_FOR, Append(chain, peer))

set_forwarded_proto(h) == insert(h, FORWARDED_PROTO, <<"http">>)

\* The hygiene of one hop, as the Hyper handler, the HTTP/2 handler of
\* Monoio and Pingora's upstream_request_filter apply it.
Forwardable(h, peer) ==
    IF ForwardedHeaders
    THEN set_forwarded_proto(append_forwarded_for(strip_hop_by_hop(h), peer))
    ELSE strip_hop_by_hop(h)

-----------------------------------------------------------------------------
(* proxy-hyper and the HTTP/2 side of proxy-monoio. *)

\* Mutant: Host names the authority before the filters run.
HyperHostBeforeFilters(h, filters, peer, authority, http2) ==
    LET set == insert(Forwardable(h, peer), HOST, <<authority>>)
    IN  apply_request_headers(filters, IF http2 THEN removeAll(set, {HOST}) ELSE set)

\* handle_request: HTTP/2 upstreams get no Host, HTTP/1.1 ones the authority.
HyperRequest(h, filters, peer, authority, http2) ==
    LET filtered == apply_request_headers(filters, Forwardable(h, peer))
    IN  IF http2 THEN removeAll(filtered, {HOST}) ELSE insert(filtered, HOST, <<authority>>)

HyperResponse(h, filters) == apply_response_headers(filters, strip_hop_by_hop(h))

-----------------------------------------------------------------------------
(* proxy-pingora: filters are applied to a copy, and the difference is     *)
(* replayed through Pingora's own header API.                              *)

\* Mutant: what the filters removed is not removed from the original.
ReplayWithoutRemovals(h, staged) == staged @@ h

\* Mutant: the further values of a name are forgotten.
ReplayFirstValues(h, staged) == [n \in DOMAIN staged |-> <<Head(staged[n])>>]

\* replay_request, and the second half of apply_response_filters: absent
\* names are removed; of every staged name the first value is inserted and
\* the others are appended.
replay(h, staged) ==
    LET kept == removeAll(h, DOMAIN h \ DOMAIN staged)
        copy(acc, n) == FoldLeft(LAMBDA a, v : append(a, n, v),
                                 insert(acc, n, Head(staged[n])), Tail(staged[n]))
    IN  FoldLeft(copy, kept, SetToSeq(DOMAIN staged))

\* upstream_request_filter: the Host header is left as the client sent it.
PingoraRequest(h, filters, peer) ==
    LET clean == Forwardable(h, peer)
    IN  IF is_noop(filters) THEN clean
        ELSE replay(clean, apply_request_headers(filters, clean))

\* response_filter.
PingoraResponse(h, filters) ==
    LET clean == strip_hop_by_hop(h)
    IN  IF is_noop(filters) THEN clean
        ELSE replay(clean, apply_response_headers(filters, clean))

-----------------------------------------------------------------------------
(* proxy-monoio, HTTP/1.1: header lines are copied one by one.  The order  *)
(* of lines with different names is not looked at.                         *)

\* connection_nominated of http1.rs splits the bytes of every Connection line,
\* text or not; a token that is no valid name is the name of no header.
http1_connection_nominated(h) ==
    UNION {ToSet(v) \ {"close", "keep-alive"} : v \in ToSet(get_all(h, CONNECTION))}

MonoioDropped(h) == {CONNECTION} \union HOP_BY_HOP \union http1_connection_nominated(h)

\* write_forward_head.  Of several X-Forwarded-For lines the last one is the
\* chain; X-Forwarded-Proto is appended to what the client sent, always.
write_forward_head(h, peer, upstream_host) ==
    LET copied  == removeAll(h, MonoioDropped(h) \union {HOST})
        seen    == IF contains_key(copied, FORWARDED_FOR) THEN Last(copied[FORWARDED_FOR]) ELSE <<>>
        hosted  == insert(removeAll(copied, {FORWARDED_FOR}), HOST, <<upstream_host>>)
        chained == IF ForwardedHeaders
                   THEN insert(hosted, FORWARDED_FOR, Append(seen, peer)) ELSE hosted
    IN  append(chained, FORWARDED_PROTO, <<"http">>)

\* write_return_head, with the disposition the proxy intends to honour.
write_return_head(h, keep_alive) ==
    insert(removeAll(h, MonoioDropped(h)), CONNECTION,
           <<IF keep_alive THEN "keep-alive" ELSE "close">>)

-----------------------------------------------------------------------------
(* The chain of proxies.  The peer of the first one is the client, that of *)
(* every other one the proxy before it; each picks the next as its backend.*)

Peer(i) == IF i = 1 THEN "client" ELSE <<"p1", "p2", "p3">>[i - 1]
Authority(i) == <<"b1", "b2", "b3">>[i]

RequestThrough(plane, h, filters, i) ==
    CASE plane = "monoio"  -> write_forward_head(h, Peer(i), Authority(i))
      [] plane = "pingora" -> PingoraRequest(h, filters, Peer(i))
      [] OTHER             -> HyperRequest(h, filters, Peer(i), Authority(i),
                                           plane = "hyper_h2_upstream")

ResponseThrough(plane, h, filters, keep_alive) ==
    CASE plane = "monoio"  -> write_return_head(h, keep_alive)
      [] plane = "pingora" -> PingoraResponse(h, filters)
      [] OTHER             -> HyperResponse(h, filters)

\* What a data plane takes off a message.
Dropped(plane, h) == IF plane = "monoio" THEN MonoioDropped(h) ELSE HopByHop(h)

\* The names a list of modifiers touches.
Names(modifiers) == {m.name : m \in ToSet(modifiers)}

Init ==
    /\ leg = "request"
    /\ hops = <<>>
    /\ headers \in Requests
    /\ origin = headers
    /\ gone = {} /\ touched = {}

\* An HTTP/2 message has no connection-specific headers (external).
H2Legal(h) == DOMAIN h \intersect {CONNECTION, "keep-alive", "proxy-connection", "upgrade"} = {}

\* A request passes a proxy, which compiles the filters of the rule that it
\* matches.  Only the client speaks HTTP/2 to a proxy, and only a backend is
\* spoken to in HTTP/2.
Forward(plane, rule) ==
    /\ leg = "request" /\ Len(hops) < MaxHops
    /\ hops # <<>> => Last(hops).plane # "hyper_h2_upstream" /\ plane # "monoio_h2"
    /\ plane = "monoio_h2" => H2Legal(headers)
    /\ LET filters == compile_filters(rule, <<Slash>>)
       IN  /\ headers' = RequestThrough(plane, headers, filters, Len(hops) + 1)
           /\ hops' = Append(hops, [plane |-> plane, filters |-> filters])
           /\ touched' = touched \union Names(filters.request_headers)
    /\ gone' = gone \union Dropped(plane, headers)
    /\ UNCHANGED <<leg, origin>>

\* The backend at the end of the chain answers (external).
Answer ==
    /\ leg = "request" /\ hops # <<>>
    /\ leg' = "response"
    /\ headers' \in Responses
    /\ Last(hops).plane = "hyper_h2_upstream" => H2Legal(headers')
    /\ origin' = headers'
    /\ gone' = {} /\ touched' = {}
    /\ UNCHANGED hops

\* The response passes back through the last proxy it has not passed yet.
Return(keep_alive) ==
    /\ leg = "response"
    /\ LET hop == Last(hops)
       IN  /\ headers' = ResponseThrough(hop.plane, headers, hop.filters, keep_alive)
           /\ touched' = touched \union Names(hop.filters.response_headers)
           /\ gone' = gone \union Dropped(hop.plane, headers)
    /\ hops' = Front(hops)
    /\ leg' = IF Len(hops) = 1 THEN "done" ELSE leg
    /\ UNCHANGED origin

Next ==
    \/ \E plane \in Planes, rule \in RuleFilters : Forward(plane, rule)
    \/ Answer
    \/ \E keep_alive \in BOOLEAN : Return(keep_alive)

Spec == Init /\ [][Next]_vars

-----------------------------------------------------------------------------
(* Properties. *)

\* "Headers that must never be forwarded across a proxy hop" (HOP_BY_HOP),
\* Connection and the names its lines of text nominate: what enters a hop
\* with one of these leaves it without, on every data plane and in both
\* directions, unless the route's filters or the proxy itself set it anew.
NothingHopByHopPasses ==
    [][\A n \in HopByHop(headers) \intersect DOMAIN headers :
         leg' = leg \/ leg = "response" =>
            \/ n \notin DOMAIN headers'
            \/ n \in touched'
            \/ n \in IF leg = "request" THEN {HOST, FORWARDED_FOR, FORWARDED_PROTO}
                                        ELSE {CONNECTION}]_vars

\* Every other header arrives with the values it was sent with, in their
\* order, through any chain of data planes: a hop changes what it must drop,
\* what its filters name and what it sets itself, and nothing else.
EndToEndKept ==
    \A n \in (DOMAIN origin \union DOMAIN headers) \ (gone \union touched) :
        n \notin (IF leg = "request" /\ hops # <<>>
                   THEN {HOST, FORWARDED_FOR, FORWARDED_PROTO} ELSE {CONNECTION})
            => get_all(headers, n) = get_all(origin, n)

\* Every hop is named.  Host names the backend a request is sent to: no filter
\* and no earlier hop decides it (Pingora leaves Host alone, HTTP/2 has none).
\* "Append peer to X-Forwarded-For, preserving any existing chain": when the
\* client sent at most one such line, and as text, the backend sees one line
\* that is the client's chain followed by the peer of every hop, whatever
\* the data planes; a line the client declared hop-by-hop starts no chain.
HopsAreNamed ==
    LET sent  == get_all(origin, FORWARDED_FOR)
        chain == IF sent = <<>> \/ FORWARDED_FOR \in gone THEN <<>> ELSE sent[1]
        last  == Last(hops).plane
    IN  leg = "request" /\ hops # <<>> =>
            /\ last = "hyper_h2_upstream" => ~contains_key(headers, HOST)
            /\ last \notin {"hyper_h2_upstream", "pingora"} =>
                  get_all(headers, HOST) = <<<<Authority(Len(hops))>>>>
            /\ /\ ForwardedHeaders /\ FORWARDED_FOR \notin touched
               /\ Len(sent) <= 1 /\ IsText(chain)
               => get_all(headers, FORWARDED_FOR) = <<chain \o [i \in DOMAIN hops |-> Peer(i)]>>

\* "Same hop-by-hop hygiene as the Hyper candidate, so the two do equal work
\* per request": Pingora's staged copy and replay give the headers that Hyper
\* edits in place, in both directions.  Monoio's line copy, with a parser of
\* its own for Connection, gives them too for a route without header filters
\* and a message whose Connection lines are text (of others only Monoio
\* honours the names), and of the requests those with no X-Forwarded-Proto
\* and at most one X-Forwarded-For of text.
PlanesAgree ==
    \A rule \in RuleFilters :
        LET filters == compile_filters(rule, <<Slash>>)
            request(plane) == removeAll(RequestThrough(plane, headers, filters, 1), {HOST})
            response(plane) == removeAll(ResponseThrough(plane, headers, filters, TRUE), {CONNECTION})
            chain == get_all(headers, FORWARDED_FOR)
        IN  /\ HOST \notin Names(filters.request_headers) =>
                  request("hyper") = request("pingora")
            /\ CONNECTION \notin Names(filters.response_headers) =>
                  response("hyper") = response("pingora")
            /\ filters = NoFilters /\ (\A v \in ToSet(get_all(headers, CONNECTION)) : IsText(v)) =>
                  /\ response("monoio") = response("hyper")
                  /\ /\ ForwardedHeaders
                     /\ ~contains_key(strip_hop_by_hop(headers), FORWARDED_PROTO)
                     /\ Len(chain) <= 1 /\ \A v \in ToSet(chain) : IsText(v)
                     => request("monoio") = request("hyper")

=============================================================================
