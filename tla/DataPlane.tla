----------------------------- MODULE DataPlane -----------------------------
(***************************************************************************)
(* How the three data planes read the shared route table while the         *)
(* reconciler replaces it.  Hyper (proxy-hyper/src/server.rs) and Monoio   *)
(* (proxy-monoio/src/server.rs and http2.rs) look a request up once;       *)
(* Pingora (proxy-pingora/src/proxy_service.rs) looks it up in every phase *)
(* of its life, with awaits in between.                                    *)
(*                                                                         *)
(* A table is its version and what it says of the one request that all     *)
(* clients send: whether a route matches, whether the selected address is  *)
(* a valid authority, and what the route's URL rewrite makes of the path.  *)
(***************************************************************************)
EXTENDS Integers

CONSTANTS
  Conns,      \* client connections, one request at a time on each
  MaxStores,  \* bound on published tables
  MaxRequests \* bound on requests per connection

Planes == {"hyper", "monoio", "monoio_h2", "pingora"}

ASSUME DataPlaneAssumption ==
  MaxStores \in Nat /\ MaxRequests \in Nat

Rewrites == {"none", "valid", "invalid"}
Table == [version : Nat, routed : BOOLEAN, authority : BOOLEAN, rewrite : Rewrites]

VARIABLES
  plane,     \* the data plane that serves the connection
  table,     \* what `SharedRouteTable` holds
  pc,        \* the phase of the connection's current request
  requests,  \* requests that have arrived on the connection
  started,   \* version that was current when the request arrived
  peer,      \* version that chose the backend, or None
  request,   \* version whose filters the request went through, or None
  response,  \* version whose filters the response went through, or None
  answer     \* what the client was sent

vars == <<plane, table, pc, requests, started, peer, request, response, answer>>

None == -1
Answers == {"none", "ok", "404", "late404", "500", "502"}

Init ==
  /\ plane \in [Conns -> Planes]
  /\ table \in [version : {0}, routed : BOOLEAN, authority : BOOLEAN, rewrite : Rewrites]
  /\ pc = [c \in Conns |-> "idle"]
  /\ requests = [c \in Conns |-> 0]
  /\ started = [c \in Conns |-> 0]
  /\ peer = [c \in Conns |-> None]
  /\ request = [c \in Conns |-> None]
  /\ response = [c \in Conns |-> None]
  /\ answer = [c \in Conns |-> "none"]

\* `SharedRouteTable::store` and `store_arc`, called by the reconciler.
store ==
  /\ table.version < MaxStores
  /\ \E r, a \in BOOLEAN, w \in Rewrites :
       table' = [version |-> table.version + 1, routed |-> r, authority |-> a, rewrite |-> w]
  /\ UNCHANGED <<plane, pc, requests, started, peer, request, response, answer>>

\* A request arrives (external).
Arrive(c) ==
  /\ pc[c] = "idle"
  /\ requests[c] < MaxRequests
  /\ requests' = [requests EXCEPT ![c] = @ + 1]
  /\ pc' = [pc EXCEPT ![c] = "arrived"]
  /\ started' = [started EXCEPT ![c] = table.version]
  /\ peer' = [peer EXCEPT ![c] = None]
  /\ request' = [request EXCEPT ![c] = None]
  /\ response' = [response EXCEPT ![c] = None]
  /\ answer' = [answer EXCEPT ![c] = "none"]
  /\ UNCHANGED <<plane, table>>

Reply(c, a) ==
  /\ pc' = [pc EXCEPT ![c] = "idle"]
  /\ answer' = [answer EXCEPT ![c] = a]

\* The request goes out with the backend and the filters of one table.
Forward(c, t) ==
  /\ pc' = [pc EXCEPT ![c] = "forwarding"]
  /\ peer' = [peer EXCEPT ![c] = t.version]
  /\ request' = [request EXCEPT ![c] = t.version]
  /\ UNCHANGED <<response, answer>>

Refuse(c, a) == Reply(c, a) /\ UNCHANGED <<peer, request, response>>

-----------------------------------------------------------------------------
(* Hyper and Monoio: one lookup per request.                               *)

\* Hyper's `handle_request` up to the await of `forward`.
HyperRequest(c) ==
  /\ plane[c] = "hyper" /\ pc[c] = "arrived"
  /\ CASE ~table.routed -> Refuse(c, "404")
       [] table.routed /\ ~table.authority -> Refuse(c, "502")
       [] table.routed /\ table.authority /\ table.rewrite = "invalid" -> Refuse(c, "500")
       [] OTHER -> Forward(c, table)
  /\ UNCHANGED <<plane, table, requests, started>>

\* `handle` of http2.rs: an invalid rewrite falls back to "/".
MonoioH2Request(c) ==
  /\ plane[c] = "monoio_h2" /\ pc[c] = "arrived"
  /\ CASE ~table.routed -> Refuse(c, "404")
       [] table.routed /\ ~table.authority -> Refuse(c, "502")
       [] OTHER -> Forward(c, table)
  /\ UNCHANGED <<plane, table, requests, started>>

\* Mutant of HyperRespond: the response goes through the filters of the
\* table that is current when it arrives.
HyperRespondReloading(c) ==
  /\ plane[c] \in {"hyper", "monoio_h2"} /\ pc[c] = "forwarding"
  /\ Reply(c, "ok")
  /\ response' = [response EXCEPT ![c] = table.version]
  /\ UNCHANGED <<plane, table, requests, started, peer, request>>

\* The answer of `forward`: its headers go through the `filters` that were
\* cloned before the table was released; an error is a 502.
HyperRespond(c) ==
  /\ plane[c] \in {"hyper", "monoio_h2"} /\ pc[c] = "forwarding"
  /\ \/ /\ Reply(c, "ok")
        /\ response' = [response EXCEPT ![c] = request[c]]
     \/ /\ Reply(c, "502")
        /\ UNCHANGED response
  /\ UNCHANGED <<plane, table, requests, started, peer, request>>

\* Mutant of MonoioRequest: the table is loaded once per connection.
MonoioRequestCached(c) ==
  /\ plane[c] = "monoio" /\ pc[c] = "arrived"
  /\ IF table.routed
     THEN Forward(c, IF requests[c] > 1 THEN [table EXCEPT !.version = 0] ELSE table)
     ELSE Refuse(c, "404")
  /\ UNCHANGED <<plane, table, requests, started>>

\* `serve_connection` loads the table for every request of a connection.  A
\* rewritten target is not validated, and an address that cannot be dialled is
\* a failed connect.
MonoioRequest(c) ==
  /\ plane[c] = "monoio" /\ pc[c] = "arrived"
  /\ IF table.routed THEN Forward(c, table) ELSE Refuse(c, "404")
  /\ UNCHANGED <<plane, table, requests, started>>

\* `relay_response` applies no header filter.
MonoioRespond(c) ==
  /\ plane[c] = "monoio" /\ pc[c] = "forwarding"
  /\ \E a \in {"ok", "502"} : Reply(c, a)
  /\ UNCHANGED <<plane, table, requests, started, peer, request, response>>

-----------------------------------------------------------------------------
(* Pingora: a lookup in every phase.                                       *)

\* Mutant of request_filter: unmatched requests are left to upstream_peer.
RequestFilterPassing(c) ==
  /\ plane[c] = "pingora" /\ pc[c] = "arrived"
  /\ pc' = [pc EXCEPT ![c] = "filtered"]
  /\ UNCHANGED <<plane, answer, table, requests, started, peer, request, response>>

request_filter(c) ==
  /\ plane[c] = "pingora" /\ pc[c] = "arrived"
  /\ IF table.routed
     THEN pc' = [pc EXCEPT ![c] = "filtered"] /\ UNCHANGED answer
     ELSE Reply(c, "404")
  /\ UNCHANGED <<plane, table, requests, started, peer, request, response>>

\* `HttpPeer::new` panics when the address does not resolve (external): the
\* task of the connection is gone, and the client gets no answer.
upstream_peer(c) ==
  /\ plane[c] = "pingora" /\ pc[c] = "filtered"
  /\ IF table.routed
     THEN /\ \/ /\ pc' = [pc EXCEPT ![c] = "peered"]
                /\ peer' = [peer EXCEPT ![c] = table.version]
             \/ pc' = [pc EXCEPT ![c] = "lost"] /\ UNCHANGED peer
          /\ UNCHANGED answer
     ELSE Reply(c, "late404") /\ UNCHANGED peer
  /\ UNCHANGED <<plane, table, requests, started, request, response>>

\* Without a match the request goes out with no filter; a rewrite that is no
\* URI is logged and the path left as it is.
upstream_request_filter(c) ==
  /\ plane[c] = "pingora" /\ pc[c] = "peered"
  /\ pc' = [pc EXCEPT ![c] = "forwarding"]
  /\ request' = [request EXCEPT ![c] = IF table.routed THEN table.version ELSE None]
  /\ UNCHANGED <<plane, table, requests, started, peer, response, answer>>

response_filter(c) ==
  /\ plane[c] = "pingora" /\ pc[c] = "forwarding"
  /\ Reply(c, "ok")
  /\ response' = [response EXCEPT ![c] = IF table.routed THEN table.version ELSE None]
  /\ UNCHANGED <<plane, table, requests, started, peer, request>>

\* The upstream cannot be reached or breaks (Pingora's own answer, external).
PingoraFails(c) ==
  /\ plane[c] = "pingora" /\ pc[c] \in {"peered", "forwarding"}
  /\ Reply(c, "502")
  /\ UNCHANGED <<plane, table, requests, started, peer, request, response>>

-----------------------------------------------------------------------------
Next ==
  \/ store
  \/ \E c \in Conns :
       \/ Arrive(c)
       \/ HyperRequest(c) \/ MonoioH2Request(c) \/ HyperRespond(c)
       \/ MonoioRequest(c) \/ MonoioRespond(c)
       \/ request_filter(c) \/ upstream_peer(c)
       \/ upstream_request_filter(c) \/ response_filter(c) \/ PingoraFails(c)

Spec == Init /\ [][Next]_vars

-----------------------------------------------------------------------------
(* Properties.                                                             *)

Phases == {"idle", "arrived", "filtered", "peered", "forwarding", "lost"}
Versions == Nat \cup {None}

\* The types of the shared table and of what a request remembers of it; a
\* request that has gone on to an upstream has a backend.
TypeOK ==
  /\ plane \in [Conns -> Planes]
  /\ table \in Table
  /\ pc \in [Conns -> Phases]
  /\ requests \in [Conns -> Nat]
  /\ started \in [Conns -> Nat]
  /\ peer \in [Conns -> Versions]
  /\ request \in [Conns -> Versions]
  /\ response \in [Conns -> Versions]
  /\ answer \in [Conns -> Answers]
  /\ \A c \in Conns : pc[c] \in {"peered", "forwarding"} => peer[c] # None

\* No part of a request is decided by a table that had been replaced when the
\* request arrived, on a connection kept alive across `store` in particular.
NoStaleTable ==
  \A c \in Conns : \A v \in {peer[c], request[c], response[c]} : v # None => v >= started[c]

\* Hyper and Monoio: backend and filters of a request come from one table,
\* whatever is stored while the upstream answers ("Readers in flight finish on
\* the old one", route_table.rs:178).
OneTable ==
  \A c \in Conns : plane[c] # "pingora" =>
    /\ peer[c] = request[c]
    /\ response[c] # None => response[c] = peer[c]

\* Pingora: a request that matched in `request_filter` and no longer does in a
\* later phase met a table stored in between ("only reachable if the table
\* changed mid-request", proxy_service.rs:157).
LateMissMeansChange ==
  \A c \in Conns : plane[c] = "pingora" =>
    \/ table.version > started[c]
    \/ /\ answer[c] # "late404"
       /\ pc[c] = "forwarding" => request[c] # None
       /\ answer[c] = "ok" => response[c] # None

=============================================================================
