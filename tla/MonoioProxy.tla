---------------------------- MODULE MonoioProxy ----------------------------
(***************************************************************************)
(* One worker of the Monoio data plane (crates/proxy-monoio/src/server.rs, *)
(* `serve_connection`): a task per downstream connection reads requests,   *)
(* forwards each one on an upstream connection taken from the worker's     *)
(* pool or newly dialled, and relays the response.  Tasks interleave at    *)
(* their awaits; every action below is the code between two of them.       *)
(*                                                                         *)
(* A byte stream is a sequence of parts: a head, the data of a body, and   *)
(* the two halves of the zero-length chunk that ends a chunked body.  A    *)
(* data part "mark" contains the bytes of that chunk as payload.  A read   *)
(* returns any non-empty prefix of what has arrived, heads arrive whole.   *)
(* All requests go to one upstream address.  Clients and servers are       *)
(* external.                                                               *)
(***************************************************************************)
EXTENDS Integers, Sequences, FiniteSets

CONSTANTS
  Conns,           \* downstream connections
  Scripts,         \* what a client may send: sequences of request messages
  Responses,       \* what a server may answer: response messages
  Pipelining,      \* whether clients send without waiting for responses
  Streams,         \* upstream connections that may be open at once
  NoStream,
  MaxIdlePerHost,  \* MAX_IDLE_PER_HOST
  MaxRequests,     \* MAX_REQUESTS_PER_CONNECTION
  MaxFailures      \* bound on connections that break and connects that fail

\* A message head as the parsers see it: `kind` of a request, `bodyless` of a
\* response (HEAD, 204, 304, 1xx), the length is -1 when there is no
\* Content-Length, and the parts of the body that follows.  A response that is
\* `interim` is preceded by a 1xx one.
Kinds == {"h1", "h2", "bad", "big", "unrouted"}
PartTypes == {"data", "mark", "end1", "end2"}
IsMessage(m) ==
  /\ m.chunked \in BOOLEAN /\ m.close \in BOOLEAN
  /\ m.length \in Int /\ m.length >= -1
  /\ \A k \in 1..Len(m.parts) : m.parts[k] \in PartTypes

ASSUME MonoioAssumption ==
  /\ NoStream \notin Streams
  /\ Cardinality(Streams) >= Cardinality(Conns)
  /\ Pipelining \in BOOLEAN
  /\ MaxIdlePerHost \in Nat /\ MaxRequests \in Nat /\ MaxFailures \in Nat
  /\ \A s \in Scripts : \A k \in 1..Len(s) : IsMessage(s[k]) /\ s[k].kind \in Kinds
  /\ \A r \in Responses :
       IsMessage(r) /\ r.bodyless \in BOOLEAN /\ r.interim \in BOOLEAN /\ r.kind \in {"h1", "bad"}

VARIABLES
  script,     \* the requests the client sends
  sent,       \* how many of them it has sent
  gone,       \* the client has closed its connection
  wire,       \* parts sent by the client and not yet read
  got,        \* parts the client has received
  pc,         \* where the connection's task waits
  buf,        \* `read_buf[..filled]`
  served,
  req,        \* `head` of the request being served
  up,         \* `upstream`
  remaining,  \* what is left of a body of fixed length
  resp,       \* `head` of the response being relayed
  net,        \* an upstream connection is "free", "open", "closed" by the
              \* server after a response, or "reset" by a failure
  sentTo,     \* parts written to it that the server has not consumed
  outbound,   \* parts the server has written that are not yet read
  pool,       \* idle upstream connections, the most recent one last
  failures

clientVars == <<script, sent, gone>>
taskVars == <<pc, buf, served, req, up, remaining, resp>>
netVars == <<net, sentTo, outbound>>
vars == <<clientVars, wire, got, taskVars, netVars, pool, failures>>

NoHead == [t |-> "none"]
HeadOf(m, c, i) == [t |-> "head", c |-> c, i |-> i, m |-> m]
Body(m, c, i) == [k \in 1..Len(m.parts) |-> [t |-> m.parts[k], c |-> c, i |-> i]]
Message(m, c, i) == <<HeadOf(m, c, i)>> \o Body(m, c, i)

FirstOf(s, n) == SubSeq(s, 1, n)
After(s, n) == SubSeq(s, n + 1, Len(s))
Lesser(a, b) == IF a < b THEN a ELSE b

\* `parse_request` and `parse_response`: how the body is framed.
parse_request(m) ==
  CASE m.chunked -> "Chunked"
    [] ~m.chunked /\ m.length <= 0 -> "Empty"
    [] ~m.chunked /\ m.length > 0 -> "Fixed"

parse_response(m) ==
  CASE m.bodyless -> "Empty"
    [] ~m.bodyless /\ m.chunked -> "Chunked"
    [] ~m.bodyless /\ ~m.chunked /\ m.length = 0 -> "Empty"
    [] ~m.bodyless /\ ~m.chunked /\ m.length > 0 -> "Fixed"
    [] ~m.bodyless /\ ~m.chunked /\ m.length < 0 -> "UntilClose"

\* `relay_chunked` searches the bytes of one read for the terminator.
SawTerminator(s) ==
  \/ \E k \in 1..Len(s) : s[k].t = "mark"
  \/ \E k \in 1..(Len(s) - 1) : s[k].t = "end1" /\ s[k + 1].t = "end2"

Init ==
  /\ script \in [Conns -> Scripts]
  /\ sent = [c \in Conns |-> 0]
  /\ gone = [c \in Conns |-> FALSE]
  /\ wire = [c \in Conns |-> <<>>]
  /\ got = [c \in Conns |-> <<>>]
  /\ pc = [c \in Conns |-> "head"]
  /\ buf = [c \in Conns |-> <<>>]
  /\ served = [c \in Conns |-> 0]
  /\ req = [c \in Conns |-> NoHead]
  /\ up = [c \in Conns |-> NoStream]
  /\ remaining = [c \in Conns |-> 0]
  /\ resp = [c \in Conns |-> NoHead]
  /\ net = [u \in Streams |-> "free"]
  /\ sentTo = [u \in Streams |-> <<>>]
  /\ outbound = [u \in Streams |-> <<>>]
  /\ pool = <<>>
  /\ failures = 0

-----------------------------------------------------------------------------
(* Clients and servers (external).                                         *)

\* The client has received the whole response to its request i.
Complete(c, i) ==
  LET r == SelectSeq(got[c], LAMBDA p : p.i = i)
  IN  /\ r # <<>>
      /\ \/ r[1].t = "error"
         \/ r[1].t = "head" /\ r = Message(r[1].m, c, i)

SendRequest(c) ==
  /\ ~gone[c] /\ pc[c] # "closed"
  /\ sent[c] < Len(script[c])
  /\ Pipelining \/ \A i \in 1..sent[c] : Complete(c, i)
  /\ sent' = [sent EXCEPT ![c] = @ + 1]
  /\ wire' = [wire EXCEPT ![c] = @ \o Message(script[c][sent[c] + 1], c, sent[c] + 1)]
  /\ UNCHANGED <<script, gone, got, taskVars, netVars, pool, failures>>

\* The client goes away, perhaps in the middle of a request.
ClientCloses(c) ==
  /\ ~gone[c] /\ pc[c] # "closed"
  /\ failures < MaxFailures
  /\ failures' = failures + 1
  /\ gone' = [gone EXCEPT ![c] = TRUE]
  /\ \E n \in 0..Len(wire[c]) : wire' = [wire EXCEPT ![c] = FirstOf(@, n)]
  /\ UNCHANGED <<script, sent, got, taskVars, netVars, pool>>

\* The 1xx response that a server sends ahead of r.
Interim(r) == [r EXCEPT !.bodyless = TRUE, !.parts = <<>>, !.close = FALSE, !.kind = "h1"]

\* A server answers a request it has received in full, and closes the
\* connection when it says so or when only that can end the body.
ServerAnswers(u) ==
  /\ net[u] = "open" /\ sentTo[u] # <<>>
  /\ LET h == Head(sentTo[u])
         n == 1 + Len(h.m.parts)
     IN  /\ h.t = "head"
         /\ Len(sentTo[u]) >= n
         /\ \E r \in Responses :
              /\ outbound' = [outbound EXCEPT ![u] = @
                    \o (IF r.interim THEN Message(Interim(r), h.c, h.i) ELSE <<>>)
                    \o Message(r, h.c, h.i)]
              /\ net' = IF r.close \/ parse_response(r) = "UntilClose"
                         THEN [net EXCEPT ![u] = "closed"] ELSE net
         /\ sentTo' = [sentTo EXCEPT ![u] = After(@, n)]
  /\ UNCHANGED <<clientVars, wire, got, taskVars, pool, failures>>

\* An upstream connection breaks, and what was on its way may be lost.
ServerFails(u) ==
  /\ net[u] = "open"
  /\ failures < MaxFailures
  /\ failures' = failures + 1
  /\ net' = [net EXCEPT ![u] = "reset"]
  /\ sentTo' = [sentTo EXCEPT ![u] = <<>>]
  /\ \E n \in 0..Len(outbound[u]) : outbound' = [outbound EXCEPT ![u] = FirstOf(@, n)]
  /\ UNCHANGED <<clientVars, wire, got, taskVars, pool>>

-----------------------------------------------------------------------------
(* Reading and dispatching a request.                                      *)

\* Streams that are dropped are closed; their names can be used again.
DropStreams(us) ==
  /\ net' = [u \in Streams |-> IF u \in us THEN "free" ELSE net[u]]
  /\ sentTo' = [u \in Streams |-> IF u \in us THEN <<>> ELSE sentTo[u]]
  /\ outbound' = [u \in Streams |-> IF u \in us THEN <<>> ELSE outbound[u]]

\* The task returns; the downstream connection is closed with it.
CloseTask(c) ==
  /\ pc' = [pc EXCEPT ![c] = "closed"]
  /\ up' = [up EXCEPT ![c] = NoStream]
  /\ remaining' = [remaining EXCEPT ![c] = 0]
  /\ resp' = [resp EXCEPT ![c] = NoHead]

\* `error_response`: the proxy's own answer, after which it closes.
ErrorResponse(c, i) ==
  /\ got' = [got EXCEPT ![c] = Append(@, [t |-> "error", c |-> c, i |-> i])]
  /\ CloseTask(c)

ReadRequest(c) ==
  /\ pc[c] = "head" /\ buf[c] = <<>>
  /\ \E n \in 1..Len(wire[c]) :
       /\ buf' = [buf EXCEPT ![c] = FirstOf(wire[c], n)]
       /\ wire' = [wire EXCEPT ![c] = After(@, n)]
  /\ UNCHANGED <<clientVars, got, pc, served, req, up, remaining, resp, netVars, pool, failures>>

ReadEof(c) ==
  /\ pc[c] = "head" /\ buf[c] = <<>>
  /\ gone[c] /\ wire[c] = <<>>
  /\ CloseTask(c)
  /\ UNCHANGED <<clientVars, wire, got, buf, served, req, netVars, pool, failures>>

\* A connection that starts with the HTTP/2 preface is handed to http2.rs.
HandOver(c) ==
  /\ pc[c] = "head" /\ buf[c] # <<>>
  /\ served[c] = 0
  /\ Head(buf[c]).t = "head" /\ Head(buf[c]).m.kind = "h2"
  /\ pc' = [pc EXCEPT ![c] = "h2"]
  /\ UNCHANGED <<clientVars, wire, got, buf, served, req, up, remaining, resp, netVars, pool, failures>>

\* 400 and 431: what is in the buffer is no request head.
Refuse(c) ==
  /\ pc[c] = "head" /\ buf[c] # <<>>
  /\ LET h == Head(buf[c])
     IN  /\ \/ h.t # "head"
            \/ h.t = "head" /\ h.m.kind \in {"bad", "big"}
            \/ h.t = "head" /\ h.m.kind = "h2" /\ served[c] > 0
         /\ ErrorResponse(c, h.i)
  /\ UNCHANGED <<clientVars, wire, buf, served, req, netVars, pool, failures>>

\* 404: no route.
NotFound(c) ==
  /\ pc[c] = "head" /\ buf[c] # <<>>
  /\ Head(buf[c]).t = "head" /\ Head(buf[c]).m.kind = "unrouted"
  /\ served' = [served EXCEPT ![c] = @ + 1]
  /\ req' = [req EXCEPT ![c] = Head(buf[c])]
  /\ ErrorResponse(c, Head(buf[c]).i)
  /\ UNCHANGED <<clientVars, wire, buf, netVars, pool, failures>>


\* `acquire_upstream`: the most recently parked connection, unless every
\* parked one has passed the idle age and is dropped.
TakeIdle(c) ==
  \/ /\ pool # <<>>
     /\ up' = [up EXCEPT ![c] = pool[Len(pool)]]
     /\ pool' = FirstOf(pool, Len(pool) - 1)
     /\ pc' = [pc EXCEPT ![c] = "send"]
     /\ UNCHANGED netVars
  \/ /\ DropStreams({pool[k] : k \in 1..Len(pool)})
     /\ pool' = <<>>
     /\ pc' = [pc EXCEPT ![c] = "connect"]
     /\ UNCHANGED up

Dispatch(c) ==
  /\ pc[c] = "head" /\ buf[c] # <<>>
  /\ Head(buf[c]).t = "head" /\ Head(buf[c]).m.kind = "h1"
  /\ served' = [served EXCEPT ![c] = @ + 1]
  /\ req' = [req EXCEPT ![c] = Head(buf[c])]
  /\ buf' = [buf EXCEPT ![c] = Tail(@)]
  /\ TakeIdle(c)
  /\ UNCHANGED <<clientVars, wire, got, remaining, resp, failures>>

Connect(c) ==
  /\ pc[c] = "connect"
  /\ \E u \in Streams :
       /\ net[u] = "free"
       /\ net' = [net EXCEPT ![u] = "open"]
       /\ up' = [up EXCEPT ![c] = u]
  /\ pc' = [pc EXCEPT ![c] = "send"]
  /\ UNCHANGED <<clientVars, wire, got, buf, served, req, remaining, resp, sentTo, outbound, pool, failures>>

\* 502: the upstream cannot be reached.
ConnectFails(c) ==
  /\ pc[c] = "connect"
  /\ failures < MaxFailures
  /\ failures' = failures + 1
  /\ ErrorResponse(c, req[c].i)
  /\ UNCHANGED <<clientVars, wire, buf, served, req, netVars, pool>>

-----------------------------------------------------------------------------
(* Forwarding the request.                                                 *)

\* Mutant of body_prefix_len: everything that is buffered is taken for the body.
BodyPrefixUncapped(framing, m, available) == IF framing = "Empty" THEN 0 ELSE available

\* How many of the parts that follow a head in the buffer belong to its body.
body_prefix_len(framing, m, available) ==
  CASE framing = "Empty" -> 0
    [] framing = "Fixed" -> Lesser(m.length, available)
    [] framing \in {"Chunked", "UntilClose"} -> available

\* A write to a connection that the server has left is lost, or fails (IoError).
Write(u, parts) ==
  sentTo' = [sentTo EXCEPT ![u] = IF net[u] = "open" THEN @ \o parts ELSE @]

Send(c) ==
  LET m == req[c].m
      framing == parse_request(m)
      already == body_prefix_len(framing, m, Len(buf[c]))
      left == IF framing = "Fixed" THEN m.length - already ELSE 0
  IN  /\ pc[c] = "send"
      /\ Write(up[c], <<req[c]>> \o FirstOf(buf[c], already))
      /\ buf' = [buf EXCEPT ![c] = After(@, already)]
      /\ remaining' = [remaining EXCEPT ![c] = left]
      /\ pc' = [pc EXCEPT ![c] = IF framing = "Chunked" \/ left > 0 THEN "reqbody" ELSE "resphead"]
      /\ UNCHANGED <<clientVars, wire, got, served, req, up, resp, net, outbound, pool, failures>>

\* `relay_exact` and `relay_chunked`, from the client to the upstream.
RelayRequest(c) ==
  /\ pc[c] = "reqbody"
  /\ \E n \in 1..Len(wire[c]) :
       LET parts == FirstOf(wire[c], n)
           fixed == parse_request(req[c].m) = "Fixed"
           done == IF fixed THEN n = remaining[c] ELSE SawTerminator(parts)
       IN  /\ fixed => n <= remaining[c]
           /\ Write(up[c], parts)
           /\ wire' = [wire EXCEPT ![c] = After(@, n)]
           /\ remaining' = [remaining EXCEPT ![c] = IF fixed THEN @ - n ELSE @]
           /\ pc' = [pc EXCEPT ![c] = IF done THEN "resphead" ELSE @]
  /\ UNCHANGED <<clientVars, got, buf, served, req, up, resp, net, outbound, pool, failures>>

\* Mutant of Abandon: the upstream connection is parked all the same.
AbandonParking(c) ==
  /\ CloseTask(c)
  /\ pool' = Append(pool, up[c])
  /\ UNCHANGED <<clientVars, wire, got, buf, served, req, netVars, failures>>

\* The upstream connection is dropped, never parked, and the client's closed.
Abandon(c) ==
  /\ DropStreams({up[c]})
  /\ CloseTask(c)
  /\ UNCHANGED <<clientVars, wire, got, buf, served, req, pool, failures>>

\* Mutant of RequestEof: the end of the stream is not noticed within a body of
\* known length.
RequestEofUnnoticed(c) ==
  /\ pc[c] = "reqbody"
  /\ gone[c] /\ wire[c] = <<>>
  /\ parse_request(req[c].m) = "Chunked"
  /\ pc' = [pc EXCEPT ![c] = "resphead"]
  /\ UNCHANGED <<clientVars, wire, got, buf, served, req, up, remaining, resp, netVars, pool, failures>>

\* The client closes within a body: an error if its length is known, the end
\* of the body if it is chunked.
RequestEof(c) ==
  /\ pc[c] = "reqbody"
  /\ gone[c] /\ wire[c] = <<>>
  /\ \/ /\ parse_request(req[c].m) = "Fixed"
        /\ Abandon(c)
     \/ /\ parse_request(req[c].m) = "Chunked"
        /\ pc' = [pc EXCEPT ![c] = "resphead"]
        /\ UNCHANGED <<clientVars, wire, got, buf, served, req, up, remaining, resp, netVars, pool, failures>>

\* A read or a write fails and `?` returns from `serve_connection`.
IoError(c) ==
  /\ \/ /\ pc[c] \in {"send", "reqbody", "resphead", "respbody"}
        /\ net[up[c]] = "reset"
     \/ pc[c] = "reqbody" /\ gone[c]
     \/ pc[c] \in {"resphead", "respbody"} /\ gone[c] /\ outbound[up[c]] # <<>>
  /\ Abandon(c)

-----------------------------------------------------------------------------
(* Relaying the response.                                                  *)

\* Mutant of upstream_reusable: `Connection: close` is not looked at.
ReusableThoughClosing(h) == parse_response(h.m) # "UntilClose"

\* Whether the connection may serve another request.
upstream_reusable(h) == ~h.m.close /\ parse_response(h.m) # "UntilClose"

\* The response is done: the upstream connection is parked if it is reusable
\* and there is room, and the task goes on to the next request or returns.
Finish(c, h, n) ==
  LET u == up[c]
      keep_alive == ~req[c].m.close /\ served[c] < MaxRequests
      downstream_keep == keep_alive /\ parse_response(h.m) # "UntilClose"
      park == upstream_reusable(h) /\ Len(pool) < MaxIdlePerHost
  IN  /\ IF park
         THEN /\ pool' = Append(pool, u)
              /\ outbound' = [outbound EXCEPT ![u] = After(@, n)]
              /\ UNCHANGED <<net, sentTo>>
         ELSE /\ DropStreams({u})
              /\ UNCHANGED pool
      /\ pc' = [pc EXCEPT ![c] = IF downstream_keep THEN "head" ELSE "closed"]
      /\ up' = [up EXCEPT ![c] = NoStream]
      /\ remaining' = [remaining EXCEPT ![c] = 0]
      /\ resp' = [resp EXCEPT ![c] = NoHead]

\* How much of the n parts that came with the head is relayed with it.
ResponseBody(h, n) ==
  CASE parse_response(h.m) = "Empty" -> 0
    [] parse_response(h.m) = "Fixed" -> Lesser(n, h.m.length)
    [] parse_response(h.m) \in {"Chunked", "UntilClose"} -> n

\* Mutant of Outstanding: the whole body is taken to have come with the head.
OutstandingInOneRead(h, n) == 0

\* What is left of a body of known length.
Outstanding(h, n) == IF parse_response(h.m) = "Fixed" THEN h.m.length - n ELSE 0

\* The upstream connection stays with the task, which waits for more.
KeepRelaying(c, h, n, left) ==
  /\ outbound' = [outbound EXCEPT ![up[c]] = After(@, n)]
  /\ pc' = [pc EXCEPT ![c] = "respbody"]
  /\ resp' = [resp EXCEPT ![c] = h]
  /\ remaining' = [remaining EXCEPT ![c] = left]
  /\ UNCHANGED <<up, net, sentTo, pool>>

RelayHead(c) ==
  /\ pc[c] = "resphead"
  /\ \E n \in 1..Len(outbound[up[c]]) :
       LET parts == FirstOf(outbound[up[c]], n)
           h == parts[1]
           body == ResponseBody(h, n - 1)
           left == Outstanding(h, body)
       IN  /\ h.t = "head" /\ h.m.kind = "h1"
           /\ got' = [got EXCEPT ![c] = @ \o FirstOf(parts, 1 + body)]
           /\ IF parse_response(h.m) = "Empty" \/ (parse_response(h.m) = "Fixed" /\ left = 0)
              THEN Finish(c, h, n)
              ELSE KeepRelaying(c, h, n, left)
  /\ UNCHANGED <<clientVars, wire, buf, served, req, failures>>

\* 502: the upstream's answer is malformed.
BadGateway(c) ==
  /\ pc[c] = "resphead"
  /\ outbound[up[c]] # <<>>
  /\ LET h == Head(outbound[up[c]]) IN h.t = "head" => h.m.kind = "bad"
  /\ ErrorResponse(c, req[c].i)
  /\ DropStreams({up[c]})
  /\ UNCHANGED <<clientVars, wire, buf, served, req, pool, failures>>

\* `relay_exact`, `relay_chunked` and `relay_until_close`, to the client.
RelayBody(c) ==
  /\ pc[c] = "respbody"
  /\ \E n \in 1..Len(outbound[up[c]]) :
       LET parts == FirstOf(outbound[up[c]], n)
           h == resp[c]
           framing == parse_response(h.m)
           left == IF framing = "Fixed" THEN remaining[c] - n ELSE 0
       IN  /\ framing = "Fixed" => n <= remaining[c]
           /\ got' = [got EXCEPT ![c] = @ \o parts]
           /\ IF \/ framing = "Fixed" /\ left = 0
                 \/ framing = "Chunked" /\ SawTerminator(parts)
              THEN Finish(c, h, n)
              ELSE KeepRelaying(c, h, n, left)
  /\ UNCHANGED <<clientVars, wire, buf, served, req, failures>>

\* Mutant of UpstreamEof: the end of the stream ends a body of known length.
UpstreamEofEndsBody(c) ==
  /\ pc[c] \in {"resphead", "respbody"}
  /\ outbound[up[c]] = <<>> /\ net[up[c]] \in {"closed", "reset"}
  /\ \/ pc[c] = "resphead" /\ Abandon(c)
     \/ /\ pc[c] = "respbody"
        /\ Finish(c, resp[c], 0)
        /\ UNCHANGED <<clientVars, wire, got, buf, served, req, failures>>

\* The upstream closes: within a head or a body of known length the client's
\* connection closes too; otherwise it is the end of the body.
UpstreamEof(c) ==
  /\ pc[c] \in {"resphead", "respbody"}
  /\ outbound[up[c]] = <<>> /\ net[up[c]] \in {"closed", "reset"}
  /\ \/ /\ pc[c] = "respbody" => parse_response(resp[c].m) = "Fixed"
        /\ Abandon(c)
     \/ /\ pc[c] = "respbody" /\ parse_response(resp[c].m) # "Fixed"
        /\ Finish(c, resp[c], 0)
        /\ UNCHANGED <<clientVars, wire, got, buf, served, req, failures>>

-----------------------------------------------------------------------------
Task(c) ==
  \/ ReadRequest(c) \/ ReadEof(c) \/ HandOver(c) \/ Refuse(c) \/ NotFound(c)
  \/ Dispatch(c) \/ Connect(c) \/ Send(c) \/ RelayRequest(c) \/ RequestEof(c)
  \/ RelayHead(c) \/ BadGateway(c) \/ RelayBody(c) \/ UpstreamEof(c)

Next ==
  \/ \E c \in Conns :
       \/ SendRequest(c) \/ ClientCloses(c)
       \/ ConnectFails(c) \/ IoError(c)
       \/ Task(c)
  \/ \E u \in Streams : ServerAnswers(u) \/ ServerFails(u)

Spec == Init /\ [][Next]_vars

\* The runtime polls every task whose read, write or connect can complete, and
\* servers answer the requests they have received in full.
Fairness ==
  /\ \A c \in Conns : WF_vars(Task(c))
  /\ \A u \in Streams : WF_vars(ServerAnswers(u))

FairSpec == Spec /\ Fairness

-----------------------------------------------------------------------------
(* Properties.                                                             *)

\* Each task holds at most the upstream connection it is using, idle ones are
\* distinct, within the pool's capacity and held by no task, and a connection
\* nobody holds is not open: what `acquire_upstream` and `pool.put` hand over
\* is never leaked or shared.
TypeOK ==
  /\ \A c \in Conns :
       /\ pc[c] \in {"head", "connect", "send", "reqbody", "resphead", "respbody", "closed", "h2"}
       /\ served[c] \in 0..MaxRequests
       /\ remaining[c] \in Nat
       /\ up[c] \in Streams <=> pc[c] \in {"send", "reqbody", "resphead", "respbody"}
  /\ \A u \in Streams :
       LET owners == {c \in Conns : up[c] = u}
           slots == {k \in 1..Len(pool) : pool[k] = u}
       IN  Cardinality(owners) + Cardinality(slots) = IF net[u] = "free" THEN 0 ELSE 1
  /\ Len(pool) <= MaxIdlePerHost

\* What a server sees on a connection is one request, from its head on and in
\* order: the buffered bytes of a pipelined request are never forwarded as part
\* of the body of the one before it, and two tasks never write to the same
\* connection (`serve_connection`, "Anything still buffered belongs to the
\* *next* pipelined request").
RequestsWhole ==
  \A u \in Streams :
    sentTo[u] # <<>> =>
      LET h == Head(sentTo[u])
      IN  /\ h.t = "head"
          /\ Len(sentTo[u]) <= 1 + Len(h.m.parts)
          /\ sentTo[u] = FirstOf(Message(h.m, h.c, h.i), Len(sentTo[u]))

\* What makes `relay_response` take a response for finished too early: an
\* interim one for the final one (http1.rs:209), or payload that looks like
\* the last chunk (server.rs:532).
Misleading(p) == p.t = "mark" \/ (p.t = "head" /\ p.m.interim)
NotMisled == \A c \in Conns : \A k \in 1..Len(got[c]) : ~Misleading(got[c][k])

\* A parked connection is quiet: no request of an earlier user is waiting for
\* the server and no byte of an earlier response is waiting to be read as the
\* head of the next one (`upstream_reusable` in `relay_response`), whatever the
\* framing and whoever broke off, until a server has sent something misleading.
PoolClean ==
  NotMisled =>
    \A k \in 1..Len(pool) : sentTo[pool[k]] = <<>> /\ outbound[pool[k]] = <<>>

\* A client receives answers to its own requests only, in the order in which it
\* sent them, and the proxy's own error answer is the last thing it receives;
\* what is left of a misleading response may go to another client.
ResponsesInOrder ==
  NotMisled =>
    \A c \in Conns : \A k \in 1..Len(got[c]) :
      /\ got[c][k].c = c
      /\ k < Len(got[c]) => got[c][k].i <= got[c][k + 1].i /\ got[c][k].t # "error"

\* A connection is kept alive only after a response that reached the client as
\* a whole: "relays bodies of any length with correct framing" (server.rs:16).
\* It holds of responses that have a length or end with the connection.
KeptAliveWhole ==
  \A c \in Conns : pc[c] = "head" /\ served[c] > 0 => Complete(c, req[c].i)

\* As long as no peer has failed, a connection is closed only after its last
\* request was answered in full: a parked connection is never one that the
\* server has announced it will close.
ClosedAnswered ==
  failures = 0 =>
    \A c \in Conns : pc[c] = "closed" /\ served[c] > 0 => Complete(c, req[c].i)

\* Inside a chunked body, whose end `relay_chunked` may miss.
WithinChunked(c) ==
  \/ pc[c] \in {"reqbody", "resphead"} /\ parse_request(req[c].m) = "Chunked"
  \/ pc[c] = "respbody" /\ parse_response(resp[c].m) = "Chunked"

\* Every request that the proxy has accepted comes to an end, whatever peers
\* break in between: it is answered or its connection is closed.  Only a
\* chunked body can keep it waiting.
EveryRequestEnds ==
  \A c \in Conns :
    pc[c] # "head" ~> (pc[c] \in {"head", "closed", "h2"} \/ WithinChunked(c))

=============================================================================
