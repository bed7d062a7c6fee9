------------------------- MODULE ProxyServerProofs -------------------------
(***************************************************************************)
(* For any number of workers, connections, requests and published tables:  *)
(* a proxy process is a data plane, so that what is proved of DataPlane    *)
(* holds of it, and Monoio's hand-over of a connection to the server of    *)
(* its protocol neither loses nor repeats a byte.                          *)
(***************************************************************************)
EXTENDS ProxyServer, DataPlaneProofs, SequenceTheorems

-----------------------------------------------------------------------------
(* The process is a data plane.                                            *)

\* Every step of the process is a step of DataPlane or leaves its variables alone: `main`, the
\* signals and the accept loops touch no table and no request.
LEMMA ServerStep == [ServerNext]_serverVars => [Next]_vars
<1> SUFFICES ASSUME [ServerNext]_serverVars PROVE Next \/ UNCHANGED vars
  BY Zenon
<1>1. CASE HyperMain \/ MonoioMain \/ PingoraMain
  BY <1>1, Zenon DEF HyperMain, MonoioMain, PingoraMain, Start, Exit
<1>2. CASE HyperSpawn \/ MonoioSpawn \/ run_server \/ Join
  BY <1>2, Zenon DEF HyperSpawn, MonoioSpawn, run_server, Join, Spawn, Exit
<1>3. CASE InstallHandler \/ Sigint \/ Sigterm \/ SendShutdown
  BY <1>3, Zenon DEF InstallHandler, Sigint, Sigterm, SendShutdown, Exit
<1>4. ASSUME NEW w \in Workers, run_worker(w) \/ Changed(w) PROVE UNCHANGED vars
  BY <1>4, Zenon DEF run_worker, Changed, Return
<1>5. ASSUME NEW c \in Conns,
             Connect(c) \/ Accept(c) \/ Close(c) \/ Sniff(c) \/ ParseHead(c) \/ ReadPreface(c)
      PROVE  UNCHANGED vars
  BY <1>5, Zenon DEF Connect, Accept, Close, Sniff, ParseHead, ReadPreface
<1>6. CASE Reconcile
  BY <1>6, Zenon DEF Reconcile, Next
<1>7. ASSUME NEW c \in Conns, Serve(c) PROVE Next
  BY <1>7, Zenon DEF Serve, Next
<1>8. CASE UNCHANGED serverVars
  BY <1>8, Zenon DEF serverVars
<1> QED
  BY <1>1, <1>2, <1>3, <1>4, <1>5, <1>6, <1>7, <1>8, Zenon DEF ServerNext

\* A proxy process, whichever of the three candidates it runs and however it starts, is told to
\* stop or dies, implements DataPlane.
THEOREM ServerIsADataPlane == ServerSpec => Spec
<1>1. ServerInit => Init
  BY Zenon DEF ServerInit
<1> QED
  BY <1>1, ServerStep, PTL DEF ServerSpec, Spec

\* No process serves a request from a table that was replaced before the request arrived.
THEOREM ServerTablesAreFresh == ServerSpec => []NoStaleTable
  BY ServerIsADataPlane, TablesAreFresh, PTL

\* A Hyper or Monoio process serves a request from a single table.
THEOREM ServerOneTable == ServerSpec => []OneTable
  BY ServerIsADataPlane, OneTablePerRequest, PTL

\* A Pingora process misses a route late only if the table changed under the request.
THEOREM ServerLateMisses == ServerSpec => []LateMissMeansChange
  BY ServerIsADataPlane, LateMissesAreChanges, PTL

-----------------------------------------------------------------------------
(* The hand-over.                                                          *)

\* The bytes that clients open with.
Byte == UNION {{h[i] : i \in 1 .. Len(h)} : h \in Heads \cup {Preface \o <<"frame">>}}

(***************************************************************************)
(* HandOverIsFaithful alone is not inductive: it takes that nothing has    *)
(* been delivered or buffered for replay while the protocol is unknown,    *)
(* that what is replayed is the beginning of the client's stream, and that *)
(* the socket is not read before all of it has been replayed.              *)
(***************************************************************************)
ConnInv(c) ==
  /\ stream[c] \in Opening(plane[c])
  /\ filled[c] \in 0 .. Len(stream[c])
  /\ Len(delivered[c]) \in 0 .. Len(stream[c])
  /\ delivered[c] = SubSeq(stream[c], 1, Len(delivered[c]))
  /\ conn[c] \in {"new", "queued", "sniffing", "h1"} =>
       delivered[c] = <<>> /\ prefix[c] = <<>> /\ position[c] = 0
  /\ conn[c] \in {"sniffing", "h1", "h2"} => kind = "monoio"
  /\ conn[c] = "h1" => plane[c] = "monoio"
  /\ conn[c] = "h2" =>
       /\ plane[c] = "monoio_h2"
       /\ Len(prefix[c]) \in 0 .. filled[c]
       /\ prefix[c] = SubSeq(stream[c], 1, Len(prefix[c]))
       /\ position[c] \in 0 .. Len(prefix[c])
       /\ Len(delivered[c]) + Len(prefix[c]) - position[c] = filled[c]
       /\ position[c] < Len(prefix[c]) => filled[c] = Len(prefix[c])

BytesInv ==
  /\ plane \in [Conns -> PlanesOf(kind)]
  /\ DOMAIN conn = Conns /\ DOMAIN filled = Conns /\ DOMAIN prefix = Conns
  /\ DOMAIN position = Conns /\ DOMAIN delivered = Conns
  /\ \A c \in Conns : ConnInv(c)

\* What a client opens with is a sequence of bytes.
LEMMA OpeningType ==
  ASSUME NEW p, NEW s \in Opening(p) PROVE s \in Seq(Byte)
<1>1. /\ \A h \in Heads : h \in Seq({h[i] : i \in 1 .. Len(h)})
      /\ Preface \in Seq({Preface[i] : i \in 1 .. Len(Preface)})
  BY ProxyServerAssumption, Zenon DEF IsSequence
<1>2. CASE s \in Heads
  <2>1. {s[i] : i \in 1 .. Len(s)} \subseteq Byte
    BY <1>2, Zenon DEF Byte
  <2> QED
    BY <1>1, <1>2, <2>1, SeqMonotonic, Zenon
<1>3. CASE s = Preface \o <<"frame">>
  <2> DEFINE P == {Preface[i] : i \in 1 .. Len(Preface)} \cup {"frame"}
  <2>1. Preface \in Seq(P)
    BY <1>1, SeqMonotonic, Zenon
  <2>2. <<"frame">> \in Seq(P)
    OBVIOUS
  <2> HIDE DEF P
  <2>3. s \in Seq(P)
    BY <1>3, <2>1, <2>2, ConcatProperties, Zenon
  <2>4. Len(s) \in Nat /\ s = [i \in 1 .. Len(s) |-> s[i]]
    BY <2>3, LenProperties, Zenon
  <2>5. \A i \in 1 .. Len(s) : s[i] \in Byte
    BY <1>3 DEF Byte
  <2> QED
    BY <2>4, <2>5, SeqDef
<1>4. CASE s = <<>>
  BY <1>4
<1> QED
  BY <1>2, <1>3, <1>4, Zenon DEF Opening

\* A part of a sequence that begins where another part ends continues it.
LEMMA PartsJoin ==
  ASSUME NEW S, NEW s \in Seq(S), NEW m \in 0 .. Len(s), NEW n \in m .. Len(s)
  PROVE  /\ SubSeq(s, 1, m) \o SubSeq(s, m + 1, n) = SubSeq(s, 1, n)
         /\ Len(SubSeq(s, 1, n)) = n
<1>1. Len(s) \in Nat /\ \A i \in 1 .. Len(s) : s[i] \in S
  BY LenProperties, ElementOfSeq, Zenon
<1>2. 1 \in 1 .. Len(s) + 1 /\ m \in 1 - 1 .. Len(s)
  BY <1>1
<1>3. SubSeq(s, 1, m) \o SubSeq(s, m + 1, n) = SubSeq(s, 1, n)
  BY <1>2, ConcatAdjacentSubSeq, Zenon
<1>4. Len(SubSeq(s, 1, n)) = n
  BY <1>1, SubSeqProperties
<1> QED
  BY <1>3, <1>4, Zenon

\* A part of the beginning of a sequence is a part of the sequence.
LEMMA PartOfBeginning ==
  ASSUME NEW S, NEW s \in Seq(S), NEW k \in 0 .. Len(s), NEW m \in 0 .. k - 1, NEW n \in m + 1 .. k
  PROVE  SubSeq(SubSeq(s, 1, k), m + 1, n) = SubSeq(s, m + 1, n)
<1>1. Len(s) \in Nat
  BY LenProperties, Zenon
<1>2. /\ 1 \in 1 .. Len(s) /\ k \in 1 .. Len(s)
      /\ m + 1 \in 1 .. k - 1 + 1 /\ n \in 1 .. k - 1 + 1
  BY <1>1
<1>3. SubSeq(SubSeq(s, 1, k), m + 1, n) = SubSeq(s, 1 + (m + 1) - 1, 1 + n - 1)
  BY <1>2, SubSeqOfSubSeq
<1>4. 1 + (m + 1) - 1 = m + 1 /\ 1 + n - 1 = n
  OBVIOUS
<1> QED
  BY <1>3, <1>4, Zenon

\* `detect_h2` never takes one protocol for the other, however much of the opening it is given:
\* the answer for an HTTP/1 client is "h1" or "not yet", for an HTTP/2 client "h2" or "not yet".
LEMMA DetectIsRight ==
  ASSUME NEW p \in {"monoio", "monoio_h2"}, NEW s \in Opening(p), NEW n \in 1 .. Len(s)
  PROVE  detect_h2(SubSeq(s, 1, n)) \in {"sniffing", IF p = "monoio" THEN "h1" ELSE "h2"}
<1> DEFINE buf == SubSeq(s, 1, n)
           m == IF Len(buf) < Len(Preface) THEN Len(buf) ELSE Len(Preface)
<1>1. s \in Seq(Byte) /\ Len(s) \in Nat /\ \A i \in 1 .. Len(s) : s[i] \in Byte
  BY OpeningType, LenProperties, ElementOfSeq, Zenon
<1>2. buf \in Seq(Byte) /\ Len(buf) = n /\ \A i \in 1 .. n : buf[i] = s[i]
  BY <1>1, SubSeqProperties
<1> DEFINE P == {Preface[i] : i \in 1 .. Len(Preface)}
<1>3. Preface \in Seq(P)
  BY ProxyServerAssumption, Zenon DEF IsSequence
<1> HIDE DEF buf, P
<1>4. Len(Preface) \in Nat /\ \A i \in 1 .. Len(Preface) : Preface[i] \in P
  BY <1>3, LenProperties, ElementOfSeq, Zenon
<1>5. m \in 0 .. n /\ m <= Len(Preface)
  BY <1>2, <1>4
<1> HIDE DEF m
<1>6. /\ SubSeq(buf, 1, m) \in Seq(Byte) /\ Len(SubSeq(buf, 1, m)) = m
      /\ \A i \in 1 .. m : SubSeq(buf, 1, m)[i] = s[i]
  <2>1. \A i \in 1 .. m : buf[i] \in Byte
    BY <1>1, <1>2, <1>5
  <2> QED
    BY <1>2, <1>5, <2>1, SubSeqProperties
<1>7. /\ SubSeq(Preface, 1, m) \in Seq(P) /\ Len(SubSeq(Preface, 1, m)) = m
      /\ \A i \in 1 .. m : SubSeq(Preface, 1, m)[i] = Preface[i]
  <2>1. \A i \in 1 .. m : Preface[i] \in P
    BY <1>4, <1>5
  <2> QED
    BY <1>5, <2>1, SubSeqProperties
<1>8. CASE p = "monoio"
  <2>1. s \in Heads
    BY <1>8, Zenon DEF Opening
  <2>2. PICK i \in 1 .. Len(s) : i <= Len(Preface) /\ s[i] # Preface[i]
    BY <2>1, ProxyServerAssumption, Zenon
  <2>3. Len(buf) >= Len(Preface) => i \in 1 .. m
    BY <1>2, <1>4, <2>2 DEF m
  <2>4. Len(buf) >= Len(Preface) => SubSeq(buf, 1, m) # SubSeq(Preface, 1, m)
    BY <1>6, <1>7, <2>2, <2>3, Zenon
  <2> QED
    BY <1>8, <2>4, Zenon DEF detect_h2, m, buf
<1>9. CASE p = "monoio_h2"
  <2>1. s = Preface \o <<"frame">>
    BY <1>9, Zenon DEF Opening
  <2>2. \A i \in 1 .. m : s[i] = Preface[i]
    BY <1>3, <1>4, <1>5, <2>1
  <2>3. SubSeq(Preface, 1, m) \in Seq(P \cup Byte) /\ SubSeq(buf, 1, m) \in Seq(P \cup Byte)
    BY <1>6, <1>7, SeqMonotonic, Zenon
  <2>4. SubSeq(buf, 1, m) = SubSeq(Preface, 1, m)
    BY <1>6, <1>7, <2>2, <2>3, SeqEqual, Zenon
  <2> QED
    BY <1>9, <2>4, Zenon DEF detect_h2, m, buf
<1> QED
  BY <1>8, <1>9, Zenon

\* A connection that a step leaves alone, or only closes, accepts or serves, keeps its invariant.
LEMMA ConnFrame ==
  ASSUME NEW c \in Conns, ConnInv(c),
         UNCHANGED <<kind, plane, stream>>, filled'[c] = filled[c], prefix'[c] = prefix[c],
         position'[c] = position[c], delivered'[c] = delivered[c],
         \/ conn'[c] = conn[c]
         \/ conn'[c] \in {"serving", "closed"}
         \/ conn[c] = "new" /\ conn'[c] = "queued"
         \/ conn[c] = "queued" /\ conn'[c] = "sniffing" /\ kind = "monoio"
  PROVE  ConnInv(c)'
  BY Zenon DEF ConnInv, Opening

\* A read while sniffing: what `detect_h2` makes of the connection is what its client speaks, and
\* what an HTTP/2 connection is handed over with is all that was read.
LEMMA SniffInv ==
  ASSUME BytesInv, NEW c \in Conns, Sniff(c)
  PROVE  ConnInv(c)'
<1> DEFINE s == stream[c]
<1>1. PICK n \in filled[c] + 1 .. Len(s) :
        /\ filled' = [filled EXCEPT ![c] = n]
        /\ conn' = [conn EXCEPT ![c] = detect_h2(SubSeq(s, 1, n))]
        /\ prefix' = [prefix EXCEPT ![c] =
                        IF detect_h2(SubSeq(s, 1, n)) = "h2" THEN SubSeq(s, 1, n) ELSE @]
  BY Zenon DEF Sniff
<1>2. /\ conn[c] = "sniffing" /\ UNCHANGED <<kind, plane, stream, position, delivered>>
      /\ ConnInv(c)
      /\ c \in DOMAIN conn /\ c \in DOMAIN filled /\ c \in DOMAIN prefix
      /\ plane[c] \in {"monoio", "monoio_h2"}
  BY Zenon DEF Sniff, BytesInv, lifecycle, vars, ConnInv, PlanesOf
<1>3. /\ s \in Opening(plane[c]) /\ s \in Seq(Byte) /\ Len(s) \in Nat
      /\ filled[c] \in 0 .. Len(s) /\ kind = "monoio"
      /\ delivered[c] = <<>> /\ prefix[c] = <<>> /\ position[c] = 0
      /\ delivered[c] = SubSeq(s, 1, Len(delivered[c]))
  BY <1>2, OpeningType, LenProperties, Zenon DEF ConnInv
<1>4. n \in 1 .. Len(s) /\ n \in 0 .. Len(s)
  BY <1>3
<1>5. detect_h2(SubSeq(s, 1, n)) \in {"sniffing", IF plane[c] = "monoio" THEN "h1" ELSE "h2"}
  BY <1>2, <1>3, <1>4, DetectIsRight, Zenon
<1>6. Len(SubSeq(s, 1, n)) = n
  BY <1>3, <1>4, PartsJoin
<1>7. /\ filled'[c] = n /\ stream'[c] = s /\ kind' = "monoio" /\ plane'[c] = plane[c]
      /\ delivered'[c] = <<>> /\ Len(delivered'[c]) = 0 /\ position'[c] = 0
      /\ conn'[c] = detect_h2(SubSeq(s, 1, n))
      /\ conn'[c] # "h2" => prefix'[c] = <<>>
      /\ conn'[c] = "h2" => prefix'[c] = SubSeq(s, 1, n)
      /\ Opening(plane[c])' = Opening(plane[c])
  BY <1>1, <1>2, <1>3, Zenon DEF Opening
<1> HIDE DEF s
<1> QED
  BY <1>2, <1>3, <1>4, <1>5, <1>6, <1>7 DEF ConnInv

\* The HTTP/1 parser gets all that was read, which is the client's head.
LEMMA ParseHeadInv ==
  ASSUME BytesInv, NEW c \in Conns, ParseHead(c)
  PROVE  ConnInv(c)'
<1>1. /\ conn[c] = "h1" /\ UNCHANGED <<kind, plane, stream, prefix, position>>
      /\ conn'[c] = "serving" /\ filled'[c] = Len(stream[c]) /\ delivered'[c] = stream[c]
      /\ ConnInv(c)
  BY Zenon DEF ParseHead, BytesInv, lifecycle, vars
<1>2. stream[c] \in Opening(plane[c]) /\ Opening(plane[c])' = Opening(plane[c])
  BY <1>1, Zenon DEF ConnInv, Opening
<1>3. stream[c] \in Seq(Byte) /\ Len(stream[c]) \in Nat
  BY <1>2, OpeningType, LenProperties, Zenon
<1>4. SubSeq(stream[c], 1, Len(stream[c])) = stream[c]
  BY <1>3, SubSeqFull, Zenon
<1> QED
  BY <1>1, <1>2, <1>3, <1>4 DEF ConnInv

\* A read of the HTTP/2 server continues what it has got so far: the replay takes up where the
\* last one stopped, and the socket where the sniffing stopped.
LEMMA ReadPrefaceInv ==
  ASSUME BytesInv, NEW c \in Conns, ReadPreface(c)
  PROVE  ConnInv(c)'
<1> DEFINE s == stream[c]
<1>1. PICK room \in 1 .. Len(s) : poll_read(c, room)
  BY Zenon DEF ReadPreface
<1>2. /\ conn[c] = "h2" /\ UNCHANGED <<kind, plane, stream, prefix>>
      /\ conn'[c] \in {"serving", "h2"}
      /\ ConnInv(c)
      /\ c \in DOMAIN filled /\ c \in DOMAIN position /\ c \in DOMAIN delivered
      /\ Opening(plane[c])' = Opening(plane[c])
  BY Zenon DEF ReadPreface, BytesInv, lifecycle, vars, Opening
<1>3. s \in Opening(plane[c]) /\ s \in Seq(Byte) /\ Len(s) \in Nat
  BY <1>2, OpeningType, LenProperties, Zenon DEF ConnInv
<1> DEFINE p == prefix[c]
           d == delivered[c]
           at == position[c]
<1>4. /\ kind = "monoio" /\ plane[c] = "monoio_h2"
      /\ d = SubSeq(s, 1, Len(d)) /\ p = SubSeq(s, 1, Len(p))
  BY <1>2, Zenon DEF ConnInv
<1>n. /\ Len(s) \in Nat /\ filled[c] \in 0 .. Len(s) /\ Len(d) \in 0 .. Len(s)
      /\ Len(p) \in 0 .. filled[c] /\ at \in 0 .. Len(p)
      /\ Len(d) + Len(p) - at = filled[c]
      /\ at < Len(p) => filled[c] = Len(p)
  BY <1>2, <1>3, Zenon DEF ConnInv
<1>5. SUFFICES
        /\ filled'[c] \in Len(p) .. Len(s)
        /\ Len(delivered'[c]) \in 0 .. Len(s)
        /\ delivered'[c] = SubSeq(s, 1, Len(delivered'[c]))
        /\ position'[c] \in 0 .. Len(p)
        /\ Len(delivered'[c]) + Len(p) - position'[c] = filled'[c]
        /\ position'[c] < Len(p) => filled'[c] = Len(p)
  <2> HIDE DEF s, p
  <2>1. stream'[c] = s /\ prefix'[c] = p
    BY <1>2, Zenon DEF s, p
  <2> QED
    BY <1>2, <1>3, <1>4, <1>n, <2>1, SMTT(30) DEF ConnInv
<1>6. CASE at < Len(p)
  <2> DEFINE upTo == Least(at + room, Len(p))
  <2>1. /\ delivered'[c] = d \o SubSeq(p, at + 1, upTo)
        /\ position'[c] = upTo /\ filled' = filled
    BY <1>1, <1>2, <1>6, Zenon DEF poll_read
  <2> HIDE DEF s, p, d, at
  <2>2. /\ upTo \in at + 1 .. Len(p) /\ Len(p) \in 0 .. Len(s) /\ at \in 0 .. Len(p) - 1
        /\ at \in 0 .. Len(s) /\ upTo \in at .. Len(s)
    BY <1>n, <1>6 DEF Least
  <2> HIDE DEF upTo
  <2>3. SubSeq(p, at + 1, upTo) = SubSeq(s, at + 1, upTo)
    BY <1>3, <1>4, <2>2, PartOfBeginning, Zenon
  <2>4. Len(d) = at
    BY <1>n, <1>6
  <2>5. d \o SubSeq(s, at + 1, upTo) = SubSeq(s, 1, upTo) /\ Len(SubSeq(s, 1, upTo)) = upTo
    BY <1>3, <1>4, <2>2, <2>4, PartsJoin, Zenon
  <2>6. delivered'[c] = SubSeq(s, 1, upTo) /\ Len(delivered'[c]) = upTo
    BY <2>1, <2>3, <2>5, Zenon
  <2>7. filled'[c] = filled[c] /\ filled[c] = Len(p)
    BY <1>n, <1>6, <2>1, Zenon
  <2>8. position'[c] = upTo /\ Len(delivered'[c]) = upTo
    BY <2>1, <2>6, Zenon
  <2>9. /\ filled'[c] \in Len(p) .. Len(s) /\ Len(delivered'[c]) \in 0 .. Len(s)
        /\ position'[c] \in 0 .. Len(p)
        /\ Len(delivered'[c]) + Len(p) - position'[c] = filled'[c]
    BY <1>n, <2>2, <2>7, <2>8
  <2> QED
    BY <2>6, <2>7, <2>9, Zenon
<1>7. CASE ~(at < Len(p))
  <2>1. PICK k \in filled[c] + 1 .. Least(filled[c] + room, Len(s)) :
          /\ delivered'[c] = d \o SubSeq(s, filled[c] + 1, k)
          /\ filled'[c] = k /\ position' = position
    BY <1>1, <1>2, <1>7, Zenon DEF poll_read
  <2>2. position'[c] = at
    BY <2>1, Zenon
  <2> HIDE DEF s, p, d, at
  <2>3. k \in filled[c] .. Len(s)
    BY <1>1, <1>n DEF Least, s
  <2>5. Len(d) = filled[c] /\ at = Len(p)
    BY <1>n, <1>7
  <2>4. /\ d \o SubSeq(s, filled[c] + 1, k) = SubSeq(s, 1, k)
        /\ Len(SubSeq(s, 1, k)) = k
    BY <1>3, <1>4, <1>n, <2>3, <2>5, PartsJoin, ZenonT(30)
  <2> QED
    <3>1. delivered'[c] = SubSeq(s, 1, k) /\ Len(delivered'[c]) = k
      BY <2>1, <2>4, Zenon
    <3>2. filled'[c] = k /\ Len(delivered'[c]) = k
      BY <2>1, <3>1, Zenon
    <3>3. /\ filled'[c] \in Len(p) .. Len(s) /\ Len(delivered'[c]) \in 0 .. Len(s)
          /\ position'[c] \in 0 .. Len(p) /\ ~(position'[c] < Len(p))
          /\ Len(delivered'[c]) + Len(p) - position'[c] = filled'[c]
      BY <1>n, <2>2, <2>3, <2>5, <3>2
    <3> QED
      BY <3>1, <3>3, Zenon
<1> QED
  BY <1>6, <1>7, Zenon

\* A step of one connection leaves the others as they are, or closes them all when the process
\* ends; a step of DataPlane moves no byte.
LEMMA NextBytes == BytesInv /\ [ServerNext]_serverVars => BytesInv'
<1> SUFFICES ASSUME BytesInv, [ServerNext]_serverVars PROVE BytesInv'
  BY Zenon
<1>1. UNCHANGED <<plane, kind, stream>>
  <2>1. UNCHANGED plane
    BY ServerStep, Zenon
    DEF Next, vars, store, Arrive, HyperRequest, MonoioH2Request, HyperRespond, MonoioRequest,
        MonoioRespond, request_filter, upstream_peer, upstream_request_filter, response_filter,
        PingoraFails
  <2>2. UNCHANGED <<kind, stream>>
    BY Zenon DEF ServerNext, serverVars, lifecycle, bytes, HyperMain, MonoioMain, PingoraMain, Start,
        Exit, HyperSpawn, MonoioSpawn, run_server, Join, Spawn, InstallHandler, Sigint, Sigterm,
        SendShutdown, Reconcile, run_worker, Changed, Return, Connect, Accept, Close, Sniff, ParseHead,
        ReadPreface, Serve
  <2> QED
    BY <2>1, <2>2, Zenon
<1>2. /\ DOMAIN conn' = Conns /\ DOMAIN filled' = Conns /\ DOMAIN prefix' = Conns
      /\ DOMAIN position' = Conns /\ DOMAIN delivered' = Conns
  BY ZenonT(30) DEF BytesInv, ServerNext, serverVars, lifecycle, sockets, bytes, HyperMain, MonoioMain,
      PingoraMain, Start, Exit, HyperSpawn, MonoioSpawn, run_server, Join, Spawn, InstallHandler,
      Sigint, Sigterm, SendShutdown, Reconcile, run_worker, Changed, Return, Connect, Accept, Close,
      Sniff, ParseHead, ReadPreface, poll_read, Serve
<1>3. ASSUME NEW d \in Conns PROVE ConnInv(d)'
  <2>0. ConnInv(d)
    BY Zenon DEF BytesInv
  <2>1. CASE UNCHANGED <<conn, bytes>>
    BY <1>1, <2>0, <2>1, ConnFrame, Zenon DEF bytes
  <2>2. CASE UNCHANGED bytes /\ conn' = [c \in Conns |-> "closed"]
    BY <1>1, <2>0, <2>2, ConnFrame, Zenon DEF bytes
  <2>3. CASE HyperMain \/ MonoioMain \/ PingoraMain
    BY <2>1, <2>2, <2>3, Zenon DEF HyperMain, MonoioMain, PingoraMain, Start, Exit, sockets
  <2>4. CASE HyperSpawn \/ MonoioSpawn \/ run_server \/ Join
    BY <2>1, <2>2, <2>4, Zenon DEF HyperSpawn, MonoioSpawn, run_server, Join, Spawn, Exit, sockets
  <2>5. CASE InstallHandler \/ Sigint \/ Sigterm \/ SendShutdown \/ Reconcile
    BY <2>1, <2>2, <2>5, Zenon DEF InstallHandler, Sigint, Sigterm, SendShutdown, Reconcile, Exit, sockets
  <2>6. ASSUME NEW w \in Workers, run_worker(w) PROVE ConnInv(d)'
    BY <2>1, <2>6, Zenon DEF run_worker, sockets
  <2>7. ASSUME NEW w \in Workers, Changed(w) PROVE ConnInv(d)'
    <3>1. conn'[d] \in {"closed", conn[d]} /\ UNCHANGED bytes
      BY <2>7, Zenon DEF Changed, Return
    <3> QED
      BY <1>1, <2>0, <3>1, ConnFrame, Zenon DEF bytes
  <2>8. ASSUME NEW c \in Conns, Connect(c) \/ Accept(c) \/ Close(c) PROVE ConnInv(d)'
    <3>1. UNCHANGED bytes
      BY <2>8, Zenon DEF Connect, Accept, Close
    <3>2. \/ conn'[d] = conn[d]
          \/ conn'[d] \in {"serving", "closed"}
          \/ conn[d] = "new" /\ conn'[d] = "queued"
          \/ conn[d] = "queued" /\ conn'[d] = "sniffing" /\ kind = "monoio"
      BY <2>8, Zenon DEF Connect, Accept, Close, BytesInv
    <3> QED
      BY <1>1, <2>0, <3>1, <3>2, ConnFrame, Zenon DEF bytes
  <2>9. ASSUME NEW c \in Conns, Sniff(c) \/ ParseHead(c) \/ ReadPreface(c) PROVE ConnInv(d)'
    <3>1. CASE c = d
      BY <2>9, <3>1, SniffInv, ParseHeadInv, ReadPrefaceInv, Zenon
    <3>2. CASE c # d
      <4>1. /\ conn'[d] = conn[d] /\ filled'[d] = filled[d] /\ prefix'[d] = prefix[d]
            /\ position'[d] = position[d] /\ delivered'[d] = delivered[d]
        BY <2>9, <3>2, Zenon DEF Sniff, ParseHead, ReadPreface, poll_read, BytesInv
      <4> QED
        BY <1>1, <2>0, <4>1, ConnFrame, Zenon
    <3> QED
      BY <3>1, <3>2, Zenon
  <2>10. ASSUME NEW c \in Conns, Serve(c) PROVE ConnInv(d)'
    BY <2>1, <2>10, Zenon DEF Serve, sockets
  <2>11. CASE UNCHANGED serverVars
    BY <2>1, <2>11, Zenon DEF serverVars, sockets
  <2> QED
    BY <2>3, <2>4, <2>5, <2>6, <2>7, <2>8, <2>9, <2>10, <2>11, Zenon DEF ServerNext
<1> QED
  BY <1>1, <1>2, <1>3, Zenon DEF BytesInv, PlanesOf

\* However the opening bytes of a connection are cut into reads, for any preface and any heads
\* that leave it: Monoio serves the connection in the protocol of its client, and the server of
\* that protocol gets the bytes from the first on, each once and in order.
THEOREM HandOverLosesNothing == ServerSpec => []HandOverIsFaithful
<1>1. ServerInit => BytesInv
  <2> SUFFICES ASSUME ServerInit PROVE BytesInv
    BY Zenon
  <2>1. ASSUME NEW c \in Conns PROVE ConnInv(c)
    <3>1. stream[c] \in Opening(plane[c])
      BY Zenon DEF ServerInit
    <3>2. stream[c] \in Seq(Byte) /\ Len(stream[c]) \in Nat
      BY <3>1, OpeningType, LenProperties, Zenon
    <3>3. SubSeq(stream[c], 1, 0) = <<>>
      BY <3>2
    <3>4. /\ conn[c] = "new" /\ filled[c] = 0 /\ delivered[c] = <<>> /\ prefix[c] = <<>>
          /\ position[c] = 0 /\ Len(delivered[c]) = 0
      BY Zenon DEF ServerInit
    <3> QED
      BY <3>1, <3>2, <3>3, <3>4 DEF ConnInv
  <2> QED
    BY <2>1, Zenon DEF ServerInit, BytesInv
<1>2. BytesInv => HandOverIsFaithful
  BY Zenon DEF BytesInv, ConnInv, HandOverIsFaithful
<1> QED
  BY <1>1, <1>2, NextBytes, PTL DEF ServerSpec

-----------------------------------------------------------------------------
(* The end of a Hyper process.                                             *)

(***************************************************************************)
(* OnlyShutdownStopsHyper says nothing of the channel between the signal   *)
(* task and the accept loops: a loop has ended only when the value is      *)
(* true, and the value is true only when the task has sent it, which it    *)
(* cannot have done before `main` spawned it.                              *)
(***************************************************************************)
StopInv ==
  /\ DOMAIN worker = Workers
  /\ shutdown \in [value : BOOLEAN, sender : BOOLEAN]
  /\ process = "seeding" => ctrl_c = "none"
  /\ shutdown.value => ctrl_c = "sent"
  /\ kind = "hyper" =>
       /\ \A w \in Workers : worker[w] = "ended" => shutdown.value
       /\ process = "stopped" => shutdown.value

\* A step that leaves the loops, the channel and the signal task alone, or ends the process
\* otherwise than by `main` returning.
LEMMA StopFrame ==
  ASSUME StopInv, UNCHANGED <<kind, ctrl_c, shutdown, worker>>,
         process' \in {process, "failed", "killed"}
  PROVE  StopInv'
  BY Zenon DEF StopInv

\* The channel is set by the signal task alone, and every loop looks at its value before it
\* returns.
LEMMA NextStop == StopInv /\ [ServerNext]_serverVars => StopInv'
<1> SUFFICES ASSUME StopInv, [ServerNext]_serverVars PROVE StopInv'
  BY Zenon
<1>1. CASE UNCHANGED lifecycle
  BY <1>1, StopFrame, Zenon DEF lifecycle
<1>2. ASSUME NEW how \in {"failed", "killed"}, Exit(how) PROVE StopInv'
  BY <1>2, StopFrame, Zenon DEF Exit
<1>3. CASE HyperMain \/ MonoioMain \/ PingoraMain
  <2>1. ASSUME NEW k, NEW controls, Start(k, controls), ~Exit("failed") PROVE StopInv'
    <3>1. /\ process = "seeding" /\ process' = "spawning"
          /\ UNCHANGED <<kind, shutdown, worker>>
      BY <2>1, Zenon DEF Start
    <3>2. ~shutdown.value
      BY <3>1, Zenon DEF StopInv
    <3> QED
      BY <3>1, <3>2, Zenon DEF StopInv
  <2> QED
    BY <1>2, <1>3, <2>1, Zenon DEF HyperMain, MonoioMain, PingoraMain
<1>4. CASE HyperSpawn \/ MonoioSpawn
  <2>1. ASSUME NEW s, Spawn(s), process = "spawning", kind = "hyper" => s = "listening"
        PROVE  StopInv'
    <3>1. /\ UNCHANGED <<kind, ctrl_c, shutdown>> /\ process' \in {"running", "spawning"}
          /\ worker' = [worker EXCEPT ![Cardinality(Spawned) + 1] = s]
      BY <2>1, Zenon DEF Spawn
    <3>2. DOMAIN worker' = Workers /\ \A w \in Workers : worker'[w] \in {worker[w], s}
      BY <3>1, Zenon DEF StopInv
    <3> QED
      BY <2>1, <3>1, <3>2, Zenon DEF StopInv
  <2> QED
    BY <1>2, <1>4, <2>1, Zenon DEF HyperSpawn, MonoioSpawn
<1>5. CASE run_server
  <2>1. kind = "pingora" /\ process = "spawning"
    BY <1>5, Zenon DEF run_server
  <2>2. CASE ~Exit("failed")
    BY <1>5, <2>1, <2>2, Zenon DEF run_server, StopInv
  <2> QED
    BY <1>2, <2>2, Zenon
<1>6. CASE Join
  <2>1. /\ \A w \in Workers : worker[w] = "ended"
        /\ process' = "stopped" /\ UNCHANGED <<kind, ctrl_c, shutdown, worker>>
    BY <1>6, Zenon DEF Join, Exit
  <2>2. 1 \in Workers
    BY ProxyServerAssumption DEF Workers
  <2> QED
    BY <2>1, <2>2, Zenon DEF StopInv
<1>7. CASE InstallHandler
  <2>1. /\ UNCHANGED <<kind, process, worker>> /\ ctrl_c = "spawned"
        /\ shutdown' \in {shutdown, [shutdown EXCEPT !.sender = FALSE]}
    BY <1>7, Zenon DEF InstallHandler
  <2>2. shutdown' \in [value : BOOLEAN, sender : BOOLEAN] /\ shutdown'.value = shutdown.value
    BY <2>1, Zenon DEF StopInv
  <2> QED
    BY <2>1, <2>2, Zenon DEF StopInv
<1>8. CASE Sigint \/ Sigterm
  <2>1. CASE ctrl_c = "waiting" /\ ctrl_c' = "raised" /\ UNCHANGED <<kind, process, shutdown, worker>>
    BY <2>1, Zenon DEF StopInv
  <2> QED
    BY <1>2, <1>8, <2>1, Zenon DEF Sigint, Sigterm
<1>9. CASE SendShutdown
  <2>1. /\ ctrl_c = "raised" /\ ctrl_c' = "sent" /\ UNCHANGED <<kind, process, worker>>
        /\ shutdown' = [value |-> TRUE, sender |-> FALSE]
    BY <1>9, Zenon DEF SendShutdown
  <2>2. shutdown' \in [value : BOOLEAN, sender : BOOLEAN] /\ shutdown'.value
    BY <2>1
  <2> QED
    BY <2>1, <2>2, Zenon DEF StopInv
<1>10. ASSUME NEW v \in Workers, run_worker(v) PROVE StopInv'
  <2>1. /\ kind = "monoio" /\ UNCHANGED <<kind, process, ctrl_c, shutdown>>
        /\ DOMAIN worker' = Workers
    BY <1>10, Zenon DEF run_worker, StopInv
  <2> QED
    BY <2>1, Zenon DEF StopInv
<1>11. ASSUME NEW v \in Workers, Changed(v) PROVE StopInv'
  <2>1. UNCHANGED <<kind, process, ctrl_c, shutdown>>
    BY <1>11, Zenon DEF Changed
  <2>2. CASE shutdown.value
    <3>1. DOMAIN worker' = Workers
      BY <1>11, <2>2, Zenon DEF Changed, Return, StopInv
    <3> QED
      BY <2>1, <2>2, <3>1, Zenon DEF StopInv
  <2>3. CASE ~shutdown.value
    BY <1>11, <2>1, <2>3, StopFrame, Zenon DEF Changed
  <2> QED
    BY <2>2, <2>3, Zenon
<1>12. CASE Reconcile \/ \E c \in Conns :
               \/ Connect(c) \/ Accept(c) \/ Close(c)
               \/ Sniff(c) \/ ParseHead(c) \/ ReadPreface(c) \/ Serve(c)
  BY <1>1, <1>12, Zenon DEF Reconcile, Connect, Accept, Close, Sniff, ParseHead, ReadPreface, Serve
<1>13. CASE UNCHANGED serverVars
  BY <1>1, <1>13, Zenon DEF serverVars
<1> QED
  BY <1>3, <1>4, <1>5, <1>6, <1>7, <1>8, <1>9, <1>10, <1>11, <1>12, <1>13, Zenon DEF ServerNext

\* Whatever the number of workers and connections: an accept loop of Hyper returns, and the
\* process ends by itself, only after SIGINT; losing the channel's sender stops nothing.
THEOREM HyperStopsWhenTold == ServerSpec => []OnlyShutdownStopsHyper
<1>1. ServerInit => StopInv
  <2> SUFFICES ASSUME ServerInit PROVE StopInv
    BY Zenon
  <2>1. shutdown \in [value : BOOLEAN, sender : BOOLEAN] /\ ~shutdown.value
    BY DEF ServerInit
  <2> QED
    BY <2>1, Zenon DEF ServerInit, StopInv
<1>2. StopInv => OnlyShutdownStopsHyper
  BY Zenon DEF StopInv, OnlyShutdownStopsHyper
<1> QED
  BY <1>1, <1>2, NextStop, PTL DEF ServerSpec

=============================================================================
