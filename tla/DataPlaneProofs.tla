-------------------------- MODULE DataPlaneProofs --------------------------
(***************************************************************************)
(* What every request can rely on, for any number of connections, requests *)
(* and published tables.                                                   *)
(***************************************************************************)
EXTENDS DataPlane, TLAPS

\* What a request was decided by lies between the table that was current when
\* it arrived and the one that is current now; a request that Hyper or Monoio
\* has forwarded went through the filters of the table that chose its backend,
\* and only Pingora goes through its phases.
InFlight ==
  \A c \in Conns :
    /\ started[c] <= table.version
    /\ pc[c] \in {"filtered", "peered"} => plane[c] = "pingora"
    /\ pc[c] = "filtered" => table.version > started[c] \/ table.routed
    /\ pc[c] = "peered" => table.version > started[c] \/ table.routed
    /\ pc[c] = "forwarding" /\ plane[c] = "pingora" =>
         table.version > started[c] \/ table.routed
    /\ pc[c] = "arrived" =>
         /\ peer[c] = None /\ request[c] = None /\ response[c] = None
         /\ answer[c] = "none"
    /\ pc[c] \in {"filtered", "peered", "forwarding"} => answer[c] = "none" /\ response[c] = None

Inv == TypeOK /\ InFlight /\ NoStaleTable /\ OneTable /\ LateMissMeansChange

\* A request that has just arrived, and a table that is stored, are well typed.
LEMMA InitInv == Init => Inv
  BY DataPlaneAssumption
  DEF Init, Inv, TypeOK, InFlight, NoStaleTable, OneTable, LateMissMeansChange, Table, Rewrites,
      Phases, Versions, Answers, None, Planes

\* Publishing a table changes nothing that a request has already decided.
LEMMA StoreInv == Inv /\ store => Inv'
<1> SUFFICES ASSUME Inv, store PROVE Inv'
  BY Zenon
<1> USE DEF None, Table
<1>1. table'.version = table.version + 1 /\ table' \in Table
  BY DEF store, Inv, TypeOK
<1>2. UNCHANGED <<plane, pc, requests, started, peer, request, response, answer>>
  BY Zenon DEF store
<1>3. TypeOK'
  BY <1>1, <1>2, Zenon DEF Inv, TypeOK
<1>4. InFlight'
  BY <1>1, <1>2 DEF Inv, TypeOK, InFlight
<1>5. NoStaleTable' /\ OneTable'
  BY <1>2, Zenon DEF Inv, NoStaleTable, OneTable
<1>6. LateMissMeansChange'
  BY <1>1, <1>2 DEF Inv, TypeOK, InFlight, LateMissMeansChange
<1> QED
  BY <1>3, <1>4, <1>5, <1>6, Zenon DEF Inv

\* A step of one request keeps what holds of all of them, one action at a time.
LEMMA RequestInv ==
  ASSUME Inv, NEW c \in Conns,
         \/ Arrive(c)
         \/ HyperRequest(c) \/ MonoioH2Request(c) \/ HyperRespond(c)
         \/ MonoioRequest(c) \/ MonoioRespond(c)
         \/ request_filter(c) \/ upstream_peer(c)
         \/ upstream_request_filter(c) \/ response_filter(c) \/ PingoraFails(c)
  PROVE  Inv'
<1> USE DEF None, Table, Phases, Versions, Answers, Inv, TypeOK
<1>1. CASE Arrive(c)
  <2> USE <1>1 DEF Arrive
  <2>1. TypeOK'
    OBVIOUS
  <2>2. InFlight'
    BY <2>1 DEF InFlight
  <2>3. NoStaleTable'
    BY <2>1 DEF InFlight, NoStaleTable
  <2>4. OneTable'
    BY <2>1 DEF InFlight, OneTable
  <2>5. LateMissMeansChange'
    BY <2>1 DEF InFlight, LateMissMeansChange
  <2> QED
    BY <2>1, <2>2, <2>3, <2>4, <2>5, Zenon
<1>2. CASE HyperRequest(c)
  <2> USE <1>2 DEF HyperRequest, Refuse, Reply, Forward
  <2>1. TypeOK'
    OBVIOUS
  <2>2. InFlight'
    BY <2>1 DEF InFlight
  <2>3. NoStaleTable'
    BY <2>1 DEF InFlight, NoStaleTable
  <2>4. OneTable'
    BY <2>1 DEF InFlight, OneTable
  <2>5. LateMissMeansChange'
    BY <2>1 DEF InFlight, LateMissMeansChange
  <2> QED
    BY <2>1, <2>2, <2>3, <2>4, <2>5, Zenon
<1>3. CASE MonoioH2Request(c)
  <2> USE <1>3 DEF MonoioH2Request, Refuse, Reply, Forward
  <2>1. TypeOK'
    OBVIOUS
  <2>2. InFlight'
    BY <2>1 DEF InFlight
  <2>3. NoStaleTable'
    BY <2>1 DEF InFlight, NoStaleTable
  <2>4. OneTable'
    BY <2>1 DEF InFlight, OneTable
  <2>5. LateMissMeansChange'
    BY <2>1 DEF InFlight, LateMissMeansChange
  <2> QED
    BY <2>1, <2>2, <2>3, <2>4, <2>5, Zenon
<1>4. CASE HyperRespond(c)
  <2> USE <1>4 DEF HyperRespond, Reply
  <2>1. TypeOK'
    BY Zenon
  <2>2. InFlight'
    BY <2>1 DEF InFlight
  <2>3. NoStaleTable'
    BY <2>1 DEF InFlight, NoStaleTable
  <2>4. OneTable'
    BY <2>1 DEF InFlight, OneTable
  <2>5. LateMissMeansChange'
    BY <2>1 DEF InFlight, LateMissMeansChange
  <2> QED
    BY <2>1, <2>2, <2>3, <2>4, <2>5, Zenon
<1>5. CASE MonoioRequest(c)
  <2> USE <1>5 DEF MonoioRequest, Refuse, Reply, Forward
  <2>1. TypeOK'
    OBVIOUS
  <2>2. InFlight'
    BY <2>1 DEF InFlight
  <2>3. NoStaleTable'
    BY <2>1 DEF InFlight, NoStaleTable
  <2>4. OneTable'
    BY <2>1 DEF InFlight, OneTable
  <2>5. LateMissMeansChange'
    BY <2>1 DEF InFlight, LateMissMeansChange
  <2> QED
    BY <2>1, <2>2, <2>3, <2>4, <2>5, Zenon
<1>6. CASE MonoioRespond(c)
  <2> USE <1>6 DEF MonoioRespond, Reply
  <2>1. TypeOK'
    OBVIOUS
  <2>2. InFlight'
    BY <2>1 DEF InFlight
  <2>3. NoStaleTable'
    BY <2>1 DEF InFlight, NoStaleTable
  <2>4. OneTable'
    BY <2>1, Zenon DEF InFlight, OneTable
  <2>5. LateMissMeansChange'
    BY <2>1 DEF InFlight, LateMissMeansChange
  <2> QED
    BY <2>1, <2>2, <2>3, <2>4, <2>5, Zenon
<1>7. CASE request_filter(c)
  <2> USE <1>7 DEF request_filter, Reply
  <2>1. TypeOK'
    OBVIOUS
  <2>2. InFlight'
    BY <2>1 DEF InFlight
  <2>3. NoStaleTable'
    BY <2>1 DEF InFlight, NoStaleTable
  <2>4. OneTable'
    BY <2>1, Zenon DEF InFlight, OneTable
  <2>5. LateMissMeansChange'
    BY <2>1 DEF InFlight, LateMissMeansChange
  <2> QED
    BY <2>1, <2>2, <2>3, <2>4, <2>5, Zenon
<1>8. CASE upstream_peer(c)
  <2> USE <1>8 DEF upstream_peer, Reply
  <2>1. TypeOK'
    OBVIOUS
  <2>2. InFlight'
    BY <2>1 DEF InFlight
  <2>3. NoStaleTable'
    BY <2>1 DEF InFlight, NoStaleTable
  <2>4. OneTable'
    BY <2>1 DEF InFlight, OneTable
  <2>5. LateMissMeansChange'
    BY <2>1 DEF InFlight, LateMissMeansChange
  <2> QED
    BY <2>1, <2>2, <2>3, <2>4, <2>5, Zenon
<1>9. CASE upstream_request_filter(c)
  <2> USE <1>9 DEF upstream_request_filter
  <2>1. TypeOK'
    BY Zenon
  <2>2. InFlight'
    BY <2>1 DEF InFlight
  <2>3. NoStaleTable'
    BY <2>1 DEF InFlight, NoStaleTable
  <2>4. OneTable'
    BY <2>1 DEF InFlight, OneTable
  <2>5. LateMissMeansChange'
    BY <2>1 DEF InFlight, LateMissMeansChange
  <2> QED
    BY <2>1, <2>2, <2>3, <2>4, <2>5, Zenon
<1>10. CASE response_filter(c)
  <2> USE <1>10 DEF response_filter, Reply
  <2>1. TypeOK'
    BY Zenon
  <2>2. InFlight'
    BY <2>1 DEF InFlight
  <2>3. NoStaleTable'
    BY <2>1 DEF InFlight, NoStaleTable
  <2>4. OneTable'
    BY <2>1 DEF InFlight, OneTable
  <2>5. LateMissMeansChange'
    BY <2>1 DEF InFlight, LateMissMeansChange
  <2> QED
    BY <2>1, <2>2, <2>3, <2>4, <2>5, Zenon
<1>11. CASE PingoraFails(c)
  <2> USE <1>11 DEF PingoraFails, Reply
  <2>1. TypeOK'
    BY Zenon
  <2>2. InFlight'
    BY <2>1 DEF InFlight
  <2>3. NoStaleTable'
    BY <2>1 DEF InFlight, NoStaleTable
  <2>4. OneTable'
    BY <2>1, Zenon DEF InFlight, OneTable
  <2>5. LateMissMeansChange'
    BY <2>1 DEF InFlight, LateMissMeansChange
  <2> QED
    BY <2>1, <2>2, <2>3, <2>4, <2>5, Zenon
<1> QED
  BY <1>1, <1>2, <1>3, <1>4, <1>5, <1>6, <1>7, <1>8, <1>9, <1>10, <1>11, Zenon

\* The invariant is inductive.
LEMMA NextInv == Inv /\ [Next]_vars => Inv'
<1> SUFFICES ASSUME Inv, [Next]_vars PROVE Inv'
  BY Zenon
<1>1. CASE Next
  BY <1>1, StoreInv, RequestInv, Zenon DEF Next
<1>2. CASE UNCHANGED vars
  BY <1>2, Zenon DEF vars, Inv, TypeOK, InFlight, NoStaleTable, OneTable, LateMissMeansChange
<1> QED
  BY <1>1, <1>2, Zenon

\* The shared table and what every request remembers of it are well typed.
THEOREM TypeCorrect == Spec => []TypeOK
<1>1. Inv => TypeOK
  BY Zenon DEF Inv
<1> QED
  BY <1>1, InitInv, NextInv, PTL DEF Spec

\* No data plane serves a request from a table that was replaced before the
\* request arrived.
THEOREM TablesAreFresh == Spec => []NoStaleTable
<1>1. Inv => NoStaleTable
  BY Zenon DEF Inv
<1> QED
  BY <1>1, InitInv, NextInv, PTL DEF Spec

\* Hyper and Monoio serve a request from a single table, from the choice of
\* its backend to the filters of its response.
THEOREM OneTablePerRequest == Spec => []OneTable
<1>1. Inv => OneTable
  BY Zenon DEF Inv
<1> QED
  BY <1>1, InitInv, NextInv, PTL DEF Spec

\* Pingora answers 404 after `request_filter`, or leaves filters out, only if
\* the table changed while the request was in flight.
THEOREM LateMissesAreChanges == Spec => []LateMissMeansChange
<1>1. Inv => LateMissMeansChange
  BY Zenon DEF Inv
<1> QED
  BY <1>1, InitInv, NextInv, PTL DEF Spec

=============================================================================
