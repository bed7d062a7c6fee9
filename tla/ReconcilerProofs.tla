-------------------------- MODULE ReconcilerProofs --------------------------
(***************************************************************************)
(* For every set of routes, services and slices: the reconciler's state is *)
(* well typed and no change of the store is lost by `rebuild_loop`.        *)
(***************************************************************************)
EXTENDS Reconciler, TLAPS

-----------------------------------------------------------------------------
(* The compiler.                                                           *)

\* `resolve` gives every backendRef at least one endpoint, with a weight in the range of
\* the Gateway API.
LEMMA ResolveType ==
  ASSUME NEW eps, EndpointMap(eps), NEW b \in BackendRef
  PROVE  resolve(eps, b) # {} /\ resolve(eps, b) \subseteq BackendEndpoint
<1> DEFINE weight == Clamp(0, MaxWeight, b.weight)
           known  == IF eps[b.service] = Absent
                     THEN {}
                     ELSE {e \in eps[b.service] : e.port = b.port}
<1>1. weight \in 0..MaxWeight
  <2>1. b.weight \in Int
    BY DEF BackendRef
  <2>2. MaxWeight \in Nat
    BY SMT DEF MaxWeight
  <2> QED
    BY <2>1, <2>2, SMT DEF Clamp
<1>2. known \subseteq ReadyEndpoint
  BY DEF EndpointMap, BackendRef
<1> HIDE DEF weight
<1>3. CASE known # {}
  <2>1. resolve(eps, b) =
          {[dns |-> FALSE, host |-> e.address, port |-> e.port, weight |-> weight] : e \in known}
    BY <1>3 DEF resolve, weight
  <2> HIDE DEF known
  <2>2. \A e \in known :
          [dns |-> FALSE, host |-> e.address, port |-> e.port, weight |-> weight] \in BackendEndpoint
    BY <1>1, <1>2, Zenon DEF ReadyEndpoint, BackendEndpoint
  <2> QED
    BY <1>3, <2>1, <2>2, Zenon
<1>4. CASE known = {}
  <2>1. resolve(eps, b) = {[dns |-> TRUE, host |-> b.service, port |-> b.port, weight |-> weight]}
    BY <1>4 DEF resolve, weight
  <2> QED
    BY <1>1, <2>1 DEF BackendRef, BackendEndpoint
<1> QED
  BY <1>3, <1>4, Zenon

\* What `compile` hands to the builder is a table, whatever the store holds.
LEMMA CompileType ==
  ASSUME NEW rts \in [RouteKeys -> RouteSpecs \cup {Absent}],
         NEW eps, EndpointMap(eps)
  PROVE  IsTable(compile(rts, eps))
<1> SUFFICES ASSUME NEW e \in compile(rts, eps)
             PROVE  /\ e.route \in RouteKeys
                    /\ e.endpoints # {}
                    /\ e.endpoints \subseteq BackendEndpoint
  BY Zenon DEF IsTable
<1>1. PICK k \in RouteKeys : rts[k] # Absent /\ e \in RouteEntries(eps, k, rts[k])
  BY Zenon DEF compile
<1>2. PICK rule \in rts[k].rules : e \in RuleEntries(eps, k, rts[k], rule)
  BY <1>1, Zenon DEF RouteEntries
<1>3. \A b \in rule.backend_refs : resolve(eps, b) \subseteq BackendEndpoint
  <2>1. rts[k] \in RouteSpecs
    BY <1>1, Zenon
  <2>2. IsRule(rule)
    BY <1>2, <2>1, RouteSpecsAssumption, Zenon
  <2> QED
    BY <2>2, ResolveType, Zenon DEF IsRule
<1> DEFINE out == UNION {resolve(eps, b) : b \in rule.backend_refs}
<1>4. out \subseteq BackendEndpoint
  BY <1>3, Zenon
<1>5. out # {} /\ e.endpoints = out /\ e.route = k
  <2>1. out # {}
    BY <1>2 DEF RuleEntries
  <2>2. \E h \in hostnames(rts[k]), m \in matches(rule) :
          e = [hostname |-> h, path |-> m.path, path_match |-> m.kind, endpoints |-> out,
               filters |-> <<rule.filters, m.path>>, route |-> k, rule |-> rule.index]
    BY <1>2, <2>1 DEF RuleEntries
  <2> QED
    BY <2>1, <2>2
<1> QED
  BY <1>4, <1>5, Zenon

-----------------------------------------------------------------------------
(* Type correctness.                                                       *)

\* The reconciler starts well typed: empty stores, the seed table published.
LEMMA InitType == Init => TypeOK
<1> SUFFICES ASSUME Init PROVE TypeOK
  BY Zenon
<1>1. ApiTypeOK
  BY ReconcilerAssumption DEF Init, ApiTypeOK
<1>2. SupervisorTypeOK
  BY DEF Init, SupervisorTypeOK
<1>3. StoreTypeOK
  BY Zenon DEF Init, StoreTypeOK, EmptyRoutes, EmptyEndpoints, EndpointMap
<1>4. StreamTypeOK
  BY DEF Init, StreamTypeOK, Watches
<1>5. LoopTypeOK
  BY Zenon DEF Init, LoopTypeOK, IsTable
<1> QED
  BY <1>1, <1>2, <1>3, <1>4, <1>5, Zenon DEF TypeOK

\* The objects that an event carries keep the store well typed.
LEMMA UpdateType ==
  ASSUME StoreTypeOK, owed \in [Watches -> BOOLEAN],
         NEW w \in Watches, NEW k \in Keys(w), NEW obj \in Objects(w) \cup {Absent},
         Update(w, k, obj)
  PROVE  StoreTypeOK' /\ owed' \in [Watches -> BOOLEAN]
<1>1. CASE w = "HTTPRoute"
  <2>1. UpdateRoutes(k, obj) /\ k \in RouteKeys /\ obj \in RouteSpecs \cup {Bad, Absent}
    BY <1>1, Zenon DEF Update, Keys, Objects, RouteObjects
  <2> QED
    BY <2>1, Zenon DEF UpdateRoutes, StoreTypeOK, EndpointMap, Watches
<1>2. CASE w = "EndpointSlice"
  <2>1. UpdateEndpoints(k, obj) /\ k \in SliceNames /\ obj \in SliceSpecs \cup {Absent}
    BY <1>2, Zenon DEF Update, Keys, Objects
  <2>2. SliceService[k] \in Services
    BY <2>1, ReconcilerAssumption, Zenon
  <2>3. obj # Absent => parse_endpoint_slice(obj) \in SUBSET ReadyEndpoint
    BY <2>1, ReconcilerAssumption, Zenon
  <2>4. EndpointMap(endpoints)'
    BY <2>1, <2>2, <2>3, Zenon DEF UpdateEndpoints, StoreTypeOK, EndpointMap
  <2> QED
    BY <2>1, <2>4, Zenon DEF UpdateEndpoints, StoreTypeOK, Watches
<1> QED
  BY <1>1, <1>2, Zenon DEF Watches

\* A change of the cluster is queued as a well-typed event, or not at all.
LEMMA PublishType ==
  ASSUME StreamTypeOK, NEW w \in Watches, NEW k, NEW obj \in Objects(w) \cup {Absent},
         Publish(w, k, obj)
  PROVE  DOMAIN queue' = Watches /\ \A v \in Watches : queue'[v] \in Seq(Event(v))
<1> DEFINE e == [key |-> k, obj |-> obj]
<1>1. CASE k \in Keys(w)
  <2>1. e \in Event(w)
    BY <1>1, Zenon DEF Event
  <2> HIDE DEF e
  <2>2. Append(queue[w], e) \in Seq(Event(w))
    BY <2>1 DEF StreamTypeOK
  <2>3. queue' = queue \/ queue' = [queue EXCEPT ![w] = Append(queue[w], e)]
    BY Zenon DEF Publish, e
  <2> QED
    BY <2>2, <2>3, Zenon DEF StreamTypeOK
<1>2. CASE k \notin Keys(w)
  BY <1>2, Zenon DEF Publish, StreamTypeOK
<1> QED
  BY <1>1, <1>2, Zenon

\* Every step of the reconciler keeps the type invariant.
LEMMA NextType == TypeOK /\ [Next]_vars => TypeOK'
<1> SUFFICES ASSUME TypeOK, [Next]_vars PROVE TypeOK'
  BY Zenon
<1> USE DEF TypeOK, apiVars, supVars, storeVars, streamVars, loopVars, counters
<1>1. ASSUME NEW k \in RouteKeys, NEW obj \in RouteObjects \cup {Absent}, ChangeRoute(k, obj)
      PROVE  TypeOK'
  <2>1. DOMAIN queue' = Watches /\ \A v \in Watches : queue'[v] \in Seq(Event(v))
    <3>1. obj \in Objects("HTTPRoute") \cup {Absent} /\ "HTTPRoute" \in Watches
      BY Zenon DEF Objects, Watches
    <3> QED
      BY <1>1, <3>1, PublishType, Zenon DEF ChangeRoute
  <2>2. StreamTypeOK'
    BY <1>1, <2>1, Zenon DEF ChangeRoute, StreamTypeOK
  <2>3. ApiTypeOK'
    BY <1>1, ReconcilerAssumption DEF ChangeRoute, ApiTypeOK
  <2> QED
    BY <1>1, <2>2, <2>3, Zenon DEF ChangeRoute, SupervisorTypeOK, StoreTypeOK, LoopTypeOK
<1>2. ASSUME NEW k \in SliceNames, NEW obj \in SliceSpecs \cup {Absent}, ChangeSlice(k, obj)
      PROVE  TypeOK'
  <2>1. DOMAIN queue' = Watches /\ \A v \in Watches : queue'[v] \in Seq(Event(v))
    <3>1. obj \in Objects("EndpointSlice") \cup {Absent} /\ "EndpointSlice" \in Watches
      BY Zenon DEF Objects, Watches
    <3> QED
      BY <1>2, <3>1, PublishType, Zenon DEF ChangeSlice
  <2>2. StreamTypeOK'
    BY <1>2, <2>1, Zenon DEF ChangeSlice, StreamTypeOK
  <2>3. ApiTypeOK'
    BY <1>2, ReconcilerAssumption DEF ChangeSlice, ApiTypeOK
  <2> QED
    BY <1>2, <2>2, <2>3, Zenon DEF ChangeSlice, SupervisorTypeOK, StoreTypeOK, LoopTypeOK
<1>3. CASE RunFails
  <2>1. ApiTypeOK'
    BY <1>3, ReconcilerAssumption DEF RunFails, ApiTypeOK
  <2> QED
    BY <1>3, <2>1, Zenon DEF RunFails, SupervisorTypeOK, StoreTypeOK, StreamTypeOK, LoopTypeOK
<1>4. CASE Restart
  <2>1. SupervisorTypeOK'
    BY <1>4 DEF Restart, SupervisorTypeOK, Clamp
  <2> QED
    BY <1>4, <2>1, Zenon DEF Restart, ApiTypeOK, StoreTypeOK, StreamTypeOK, LoopTypeOK
<1>5. CASE RunStarts
  BY <1>5, Zenon DEF RunStarts, ApiTypeOK, SupervisorTypeOK, StoreTypeOK, StreamTypeOK, LoopTypeOK
<1>6. ASSUME NEW w \in Watches, HandleInit(w) PROVE TypeOK'
  <2>1. StoreTypeOK'
    BY <1>6, Zenon DEF HandleInit, StoreTypeOK, EmptyRoutes, EmptyEndpoints, EndpointMap
  <2>2. StreamTypeOK'
    BY <1>6, Zenon DEF HandleInit, StreamTypeOK
  <2> QED
    BY <1>6, <2>1, <2>2, Zenon DEF HandleInit, ApiTypeOK, SupervisorTypeOK, LoopTypeOK
<1>7. ASSUME NEW w \in Watches, ListSucceeds(w) PROVE TypeOK'
  <2> DEFINE items == {[key |-> k, obj |-> Api(w)[k]] : k \in {x \in Keys(w) : Api(w)[x] # Absent}}
  <2>1. items \subseteq Item(w)
    BY DEF ApiTypeOK, Api, Item, Keys, Objects, Watches
  <2> HIDE DEF items
  <2>2. listed' = [listed EXCEPT ![w] = items]
    BY <1>7, Zenon DEF ListSucceeds, items
  <2>3. StreamTypeOK'
    BY <1>7, <2>1, <2>2, Zenon DEF ListSucceeds, StreamTypeOK
  <2> QED
    BY <1>7, <2>3, Zenon DEF ListSucceeds, ApiTypeOK, SupervisorTypeOK, StoreTypeOK, LoopTypeOK
<1>8. ASSUME NEW w \in Watches, NEW item \in listed[w], HandleInitApply(w, item) PROVE TypeOK'
  <2>1. item.key \in Keys(w) /\ item.obj \in Objects(w)
    BY Zenon DEF StreamTypeOK, Item
  <2>2. StoreTypeOK' /\ owed' \in [Watches -> BOOLEAN]
    BY <1>8, <2>1, UpdateType, Zenon DEF HandleInitApply, StreamTypeOK
  <2>3. StreamTypeOK'
    BY <1>8, <2>2, Zenon DEF HandleInitApply, StreamTypeOK
  <2> QED
    BY <1>8, <2>2, <2>3, Zenon DEF HandleInitApply, ApiTypeOK, SupervisorTypeOK, LoopTypeOK
<1>9. ASSUME NEW w \in Watches, HandleInitDone(w) PROVE TypeOK'
  <2>1. StreamTypeOK'
    BY <1>9, Zenon DEF HandleInitDone, StreamTypeOK
  <2> QED
    BY <1>9, <2>1, Zenon DEF HandleInitDone, ApiTypeOK, SupervisorTypeOK, StoreTypeOK, LoopTypeOK
<1>10. ASSUME NEW w \in Watches, HandleChange(w) PROVE TypeOK'
  <2>1. queue[w] \in Seq(Event(w)) /\ queue[w] # <<>>
    BY <1>10, Zenon DEF HandleChange, StreamTypeOK
  <2>2. Head(queue[w]) \in Event(w) /\ Tail(queue[w]) \in Seq(Event(w))
    BY <2>1
  <2>3. Head(queue[w]).key \in Keys(w) /\ Head(queue[w]).obj \in Objects(w) \cup {Absent}
    BY <2>2, Zenon DEF Event
  <2>4. StoreTypeOK' /\ owed' \in [Watches -> BOOLEAN]
    BY <1>10, <2>3, UpdateType, Zenon DEF HandleChange, StreamTypeOK
  <2>5. StreamTypeOK'
    BY <1>10, <2>2, <2>4, Zenon DEF HandleChange, StreamTypeOK
  <2> QED
    BY <1>10, <2>4, <2>5, Zenon DEF HandleChange, ApiTypeOK, SupervisorTypeOK, LoopTypeOK
<1>11. ASSUME NEW w \in Watches, HandleErr(w) PROVE TypeOK'
  <2>1. StreamTypeOK'
    BY <1>11 DEF HandleErr, StreamTypeOK
  <2>2. ApiTypeOK'
    BY <1>11, ReconcilerAssumption DEF HandleErr, ApiTypeOK
  <2> QED
    BY <1>11, <2>1, <2>2, Zenon DEF HandleErr, SupervisorTypeOK, StoreTypeOK, LoopTypeOK
<1>12. ASSUME NEW w \in Watches, Reconnect(w) \/ NotifyOne(w) PROVE TypeOK'
  <2>1. StreamTypeOK'
    BY <1>12, Zenon DEF Reconnect, NotifyOne, StreamTypeOK
  <2> QED
    BY <1>12, <2>1, Zenon DEF Reconnect, NotifyOne, ApiTypeOK, SupervisorTypeOK, StoreTypeOK, LoopTypeOK
<1>13. CASE Notified
  BY <1>13, Zenon DEF Notified, ApiTypeOK, SupervisorTypeOK, StoreTypeOK, StreamTypeOK, LoopTypeOK
<1>14. CASE Compile
  <2>1. IsTable(compile(routes, endpoints))
    BY CompileType, Zenon DEF StoreTypeOK
  <2>2. LoopTypeOK'
    BY <1>14, <2>1, Zenon DEF Compile, LoopTypeOK
  <2> QED
    BY <1>14, <2>2, Zenon DEF Compile, ApiTypeOK, SupervisorTypeOK, StoreTypeOK, StreamTypeOK
<1>15. CASE Store
  <2>1. LoopTypeOK'
    BY <1>15, Zenon DEF Store, LoopTypeOK, IsTable
  <2> QED
    BY <1>15, <2>1, Zenon DEF Store, ApiTypeOK, SupervisorTypeOK, StoreTypeOK, StreamTypeOK
<1>16. CASE UNCHANGED vars
  BY <1>16, Zenon DEF vars, ApiTypeOK, SupervisorTypeOK, StoreTypeOK, StreamTypeOK, LoopTypeOK
<1> QED
  BY <1>1, <1>2, <1>3, <1>4, <1>5, <1>6, <1>7, <1>8, <1>9, <1>10, <1>11, <1>12, <1>13, <1>14,
     <1>15, <1>16, Zenon
  DEF Next, ApiStep, SupervisorStep, WatchStep, RebuildStep

\* The reconciler's state is well typed, and whatever `rebuild_loop` publishes is a table
\* whose every entry has an endpoint.
THEOREM TypeCorrect == Spec => []TypeOK
  BY InitType, NextType, PTL DEF Spec

-----------------------------------------------------------------------------
(* No lost update.                                                         *)

\* Nothing will make `rebuild_loop` compile again before the next change.
NothingPending == ~permit /\ \A w \in Watches : ~owed[w]

(***************************************************************************)
(* NoLostUpdate alone is not inductive: between `Compile` and `Store` the  *)
(* store may change under the table the loop holds, and then a permit or a *)
(* notification still owed must be left for the next round.                *)
(***************************************************************************)
RebuildInv ==
  NothingPending /\ Synced =>
    /\ rebuild = "waiting" => published = compile(routes, endpoints)
    /\ rebuild = "storing" => table = compile(routes, endpoints)

\* A task that changes the store while it is synced owes a notification afterwards.
LEMMA UpdateOwes ==
  ASSUME StreamTypeOK, NEW w \in Watches, NEW k, NEW obj, Update(w, k, obj)
  PROVE  owed'[w] \/ UNCHANGED <<routes, endpoints, owed>>
  BY Zenon DEF Update, UpdateRoutes, UpdateEndpoints, StreamTypeOK, Watches

\* Every step keeps RebuildInv.
LEMMA NextRebuild == TypeOK /\ RebuildInv /\ [Next]_vars => RebuildInv'
<1> SUFFICES ASSUME TypeOK, RebuildInv, [Next]_vars PROVE RebuildInv'
  BY Zenon
<1> USE DEF apiVars, supVars, storeVars, streamVars, loopVars, counters
<1>1. ASSUME UNCHANGED <<routes, endpoints, owed, synced, permit, rebuild, table, published>>
      PROVE  RebuildInv'
  BY <1>1, Zenon DEF RebuildInv, NothingPending, Synced
<1>2. CASE ApiStep \/ SupervisorStep \/ RunFails \/ UNCHANGED vars
  BY <1>1, <1>2, Zenon DEF ApiStep, ChangeRoute, ChangeSlice, SupervisorStep, RunStarts, Restart, RunFails,
     vars
<1>3. ASSUME NEW w \in Watches, ListSucceeds(w) \/ HandleErr(w) \/ Reconnect(w) PROVE RebuildInv'
  BY <1>1, <1>3, Zenon DEF ListSucceeds, HandleErr, Reconnect
<1>4. ASSUME NEW w \in Watches, HandleInit(w) PROVE RebuildInv'
  BY <1>4, Zenon DEF HandleInit, TypeOK, StreamTypeOK, RebuildInv, Synced
<1>5. ASSUME NEW w \in Watches, NEW k, NEW obj, Update(w, k, obj),
             UNCHANGED <<synced, permit, rebuild, table, published>>
      PROVE  RebuildInv'
  <2>1. CASE owed'[w]
    BY <2>1, Zenon DEF RebuildInv, NothingPending
  <2>2. CASE UNCHANGED <<routes, endpoints, owed>>
    BY <1>1, <1>5, <2>2, Zenon
  <2> QED
    BY <1>5, <2>1, <2>2, UpdateOwes, Zenon DEF TypeOK
<1>6. ASSUME NEW w \in Watches, NEW item \in listed[w], HandleInitApply(w, item) PROVE RebuildInv'
  BY <1>5, <1>6, Zenon DEF HandleInitApply
<1>7. ASSUME NEW w \in Watches, HandleInitDone(w) PROVE RebuildInv'
  BY <1>7, Zenon DEF HandleInitDone, TypeOK, StreamTypeOK, RebuildInv, NothingPending
<1>8. ASSUME NEW w \in Watches, HandleChange(w) PROVE RebuildInv'
  BY <1>5, <1>8, Zenon DEF HandleChange
<1>9. ASSUME NEW w \in Watches, NotifyOne(w) PROVE RebuildInv'
  BY <1>9, Zenon DEF NotifyOne, RebuildInv, NothingPending
<1>10. CASE Notified
  BY <1>10, Zenon DEF Notified, RebuildInv
<1>11. CASE Compile
  BY <1>11, Zenon DEF Compile, RebuildInv
<1>12. CASE Store
  BY <1>12, Zenon DEF Store, RebuildInv, NothingPending, Synced
<1> QED
  BY <1>2, <1>3, <1>4, <1>6, <1>7, <1>8, <1>9, <1>10, <1>11, <1>12, Zenon
  DEF Next, WatchStep, RebuildStep

\* The published table is never behind the store without a rebuild pending: the Notify
\* protocol between the watch tasks and `rebuild_loop` loses no update.
THEOREM NoUpdateIsLost == Spec => []NoLostUpdate
<1>1. Init => RebuildInv
  BY Zenon DEF Init, RebuildInv, Synced, Watches
<1>2. RebuildInv => NoLostUpdate
  BY Zenon DEF RebuildInv, NothingPending, NoLostUpdate, Idle
<1> QED
  BY <1>1, <1>2, TypeCorrect, NextRebuild, PTL DEF Spec

-----------------------------------------------------------------------------
(* The reconciler implements RouteFeed.                                    *)

\* A store that is being refilled from a list does not count as complete.
ListInv == \A w \in Watches : phase[w] \in {"list", "listing"} => ~synced[w]

\* Every step keeps ListInv.
LEMMA NextList == TypeOK /\ ListInv /\ [Next]_vars => ListInv'
<1> SUFFICES ASSUME TypeOK, ListInv, [Next]_vars PROVE ListInv'
  BY Zenon
<1> USE DEF apiVars, supVars, storeVars, streamVars, loopVars, counters, ListInv
<1>1. CASE UNCHANGED <<phase, synced>>
  BY <1>1, Zenon
<1>2. ASSUME NEW w \in Watches,
             HandleInit(w) \/ ListSucceeds(w) \/ HandleInitDone(w) \/ HandleErr(w) \/ Reconnect(w)
      PROVE  ListInv'
  BY <1>2, ZenonT(30) DEF HandleInit, ListSucceeds, HandleInitDone, HandleErr, Reconnect, TypeOK, StreamTypeOK
<1>3. ASSUME NEW w \in Watches, NEW item \in listed[w], HandleInitApply(w, item)
      PROVE  UNCHANGED <<phase, synced>>
  BY <1>3, Zenon DEF HandleInitApply
<1>4. ASSUME NEW w \in Watches, HandleChange(w) \/ NotifyOne(w)
      PROVE  UNCHANGED <<phase, synced>>
  BY <1>4, Zenon DEF HandleChange, NotifyOne
<1>5. CASE ApiStep \/ SupervisorStep \/ RunFails \/ RebuildStep \/ UNCHANGED vars
  BY <1>5, <1>1, Zenon DEF ApiStep, ChangeRoute, ChangeSlice, SupervisorStep, RunStarts, Restart, RunFails,
     RebuildStep, Notified, Compile, Store, vars
<1> QED
  BY <1>1, <1>2, <1>3, <1>4, <1>5, Zenon DEF Next, WatchStep

\* The states a step leaves alone, as RouteFeed sees them.
LEMMA FeedStutter ==
  ASSUME UNCHANGED <<routes, endpoints, owed, synced, permit, rebuild, table, published>>
  PROVE  UNCHANGED Feed!vars
  BY Zenon DEF Feed!vars, Due

\* A step after which a rebuild is due, and that leaves the loop alone, is an Observe step.
LEMMA FeedObserve ==
  ASSUME Due', UNCHANGED <<rebuild, table, published>>
  PROVE  Feed!Next
  BY Zenon DEF Feed!Next, Feed!Observe, Due

\* Every step of the reconciler is a step of RouteFeed or leaves its variables alone.
LEMMA FeedStep == TypeOK /\ ListInv /\ [Next]_vars => [Feed!Next]_Feed!vars
<1> SUFFICES ASSUME TypeOK, ListInv, [Next]_vars PROVE Feed!Next \/ UNCHANGED Feed!vars
  BY Zenon
<1> USE DEF apiVars, supVars, storeVars, streamVars, loopVars, counters
<1>1. CASE ApiStep \/ SupervisorStep \/ RunFails \/ UNCHANGED vars
  BY <1>1, FeedStutter, Zenon DEF ApiStep, ChangeRoute, ChangeSlice, SupervisorStep, RunStarts, Restart,
     RunFails, vars
<1>2. ASSUME NEW w \in Watches, ListSucceeds(w) \/ HandleErr(w) \/ Reconnect(w)
      PROVE  UNCHANGED Feed!vars
  BY <1>2, FeedStutter, Zenon DEF ListSucceeds, HandleErr, Reconnect
<1>3. ASSUME NEW w \in Watches, HandleInit(w) PROVE Feed!Next
  <2>1. Due'
    BY <1>3, Zenon DEF HandleInit, Due, TypeOK, StreamTypeOK
  <2> QED
    BY <1>3, <2>1, FeedObserve, Zenon DEF HandleInit
<1>4. ASSUME NEW w \in Watches, NEW k, NEW obj, Update(w, k, obj),
             UNCHANGED <<synced, permit, rebuild, table, published>>
      PROVE  Feed!Next \/ UNCHANGED Feed!vars
  <2>1. CASE owed'[w]
    BY <1>4, <2>1, FeedObserve, Zenon DEF Due
  <2>2. CASE UNCHANGED <<routes, endpoints, owed>>
    BY <1>4, <2>2, FeedStutter, Zenon
  <2> QED
    BY <1>4, <2>1, <2>2, UpdateOwes, Zenon DEF TypeOK
<1>5. ASSUME NEW w \in Watches, NEW item \in listed[w], HandleInitApply(w, item)
      PROVE  Feed!Next \/ UNCHANGED Feed!vars
  BY <1>4, <1>5, Zenon DEF HandleInitApply
<1>6. ASSUME NEW w \in Watches, HandleInitDone(w) PROVE Feed!Next
  <2>1. Due'
    BY <1>6, Zenon DEF HandleInitDone, Due, TypeOK, StreamTypeOK
  <2> QED
    BY <1>6, <2>1, FeedObserve, Zenon DEF HandleInitDone
<1>7. ASSUME NEW w \in Watches, HandleChange(w) PROVE Feed!Next \/ UNCHANGED Feed!vars
  BY <1>4, <1>7, Zenon DEF HandleChange
<1>8. ASSUME NEW w \in Watches, NotifyOne(w) PROVE Feed!Next
  <2>1. Due'
    BY <1>8, Zenon DEF NotifyOne, Due
  <2> QED
    BY <1>8, <2>1, FeedObserve, Zenon DEF NotifyOne
<1>9. CASE Notified
  <2>1. /\ Due' /\ rebuild # "storing" /\ rebuild' # "storing"
        /\ UNCHANGED published
    BY <1>9, Zenon DEF Notified, Due
  <2> QED
    BY <2>1, Zenon DEF Feed!Next, Feed!Observe
<1>10. CASE Compile
  <2>1. /\ Due /\ rebuild # "storing" /\ rebuild' = "storing"
        /\ table' = compile(routes, endpoints)
        /\ UNCHANGED <<routes, endpoints, published>>
    BY <1>10, Zenon DEF Compile, Due
  <2>2. Due' \in BOOLEAN
    BY Zenon DEF Due
  <2> QED
    BY <2>1, <2>2, Zenon DEF Feed!Next, Feed!Take
<1>11. CASE Store
  <2>1. /\ rebuild = "storing" /\ rebuild' # "storing"
        /\ published' = table
        /\ Due' = Due
        /\ UNCHANGED <<routes, endpoints>>
    BY <1>11, Zenon DEF Store, Due
  <2> QED
    BY <2>1, Zenon DEF Feed!Next, Feed!Publish
<1> QED
  BY <1>1, <1>2, <1>3, <1>5, <1>6, <1>7, <1>8, <1>9, <1>10, <1>11, Zenon
  DEF Next, WatchStep, RebuildStep

\* The reconciler implements the abstract feed: what it publishes, and when it owes a
\* rebuild, is as RouteFeed says, for every set of routes, services and slices.
THEOREM ReconcilerImplementsFeed == Spec => Feed!Spec
<1>1. Init => Feed!Init
  BY Zenon DEF Init, Feed!Init, Due, EmptyRoutes, EmptyEndpoints, Watches
<1>2. Init => ListInv
  BY Zenon DEF Init, ListInv, Watches
<1> QED
  BY <1>1, <1>2, TypeCorrect, NextList, FeedStep, PTL DEF Spec, Feed!Spec

\* A feed that owes nothing has published the observed state, whatever `compile` is.
THEOREM FeedCatchesUp == Feed!Spec => []Feed!CaughtUp
\* Feed!CaughtUp is not inductive: a snapshot in hand must be current too, unless another is due.
<1> DEFINE snap == IF rebuild = "storing" THEN {table} ELSE {}
           In   == ~Due => IF snap = {} THEN published = compile(routes, endpoints)
                                        ELSE snap = {compile(routes, endpoints)}
<1>1. Feed!Init => In
  BY Zenon DEF Feed!Init
<1>2. In /\ [Feed!Next]_Feed!vars => In'
  BY Zenon DEF Feed!Next, Feed!Observe, Feed!Take, Feed!Publish, Feed!vars
<1>3. In => Feed!CaughtUp
  BY Zenon DEF Feed!CaughtUp
<1> QED
  BY <1>1, <1>2, <1>3, PTL DEF Feed!Spec

\* Whenever no rebuild is due and none is in `table.store`, the data plane routes by the cluster
\* state that the watches have seen.
THEOREM ReconcilerCatchesUp == Spec => []Feed!CaughtUp
  BY ReconcilerImplementsFeed, FeedCatchesUp, PTL

-----------------------------------------------------------------------------
(* The store mirrors the cluster.                                          *)

\* The store holds what the cluster says of the object with key k.
Reflects(w, k) ==
  IF w = "HTTPRoute"
  THEN apiRoutes[k] # Bad => routes[k] = apiRoutes[k]
  ELSE OneSlice(SliceService[k]) =>
         endpoints[SliceService[k]] =
           IF apiSlices[k] = Absent THEN Absent ELSE parse_endpoint_slice(apiSlices[k])

Mentions(w, k) == \E j \in 1..Len(queue[w]) : queue[w][j].key = k

\* The last event for k that the stream has to deliver carries the object as it is now.
LastIsCurrent(w, k) ==
  \E j \in 1..Len(queue[w]) :
    /\ queue[w][j].key = k /\ queue[w][j].obj = Api(w)[k]
    /\ \A m \in j + 1..Len(queue[w]) : queue[w][m].key # k

\* No event for k is to come, and its object is in what is left of the list, or in the store.
ListIsCurrent(w, k) ==
  /\ ~Mentions(w, k)
  /\ \/ \E item \in listed[w] : item.key = k /\ item.obj = Api(w)[k]
     \/ Reflects(w, k) /\ \A item \in listed[w] : item.key # k

(***************************************************************************)
(* StoreMirrorsCluster speaks of a stream that has nothing left to deliver *)
(* and is not inductive.  While a stream is listing or watching, what the  *)
(* cluster says of every object is in its queue, or else in its list, or   *)
(* else in the store; a list names each object once and is read to its end *)
(* before the queue; and a list starts from an empty store.                *)
(***************************************************************************)
StreamInv(w) ==
  /\ phase[w] \in {"listing", "watching"} =>
       \A k \in Keys(w) : LastIsCurrent(w, k) \/ ListIsCurrent(w, k)
  /\ phase[w] \notin {"listing", "watching"} => queue[w] = <<>>
  /\ phase[w] # "listing" => listed[w] = {}
  /\ \A i, j \in listed[w] : i.key = j.key => i = j

\* No slice of the Service is watched.
Unwatched(s) == \A n \in SlicesOf(s) : ~InScope(n)

EmptyInv ==
  /\ \A k \in RouteKeys : ~InScope(k) => routes[k] = Absent
  /\ phase["HTTPRoute"] = "list" => routes = EmptyRoutes
  /\ phase["EndpointSlice"] = "list" => endpoints = EmptyEndpoints
  /\ phase["EndpointSlice"] \in {"list", "listing", "watching"} =>
       \A s \in Services : Unwatched(s) => endpoints[s] = Absent

MirrorInv == EmptyInv /\ \A w \in Watches : StreamInv(w)

\* A stream that a step leaves alone keeps its invariant if the store still reflects what it
\* reflected.
LEMMA StreamFrame ==
  ASSUME NEW w \in Watches, StreamInv(w),
         phase'[w] = phase[w], queue'[w] = queue[w], listed'[w] = listed[w],
         \A k \in Keys(w) : Api(w)'[k] = Api(w)[k],
         \A k \in Keys(w) : Reflects(w, k) => Reflects(w, k)'
  PROVE  StreamInv(w)'
<1>1. ASSUME NEW k \in Keys(w), LastIsCurrent(w, k) PROVE LastIsCurrent(w, k)'
  BY <1>1, Zenon DEF LastIsCurrent
<1>2. ASSUME NEW k \in Keys(w), ListIsCurrent(w, k) PROVE ListIsCurrent(w, k)'
  BY <1>2, Zenon DEF ListIsCurrent, Mentions
<1> QED
  BY <1>1, <1>2, Zenon DEF StreamInv

\* Handling an event that carries the current object makes the store reflect it.
LEMMA UpdateReflects ==
  ASSUME TypeOK, NEW w \in Watches, NEW k \in Keys(w), Update(w, k, Api(w)[k]), UNCHANGED apiVars
  PROVE  Reflects(w, k)'
<1>1. CASE w = "HTTPRoute"
  <2>1. k \in RouteKeys /\ UpdateRoutes(k, apiRoutes[k])
    BY <1>1, Zenon DEF Update, Keys, Api
  <2> QED
    BY <1>1, <2>1, Zenon DEF UpdateRoutes, Reflects, TypeOK, StoreTypeOK, apiVars
<1>2. CASE w = "EndpointSlice"
  <2>1. k \in SliceNames /\ UpdateEndpoints(k, apiSlices[k])
    BY <1>2, Zenon DEF Update, Keys, Api
  <2>2. SliceService[k] \in DOMAIN endpoints
    BY <2>1, ReconcilerAssumption, Zenon DEF TypeOK, StoreTypeOK, EndpointMap
  <2> QED
    BY <1>2, <2>1, <2>2, Zenon DEF UpdateEndpoints, Reflects, apiVars
<1> QED
  BY <1>1, <1>2, Zenon DEF Watches

\* Handling an event for one object leaves what the store says of the others alone: routes have
\* keys of their own, and two slices of one Service are none of Reflects' business.
LEMMA UpdateFrame ==
  ASSUME TypeOK, NEW w \in Watches, NEW k \in Keys(w), NEW obj, Update(w, k, obj),
         UNCHANGED apiVars
  PROVE  /\ \A v \in Watches : \A x \in Keys(v) :
              v # w \/ x # k => (Reflects(v, x) => Reflects(v, x)')
         /\ \A s \in Services : Unwatched(s) => endpoints'[s] = endpoints[s]
         /\ \A x \in RouteKeys : ~InScope(x) => routes'[x] = routes[x]
<1> USE DEF apiVars
<1>1. CASE w = "HTTPRoute"
  <2>1. k \in RouteKeys /\ UpdateRoutes(k, obj)
    BY <1>1, Zenon DEF Update, Keys
  <2>2. UNCHANGED endpoints /\ \A x \in RouteKeys : x # k => routes'[x] = routes[x]
    BY <2>1, Zenon DEF UpdateRoutes, TypeOK, StoreTypeOK
  <2> QED
    BY <1>1, <2>2, Zenon DEF Reflects, Keys, Watches, OneSlice, SlicesOf
<1>2. CASE w = "EndpointSlice"
  <2>1. k \in SliceNames /\ UpdateEndpoints(k, obj)
    BY <1>2, Zenon DEF Update, Keys
  <2>2. UNCHANGED routes /\ \A s \in Services : s # SliceService[k] => endpoints'[s] = endpoints[s]
    BY <2>1, Zenon DEF UpdateEndpoints, TypeOK, StoreTypeOK, EndpointMap
  <2>3. ASSUME NEW x \in SliceNames, x # k, OneSlice(SliceService[x])
        PROVE  SliceService[x] # SliceService[k] /\ SliceService[x] \in Services
    BY <2>1, <2>3, ReconcilerAssumption, Zenon DEF OneSlice, SlicesOf
  <2>4. ASSUME NEW x \in SliceNames, x # k, Reflects("EndpointSlice", x)
        PROVE  Reflects("EndpointSlice", x)'
    BY <2>2, <2>3, <2>4, Zenon DEF Reflects, OneSlice, SlicesOf
  <2>5. ASSUME NEW x \in RouteKeys, Reflects("HTTPRoute", x) PROVE Reflects("HTTPRoute", x)'
    BY <2>2, <2>5, Zenon DEF Reflects
  <2>6. \A s \in Services : Unwatched(s) => s # SliceService[k]
    BY <1>2, <2>1, Zenon DEF Keys, Unwatched, SlicesOf
  <2> QED
    BY <1>2, <2>2, <2>4, <2>5, <2>6, Zenon DEF Keys, Watches
<1> QED
  BY <1>1, <1>2, Zenon DEF Watches

\* A change of the cluster is queued on the stream that lists or watches it, after every other
\* event for its object; a stream that has not listed yet will find it in the list.
LEMMA ChangeMirror ==
  ASSUME TypeOK, MirrorInv, NEW w \in Watches, NEW k \in Keys(w), NEW obj,
         Publish(w, k, obj), Api(w)' = [Api(w) EXCEPT ![k] = obj],
         \A v \in Watches \ {w} : Api(v)' = Api(v),
         UNCHANGED <<phase, listed, routes, endpoints>>
  PROVE  MirrorInv'
<1>1. EmptyInv'
  BY Zenon DEF MirrorInv, EmptyInv, Unwatched, SlicesOf
<1>2. ASSUME NEW v \in Watches \ {w} PROVE StreamInv(v)'
  <2>1. queue'[v] = queue[v]
    BY Zenon DEF Publish, TypeOK, StreamTypeOK
  <2>2. \A x \in Keys(v) : Reflects(v, x) => Reflects(v, x)'
    BY Zenon DEF Reflects, Api, Watches, OneSlice, SlicesOf
  <2> QED
    BY <2>1, <2>2, StreamFrame, Zenon DEF MirrorInv
<1> DEFINE e == [key |-> k, obj |-> obj]
<1>3. /\ \A x \in Keys(w) : x # k => Api(w)'[x] = Api(w)[x]
      /\ Api(w)'[k] = obj
  BY Zenon DEF TypeOK, ApiTypeOK, Api, Keys, Watches
<1>4. ASSUME NEW x \in Keys(w), x # k, Reflects(w, x) PROVE Reflects(w, x)'
  BY <1>3, <1>4, Zenon DEF Reflects, Api, Watches, OneSlice, SlicesOf
<1>5. CASE phase[w] \in {"listing", "watching"}
  <2>1. queue'[w] = Append(queue[w], e) /\ queue[w] \in Seq(Event(w))
    BY <1>5, Zenon DEF Publish, TypeOK, StreamTypeOK
  <2>3. e.key = k /\ e.obj = obj
    BY Zenon
  <2> HIDE DEF e
  <2>2. /\ Len(queue'[w]) = Len(queue[w]) + 1 /\ Len(queue[w]) \in Nat
        /\ queue'[w][Len(queue[w]) + 1] = e
        /\ \A j \in 1..Len(queue[w]) : queue'[w][j] = queue[w][j]
    <3>1. Len(queue'[w]) = Len(queue[w]) + 1 /\ Len(queue[w]) \in Nat
      BY <2>1
    <3>2. queue'[w][Len(queue[w]) + 1] = e
      BY <2>1
    <3>3. \A j \in 1..Len(queue[w]) : queue'[w][j] = queue[w][j]
      BY <2>1
    <3> QED
      BY <3>1, <3>2, <3>3, Zenon
  <2>4. LastIsCurrent(w, k)'
    <3>1. Len(queue[w]) + 1 \in 1..Len(queue'[w])
      BY <2>2
    <3>2. \A m \in Len(queue[w]) + 1 + 1..Len(queue'[w]) : queue'[w][m].key # k
      BY <2>2, SMTT(30)
    <3> QED
      BY <1>3, <2>2, <2>3, <3>1, <3>2, Zenon DEF LastIsCurrent
  <2>5. ASSUME NEW x \in Keys(w), x # k, LastIsCurrent(w, x) PROVE LastIsCurrent(w, x)'
    <3>1. PICK j \in 1..Len(queue[w]) :
            /\ queue[w][j].key = x /\ queue[w][j].obj = Api(w)[x]
            /\ \A m \in j + 1..Len(queue[w]) : queue[w][m].key # x
      BY <2>5, Zenon DEF LastIsCurrent
    <3>2. j \in 1..Len(queue'[w])
      BY <2>2, SMTT(30)
    <3>3. ASSUME NEW m \in j + 1..Len(queue'[w]) PROVE queue'[w][m].key # x
      <4>1. CASE m = Len(queue[w]) + 1
        BY <2>2, <2>3, <2>5, <4>1, Zenon
      <4>2. CASE m # Len(queue[w]) + 1
        <5>1. m \in j + 1..Len(queue[w]) /\ m \in 1..Len(queue[w])
          BY <2>2, <4>2
        <5> QED
          BY <2>2, <3>1, <5>1, Zenon
      <4> QED
        BY <4>1, <4>2, Zenon
    <3> QED
      BY <1>3, <2>2, <2>5, <3>1, <3>2, <3>3, Zenon DEF LastIsCurrent
  <2>6. ASSUME NEW x \in Keys(w), x # k, ListIsCurrent(w, x) PROVE ListIsCurrent(w, x)'
    <3>1. ~Mentions(w, x)'
      BY <2>2, <2>3, <2>6, SMTT(30) DEF ListIsCurrent, Mentions
    <3> QED
      BY <1>3, <1>4, <2>6, <3>1, Zenon DEF ListIsCurrent
  <2>7. StreamInv(w)
    BY Zenon DEF MirrorInv
  <2>8. StreamInv(w)'
    BY <1>5, <2>4, <2>5, <2>6, <2>7, Zenon DEF StreamInv
  <2> QED
    BY <1>1, <1>2, <2>8, Zenon DEF MirrorInv
<1>6. CASE phase[w] \notin {"listing", "watching"}
  <2>1. queue'[w] = queue[w]
    BY <1>6, Zenon DEF Publish
  <2>2. StreamInv(w)'
    BY <1>6, <2>1, Zenon DEF MirrorInv, StreamInv
  <2> QED
    BY <1>1, <1>2, <2>2, Zenon DEF MirrorInv
<1> QED
  BY <1>5, <1>6, Zenon

\* The list that a stream gets holds every object as it is at that moment, and the store, which
\* `Event::Init` has cleared, reflects the absence of the others.
LEMMA ListMirror ==
  ASSUME TypeOK, MirrorInv, NEW w \in Watches, ListSucceeds(w)
  PROVE  MirrorInv'
<1> USE DEF apiVars, storeVars
<1>1. UNCHANGED <<apiRoutes, apiSlices, routes, endpoints, queue>>
  BY Zenon DEF ListSucceeds
<1>2. EmptyInv'
  BY <1>1, SMTT(30) DEF ListSucceeds, TypeOK, StreamTypeOK, MirrorInv, EmptyInv, Unwatched, SlicesOf
<1>3. ASSUME NEW v \in Watches \ {w} PROVE StreamInv(v)'
  <2>1. phase'[v] = phase[v] /\ queue'[v] = queue[v] /\ listed'[v] = listed[v]
    BY Zenon DEF ListSucceeds, TypeOK, StreamTypeOK
  <2>2. Api(v)' = Api(v)
    BY <1>1, Zenon DEF Api
  <2>3. \A x \in Keys(v) : Reflects(v, x) => Reflects(v, x)'
    BY <1>1, Zenon DEF Reflects, OneSlice, SlicesOf
  <2> QED
    BY <2>1, <2>2, <2>3, StreamFrame, Zenon DEF MirrorInv
<1> DEFINE present == {x \in Keys(w) : Api(w)[x] # Absent}
           items == {[key |-> x, obj |-> Api(w)[x]] : x \in present}
<1>4. /\ phase[w] = "list" /\ phase'[w] = "listing"
      /\ listed'[w] = items
      /\ queue'[w] = <<>>
      /\ Api(w)' = Api(w)
  BY Zenon DEF ListSucceeds, TypeOK, StreamTypeOK, MirrorInv, StreamInv, Api
<1>5. ASSUME NEW x \in Keys(w) PROVE ListIsCurrent(w, x)'
  <2>1. ~Mentions(w, x)'
    BY <1>4, SMTT(30) DEF Mentions
  <2>2. CASE Api(w)[x] # Absent
    <3>1. [key |-> x, obj |-> Api(w)[x]] \in items
      BY <2>2, Zenon
    <3> QED
      BY <1>4, <2>1, <3>1, Zenon DEF ListIsCurrent
  <2>3. CASE Api(w)[x] = Absent
    <3>1. \A item \in items : item.key # x
      BY <2>3, SMTT(30)
    <3>2. CASE w = "HTTPRoute"
      <4>1. routes'[x] = Absent /\ apiRoutes'[x] = Absent
        BY <1>1, <1>4, <2>3, <3>2, Zenon DEF MirrorInv, EmptyInv, EmptyRoutes, Keys, Api
      <4>2. Reflects(w, x)'
        BY <3>2, <4>1, Zenon DEF Reflects
      <4> QED
        BY <1>4, <2>1, <3>1, <4>2, Zenon DEF ListIsCurrent
    <3>3. CASE w = "EndpointSlice"
      <4>1. SliceService[x] \in Services
        BY <3>3, ReconcilerAssumption, Zenon DEF Keys
      <4>2. endpoints'[SliceService[x]] = Absent /\ apiSlices'[x] = Absent
        BY <1>1, <1>4, <2>3, <3>3, <4>1, Zenon DEF MirrorInv, EmptyInv, EmptyEndpoints, Api
      <4>3. Reflects(w, x)'
        BY <3>3, <4>2, Zenon DEF Reflects
      <4> QED
        BY <1>4, <2>1, <3>1, <4>3, Zenon DEF ListIsCurrent
    <3> QED
      BY <3>2, <3>3, Zenon DEF Watches
  <2> QED
    BY <2>2, <2>3, Zenon
<1>6. \A i, j \in items : i.key = j.key => i = j
  BY SMTT(30)
<1>7. StreamInv(w)'
  BY <1>4, <1>5, <1>6, Zenon DEF StreamInv
<1> QED
  BY <1>2, <1>3, <1>7, Zenon DEF MirrorInv

\* An object of the list moves into the store; one that has changed since is in the queue.
LEMMA ApplyMirror ==
  ASSUME TypeOK, MirrorInv, NEW w \in Watches, NEW item \in listed[w], HandleInitApply(w, item)
  PROVE  MirrorInv'
<1> USE DEF apiVars
<1>1. /\ UNCHANGED <<apiRoutes, apiSlices, phase, queue>>
      /\ Update(w, item.key, item.obj)
      /\ phase[w] = "listing"
      /\ listed'[w] = listed[w] \ {item}
      /\ \A v \in Watches \ {w} : listed'[v] = listed[v]
  BY Zenon DEF HandleInitApply, TypeOK, StreamTypeOK
<1>2. item.key \in Keys(w)
  BY Zenon DEF TypeOK, StreamTypeOK, Item
<1>3. /\ \A v \in Watches : \A x \in Keys(v) :
           v # w \/ x # item.key => (Reflects(v, x) => Reflects(v, x)')
      /\ \A s \in Services : Unwatched(s) => endpoints'[s] = endpoints[s]
      /\ \A x \in RouteKeys : ~InScope(x) => routes'[x] = routes[x]
  BY <1>1, <1>2, UpdateFrame, Zenon
<1>4. \A v \in Watches : Api(v)' = Api(v)
  BY <1>1, Zenon DEF Api
<1>5. EmptyInv'
  <2>1. CASE w = "HTTPRoute"
    BY <1>1, <1>3, <2>1, Zenon DEF MirrorInv, EmptyInv, Update, UpdateRoutes, Unwatched, SlicesOf
  <2>2. CASE w = "EndpointSlice"
    BY <1>1, <1>3, <2>2, Zenon DEF MirrorInv, EmptyInv, Update, UpdateEndpoints, Unwatched, SlicesOf
  <2> QED
    BY <2>1, <2>2, Zenon DEF Watches
<1>6. ASSUME NEW v \in Watches \ {w} PROVE StreamInv(v)'
  BY <1>1, <1>3, <1>4, StreamFrame, Zenon DEF MirrorInv
<1>7. StreamInv(w)
  BY Zenon DEF MirrorInv
<1>8. ASSUME NEW x \in Keys(w) PROVE LastIsCurrent(w, x)' \/ ListIsCurrent(w, x)'
  <2>1. CASE LastIsCurrent(w, x)
    BY <1>1, <1>4, <2>1, Zenon DEF LastIsCurrent
  <2>2. CASE ListIsCurrent(w, x) /\ x # item.key
    <3>1. \A i \in listed[w] : i.key = x => i \in listed'[w]
      BY <1>1, <2>2, Zenon
    <3>2. \A i \in listed'[w] : i \in listed[w]
      BY <1>1, Zenon
    <3> QED
      BY <1>1, <1>3, <1>4, <2>2, <3>1, <3>2, Zenon DEF ListIsCurrent, Mentions
  <2>3. CASE ListIsCurrent(w, x) /\ x = item.key
    <3>1. \A i \in listed[w] : i.key = x => i = item
      BY <1>7, <2>3, Zenon DEF StreamInv
    <3>2. item.obj = Api(w)[x]
      BY <2>3, <3>1, Zenon DEF ListIsCurrent
    <3>3. Reflects(w, x)'
      BY <1>1, <1>2, <2>3, <3>2, UpdateReflects, Zenon
    <3>4. \A i \in listed'[w] : i.key # x
      BY <1>1, <3>1, Zenon
    <3> QED
      BY <1>1, <2>3, <3>3, <3>4, Zenon DEF ListIsCurrent, Mentions
  <2> QED
    BY <1>1, <1>7, <2>1, <2>2, <2>3, Zenon DEF StreamInv
<1>9. StreamInv(w)'
  BY <1>1, <1>7, <1>8, Zenon DEF StreamInv
<1> QED
  BY <1>5, <1>6, <1>9, Zenon DEF MirrorInv

\* A change moves from the queue into the store, and is the last word on its object unless
\* there is another one behind it.
LEMMA HandleMirror ==
  ASSUME TypeOK, MirrorInv, NEW w \in Watches, HandleChange(w)
  PROVE  MirrorInv'
<1> USE DEF apiVars
<1> DEFINE e == Head(queue[w])
           q == queue[w]
<1>1. /\ UNCHANGED <<apiRoutes, apiSlices, phase, listed>>
      /\ Update(w, e.key, e.obj)
      /\ phase[w] = "watching"
      /\ q # <<>> /\ q \in Seq(Event(w))
      /\ queue'[w] = Tail(q)
      /\ \A v \in Watches \ {w} : queue'[v] = queue[v]
  BY Zenon DEF HandleChange, TypeOK, StreamTypeOK
<1>2. /\ Len(q) \in Nat \ {0} /\ Len(queue'[w]) = Len(q) - 1
      /\ e = q[1] /\ e \in Event(w)
      /\ \A j \in 1..Len(q) - 1 : queue'[w][j] = q[j + 1]
  <2>1. q \in Seq(Event(w)) /\ q # <<>> /\ queue'[w] = Tail(q)
    BY <1>1, Zenon
  <2> HIDE DEF q
  <2>2. Len(q) \in Nat \ {0} /\ q[1] \in Event(w) /\ Len(Tail(q)) = Len(q) - 1
    BY <2>1
  <2>3. \A j \in 1..Len(q) - 1 : Tail(q)[j] = q[j + 1]
    BY <2>1
  <2>4. e = q[1]
    BY <2>1 DEF q
  <2> QED
    BY <2>1, <2>2, <2>3, <2>4, Zenon
<1>3. e.key \in Keys(w)
  BY <1>2, Zenon DEF Event
<1> HIDE DEF e, q
<1>4. /\ \A v \in Watches : \A x \in Keys(v) :
           v # w \/ x # e.key => (Reflects(v, x) => Reflects(v, x)')
      /\ \A s \in Services : Unwatched(s) => endpoints'[s] = endpoints[s]
      /\ \A x \in RouteKeys : ~InScope(x) => routes'[x] = routes[x]
  BY <1>1, <1>3, UpdateFrame, Zenon
<1>5. \A v \in Watches : Api(v)' = Api(v)
  BY <1>1, Zenon DEF Api
<1>6. EmptyInv'
  <2>1. CASE w = "HTTPRoute"
    BY <1>1, <1>4, <2>1, Zenon DEF MirrorInv, EmptyInv, Update, UpdateRoutes, Unwatched, SlicesOf
  <2>2. CASE w = "EndpointSlice"
    BY <1>1, <1>4, <2>2, Zenon DEF MirrorInv, EmptyInv, Update, UpdateEndpoints, Unwatched, SlicesOf
  <2> QED
    BY <2>1, <2>2, Zenon DEF Watches
<1>7. ASSUME NEW v \in Watches \ {w} PROVE StreamInv(v)'
  BY <1>1, <1>4, <1>5, StreamFrame, Zenon DEF MirrorInv
<1>8. StreamInv(w) /\ listed[w] = {}
  BY <1>1, Zenon DEF MirrorInv, StreamInv
<1>9. ASSUME NEW x \in Keys(w) PROVE LastIsCurrent(w, x)' \/ ListIsCurrent(w, x)'
  <2>1. CASE LastIsCurrent(w, x)
    <3>1. PICK j \in 1..Len(q) :
            /\ q[j].key = x /\ q[j].obj = Api(w)[x]
            /\ \A m \in j + 1..Len(q) : q[m].key # x
      BY <2>1, Zenon DEF LastIsCurrent, q
    <3>2. CASE j = 1
      <4>1. e.key = x /\ e.obj = Api(w)[x]
        BY <1>2, <3>1, <3>2, Zenon
      <4>2. Reflects(w, x)'
        BY <1>1, <1>3, <4>1, UpdateReflects, Zenon
      <4>3. ASSUME NEW m \in 1..Len(queue'[w])
            PROVE  m + 1 \in j + 1..Len(q) /\ queue'[w][m] = q[m + 1]
        <5>1. m \in 1..Len(q) - 1
          BY <1>2, Zenon
        <5> QED
          BY <1>2, <3>2, <5>1
      <4>4. ~Mentions(w, x)'
        BY <3>1, <4>3, Zenon DEF Mentions
      <4> QED
        BY <1>1, <1>8, <4>2, <4>4, Zenon DEF ListIsCurrent
    <3>3. CASE j > 1
      <4>1. j - 1 \in 1..Len(queue'[w]) /\ queue'[w][j - 1] = q[j]
        BY <1>2, <3>3, SMTT(30)
      <4>2. \A m \in j - 1 + 1..Len(queue'[w]) : queue'[w][m].key # x
        BY <1>2, <3>1, <3>3, SMTT(30)
      <4> QED
        BY <1>5, <3>1, <4>1, <4>2, Zenon DEF LastIsCurrent
    <3> QED
      BY <1>2, <3>2, <3>3, SMTT(30)
  <2>2. CASE ListIsCurrent(w, x)
    <3>1. \A j \in 1..Len(q) : q[j].key # x
      BY <2>2, Zenon DEF ListIsCurrent, Mentions, q
    <3>2. x # e.key /\ ~Mentions(w, x)'
      BY <1>2, <3>1, SMTT(30) DEF Mentions
    <3> QED
      BY <1>1, <1>4, <1>8, <2>2, <3>2, Zenon DEF ListIsCurrent
  <2> QED
    BY <1>1, <1>8, <2>1, <2>2, Zenon DEF StreamInv
<1>10. StreamInv(w)'
  BY <1>1, <1>8, <1>9, Zenon DEF StreamInv
<1> QED
  BY <1>6, <1>7, <1>10, Zenon DEF MirrorInv

\* A step that changes neither the stores and streams nor an object that is watched.
LEMMA QuietMirror ==
  ASSUME MirrorInv, UNCHANGED <<routes, endpoints, phase, listed, queue>>,
         \A w \in Watches : \A x \in Keys(w) : Api(w)'[x] = Api(w)[x]
  PROVE  MirrorInv'
<1>1. EmptyInv'
  BY Zenon DEF MirrorInv, EmptyInv, Unwatched, SlicesOf
<1>2. ASSUME NEW w \in Watches PROVE StreamInv(w)'
  <2>1. \A x \in Keys(w) : Reflects(w, x) => Reflects(w, x)'
    BY Zenon DEF Reflects, Api, Watches, OneSlice, SlicesOf
  <2> QED
    BY <2>1, StreamFrame, Zenon DEF MirrorInv
<1> QED
  BY <1>1, <1>2, Zenon DEF MirrorInv

\* Every step keeps MirrorInv.
LEMMA NextMirror == TypeOK /\ MirrorInv /\ [Next]_vars => MirrorInv'
<1> SUFFICES ASSUME TypeOK, MirrorInv, [Next]_vars PROVE MirrorInv'
  BY Zenon
<1> USE DEF apiVars, supVars, storeVars, streamVars, loopVars, counters
<1>1. ASSUME UNCHANGED <<apiRoutes, apiSlices, routes, endpoints, phase, listed, queue>>
      PROVE  MirrorInv'
  BY <1>1, QuietMirror, Zenon DEF Api
<1>2. ASSUME NEW k \in RouteKeys, NEW obj, ChangeRoute(k, obj) PROVE MirrorInv'
  <2>1. /\ Api("HTTPRoute")' = [Api("HTTPRoute") EXCEPT ![k] = obj]
        /\ \A v \in Watches \ {"HTTPRoute"} : Api(v)' = Api(v)
    BY <1>2, Zenon DEF ChangeRoute, Api, Watches
  <2>2. CASE k \in Keys("HTTPRoute")
    BY <1>2, <2>1, <2>2, ChangeMirror, Zenon DEF ChangeRoute, Watches
  <2>3. CASE k \notin Keys("HTTPRoute")
    <3>1. UNCHANGED <<routes, endpoints, phase, listed, queue>>
      BY <1>2, <2>3, Zenon DEF ChangeRoute, Publish
    <3>2. \A x \in Keys("HTTPRoute") : Api("HTTPRoute")'[x] = Api("HTTPRoute")[x]
      BY <2>1, <2>3, Zenon DEF Api, Keys, TypeOK, ApiTypeOK
    <3>3. \A w \in Watches : \A x \in Keys(w) : Api(w)'[x] = Api(w)[x]
      BY <2>1, <3>2, Zenon
    <3> QED
      BY <3>1, <3>3, QuietMirror, Zenon
  <2> QED
    BY <2>2, <2>3, Zenon
<1>3. ASSUME NEW k \in SliceNames, NEW obj, ChangeSlice(k, obj) PROVE MirrorInv'
  <2>1. /\ Api("EndpointSlice")' = [Api("EndpointSlice") EXCEPT ![k] = obj]
        /\ \A v \in Watches \ {"EndpointSlice"} : Api(v)' = Api(v)
    BY <1>3, Zenon DEF ChangeSlice, Api, Watches
  <2>2. CASE k \in Keys("EndpointSlice")
    BY <1>3, <2>1, <2>2, ChangeMirror, Zenon DEF ChangeSlice, Watches
  <2>3. CASE k \notin Keys("EndpointSlice")
    <3>1. UNCHANGED <<routes, endpoints, phase, listed, queue>>
      BY <1>3, <2>3, Zenon DEF ChangeSlice, Publish
    <3>2. \A x \in Keys("EndpointSlice") : Api("EndpointSlice")'[x] = Api("EndpointSlice")[x]
      BY <2>1, <2>3, Zenon DEF Api, Keys, TypeOK, ApiTypeOK
    <3>3. \A w \in Watches : \A x \in Keys(w) : Api(w)'[x] = Api(w)[x]
      BY <2>1, <3>2, Zenon
    <3> QED
      BY <3>1, <3>3, QuietMirror, Zenon
  <2> QED
    BY <2>2, <2>3, Zenon
<1>4. ASSUME NEW w \in Watches, HandleInit(w) PROVE MirrorInv'
  <2>1. /\ UNCHANGED <<apiRoutes, apiSlices, listed, queue>>
        /\ phase[w] = "connect" /\ phase'[w] = "list"
        /\ \A v \in Watches \ {w} : phase'[v] = phase[v]
    BY <1>4, Zenon DEF HandleInit, TypeOK, StreamTypeOK
  <2>2. StreamInv(w)'
    BY <2>1, Zenon DEF MirrorInv, StreamInv
  <2>3. ASSUME NEW v \in Watches \ {w} PROVE StreamInv(v)'
    <3>1. Api(v)' = Api(v)
      BY <2>1, Zenon DEF Api
    <3>2. \A x \in Keys(v) : Reflects(v, x) => Reflects(v, x)'
      BY <1>4, <2>1, Zenon DEF HandleInit, Reflects, Watches, OneSlice, SlicesOf
    <3> QED
      BY <2>1, <3>1, <3>2, StreamFrame, Zenon DEF MirrorInv
  <2>4. EmptyInv'
    BY <1>4, <2>1, Zenon DEF HandleInit, MirrorInv, EmptyInv, EmptyRoutes, EmptyEndpoints, Watches, Unwatched,
       SlicesOf
  <2> QED
    BY <2>2, <2>3, <2>4, Zenon DEF MirrorInv
<1>5. ASSUME NEW w \in Watches, HandleInitDone(w) \/ HandleErr(w) \/ Reconnect(w) PROVE MirrorInv'
  <2>1. /\ UNCHANGED <<apiRoutes, apiSlices, routes, endpoints>>
        /\ \A v \in Watches \ {w} :
              phase'[v] = phase[v] /\ listed'[v] = listed[v] /\ queue'[v] = queue[v]
    BY <1>5, Zenon DEF HandleInitDone, HandleErr, Reconnect, TypeOK, StreamTypeOK
  <2>2. /\ \A v \in Watches : Api(v)' = Api(v)
        /\ \A v \in Watches : \A x \in Keys(v) : Reflects(v, x) => Reflects(v, x)'
    BY <2>1, Zenon DEF Api, Reflects, OneSlice, SlicesOf
  <2>3. ASSUME NEW v \in Watches \ {w} PROVE StreamInv(v)'
    BY <2>1, <2>2, StreamFrame, Zenon DEF MirrorInv
  <2>4. ASSUME HandleInitDone(w) PROVE StreamInv(w)'
    <3>1. /\ UNCHANGED <<listed, queue>> /\ listed[w] = {}
          /\ phase[w] = "listing" /\ phase'[w] = "watching"
      BY <2>4, Zenon DEF HandleInitDone, TypeOK, StreamTypeOK
    <3>2. \A x \in Keys(w) : LastIsCurrent(w, x) => LastIsCurrent(w, x)'
      BY <2>2, <3>1, Zenon DEF LastIsCurrent
    <3>3. \A x \in Keys(w) : ListIsCurrent(w, x) => ListIsCurrent(w, x)'
      BY <2>2, <3>1, Zenon DEF ListIsCurrent, Mentions
    <3> QED
      BY <3>1, <3>2, <3>3, Zenon DEF MirrorInv, StreamInv
  <2>5. ASSUME HandleErr(w) \/ Reconnect(w) PROVE StreamInv(w)'
    BY <2>5, Zenon DEF HandleErr, Reconnect, TypeOK, StreamTypeOK, MirrorInv, StreamInv
  <2>6. EmptyInv'
    BY <1>5, <2>1, Zenon DEF HandleInitDone, HandleErr, Reconnect, TypeOK, StreamTypeOK, MirrorInv, EmptyInv,
       Watches, Unwatched, SlicesOf
  <2> QED
    BY <1>5, <2>3, <2>4, <2>5, <2>6, Zenon DEF MirrorInv
<1>6. ASSUME NEW w \in Watches, NotifyOne(w) PROVE MirrorInv'
  BY <1>1, <1>6, Zenon DEF NotifyOne
<1>7. CASE SupervisorStep \/ RunFails \/ RebuildStep \/ UNCHANGED vars
  BY <1>1, <1>7, Zenon DEF SupervisorStep, RunStarts, Restart, RunFails, RebuildStep, Notified, Compile,
     Store, vars
<1> QED
  BY <1>2, <1>3, <1>4, <1>5, <1>6, <1>7, ListMirror, ApplyMirror, HandleMirror, Zenon
  DEF Next, ApiStep, WatchStep

\* A watch task that has handled everything its stream delivered holds the cluster's routes and
\* endpoints, however changes, lists, errors and relists came in between.
THEOREM StoreFollowsCluster == Spec => []StoreMirrorsCluster
<1>1. Init => MirrorInv
  BY Zenon DEF Init, MirrorInv, EmptyInv, StreamInv, Watches, EmptyRoutes
<1>2. MirrorInv => StoreMirrorsCluster
  <2> SUFFICES ASSUME MirrorInv PROVE StoreMirrorsCluster
    BY Zenon
  <2>1. ASSUME NEW w \in Watches, UpToDate(w), NEW k \in Keys(w) PROVE Reflects(w, k)
    <3>1. StreamInv(w) /\ phase[w] = "watching" /\ queue[w] = <<>>
      BY <2>1, Zenon DEF MirrorInv, UpToDate
    <3>2. ~LastIsCurrent(w, k)
      BY <3>1 DEF LastIsCurrent
    <3>3. ListIsCurrent(w, k)
      BY <3>1, <3>2, Zenon DEF StreamInv
    <3> QED
      BY <3>1, <3>3, <2>1, Zenon DEF ListIsCurrent, StreamInv, UpToDate
  <2>2. ASSUME UpToDate("HTTPRoute"), NEW k \in RouteKeys,
               ~(k \in Keys("HTTPRoute") /\ apiRoutes[k] = Bad)
        PROVE  routes[k] = OnceRoutes(Keys("HTTPRoute"))[k]
    <3>1. CASE InScope(k)
      <4>1. k \in Keys("HTTPRoute") /\ "HTTPRoute" \in Watches
        BY <3>1, Zenon DEF Keys, Watches
      <4>2. Reflects("HTTPRoute", k)
        BY <2>1, <2>2, <4>1, Zenon
      <4> QED
        BY <2>2, <4>1, <4>2, Zenon DEF Reflects, OnceRoutes
    <3>2. CASE ~InScope(k)
      <4>1. k \notin Keys("HTTPRoute") /\ routes[k] = Absent
        BY <3>2, Zenon DEF Keys, MirrorInv, EmptyInv
      <4> QED
        BY <4>1, Zenon DEF OnceRoutes
    <3> QED
      BY <3>1, <3>2, Zenon
  <2>3. ASSUME UpToDate("EndpointSlice"), NEW s \in Services, OneSlice(s)
        PROVE  endpoints[s] \in OnceEndpoints(Keys("EndpointSlice"), s)
    <3> DEFINE watched == SlicesOf(s) \cap Keys("EndpointSlice")
    <3>1. CASE Unwatched(s)
      <4>1. endpoints[s] = Absent
        BY <2>3, <3>1, Zenon DEF MirrorInv, EmptyInv, UpToDate
      <4>2. watched = {}
        BY <3>1, Zenon DEF Unwatched, Keys
      <4> QED
        BY <4>1, <4>2, Zenon DEF OnceEndpoints
    <3>2. CASE ~Unwatched(s)
      <4>1. PICK n \in SliceNames : watched = {n} /\ SliceService[n] = s /\ n \in Keys("EndpointSlice")
        BY <2>3, <3>2, Zenon DEF Unwatched, OneSlice, SlicesOf, Keys
      <4>2. Reflects("EndpointSlice", n)
        BY <2>1, <2>3, <4>1, Zenon DEF Watches
      <4>3. endpoints[s] = IF apiSlices[n] = Absent THEN Absent ELSE parse_endpoint_slice(apiSlices[n])
        BY <2>3, <4>1, <4>2, Zenon DEF Reflects
      <4> QED
        BY <4>1, <4>3, Zenon DEF OnceEndpoints
    <3> QED
      BY <3>1, <3>2, Zenon
  <2> QED
    BY <2>2, <2>3, Zenon DEF StoreMirrorsCluster
<1> QED
  BY <1>1, <1>2, TypeCorrect, NextMirror, PTL DEF Spec

\* Nothing is left to be delivered, notified or rebuilt.
Quiescent == Idle /\ \A w \in Watches : UpToDate(w)

\* Whenever the reconciler has nothing left to do, the data plane has the table that a list of
\* the objects which `run` watches gives at that moment: what the watch tasks hold and what the
\* rebuild loop published agree end to end.  `reconcile_once` lists every namespace, so the
\* table is the one it would build when the controller is not restricted to one.
THEOREM QuiescentIsReconciled ==
  Spec => [](Quiescent /\ SimpleCluster => /\ published \in WatchedTables
                                           /\ Namespace = Any => published \in reconcile_once)
<1>1. ASSUME TypeOK, NoLostUpdate, StoreMirrorsCluster, Quiescent, SimpleCluster
      PROVE  published \in WatchedTables
  <2> DEFINE keys == Keys("HTTPRoute")
             names == Keys("EndpointSlice")
  <2>1. published = compile(routes, endpoints)
    BY <1>1, Zenon DEF Quiescent, NoLostUpdate, Synced, UpToDate
  <2>2. routes = OnceRoutes(keys)
    <3>1. \A k \in RouteKeys : routes[k] = OnceRoutes(keys)[k]
      BY <1>1, Zenon DEF Quiescent, SimpleCluster, StoreMirrorsCluster, Watches
    <3> QED
      BY <1>1, <3>1, Zenon DEF OnceRoutes, TypeOK, StoreTypeOK
  <2>3. \A s \in Services : endpoints[s] \in OnceEndpoints(names, s)
    BY <1>1, Zenon DEF Quiescent, SimpleCluster, StoreMirrorsCluster, Watches
  <2>4. endpoints \in [Services -> UNION {OnceEndpoints(names, s) : s \in Services}]
    BY <1>1, <2>3, Zenon DEF TypeOK, StoreTypeOK, EndpointMap
  <2> HIDE DEF keys, names
  <2>5. published \in OnceTables(keys, names)
    BY <2>1, <2>2, <2>3, <2>4, Zenon DEF OnceTables
  <2> QED
    BY <2>5, Zenon DEF WatchedTables, keys, names
<1>2. Namespace = Any => WatchedTables = reconcile_once
  <2> SUFFICES ASSUME Namespace = Any PROVE WatchedTables = reconcile_once
    BY Zenon
  <2>1. Keys("HTTPRoute") = RouteKeys /\ Keys("EndpointSlice") = SliceNames
    BY Zenon DEF Keys, InScope
  <2> QED
    BY <2>1, Zenon DEF WatchedTables, reconcile_once
<1> DEFINE Agrees == /\ published \in WatchedTables
                     /\ Namespace = Any => published \in reconcile_once
<1>3. TypeOK /\ NoLostUpdate /\ StoreMirrorsCluster => (Quiescent /\ SimpleCluster => Agrees)
  BY <1>1, <1>2, Zenon
<1> QED
  BY <1>3, TypeCorrect, NoUpdateIsLost, StoreFollowsCluster, PTL

=============================================================================
