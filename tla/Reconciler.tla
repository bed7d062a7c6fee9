----------------------------- MODULE Reconciler -----------------------------
(***************************************************************************)
(* The Gateway API reconciler (crates/core/src/gateway.rs, `run`): two     *)
(* watch tasks keep the observed cluster state, a rebuild task compiles it *)
(* into a route table whenever it has been notified of a change and swaps  *)
(* the table into the `SharedRouteTable` the data plane reads.             *)
(*                                                                         *)
(* The API server and the `kube` watch stream are external.  A stream      *)
(* delivers Init, then every object of a list as InitApply, then InitDone, *)
(* then the changes made since the list, in order; it may fail at any      *)
(* point after Init, and what it had not delivered is then lost.           *)
(***************************************************************************)
EXTENDS ClusterState, Sequences

CONSTANTS
  SliceNames,    \* EndpointSlice objects
  SliceSpecs,    \* contents of a slice: [ports, endpoints]
  SliceService,  \* the Service a slice is labelled with
  Bad,           \* an HTTPRoute whose spec does not parse
  Seed,          \* entries of the table the proxy starts with
  MaxChanges,    \* bound on the changes made to the cluster
  MaxFailures    \* bound on the failures of the API server

ASSUME ReconcilerAssumption ==
  /\ SliceService \in [SliceNames -> Services]
  \* a Service and its slices are of one namespace
  /\ \A m, n \in SliceNames : SliceService[m] = SliceService[n] => NamespaceOf[m] = NamespaceOf[n]
  /\ \A s \in SliceSpecs : parse_endpoint_slice(s) \in SUBSET ReadyEndpoint
  /\ Bad \notin RouteSpecs \cup {Absent}
  /\ Absent \notin SliceSpecs
  /\ MaxChanges \in Nat /\ MaxFailures \in Nat

Watches == {"HTTPRoute", "EndpointSlice"}

VARIABLES
  apiRoutes,   \* the HTTPRoutes of the cluster (external)
  apiSlices,   \* the EndpointSlices of the cluster (external)
  supervisor,  \* `start_k8s_reconciler`: "starting", "sleeping" or "running"
  backoff,     \* its restart delay, in seconds
  routes,      \* `ClusterState.routes`
  endpoints,   \* `ClusterState.endpoints`
  phase,       \* where each watch stream is
  listed,      \* objects of the list a stream has still to deliver
  queue,       \* changes since the list a stream has still to deliver
  owed,        \* the watch task has changed the state and not yet notified
  synced,      \* the store reflects a complete list (history variable)
  permit,      \* `dirty`: the stored permit of the Notify
  rebuild,     \* `rebuild_loop`: "waiting", "debounce" or "storing"
  table,       \* its local `table`
  published,   \* `SharedRouteTable.inner`
  changes, failures

apiVars    == <<apiRoutes, apiSlices>>
supVars    == <<supervisor, backoff>>
storeVars  == <<routes, endpoints>>
streamVars == <<phase, listed, queue>>
loopVars   == <<rebuild, table, published>>
counters   == <<changes, failures>>
vars == <<apiVars, supVars, storeVars, streamVars, owed, synced, permit, loopVars, counters>>

RouteObjects == RouteSpecs \cup {Bad}

\* `run` watches one namespace when it is configured with one, and all of them otherwise.
InScope(k) == Namespace = Any \/ NamespaceOf[k] = Namespace

\* The objects that a watch lists and hears of.
Keys(w)    == IF w = "HTTPRoute"
              THEN {k \in RouteKeys : InScope(k)} ELSE {n \in SliceNames : InScope(n)}
Objects(w) == IF w = "HTTPRoute" THEN RouteObjects ELSE SliceSpecs
Api(w)     == IF w = "HTTPRoute" THEN apiRoutes ELSE apiSlices

Item(w)  == [key : Keys(w), obj : Objects(w)]
\* obj is Absent in a Delete event, which carries only the key that matters.
Event(w) == [key : Keys(w), obj : Objects(w) \cup {Absent}]

EmptyRoutes    == [k \in RouteKeys |-> Absent]
EmptyEndpoints == [s \in Services |-> Absent]

Init ==
  /\ apiRoutes \in [RouteKeys -> RouteObjects \cup {Absent}]
  /\ apiSlices \in [SliceNames -> SliceSpecs \cup {Absent}]
  /\ supervisor = "starting"
  /\ backoff = 1
  /\ routes = EmptyRoutes
  /\ endpoints = EmptyEndpoints
  /\ phase = [w \in Watches |-> "connect"]
  /\ listed = [w \in Watches |-> {}]
  /\ queue = [w \in Watches |-> <<>>]
  /\ owed = [w \in Watches |-> FALSE]
  /\ synced = [w \in Watches |-> FALSE]
  /\ permit = FALSE
  /\ rebuild = "waiting"
  /\ table = {}
  /\ published = Seed
  /\ changes = 0
  /\ failures = 0

-----------------------------------------------------------------------------
(* The API server and the watch streams (external).                        *)

Publish(w, k, obj) ==
  queue' = IF k \in Keys(w) /\ phase[w] \in {"listing", "watching"}
           THEN [queue EXCEPT ![w] = Append(@, [key |-> k, obj |-> obj])]
           ELSE queue

ChangeRoute(k, obj) ==
  /\ changes < MaxChanges
  /\ obj # apiRoutes[k]
  /\ apiRoutes' = [apiRoutes EXCEPT ![k] = obj]
  /\ Publish("HTTPRoute", k, obj)
  /\ changes' = changes + 1
  /\ UNCHANGED <<apiSlices, supVars, storeVars, phase, listed, owed, synced, permit, loopVars,
                 failures>>

ChangeSlice(k, obj) ==
  /\ changes < MaxChanges
  /\ obj # apiSlices[k]
  /\ apiSlices' = [apiSlices EXCEPT ![k] = obj]
  /\ Publish("EndpointSlice", k, obj)
  /\ changes' = changes + 1
  /\ UNCHANGED <<apiRoutes, supVars, storeVars, phase, listed, owed, synced, permit, loopVars,
                 failures>>

ListSucceeds(w) ==
  /\ phase[w] = "list"
  /\ phase' = [phase EXCEPT ![w] = "listing"]
  /\ listed' = [listed EXCEPT
                  ![w] = {[key |-> k, obj |-> Api(w)[k]] : k \in {x \in Keys(w) : Api(w)[x] # Absent}}]
  /\ UNCHANGED <<apiVars, supVars, storeVars, queue, owed, synced, permit, loopVars, counters>>

-----------------------------------------------------------------------------
(* The supervisor.                                                         *)

\* `Client::try_default` fails, `run` returns the error.
RunFails ==
  /\ supervisor = "starting"
  /\ failures < MaxFailures
  /\ supervisor' = "sleeping"
  /\ failures' = failures + 1
  /\ UNCHANGED <<apiVars, backoff, storeVars, streamVars, owed, synced, permit, loopVars, changes>>

Restart ==
  /\ supervisor = "sleeping"
  /\ supervisor' = "starting"
  /\ backoff' = Clamp(0, 30, 2 * backoff)
  /\ UNCHANGED <<apiVars, storeVars, streamVars, owed, synced, permit, loopVars, counters>>

\* `run` gets a client and spawns its three tasks, none of which ever ends.
RunStarts ==
  /\ supervisor = "starting"
  /\ supervisor' = "running"
  /\ UNCHANGED <<apiVars, backoff, storeVars, streamVars, owed, synced, permit, loopVars, counters>>

-----------------------------------------------------------------------------
(* `watch_httproutes` and `watch_endpointslices`.  A handler that changes  *)
(* the store releases the lock before it notifies, so the notification is  *)
(* a step of its own, the only one the task can then take.                 *)

Running(w) == supervisor = "running" /\ ~owed[w]

\* Mutant: a relist that keeps what was known before it.
HandleInitKeepingStore(w) ==
  /\ Running(w)
  /\ phase[w] = "connect"
  /\ phase' = [phase EXCEPT ![w] = "list"]
  /\ synced' = [synced EXCEPT ![w] = FALSE]
  /\ UNCHANGED <<apiVars, supVars, storeVars, listed, queue, owed, permit, loopVars, counters>>

\* Event::Init: the store is cleared, and nobody is notified.
HandleInit(w) ==
  /\ Running(w)
  /\ phase[w] = "connect"
  /\ phase' = [phase EXCEPT ![w] = "list"]
  /\ synced' = [synced EXCEPT ![w] = FALSE]
  /\ IF w = "HTTPRoute"
     THEN routes' = EmptyRoutes /\ UNCHANGED endpoints
     ELSE endpoints' = EmptyEndpoints /\ UNCHANGED routes
  /\ UNCHANGED <<apiVars, supVars, listed, queue, owed, permit, loopVars, counters>>

\* The insertion or removal an event makes, and the notification it owes.
UpdateRoutes(k, obj) ==
  /\ IF obj = Bad
     THEN UNCHANGED <<routes, owed>>
     ELSE /\ routes' = [routes EXCEPT ![k] = obj]
          /\ owed' = [owed EXCEPT !["HTTPRoute"] = TRUE]
  /\ UNCHANGED endpoints

UpdateEndpoints(k, obj) ==
  /\ endpoints' = [endpoints EXCEPT
                     ![SliceService[k]] = IF obj = Absent THEN Absent ELSE parse_endpoint_slice(obj)]
  /\ owed' = [owed EXCEPT !["EndpointSlice"] = TRUE]
  /\ UNCHANGED routes

Update(w, k, obj) ==
  IF w = "HTTPRoute" THEN UpdateRoutes(k, obj) ELSE UpdateEndpoints(k, obj)

HandleInitApply(w, item) ==
  /\ Running(w)
  /\ phase[w] = "listing"
  /\ listed' = [listed EXCEPT ![w] = @ \ {item}]
  /\ Update(w, item.key, item.obj)
  /\ UNCHANGED <<apiVars, supVars, phase, queue, synced, permit, loopVars, counters>>

\* Mutant: the end of a list notifies nobody.
HandleInitDoneSilently(w) ==
  /\ Running(w)
  /\ phase[w] = "listing"
  /\ listed[w] = {}
  /\ phase' = [phase EXCEPT ![w] = "watching"]
  /\ synced' = [synced EXCEPT ![w] = TRUE]
  /\ UNCHANGED <<apiVars, supVars, storeVars, listed, queue, owed, permit, loopVars, counters>>

HandleInitDone(w) ==
  /\ Running(w)
  /\ phase[w] = "listing"
  /\ listed[w] = {}
  /\ phase' = [phase EXCEPT ![w] = "watching"]
  /\ synced' = [synced EXCEPT ![w] = TRUE]
  /\ owed' = [owed EXCEPT ![w] = TRUE]
  /\ UNCHANGED <<apiVars, supVars, storeVars, listed, queue, permit, loopVars, counters>>

\* Event::Apply and Event::Delete.
HandleChange(w) ==
  /\ Running(w)
  /\ phase[w] = "watching"
  /\ queue[w] # <<>>
  /\ queue' = [queue EXCEPT ![w] = Tail(@)]
  /\ Update(w, Head(queue[w]).key, Head(queue[w]).obj)
  /\ UNCHANGED <<apiVars, supVars, phase, listed, synced, permit, loopVars, counters>>

\* An `Err` event: the stream is dropped.
HandleErr(w) ==
  /\ Running(w)
  /\ phase[w] \in {"list", "listing", "watching"}
  /\ failures < MaxFailures
  /\ phase' = [phase EXCEPT ![w] = "backoff"]
  /\ listed' = [listed EXCEPT ![w] = {}]
  /\ queue' = [queue EXCEPT ![w] = <<>>]
  /\ failures' = failures + 1
  /\ UNCHANGED <<apiVars, supVars, storeVars, owed, synced, permit, loopVars, changes>>

\* WATCH_RETRY has elapsed: a new watcher.
Reconnect(w) ==
  /\ Running(w)
  /\ phase[w] = "backoff"
  /\ phase' = [phase EXCEPT ![w] = "connect"]
  /\ UNCHANGED <<apiVars, supVars, storeVars, listed, queue, owed, synced, permit, loopVars,
                 counters>>

\* `dirty.notify_one()`: the Notify holds at most one permit.
NotifyOne(w) ==
  /\ owed[w]
  /\ owed' = [owed EXCEPT ![w] = FALSE]
  /\ permit' = TRUE
  /\ UNCHANGED <<apiVars, supVars, storeVars, streamVars, synced, loopVars, counters>>

-----------------------------------------------------------------------------
(* `rebuild_loop`.                                                         *)

Notified ==
  /\ supervisor = "running"
  /\ rebuild = "waiting"
  /\ permit
  /\ permit' = FALSE
  /\ rebuild' = "debounce"
  /\ UNCHANGED <<apiVars, supVars, storeVars, streamVars, owed, synced, table, published, counters>>

\* After REBUILD_DEBOUNCE: compile under the read lock.
Compile ==
  /\ rebuild = "debounce"
  /\ rebuild' = "storing"
  /\ table' = compile(routes, endpoints)
  /\ UNCHANGED <<apiVars, supVars, storeVars, streamVars, owed, synced, permit, published, counters>>

\* Mutant: notifications that arrived during the rebuild are discarded after it.
StoreDrainingPermit ==
  /\ rebuild = "storing"
  /\ rebuild' = "waiting"
  /\ published' = table
  /\ table' = {}
  /\ permit' = FALSE
  /\ UNCHANGED <<apiVars, supVars, storeVars, streamVars, owed, synced, counters>>

\* Mutant: the new routes are added to the published ones.
StoreMerging ==
  /\ rebuild = "storing"
  /\ rebuild' = "waiting"
  /\ published' = published \cup table
  /\ table' = {}
  /\ UNCHANGED <<apiVars, supVars, storeVars, streamVars, owed, synced, permit, counters>>

Store ==
  /\ rebuild = "storing"
  /\ rebuild' = "waiting"
  /\ published' = table
  /\ table' = {}   \* the local goes out of scope
  /\ UNCHANGED <<apiVars, supVars, storeVars, streamVars, owed, synced, permit, counters>>

-----------------------------------------------------------------------------

ApiStep ==
  \/ \E k \in RouteKeys, obj \in RouteObjects \cup {Absent} : ChangeRoute(k, obj)
  \/ \E k \in SliceNames, obj \in SliceSpecs \cup {Absent} : ChangeSlice(k, obj)

SupervisorStep == RunStarts \/ Restart

\* What a watch task does as long as its stream does not fail.
WatchStep(w) ==
  \/ HandleInit(w)
  \/ ListSucceeds(w)
  \/ \E item \in listed[w] : HandleInitApply(w, item)
  \/ HandleInitDone(w)
  \/ HandleChange(w)
  \/ Reconnect(w)
  \/ NotifyOne(w)

RebuildStep == Notified \/ Compile \/ Store

Next ==
  \/ ApiStep
  \/ SupervisorStep
  \/ RunFails
  \/ \E w \in Watches : WatchStep(w) \/ HandleErr(w)
  \/ RebuildStep

(***************************************************************************)
(* The runtime schedules every runnable task, a sleep ends, and an API     *)
(* server that has stopped failing answers the list it is asked for.       *)
(***************************************************************************)
Fairness ==
  /\ WF_vars(SupervisorStep)
  /\ \A w \in Watches : WF_vars(WatchStep(w))
  /\ WF_vars(RebuildStep)

Spec == Init /\ [][Next]_vars

FairSpec == Spec /\ Fairness

-----------------------------------------------------------------------------
(* `reconcile_once`: the store that a fresh list of the given objects      *)
(* gives, and its table.  Where two slices belong to one Service the later *)
(* one in the list wins.                                                   *)

OnceRoutes(keys) ==
  [k \in RouteKeys |-> IF k \notin keys \/ apiRoutes[k] = Bad THEN Absent ELSE apiRoutes[k]]

SlicesOf(s) == {n \in SliceNames : SliceService[n] = s}

OneSlice(s) == \A m, n \in SlicesOf(s) : m = n

OnceEndpoints(names, s) ==
  LET present == {n \in SlicesOf(s) \cap names : apiSlices[n] # Absent}
  IN  IF present = {} THEN {Absent} ELSE {parse_endpoint_slice(apiSlices[n]) : n \in present}

OnceTables(keys, names) ==
  {compile(OnceRoutes(keys), eps) :
     eps \in {f \in [Services -> UNION {OnceEndpoints(names, s) : s \in Services}] :
                \A s \in Services : f[s] \in OnceEndpoints(names, s)}}

\* It lists the objects of every namespace, whatever `cfg.namespace` is.
reconcile_once == OnceTables(RouteKeys, SliceNames)

\* The tables of the objects that `run` watches.
WatchedTables == OnceTables(Keys("HTTPRoute"), Keys("EndpointSlice"))

-----------------------------------------------------------------------------
(* Properties.                                                             *)

\* Every entry of a table routes some endpoint of a known route: a rule none of whose
\* backends resolves is skipped by `compile`, and `resolve` never comes back empty.
IsTable(t) ==
  \A e \in t : /\ e.route \in RouteKeys
               /\ e.endpoints # {}
               /\ e.endpoints \subseteq BackendEndpoint

EndpointMap(eps) ==
  /\ eps = [s \in Services |-> eps[s]]
  /\ \A s \in Services : eps[s] = Absent \/ eps[s] \in SUBSET ReadyEndpoint

ApiTypeOK ==
  /\ apiRoutes \in [RouteKeys -> RouteObjects \cup {Absent}]
  /\ apiSlices \in [SliceNames -> SliceSpecs \cup {Absent}]
  /\ changes \in 0..MaxChanges
  /\ failures \in 0..MaxFailures

SupervisorTypeOK ==
  /\ supervisor \in {"starting", "sleeping", "running"}
  /\ backoff \in 1..30

StoreTypeOK == routes \in [RouteKeys -> RouteSpecs \cup {Absent}] /\ EndpointMap(endpoints)

StreamTypeOK ==
  /\ phase \in [Watches -> {"connect", "list", "listing", "watching", "backoff"}]
  /\ DOMAIN listed = Watches /\ DOMAIN queue = Watches
  /\ \A w \in Watches : listed[w] \in SUBSET Item(w) /\ queue[w] \in Seq(Event(w))
  /\ owed \in [Watches -> BOOLEAN]
  /\ synced \in [Watches -> BOOLEAN]

LoopTypeOK ==
  /\ permit \in BOOLEAN
  /\ rebuild \in {"waiting", "debounce", "storing"}
  /\ IsTable(table)
  /\ published = Seed \/ IsTable(published)

\* Type invariant of the reconciler's state; in particular every table that `rebuild_loop`
\* compiles and publishes satisfies IsTable.
TypeOK == ApiTypeOK /\ SupervisorTypeOK /\ StoreTypeOK /\ StreamTypeOK /\ LoopTypeOK

\* No rebuild is pending: the loop waits, no permit is stored, no task is about to notify.
Idle == rebuild = "waiting" /\ ~permit /\ \A w \in Watches : ~owed[w]

Synced == \A w \in Watches : synced[w]

\* No lost wake-up.  `rebuild_loop` consumes the permit before it sleeps and compiles, and a
\* watch task notifies after it has released the lock, so however those steps interleave a
\* change of the store that the published table lacks always has a rebuild coming.
NoLostUpdate == Idle /\ Synced => published = compile(routes, endpoints)

\* A watch task that is up to date with its stream.
UpToDate(w) == synced[w] /\ phase[w] = "watching" /\ queue[w] = <<>>

\* The store follows the cluster.  A watch task that has handled everything its stream has
\* delivered since the last complete list holds every parseable HTTPRoute that it watches and,
\* for a Service with one EndpointSlice, that slice's ready endpoints, whatever errors, relists
\* and changes during a list came before; of the other namespaces it holds nothing.
StoreMirrorsCluster ==
  /\ UpToDate("HTTPRoute") =>
       \A k \in RouteKeys :
         \/ k \in Keys("HTTPRoute") /\ apiRoutes[k] = Bad
         \/ routes[k] = OnceRoutes(Keys("HTTPRoute"))[k]
  /\ UpToDate("EndpointSlice") =>
       \A s \in Services : OneSlice(s) => endpoints[s] \in OnceEndpoints(Keys("EndpointSlice"), s)

\* Every HTTPRoute that is watched parses and no Service has two slices.
SimpleCluster ==
  /\ \A k \in Keys("HTTPRoute") : apiRoutes[k] # Bad
  /\ \A s \in Services : OneSlice(s)

\* When the cluster stops changing and the API server stops failing, the published table
\* becomes the one that a list of the watched objects gives, and stays so: `Init` clears the
\* store without notifying anybody, and it is the `InitDone` of the same stream that gets the
\* refilled store published.  For a controller of all namespaces that is the table of
\* `reconcile_once`.
Converges ==
  <>[](SimpleCluster => /\ published \in WatchedTables
                        /\ Namespace = Any => published \in reconcile_once)

(***************************************************************************)
(* The reconciler implements RouteFeed: a snapshot is due while a permit,  *)
(* a notification or a list is outstanding, and is in hand while           *)
(* `rebuild_loop` holds its local `table`.                                 *)
(***************************************************************************)
Due == permit \/ rebuild = "debounce" \/ \E w \in Watches : owed[w] \/ ~synced[w]

Feed == INSTANCE RouteFeed WITH
          due      <- Due,
          snapshot <- IF rebuild = "storing" THEN {table} ELSE {}

\* However the steps of the watch tasks, the streams' failures and the rebuild loop interleave,
\* the data plane is given whole tables only, each compiled from the store at one instant
\* later than the one before it; the store never changes without a rebuild to follow, and
\* every rebuild that is due happens and gets published.
ImplementsRouteFeed == Feed!FairSpec

-----------------------------------------------------------------------------
(* What the repository's comments say of the program, and the code does not do. *)

RoutesOf(t) == {e.route : e \in t}

\* "Errors are logged and retried: losing the API server must degrade routing to 'last known
\* good'" (proxy-hyper/src/k8s_controller.rs:24-26): as long as nothing in the cluster has
\* changed, a published table never loses a route.
LastKnownGood ==
  [][changes = 0 => RoutesOf(published) \cap RouteKeys \subseteq RoutesOf(published')]_published

\* "`(namespace, service)` -> ready endpoints, per port" (core/src/gateway.rs:220): the ready
\* endpoints of a Service are those of all its slices.
ServiceEndpointsComplete ==
  UpToDate("EndpointSlice") =>
    \A s \in Services :
      LET present == {n \in SlicesOf(s) \cap Keys("EndpointSlice") : apiSlices[n] # Absent}
      IN  present # {} =>
            endpoints[s] = UNION {parse_endpoint_slice(apiSlices[n]) : n \in present}

=============================================================================
