# A TLA+ verification of tuletorn

tuletorn is a layer-7 load balancer for the Kubernetes Gateway API, written three times on
the same core: on Hyper/Tokio, on Pingora and on Monoio (io_uring, one thread per core),
with a benchmark that compares the three. This directory holds TLA+ models of the core and
of the three data planes and of the benchmark harness, TLC configurations that check them
on small instances, and TLAPS proofs of the invariants that matter most.

All paths below are relative to the repository's root; `PROJECT.json` maps every definition
that models code to the lines it models.

## 1. Inventory

| Component | State | Operations | Interacts with | What is hard | What makes it correct |
|---|---|---|---|---|---|
| Reconciler (`core/src/gateway.rs`, `proxy-*/src/k8s_controller.rs`) | `ClusterState` behind a lock, a `Notify` permit, the rebuild loop's local table, restart back-off | watch handlers (Init, InitApply, InitDone, Apply, Delete, Err), notify, debounce, compile, store, restart, one-shot reconcile | API server, `SharedRouteTable` | three tasks and one permit; relists; errors at any point | no change stays unpublished; the store mirrors the cluster; the table converges |
| Route compilation (`core/src/gateway.rs`) | none | `compile`, `resolve`, `parse_endpoint_slice` | reconciler, route table builder | unresolved backends, weights out of range, parents of other gateways | only our routes, never a route without endpoints |
| Route table (`core/src/route_table.rs`, `simd.rs`) | per-host `matchit` routers | `add`, `build`, `lookup` | every data plane | precedence of hosts and paths, pattern expansion, conflicts | lookup returns the best match |
| Shared table (`core/src/route_table.rs`) | an `ArcSwap` | `load`, `store` | reconciler writes, data planes read | swap during a request | a request uses a table current while it ran |
| Target group (`core/src/target.rs`) | expanded weight table, atomic cursor | `new`, `select` | data planes | concurrent selection, rounding, the table's cap | exact shares over a pass, bounded error in between |
| Filters and header hygiene (`core/src/filter.rs`, `proxy.rs`) | none | compile, rewrite path, modify headers, strip hop-by-hop, extend the forwarding chain | data planes, route compilation | order of the passes; three implementations | hop-by-hop headers stop, all else passes, the data planes agree |
| Hyper data plane (`proxy-hyper/src/main.rs`, `server.rs`) | workers, accept loops, shutdown watch, signal task | start, accept, `handle_request`, shutdown | table, reconciler, upstream client | table replaced during the round trip; shutdown, its sender lost, signals at any time | one table per request; ends when told to and only then |
| Pingora data plane (`proxy-pingora/src/main.rs`, `proxy_service.rs`) | per-request context | start, `request_filter`, `upstream_peer`, `upstream_request_filter`, `response_filter` | table, reconciler thread | each phase loads the table again; headers are replayed from a copy | a late miss means that the table changed |
| Monoio HTTP/1 (`proxy-monoio/src/server.rs`, `http1.rs`) | per-connection buffer, request count, upstream | read, parse, dispatch, relay both ways, keep alive | pool, table, peers | pipelining, partial reads, peers that break, framing | requests whole, responses whole and in order, every request ends |
| Monoio pool (`proxy-monoio/src/pool.rs`) | idle connections per address | `take`, `put`, `evict_expired` | Monoio tasks | age and capacity | bounded, a connection is used only for the address it was dialled for, LIFO closes nothing |
| Monoio HTTP/2 (`proxy-monoio/src/http2.rs`) | sniffed bytes and how many were replayed | detect the preface, hand over, handler of a stream | HTTP/1 loop, table, upstream | bytes cut anywhere between reads; table replaced during the round trip | the client's protocol, every byte once; one table per request |
| Load generator, metrics (`bench/src/load`, `metrics`) | workers, stop flag, counters, sampling task | `run`, record, summarise, start and stop sampling | proxies under test, runner | requests in flight when time is up, a task that sees its flag late | every request counted once, in its own window |
| Benchmark runner, mock upstream, PGO pipeline (`bench/src/harness`, `mock`, `profiling/pgo.rs`) | child process, mock's task and channel, results; binary, baseline and profile on disk | preserve, build, profile, merge, rebuild; start mock, launch, wait, warm up, measure, stop | load generator, monitor, cargo | failures and timeouts at every step, tear-down, builds that overwrite each other | one candidate at a time against a live upstream, complete results of the intended builds, an end |
| Static configuration (`core/src/config.rs`) | none | `compile`, `single_upstream` | every `main` | the catch-all seed | no 404 before the reconciler has published |
| Kubernetes testbed, flame graphs, reports, primitives | external commands, files | – | – | – | not modelled, see section 8 |

The data flow: the API server's watch streams fill `ClusterState`; `rebuild_loop` compiles
it to a `RouteTable` and stores that in the `SharedRouteTable`; for each request a data
plane loads the table, looks up a route, selects an endpoint of its target group, applies
the filters and forwards. The data planes and the reconciler share nothing but the table.

The hazards, with their lines and the properties that would catch them, are listed in
`PROJECT.json`.

## 2. Modules

| Module | Models | State ↔ code |
|---|---|---|
| `ClusterState` | `compile`, `resolve`, `parse_endpoint_slice`, `route_is_ours` as operators | a table is the set of entries passed to the builder |
| `Reconciler` | `run`, the two watch tasks, `rebuild_loop`, `start_k8s_reconciler`, `reconcile_once` | `routes`, `endpoints`: the store; `permit`: the `Notify`; `owed`: between unlocking and `notify_one`; `table`, `published`: the loop's local and the `ArcSwap`; `Keys(w)`: the objects of the namespace that a watch is limited to; `synced` is a history variable |
| `RouteFeed` | what the control plane promises: an abstract specification, without watches, permits or a debounce | `due`: the state may have changed since the last snapshot; `snapshot`: a table taken and not yet published. `Reconciler` instantiates it as `Feed`, with `due` its `Due` (a permit, a notification owed, a store not yet complete or a loop that has yet to compile) and `snapshot` its compiled `table` |
| `RouteTable` | builder, `expand_pattern`, `build`, `lookup`, host normalisation, `RouteConfig::compile` and `single_upstream` | paths are sequences of segments, hosts of labels, `[`, `:` and `]`; `matchit` is external |
| `Filters` | `compile_filters`, `RouteFilters`, header modifiers, `apply_url_rewrite` as operators | a header map is a function from names to sequences of values; a text is the sequence of its characters only where `strip_prefix` looks at them |
| `Headers` | what a hop does to headers on each data plane: `proxy.rs`, Hyper's and the HTTP/2 handler's edits, Pingora's staged replay, `write_forward_head` and `write_return_head` | `headers` on their way through `hops`, a chain of proxies; `origin`, `gone`, `touched` are history variables |
| `TargetGroup` | `TargetGroup::new`, `expand_weights`, `select` | `policy` with its table; the cursor, which tasks advance one at a time |
| `ConnectionPool` | `take`, `put`, `evict_expired` against a clock | `inner` as in the code; `held`: streams in use; `dialled`, which address a stream was dialled for, is a history variable |
| `MonoioProxy` | `serve_connection` and everything it calls, one task per client connection | a byte stream is a sequence of parts (head, data, the halves of the final chunk, data that looks like one); a server may send an interim response ahead of its answer; `pc` is the await where a task waits; `pool` is the pool without ages |
| `DataPlane` | requests of the three data planes against a table that is being replaced | a table is its version and what it routes; `peer`, `request`, `response`: the versions from which backend, request filters and response filters came |
| `ProxyServer` | the process around `DataPlane`: each `main`, its workers, accept loops, signals and shutdown channel, the reconciler's publications, and Monoio's sniffing of the protocol | `process`, `control`, `ctrl_c`, `shutdown`, `worker`: the tasks and the channel; `conn`, `home`: the connections and their listeners; `stream`, `filled`, `prefix`, `position`, `delivered`: the bytes sent, read, buffered, replayed and delivered |
| `Benchmark` | `main`'s choice of runs, `PgoPipeline`, `BenchmarkRunner`, `RunningCandidate`, `MockUpstream::run`, `WarmupProtocol`, `LoadGenerator::run`, `ResourceMonitor`, the counters of `LatencyRecorder` | `pc`, `run`, `window`: where the runner is (run 0 is the profiling pass of the PGO pipeline); `mock`, `signal`, `child`: per run the mock's task, its channel's sender and the process; `running`, `worker`, `recorder`: the load generator in progress; `monitoring`, `samplers`: flag and task of each monitor; `built`, `binary`, `baseline`, `profile`: what is on disk; `sent` and `ran` are history variables |
| `ReconcilerProofs`, `ConnectionPoolProofs`, `DataPlaneProofs`, `ProxyServerProofs`, `BenchmarkInvariant`, `BenchmarkProofs` | theorems | section 5 |
| `MC*` | instances for TLC | |

Every action is the code of one task between two awaits (or between two lock operations,
where another task can observe the difference). In `Reconciler` a watch handler and its
`notify_one` are two steps because the lock is released in between; compiling and storing
are two steps because handlers run in between. In `MonoioProxy` all tasks share one thread,
so the code between two awaits is atomic. In `ConnectionPool` each method is atomic for the
same reason. `TargetGroup` makes `fetch_add` the only atomic step of `select`.

External parts, modelled from how the code uses them: the API server and kube's watch
stream (a list is a snapshot, changes after it are delivered in order, the stream may fail
at any point after its first event), `matchit` (the most specific pattern wins), `http::HeaderMap`, clients and upstream
servers (a server answers a request once it has all of it), connections that break, TCP listeners and signals, cargo and llvm-profdata.
The mutated definitions used to validate each property are kept beside
the definitions they vary, each marked "Mutant".

## 3. Runs

| Run | Checks | Result |
|---|---|---|
| `reconciler` | `TypeOK`, `NoLostUpdate`, `StoreMirrorsCluster`, `Converges`, `ImplementsRouteFeed` | hold (404k states) |
| `last_known_good` | `LastKnownGood` | **violated**: a rebuild during a relist publishes a table without routes that never left the cluster |
| `two_slices` | `ServiceEndpointsComplete` | **violated**: a Service's second EndpointSlice replaces the first |
| `route_table` | `LookupIsBestMatch`, `OrderMattersOnlyForConflicts`, `SeedMatchesEverything`, `RewriteReplacesSegments` | hold (11k tables, 64 requests against each) |
| `target_group` | `NeverAheadOfShare`, `FullPassIsExact`, `TableIsSound` | hold (54k) |
| `connection_pool` | `Bounded`, `DialledForItsAddress`, `TakeClosesNothing` | hold (8.3k) |
| `monoio` | `TypeOK`, `RequestsWhole`, `PoolClean`, `ResponsesInOrder`, `KeptAliveWhole`, `ClosedAnswered` | hold (507k) |
| `monoio_live` | `PoolClean`, `EveryRequestEnds` | hold (23k) |
| `chunked_truncated` | `KeptAliveWhole` with chunked responses | **violated**: a truncated chunked response on a connection that stays open |
| `proxy_server` | `NoStaleTable`, `OneTable`, `LateMissMeansChange`, `HandOverIsFaithful`, `OnlyShutdownStopsHyper`, `ShutdownCompletes` | hold (645k) |
| `headers` | `EndToEndKept`, `HopsAreNamed`, `PlanesAgree`, `NothingHopByHopPasses` | hold (48k) |
| `benchmark` | `OneAtATime`, `SamplersDoNotOverlap`, `ResultsComplete`, `DeltaIsOfTheBuilds`, `EveryRequestCounted`, `ProfileIsOfTraffic`, `RunsToCompletion` | hold (209k) |

The type invariants of `ConnectionPool`, `DataPlane` and `Benchmark` are proved (section 5) and not among the runs.
The three violated properties each state a sentence of the repository's documentation; the
findings in `PROJECT.json` quote it.

### Bounds

- `reconciler`: one HTTPRoute key with every object it can hold (ours, another gateway's,
  unparseable, absent), two Services with a slice each, one of them outside the namespace that the
  controller watches, two changes and one failure. Two changes are what it takes for one to arrive during the rebuild that the
  other caused; the failure can hit either watch, in each of its phases. The routes and
  slices interact only through `compile`, so more keys add states but no new order of events.
- `route_table`: three routes are needed for two conflicting ones and one that is less
  specific. Hostnames of every kind (none, exact, wildcard of two depths, `*`), paths with
  and without trailing slash, prefix and exact, and requests whose host has mixed case, a
  port, is an IPv6 literal with a port or without its closing bracket, or exceeds the stack buffer of `lookup`. Rewrites: every prefix route with
  replacements that are `/`, end in `/` or do not, and a path (`/xy`) that has a prefix (`/x`)
  as a text and not as a path.
- `target_group`: all weights 0..4 for up to three endpoints, with a cap of 7 so that most
  groups are scaled and some are not; 14 selections by two tasks are two passes.
- `connection_pool`: two addresses, capacity 2 with three streams, so a put meets a full list; the clock
  goes to twice the idle age.
- `monoio`: two clients with two pipelined requests each, two upstream connections, a pool
  of one (so a connection is parked while another is refused), two requests per connection
  (so the limit is reached), and one failure anywhere.
- `monoio_live`: one client, every kind of request (HTTP/2 preface, malformed, too large,
  unrouted, chunked) and every framing of a response, payload that imitates the last chunk and an
  interim response among them, with two failures. One client can be misled by what its own first
  request left on the connection, so a second one is not needed.
- `proxy_server`: three stores during two requests of one connection, two workers. Requests
  of different connections do not interact, so one connection suffices; two workers make a
  process whose one accept loop has ended and whose other has not. Every start-up step and
  the control plane may fail, and signals come at any moment. The preface has three bytes, and
  the two HTTP/1 heads leave it at the first and at the last, so every cut of every opening
  into reads occurs.
- `headers`: two hops, so what the first leaves or adds meets the second, each on any data
  plane with any of four rules. The messages have two Connection lines, nominations of an ordinary header
  and of X-Forwarded-For, repeated lines, a Connection line that is not text, and a chain that is absent, one line, two lines or not text;
  the rules have set, add and remove, invalid names and values, Host, a filter of an unknown type and one without a body.
- `benchmark`: two runs of two windows, so that whatever one window or run leaves behind
  meets the next; three workers (one in the warm-up) and three requests per run of the load
  generator, so that when the timer fires one worker can be waiting for an answer, one about
  to send and one idle. Every start, launch, start-up wait, build, merge and
  process may fail, the port that is found to accept may be another process's, and the build directory may be another one than the runner's.

`CHECK_DEADLOCK FALSE` stands where the bounded system really comes to rest: the scripts
are sent, the changes are made, the selections are used up, the message has arrived, the process or the benchmark has ended.

### Fairness

- `Reconciler`: weak fairness of the supervisor, of each watch task and of the rebuild loop.
  Tokio polls every woken task, sleeps end, and a list request that does not fail is
  answered. Nothing forces failures or changes; `Converges` is about what follows the last of them, which the
  bounds guarantee to come.
- `MonoioProxy`: weak fairness of each connection's task (the runtime polls a task whose
  operation has completed) and of each server's answer. The proxy has no timeouts, so
  without a server that answers or closes nothing could be promised.
- `RouteFeed`: weak fairness of taking a snapshot that stays due and of publishing one that is
  taken; `Reconciler`'s own fairness is shown to imply it, by TLC.
- `ProxyServer`: weak fairness of `main`, of starting and joining workers, of the signal task's send and
  of an accept loop's branch for the shutdown channel. Each is a task that Tokio or a thread runs; the branch is
  polled however many connections arrive, since `tokio::select!` polls its branches in a random order. Nothing is asked
  of the other branch, nor of clients: they may keep connections open and idle for ever. No signal is forced.
- `Benchmark`: weak fairness of the runner, the timer, each worker, each mock and each
  sampling task, all of them Tokio tasks whose sleeps and timeouts end. A worker's fairness
  includes the end of its request; the load generator sets no timeout, so this is asked of the
  proxies. Nothing is asked of a candidate's process otherwise: it may never serve and never exit.

## 4. What the properties say

`NoLostUpdate` is the heart of the reconciler: `rebuild_loop` takes the permit *before* it
sleeps and compiles, and a handler notifies *after* its change is visible. If both stores are
complete and nobody is about to rebuild, the published table is `compile` of the store.
`StoreMirrorsCluster` relates the store to the cluster through errors and relists, and `Converges`
joins the two: the published table becomes, and stays, one that a fresh list of the watched objects compiles to
(`WatchedTables`). With a controller of all namespaces this is what `reconcile_once` builds; with one of a single namespace it
need not be (section 6).

`LookupIsBestMatch` compares the whole path through expansion, per-host routers, conflict
resolution and fallback with a declarative definition: among the routes whose host and path
match, the most specific host, then the most specific path, then the first added. An Exact and a Prefix route
of the same path are equally specific in the code, and so in the definition (section 6).
`OrderMattersOnlyForConflicts` is what `compile`, which iterates a `HashMap`, needs of the builder:
tables built from the same routes in two orders answer alike unless two routes conflict.
`SeedMatchesEverything` says that the table of `single_upstream` has a route for every request,
so that nothing is answered 404 before the reconciler has published ("never a window where requests 404",
`proxy-hyper/src/main.rs:91`); `main` seeds the table before it opens a listener. `RewriteReplacesSegments` compares the textual `strip_prefix` with
replacing whole segments, for the paths that a route's pattern matches.

`ImplementsRouteFeed` is the refinement: the reconciler, with all its tasks, behaves as the abstract feed
of `RouteFeed`, safety and liveness. A table is never published in parts or older than its predecessor.

`NeverAheadOfShare` bounds the number of times an endpoint was chosen in any prefix of a
pass; `FullPassIsExact` says that a pass gives each endpoint exactly its entries however the tasks
interleave; `TableIsSound` is what keeps `select` from panicking, and the table near its cap.

For Monoio, `RequestsWhole` is about the upstream direction, `ResponsesInOrder`,
`KeptAliveWhole` and `ClosedAnswered` about the client's, and `PoolClean` about what one
request may leave to the next: nothing unread on a parked connection, until the proxy is misled about where a response ends.
`Misleading` says by what, an interim response or payload like the last chunk, and `ResponsesInOrder` has the same condition.
`KeptAliveWhole` holds of responses that have a length or end with the connection, and is violated by chunked ones. `EveryRequestEnds` exempts chunked bodies only; see section 6.

`NoStaleTable`, `OneTable` and `LateMissMeansChange` say which table a request may use.
`ShutdownCompletes` and `OnlyShutdownStopsHyper` are about the process: open connections do not keep it from
ending when it was told to, and a lost sender, whose channel is ready in every round, does not end it. `HandOverIsFaithful` is about the bytes
that Monoio reads while it does not know the protocol yet.

For headers, `NothingHopByHopPasses` and `EndToEndKept` are the two halves of what a hop does;
`HopsAreNamed` is about what it adds, Host and X-Forwarded-For; `PlanesAgree` compares the
implementations with each other, with the conditions under which Monoio's HTTP/1 side agrees (no filters, one line of
X-Forwarded-For, every Connection line text)
(section 6 says what happens outside them).

For the benchmark, `OneAtATime` is what makes a measurement
attributable to one proxy and its live upstream, on every path through start-up failure, crash and tear-down.
`EveryRequestCounted` and `SamplersDoNotOverlap` keep a window's numbers its own.
`ResultsComplete` says what the two entry points return: `run_all` skips failed runs,
`run_pgo_delta` returns nothing if either fails. `DeltaIsOfTheBuilds`: a comparison has the baseline as it was
before the pipeline and the optimised build, when the runner's directory is the one cargo builds into; `ProfileIsOfTraffic`: no optimised build
starts without a profile written by an instrumented process that was sent requests. `RunsToCompletion` is
liveness: the benchmark ends and its mocks with it, but for those of failed runs, which really stay (section 6).

## 5. Proofs

All proofs are for arbitrary constants, under the named assumptions of each module.

- **ReconcilerProofs.** `TypeCorrect`: `Spec => []TypeOK`, for which `ResolveType` and
  `CompileType` show that every compiled table has endpoints with weights within bounds.
  `NoUpdateIsLost`: `Spec => []NoLostUpdate`. `NoLostUpdate` is not inductive: it speaks of
  the moment when nothing is pending. The strengthening says where the newest store is: if
  both stores are complete then either some notification is owed or stored, or the loop
  has yet to compile, or the table about to be stored (or already published) is `compile` of the store.
  `ReconcilerImplementsFeed`: `Spec => Feed!Spec`, one step per action, most of them stutters of the
  feed. It needs an invariant of its own, `ListInv`: a store that is being refilled from a list
  does not count as complete, so a rebuild stays due until the list is done.
  `FeedCatchesUp` proves of the feed that when it owes nothing it has published the observed state (a snapshot
  in hand is current, unless another is due), and `ReconcilerCatchesUp` carries this over to the reconciler.
  `StoreFollowsCluster`: `Spec => []StoreMirrorsCluster`. The invariant `StreamInv` says where the newest version of
  every object is: in the queue of its watch, else in what is left of its list, else in the store.
  `QuiescentIsReconciled` puts it together with `NoUpdateIsLost`: when nothing is under way, the published table
  is in `WatchedTables`, and in `reconcile_once` when all namespaces are watched. `QuietMirror` is the case that
  the restriction to a namespace adds: a change of an object that no watch hears of.
  Assumptions: `ReconcilerAssumption` and those of `ClusterState` (shapes of objects).
- **ConnectionPoolProofs.** `TypeCorrect`, `PoolIsBounded`, `TakeReturnsTheLatest` and
  `ConnectionsGoWhereAsked`: `Spec => []DialledForItsAddress`, which is inductive given the types. `TakeReturnsTheLatest` needs
  two facts more: a stream is parked once or held once (`OneOwner`), so that one which was parked and
  is now held was taken; and `Ordered`, entries are parked in the order of their age and `evict_expired` keeps that order, so
  if any entry is fresh the last one is.
- **DataPlaneProofs.** `TypeCorrect`, `TablesAreFresh`, `OneTablePerRequest`,
  `LateMissesAreChanges`, for any number of connections, stores and requests. The inductive
  invariant adds `InFlight`: at each await, which of the versions a request has recorded are
  set, and that they lie between the version current at its start and the current one.
- **ProxyServerProofs.** `ServerIsADataPlane`: `ServerSpec => Spec`, so `ServerTablesAreFresh`, `ServerOneTable` and
  `ServerLateMisses` hold of the whole process. `HandOverLosesNothing`: `ServerSpec => []HandOverIsFaithful`, for any
  preface and any heads, however they are cut into reads. The invariant `BytesInv` relates what was read, buffered,
  replayed and delivered: the replay buffer is the beginning of the stream and the socket is not read before the
  buffer is used up. `HyperStopsWhenTold`: `ServerSpec => []OnlyShutdownStopsHyper`, from `StopInv`: a loop has ended only
  if the channel's value is true, which only the signal task makes it.
- **BenchmarkInvariant, BenchmarkProofs.** `TypeCorrect`, `OneCandidateAtATime`, `WindowsAreSampledApart`,
  `ResultsAreComplete`, `DeltaIsAttributable` and the action properties `RequestsAreCounted` and
  `ProfilesAreOfTraffic`, for any number of runs, windows, workers and requests. The inductive invariant `Inv` has a part
  for each task: `Control` (which run and window go with each phase of the runner), `Processes`, `Sampling`,
  `Counting` (requests sent = recorded + awaited, which takes the cardinality of the workers in each state),
  `Building` and `Gathering` (the results so far are the windows gathered so far). `BenchmarkInvariant`
  states it and proves the parts that need no counting.

Only model-checked: liveness (`Converges`, the fairness half of `ImplementsRouteFeed`, `EveryRequestEnds`,
`ShutdownCompletes`, `RunsToCompletion`), since the prover handles
neither fairness nor ENABLED; what `RouteTable`, `Filters`, `Headers` and `TargetGroup` compute, which needs
induction over their input; and the invariants of `MonoioProxy`, whose proofs are planned.

## 6. Behaviours worth knowing

Found while modelling; the first three are the violated runs.

1. A watch that restarts clears its store without notifying; a rebuild that is due anyway
   publishes the partial store (`gateway.rs:509`). The same happens at start-up: until the
   HTTPRoutes are listed, a notification of the EndpointSlice watch replaces the seeded table.
2. EndpointSlices of one Service overwrite each other (`gateway.rs:535`).
3. `relay_chunked` takes the end of the stream for the end of the body (`server.rs:530`).
4. Pingora loads the table in each phase (`proxy_service.rs:149`), so a request can take its backend from
   one table and its filters from the next, although `route_table.rs:178` says "Readers in flight finish on the old one."
5. `relay_chunked` looks for the final chunk in the bytes of a single read: one that
   arrives with the head or split over two reads is missed, and the task waits until a peer
   closes; payload that contains the same bytes ends the relay early (`server.rs:532`), and the upstream connection
   is parked with the rest of the body unread (`server.rs:353`). With a chunked request,
   everything buffered behind the head is forwarded, a pipelined request included. This is
   why `EveryRequestEnds` exempts chunked bodies, `PoolClean` such payload, and the clients of `monoio` send bodies of
   known length.
6. Rounding and the minimum of one entry can take a weight table beyond
   `MAX_WEIGHT_TABLE`, by less than one entry per endpoint (`TableIsSound`).
7. `RouteTable::len` counts routes whose patterns were all rejected as conflicts.
8. An HTTPRoute updated to an unparseable spec keeps its previous spec until the next
   relist; `StoreMirrorsCluster` is stated for parseable ones.
9. A pooled connection that the server has closed fails on first use, and the client's
   connection is closed without an answer; `ClosedAnswered` is stated for runs without failures.
10. When a candidate fails to launch, `run_candidate` returns without sending on the mock's
    shutdown channel. Dropping the sender does not stop the mock: `changed()` then fails at
    once, for ever, and its loop keeps polling while the next candidates are measured
    (`runner.rs:121`, `upstream.rs:137`).
11. `BenchmarkResult::error_responses` is documented as "Counted as completed but not
    successful" (`latency.rs:45`), but `record_error_response` also counts the response as
    successful; the test of that function expects so.
12. Monoio's HTTP/1 side applies no header filters (`http1.rs:233`), and its X-Forwarded-Proto joins one that the client
    sent, where the other data planes replace it; `README.md:106` speaks of identical proxy semantics.
13. Of several X-Forwarded-For lines one is kept: the first by Hyper, Pingora and the HTTP/2
    handler, the last by Monoio's HTTP/1 side; a line that is not text is dropped by the former. `proxy.rs:85` says
    "preserving any existing chain". `HopsAreNamed` is stated for one line of text.
14. `candidate.rs:303` says that SIGTERM lets a proxy drain. Hyper's handler is for SIGINT only and
    Monoio has none, so SIGTERM ends both at once; SIGINT makes Hyper's accept loops return, and the process
    ends with its open connections cut. An instrumented process that dies of SIGTERM writes no
    `.profraw`, and `merge_profiles` then fails.
15. A Monoio process whose workers all fail to bind exits with status 0, and a control-plane runtime that cannot be built is only
    logged: the proxy then serves its seed for ever.
16. A second `--pgo` run copies the binary that the first one left, optimised or instrumented, as its
    "standard" baseline (`main.rs:313`). With a `--binary-dir` other than cargo's, the "pgo" run measures
    the unchanged binary. `DeltaIsOfTheBuilds` exempts the second case, and
    means by the baseline whatever binary `main` found.
17. `collect_profile` counts failed requests as driven, does not wait for its mock to listen, and
    leaves the mock running when it returns early (`pgo.rs:150`).
18. An interim 1xx response is taken for the final one (`http1.rs:209`): it is relayed, the upstream connection is parked, and the
    response itself is read as the answer to whichever request takes the connection next.
19. An Exact and a Prefix route of the same path expand to the same pattern (`route_table.rs:207`), and the one added
    first wins; routes are added in the order of a `HashMap`. `lookup` is documented as following the Gateway API, whose text in
    `k8s/gateway-api-crds.yaml:6753` gives precedence to the Exact match.
20. `reconcile_once` lists every namespace (`gateway.rs:639`) whatever namespace the controller is limited to, and `run`
    only that one (`gateway.rs:443`): with a namespace set, the two may build different tables.
21. A route without `parentRefs` is accepted always (`gateway.rs:352`); the comment above it says "claim it only when the
    controller is not scoped to a specific namespace".
22. The names in a Connection line that is not text are dropped by Monoio's HTTP/1 side (`http1.rs:359`) and passed on by the
    others (`proxy.rs:64`). `NothingHopByHopPasses` means the names in lines of text.
23. When the handler for SIGINT cannot be installed its task ends, the sender is dropped, and every accept loop of Hyper goes round
    without waiting from then on. It keeps accepting, since `tokio::select!` chooses among ready branches at random.
24. `HttpPeer::new` panics on an address that does not resolve, which ends the request's task in Pingora's `upstream_peer`
    (`proxy_service.rs:139`); the model has it as a request that is lost.
25. `wait_until_ready` takes any listener on the candidate's address for the candidate (`candidate.rs:271`), and `start_mock_upstream`
    any listener on a port that it has released for the mock (`runner.rs:299`).

## 7. Plan

Done: the reconciler first (it decides what every proxy routes to), then the table and
target group it publishes, the pool and the Monoio data plane (hand-written protocol code), the three data planes against the
shared table, the benchmark harness, filters and headers, the abstract feed, the proxies as processes and the PGO pipeline.
Proved: the safety properties of `Reconciler`, its refinement of `RouteFeed`, and those of `ConnectionPool`, `DataPlane`,
`ProxyServer` and `Benchmark`.

Next, in this order:

1. Proofs of `MonoioProxy`'s `TypeOK`, `PoolClean` and `ResponsesInOrder`.
2. An abstract pool that `MonoioProxy`'s use of `ConnectionPool` implements.
3. Pipelining behind chunked request bodies in `MonoioProxy`.
4. Lemmas on `resolve` and on target selection that need no induction.

## 8. Not modelled

Reading the configuration file, the command line, hardware detection, pre-flight checks, reports, flame graphs and cluster
deployment are file and process I/O without state of their own. The churn of the Kubernetes testbed edits
routes through external commands; those edits are changes of the cluster in `Reconciler`. The
allocator, cycle counter and hash function have no behaviour that a property
could tell apart; the vector code of `simd.rs` is modelled by what it returns. HTTP parsing and HTTP/2 inside Hyper
and Pingora, Hyper's pooled client and Pingora's listeners and shutdown are libraries. Bodies
appear as parts of a stream, in `MonoioProxy` only; header values are symbols; logging and latency values
do not appear. Time appears only where the code compares it: the age of pooled
connections; the debounce and the retry delays are steps that may happen at any time.
