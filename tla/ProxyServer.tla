---------------------------- MODULE ProxyServer ----------------------------
(***************************************************************************)
(* A proxy process around its data plane: `main` of the three candidates   *)
(* seeds the table, starts the control plane and the workers; every worker *)
(* binds its own SO_REUSEPORT listener and accepts; Hyper's accept loops   *)
(* stop when a watch channel goes true; Monoio sniffs the protocol of a    *)
(* connection and hands the bytes it read to the HTTP/2 server.  The steps *)
(* of DataPlane happen on the connections that the process is serving.     *)
(*                                                                         *)
(* The 24 bytes of the HTTP/2 preface are the sequence Preface; a client   *)
(* of HTTP/1 sends a head that leaves the preface at some byte.            *)
(***************************************************************************)
EXTENDS DataPlane, FiniteSets, Sequences

CONSTANTS
  NumWorkers,  \* `--workers` / `--threads`
  Preface,     \* H2_PREFACE
  Heads        \* what the HTTP/1 clients open with

Workers == 1 .. NumWorkers
Kinds == {"hyper", "monoio", "pingora"}

IsSequence(s) == s \in Seq({s[i] : i \in 1 .. Len(s)})

ASSUME ProxyServerAssumption ==
  /\ NumWorkers \in Nat \ {0}
  /\ IsSequence(Preface)
  /\ \A h \in Heads : IsSequence(h)
  /\ \A h \in Heads : \E i \in 1 .. Len(h) : i <= Len(Preface) /\ h[i] # Preface[i]

VARIABLES
  kind,       \* which candidate the process runs
  config,     \* whether `--config` was given
  process,    \* how far `main` is, or how the process ended
  control,    \* the control plane: "off", "running" or "failed"
  ctrl_c,     \* Hyper's signal task
  shutdown,   \* Hyper's watch channel: its value, and whether it has a sender
  worker,     \* what became of each worker
  conn,       \* the state of each client connection
  home,       \* the worker whose listener the connection was queued on
  stream,     \* the bytes that the client opens with
  filled,     \* how many of them have been read from the socket
  prefix,     \* the bytes that `PrefixedIo` was given to replay
  position,   \* how many of them it has replayed
  delivered   \* the bytes that the HTTP/1 parser or the HTTP/2 server got

lifecycle == <<kind, config, process, control, ctrl_c, shutdown, worker>>
sockets == <<conn, home>>
bytes == <<stream, filled, prefix, position, delivered>>
serverVars == <<vars, lifecycle, sockets, bytes>>

Alive == process \in {"seeding", "spawning", "running"}
PlanesOf(k) == IF k = "monoio" THEN {"monoio", "monoio_h2"} ELSE {k}
Opening(p) == CASE p = "monoio" -> Heads
                [] p = "monoio_h2" -> {Preface \o <<"frame">>}
                [] OTHER -> {<<>>}

\* What the table holds before `main` starts to serve: without a file, the one
\* route of `single_upstream`, which matches everything and rewrites nothing.
seed(t, c) == c = "none" => t.routed /\ t.rewrite = "none"

ServerInit ==
  /\ Init
  /\ kind \in Kinds
  /\ plane \in [Conns -> PlanesOf(kind)]
  /\ config \in {"none", "file"}
  /\ seed(table, config)
  /\ process = "seeding"
  /\ control = "off"
  /\ ctrl_c = "none"
  /\ shutdown = [value |-> FALSE, sender |-> TRUE]
  /\ worker = [w \in Workers |-> "none"]
  /\ conn = [c \in Conns |-> "new"]
  /\ home = [c \in Conns |-> 1]
  /\ stream \in [Conns -> Heads \cup {Preface \o <<"frame">>, <<>>}]
  /\ \A c \in Conns : stream[c] \in Opening(plane[c])
  /\ filled = [c \in Conns |-> 0]
  /\ prefix = [c \in Conns |-> <<>>]
  /\ position = [c \in Conns |-> 0]
  /\ delivered = [c \in Conns |-> <<>>]

\* The process ends, and every connection with it: the runtime that ran the
\* connection tasks is dropped, or the threads are killed.
Exit(how) ==
  /\ process' = how
  /\ conn' = [c \in Conns |-> "closed"]
  /\ UNCHANGED <<vars, kind, config, control, ctrl_c, shutdown, worker, home, bytes>>

-----------------------------------------------------------------------------
(* `main`.                                                                 *)

\* A config file that cannot be read ends the process.  In k8s mode the control
\* plane is started before the workers, and is in one of the given states then.
Start(k, controls) ==
  /\ kind = k /\ process = "seeding"
  /\ \/ config = "file" /\ Exit("failed")
     \/ /\ process' = "spawning"
        /\ control' \in {"off"} \union controls
        /\ ctrl_c' = IF k = "hyper" THEN "spawned" ELSE "none"
        /\ UNCHANGED <<vars, kind, config, shutdown, worker, sockets, bytes>>

\* Hyper's reconciler is a task of the runtime, as is the one that waits for
\* SIGINT.
HyperMain == Start("hyper", {"running"})

\* A thread with a runtime of its own (`spawn_control_plane`,
\* `spawn_k8s_reconciler`): when the runtime cannot be built the failure is
\* logged, and the proxy goes on with the seed.
spawn_control_plane == {"running", "failed"}

MonoioMain == Start("monoio", spawn_control_plane)

spawn_k8s_reconciler == {"running", "failed"}

PingoraMain == Start("pingora", spawn_k8s_reconciler)

Spawned == {w \in Workers : worker[w] # "none"}

\* The next worker of the spawn loop becomes s; after the last one `main` waits.
Spawn(s) ==
  /\ worker' = [worker EXCEPT ![Cardinality(Spawned) + 1] = s]
  /\ process' = IF Cardinality(Spawned) + 1 = NumWorkers THEN "running" ELSE "spawning"
  /\ UNCHANGED <<vars, kind, config, control, ctrl_c, shutdown, sockets, bytes>>

\* `ProxyHyper::run`: binds and spawns one accept loop after the other; a bind
\* that fails is the result of `run`, and the loops spawned so far go with it.
HyperSpawn ==
  /\ kind = "hyper" /\ process = "spawning"
  /\ Spawn("listening") \/ Exit("failed")

\* Monoio's `main` spawns the threads; one that cannot be spawned ends it.
MonoioSpawn ==
  /\ kind = "monoio" /\ process = "spawning"
  /\ Spawn("starting") \/ Exit("failed")

\* A Monoio thread: `run_worker` binds.  A runtime that cannot be built (with
\* fewer entries either) is a panic of the thread and a failed bind is logged;
\* the other workers go on.
run_worker(w) ==
  /\ kind = "monoio" /\ Alive /\ worker[w] = "starting"
  /\ \E s \in {"listening", "ended"} : worker' = [worker EXCEPT ![w] = s]
  /\ UNCHANGED <<vars, kind, config, process, control, ctrl_c, shutdown, sockets, bytes>>

\* `run_server`: Pingora binds and starts all its threads (external).
run_server ==
  /\ kind = "pingora" /\ process = "spawning"
  /\ \/ /\ worker' = [w \in Workers |-> "listening"]
        /\ process' = "running"
        /\ UNCHANGED <<vars, kind, config, control, ctrl_c, shutdown, sockets, bytes>>
     \/ Exit("failed")

\* Mutant of Join: waits for the open connections too.
JoinDraining ==
  /\ kind # "pingora" /\ process = "running"
  /\ \A w \in Workers : worker[w] = "ended"
  /\ \A c \in Conns : conn[c] \in {"new", "closed"}
  /\ Exit("stopped")

\* Every accept loop or thread has ended: `main` returns Ok.
Join ==
  /\ kind # "pingora" /\ process = "running"
  /\ \A w \in Workers : worker[w] = "ended"
  /\ Exit("stopped")

-----------------------------------------------------------------------------
(* Signals.                                                                *)

\* The first poll of `ctrl_c()` installs the handler, or fails: the task ends
\* and drops the sender.
InstallHandler ==
  /\ Alive /\ ctrl_c = "spawned"
  /\ \/ ctrl_c' = "waiting" /\ UNCHANGED shutdown
     \/ ctrl_c' = "ended" /\ shutdown' = [shutdown EXCEPT !.sender = FALSE]
  /\ UNCHANGED <<vars, kind, config, process, control, worker, sockets, bytes>>

\* SIGINT (external).  Hyper's handler stays installed after the first one;
\* without a handler the process dies, and Pingora's own handler stops it.
Sigint ==
  /\ Alive
  /\ \/ /\ ctrl_c = "waiting"
        /\ ctrl_c' = "raised"
        /\ UNCHANGED <<vars, kind, config, process, control, shutdown, worker, sockets, bytes>>
     \/ ctrl_c \in {"none", "spawned", "ended"} /\ Exit("killed")

\* SIGTERM, which the benchmark harness and Kubernetes send (external): only
\* Pingora handles it, and none of the processes drains into the channel.
Sigterm == Alive /\ Exit("killed")

\* The task wakes up, sends true and ends, which drops the sender.
SendShutdown ==
  /\ Alive /\ ctrl_c = "raised"
  /\ ctrl_c' = "sent"
  /\ shutdown' = [value |-> TRUE, sender |-> FALSE]
  /\ UNCHANGED <<vars, kind, config, process, control, worker, sockets, bytes>>

\* Returning drops the listener, and the kernel resets what was queued on it.
Return(w) ==
  /\ worker' = [worker EXCEPT ![w] = "ended"]
  /\ conn' = [c \in Conns |-> IF conn[c] = "queued" /\ home[c] = w THEN "closed" ELSE conn[c]]

\* Mutant of Changed: a channel that has changed, or is closed, is a shutdown.
ChangedUnchecked(w) ==
  /\ kind = "hyper" /\ Alive /\ worker[w] = "listening"
  /\ shutdown.value \/ ~shutdown.sender
  /\ Return(w)
  /\ UNCHANGED <<vars, kind, config, process, control, ctrl_c, shutdown, home, bytes>>

\* `changed()` is ready in an accept loop: true was sent, or the sender is gone,
\* in every round from then on; the loop goes round unless the value is true.
Changed(w) ==
  /\ kind = "hyper" /\ Alive /\ worker[w] = "listening"
  /\ shutdown.value \/ ~shutdown.sender
  /\ IF shutdown.value THEN Return(w) ELSE UNCHANGED <<worker, conn>>
  /\ UNCHANGED <<vars, kind, config, process, control, ctrl_c, shutdown, home, bytes>>

-----------------------------------------------------------------------------
(* Connections.                                                            *)

\* A client connects; the kernel queues it on one of the listeners (external).
Connect(c) ==
  /\ Alive /\ conn[c] = "new"
  /\ \E w \in Workers :
       /\ worker[w] = "listening"
       /\ home' = [home EXCEPT ![c] = w]
  /\ conn' = [conn EXCEPT ![c] = "queued"]
  /\ UNCHANGED <<vars, lifecycle, bytes>>

\* The accept loop takes the connection and spawns its task.  An accept that
\* fails leaves it queued.
Accept(c) ==
  /\ Alive /\ conn[c] = "queued" /\ worker[home[c]] = "listening"
  /\ conn' = [conn EXCEPT ![c] = IF kind = "monoio" THEN "sniffing" ELSE "serving"]
  /\ UNCHANGED <<vars, lifecycle, home, bytes>>

\* The client closes, or sees that a panic of the task has closed it (external).
Close(c) ==
  /\ Alive /\ conn[c] \in {"sniffing", "h1", "h2", "serving"}
  /\ conn' = [conn EXCEPT ![c] = "closed"]
  /\ UNCHANGED <<vars, lifecycle, home, bytes>>

\* Some(false) is "h1", Some(true) is "h2", None is "sniffing".
detect_h2(buf) ==
  LET n == IF Len(buf) < Len(Preface) THEN Len(buf) ELSE Len(Preface)
  IN  IF SubSeq(buf, 1, n) # SubSeq(Preface, 1, n) THEN "h1"
      ELSE IF Len(buf) >= Len(Preface) THEN "h2"
      ELSE "sniffing"

\* The head-reading loop of `serve_connection` up to the first request: a read
\* returns any part of what the client has sent, and is followed by
\* `detect_h2` on all that was read.  A connection of HTTP/2 is handed over
\* with what was read.
Sniff(c) ==
  /\ Alive /\ conn[c] = "sniffing"
  /\ \E n \in filled[c] + 1 .. Len(stream[c]) :
       LET buf == SubSeq(stream[c], 1, n)
       IN  /\ filled' = [filled EXCEPT ![c] = n]
           /\ conn' = [conn EXCEPT ![c] = detect_h2(buf)]
           /\ prefix' = [prefix EXCEPT ![c] = IF detect_h2(buf) = "h2" THEN buf ELSE @]
  /\ UNCHANGED <<vars, lifecycle, home, stream, position, delivered>>

\* The HTTP/1 parser runs over the whole buffer once the head is complete.
ParseHead(c) ==
  /\ Alive /\ conn[c] = "h1"
  /\ filled' = [filled EXCEPT ![c] = Len(stream[c])]
  /\ delivered' = [delivered EXCEPT ![c] = stream[c]]
  /\ conn' = [conn EXCEPT ![c] = "serving"]
  /\ UNCHANGED <<vars, lifecycle, home, stream, prefix, position>>

Least(m, n) == IF m < n THEN m ELSE n

\* Mutant of poll_read: a short read of the prefix drops the rest of it.
PollReadDropping(c, room) ==
  IF position[c] < Len(prefix[c])
  THEN /\ position' = [position EXCEPT ![c] = Len(prefix[c])]
       /\ delivered' = [delivered EXCEPT ![c] = @ \o
            SubSeq(prefix[c], position[c] + 1, Least(position[c] + room, Len(prefix[c])))]
       /\ UNCHANGED filled
  ELSE \E k \in filled[c] + 1 .. Least(filled[c] + room, Len(stream[c])) :
         /\ delivered' = [delivered EXCEPT ![c] = @ \o SubSeq(stream[c], filled[c] + 1, k)]
         /\ filled' = [filled EXCEPT ![c] = k]
         /\ UNCHANGED position

\* `PrefixedIo::poll_read` into a buffer with the given room: what was buffered
\* while sniffing comes first, then the socket.
poll_read(c, room) ==
  IF position[c] < Len(prefix[c])
  THEN LET upTo == Least(position[c] + room, Len(prefix[c]))
       IN  /\ delivered' = [delivered EXCEPT ![c] = @ \o SubSeq(prefix[c], position[c] + 1, upTo)]
           /\ position' = [position EXCEPT ![c] = upTo]
           /\ UNCHANGED filled
  ELSE \E k \in filled[c] + 1 .. Least(filled[c] + room, Len(stream[c])) :
         /\ delivered' = [delivered EXCEPT ![c] = @ \o SubSeq(stream[c], filled[c] + 1, k)]
         /\ filled' = [filled EXCEPT ![c] = k]
         /\ UNCHANGED position

\* The HTTP/2 server of http2.rs's `serve_connection` reads the preface and
\* the first frame, in reads of its own size, and then serves requests.
ReadPreface(c) ==
  /\ Alive /\ conn[c] = "h2"
  /\ \E room \in 1 .. Len(stream[c]) : poll_read(c, room)
  /\ conn' = [conn EXCEPT ![c] = IF Len(delivered'[c]) >= Len(stream[c]) THEN "serving" ELSE "h2"]
  /\ UNCHANGED <<vars, lifecycle, home, stream, prefix>>

\* The steps of DataPlane: the control plane stores a table while it runs, and
\* requests are handled on the connections that are served.
Reconcile == Alive /\ control = "running" /\ store /\ UNCHANGED <<lifecycle, sockets, bytes>>

Serve(c) ==
  /\ Alive /\ conn[c] = "serving"
  /\ \/ Arrive(c)
     \/ HyperRequest(c) \/ MonoioH2Request(c) \/ HyperRespond(c)
     \/ MonoioRequest(c) \/ MonoioRespond(c)
     \/ request_filter(c) \/ upstream_peer(c)
     \/ upstream_request_filter(c) \/ response_filter(c) \/ PingoraFails(c)
  /\ UNCHANGED <<lifecycle, sockets, bytes>>

-----------------------------------------------------------------------------
ServerNext ==
  \/ HyperMain \/ MonoioMain \/ PingoraMain
  \/ HyperSpawn \/ MonoioSpawn \/ run_server \/ Join
  \/ InstallHandler \/ Sigint \/ Sigterm \/ SendShutdown \/ Reconcile
  \/ \E w \in Workers : run_worker(w) \/ Changed(w)
  \/ \E c \in Conns :
       \/ Connect(c) \/ Accept(c) \/ Close(c)
       \/ Sniff(c) \/ ParseHead(c) \/ ReadPreface(c)
       \/ Serve(c)

\* The runtimes poll every task that is ready: the signal task, `main`, and the
\* accept loops, whose select picks a ready arm at random, so that connections
\* that keep coming do not hide the channel.  Nothing is assumed of clients,
\* backends or signals.
ServerSpec ==
  /\ ServerInit /\ [][ServerNext]_serverVars
  /\ WF_serverVars(HyperMain) /\ WF_serverVars(MonoioMain)
  /\ WF_serverVars(HyperSpawn) /\ WF_serverVars(MonoioSpawn)
  /\ WF_serverVars(Join) /\ WF_serverVars(SendShutdown)
  /\ \A w \in Workers : WF_serverVars(run_worker(w)) /\ WF_serverVars(Changed(w))

-----------------------------------------------------------------------------
(* Properties.                                                             *)

\* Monoio serves a connection in the protocol that its client speaks, however
\* the opening bytes are cut into reads ("keep reading rather than guessing",
\* proxy-monoio/src/server.rs:175), and the server of that protocol gets the
\* client's bytes from the first one on, each once and in order, across the
\* hand-over from the sniffing buffer to the socket.
HandOverIsFaithful ==
  \A c \in Conns :
    /\ conn[c] = "h1" => plane[c] = "monoio"
    /\ conn[c] = "h2" =>
         /\ plane[c] = "monoio_h2"
         /\ Len(delivered[c]) + Len(prefix[c]) - position[c] = filled[c]
    /\ delivered[c] = SubSeq(stream[c], 1, Len(delivered[c]))

\* Once Hyper's handler has seen SIGINT the process ends, although clients keep
\* their connections open and further signals have no effect.
ShutdownCompletes == ctrl_c = "raised" ~> ~Alive

\* An accept loop of Hyper returns, and its process ends by itself, only after
\* the signal task has sent true: a channel whose sender is gone without it, as
\* it is when the handler cannot be installed, makes `changed()` ready in every
\* round of the select (proxy-hyper/src/server.rs:214) and stops nothing.
OnlyShutdownStopsHyper ==
  kind = "hyper" /\ (process = "stopped" \/ \E w \in Workers : worker[w] = "ended")
    => ctrl_c = "sent"

=============================================================================
