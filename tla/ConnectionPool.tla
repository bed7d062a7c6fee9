--------------------------- MODULE ConnectionPool ---------------------------
(***************************************************************************)
(* The per-worker pool of idle upstream connections                        *)
(* (crates/proxy-monoio/src/pool.rs).  One thread owns it, so every        *)
(* operation is atomic; time passes between operations.                    *)
(***************************************************************************)
EXTENDS Integers, Sequences, FiniteSets

CONSTANTS
  Addresses,        \* upstream `host:port` strings
  Streams,          \* TcpStreams
  MaxIdlePerHost,   \* MAX_IDLE_PER_HOST
  MaxIdleAge,       \* MAX_IDLE_AGE
  MaxNow            \* bound on the clock

ASSUME PoolAssumption ==
  MaxIdlePerHost \in Nat /\ MaxIdleAge \in Nat /\ MaxNow \in Nat

VARIABLES
  inner,   \* idle connections of each address, the most recently parked one last
  held,    \* connections in use: a stream and the `upstream_addr` of the request that uses it
  now,     \* `Instant::now()`
  dialled  \* each stream with the address it was last connected to (history)

vars == <<inner, held, now, dialled>>

Pooled == [stream : Streams, parked_at : 0..MaxNow]

Init ==
  /\ inner = [a \in Addresses |-> <<>>]
  /\ held = {}
  /\ now = 0
  /\ dialled = {}

IsParked(s) == \E a \in Addresses : \E i \in 1..Len(inner[a]) : inner[a][i].stream = s
IsHeld(s)   == \E a \in Addresses : <<s, a>> \in held

Fresh(entry) == now - entry.parked_at < MaxIdleAge

FreshIndices(a) == {i \in 1..Len(inner[a]) : Fresh(inner[a][i])}

\* `acquire_upstream` dials a new connection (external).
Dial(s, a) ==
  /\ ~IsParked(s) /\ ~IsHeld(s)
  /\ held' = held \cup {<<s, a>>}
  /\ dialled' = {p \in dialled : p[1] # s} \cup {<<s, a>>}
  /\ UNCHANGED <<inner, now>>

\* A connection in use is dropped and not returned.
Drop(s, a) ==
  /\ <<s, a>> \in held
  /\ held' = held \ {<<s, a>>}
  /\ UNCHANGED <<inner, now, dialled>>

\* Mutant: the oldest connection is taken.
TakeOldest(a, i) ==
  /\ i \in FreshIndices(a)
  /\ \A j \in FreshIndices(a) : i <= j
  /\ inner' = [inner EXCEPT ![a] = SubSeq(@, i + 1, Len(@))]
  /\ held' = held \cup {<<inner[a][i].stream, a>>}
  /\ UNCHANGED <<now, dialled>>

\* `take`: entries are popped until one is fresh, and the stale ones are closed.
Take(a, i) ==
  /\ i \in FreshIndices(a)
  /\ \A j \in FreshIndices(a) : j <= i
  /\ inner' = [inner EXCEPT ![a] = SubSeq(@, 1, i - 1)]
  /\ held' = held \cup {<<inner[a][i].stream, a>>}
  /\ UNCHANGED <<now, dialled>>

TakeNone(a) ==
  /\ FreshIndices(a) = {}
  /\ inner' = [inner EXCEPT ![a] = <<>>]
  /\ UNCHANGED <<held, now, dialled>>

\* Mutant: the bound is checked after the push.
PutPastCapacity(s, a) ==
  /\ <<s, a>> \in held
  /\ held' = held \ {<<s, a>>}
  /\ inner' = IF Len(inner[a]) <= MaxIdlePerHost
              THEN [inner EXCEPT ![a] = Append(@, [stream |-> s, parked_at |-> now])]
              ELSE inner
  /\ UNCHANGED <<now, dialled>>

\* Mutant: the key leaves out the port, so that the ports of a host share one list.
PutByHost(s, a) ==
  LET host == CHOOSE b \in Addresses : TRUE
  IN  /\ <<s, a>> \in held
      /\ held' = held \ {<<s, a>>}
      /\ inner' = IF Len(inner[host]) < MaxIdlePerHost
                  THEN [inner EXCEPT ![host] = Append(@, [stream |-> s, parked_at |-> now])]
                  ELSE inner
      /\ UNCHANGED <<now, dialled>>

\* `put`: at capacity the connection is closed.
Put(s, a) ==
  /\ <<s, a>> \in held
  /\ held' = held \ {<<s, a>>}
  /\ inner' = IF Len(inner[a]) < MaxIdlePerHost
              THEN [inner EXCEPT ![a] = Append(@, [stream |-> s, parked_at |-> now])]
              ELSE inner
  /\ UNCHANGED <<now, dialled>>

\* The fresh positions of a list, in their order.
Selections == UNION {[1..n -> 1..MaxIdlePerHost] : n \in 0..MaxIdlePerHost}

SelectsFresh(g, a) ==
  /\ \A i, j \in DOMAIN g : i < j => g[i] < g[j]
  /\ {g[i] : i \in DOMAIN g} = FreshIndices(a)

\* `evict_expired`: `retain` keeps the fresh entries in their order.  That an address with no
\* entry left is removed from the map is not visible.
EvictExpired ==
  \E g \in [Addresses -> Selections] :
    /\ \A a \in Addresses : SelectsFresh(g[a], a)
    /\ inner' = [a \in Addresses |-> [k \in DOMAIN g[a] |-> inner[a][g[a][k]]]]
    /\ UNCHANGED <<held, now, dialled>>

Tick ==
  /\ now < MaxNow
  /\ now' = now + 1
  /\ UNCHANGED <<inner, held, dialled>>

Next ==
  \/ \E s \in Streams, a \in Addresses : Dial(s, a) \/ Drop(s, a) \/ Put(s, a)
  \/ \E a \in Addresses : TakeNone(a) \/ \E i \in FreshIndices(a) : Take(a, i)
  \/ EvictExpired
  \/ Tick

Spec == Init /\ [][Next]_vars

-----------------------------------------------------------------------------
(* Properties.                                                             *)

\* Type invariant of the pool.
TypeOK ==
  /\ inner \in [Addresses -> Seq(Pooled)]
  /\ held \subseteq Streams \X Addresses
  /\ now \in 0..MaxNow
  /\ dialled \subseteq Streams \X Addresses

\* The pool never holds more than MAX_IDLE_PER_HOST connections of one address.
Bounded == \A a \in Addresses : Len(inner[a]) <= MaxIdlePerHost

\* A request for an address gets connections to that address only, whichever requests used them
\* before: what is parked under a key, or in use for it, was dialled for it.  `put` and `take` go
\* by the address string of two different requests, and nothing in the stream tells them apart.
DialledForItsAddress ==
  /\ held \subseteq dialled
  /\ \A a \in Addresses : \A i \in 1..Len(inner[a]) : <<inner[a][i].stream, a>> \in dialled

\* Entries are ordered by the time they were parked, the latest one last.
Ordered ==
  \A a \in Addresses : \A i, j \in 1..Len(inner[a]) :
    i <= j => inner[a][i].parked_at <= inner[a][j].parked_at /\ inner[a][j].parked_at <= now

\* `take` stops at the first fresh entry from the end.  Because entries are ordered, the one it
\* returns is the most recently parked one of its address, so a `take` that returns a
\* connection closes none: stale connections are only closed all together.
TakeClosesNothing ==
  [][\A a \in Addresses, s \in Streams :
       IsParked(s) /\ <<s, a>> \in held' =>
         /\ inner[a][Len(inner[a])].stream = s
         /\ inner'[a] = SubSeq(inner[a], 1, Len(inner[a]) - 1)]_vars

=============================================================================
