----------------------------- MODULE RouteFeed ------------------------------
(***************************************************************************)
(* What the control plane promises the data plane, without watches, lists, *)
(* notifications or a debounce: each table it publishes is a snapshot of   *)
(* the observed cluster state taken after the snapshot it replaces, and    *)
(* when the state has changed since the last snapshot another one is due.  *)
(***************************************************************************)

CONSTANTS
  RouteKeys, Services,   \* the keys of the observed state
  Absent,                \* a key that is not in its map
  compile(_, _),         \* the table that an observed state stands for
  Seed                   \* the table the proxy starts with

VARIABLES
  routes, endpoints,   \* the observed state
  due,                 \* it may have changed since the last snapshot
  snapshot,            \* the table about to be published, if there is one: a set of at most one
  published            \* the table the data plane reads

vars == <<routes, endpoints, due, snapshot, published>>

Init ==
  /\ routes = [k \in RouteKeys |-> Absent]
  /\ endpoints = [s \in Services |-> Absent]
  /\ due = TRUE
  /\ snapshot = {}
  /\ published = Seed

\* The observed state changes in any way, and a snapshot becomes due.
Observe ==
  /\ due' = TRUE
  /\ UNCHANGED <<snapshot, published>>

\* A snapshot is taken; there may be reason to take another.
Take ==
  /\ due /\ snapshot = {}
  /\ due' \in BOOLEAN
  /\ snapshot' = {compile(routes, endpoints)}
  /\ UNCHANGED <<routes, endpoints, published>>

\* The snapshot replaces the published table as a whole.
Publish ==
  /\ \E t \in snapshot : published' = t
  /\ snapshot' = {}
  /\ UNCHANGED <<routes, endpoints, due>>

Next == Observe \/ Take \/ Publish

Spec == Init /\ [][Next]_vars

\* A snapshot that stays due is taken, one that is taken is published.
FairSpec == Spec /\ WF_vars(Take) /\ WF_vars(Publish)

-----------------------------------------------------------------------------

\* With no snapshot due or in hand the data plane routes by the observed state.
CaughtUp == ~due /\ snapshot = {} => published = compile(routes, endpoints)

=============================================================================
