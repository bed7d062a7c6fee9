---------------------------- MODULE ClusterState ----------------------------
(***************************************************************************)
(* The cluster state the control plane observes and the route entries it   *)
(* is compiled to (crates/core/src/gateway.rs, `ClusterState`).            *)
(*                                                                         *)
(* A stored HTTPRoute is a record with the fields of `HttpRouteSpec` that  *)
(* decide routing.  Lists whose order does not matter here are sets.  What *)
(* a filter list means is not looked at: a compiled filter set is the pair *)
(* of the list and of the path it was compiled for, since                  *)
(* `compile_filters` is called once per match with that match's path.      *)
(***************************************************************************)
EXTENDS Integers, FiniteSets

CONSTANTS
  RouteKeys,     \* (namespace, name) of an HTTPRoute
  RouteSpecs,    \* parsed `HttpRouteSpec`s, see IsRouteSpec
  Services,      \* (namespace, service) keys
  Addresses,     \* pod addresses
  Ports,         \* ports of endpoints and of backendRefs
  NamespaceOf,   \* the namespace in the key of an object
  Namespace,     \* `ControllerConfig.namespace`, or Any
  GatewayName,   \* `ControllerConfig.gateway_name`, or Any
  Any,           \* `None` of the two options above and of a hostname
  Absent         \* the key is not in the map

(***************************************************************************)
(* `MAX` of the clamp in `resolve`: Gateway API weights are 0-1_000_000.   *)
(***************************************************************************)
MaxWeight == 1000000

Clamp(lo, hi, n) == IF n < lo THEN lo ELSE IF n > hi THEN hi ELSE n

ReadyEndpoint == [address : Addresses, port : Ports]

BackendRef == [service : Services, port : Ports, weight : Int]

(***************************************************************************)
(* An endpoint of a compiled route: a pod when `dns` is FALSE, the DNS     *)
(* name of the Service `host` when it is TRUE.                             *)
(***************************************************************************)
BackendEndpoint ==
  [dns : BOOLEAN, host : Addresses \cup Services, port : Ports, weight : 0..MaxWeight]

IsRule(rule) ==
  /\ rule.backend_refs \in SUBSET BackendRef
  /\ IsFiniteSet(rule.backend_refs)

(***************************************************************************)
(* parent_refs are the `parentRefs` of a route (a record with a name and a *)
(* namespace, Any when omitted) and rules is a set of records with an      *)
(* index, `matches`, `backend_refs` and `filters`.                         *)
(***************************************************************************)
ASSUME RouteSpecsAssumption ==
  \A spec \in RouteSpecs : \A rule \in spec.rules : IsRule(rule)

ASSUME AbsentAssumption == Absent \notin RouteSpecs

\* Mutant: the weight of the backendRef is taken as it is.
ResolveUnclamped(endpoints, b) ==
  LET known == IF endpoints[b.service] = Absent
               THEN {}
               ELSE {e \in endpoints[b.service] : e.port = b.port}
  IN  IF known # {}
      THEN {[dns |-> FALSE, host |-> e.address, port |-> e.port, weight |-> b.weight] : e \in known}
      ELSE {[dns |-> TRUE, host |-> b.service, port |-> b.port, weight |-> b.weight]}

(***************************************************************************)
(* `resolve`: the ready endpoints known for the backend's port, or the     *)
(* Service's DNS name when none is.                                        *)
(***************************************************************************)
resolve(endpoints, b) ==
  LET weight == Clamp(0, MaxWeight, b.weight)
      known  == IF endpoints[b.service] = Absent
                THEN {}
                ELSE {e \in endpoints[b.service] : e.port = b.port}
  IN  IF known # {}
      THEN {[dns |-> FALSE, host |-> e.address, port |-> e.port, weight |-> weight] : e \in known}
      ELSE {[dns |-> TRUE, host |-> b.service, port |-> b.port, weight |-> weight]}

(***************************************************************************)
(* `route_is_ours`, for the route stored under key k: a parentRef's        *)
(* namespace defaults to the route's own.                                  *)
(***************************************************************************)
route_is_ours(k, spec) ==
  \/ GatewayName = Any
  \/ spec.parent_refs = {}
  \/ \E p \in spec.parent_refs :
       /\ p.name = GatewayName
       /\ \/ Namespace = Any
          \/ p.namespace = Any /\ Namespace = NamespaceOf[k]
          \/ p.namespace # Any /\ Namespace = p.namespace

\* No `matches` means "match everything", no hostnames means "any host".
matches(rule) ==
  IF rule.matches = {} THEN {[path |-> "/", kind |-> "Prefix"]} ELSE rule.matches

hostnames(spec) == IF spec.hostnames = {} THEN {Any} ELSE spec.hostnames

(***************************************************************************)
(* The `RouteSpec`s that `compile` hands to the builder for one rule of    *)
(* the route stored under key k.                                           *)
(***************************************************************************)
RuleEntries(endpoints, k, spec, rule) ==
  LET eps == UNION {resolve(endpoints, b) : b \in rule.backend_refs}
  IN  IF eps = {}
      THEN {}
      ELSE {[hostname   |-> h,
             path       |-> m.path,
             path_match |-> m.kind,
             endpoints  |-> eps,
             filters    |-> <<rule.filters, m.path>>,
             route      |-> k,
             rule       |-> rule.index] : h \in hostnames(spec), m \in matches(rule)}

RouteEntries(endpoints, k, spec) ==
  IF route_is_ours(k, spec)
  THEN UNION {RuleEntries(endpoints, k, spec, rule) : rule \in spec.rules}
  ELSE {}

(***************************************************************************)
(* `compile`: every entry of every stored route that is ours.  `routes` is *)
(* a HashMap, so the entries come in no particular order.                  *)
(***************************************************************************)
compile(routes, endpoints) ==
  UNION {RouteEntries(endpoints, k, routes[k]) : k \in {r \in RouteKeys : routes[r] # Absent}}

(***************************************************************************)
(* `parse_endpoint_slice`: the ready addresses of a slice on each of its   *)
(* ports.  A slice without ports yields the empty list, and an endpoint    *)
(* with no `ready` condition counts as ready.  An endpoint with several    *)
(* addresses is several elements of slice.endpoints with one condition.    *)
(***************************************************************************)
parse_endpoint_slice(slice) ==
  {[address |-> e.address, port |-> p] :
     e \in {x \in slice.endpoints : x.ready # "false"}, p \in slice.ports}

=============================================================================
