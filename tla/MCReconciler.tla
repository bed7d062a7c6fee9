---------------------------- MODULE MCReconciler ----------------------------
(***************************************************************************)
(* Instances of the reconciler for TLC: an HTTPRoute with backends of two  *)
(* Services, each with one EndpointSlice, the second Service in another    *)
(* namespace; for MCTwoSlices, two slices of the first one.                *)
(***************************************************************************)
EXTENDS Reconciler

CONSTANTS r1, svc, svc2, sl1, sl2, sl3, pod1, pod2, pod3

Rule(index, paths, service, weight) ==
  [index |-> index, matches |-> paths, filters |-> "none",
   backend_refs |-> {[service |-> service, port |-> 80, weight |-> weight]}]

\* A route of ours: a rule with an exact match and an excessive weight, one with the default
\* match and a backend of the other namespace, one without backends.  The other route belongs
\* to other gateways.
RouteOurs == [parent_refs |-> {[name |-> "lb-gateway", namespace |-> Any]},
              hostnames |-> {"a.com"},
              rules |-> {Rule(0, {[path |-> "/x", kind |-> "Exact"]}, svc, 2000000),
                         Rule(1, {}, svc2, 1),
                         [Rule(2, {}, svc, 1) EXCEPT !.backend_refs = {}]}]
RouteForeign == [RouteOurs EXCEPT !.parent_refs = {[name |-> "other", namespace |-> Any],
                                                   [name |-> "lb-gateway", namespace |-> "elsewhere"]}]

SliceReady == [ports |-> {80}, endpoints |-> {[address |-> pod1, ready |-> "true"],
                                              [address |-> pod2, ready |-> "false"]}]
SliceOther == [ports |-> {80, 81}, endpoints |-> {[address |-> pod2, ready |-> "unset"]}]

SliceMixed == [ports |-> {80, 81}, endpoints |-> SliceReady.endpoints \cup
                                                 {[address |-> pod3, ready |-> "unset"]}]

MCSpecs    == {RouteOurs, RouteForeign}
MCOneSpec  == {RouteOurs}
MCSlices   == {SliceReady, SliceOther}
MCOneSlice == {SliceMixed}
MCNamespaceOf  == [k \in {r1, sl1, sl2, sl3} |-> IF k = sl3 THEN "other" ELSE "ns"]
MCSliceService == [n \in {sl1, sl3} |-> IF n = sl3 THEN svc2 ELSE svc]
MCTwoSlices    == [n \in {sl1, sl2} |-> svc]
MCSeed == {[hostname |-> Any, path |-> "/", path_match |-> "Prefix", filters |-> <<"none", "/">>,
            endpoints |-> {[dns |-> FALSE, host |-> pod1, port |-> 80, weight |-> 1]},
            route |-> Any, rule |-> 0]}

=============================================================================
