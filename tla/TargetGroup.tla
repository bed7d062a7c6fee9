----------------------------- MODULE TargetGroup -----------------------------
(***************************************************************************)
(* Upstream selection (crates/core/src/target.rs): a TargetGroup picks a   *)
(* policy for the endpoints of a route, and any number of request tasks    *)
(* call `select` on it at once.                                            *)
(*                                                                         *)
(* An endpoint is its position in the list `from_endpoints` is given; only *)
(* its weight matters.  Endpoint 0 is the placeholder 127.0.0.1:80 that    *)
(* stands in when no endpoint may receive traffic.                         *)
(***************************************************************************)
EXTENDS Integers, Sequences, SequencesExt, FiniteSetsExt, Functions

CONSTANTS
  WeightLists,      \* the weights of the endpoints of a route, as sequences
  MaxWeightTable,   \* MAX_WEIGHT_TABLE
  Tasks,            \* tasks that forward requests
  MaxSelects        \* bound on the calls of `select`, far below the 2^64 of the cursor

ASSUME TargetGroupAssumption ==
  /\ \A ws \in WeightLists : ws \in Seq(Nat)
  /\ MaxWeightTable \in Nat \ {0}
  /\ MaxSelects \in Nat

VARIABLES
  weights,   \* the endpoints `from_endpoints` was given
  policy,    \* `TargetGroup.inner`: [kind, endpoints, table]
  cursor,    \* its AtomicUsize
  idx,       \* what a task got from `fetch_add`, or -1 when it is not in `select`
  picked     \* number of times each endpoint has been returned (history variable)

vars == <<weights, policy, cursor, idx, picked>>

Placeholder == 0

-----------------------------------------------------------------------------
(* expand_weights.                                                         *)

SumSeq(s) == FoldLeft(LAMBDA a, b : a + b, 0, s)

\* Rounding of a/b to the nearest integer, halves away from zero.
Round(a, b) == (2 * a + b) \div (2 * b)

\* Mutant: weights are never scaled down.
ScaledNever(ws) == ws

scaled(ws) ==
  LET total == SumSeq(ws)
  IN  [i \in DOMAIN ws |->
         IF total > MaxWeightTable
         THEN Max({1, Round(ws[i] * MaxWeightTable, total)})
         ELSE ws[i]]

\* The first index with the highest credit.
BestIndex(current) ==
  Min({i \in DOMAIN current : \A j \in DOMAIN current : current[j] <= current[i]})

\* `u16::try_from(best).unwrap_or(0)`, with positions counted from 1.
TableEntry(best) == IF best - 1 < 2^16 THEN best ELSE 1

\* Mutant: the winner pays back its own weight and not the total.
PickPayingOwnWeight(sc, s) ==
  LET credited == [i \in DOMAIN sc |-> s.current[i] + sc[i]]
      best     == BestIndex(credited)
  IN  [current |-> [credited EXCEPT ![best] = @ - sc[best]],
       table   |-> Append(s.table, TableEntry(best))]

\* One round of smooth weighted round robin.
Pick(sc, s) ==
  LET credited == [i \in DOMAIN sc |-> s.current[i] + sc[i]]
      best     == BestIndex(credited)
  IN  [current |-> [credited EXCEPT ![best] = @ - SumSeq(sc)],
       table   |-> Append(s.table, TableEntry(best))]

expand_weights(ws) ==
  LET sc    == scaled(ws)
      start == [current |-> [i \in DOMAIN sc |-> 0], table |-> <<>>]
  IN  FoldLeft(LAMBDA s, round : Pick(sc, s), start, [n \in 1..SumSeq(sc) |-> n]).table

-----------------------------------------------------------------------------
(* from_endpoints.                                                         *)

from_endpoints(ws) ==
  LET retained == SelectSeq([i \in DOMAIN ws |-> i], LAMBDA i : ws[i] > 0)
      kept     == [i \in DOMAIN retained |-> ws[retained[i]]]
      uniform  == \A i, j \in DOMAIN kept : kept[i] = kept[j]
  IN  IF Len(retained) = 0
      THEN [kind |-> "Single", endpoints |-> <<Placeholder>>, table |-> <<1>>]
      ELSE IF Len(retained) = 1
      THEN [kind |-> "Single", endpoints |-> retained, table |-> <<1>>]
      ELSE IF uniform
      THEN [kind |-> "RoundRobin", endpoints |-> retained,
            table |-> [i \in DOMAIN retained |-> i]]
      ELSE [kind |-> "Weighted", endpoints |-> retained, table |-> expand_weights(kept)]

-----------------------------------------------------------------------------

Init ==
  /\ weights \in WeightLists
  /\ policy = from_endpoints(weights)
  /\ cursor = 0
  /\ idx = [t \in Tasks |-> -1]
  /\ picked = [e \in 0..Len(weights) |-> 0]

InSelect == {t \in Tasks : idx[t] # -1}

Issued == SumFunction(picked) + Cardinality(InSelect)

\* Mutant: a load and a store, so that a task may store over what another has stored.
FetchAddRacing(t) ==
  /\ idx[t] = -1
  /\ Issued < MaxSelects
  /\ \E seen \in {cursor} \cup {idx[u] : u \in InSelect} :
       /\ idx' = [idx EXCEPT ![t] = seen]
       /\ cursor' = IF policy.kind = "Single" THEN cursor ELSE seen + 1
  /\ UNCHANGED <<weights, policy, picked>>

\* `cursor.fetch_add(1, Relaxed)`; a Single policy has no cursor.
FetchAdd(t) ==
  /\ idx[t] = -1
  /\ Issued < MaxSelects
  /\ idx' = [idx EXCEPT ![t] = cursor]
  /\ cursor' = IF policy.kind = "Single" THEN cursor ELSE cursor + 1
  /\ UNCHANGED <<weights, policy, picked>>

\* The endpoint in the slot of an index.
Slot(i) == policy.endpoints[policy.table[1 + (i % Len(policy.table))]]

Select(t) ==
  /\ idx[t] # -1
  /\ picked' = [picked EXCEPT ![Slot(idx[t])] = @ + 1]
  /\ idx' = [idx EXCEPT ![t] = -1]
  /\ UNCHANGED <<weights, policy, cursor>>

Next == \E t \in Tasks : FetchAdd(t) \/ Select(t)

Spec == Init /\ [][Next]_vars

-----------------------------------------------------------------------------
(* Properties.                                                             *)

\* The share of an endpoint, out of TotalShare: its weight, scaled if the weights are large.
Retained == {i \in DOMAIN weights : weights[i] > 0}

Share(e) ==
  IF Retained = {} THEN IF e = Placeholder THEN 1 ELSE 0
  ELSE IF e \notin Retained THEN 0
  ELSE LET ws == [i \in DOMAIN policy.endpoints |-> weights[policy.endpoints[i]]]
       IN  scaled(ws)[CHOOSE i \in DOMAIN ws : policy.endpoints[i] = e]

TotalShare == MapThenSumSet(Share, 0..Len(weights))

\* Calls of `select` that have returned e or are about to.
IssuedTo(e) == picked[e] + Cardinality({t \in InSelect : Slot(idx[t]) = e})

\* However the calls interleave, no endpoint is ever ahead of its weighted share by a whole
\* request, so none takes its whole share in a block while the others wait; an endpoint of
\* weight zero gets nothing.
NeverAheadOfShare ==
  \A e \in 0..Len(weights) : (IssuedTo(e) - 1) * TotalShare < Issued * Share(e)

\* Each time the cursor has gone through the table a whole number of times, every endpoint
\* has been given out in the exact ratio of the weights, although the calls that took the
\* indices may return in any order.
FullPassIsExact ==
  Issued % TotalShare = 0 =>
    \A e \in 0..Len(weights) : IssuedTo(e) * TotalShare = Issued * Share(e)

\* The table that `select` indexes.  It is not empty and every entry of it is an endpoint's
\* position, so the `%` and the two index operations of `select` cannot panic; and it exceeds
\* its cap by less than one entry per endpoint: weights are scaled down when their sum is above
\* MAX_WEIGHT_TABLE, and rounding and the minimum of one entry add less than one to each.  (The
\* cap itself, target.rs:14-19, can be exceeded.)
TableIsSound ==
  /\ policy.table # <<>>
  /\ \A i \in DOMAIN policy.table : policy.table[i] \in DOMAIN policy.endpoints
  /\ policy.kind = "Weighted" => Len(policy.table) < MaxWeightTable + Len(policy.endpoints)

=============================================================================
