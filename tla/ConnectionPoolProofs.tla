------------------------ MODULE ConnectionPoolProofs ------------------------
(***************************************************************************)
(* For every capacity, idle age and set of addresses: the pool is bounded, *)
(* hands out connections to the address asked for only, and `take` returns *)
(* the freshest one.                                                       *)
(***************************************************************************)
EXTENDS ConnectionPool, TLAPS

\* A stream is moved: it is parked once or in use once.
OneOwner ==
  /\ \A a, b \in Addresses : \A i \in 1..Len(inner[a]), j \in 1..Len(inner[b]) :
       inner[a][i].stream = inner[b][j].stream => a = b /\ i = j
  /\ \A p \in held : ~IsParked(p[1]) /\ \A q \in held : p[1] = q[1] => p = q

\* An empty pool satisfies every part of the invariant.
LEMMA InitType == Init => TypeOK /\ Bounded /\ Ordered /\ OneOwner /\ DialledForItsAddress
  BY PoolAssumption DEF Init, TypeOK, Bounded, Ordered, OneOwner, Pooled, DialledForItsAddress

\* What `evict_expired` leaves of a list is well typed, no longer than it was, and every
\* entry of it is an entry of the list, in the same order.
LEMMA EvictEntries ==
  ASSUME TypeOK, NEW a \in Addresses, NEW g \in Selections, SelectsFresh(g, a)
  PROVE  LET list == [k \in DOMAIN g |-> inner[a][g[k]]]
         IN  /\ list \in Seq(Pooled)
             /\ Len(list) <= MaxIdlePerHost
             /\ DOMAIN g = 1..Len(list)
             /\ \A k \in 1..Len(list) : g[k] \in 1..Len(inner[a]) /\ list[k] = inner[a][g[k]]
             /\ \A i, j \in 1..Len(list) : i < j => g[i] < g[j]
<1> DEFINE list == [k \in DOMAIN g |-> inner[a][g[k]]]
<1>1. PICK n \in 0..MaxIdlePerHost : g \in [1..n -> 1..MaxIdlePerHost]
  BY Zenon DEF Selections
<1>2. n \in Nat /\ n <= MaxIdlePerHost /\ DOMAIN g = 1..n
  BY <1>1, PoolAssumption
<1>3. \A k \in 1..n : g[k] \in 1..Len(inner[a])
  BY <1>2, Zenon DEF SelectsFresh, FreshIndices
<1>4. \A k \in 1..n : inner[a][g[k]] \in Pooled
  BY <1>3 DEF TypeOK
<1>5. list \in [1..n -> Pooled]
  BY <1>2, <1>4, Zenon
<1>6. list \in Seq(Pooled) /\ Len(list) = n
  BY <1>2, <1>5
<1> QED
  BY <1>2, <1>3, <1>6, Zenon DEF SelectsFresh

\* The invariants hold together: the ages say where `take` stops, the owners that what it
\* returns is nobody else's.
Inv == TypeOK /\ Bounded /\ Ordered /\ OneOwner

\* Taking a connection keeps the invariants.
LEMMA TakeInv ==
  ASSUME Inv, NEW a \in Addresses, NEW i \in FreshIndices(a), Take(a, i)
  PROVE  Inv'
<1> DEFINE list == SubSeq(inner[a], 1, i - 1)
<1>1. i \in 1..Len(inner[a]) /\ inner[a] \in Seq(Pooled) /\ Len(inner[a]) \in Nat
  BY DEF FreshIndices, Inv, TypeOK
<1>2. /\ list \in Seq(Pooled) /\ Len(list) = i - 1
      /\ \A k \in 1..(i - 1) : list[k] = inner[a][k]
  BY <1>1
<1>3. PICK s \in Streams : s = inner[a][i].stream
  <2>1. inner[a][i] \in Pooled
    BY <1>1
  <2> QED
    BY <2>1, Zenon DEF Pooled
<1> HIDE DEF list
<1>4. inner' = [inner EXCEPT ![a] = list] /\ held' = held \cup {<<s, a>>} /\ UNCHANGED <<now, dialled>>
  BY <1>3, Zenon DEF Take, list
<1>5. /\ inner'[a] = list
      /\ \A b \in Addresses : b # a => inner'[b] = inner[b]
  BY <1>4, Zenon DEF Inv, TypeOK
<1>6. TypeOK'
  BY <1>2, <1>3, <1>4 DEF Inv, TypeOK
<1>7. Bounded'
  BY <1>1, <1>2, <1>5, PoolAssumption DEF Inv, Bounded
<1>8. Ordered'
  <2> SUFFICES ASSUME NEW b \in Addresses, NEW k \in 1..Len(inner'[b]), NEW l \in 1..Len(inner'[b]),
                      k <= l
               PROVE  inner'[b][k].parked_at <= inner'[b][l].parked_at /\ inner'[b][l].parked_at <= now'
    BY Zenon DEF Ordered
  <2>1. k \in 1..Len(inner[b]) /\ l \in 1..Len(inner[b])
    BY <1>1, <1>2, <1>5
  <2>2. inner'[b][k] = inner[b][k] /\ inner'[b][l] = inner[b][l]
    BY <1>1, <1>2, <1>5, Zenon
  <2> QED
    BY <1>4, <2>1, <2>2, Zenon DEF Inv, Ordered
<1>9. OneOwner'
  <2>1. \A b \in Addresses : \A k \in 1..Len(inner'[b]) :
          /\ k \in 1..Len(inner[b])
          /\ inner'[b][k] = inner[b][k]
          /\ b = a => k < i
    BY <1>1, <1>2, <1>5
  <2>2. \A b, c \in Addresses : \A k \in 1..Len(inner'[b]), l \in 1..Len(inner'[c]) :
          inner'[b][k].stream = inner'[c][l].stream => b = c /\ k = l
    <3> SUFFICES ASSUME NEW b \in Addresses, NEW c \in Addresses, NEW k \in 1..Len(inner'[b]),
                        NEW l \in 1..Len(inner'[c]), inner'[b][k].stream = inner'[c][l].stream
                 PROVE  b = c /\ k = l
      BY Zenon
    <3>1. k \in 1..Len(inner[b]) /\ inner'[b][k] = inner[b][k]
      BY <2>1, Zenon
    <3>2. l \in 1..Len(inner[c]) /\ inner'[c][l] = inner[c][l]
      BY <2>1, Zenon
    <3> QED
      BY <3>1, <3>2 DEF Inv, OneOwner
  <2>3. \A b \in Addresses : \A k \in 1..Len(inner'[b]) : inner'[b][k].stream # s
    <3> SUFFICES ASSUME NEW b \in Addresses, NEW k \in 1..Len(inner'[b]), inner'[b][k].stream = s
                 PROVE  FALSE
      BY Zenon
    <3>1. k \in 1..Len(inner[b]) /\ inner[b][k].stream = inner[a][i].stream /\ (b = a => k < i)
      BY <1>3, <2>1, Zenon
    <3>2. b = a /\ k = i
      BY <1>1, <3>1, Zenon DEF Inv, OneOwner
    <3> QED
      BY <1>1, <3>1, <3>2
  <2>4. \A p \in held : ~IsParked(p[1])'
    BY <2>1 DEF Inv, OneOwner, IsParked
  <2>5. \A p \in held : p[1] # s
    BY <1>1, <1>3, Zenon DEF Inv, OneOwner, IsParked
  <2>6. ~IsParked(s)'
    BY <2>3, Zenon DEF IsParked
  <2>7. \A p \in held' : ~IsParked(p[1])'
    BY <1>4, <2>4, <2>6
  <2>8. \A p, q \in held' : p[1] = q[1] => p = q
    BY <1>4, <2>5 DEF Inv, OneOwner
  <2> QED
    BY <2>2, <2>7, <2>8, Zenon DEF OneOwner
<1> QED
  BY <1>6, <1>7, <1>8, <1>9, Zenon DEF Inv

\* Returning a connection keeps the invariants.
LEMMA PutInv ==
  ASSUME Inv, NEW s \in Streams, NEW a \in Addresses, Put(s, a)
  PROVE  Inv'
<1> DEFINE e == [stream |-> s, parked_at |-> now]
           list == Append(inner[a], e)
<1>1. /\ inner[a] \in Seq(Pooled) /\ Len(inner[a]) \in Nat
      /\ e \in Pooled /\ e.stream = s /\ e.parked_at = now
  <2>1. now \in 0..MaxNow /\ inner[a] \in Seq(Pooled)
    BY Zenon DEF Inv, TypeOK
  <2> QED
    BY <2>1 DEF Pooled
<1>2. <<s, a>> \in held /\ ~IsParked(s) /\ \A q \in held : q[1] = s => q = <<s, a>>
  BY DEF Put, Inv, OneOwner
<1>3. held' = held \ {<<s, a>>} /\ UNCHANGED <<now, dialled>>
  BY Zenon DEF Put
<1> HIDE DEF e
<1>4. CASE Len(inner[a]) < MaxIdlePerHost
  <2>1. /\ list \in Seq(Pooled) /\ Len(list) = Len(inner[a]) + 1
        /\ \A k \in 1..Len(inner[a]) : list[k] = inner[a][k]
        /\ list[Len(inner[a]) + 1] = e
    BY <1>1
  <2> HIDE DEF list
  <2>2. inner' = [inner EXCEPT ![a] = list]
    BY <1>4, Zenon DEF Put, e, list
  <2>3. inner'[a] = list /\ \A b \in Addresses : b # a => inner'[b] = inner[b]
    BY <2>2, Zenon DEF Inv, TypeOK
  <2>4. TypeOK'
    BY <1>3, <2>1, <2>2, Zenon DEF Inv, TypeOK
  <2>5. Bounded'
    BY <1>1, <1>4, <2>1, <2>3, PoolAssumption DEF Inv, Bounded
  <2>6. \A b \in Addresses : \A k \in 1..Len(inner'[b]) :
          \/ k \in 1..Len(inner[b]) /\ inner'[b][k] = inner[b][k]
          \/ b = a /\ k = Len(inner[a]) + 1 /\ inner'[b][k] = e
    BY <1>1, <2>1, <2>3, SMTT(30)
  <2>7. Ordered'
    <3> SUFFICES ASSUME NEW b \in Addresses, NEW k \in 1..Len(inner'[b]),
                        NEW l \in 1..Len(inner'[b]), k <= l
                 PROVE  /\ inner'[b][k].parked_at <= inner'[b][l].parked_at
                        /\ inner'[b][l].parked_at <= now'
      BY Zenon DEF Ordered
    <3>1. now \in Int
      BY DEF Inv, TypeOK
    <3>2. CASE l \in 1..Len(inner[b]) /\ inner'[b][l] = inner[b][l]
      <4>1. k \in 1..Len(inner[b]) /\ inner'[b][k] = inner[b][k]
        BY <1>1, <2>6, <3>2
      <4> QED
        BY <1>3, <3>2, <4>1, Zenon DEF Inv, Ordered
    <3>3. CASE b = a /\ l = Len(inner[a]) + 1 /\ inner'[b][l] = e
      <4>1. CASE k \in 1..Len(inner[b]) /\ inner'[b][k] = inner[b][k]
        BY <1>1, <1>3, <3>1, <3>3, <4>1, SMTT(30) DEF Inv, Ordered
      <4>2. CASE inner'[b][k] = e
        BY <1>1, <1>3, <3>1, <3>3, <4>2
      <4> QED
        BY <2>6, <4>1, <4>2, Zenon
    <3> QED
      BY <2>6, <3>2, <3>3, Zenon
  <2>8. OneOwner'
    <3>1. \A b \in Addresses : \A k \in 1..Len(inner[b]) : inner[b][k].stream # s
      BY <1>2, Zenon DEF IsParked
    <3>2. \A b, c \in Addresses : \A k \in 1..Len(inner'[b]), l \in 1..Len(inner'[c]) :
            inner'[b][k].stream = inner'[c][l].stream => b = c /\ k = l
      <4> SUFFICES ASSUME NEW b \in Addresses, NEW c \in Addresses, NEW k \in 1..Len(inner'[b]),
                          NEW l \in 1..Len(inner'[c]), inner'[b][k].stream = inner'[c][l].stream
                   PROVE  b = c /\ k = l
        BY Zenon
      <4>1. CASE inner'[b][k] = e \/ inner'[c][l] = e
        <5>1. inner'[b][k].stream = s /\ inner'[c][l].stream = s
          BY <1>1, <4>1, Zenon
        <5>2. b = a /\ k = Len(inner[a]) + 1
          BY <2>6, <3>1, <5>1
        <5>3. c = a /\ l = Len(inner[a]) + 1
          BY <2>6, <3>1, <5>1, Zenon
        <5> QED
          BY <5>2, <5>3, Zenon
      <4>2. CASE inner'[b][k] # e /\ inner'[c][l] # e
        <5>1. k \in 1..Len(inner[b]) /\ inner'[b][k] = inner[b][k]
          BY <2>6, <4>2, Zenon
        <5>2. l \in 1..Len(inner[c]) /\ inner'[c][l] = inner[c][l]
          BY <2>6, <4>2, Zenon
        <5> QED
          BY <5>1, <5>2 DEF Inv, OneOwner
      <4> QED
        BY <4>1, <4>2, Zenon
    <3>3. \A p \in held' : p[1] # s /\ p \in held
      BY <1>2, <1>3, Zenon
    <3>4. ASSUME NEW p \in held' PROVE ~IsParked(p[1])'
      <4>1. p[1] # s /\ ~IsParked(p[1])
        BY <3>3, Zenon DEF Inv, OneOwner
      <4>2. \A b \in Addresses : \A k \in 1..Len(inner[b]) : inner[b][k].stream # p[1]
        BY <4>1, Zenon DEF IsParked
      <4>3. ASSUME NEW b \in Addresses, NEW k \in 1..Len(inner'[b])
            PROVE  inner'[b][k].stream # p[1]
        BY <1>1, <2>6, <4>1, <4>2, Zenon
      <4> QED
        BY <4>3, Zenon DEF IsParked
    <3> QED
      BY <3>2, <3>3, <3>4, Zenon DEF Inv, OneOwner
  <2> QED
    BY <2>4, <2>5, <2>7, <2>8, Zenon DEF Inv
<1>5. CASE ~(Len(inner[a]) < MaxIdlePerHost)
  <2>1. inner' = inner
    BY <1>5, Zenon DEF Put
  <2>2. TypeOK' /\ Bounded' /\ Ordered'
    BY <1>3, <2>1, Zenon DEF Inv, TypeOK, Bounded, Ordered
  <2>3. OneOwner'
    BY <1>3, <2>1 DEF Inv, OneOwner, IsParked
  <2> QED
    BY <2>2, <2>3, Zenon DEF Inv
<1> QED
  BY <1>4, <1>5, Zenon

\* Closing what has expired keeps the invariants.
LEMMA EvictInv ==
  ASSUME Inv, EvictExpired
  PROVE  Inv'
<1>1. PICK g \in [Addresses -> Selections] :
        /\ \A a \in Addresses : SelectsFresh(g[a], a)
        /\ inner' = [a \in Addresses |-> [k \in DOMAIN g[a] |-> inner[a][g[a][k]]]]
        /\ UNCHANGED <<held, now, dialled>>
  BY Zenon DEF EvictExpired
<1>2. \A a \in Addresses :
        /\ inner'[a] \in Seq(Pooled)
        /\ Len(inner'[a]) <= MaxIdlePerHost
        /\ \A k \in 1..Len(inner'[a]) :
             g[a][k] \in 1..Len(inner[a]) /\ inner'[a][k] = inner[a][g[a][k]]
        /\ \A i, j \in 1..Len(inner'[a]) : i < j => g[a][i] < g[a][j]
  <2> SUFFICES ASSUME NEW a \in Addresses
               PROVE  /\ inner'[a] \in Seq(Pooled)
                      /\ Len(inner'[a]) <= MaxIdlePerHost
                      /\ \A k \in 1..Len(inner'[a]) :
                           g[a][k] \in 1..Len(inner[a]) /\ inner'[a][k] = inner[a][g[a][k]]
                      /\ \A i, j \in 1..Len(inner'[a]) : i < j => g[a][i] < g[a][j]
    BY Zenon
  <2>1. inner'[a] = [k \in DOMAIN g[a] |-> inner[a][g[a][k]]]
    BY <1>1, Zenon
  <2>2. g[a] \in Selections /\ SelectsFresh(g[a], a)
    BY <1>1, Zenon
  <2> QED
    BY <2>1, <2>2, EvictEntries, ZenonT(30) DEF Inv
<1>3. TypeOK'
  BY <1>1, <1>2, Zenon DEF Inv, TypeOK
<1>4. Bounded'
  BY <1>2, Zenon DEF Bounded
<1>5. Ordered'
  <2> SUFFICES ASSUME NEW a \in Addresses, NEW i \in 1..Len(inner'[a]), NEW j \in 1..Len(inner'[a]),
                      i <= j
               PROVE  /\ inner'[a][i].parked_at <= inner'[a][j].parked_at
                      /\ inner'[a][j].parked_at <= now'
    BY Zenon DEF Ordered
  <2>1. g[a][i] \in 1..Len(inner[a]) /\ g[a][j] \in 1..Len(inner[a])
    BY <1>2, Zenon
  <2>2. g[a][i] <= g[a][j]
    BY <1>2, <2>1
  <2>3. inner'[a][i] = inner[a][g[a][i]] /\ inner'[a][j] = inner[a][g[a][j]]
    BY <1>2, Zenon
  <2> QED
    BY <1>1, <2>1, <2>2, <2>3, Zenon DEF Inv, Ordered
<1>6. OneOwner'
  <2>1. ASSUME NEW a \in Addresses, NEW b \in Addresses, NEW i \in 1..Len(inner'[a]),
               NEW j \in 1..Len(inner'[b]), inner'[a][i].stream = inner'[b][j].stream
        PROVE  a = b /\ i = j
    <3>1. /\ g[a][i] \in 1..Len(inner[a]) /\ inner'[a][i] = inner[a][g[a][i]]
          /\ g[b][j] \in 1..Len(inner[b]) /\ inner'[b][j] = inner[b][g[b][j]]
      BY <1>2, Zenon
    <3>2. a = b /\ g[a][i] = g[b][j]
      BY <2>1, <3>1 DEF Inv, OneOwner
    <3>3. ~(i < j) /\ ~(j < i)
      BY <1>2, <3>1, <3>2
    <3>4. i = j
      <4>1. i \in Int /\ j \in Int
        BY <1>2, <3>2
      <4> QED
        BY <3>3, <4>1
    <3> QED
      BY <3>2, <3>4, Zenon
  <2>2. \A p \in held' : ~IsParked(p[1])'
    <3> SUFFICES ASSUME NEW p \in held, NEW a \in Addresses, NEW i \in 1..Len(inner'[a]),
                        inner'[a][i].stream = p[1]
                 PROVE  FALSE
      BY <1>1, Zenon DEF IsParked
    <3>1. g[a][i] \in 1..Len(inner[a]) /\ inner[a][g[a][i]].stream = p[1]
      BY <1>2, Zenon
    <3> QED
      BY <3>1, Zenon DEF Inv, OneOwner, IsParked
  <2> QED
    BY <1>1, <2>1, <2>2, Zenon DEF Inv, OneOwner
<1> QED
  BY <1>3, <1>4, <1>5, <1>6, Zenon DEF Inv

\* The clock moves on, a connection is dialled or dropped, or the expired rest is closed.
LEMMA NextInv == Inv /\ [Next]_vars => Inv'
<1> SUFFICES ASSUME Inv, [Next]_vars PROVE Inv'
  BY Zenon
<1>1. ASSUME NEW s \in Streams, NEW a \in Addresses, Dial(s, a) PROVE Inv'
  <2>1. TypeOK' /\ Bounded' /\ Ordered'
    BY <1>1 DEF Dial, Inv, TypeOK, Bounded, Ordered
  <2>2. OneOwner'
    <3>1. inner' = inner /\ held' = held \cup {<<s, a>>} /\ ~IsParked(s) /\ ~IsHeld(s)
      BY <1>1, Zenon DEF Dial
    <3>2. \A p \in held : p[1] # s
      <4> SUFFICES ASSUME NEW p \in held, p[1] = s PROVE FALSE
        BY Zenon
      <4>1. p = <<s, p[2]>> /\ p[2] \in Addresses
        BY DEF Inv, TypeOK
      <4> QED
        BY <3>1, <4>1, Zenon DEF IsHeld
    <3>3. \A p \in held' : ~IsParked(p[1])'
      BY <3>1 DEF Inv, OneOwner, IsParked
    <3>4. \A p, q \in held' : p[1] = q[1] => p = q
      BY <3>1, <3>2 DEF Inv, OneOwner
    <3> QED
      BY <3>1, <3>3, <3>4 DEF Inv, OneOwner
  <2> QED
    BY <2>1, <2>2, Zenon DEF Inv
<1>2. ASSUME NEW s \in Streams, NEW a \in Addresses, Drop(s, a) PROVE Inv'
  <2>1. TypeOK' /\ Bounded' /\ Ordered'
    BY <1>2, Zenon DEF Drop, Inv, TypeOK, Bounded, Ordered
  <2>2. OneOwner'
    BY <1>2 DEF Drop, Inv, OneOwner, IsParked
  <2> QED
    BY <2>1, <2>2, Zenon DEF Inv
<1>3. ASSUME NEW a \in Addresses, TakeNone(a) PROVE Inv'
  <2>1. \A b \in Addresses : inner'[b] = inner[b] \/ inner'[b] = <<>>
    BY <1>3, Zenon DEF TakeNone, Inv, TypeOK
  <2>2. TypeOK'
    BY <1>3 DEF TakeNone, Inv, TypeOK
  <2>3. Bounded' /\ Ordered'
    BY <1>3, <2>1, PoolAssumption DEF TakeNone, Inv, Bounded, Ordered
  <2>4. OneOwner'
    BY <1>3, <2>1 DEF TakeNone, Inv, OneOwner, IsParked
  <2> QED
    BY <2>2, <2>3, <2>4, Zenon DEF Inv
<1>4. CASE Tick
  <2>1. /\ inner' = inner /\ held' = held /\ now' = now + 1 /\ now < MaxNow /\ now \in 0..MaxNow
        /\ dialled' = dialled
    BY <1>4, Zenon DEF Tick, Inv, TypeOK
  <2>2. TypeOK' /\ Bounded'
    BY <2>1, PoolAssumption DEF Inv, TypeOK, Bounded
  <2>3. Ordered'
    <3> SUFFICES ASSUME NEW a \in Addresses, NEW i \in 1..Len(inner[a]), NEW j \in 1..Len(inner[a]),
                        i <= j
                 PROVE  /\ inner[a][i].parked_at <= inner[a][j].parked_at
                        /\ inner[a][j].parked_at <= now + 1
      BY <2>1, Zenon DEF Ordered
    <3>1. inner[a][j] \in Pooled
      BY DEF Inv, TypeOK
    <3>2. inner[a][j].parked_at \in Int
      BY <3>1 DEF Pooled
    <3> QED
      BY <2>1, <3>2 DEF Inv, Ordered
  <2>4. OneOwner'
    BY <2>1 DEF Inv, OneOwner, IsParked
  <2> QED
    BY <2>2, <2>3, <2>4, Zenon DEF Inv
<1>5. CASE UNCHANGED vars
  BY <1>5 DEF vars, Inv, TypeOK, Bounded, Ordered, OneOwner, IsParked
<1> QED
  BY <1>1, <1>2, <1>3, <1>4, <1>5, TakeInv, PutInv, EvictInv, Zenon DEF Next

\* Every step keeps what is parked or in use with the address it was dialled for.
LEMMA NextDialled == Inv /\ DialledForItsAddress /\ [Next]_vars => DialledForItsAddress'
<1> SUFFICES ASSUME Inv, DialledForItsAddress, [Next]_vars PROVE DialledForItsAddress'
  BY Zenon
<1>1. ASSUME NEW s \in Streams, NEW a \in Addresses, Dial(s, a) PROVE DialledForItsAddress'
  <2>1. /\ inner' = inner /\ held' = held \cup {<<s, a>>} /\ ~IsParked(s) /\ ~IsHeld(s)
        /\ \A p \in dialled : p[1] # s => p \in dialled'
        /\ <<s, a>> \in dialled'
    BY <1>1, Zenon DEF Dial
  <2>2. ASSUME NEW p \in held PROVE p \in dialled'
    <3>1. p = <<p[1], p[2]>> /\ p[2] \in Addresses
      BY DEF Inv, TypeOK
    <3>2. p[1] # s
      BY <2>1, <3>1, Zenon DEF IsHeld
    <3> QED
      BY <2>1, <3>2, Zenon DEF DialledForItsAddress
  <2>3. ASSUME NEW b \in Addresses, NEW i \in 1..Len(inner[b])
        PROVE  <<inner[b][i].stream, b>> \in dialled'
    <3>1. inner[b][i].stream # s
      BY <2>1, Zenon DEF IsParked
    <3>2. <<inner[b][i].stream, b>>[1] # s
      BY <3>1
    <3> QED
      BY <2>1, <3>2, Zenon DEF DialledForItsAddress
  <2> QED
    BY <2>1, <2>2, <2>3, Zenon DEF DialledForItsAddress
<1>2. ASSUME NEW s \in Streams, NEW a \in Addresses, Drop(s, a) PROVE DialledForItsAddress'
  BY <1>2, Zenon DEF Drop, DialledForItsAddress
<1>3. ASSUME NEW s \in Streams, NEW a \in Addresses, Put(s, a) PROVE DialledForItsAddress'
  <2> DEFINE e == [stream |-> s, parked_at |-> now]
  <2>1. <<s, a>> \in dialled /\ held' \subseteq dialled /\ dialled' = dialled /\ e.stream = s
    BY <1>3, Zenon DEF Put, DialledForItsAddress
  <2>2. \A b \in Addresses : inner'[b] = inner[b] \/ (b = a /\ inner'[b] = Append(inner[b], e))
    BY <1>3, Zenon DEF Put, Inv, TypeOK
  <2> HIDE DEF e
  <2>3. \A b \in Addresses : \A i \in 1..Len(inner'[b]) :
          \/ i \in 1..Len(inner[b]) /\ inner'[b][i] = inner[b][i]
          \/ b = a /\ inner'[b][i] = e
    <3> SUFFICES ASSUME NEW b \in Addresses, NEW i \in 1..Len(inner'[b])
                 PROVE  \/ i \in 1..Len(inner[b]) /\ inner'[b][i] = inner[b][i]
                        \/ b = a /\ inner'[b][i] = e
      BY Zenon
    <3>1. inner[b] \in Seq(Pooled)
      BY Zenon DEF Inv, TypeOK
    <3> QED
      BY <2>2, <3>1, SMTT(30)
  <2> QED
    BY <2>1, <2>3, Zenon DEF DialledForItsAddress
<1>4. ASSUME NEW a \in Addresses, NEW i \in FreshIndices(a), Take(a, i) PROVE DialledForItsAddress'
  <2>1. i \in 1..Len(inner[a]) /\ inner[a] \in Seq(Pooled)
    BY Zenon DEF FreshIndices, Inv, TypeOK
  <2>2. /\ held' = held \cup {<<inner[a][i].stream, a>>} /\ dialled' = dialled
        /\ \A b \in Addresses : b # a => inner'[b] = inner[b]
        /\ inner'[a] = SubSeq(inner[a], 1, i - 1)
    BY <1>4, Zenon DEF Take, Inv, TypeOK
  <2>3. \A b \in Addresses : \A k \in 1..Len(inner'[b]) :
          k \in 1..Len(inner[b]) /\ inner'[b][k] = inner[b][k]
    BY <2>1, <2>2
  <2> QED
    BY <2>1, <2>2, <2>3, Zenon DEF DialledForItsAddress
<1>5. ASSUME NEW a \in Addresses, TakeNone(a) PROVE DialledForItsAddress'
  <2>1. \A b \in Addresses : inner'[b] = inner[b] \/ inner'[b] = <<>>
    BY <1>5, Zenon DEF TakeNone, Inv, TypeOK
  <2>2. \A b \in Addresses : \A k \in 1..Len(inner'[b]) :
          k \in 1..Len(inner[b]) /\ inner'[b][k] = inner[b][k]
    BY <2>1
  <2>3. \A b \in Addresses : \A k \in 1..Len(inner'[b]) : <<inner'[b][k].stream, b>> \in dialled
    BY <2>2, Zenon DEF DialledForItsAddress
  <2> QED
    BY <1>5, <2>3, Zenon DEF TakeNone, DialledForItsAddress
<1>6. CASE EvictExpired
  <2>1. PICK g \in [Addresses -> Selections] :
          /\ \A a \in Addresses : SelectsFresh(g[a], a)
          /\ inner' = [a \in Addresses |-> [k \in DOMAIN g[a] |-> inner[a][g[a][k]]]]
          /\ UNCHANGED <<held, now, dialled>>
    BY <1>6, Zenon DEF EvictExpired
  <2>2. ASSUME NEW a \in Addresses, NEW k \in 1..Len(inner'[a])
        PROVE  g[a][k] \in 1..Len(inner[a]) /\ inner'[a][k] = inner[a][g[a][k]]
    <3>1. inner'[a] = [j \in DOMAIN g[a] |-> inner[a][g[a][j]]]
      BY <2>1, Zenon
    <3>2. g[a] \in Selections /\ SelectsFresh(g[a], a)
      BY <2>1, Zenon
    <3> QED
      BY <2>2, <3>1, <3>2, EvictEntries, ZenonT(30) DEF Inv
  <2>3. \A a \in Addresses : \A k \in 1..Len(inner'[a]) : <<inner'[a][k].stream, a>> \in dialled
    BY <2>2, Zenon DEF DialledForItsAddress
  <2> QED
    BY <2>1, <2>3, Zenon DEF DialledForItsAddress
<1>7. CASE Tick \/ UNCHANGED vars
  BY <1>7, Zenon DEF Tick, vars, DialledForItsAddress
<1> QED
  BY <1>1, <1>2, <1>3, <1>4, <1>5, <1>6, <1>7, Zenon DEF Next

\* The pool's state is well typed.
THEOREM TypeCorrect == Spec => []TypeOK
  BY InitType, NextInv, PTL DEF Spec, Inv

\* The pool is bounded for every capacity, whatever is put into it and however long.
THEOREM PoolIsBounded == Spec => []Bounded
  BY InitType, NextInv, PTL DEF Spec, Inv

\* A request is only ever given a connection to the address it asked for.
THEOREM ConnectionsGoWhereAsked == Spec => []DialledForItsAddress
  BY InitType, NextInv, NextDialled, PTL DEF Spec, Inv

\* A `take` that returns a connection returns the most recently parked one and closes none.
THEOREM TakeReturnsTheLatest == Spec => TakeClosesNothing
<1> DEFINE A == \A a \in Addresses, s \in Streams :
                  IsParked(s) /\ <<s, a>> \in held' =>
                    /\ inner[a][Len(inner[a])].stream = s
                    /\ inner'[a] = SubSeq(inner[a], 1, Len(inner[a]) - 1)
<1>1. Inv /\ [Next]_vars => [A]_vars
  <2> SUFFICES ASSUME Inv, Next, NEW a \in Addresses, NEW s \in Streams, IsParked(s),
                      <<s, a>> \in held'
               PROVE  /\ inner[a][Len(inner[a])].stream = s
                      /\ inner'[a] = SubSeq(inner[a], 1, Len(inner[a]) - 1)
    BY Zenon DEF A
  <2>1. <<s, a>> \notin held
    BY Zenon DEF Inv, OneOwner
  <2>2. ~(\E t \in Streams, b \in Addresses : Dial(t, b) \/ Drop(t, b) \/ Put(t, b))
    <3>1. ASSUME NEW t \in Streams, NEW b \in Addresses, Dial(t, b) PROVE FALSE
      <4>1. <<s, a>> = <<t, b>>
        BY <2>1, <3>1, Zenon DEF Dial
      <4>2. s = t
        BY <4>1, Zenon
      <4> QED
        BY <3>1, <4>2, Zenon DEF Dial
    <3>2. ASSUME NEW t \in Streams, NEW b \in Addresses, Drop(t, b) \/ Put(t, b) PROVE FALSE
      BY <2>1, <3>2, Zenon DEF Drop, Put
    <3> QED
      BY <3>1, <3>2, Zenon
  <2>3. ~(EvictExpired \/ Tick \/ \E b \in Addresses : TakeNone(b))
    BY <2>1, Zenon DEF EvictExpired, Tick, TakeNone
  <2>4. PICK b \in Addresses : \E i \in FreshIndices(b) : Take(b, i)
    BY <2>2, <2>3, Zenon DEF Next
  <2>5. PICK i \in FreshIndices(b) : Take(b, i)
    BY <2>4, Zenon
  <2>6. b = a /\ inner[a][i].stream = s
    BY <2>1, <2>5, Zenon DEF Take
  <2>7. /\ inner[a] \in Seq(Pooled) /\ Len(inner[a]) \in Nat /\ now \in Int
        /\ i \in 1..Len(inner[a])
    BY <2>6 DEF Inv, TypeOK, FreshIndices
  <2>8. Len(inner[a]) \in FreshIndices(a)
    <3>1. Len(inner[a]) \in 1..Len(inner[a])
      BY <2>7
    <3>2. inner[a][i] \in Pooled /\ inner[a][Len(inner[a])] \in Pooled
      BY <2>7, <3>1
    <3>3. inner[a][i].parked_at \in Int /\ inner[a][Len(inner[a])].parked_at \in Int
      BY <3>2 DEF Pooled
    <3>4. inner[a][i].parked_at <= inner[a][Len(inner[a])].parked_at
      BY <2>7, <3>1 DEF Inv, Ordered
    <3>5. now - inner[a][i].parked_at < MaxIdleAge
      BY <2>6, Zenon DEF FreshIndices, Fresh
    <3> QED
      BY <2>7, <3>1, <3>3, <3>4, <3>5, PoolAssumption DEF FreshIndices, Fresh
  <2>9. i = Len(inner[a])
    BY <2>5, <2>6, <2>7, <2>8 DEF Take
  <2> QED
    BY <2>5, <2>6, <2>9, Zenon DEF Take, Inv, TypeOK
<1>2. TakeClosesNothing <=> [][A]_vars
  BY Zenon DEF TakeClosesNothing
<1> HIDE DEF A
<1> QED
  BY <1>1, <1>2, InitType, NextInv, PTL DEF Spec, Inv

=============================================================================
