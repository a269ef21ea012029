---------------------------- MODULE RoutesProofs ----------------------------
(***************************************************************************)
(* Proofs about the route computation of mOSPF, for any routers, networks, *)
(* wirings and databases.                                                  *)
(***************************************************************************)
EXTENDS MospfRoutes, Integers, FiniteSetTheorems, TLAPS

-----------------------------------------------------------------------------
(***************************************************************************)
(* Numbers.                                                                *)
(***************************************************************************)

\* A set of numbers has a smallest one, as the sets 1..n are well-founded.
LEMMA Smallest ==
  ASSUME NEW S \in SUBSET Nat, S # {}
  PROVE  \E n \in S : \A m \in S : n <= m
<1> DEFINE T == {1..n : n \in S}
           R == StrictSubsetOrdering(Nat)
<1>1. IsWellFoundedOn(R, FiniteSubsetsOf(Nat))
  BY FS_StrictSubsetOrderingWellFounded
<1>2. T \subseteq FiniteSubsetsOf(Nat) /\ T # {}
  <2>1. \A n \in S : IsFiniteSet(1..n) /\ 1..n \in SUBSET Nat
    BY FS_Interval
  <2> QED BY <2>1 DEF FiniteSubsetsOf
<1>3. \E x \in T : \A y \in T : ~(<<y, x>> \in R)
  <2> HIDE DEF T, R
  <2> QED BY <1>1, <1>2, WFMin
<1>4. PICK n \in S : \A m \in S : ~(<<1..m, 1..n>> \in R)
  BY <1>3
<1>5. \A m \in S : ~(1..m \subseteq 1..n /\ 1..m # 1..n)
  <2>1. \A m \in S : 1..m \in SUBSET Nat
    OBVIOUS
  <2>2. \A A, B \in SUBSET Nat : A \subseteq B /\ A # B => <<A, B>> \in R
    BY DEF StrictSubsetOrdering
  <2> HIDE DEF R
  <2> QED BY <1>4, <2>1, <2>2
<1>6. \A m \in S : n <= m
  <2> SUFFICES ASSUME NEW m \in S, m < n PROVE FALSE
    BY <1>4
  <2>1. 1..m \subseteq 1..n
    OBVIOUS
  <2>2. n \in 1..n /\ n \notin 1..m
    OBVIOUS
  <2> QED BY <1>5, <2>1, <2>2
<1> QED BY <1>6

\* Induction.
LEMMA Inductive ==
  ASSUME NEW S, 0 \in S, \A n \in Nat : n \in S => n + 1 \in S
  PROVE  Nat \subseteq S
<1> SUFFICES ASSUME Nat \ S # {} PROVE FALSE
  OBVIOUS
<1>1. PICK n \in Nat \ S : \A m \in Nat \ S : n <= m
  BY Smallest
<1>2. n # 0 /\ n - 1 \in Nat
  BY <1>1
<1>3. n - 1 \in S
  BY <1>1, <1>2
<1> QED BY <1>1, <1>2, <1>3

-----------------------------------------------------------------------------
(***************************************************************************)
(* The invariant.                                                          *)
(***************************************************************************)
Lsa == [network : Network, rid : Router \cup {None}]

EntryOf == [rid : Router, lsas : SUBSET Lsa]

\* What routers advertise: links have networks.
Linked(ns) ==
  /\ ns \in [Router -> SUBSET Router]
  /\ \A q \in Router : \A s \in ns[q] : LinkNetwork[{q, s}] \in Network

DatabaseOK ==
  /\ self \in Router
  /\ db \in Seq(EntryOf) /\ Len(db) < BigInt
  /\ \A i, j \in DOMAIN db : db[i].rid = db[j].rid => i = j
  /\ \E i \in DOMAIN db : db[i].rid = self
  /\ dist \in [DOMAIN db -> 0..BigInt]
  /\ prev \in [DOMAIN db -> Nat]
  /\ visited \in [DOMAIN db -> BOOLEAN]

RoutesTypeOK ==
  /\ Linked(adverts) /\ Linked(before)
  /\ rtable \in [Router -> [Network -> Router \cup {Direct, NoRoute}]]
  /\ nbrs \subseteq Router
  /\ stage \in {"idle", "dijkstra", "routes"}
  /\ stage = "idle" <=> self = None
  /\ stage # "idle" => DatabaseOK

\* A distance is the length of the path along which prev leads back.
PathsOK ==
  \A i \in DOMAIN db :
    /\ dist[i] = 0 <=> i = Source
    /\ dist[i] < BigInt => dist[i] <= Len(db)
    /\ dist[i] < BigInt /\ i # Source => /\ prev[i] \in DOMAIN db /\ Graph(prev[i], i) = 1
                                         /\ dist[i] = dist[prev[i]] + 1

Visited == {i \in DOMAIN db : visited[i]}

\* Nodes are visited in the order of their distance, and their neighbours are
\* at most one step further.
FrontierOK ==
  /\ \A i \in DOMAIN db : dist[i] < BigInt => dist[i] <= Cardinality(Visited)
  /\ \A i \in DOMAIN db : dist[i] < BigInt /\ i # Source => visited[prev[i]]
  /\ \A i \in DOMAIN db : visited[i] => dist[i] < BigInt
  /\ \A i, j \in DOMAIN db : visited[i] /\ ~visited[j] => dist[i] <= dist[j]
  /\ \A i, j \in DOMAIN db : visited[i] /\ Graph(i, j) = 1 => dist[j] <= dist[i] + 1

\* In the end that is so for all nodes that are reached.
AllReached ==
  \A i, j \in DOMAIN db : dist[i] < BigInt /\ Graph(i, j) = 1 => dist[j] <= dist[i] + 1

Taken(i) == dist[i] < BigInt /\ ~visited[i]

\* The table has the routes of the nodes that were taken.
TableOK ==
  /\ \A n \in Network : rtable[self][n] \in Router =>
       \E i \in DOMAIN db \ {Source} : Taken(i) /\ \E a \in db[i].lsas : a.network = n
  /\ \A i \in DOMAIN db \ {Source} : \A a \in db[i].lsas :
       LET gw == db[FirstHop(i)].rid
       IN  Sole(a.network, i) =>
             /\ rtable[self][a.network] \in Router =>
                  Taken(i) /\ gw \in nbrs /\ rtable[self][a.network] = gw
             /\ Taken(i) /\ gw \in nbrs => rtable[self][a.network] = gw

RoutesInv ==
  /\ RoutesTypeOK
  /\ stage # "idle" => PathsOK
  /\ stage = "dijkstra" => FrontierOK
  /\ stage = "routes" => AllReached /\ TableOK

-----------------------------------------------------------------------------
(***************************************************************************)
(* The nodes of the database.                                              *)
(***************************************************************************)

\* The node of the router that is computing is the only one with its identity.
LEMMA SourceIs ==
  ASSUME NEW d, NEW q, \E i \in DOMAIN d : d[i].rid = q,
         \A i, j \in DOMAIN d : d[i].rid = d[j].rid => i = j
  PROVE  LET src == CHOOSE i \in DOMAIN d : d[i].rid = q
         IN  /\ src \in DOMAIN d /\ d[src].rid = q
             /\ \A i \in DOMAIN d : d[i].rid = q => i = src
OBVIOUS

LEMMA DatabaseIs ==
  ASSUME DatabaseOK
  PROVE  /\ Len(db) \in Nat /\ DOMAIN db = 1..Len(db) /\ Len(db) < BigInt /\ BigInt \in Nat
         /\ \A i \in DOMAIN db : /\ i \in Nat /\ dist[i] \in Nat /\ dist[i] <= BigInt
                                 /\ visited[i] \in BOOLEAN /\ db[i].rid \in Router
         /\ Source \in DOMAIN db /\ db[Source].rid = self
         /\ \A i \in DOMAIN db : db[i].rid = self => i = Source
<1>1. db \in Seq(EntryOf) /\ Len(db) < BigInt /\ BigInt \in Nat
  BY RoutesAssumption DEF DatabaseOK
<1>2. Len(db) \in Nat /\ DOMAIN db = 1..Len(db) /\ \A i \in DOMAIN db : db[i] \in EntryOf
  BY <1>1
<1>3. \A i \in DOMAIN db : /\ i \in Nat /\ dist[i] \in Nat /\ dist[i] <= BigInt
                           /\ visited[i] \in BOOLEAN /\ db[i].rid \in Router
  BY <1>1, <1>2 DEF DatabaseOK, EntryOf
<1>4. /\ Source \in DOMAIN db /\ db[Source].rid = self
      /\ \A i \in DOMAIN db : db[i].rid = self => i = Source
  BY SourceIs DEF DatabaseOK, Source
<1> QED BY <1>1, <1>2, <1>3, <1>4

\* The scan finds a node if there is one.
LEMMA NearestFound ==
  ASSUME DatabaseOK, NEW cond \in BOOLEAN, Nearest(cond) = {}
  PROVE  \A i \in DOMAIN db : visited[i] = cond => dist[i] = BigInt
<1> DEFINE A == {i \in DOMAIN db : visited[i] = cond /\ dist[i] < BigInt}
           D == {dist[i] : i \in A}
<1>1. SUFFICES ASSUME A # {} PROVE FALSE
  BY DatabaseIs
<1>2. D \in SUBSET Nat /\ D # {}
  BY <1>1, DatabaseIs
<1>3. PICK d \in D : \A e \in D : d <= e
  BY <1>2, Smallest
<1> DEFINE I == {i \in A : dist[i] = d}
<1>4. I \in SUBSET Nat /\ I # {}
  BY <1>3, DatabaseIs
<1>5. PICK i \in I : \A j \in I : i <= j
  <2> HIDE DEF I
  <2> QED BY <1>4, Smallest
<1>6. ASSUME NEW j \in DOMAIN db, visited[j] = cond
      PROVE  dist[i] < dist[j] \/ (dist[i] = dist[j] /\ i <= j)
  <2>1. CASE dist[j] < BigInt
    <3>1. j \in A /\ d <= dist[j] /\ dist[i] = d
      BY <1>3, <1>6, <2>1
    <3>2. dist[j] = d => i <= j
      BY <1>5, <3>1
    <3> QED BY <1>2, <1>3, <3>1, <3>2, DatabaseIs
  <2>2. CASE ~(dist[j] < BigInt)
    BY <1>6, <2>2, DatabaseIs
  <2> QED BY <2>1, <2>2
<1>7. i \in Nearest(cond)
  BY <1>6 DEF Nearest
<1> QED BY <1>7

-----------------------------------------------------------------------------
(***************************************************************************)
(* How far nodes are.                                                      *)
(***************************************************************************)
Further(Z) == Z \cup {j \in DOMAIN db : \E h \in Z : Graph(h, j) = 1}

IsWithin(g, i, m) == g = [k \in 0..m |-> IF k = 0 THEN {i} ELSE Further(g[k - 1])]

LEMMA WithinExists ==
  ASSUME NEW i, NEW m \in Nat
  PROVE  \E g : IsWithin(g, i, m)
<1> DEFINE S == {n \in Nat : \E g : IsWithin(g, i, n)}
<1>1. 0 \in S
  <2> DEFINE g == [k \in 0..0 |-> {i}]
  <2>1. g = [k \in 0..0 |-> IF k = 0 THEN {i} ELSE Further(g[k - 1])]
    OBVIOUS
  <2> HIDE DEF g
  <2> QED BY <2>1 DEF IsWithin
<1>2. ASSUME NEW n \in Nat, n \in S PROVE n + 1 \in S
  <2>1. PICK g : IsWithin(g, i, n)
    BY <1>2
  <2> DEFINE G == [k \in 0..(n + 1) |-> IF k <= n THEN g[k] ELSE Further(g[n])]
  <2>2. ASSUME NEW k \in 0..(n + 1)
        PROVE  G[k] = IF k = 0 THEN {i} ELSE Further(G[k - 1])
    <3>1. CASE k = 0
      BY <2>1, <3>1 DEF IsWithin
    <3>2. CASE k # 0 /\ k <= n
      <4>1. k \in 0..n /\ k - 1 \in 0..(n + 1) /\ k - 1 <= n
        BY <3>2
      <4>2. g[k] = Further(g[k - 1])
        BY <2>1, <3>2, <4>1 DEF IsWithin
      <4>3. G[k] = g[k] /\ G[k - 1] = g[k - 1]
        BY <3>2, <4>1
      <4> QED BY <3>2, <4>2, <4>3
    <3>3. CASE k = n + 1
      <4>1. n \in 0..(n + 1) /\ k - 1 = n /\ ~(k <= n) /\ k # 0
        BY <3>3
      <4>2. G[k] = Further(g[n]) /\ G[n] = g[n]
        BY <4>1
      <4> QED BY <4>1, <4>2
    <3> QED BY <3>1, <3>2, <3>3
  <2>3. G = [k \in 0..(n + 1) |-> IF k = 0 THEN {i} ELSE Further(G[k - 1])]
    BY <2>2
  <2> HIDE DEF G
  <2> QED BY <2>3 DEF IsWithin
<1>3. m \in S
  <2> HIDE DEF S
  <2> QED BY <1>1, <1>2, Inductive
<1> QED BY <1>3

LEMMA WithinIs ==
  ASSUME NEW i, Len(db) \in Nat
  PROVE  /\ Within(i)[0] = {i}
         /\ \A k \in 0..Len(db) : k # 0 => Within(i)[k] = Further(Within(i)[k - 1])
         /\ DOMAIN Within(i) = 0..Len(db)
<1>1. IsWithin(Within(i), i, Len(db))
  <2>1. \E g : g = [k \in 0..Len(db) |->
                      IF k = 0 THEN {i}
                      ELSE g[k - 1] \cup {j \in DOMAIN db : \E h \in g[k - 1] : Graph(h, j) = 1}]
    <3>1. PICK g : IsWithin(g, i, Len(db))
      BY WithinExists
    <3>2. g = [k \in 0..Len(db) |->
                 IF k = 0 THEN {i}
                 ELSE g[k - 1] \cup {j \in DOMAIN db : \E h \in g[k - 1] : Graph(h, j) = 1}]
      BY <3>1 DEF IsWithin, Further
    <3> QED BY <3>2
  <2> QED BY <2>1 DEF IsWithin, Within, Further
<1> HIDE DEF Within
<1>2. 0 \in 0..Len(db)
  OBVIOUS
<1> QED BY <1>1, <1>2 DEF IsWithin

LEMMA WithinNext ==
  ASSUME NEW i, Len(db) \in Nat, NEW k \in 0..Len(db) - 1
  PROVE  \A j : j \in Within(i)[k + 1] <=>
           \/ j \in Within(i)[k]
           \/ j \in DOMAIN db /\ \E h \in Within(i)[k] : Graph(h, j) = 1
<1>1. k + 1 \in 0..Len(db) /\ k + 1 # 0 /\ (k + 1) - 1 = k
  OBVIOUS
<1>2. Within(i)[k + 1] = Further(Within(i)[k])
  BY <1>1, WithinIs
<1> QED BY <1>2 DEF Further

\* All these are nodes.
LEMMA WithinNodes ==
  ASSUME NEW i \in DOMAIN db, Len(db) \in Nat
  PROVE  \A k \in 0..Len(db) : Within(i)[k] \subseteq DOMAIN db
<1> DEFINE S == {k \in Nat : k <= Len(db) => Within(i)[k] \subseteq DOMAIN db}
<1>1. 0 \in S
  BY WithinIs
<1>2. ASSUME NEW k \in Nat, k \in S PROVE k + 1 \in S
  BY <1>2, WithinNext
<1>3. Nat \subseteq S
  <2> HIDE DEF S
  <2> QED BY <1>1, <1>2, Inductive
<1> QED BY <1>3

\* What is within k steps is within more.
LEMMA WithinGrows ==
  ASSUME NEW i, Len(db) \in Nat, NEW k \in 0..Len(db)
  PROVE  Within(i)[k] \subseteq Within(i)[Len(db)]
<1> DEFINE S == {n \in Nat : k + n <= Len(db) => Within(i)[k] \subseteq Within(i)[k + n]}
<1>1. 0 \in S
  OBVIOUS
<1>2. ASSUME NEW n \in Nat, n \in S PROVE n + 1 \in S
  <2>1. SUFFICES ASSUME k + (n + 1) <= Len(db) PROVE Within(i)[k] \subseteq Within(i)[k + (n + 1)]
    OBVIOUS
  <2>2. k + n \in 0..Len(db) - 1 /\ k + (n + 1) = (k + n) + 1
    BY <2>1
  <2>3. Within(i)[k + n] \subseteq Within(i)[(k + n) + 1]
    BY <2>2, WithinNext
  <2> QED BY <1>2, <2>2, <2>3
<1>3. Nat \subseteq S
  <2> HIDE DEF S
  <2> QED BY <1>1, <1>2, Inductive
<1>4. Len(db) - k \in Nat /\ k + (Len(db) - k) = Len(db)
  OBVIOUS
<1> QED BY <1>3, <1>4

\* A distance is that of a path.
LEMMA NearEnough ==
  ASSUME DatabaseOK, PathsOK, NEW i \in DOMAIN db, dist[i] < BigInt
  PROVE  dist[i] \in 0..Len(db) /\ i \in Within(Source)[dist[i]]
<1> DEFINE S == {d \in Nat : \A j \in DOMAIN db :
                   dist[j] < BigInt /\ dist[j] = d => j \in Within(Source)[d]}
<1>1. 0 \in S
  BY DatabaseIs, WithinIs DEF PathsOK
<1>2. ASSUME NEW d \in Nat, d \in S PROVE d + 1 \in S
  <2>1. SUFFICES ASSUME NEW j \in DOMAIN db, dist[j] < BigInt, dist[j] = d + 1
                 PROVE  j \in Within(Source)[d + 1]
    OBVIOUS
  <2>2. /\ prev[j] \in DOMAIN db /\ Graph(prev[j], j) = 1
        /\ dist[j] = dist[prev[j]] + 1 /\ dist[j] <= Len(db)
    BY <2>1 DEF PathsOK
  <2>3. dist[prev[j]] = d /\ dist[prev[j]] < BigInt /\ d \in 0..Len(db) - 1
    BY <2>1, <2>2, DatabaseIs
  <2>4. prev[j] \in Within(Source)[d]
    BY <1>2, <2>2, <2>3
  <2> QED BY <2>2, <2>3, <2>4, DatabaseIs, WithinNext
<1>3. Nat \subseteq S
  <2> HIDE DEF S
  <2> QED BY <1>1, <1>2, Inductive
<1> QED BY <1>3, DatabaseIs DEF PathsOK

\* If all nodes but those of U have neighbours at most one step further, none
\* is nearer than its distance, unless the way to it leads through U.
LEMMA NotNearer ==
  ASSUME DatabaseOK, PathsOK, NEW U,
         \A i, j \in DOMAIN db : i \notin U /\ Graph(i, j) = 1 => dist[j] <= dist[i] + 1,
         NEW k \in 0..Len(db), NEW i \in Within(Source)[k]
  PROVE  i \in DOMAIN db /\ (dist[i] <= k \/ \E w \in U \cap DOMAIN db : dist[w] <= k)
<1> DEFINE S == {n \in Nat : n <= Len(db) => \A j \in Within(Source)[n] :
                   dist[j] <= n \/ \E w \in U \cap DOMAIN db : dist[w] <= n}
<1>1. 0 \in S
  BY DatabaseIs, WithinIs DEF PathsOK
<1>2. ASSUME NEW n \in Nat, n \in S PROVE n + 1 \in S
  <2>1. SUFFICES ASSUME n + 1 <= Len(db), NEW j \in Within(Source)[n + 1],
                        \A w \in U \cap DOMAIN db : ~(dist[w] <= n + 1)
                 PROVE  dist[j] <= n + 1
    OBVIOUS
  <2>2. Len(db) \in Nat /\ n \in 0..Len(db) - 1 /\ n \in 0..Len(db)
    BY <2>1, DatabaseIs
  <2>3. \A h \in Within(Source)[n] : h \in DOMAIN db /\ h \notin U /\ dist[h] <= n
    <3>1. \A h \in DOMAIN db : dist[h] <= n => dist[h] <= n + 1
      BY DatabaseIs
    <3>2. \A h \in Within(Source)[n] : h \in DOMAIN db
      BY <2>2, DatabaseIs, WithinNodes
    <3> QED BY <1>2, <2>1, <2>2, <3>1, <3>2
  <2>4. j \in Within(Source)[n] \/ (j \in DOMAIN db /\ \E h \in Within(Source)[n] : Graph(h, j) = 1)
    BY <2>1, <2>2, WithinNext
  <2> QED BY <2>3, <2>4, DatabaseIs
<1>3. Nat \subseteq S
  <2> HIDE DEF S
  <2> QED BY <1>1, <1>2, Inductive
<1>4. i \in DOMAIN db
  BY DatabaseIs, WithinNodes
<1> QED BY <1>3, <1>4

\* What dijkstra has found so far.
LEMMA FrontierFinal ==
  ASSUME DatabaseOK, PathsOK, FrontierOK, NEW i \in DOMAIN db, visited[i], dist[i] > 0
  PROVE  i \notin Within(Source)[dist[i] - 1]
<1> DEFINE U == {w \in DOMAIN db : ~visited[w]}
<1>1. \A h, j \in DOMAIN db : h \notin U /\ Graph(h, j) = 1 => dist[j] <= dist[h] + 1
  BY DatabaseIs DEF FrontierOK
<1>2. dist[i] \in Nat /\ dist[i] < BigInt /\ dist[i] <= Len(db) /\ Len(db) \in Nat
  BY DatabaseIs DEF FrontierOK, PathsOK
<1>3. dist[i] - 1 \in 0..Len(db)
  BY <1>2
<1>4. \A w \in U : dist[i] <= dist[w]
  BY DEF FrontierOK
<1>5. SUFFICES ASSUME i \in Within(Source)[dist[i] - 1] PROVE FALSE
  OBVIOUS
<1>6. dist[i] <= dist[i] - 1 \/ \E w \in U \cap DOMAIN db : dist[w] <= dist[i] - 1
  <2> HIDE DEF U
  <2> QED BY <1>1, <1>3, <1>5, NotNearer
<1> QED BY <1>2, <1>4, <1>6, DatabaseIs

\* And in the end: distances are true, and all that can be reached is.
LEMMA ReachedFinal ==
  ASSUME DatabaseOK, PathsOK, AllReached, NEW k \in 0..Len(db), NEW i \in Within(Source)[k]
  PROVE  i \in DOMAIN db /\ dist[i] <= k /\ dist[i] < BigInt
<1> DEFINE U == {w \in DOMAIN db : dist[w] = BigInt}
<1>1. \A h, j \in DOMAIN db : h \notin U /\ Graph(h, j) = 1 => dist[j] <= dist[h] + 1
  BY DatabaseIs DEF AllReached
<1>2. i \in DOMAIN db /\ (dist[i] <= k \/ \E w \in U \cap DOMAIN db : dist[w] <= k)
  <2> HIDE DEF U
  <2> QED BY <1>1, NotNearer
<1> QED BY <1>2, DatabaseIs

-----------------------------------------------------------------------------
(***************************************************************************)
(* First hops.                                                             *)
(***************************************************************************)
Reached == {k \in DOMAIN db : dist[k] < BigInt}

IsHop(g, R) == g = [k \in R |-> IF dist[k] > 1 THEN g[prev[k]] ELSE k]

\* prev leads nearer, so get_first_hop comes to an end.
LEMMA HopExists ==
  ASSUME DatabaseOK, PathsOK
  PROVE  \E g : IsHop(g, Reached)
<1> DEFINE Upto(n) == {k \in Reached : dist[k] <= n}
           S == {n \in Nat : \E g : IsHop(g, Upto(n))}
<1>1. \A k \in Reached : /\ k \in DOMAIN db /\ dist[k] \in Nat /\ dist[k] <= Len(db)
                         /\ dist[k] > 1 => prev[k] \in Reached /\ dist[k] = dist[prev[k]] + 1
  <2> SUFFICES ASSUME NEW k \in Reached
               PROVE  /\ k \in DOMAIN db /\ dist[k] \in Nat /\ dist[k] <= Len(db)
                      /\ dist[k] > 1 => prev[k] \in Reached /\ dist[k] = dist[prev[k]] + 1
    OBVIOUS
  <2>1. k \in DOMAIN db /\ dist[k] \in Nat /\ dist[k] < BigInt /\ dist[k] <= Len(db)
    BY DatabaseIs DEF Reached, PathsOK
  <2>2. ASSUME dist[k] > 1 PROVE prev[k] \in Reached /\ dist[k] = dist[prev[k]] + 1
    <3>1. k # Source
      BY <2>1, <2>2 DEF PathsOK
    <3>2. prev[k] \in DOMAIN db /\ dist[k] = dist[prev[k]] + 1
      BY <2>1, <3>1 DEF PathsOK
    <3> QED BY <2>1, <3>2, DatabaseIs DEF Reached
  <2> QED BY <2>1, <2>2
<1>2. 0 \in S
  <2> DEFINE g == [k \in Upto(0) |-> k]
  <2>1. \A k \in Upto(0) : ~(dist[k] > 1)
    BY <1>1
  <2>2. g = [k \in Upto(0) |-> IF dist[k] > 1 THEN g[prev[k]] ELSE k]
    BY <2>1
  <2> HIDE DEF g, Upto
  <2> QED BY <2>2 DEF IsHop
<1>3. ASSUME NEW n \in Nat, n \in S PROVE n + 1 \in S
  <2>1. PICK g : IsHop(g, Upto(n))
    BY <1>3
  <2> DEFINE G == [k \in Upto(n + 1) |-> IF dist[k] <= n THEN g[k]
                                         ELSE IF dist[k] > 1 THEN g[prev[k]] ELSE k]
  <2>2. ASSUME NEW k \in Upto(n + 1)
        PROVE  G[k] = IF dist[k] > 1 THEN G[prev[k]] ELSE k
    <3>1. k \in Reached /\ dist[k] \in Nat /\ dist[k] <= n + 1
      BY <1>1
    <3>2. dist[k] > 1 => /\ prev[k] \in Upto(n + 1) /\ prev[k] \in Upto(n) /\ dist[prev[k]] <= n
      BY <1>1, <3>1
    <3>3. dist[k] > 1 => G[prev[k]] = g[prev[k]]
      BY <3>2
    <3>4. CASE dist[k] <= n
      <4>1. k \in Upto(n)
        BY <3>1, <3>4
      <4>2. g[k] = IF dist[k] > 1 THEN g[prev[k]] ELSE k
        <5> HIDE DEF Upto
        <5> QED BY <2>1, <4>1 DEF IsHop
      <4>3. G[k] = g[k]
        BY <3>4
      <4> QED BY <3>3, <4>2, <4>3
    <3>5. CASE ~(dist[k] <= n)
      BY <3>3, <3>5
    <3> QED BY <3>4, <3>5
  <2>3. G = [k \in Upto(n + 1) |-> IF dist[k] > 1 THEN G[prev[k]] ELSE k]
    BY <2>2
  <2> HIDE DEF G, Upto
  <2> QED BY <2>3 DEF IsHop
<1>4. Len(db) \in S
  <2> HIDE DEF S
  <2> QED BY <1>2, <1>3, Inductive, DatabaseIs
<1>5. Upto(Len(db)) = Reached
  BY <1>1
<1> HIDE DEF Upto
<1> QED BY <1>4, <1>5

LEMMA FirstHopIs ==
  ASSUME DatabaseOK, PathsOK, NEW i \in Reached
  PROVE  FirstHop(i) = IF dist[i] > 1 THEN FirstHop(prev[i]) ELSE i
<1> DEFINE hop == CHOOSE g : g = [k \in {k \in DOMAIN db : dist[k] < BigInt} |->
                                    IF dist[k] > 1 THEN g[prev[k]] ELSE k]
<1>1. \E g : g = [k \in {k \in DOMAIN db : dist[k] < BigInt} |->
                    IF dist[k] > 1 THEN g[prev[k]] ELSE k]
  <2>1. PICK g : IsHop(g, Reached)
    BY HopExists
  <2> QED BY <2>1 DEF IsHop, Reached
<1>2. hop = [k \in {k \in DOMAIN db : dist[k] < BigInt} |->
               IF dist[k] > 1 THEN hop[prev[k]] ELSE k]
  BY <1>1
<1>3. \A k : FirstHop(k) = hop[k]
  BY DEF FirstHop
<1> HIDE DEF hop
<1> QED BY <1>2, <1>3 DEF Reached

\* The first hop is a neighbour of the source and one step nearer to the node.
LEMMA FirstHopRight ==
  ASSUME DatabaseOK, PathsOK, NEW i \in DOMAIN db, dist[i] < BigInt, i # Source
  PROVE  /\ dist[i] \in 1..Len(db)
         /\ FirstHop(i) \in DOMAIN db /\ Graph(Source, FirstHop(i)) = 1
         /\ i \in Within(FirstHop(i))[dist[i] - 1]
<1> DEFINE Right(j, d) == /\ FirstHop(j) \in DOMAIN db /\ Graph(Source, FirstHop(j)) = 1
                          /\ j \in Within(FirstHop(j))[d]
           S == {d \in Nat : \A j \in DOMAIN db : dist[j] < BigInt /\ dist[j] = d + 1 => Right(j, d)}
<1>1. \A j \in DOMAIN db : dist[j] < BigInt => j \in Reached /\ dist[j] <= Len(db) /\ dist[j] \in Nat
  BY DatabaseIs DEF Reached, PathsOK
<1>2. \A j \in DOMAIN db : dist[j] < BigInt /\ dist[j] > 0 =>
         /\ prev[j] \in DOMAIN db /\ Graph(prev[j], j) = 1 /\ dist[j] = dist[prev[j]] + 1
  BY DatabaseIs DEF PathsOK
<1>3. 0 \in S
  <2>1. SUFFICES ASSUME NEW j \in DOMAIN db, dist[j] < BigInt, dist[j] = 1 PROVE Right(j, 0)
    OBVIOUS
  <2>2. FirstHop(j) = j
    BY <1>1, <2>1, FirstHopIs
  <2>3. prev[j] = Source /\ Graph(Source, j) = 1
    BY <1>2, <2>1, DatabaseIs DEF PathsOK
  <2> QED BY <2>2, <2>3, DatabaseIs, WithinIs
<1>4. ASSUME NEW d \in Nat, d \in S PROVE d + 1 \in S
  <2>1. SUFFICES ASSUME NEW j \in DOMAIN db, dist[j] < BigInt, dist[j] = (d + 1) + 1
                 PROVE  Right(j, d + 1)
    OBVIOUS
  <2>2. /\ prev[j] \in DOMAIN db /\ Graph(prev[j], j) = 1 /\ dist[prev[j]] = d + 1
        /\ dist[prev[j]] < BigInt
    <3>1. dist[j] > 0
      BY <2>1
    <3>2. prev[j] \in DOMAIN db /\ Graph(prev[j], j) = 1 /\ dist[j] = dist[prev[j]] + 1
      BY <1>2, <2>1, <3>1
    <3>3. dist[prev[j]] \in Nat /\ BigInt \in Nat
      BY <3>2, DatabaseIs
    <3>4. dist[prev[j]] = d + 1 /\ dist[prev[j]] < BigInt
      BY <2>1, <3>2, <3>3
    <3> QED BY <3>2, <3>4
  <2>3. Right(prev[j], d)
    BY <1>4, <2>2
  <2>4. FirstHop(j) = FirstHop(prev[j])
    BY <1>1, <2>1, FirstHopIs
  <2>5. d \in 0..Len(db) - 1 /\ Len(db) \in Nat
    BY <1>1, <2>1, DatabaseIs
  <2>6. j \in Within(FirstHop(j))[d + 1]
    BY <2>2, <2>3, <2>4, <2>5, WithinNext
  <2> QED BY <2>3, <2>4, <2>6
<1>5. dist[i] \in Nat /\ dist[i] <= Len(db) /\ dist[i] # 0 /\ Len(db) \in Nat
  BY <1>1, DatabaseIs DEF PathsOK
<1>6. dist[i] - 1 \in Nat /\ dist[i] = (dist[i] - 1) + 1 /\ dist[i] \in 1..Len(db)
  BY <1>5
<1>7. dist[i] - 1 \in S
  <2> HIDE DEF S
  <2> QED BY <1>3, <1>4, <1>6, Inductive
<1>8. Right(i, dist[i] - 1)
  BY <1>6, <1>7
<1> QED BY <1>6, <1>8

-----------------------------------------------------------------------------
(***************************************************************************)
(* The steps of the computation.                                           *)
(***************************************************************************)

\* What a router advertises is an entry's.
LEMMA LsasType ==
  ASSUME NEW ns, Linked(ns), NEW q \in Router
  PROVE  LsasOf(q, ns[q]) \in SUBSET Lsa
<1>1. ns[q] \subseteq Router /\ \A s \in ns[q] : LinkNetwork[{q, s}] \in Network
  BY DEF Linked
<1>2. Attached[q] \subseteq Network
  BY RoutesAssumption
<1>3. \A s \in ns[q] : [network |-> LinkNetwork[{q, s}], rid |-> s] \in Lsa
  BY <1>1 DEF Lsa
<1>4. \A n \in Attached[q] : [network |-> n, rid |-> None] \in Lsa
  BY <1>2 DEF Lsa
<1> QED BY <1>3, <1>4 DEF LsasOf

LEMMA InitInv == Init => RoutesInv
<1> SUFFICES ASSUME Init PROVE RoutesInv
  OBVIOUS
<1>1. PICK cables \in Cables : adverts = [q \in Router |-> {s \in Router : {q, s} \in cables}]
  BY DEF Init
<1>2. Linked(adverts) /\ Linked(before)
  BY <1>1, RoutesAssumption DEF Init, Linked
<1>3. rtable \in [Router -> [Network -> Router \cup {Direct, NoRoute}]]
  BY DEF Init, Kernel
<1>4. stage = "idle" /\ self = None /\ nbrs = {}
  BY DEF Init
<1> QED BY <1>2, <1>3, <1>4 DEF RoutesInv, RoutesTypeOK

LEMMA LinkFailsStep ==
  ASSUME RoutesInv, NEW q \in Router, NEW s \in Router, LinkFails(q, s)
  PROVE  RoutesInv'
<1>1. /\ adverts' = [adverts EXCEPT ![q] = @ \ {s}, ![s] = @ \ {q}]
      /\ self = None /\ UNCHANGED <<before, rtable, self, nbrs, db, stage, dist, prev, visited>>
  BY DEF LinkFails
<1>2. Linked(adverts) /\ Linked(before)
  BY DEF RoutesInv, RoutesTypeOK
<1>3. adverts' \in [Router -> SUBSET Router] /\ \A r \in Router : adverts'[r] \subseteq adverts[r]
  BY <1>1, <1>2 DEF Linked
<1>4. Linked(adverts')
  BY <1>2, <1>3 DEF Linked
<1> QED BY <1>1, <1>2, <1>4 DEF RoutesInv, RoutesTypeOK

\* A computation starts from the router itself.
LEMMA BeginStep ==
  ASSUME RoutesInv, NEW q \in Router, Begin(q)
  PROVE  RoutesInv'
<1>1. PICK o \in Lists, now \in SUBSET {r \in Router : before[r] # adverts[r]} :
        LET known(r) == IF r \in now THEN adverts[r] ELSE before[r]
        IN  /\ \E i \in DOMAIN o : o[i] = q
            /\ db' = [i \in DOMAIN o |-> [rid |-> o[i], lsas |-> LsasOf(o[i], known(o[i]))]]
            /\ nbrs' = adverts[q] \/ nbrs' = before[q]
            /\ dist' = [i \in DOMAIN o |-> IF o[i] = q THEN 0 ELSE BigInt]
            /\ prev' = [i \in DOMAIN o |-> 0]
            /\ visited' = [i \in DOMAIN o |-> FALSE]
  BY DEF Begin
<1>2. self' = q /\ stage' = "dijkstra" /\ UNCHANGED <<adverts, before, rtable>>
  BY DEF Begin
<1>3. /\ o \in Seq(Router) /\ Len(o) < BigInt /\ BigInt \in Nat
      /\ \A i, j \in DOMAIN o : o[i] = o[j] => i = j
  BY RoutesAssumption
<1>4. Len(o) \in Nat /\ DOMAIN o = 1..Len(o) /\ \A i \in DOMAIN o : o[i] \in Router
  BY <1>3
<1>5. Linked(adverts) /\ Linked(before)
  BY DEF RoutesInv, RoutesTypeOK
<1> DEFINE known == [r \in Router |-> IF r \in now THEN adverts[r] ELSE before[r]]
<1>6. Linked(known)
  BY <1>5 DEF Linked
<1>7. /\ \E i \in DOMAIN o : o[i] = q
      /\ db' = [i \in DOMAIN o |-> [rid |-> o[i], lsas |-> LsasOf(o[i], known[o[i]])]]
      /\ dist' = [i \in DOMAIN o |-> IF o[i] = q THEN 0 ELSE BigInt]
      /\ prev' = [i \in DOMAIN o |-> 0]
      /\ visited' = [i \in DOMAIN o |-> FALSE]
  BY <1>1, <1>4
<1> HIDE DEF known
<1>8. \A i \in DOMAIN o : [rid |-> o[i], lsas |-> LsasOf(o[i], known[o[i]])] \in EntryOf
  BY <1>4, <1>6, LsasType DEF EntryOf
<1>9. /\ db' \in Seq(EntryOf) /\ Len(db') = Len(o) /\ DOMAIN db' = DOMAIN o
      /\ \A i \in DOMAIN o : db'[i].rid = o[i]
  BY <1>4, <1>7, <1>8
<1>10. DatabaseOK'
  BY <1>2, <1>3, <1>4, <1>7, <1>9 DEF DatabaseOK
<1>11. nbrs' \subseteq Router
  BY <1>1, <1>5 DEF Linked
<1>12. RoutesTypeOK'
  BY <1>2, <1>10, <1>11, RoutesAssumption DEF RoutesInv, RoutesTypeOK
<1>13. \A i \in DOMAIN o : i = Source' <=> o[i] = q
  <2>1. /\ Source' = CHOOSE i \in DOMAIN db' : db'[i].rid = q
        /\ \E i \in DOMAIN db' : db'[i].rid = q
        /\ \A i, j \in DOMAIN db' : db'[i].rid = db'[j].rid => i = j
    BY <1>2, <1>3, <1>7, <1>9 DEF Source
  <2>2. /\ Source' \in DOMAIN db' /\ db'[Source'].rid = q
        /\ \A i \in DOMAIN db' : db'[i].rid = q => i = Source'
    BY <2>1, SourceIs
  <2> QED BY <1>9, <2>2
<1>14. \A i \in DOMAIN o : /\ dist'[i] = 0 <=> i = Source'
                           /\ dist'[i] < BigInt => i = Source'
                           /\ visited'[i] = FALSE
  BY <1>3, <1>4, <1>7, <1>13
<1>15. PathsOK'
  BY <1>4, <1>9, <1>14 DEF PathsOK
<1>16. FrontierOK'
  <2>1. Visited' = {}
    BY <1>9, <1>14 DEF Visited
  <2>2. Cardinality(Visited') = 0
    BY <2>1, FS_EmptySet
  <2> QED BY <1>9, <1>14, <2>2 DEF FrontierOK
<1> QED BY <1>2, <1>12, <1>15, <1>16 DEF RoutesInv

\* Visiting the nearest node leaves it with its distance, and gives its new
\* neighbours one that is one step longer.
LEMMA VisitStep ==
  ASSUME RoutesInv, Visit
  PROVE  RoutesInv'
<1>1. /\ stage = "dijkstra" /\ DatabaseOK /\ PathsOK /\ FrontierOK
      /\ UNCHANGED <<envVars, rtable, self, nbrs, db, stage>>
  BY DEF Visit, RoutesInv, RoutesTypeOK
<1>2. PICK u \in Nearest(FALSE) :
        /\ visited' = [visited EXCEPT ![u] = TRUE]
        /\ dist' = [v \in DOMAIN db |-> IF v \in Better(u) THEN dist[u] + Graph(u, v) ELSE dist[v]]
        /\ prev' = [v \in DOMAIN db |-> IF v \in Better(u) THEN u ELSE prev[v]]
  BY DEF Visit
<1>3. /\ u \in DOMAIN db /\ visited[u] = FALSE /\ dist[u] < BigInt
      /\ \A j \in DOMAIN db : visited[j] = FALSE => dist[u] <= dist[j]
  BY <1>1, DatabaseIs DEF Nearest
<1>4. \A i \in DOMAIN db : /\ i \in Nat /\ dist[i] \in Nat /\ dist[i] <= BigInt
                           /\ visited[i] \in BOOLEAN
  BY <1>1, DatabaseIs
<1>5. /\ Len(db) \in Nat /\ DOMAIN db = 1..Len(db) /\ BigInt \in Nat /\ Len(db) < BigInt
      /\ Source \in DOMAIN db
  BY <1>1, DatabaseIs
<1>6. /\ \A i, j : Graph(i, j)' = Graph(i, j)
      /\ Source' = Source
  BY <1>1 DEF Graph, Source
<1>7. \A v \in Better(u) : /\ v \in DOMAIN db /\ ~visited[v] /\ v # u
                           /\ Graph(u, v) = 1 /\ dist[u] + 1 < dist[v]
  <2> SUFFICES ASSUME NEW v \in Better(u)
               PROVE  /\ v \in DOMAIN db /\ ~visited[v] /\ v # u
                      /\ Graph(u, v) = 1 /\ dist[u] + 1 < dist[v]
    OBVIOUS
  <2>1. v \in DOMAIN db /\ ~visited[v] /\ v # u /\ dist[u] + Graph(u, v) < dist[v]
    BY DEF Better
  <2>2. Graph(u, v) = 1 \/ Graph(u, v) = BigInt
    BY <2>1 DEF Graph
  <2> QED BY <1>3, <1>4, <1>5, <2>1, <2>2
<1>8. \A v \in DOMAIN db : ~visited[v] /\ v # u /\ Graph(u, v) = 1 => v \in Better(u) \/ dist[v] <= dist[u] + 1
  BY <1>3, <1>4 DEF Better
<1>9. /\ \A v \in DOMAIN db : visited'[v] = (visited[v] \/ v = u)
      /\ visited' \in [DOMAIN db -> BOOLEAN]
  BY <1>1, <1>2, <1>3 DEF DatabaseOK
<1>10. \A v \in DOMAIN db :
         /\ v \in Better(u) => dist'[v] = dist[u] + 1 /\ prev'[v] = u
         /\ v \notin Better(u) => dist'[v] = dist[v] /\ prev'[v] = prev[v]
  BY <1>2, <1>7
<1>11. \A v \in DOMAIN db : visited[v] \/ v = u => v \notin Better(u)
  BY <1>7
<1>12. \A v \in DOMAIN db : dist'[v] \in Nat /\ dist'[v] <= dist[v]
  BY <1>3, <1>4, <1>7, <1>10
<1>13. DatabaseOK'
  <2>1. dist' \in [DOMAIN db -> 0..BigInt]
    <3>1. \A v \in DOMAIN db : dist'[v] \in 0..BigInt
      BY <1>4, <1>5, <1>12
    <3> QED BY <1>2, <3>1
  <2>2. prev' \in [DOMAIN db -> Nat]
    BY <1>1, <1>2, <1>3, <1>4 DEF DatabaseOK
  <2> QED BY <1>1, <1>9, <2>1, <2>2 DEF DatabaseOK
<1>14. Cardinality(Visited) \in Nat /\ Cardinality(Visited') = Cardinality(Visited) + 1
       /\ Cardinality(Visited') <= Len(db)
  <2>1. IsFiniteSet(1..Len(db)) /\ Cardinality(1..Len(db)) = Len(db)
    <3> DEFINE m == Len(db)
    <3>1. m \in Nat
      BY <1>5
    <3> HIDE DEF m
    <3>2. IsFiniteSet(1..m) /\ Cardinality(1..m) = m
      BY <3>1, FS_Interval
    <3> QED BY <3>2 DEF m
  <2>2. Visited \subseteq 1..Len(db) /\ Visited' \subseteq 1..Len(db) /\ u \notin Visited
    BY <1>1, <1>3, <1>5 DEF Visited
  <2>3. Visited' = Visited \cup {u}
    BY <1>1, <1>3, <1>9 DEF Visited
  <2>4. IsFiniteSet(Visited)
    BY <2>1, <2>2, FS_Subset
  <2>5. Cardinality(Visited) \in Nat /\ Cardinality(Visited') = Cardinality(Visited) + 1
    BY <2>2, <2>3, <2>4, FS_AddElement, FS_CardinalityType
  <2>6. Cardinality(Visited') <= Cardinality(1..Len(db))
    BY <2>1, <2>2, FS_Subset
  <2> QED BY <2>1, <2>5, <2>6
<1>15. \A v \in DOMAIN db : dist'[v] < BigInt => dist'[v] <= Cardinality(Visited')
  <2> SUFFICES ASSUME NEW v \in DOMAIN db, dist'[v] < BigInt
               PROVE  dist'[v] <= Cardinality(Visited')
    OBVIOUS
  <2>1. dist[u] <= Cardinality(Visited) /\ (dist[v] < BigInt => dist[v] <= Cardinality(Visited))
    BY <1>1, <1>3 DEF FrontierOK
  <2> QED BY <1>3, <1>4, <1>10, <1>14, <2>1
<1>16. \A v \in DOMAIN db :
         /\ dist'[v] = 0 <=> v = Source
         /\ dist'[v] < BigInt /\ v # Source =>
              /\ prev'[v] \in DOMAIN db /\ Graph(prev'[v], v) = 1 /\ visited'[prev'[v]]
              /\ dist'[v] = dist'[prev'[v]] + 1
  <2> SUFFICES ASSUME NEW v \in DOMAIN db
               PROVE  /\ dist'[v] = 0 <=> v = Source
                      /\ dist'[v] < BigInt /\ v # Source =>
                           /\ prev'[v] \in DOMAIN db /\ Graph(prev'[v], v) = 1
                           /\ visited'[prev'[v]]
                           /\ dist'[v] = dist'[prev'[v]] + 1
    OBVIOUS
  <2>1. dist[v] = 0 <=> v = Source
    BY <1>1 DEF PathsOK
  <2>2. CASE v \in Better(u)
    <3>1. prev'[v] = u /\ dist'[v] = dist[u] + 1 /\ dist'[u] = dist[u] /\ visited'[u] /\ dist[v] # 0
      BY <1>3, <1>4, <1>7, <1>9, <1>10, <1>11, <2>2
    <3> QED BY <1>3, <1>4, <1>7, <2>1, <2>2, <3>1
  <2>3. CASE v \notin Better(u)
    <3>1. dist'[v] = dist[v] /\ prev'[v] = prev[v]
      BY <1>10, <2>3
    <3>2. ASSUME dist[v] < BigInt, v # Source
          PROVE  /\ prev[v] \in DOMAIN db /\ Graph(prev[v], v) = 1 /\ visited'[prev[v]]
                 /\ dist[v] = dist'[prev[v]] + 1
      <4>1. /\ prev[v] \in DOMAIN db /\ Graph(prev[v], v) = 1 /\ visited[prev[v]]
            /\ dist[v] = dist[prev[v]] + 1
        BY <1>1, <3>2 DEF PathsOK, FrontierOK
      <4> QED BY <1>9, <1>10, <1>11, <4>1
    <3> QED BY <2>1, <3>1, <3>2
  <2> QED BY <2>2, <2>3
<1>17. PathsOK'
  <2>1. \A v \in DOMAIN db : dist'[v] < BigInt => dist'[v] <= Len(db)
    BY <1>5, <1>12, <1>14, <1>15
  <2> QED BY <1>1, <1>6, <1>16, <2>1 DEF PathsOK
<1>18. \A i, j \in DOMAIN db : visited'[i] /\ ~visited'[j] => dist'[i] <= dist'[j]
  <2> SUFFICES ASSUME NEW i \in DOMAIN db, NEW j \in DOMAIN db, visited'[i], ~visited'[j]
               PROVE  dist'[i] <= dist'[j]
    OBVIOUS
  <2>1. ~visited[j] /\ (visited[i] \/ i = u) /\ dist'[i] = dist[i]
    BY <1>9, <1>10, <1>11
  <2>2. dist[i] <= dist[u] /\ dist[i] <= dist[j]
    BY <1>1, <1>3, <1>4, <2>1 DEF FrontierOK
  <2> QED BY <1>3, <1>4, <1>10, <2>1, <2>2
<1>19. \A i, j \in DOMAIN db : visited'[i] /\ Graph(i, j) = 1 => dist'[j] <= dist'[i] + 1
  <2> SUFFICES ASSUME NEW i \in DOMAIN db, NEW j \in DOMAIN db, visited'[i], Graph(i, j) = 1
               PROVE  dist'[j] <= dist'[i] + 1
    OBVIOUS
  <2>1. (visited[i] \/ i = u) /\ dist'[i] = dist[i]
    BY <1>9, <1>10, <1>11
  <2>2. CASE visited[i]
    <3>1. dist[j] <= dist[i] + 1
      BY <1>1, <2>2 DEF FrontierOK
    <3> QED BY <1>4, <1>12, <2>1, <3>1
  <2>3. CASE i = u /\ visited[j]
    <3>1. dist[j] <= dist[u]
      BY <1>1, <1>3, <2>3 DEF FrontierOK
    <3> QED BY <1>4, <1>12, <2>1, <2>3, <3>1
  <2>4. CASE i = u /\ j = u
    BY <1>4, <2>1, <2>4
  <2>5. CASE i = u /\ ~visited[j] /\ j # u
    BY <1>4, <1>8, <1>10, <2>1, <2>5
  <2> QED BY <1>4, <2>1, <2>2, <2>3, <2>4, <2>5
<1>20. \A i \in DOMAIN db : visited'[i] => dist'[i] < BigInt
  BY <1>1, <1>3, <1>9, <1>10, <1>11 DEF FrontierOK
<1>21. FrontierOK'
  BY <1>1, <1>6, <1>15, <1>16, <1>18, <1>19, <1>20 DEF FrontierOK
<1> QED BY <1>1, <1>13, <1>17, <1>21 DEF RoutesInv, RoutesTypeOK, envVars

\* When no node is left to visit, all that are reached have been visited; the
\* table starts without routes.
LEMMA StartRoutesStep ==
  ASSUME RoutesInv, StartRoutes
  PROVE  RoutesInv'
<1>1. /\ stage = "dijkstra" /\ DatabaseOK /\ PathsOK /\ FrontierOK /\ self \in Router
      /\ Nearest(FALSE) = {} /\ stage' = "routes"
      /\ UNCHANGED <<envVars, self, nbrs, db, dist, prev, visited>>
  BY DEF StartRoutes, RoutesInv, RoutesTypeOK, DatabaseOK
<1>2. PICK up : rtable' = [rtable EXCEPT ![self] = Kernel(up)]
  BY DEF StartRoutes, Cleared
<1>3. /\ Kernel(up) \in [Network -> {Direct, NoRoute}]
      /\ rtable \in [Router -> [Network -> Router \cup {Direct, NoRoute}]]
  BY DEF Kernel, RoutesInv, RoutesTypeOK
<1>4. rtable' \in [Router -> [Network -> Router \cup {Direct, NoRoute}]]
  BY <1>1, <1>2, <1>3
<1>5. \A n \in Network : rtable'[self][n] \notin Router
  BY <1>1, <1>2, <1>3, RoutesAssumption
<1>6. \A i, j : Graph(i, j)' = Graph(i, j) /\ Source' = Source
  BY <1>1 DEF Graph, Source
<1>7. RoutesTypeOK'
  BY <1>1, <1>4 DEF RoutesInv, RoutesTypeOK, DatabaseOK, envVars
<1>8. PathsOK'
  BY <1>1, <1>6 DEF PathsOK
<1>9. \A i \in DOMAIN db : dist[i] < BigInt => visited[i]
  <2>1. \A i \in DOMAIN db : visited[i] = FALSE => dist[i] = BigInt
    BY <1>1, NearestFound, Zenon
  <2>2. \A i \in DOMAIN db : visited[i] \in BOOLEAN /\ dist[i] \in Nat /\ BigInt \in Nat
    BY <1>1, DatabaseIs
  <2> QED BY <2>1, <2>2
<1>10. AllReached'
  BY <1>1, <1>6, <1>9 DEF FrontierOK, AllReached
<1>11. \A i \in DOMAIN db : \A a \in db[i].lsas : a.network \in Network
  <2>1. \A i \in DOMAIN db : db[i] \in EntryOf
    BY <1>1 DEF DatabaseOK
  <2> QED BY <2>1 DEF EntryOf, Lsa
<1>12. TableOK'
  BY <1>1, <1>5, <1>9, <1>11 DEF TableOK, Taken
<1> QED BY <1>1, <1>7, <1>8, <1>10, <1>12 DEF RoutesInv

\* A node that is taken has its routes entered.
LEMMA SetRoutesStep ==
  ASSUME RoutesInv, SetRoutes
  PROVE  RoutesInv'
<1>1. /\ stage = "routes" /\ DatabaseOK /\ PathsOK /\ AllReached /\ TableOK /\ self \in Router
      /\ UNCHANGED <<envVars, self, nbrs, db, stage, dist, prev>>
  BY DEF SetRoutes, RoutesInv, RoutesTypeOK, DatabaseOK
<1>2. PICK t \in Nearest(TRUE) :
        /\ visited' = [visited EXCEPT ![t] = FALSE]
        /\ LET gw == db[FirstHop(t)].rid
           IN  rtable' = IF db[t].rid # self /\ gw \in nbrs
                         THEN [rtable EXCEPT ![self] = AddRoutes(@, db[t].lsas, gw)]
                         ELSE rtable
  BY DEF SetRoutes
<1> DEFINE gw == db[FirstHop(t)].rid
           writes == db[t].rid # self /\ gw \in nbrs
<1>3. /\ t \in DOMAIN db /\ visited[t] /\ dist[t] < BigInt
      /\ \A i \in DOMAIN db : visited[i] \in BOOLEAN
      /\ visited' \in [DOMAIN db -> BOOLEAN]
      /\ \A i \in DOMAIN db : visited'[i] = (visited[i] /\ i # t)
  <2>1. t \in DOMAIN db /\ visited[t] = TRUE /\ dist[t] < BigInt
    BY DEF Nearest
  <2>2. visited \in [DOMAIN db -> BOOLEAN]
    BY <1>1 DEF DatabaseOK
  <2> QED BY <1>2, <2>1, <2>2
<1>4. /\ rtable \in [Router -> [Network -> Router \cup {Direct, NoRoute}]] /\ nbrs \subseteq Router
  BY DEF RoutesInv, RoutesTypeOK
<1>5. /\ writes => \A n \in Network : rtable'[self][n] =
                     IF \E a \in db[t].lsas : a.network = n THEN gw ELSE rtable[self][n]
      /\ ~writes => rtable' = rtable
      /\ rtable' \in [Router -> [Network -> Router \cup {Direct, NoRoute}]]
  <2>1. CASE writes
    <3> DEFINE row == AddRoutes(rtable[self], db[t].lsas, gw)
    <3>1. rtable[self] \in [Network -> Router \cup {Direct, NoRoute}] /\ gw \in Router
      BY <1>1, <1>4, <2>1
    <3>2. /\ row \in [Network -> Router \cup {Direct, NoRoute}]
          /\ \A n \in Network : row[n] = IF \E a \in db[t].lsas : a.network = n
                                         THEN gw ELSE rtable[self][n]
      <4> HIDE DEF gw
      <4> QED BY <3>1 DEF AddRoutes
    <3>3. rtable' = [rtable EXCEPT ![self] = row]
      BY <1>2, <2>1
    <3> HIDE DEF row, gw
    <3> QED BY <1>1, <1>4, <2>1, <3>2, <3>3
  <2>2. CASE ~writes
    BY <1>2, <1>4, <2>2
  <2> QED BY <2>1, <2>2
<1>6. \A i, j : Graph(i, j)' = Graph(i, j) /\ Source' = Source
  BY <1>1 DEF Graph, Source
<1>7. \A i : FirstHop(i)' = FirstHop(i)
  BY <1>1 DEF FirstHop
<1>8. \A n, i : Sole(n, i)' <=> Sole(n, i)
  BY <1>1 DEF Sole
<1>9. RoutesTypeOK'
  BY <1>1, <1>3, <1>5 DEF RoutesInv, RoutesTypeOK, DatabaseOK, envVars
<1>10. PathsOK' /\ AllReached'
  BY <1>1, <1>6 DEF PathsOK, AllReached
<1>11. \A i \in DOMAIN db : \A a \in db[i].lsas : a.network \in Network
  <2>1. \A i \in DOMAIN db : db[i] \in EntryOf
    BY <1>1 DEF DatabaseOK
  <2> QED BY <2>1 DEF EntryOf, Lsa
<1>12. \A i \in DOMAIN db : Taken(i)' <=> Taken(i) \/ i = t
  BY <1>1, <1>3 DEF Taken
<1>13. ~Taken(t) /\ (t = Source <=> db[t].rid = self)
  BY <1>1, <1>3, DatabaseIs DEF Taken
<1> HIDE DEF gw
<1>14. ASSUME NEW n \in Network, rtable'[self][n] \in Router
       PROVE  \E i \in DOMAIN db \ {Source} : Taken(i)' /\ \E a \in db[i].lsas : a.network = n
  <2>1. CASE writes /\ \E a \in db[t].lsas : a.network = n
    BY <1>3, <1>12, <1>13, <2>1
  <2>2. CASE ~(writes /\ \E a \in db[t].lsas : a.network = n)
    <3>1. rtable[self][n] \in Router
      BY <1>5, <1>14, <2>2
    <3>2. PICK i \in DOMAIN db \ {Source} : Taken(i) /\ \E a \in db[i].lsas : a.network = n
      BY <1>1, <3>1 DEF TableOK
    <3> QED BY <1>12, <3>2
  <2> QED BY <2>1, <2>2
<1>15. ASSUME NEW i \in DOMAIN db \ {Source}, NEW a \in db[i].lsas, Sole(a.network, i)
       PROVE  /\ rtable'[self][a.network] \in Router =>
                   /\ Taken(i)' /\ db[FirstHop(i)].rid \in nbrs
                   /\ rtable'[self][a.network] = db[FirstHop(i)].rid
              /\ Taken(i)' /\ db[FirstHop(i)].rid \in nbrs =>
                   rtable'[self][a.network] = db[FirstHop(i)].rid
  <2>1. /\ rtable[self][a.network] \in Router =>
              /\ Taken(i) /\ db[FirstHop(i)].rid \in nbrs
              /\ rtable[self][a.network] = db[FirstHop(i)].rid
        /\ Taken(i) /\ db[FirstHop(i)].rid \in nbrs =>
              rtable[self][a.network] = db[FirstHop(i)].rid
    BY <1>1, <1>15 DEF TableOK
  <2>2. a.network \in Network
    BY <1>11
  <2>3. CASE i = t
    <3>1. gw = db[FirstHop(i)].rid /\ db[t].rid # self
      BY <1>13, <2>3 DEF gw
    <3>2. CASE gw \in nbrs
      BY <1>5, <1>12, <2>2, <2>3, <3>1, <3>2
    <3>3. CASE gw \notin nbrs
      BY <1>5, <1>13, <2>1, <2>3, <3>1, <3>3
    <3> QED BY <3>2, <3>3
  <2>4. CASE i # t
    <3>1. ~\E b \in db[t].lsas : b.network = a.network
      BY <1>3, <1>15, <2>4 DEF Sole
    <3>2. rtable'[self][a.network] = rtable[self][a.network]
      BY <1>5, <2>2, <3>1
    <3>3. Taken(i)' <=> Taken(i)
      BY <1>12, <2>4
    <3> QED BY <2>1, <3>2, <3>3
  <2> QED BY <2>3, <2>4
<1>16. TableOK'
  BY <1>1, <1>6, <1>7, <1>8, <1>14, <1>15 DEF TableOK
<1> QED BY <1>1, <1>9, <1>10, <1>16 DEF RoutesInv

LEMMA FinishStep ==
  ASSUME RoutesInv, Finish
  PROVE  RoutesInv'
BY DEF Finish, RoutesInv, RoutesTypeOK, envVars

LEMMA NextInv == RoutesInv /\ [Next]_vars => RoutesInv'
<1> SUFFICES ASSUME RoutesInv, [Next]_vars PROVE RoutesInv'
  OBVIOUS
<1>1. ASSUME NEW q \in Active, Begin(q) PROVE RoutesInv'
  <2>1. \E o \in Lists : \E i \in DOMAIN o : o[i] = q
    BY <1>1 DEF Begin
  <2>2. q \in Router
    BY <2>1, RoutesAssumption
  <2> QED BY <1>1, <2>2, BeginStep
<1>2. CASE UNCHANGED vars
  <2>1. UNCHANGED <<envVars, rtable, self, nbrs, db, stage, dist, prev, visited>>
    BY <1>2 DEF vars
  <2>2. RoutesTypeOK' <=> RoutesTypeOK
    BY <2>1 DEF RoutesTypeOK, DatabaseOK, envVars
  <2>3. \A i, j : Graph(i, j)' = Graph(i, j) /\ Source' = Source /\ Visited' = Visited
    BY <2>1 DEF Graph, Source, Visited
  <2>4. \A i : FirstHop(i)' = FirstHop(i)
    BY <2>1 DEF FirstHop
  <2>5. (PathsOK' <=> PathsOK) /\ (FrontierOK' <=> FrontierOK) /\ (AllReached' <=> AllReached)
    <3>1. PathsOK' <=> PathsOK
      BY <2>1, <2>3 DEF PathsOK
    <3>2. FrontierOK' <=> FrontierOK
      BY <2>1, <2>3 DEF FrontierOK
    <3>3. AllReached' <=> AllReached
      BY <2>1, <2>3 DEF AllReached
    <3> QED BY <3>1, <3>2, <3>3
  <2>6. \A n, i : (Taken(i)' <=> Taken(i)) /\ (Sole(n, i)' <=> Sole(n, i))
    BY <2>1 DEF Taken, Sole
  <2>7. TableOK => TableOK'
    BY <2>1, <2>3, <2>4, <2>6 DEF TableOK
  <2> QED BY <2>1, <2>2, <2>5, <2>7 DEF RoutesInv
<1> QED
  BY <1>1, <1>2, LinkFailsStep, VisitStep, StartRoutesStep, SetRoutesStep, FinishStep DEF Next

\* RoutesInv holds throughout.
THEOREM RoutesInvariant == Spec => []RoutesInv
<1> QED BY InitInv, NextInv, PTL DEF Spec

-----------------------------------------------------------------------------
(***************************************************************************)
(* The theorems.                                                           *)
(***************************************************************************)

\* Distances are those of paths, and a node that dijkstra has visited keeps the
\* distance it has, which is the true one (dijkstra, find_min_dist_index).
THEOREM VisitedIsFinal == Spec => []VisitedFinal
<1>1. ASSUME RoutesInv PROVE VisitedFinal
  <2>1. SUFFICES ASSUME stage = "dijkstra", NEW i \in DOMAIN db
                 PROVE  /\ dist[i] < BigInt => /\ dist[i] \in DOMAIN Within(Source)
                                               /\ i \in Within(Source)[dist[i]]
                        /\ visited[i] /\ dist[i] > 0 => i \notin Within(Source)[dist[i] - 1]
    BY DEF VisitedFinal
  <2>2. DatabaseOK /\ PathsOK /\ FrontierOK
    BY <1>1, <2>1 DEF RoutesInv, RoutesTypeOK
  <2>3. DOMAIN Within(Source) = 0..Len(db)
    BY <2>2, DatabaseIs, WithinIs
  <2> QED BY <2>2, <2>3, NearEnough, FrontierFinal
<1> QED BY <1>1, RoutesInvariant, PTL

\* The table has routes for networks of routers the database knows a way to,
\* and for no others, whatever was in it before (clear_rtable,
\* load_rtable_from_kernel, set_rtable_with_path).
THEOREM RoutesAreFresh == Spec => []NoStaleRoutes
<1>1. ASSUME RoutesInv PROVE NoStaleRoutes
  <2>1. SUFFICES ASSUME Complete, NEW n \in Network, rtable[self][n] \in Router
                 PROVE  \E i \in Within(Source)[Len(db)] \ {Source} :
                          \E a \in db[i].lsas : a.network = n
    BY DEF NoStaleRoutes
  <2>2. DatabaseOK /\ PathsOK /\ TableOK
    BY <1>1, <2>1 DEF RoutesInv, RoutesTypeOK, Complete
  <2>3. PICK i \in DOMAIN db \ {Source} : Taken(i) /\ \E a \in db[i].lsas : a.network = n
    BY <2>1, <2>2 DEF TableOK
  <2>4. dist[i] \in 0..Len(db) /\ i \in Within(Source)[dist[i]]
    BY <2>2, <2>3, NearEnough DEF Taken
  <2>5. i \in Within(Source)[Len(db)]
    BY <2>2, <2>4, DatabaseIs, WithinGrows
  <2> QED BY <2>3, <2>5
<1> QED BY <1>1, RoutesInvariant, PTL

\* A network that one router advertises is routed through a neighbour that is
\* one step nearer to that router, and has a route whenever the database knows
\* a way and does not lag behind the neighbour lists (get_first_hop,
\* get_iface_ip_of_nbr, set_rtable_with_path).
THEOREM SoleNetworksRight == Spec => []SoleNetworksShortest
<1>1. ASSUME RoutesInv PROVE SoleNetworksShortest
  <2> DEFINE here == Within(Source)
             Shortest(i, gw) ==
               \E h \in DOMAIN db, k \in 1..Len(db) :
                 /\ db[h].rid = gw
                 /\ i \in here[k] \ here[k - 1] /\ i \in Within(h)[k - 1]
             Follows == \A h \in DOMAIN db : Graph(Source, h) = 1 => db[h].rid \in nbrs
  <2>1. SUFFICES ASSUME Complete, NEW i \in DOMAIN db \ {Source}, NEW a \in db[i].lsas,
                        Sole(a.network, i)
                 PROVE  /\ rtable[self][a.network] \in Router =>
                             /\ rtable[self][a.network] \in nbrs
                             /\ Shortest(i, rtable[self][a.network])
                        /\ i \in here[Len(db)] /\ Follows => rtable[self][a.network] \in Router
    BY DEF SoleNetworksShortest
  <2>2. DatabaseOK /\ PathsOK /\ AllReached /\ TableOK /\ nbrs \subseteq Router
    BY <1>1, <2>1 DEF RoutesInv, RoutesTypeOK, Complete
  <2> DEFINE gw == db[FirstHop(i)].rid
  <2>3. /\ rtable[self][a.network] \in Router =>
             Taken(i) /\ gw \in nbrs /\ rtable[self][a.network] = gw
        /\ Taken(i) /\ gw \in nbrs => rtable[self][a.network] = gw
    BY <2>1, <2>2 DEF TableOK
  <2>4. Len(db) \in Nat /\ dist[i] \in Nat
    BY <2>2, DatabaseIs
  <2>5. ASSUME dist[i] < BigInt
        PROVE  /\ dist[i] \in 1..Len(db) /\ FirstHop(i) \in DOMAIN db
               /\ Graph(Source, FirstHop(i)) = 1 /\ i \in Within(FirstHop(i))[dist[i] - 1]
    BY <2>2, <2>5, FirstHopRight
  <2>6. ASSUME dist[i] < BigInt PROVE Shortest(i, gw)
    <3>1. i \in here[dist[i]]
      BY <2>2, <2>6, NearEnough
    <3>2. i \notin here[dist[i] - 1]
      <4>1. dist[i] - 1 \in 0..Len(db) /\ ~(dist[i] <= dist[i] - 1)
        BY <2>4, <2>5, <2>6
      <4> QED BY <2>2, <4>1, ReachedFinal
    <3> QED BY <2>5, <2>6, <3>1, <3>2
  <2>7. ASSUME i \in here[Len(db)], Follows PROVE Taken(i) /\ gw \in nbrs
    <3>1. dist[i] < BigInt
      BY <2>2, <2>4, <2>7, ReachedFinal
    <3>2. ~visited[i]
      <4>1. \A j \in DOMAIN db : visited[j] = TRUE => dist[j] = BigInt
        BY <2>1, <2>2, NearestFound, Zenon DEF Complete
      <4>2. visited[i] \in BOOLEAN /\ BigInt \in Nat
        BY <2>2, DatabaseIs
      <4> QED BY <2>4, <3>1, <4>1, <4>2
    <3> QED BY <2>5, <2>7, <3>1, <3>2 DEF Taken
  <2> HIDE DEF Shortest, Follows, gw
  <2> QED BY <2>2, <2>3, <2>6, <2>7 DEF Taken
<1> QED BY <1>1, RoutesInvariant, PTL

=============================================================================
