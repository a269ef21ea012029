----------------------------- MODULE MospfRoutes -----------------------------
(***************************************************************************)
(* The route computation of 09-mospf (mospf_database.c, rtable.c): a graph *)
(* is built from the database, Dijkstra's algorithm runs on it, and the    *)
(* nodes are then taken in the order of their distance to enter the        *)
(* networks they advertise into the table.                                 *)
(*                                                                         *)
(* Routers compute one at a time here: each does so under locks of its     *)
(* own, and they share nothing.  The database a computation starts from is *)
(* any that flooding may have left: it lists some of the routers, in the   *)
(* order in which they became known, each with what it advertises now or   *)
(* what it advertised before a link failed.                                *)
(***************************************************************************)
EXTENDS Naturals, Sequences, FiniteSets

CONSTANTS
  Router,        \* router identities
  Network,       \* networks
  Attached,      \* the networks each router has an interface in
  Active,        \* the routers whose computations are looked at
  Cables,        \* the wirings to start from, each a set of pairs of routers
  Lists,         \* the routers a database may list, in the order it does
  LinkNetwork,   \* the network of each pair
  None,          \* no router
  Direct,        \* the gateway 0 of a network the router is attached to
  NoRoute,       \* what the table says of networks it does not list
  BigInt,        \* BIG_INT
  MayFail        \* whether a link may fail

ASSUME RoutesAssumption ==
  /\ Attached \in [Router -> SUBSET Network]
  /\ None \notin Router /\ Direct \notin Router /\ NoRoute \notin Router
  /\ BigInt \in Nat
  /\ \A o \in Lists : /\ o \in Seq(Router) /\ Len(o) < BigInt
                      /\ \A i, j \in DOMAIN o : o[i] = o[j] => i = j
  /\ \A cables \in Cables : \A l \in cables : LinkNetwork[l] \in Network

VARIABLES
  adverts,   \* the neighbours each router has and advertises
  before,    \* those it had before a link failed
  settled,   \* routers whose table is computed from a complete database
  rtable,    \* the gateway for each network in each router's table
  self,      \* the router that is computing, or None
  nbrs,      \* the routers in its neighbour lists
  db,        \* mospf_db, the list of entries
  stage,     \* how far it is
  dist, prev, visited

envVars == <<adverts, before, settled>>
vars == <<envVars, rtable, self, nbrs, db, stage, dist, prev, visited>>

\* load_rtable_from_kernel, for the networks up of the interfaces
Kernel(up) == [n \in Network |-> IF n \in up THEN Direct ELSE NoRoute]

\* What prepare_lsu_msg puts into an advertisement: one item for each
\* neighbour, and a blank one for an interface without.
LsasOf(q, ns) ==
  {[network |-> LinkNetwork[{q, s}], rid |-> s] : s \in ns}
    \cup {[network |-> n, rid |-> None] :
            n \in Attached[q] \ {LinkNetwork[{q, s}] : s \in ns}}

Init ==
  /\ \E cables \in Cables :
       adverts = [q \in Router |-> {s \in Router : {q, s} \in cables}]
  /\ before = adverts
  /\ settled = {}
  /\ rtable = [q \in Router |-> Kernel(Attached[q])]
  /\ self = None
  /\ nbrs = {}
  /\ db = <<>>
  /\ stage = "idle"
  /\ dist = <<>> /\ prev = <<>> /\ visited = <<>>

\* A link fails; both its ends will advertise less.
LinkFails(q, s) ==
  /\ MayFail
  /\ self = None
  /\ before = adverts
  /\ s \in adverts[q]
  /\ adverts' = [adverts EXCEPT ![q] = @ \ {s}, ![s] = @ \ {q}]
  /\ settled' = {}
  /\ UNCHANGED <<before, rtable, self, nbrs, db, stage, dist, prev, visited>>

-----------------------------------------------------------------------------
(***************************************************************************)
(* update_routing_table_from_database                                      *)
(***************************************************************************)
\* init_mospf_graph.  A database without the router's own entry is given up
\* on and leaves everything as it was.  What a router advertises follows its
\* neighbour lists and never runs ahead of them.
Begin(q) ==
  /\ self = None
  /\ \E o \in Lists, now \in SUBSET {r \in Router : before[r] # adverts[r]} :
       LET known(r) == IF r \in now THEN adverts[r] ELSE before[r]
       IN  /\ \E i \in DOMAIN o : o[i] = q
           /\ db' = [i \in DOMAIN o |-> [rid |-> o[i], lsas |-> LsasOf(o[i], known(o[i]))]]
           /\ settled' = IF Len(o) = Cardinality(Router) /\ \A r \in Router : known(r) = adverts[r]
                         THEN settled \cup {q} ELSE settled \ {q}
           /\ \/ nbrs' = adverts[q]
              \/ known(q) = before[q] /\ nbrs' = before[q]
           /\ dist' = [i \in DOMAIN o |-> IF o[i] = q THEN 0 ELSE BigInt]
           /\ prev' = [i \in DOMAIN o |-> 0]
           /\ visited' = [i \in DOMAIN o |-> FALSE]
  /\ self' = q
  /\ stage' = "dijkstra"
  /\ UNCHANGED <<adverts, before, rtable>>

\* An entry that lists a neighbour without an entry gives no edge.
Graph(i, j) ==
  IF \E a \in db[i].lsas : a.rid = db[j].rid THEN 1
  ELSE IF i = j THEN 0 ELSE BigInt

\* find_min_dist_index: the first of the nearest nodes that are reached and
\* visited, or not visited, as asked for.
Nearest(cond) ==
  {i \in DOMAIN db :
     /\ visited[i] = cond /\ dist[i] < BigInt
     /\ \A j \in DOMAIN db :
          visited[j] = cond => dist[i] < dist[j] \/ (dist[i] = dist[j] /\ i <= j)}

\* Mutated form: edges are taken in the other direction.
BetterReversed(u) ==
  {v \in DOMAIN db : ~visited[v] /\ v # u /\ dist[u] + Graph(v, u) < dist[v]}

\* The nodes to which there is a shorter way through u.
Better(u) ==
  {v \in DOMAIN db : ~visited[v] /\ v # u /\ dist[u] + Graph(u, v) < dist[v]}

\* One round of dijkstra.
Visit ==
  /\ stage = "dijkstra"
  /\ \E u \in Nearest(FALSE) :
       /\ visited' = [visited EXCEPT ![u] = TRUE]
       /\ dist' = [v \in DOMAIN db |-> IF v \in Better(u) THEN dist[u] + Graph(u, v) ELSE dist[v]]
       /\ prev' = [v \in DOMAIN db |-> IF v \in Better(u) THEN u ELSE prev[v]]
  /\ UNCHANGED <<envVars, rtable, self, nbrs, db, stage>>

\* Mutated form: the table is not cleared.
ClearedNot(up) == [n \in Network |-> IF n \in up THEN Direct ELSE rtable[self][n]]

\* clear_rtable, load_rtable_from_kernel
Cleared(up) == Kernel(up)

\* The networks of failed links, of which the kernel may have lost the routes.
FailedNetworks == {LinkNetwork[{self, s}] : s \in before[self] \ adverts[self]}

StartRoutes ==
  /\ stage = "dijkstra"
  /\ Nearest(FALSE) = {}
  /\ stage' = "routes"
  /\ \E gone \in SUBSET FailedNetworks :
       rtable' = [rtable EXCEPT ![self] = Cleared(Attached[self] \ gone)]
  /\ UNCHANGED <<envVars, self, nbrs, db, dist, prev, visited>>

\* Mutated form: the hop before the destination.
FirstHopLast(i) == IF dist[i] > 1 THEN prev[i] ELSE i

\* get_first_hop, for a node that is reached
FirstHop(i) ==
  LET hop[k \in {k \in DOMAIN db : dist[k] < BigInt}] ==
        IF dist[k] > 1 THEN hop[prev[k]] ELSE k
  IN  hop[i]

\* try_add_rt_entry for all networks of an entry: an existing route is
\* overwritten.
AddRoutes(table, lsas, gw) ==
  [n \in Network |-> IF \E a \in lsas : a.network = n THEN gw ELSE table[n]]

\* One round of set_rtable_with_path.  Only a neighbour can be a gateway.
SetRoutes ==
  /\ stage = "routes"
  /\ \E i \in Nearest(TRUE) :
       /\ visited' = [visited EXCEPT ![i] = FALSE]
       /\ LET gw == db[FirstHop(i)].rid
          IN  rtable' = IF db[i].rid # self /\ gw \in nbrs
                        THEN [rtable EXCEPT ![self] = AddRoutes(@, db[i].lsas, gw)]
                        ELSE rtable
  /\ UNCHANGED <<envVars, self, nbrs, db, stage, dist, prev>>

\* All nodes have been taken: the new table is complete.
Complete == stage = "routes" /\ Nearest(TRUE) = {}

\* The locks are released and the arrays freed.
Finish ==
  /\ Complete
  /\ stage' = "idle"
  /\ self' = None
  /\ nbrs' = {}
  /\ db' = <<>> /\ dist' = <<>> /\ prev' = <<>> /\ visited' = <<>>
  /\ UNCHANGED <<envVars, rtable>>

Next ==
  \/ \E q, s \in Router : LinkFails(q, s)
  \/ \E q \in Active : Begin(q)
  \/ Visit
  \/ StartRoutes
  \/ SetRoutes
  \/ Finish

Spec == Init /\ [][Next]_vars

-----------------------------------------------------------------------------
(***************************************************************************)
(* Reference definitions.                                                  *)
(***************************************************************************)

\* The nodes within k steps of node i of the database, for each k.
Within(i) ==
  LET within[k \in 0..Len(db)] ==
        IF k = 0 THEN {i}
        ELSE within[k - 1] \cup {j \in DOMAIN db : \E h \in within[k - 1] : Graph(h, j) = 1}
  IN  within

\* The routers from which following the tables leads to network n.
Delivering(n) ==
  LET after[k \in 0..Cardinality(Router)] ==
        IF k = 0 THEN {q \in Router : n \in Attached[q]}
        ELSE after[k - 1] \cup {q \in Router : rtable[q][n] \in after[k - 1]}
  IN  after[Cardinality(Router)]

-----------------------------------------------------------------------------
(***************************************************************************)
(* Properties.                                                             *)
(***************************************************************************)
Source == CHOOSE i \in DOMAIN db : db[i].rid = self

\* A node that dijkstra has visited keeps the distance it has, which is the
\* true one; what the others have is the length of some path.
VisitedFinal ==
  stage = "dijkstra" =>
    LET within == Within(Source)
    IN  \A i \in DOMAIN db :
          /\ dist[i] < BigInt => dist[i] \in DOMAIN within /\ i \in within[dist[i]]
          /\ visited[i] /\ dist[i] > 0 => i \notin within[dist[i] - 1]

Sole(n, i) == \A j \in DOMAIN db \ {i} : \A a \in db[j].lsas : a.network # n

\* A network that only one router advertises is routed through a neighbour that
\* is one step nearer to that router; and it has a route whenever the database
\* knows a way, provided it does not lag behind the neighbour lists.
SoleNetworksShortest ==
  Complete =>
    LET here == Within(Source)
    IN  \A i \in DOMAIN db \ {Source} : \A a \in db[i].lsas :
          Sole(a.network, i) =>
            LET gw == rtable[self][a.network]
            IN  /\ gw \in Router =>
                     /\ gw \in nbrs
                     /\ \E h \in DOMAIN db, k \in 1..Len(db) :
                          /\ db[h].rid = gw
                          /\ i \in here[k] \ here[k - 1] /\ i \in Within(h)[k - 1]
                /\ /\ i \in here[Len(db)]
                   /\ \A h \in DOMAIN db : Graph(Source, h) = 1 => db[h].rid \in nbrs
                   => gw \in Router

\* Whatever was in the table before, it has routes for networks of routers the
\* present database knows a way to, and for no others.
NoStaleRoutes ==
  Complete =>
    \A n \in Network :
      rtable[self][n] \in Router =>
        \E i \in Within(Source)[Len(db)] \ {Source} :
          \E a \in db[i].lsas : a.network = n

\* "Update routing table based on shortest paths": once all routers have done
\* so from the same complete database, packets for any network reach one of
\* its routers from everywhere.
NetworksReached ==
  self = None /\ settled = Router =>
    \A n \in UNION {Attached[q] : q \in Router} : Delivering(n) = Router

=============================================================================
