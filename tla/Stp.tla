--------------------------------- MODULE Stp --------------------------------
(***************************************************************************)
(* The spanning-tree protocol of 05-stp: a set of switches joined by       *)
(* point-to-point links (the veth pairs of the mininet scripts), each      *)
(* running stp.c.  Both threads of a switch (the receive loop of main.c    *)
(* and stp_timer_routine) hold stp->lock for the whole of a handler, so    *)
(* one handler is one step.                                                *)
(*                                                                         *)
(* A port is the pair <<switch_id, port_id>>; both numbers are kept only   *)
(* for their order.  The four designated_* fields of struct stp_port form  *)
(* one record, which is also what a config packet carries.                 *)
(***************************************************************************)
EXTENDS Naturals, Sequences

CONSTANTS
  Switch,    \* the switch_id of every switch
  Port,      \* every port in the network
  Peer,      \* the other end of each port's link
  NoPort,    \* stp->root_port == NULL
  QueueCap,  \* frames a port's raw socket buffers before it drops new ones
  Dist       \* Dist[r][s]: a lower bound for path costs, see DistAssumption

ASSUME NetworkAssumption ==
  /\ Switch \subseteq Nat
  /\ Port \subseteq Switch \X (Nat \ {0})
  /\ Peer \in [Port -> Port]
  /\ \A p \in Port : Peer[p] # p /\ Peer[Peer[p]] = p
  /\ NoPort \notin Port
  /\ QueueCap \in Nat \ {0}

\* Met by the hop distance (with any large number for "unreachable").
ASSUME DistAssumption ==
  /\ Dist \in [Switch -> [Switch -> Nat]]
  /\ \A r, s \in Switch : Dist[r][s] = 0 <=> r = s
  /\ \A r \in Switch, p \in Port : Dist[r][p[1]] <= Dist[r][Peer[p][1]] + 1

Owner(p)  == p[1]
PortId(p) == p[2]
PortsOf(s) == {p \in Port : Owner(p) = s}

PathCost == 1   \* p->path_cost, the same for every port

VARIABLES
  designatedRoot,  \* stp->designated_root of each switch
  rootPathCost,    \* stp->root_path_cost
  rootPort,        \* stp->root_port
  helloActive,     \* stp->hello_timer.active
  info,            \* the designated_* fields of each port
  rxq              \* config packets waiting in each port's raw socket

vars == <<designatedRoot, rootPathCost, rootPort, helloActive, info, rxq>>

Vector == [root : Switch, cost : Nat, switch : Switch, port : Nat \ {0}]

\* The type invariant; a socket never holds more frames than it buffers.
TypeOK ==
  /\ designatedRoot \in [Switch -> Switch]
  /\ rootPathCost \in [Switch -> Nat]
  /\ rootPort \in [Switch -> Port \cup {NoPort}]
  /\ \A s \in Switch : rootPort[s] \in PortsOf(s) \cup {NoPort}
  /\ helloActive \in [Switch -> BOOLEAN]
  /\ info \in [Port -> Vector]
  /\ rxq \in [Port -> Seq(Vector)]
  /\ \A p \in Port : Len(rxq[p]) <= QueueCap

-----------------------------------------------------------------------------
(***************************************************************************)
(* Priority of vectors and roles of ports.                                 *)
(***************************************************************************)

\* Mutated form: a vector equal to the stored one is not accepted.
ComparePriorityStrict(a, b) ==
  \/ a.root < b.root
  \/ a.root = b.root /\ a.cost < b.cost
  \/ a.root = b.root /\ a.cost = b.cost /\ a.switch < b.switch
  \/ /\ a.root = b.root /\ a.cost = b.cost /\ a.switch = b.switch
     /\ a.port < b.port

\* a is of higher priority than b, or the same.
ComparePriority(a, b) ==
  \/ a.root < b.root
  \/ a.root = b.root /\ a.cost < b.cost
  \/ a.root = b.root /\ a.cost = b.cost /\ a.switch < b.switch
  \/ /\ a.root = b.root /\ a.cost = b.cost /\ a.switch = b.switch
     /\ a.port <= b.port

IsDesignated(f, p) == f[p].switch = Owner(p) /\ f[p].port = PortId(p)

\* What port p announces when its switch believes in root at that cost.
Config(root, cost, p) ==
  [root |-> root, cost |-> cost, switch |-> Owner(p), port |-> PortId(p)]

\* The role logic of stp_port_enabled: a port is blocked iff ALTERNATE.
Enabled(p) == rootPort[Owner(p)] = p \/ IsDesignated(info, p)

-----------------------------------------------------------------------------
(***************************************************************************)
(* The pieces of stp_handle_config_packet.  f is the ports' information    *)
(* after the received vector has been stored.                              *)
(***************************************************************************)

\* rp is the best of the ports of s that are not designated; of two equal
\* ones the scan keeps the later.  NoPort if all are designated.
SelectsRootPort(rp, s, f) ==
  LET candidates == {q \in PortsOf(s) : ~IsDesignated(f, q)}
  IN  \/ candidates = {} /\ rp = NoPort
      \/ /\ rp \in candidates
         /\ \A q \in candidates :
              /\ ComparePriority(f[rp], f[q])
              /\ f[rp] = f[q] => PortId(q) <= PortId(rp)

RootVia(rp, s, f) == IF rp = NoPort THEN s ELSE f[rp].root

\* Mutated form: the cost of the last link is not added.
CostViaNoLink(rp, f) == IF rp = NoPort THEN 0 ELSE f[rp].cost

CostVia(rp, f) == IF rp = NoPort THEN 0 ELSE f[rp].cost + PathCost

\* Mutated form: a port that is not designated never becomes so again.
UpdatePortsSticky(s, f, root, cost) ==
  [q \in Port |->
     IF Owner(q) = s /\ IsDesignated(f, q)
     THEN Config(root, cost, q)
     ELSE f[q]]

\* Mutated form: the costs are not compared.
UpdatePortsNoCost(s, f, root, cost) ==
  [q \in Port |->
     IF /\ Owner(q) = s
        /\ IsDesignated(f, q) \/ (root <= f[q].root /\ s < f[q].switch)
     THEN Config(root, cost, q)
     ELSE f[q]]

\* Designated ports take over the new belief; another port is taken over
\* when the switch's own vector beats it.  The last two arguments stand in
\* the order of the code: the port's designated_port against its own id.
UpdatePorts(s, f, root, cost) ==
  [q \in Port |->
     IF /\ Owner(q) = s
        /\ \/ IsDesignated(f, q)
           \/ ComparePriority(
                [root |-> root, cost |-> cost, switch |-> s, port |-> f[q].port],
                [f[q] EXCEPT !.port = PortId(q)])
     THEN Config(root, cost, q)
     ELSE f[q]]

\* The queues after each port in ports has sent one config packet; a frame
\* that finds the receiving socket full is dropped.
SendOn(Q, ports, root, cost) ==
  [h \in Port |->
     IF Peer[h] \in ports /\ Len(Q[h]) < QueueCap
     THEN Append(Q[h], Config(root, cost, Peer[h]))
     ELSE Q[h]]

\* Nobody sends while it is neither root nor has a root port.
Senders(s, f, root, rp) ==
  {q \in PortsOf(s) : IsDesignated(f, q) /\ (root = s \/ rp # NoPort)}

\* Mutated form: the hello timer keeps running.
HelloAfterAlways(s, root) == helloActive

\* The hello timer is stopped once the switch is no longer its own root.
HelloAfter(s, root) ==
  [helloActive EXCEPT ![s] = helloActive[s] /\ root = s]

Rest(p) == [rxq EXCEPT ![p] = Tail(rxq[p])]

-----------------------------------------------------------------------------
(***************************************************************************)
(* Actions.                                                                *)
(***************************************************************************)
Init ==
  /\ designatedRoot = [s \in Switch |-> s]
  /\ rootPathCost = [s \in Switch |-> 0]
  /\ rootPort = [s \in Switch |-> NoPort]
  /\ helloActive = [s \in Switch |-> TRUE]
  /\ info = [p \in Port |-> Config(Owner(p), 0, p)]
  /\ rxq = [p \in Port |-> <<>>]

\* The received vector is stored, the root port elected anew, the ports are
\* updated and the new belief is announced on every designated port.
Accept(p) ==
  LET s == Owner(p)
      f == [info EXCEPT ![p] = Head(rxq[p])]
  IN  \E rp \in PortsOf(s) \cup {NoPort} :
        LET root == RootVia(rp, s, f)
            cost == CostVia(rp, f)
            g    == UpdatePorts(s, f, root, cost)
        IN  /\ SelectsRootPort(rp, s, f)
            /\ rootPort' = [rootPort EXCEPT ![s] = rp]
            /\ designatedRoot' = [designatedRoot EXCEPT ![s] = root]
            /\ rootPathCost' = [rootPathCost EXCEPT ![s] = cost]
            /\ info' = g
            /\ helloActive' = HelloAfter(s, root)
            /\ rxq' = SendOn(Rest(p), Senders(s, g, root, rp), root, cost)

\* A designated port answers with its own vector, any other stays silent.
Decline(p) ==
  LET s == Owner(p)
  IN  /\ rxq' = SendOn(Rest(p),
                       {p} \cap Senders(s, info, designatedRoot[s], rootPort[s]),
                       designatedRoot[s], rootPathCost[s])
      /\ UNCHANGED <<designatedRoot, rootPathCost, rootPort, helloActive, info>>

\* Mutated form: whatever arrives is stored.
ReceiveUnchecked(p) == rxq[p] # <<>> /\ Accept(p)

\* stp_handle_config_packet, run by the receive loop.
Receive(p) ==
  /\ rxq[p] # <<>>
  /\ \/ ComparePriority(Head(rxq[p]), info[p]) /\ Accept(p)
     \/ ~ComparePriority(Head(rxq[p]), info[p]) /\ Decline(p)

\* stp_handle_hello_timeout, run by the timer thread; the timer is restarted.
HelloTimeout(s) ==
  /\ helloActive[s]
  /\ rxq' = SendOn(rxq, Senders(s, info, designatedRoot[s], rootPort[s]),
                   designatedRoot[s], rootPathCost[s])
  /\ UNCHANGED <<designatedRoot, rootPathCost, rootPort, helloActive, info>>

\* A frame is lost on the link or in the kernel.
Lose(p) ==
  /\ rxq[p] # <<>>
  /\ rxq' = Rest(p)
  /\ UNCHANGED <<designatedRoot, rootPathCost, rootPort, helloActive, info>>

Next ==
  \/ \E p \in Port : Receive(p)
  \/ \E s \in Switch : HelloTimeout(s)
  \/ \E p \in Port : Lose(p)

Spec == Init /\ [][Next]_vars

-----------------------------------------------------------------------------
(***************************************************************************)
(* Safety.                                                                 *)
(***************************************************************************)

\* Where a vector may be: stored at a port or waiting in a socket.
Vectors == {info[p] : p \in Port}
             \cup UNION {{rxq[p][i] : i \in DOMAIN rxq[p]} : p \in Port}

\* No vector promises a root at a lower cost than the topology can give,
\* however late, often or rarely the config packets arrive: what a switch
\* announces always has a path behind it (stp->root_path_cost is only ever
\* the cost of a stored vector plus the link it came over).
DistanceSound ==
  /\ \A v \in Vectors : v.cost >= Dist[v.root][v.switch]
  /\ \A s \in Switch : rootPathCost[s] >= Dist[designatedRoot[s]][s]

\* A switch is its own root exactly when it has no root port, and otherwise
\* its belief is that of the vector its root port stores: the update of the
\* ports that follows the election never takes the root port itself over.
RootPortSound ==
  \A s \in Switch :
    LET rp == rootPort[s]
    IN  /\ rp = NoPort <=> designatedRoot[s] = s
        /\ rp # NoPort =>
             /\ ~IsDesignated(info, rp)
             /\ designatedRoot[s] = info[rp].root
             /\ rootPathCost[s] = info[rp].cost + PathCost

\* The switches that originate config packets are those that believe to be
\* the root: a switch never falls silent while it is its own root, and one
\* that stopped its timer never has to start it again.
HelloIffRoot == \A s \in Switch : helloActive[s] <=> designatedRoot[s] = s

\* Every link has a designated end at all times, so that a switch that stops
\* announcing on a segment leaves somebody who announces there.
SegmentServed ==
  \A p \in Port : IsDesignated(info, p) \/ IsDesignated(info, Peer[p])

\* A port that is not designated belongs to a segment whose vector beats what
\* its switch could announce there, and a designated port holds exactly what
\* its switch announces: no port blocks on information that has become worse
\* than the switch's own.
RolesFollowVectors ==
  \A p \in Port :
    LET own == Config(designatedRoot[Owner(p)], rootPathCost[Owner(p)], p)
    IN  IF IsDesignated(info, p) THEN info[p] = own
        ELSE ~ComparePriority(own, info[p])

\* Seen from outside, one switch at a time improves its belief to one that
\* the topology supports.
Election == INSTANCE RootElection
  WITH belief <- [s \in Switch |->
                    [root |-> designatedRoot[s], cost |-> rootPathCost[s]]]

\* Every handler of stp.c is a step of the election or leaves beliefs alone.
ElectionSpec == Election!Spec

-----------------------------------------------------------------------------
(***************************************************************************)
(* The inductive strengthening of the safety properties, for networks no   *)
(* cable of which has both ends in one switch.                             *)
(***************************************************************************)
LoopFree == \A p \in Port : Owner(p) # Owner(Peer[p])

\* Vector m, found at port h, can have been sent by the other end when that
\* end's switch believes in root at that cost: it names its sender, has a path
\* behind it, and is no better than what the sender would announce now.
CredibleFrom(root, cost, h, m) ==
  /\ m.switch = Owner(Peer[h])
  /\ m.port = PortId(Peer[h])
  /\ m.cost >= Dist[m.root][m.switch]
  /\ ComparePriority(Config(root, cost, Peer[h]), m)

Credible(h, m) ==
  CredibleFrom(designatedRoot[Owner(Peer[h])], rootPathCost[Owner(Peer[h])], h, m)

MessagesCredible ==
  \A h \in Port : \A i \in DOMAIN rxq[h] : Credible(h, rxq[h][i])

StoredCredible ==
  \A h \in Port : ~IsDesignated(info, h) => Credible(h, info[h])

BeliefSupported ==
  \A s \in Switch : rootPathCost[s] >= Dist[designatedRoot[s]][s]

\* A switch without a root port has never accepted anything; any other one
\* believes in a better root than itself.
RootPortOrUntouched ==
  \A s \in Switch :
    IF rootPort[s] = NoPort
    THEN rootPathCost[s] = 0 /\ \A p \in PortsOf(s) : IsDesignated(info, p)
    ELSE designatedRoot[s] < s

\* What is proved to be inductive: every safety property above follows from
\* it.  It relates what is stored or on its way to the sender's belief now,
\* which is why a late config packet can do no harm.
Inductive ==
  /\ TypeOK
  /\ MessagesCredible
  /\ StoredCredible
  /\ RolesFollowVectors
  /\ BeliefSupported
  /\ RootPortSound
  /\ RootPortOrUntouched
  /\ HelloIffRoot

-----------------------------------------------------------------------------
(***************************************************************************)
(* Liveness, for a connected network whose Dist is the hop distance.       *)
(***************************************************************************)
Best == CHOOSE s \in Switch : \A t \in Switch : s <= t

\* Frames pass a link both of whose ends forward.
ActivePorts == {p \in Port : Enabled(p) /\ Enabled(Peer[p])}

\* All switches agree on the best root, at their true distance, and the
\* links that carry frames are those of the root ports, each of which leads
\* one hop closer to the root: a spanning tree.
Converged ==
  /\ \A s \in Switch : designatedRoot[s] = Best /\ rootPathCost[s] = Dist[Best][s]
  /\ \A s \in Switch \ {Best} :
       rootPathCost[Owner(Peer[rootPort[s]])] + 1 = rootPathCost[s]
  /\ LET rootPorts == {rootPort[s] : s \in Switch \ {Best}}
     IN  ActivePorts = rootPorts \cup {Peer[p] : p \in rootPorts}

=============================================================================
