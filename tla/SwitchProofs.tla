---------------------------- MODULE SwitchProofs ----------------------------
(***************************************************************************)
(* Proofs about the two kinds of switches.  The spanning tree (Stp,        *)
(* StpCrash): for every network, queue capacity and distance function that *)
(* satisfy the assumptions of Stp.  The learning switch (MacTable), last:  *)
(* for every set of interfaces and stations and every ageing time.         *)
(***************************************************************************)
EXTENDS StpCrash, MacTable, TLAPS, SequenceTheorems

(***************************************************************************)
(* Ports and vectors.                                                      *)
(***************************************************************************)

\* Every port has an owner, a number and a port at the other end of its link.
LEMMA PortFacts ==
  ASSUME NEW p \in Port
  PROVE  /\ Owner(p) \in Switch /\ Owner(p) \in Nat
         /\ PortId(p) \in Nat \ {0}
         /\ p \in PortsOf(Owner(p))
         /\ Peer[p] \in Port /\ Peer[p] # p /\ Peer[Peer[p]] = p
         /\ p # NoPort
BY NetworkAssumption DEF Owner, PortId, PortsOf

\* Two ports of one switch with the same number are the same port.
LEMMA PortIdentity ==
  ASSUME NEW p \in Port, NEW q \in Port, Owner(p) = Owner(q), PortId(p) = PortId(q)
  PROVE  p = q
BY NetworkAssumption DEF Owner, PortId

\* What a port announces is a vector.
LEMMA ConfigIsVector ==
  ASSUME NEW p \in Port, NEW root \in Switch, NEW cost \in Nat
  PROVE  Config(root, cost, p) \in Vector
BY PortFacts DEF Config, Vector

\* The fields of a vector have the types their comparison needs.
LEMMA VectorFields ==
  ASSUME NEW v \in Vector
  PROVE  /\ v.root \in Switch /\ v.root \in Nat
         /\ v.cost \in Nat
         /\ v.switch \in Switch /\ v.switch \in Nat
         /\ v.port \in Nat
BY NetworkAssumption DEF Vector

\* stp_port_compare_priority is a total preorder on vectors.
LEMMA PriorityTotal ==
  ASSUME NEW a \in Vector, NEW b \in Vector
  PROVE  ComparePriority(a, b) \/ ComparePriority(b, a)
BY VectorFields DEF ComparePriority

LEMMA PriorityTransitive ==
  ASSUME NEW a \in Vector, NEW b \in Vector, NEW c \in Vector,
         ComparePriority(a, b), ComparePriority(b, c)
  PROVE  ComparePriority(a, c)
BY VectorFields DEF ComparePriority

\* A link adds at most one to a distance.
LEMMA DistanceStep ==
  ASSUME NEW r \in Switch, NEW p \in Port
  PROVE  /\ Dist[r][Owner(p)] <= Dist[r][Owner(Peer[p])] + 1
         /\ Dist[r][Owner(p)] \in Nat /\ Dist[r][Owner(Peer[p])] \in Nat
<1>1. Dist[r][Owner(p)] <= Dist[r][Owner(Peer[p])] + 1
  BY DistAssumption DEF Owner
<1>2. Owner(p) \in Switch /\ Owner(Peer[p]) \in Switch
  BY PortFacts
<1>3. Dist[r] \in [Switch -> Nat]
  BY DistAssumption
<1> QED BY <1>1, <1>2, <1>3

(***************************************************************************)
(* Queues.                                                                 *)
(***************************************************************************)
Queues == {Q \in [Port -> Seq(Vector)] : \A h \in Port : Len(Q[h]) <= QueueCap}

\* What is in a queue after a switch has sent was there before or is what
\* the other end has just announced; no queue exceeds its capacity.
LEMMA SendOnProperties ==
  ASSUME NEW Q \in Queues, NEW ports, ports \subseteq Port,
         NEW root \in Switch, NEW cost \in Nat
  PROVE  /\ SendOn(Q, ports, root, cost) \in Queues
         /\ \A h \in Port : \A i \in DOMAIN SendOn(Q, ports, root, cost)[h] :
              \/ /\ i \in DOMAIN Q[h]
                 /\ SendOn(Q, ports, root, cost)[h][i] = Q[h][i]
              \/ /\ Peer[h] \in ports
                 /\ SendOn(Q, ports, root, cost)[h][i]
                      = Config(root, cost, Peer[h])
<1> DEFINE R == SendOn(Q, ports, root, cost)
<1>1. ASSUME NEW h \in Port
      PROVE  /\ R[h] \in Seq(Vector) /\ Len(R[h]) <= QueueCap
             /\ \A i \in DOMAIN R[h] :
                  \/ i \in DOMAIN Q[h] /\ R[h][i] = Q[h][i]
                  \/ Peer[h] \in ports /\ R[h][i] = Config(root, cost, Peer[h])
  <2>1. Q[h] \in Seq(Vector) /\ Len(Q[h]) \in Nat /\ Len(Q[h]) <= QueueCap
    BY LenProperties DEF Queues
  <2>2. CASE Peer[h] \in ports /\ Len(Q[h]) < QueueCap
    <3> DEFINE m == Config(root, cost, Peer[h])
    <3>1. m \in Vector
      BY PortFacts, ConfigIsVector
    <3>2. R[h] = Append(Q[h], m)
      BY <2>2 DEF SendOn
    <3>3. QueueCap \in Nat
      BY NetworkAssumption
    <3> HIDE DEF m, R
    <3>4. /\ R[h] \in Seq(Vector) /\ Len(R[h]) = Len(Q[h]) + 1
          /\ \A i \in 1..Len(Q[h]) : R[h][i] = Q[h][i]
          /\ R[h][Len(Q[h]) + 1] = m
      BY <2>1, <3>1, <3>2, AppendProperties
    <3>5. Len(R[h]) <= QueueCap
      BY <2>1, <2>2, <3>3, <3>4
    <3>6. DOMAIN R[h] = 1..(Len(Q[h]) + 1) /\ DOMAIN Q[h] = 1..Len(Q[h])
      BY <2>1, <3>4, LenProperties
    <3>7. \A i \in DOMAIN R[h] : i \in DOMAIN Q[h] \/ i = Len(Q[h]) + 1
      BY <2>1, <3>6
    <3> QED BY <2>2, <3>4, <3>5, <3>6, <3>7 DEF m
  <2>3. CASE ~(Peer[h] \in ports /\ Len(Q[h]) < QueueCap)
    <3>1. R[h] = Q[h]
      BY <2>3 DEF SendOn
    <3> QED BY <2>1, <3>1
  <2> QED BY <2>2, <2>3
<1>2. R = [h \in Port |-> R[h]]
  BY DEF SendOn
<1> HIDE DEF R
<1>3. R \in Queues
  BY <1>1, <1>2 DEF Queues
<1> QED BY <1>1, <1>3 DEF R

\* The vector a receive handler looks at, and the queues it leaves behind.
LEMMA RestProperties ==
  ASSUME rxq \in Queues, NEW p \in Port, rxq[p] # <<>>
  PROVE  /\ Head(rxq[p]) \in Vector
         /\ 1 \in DOMAIN rxq[p] /\ Head(rxq[p]) = rxq[p][1]
         /\ Rest(p) \in Queues
         /\ \A h \in Port : \A i \in DOMAIN Rest(p)[h] :
              \E j \in DOMAIN rxq[h] : Rest(p)[h][i] = rxq[h][j]
<1>1. rxq[p] \in Seq(Vector)
  BY DEF Queues
<1>2. /\ Head(rxq[p]) \in Vector /\ Head(rxq[p]) = rxq[p][1]
      /\ Tail(rxq[p]) \in Seq(Vector)
      /\ Len(Tail(rxq[p])) = Len(rxq[p]) - 1
      /\ \A i \in 1..Len(Tail(rxq[p])) : Tail(rxq[p])[i] = rxq[p][i + 1]
  BY <1>1, HeadTailProperties
<1>3. /\ Len(rxq[p]) \in Nat \ {0}
      /\ DOMAIN rxq[p] = 1..Len(rxq[p])
      /\ DOMAIN Tail(rxq[p]) = 1..Len(Tail(rxq[p]))
  BY <1>1, <1>2, LenProperties, EmptySeq
<1>4. Len(Tail(rxq[p])) <= QueueCap
  BY <1>2, <1>3, NetworkAssumption DEF Queues
<1>5. Rest(p) \in Queues
  BY <1>2, <1>4 DEF Queues, Rest
<1>6. \A i \in DOMAIN Tail(rxq[p]) :
        i + 1 \in DOMAIN rxq[p] /\ Tail(rxq[p])[i] = rxq[p][i + 1]
  BY <1>2, <1>3
<1>7. \A h \in Port : \A i \in DOMAIN Rest(p)[h] :
        \E j \in DOMAIN rxq[h] : Rest(p)[h][i] = rxq[h][j]
  BY <1>6 DEF Rest, Queues
<1>8. 1 \in DOMAIN rxq[p]
  BY <1>3
<1> QED BY <1>2, <1>5, <1>7, <1>8

(***************************************************************************)
(* The pieces of stp_handle_config_packet.                                 *)
(***************************************************************************)

\* The type invariant, with the queues named.
LEMMA QueuesTyped ==
  ASSUME TypeOK
  PROVE  rxq \in Queues
BY DEF TypeOK, Queues

\* The port update leaves the ports of other switches alone and gives a port
\* of s either what it had or what s announces there.
LEMMA UpdatePortsProperties ==
  ASSUME NEW s \in Switch, NEW f \in [Port -> Vector],
         NEW root \in Switch, NEW cost \in Nat
  PROVE  /\ UpdatePorts(s, f, root, cost) \in [Port -> Vector]
         /\ \A q \in Port :
              \/ UpdatePorts(s, f, root, cost)[q] = f[q]
              \/ /\ Owner(q) = s
                 /\ UpdatePorts(s, f, root, cost)[q] = Config(root, cost, q)
<1>1. \A q \in Port : Config(root, cost, q) \in Vector
  BY ConfigIsVector
<1> QED BY <1>1 DEF UpdatePorts

\* Whatever port is elected, the new belief has the right types.
LEMMA BeliefTyped ==
  ASSUME NEW s \in Switch, NEW f \in [Port -> Vector],
         NEW rp \in PortsOf(s) \cup {NoPort}
  PROVE  RootVia(rp, s, f) \in Switch /\ CostVia(rp, f) \in Nat
<1>1. CASE rp = NoPort
  BY <1>1 DEF RootVia, CostVia
<1>2. CASE rp # NoPort
  <2>1. f[rp] \in Vector
    BY <1>2 DEF PortsOf
  <2> QED BY <1>2, <2>1, VectorFields DEF RootVia, CostVia, PathCost
<1> QED BY <1>1, <1>2

\* Only ports of s announce.
LEMMA SendersArePorts ==
  ASSUME NEW s, NEW f, NEW root, NEW rp
  PROVE  Senders(s, f, root, rp) \subseteq PortsOf(s)
BY DEF Senders

(***************************************************************************)
(* Type correctness.                                                       *)
(***************************************************************************)
LEMMA TypeInit == Init => TypeOK
<1> SUFFICES ASSUME Init PROVE TypeOK
  OBVIOUS
<1>1. info \in [Port -> Vector]
  BY PortFacts, ConfigIsVector DEF Init
<1>2. rxq \in [Port -> Seq(Vector)] /\ \A p \in Port : Len(rxq[p]) = 0
  BY EmptySeq DEF Init
<1>3. \A p \in Port : Len(rxq[p]) <= QueueCap
  BY <1>2, NetworkAssumption
<1> QED BY <1>1, <1>2, <1>3 DEF Init, TypeOK

LEMMA TypeAccept ==
  ASSUME TypeOK, NEW p \in Port, rxq[p] # <<>>, Accept(p)
  PROVE  TypeOK'
<1> DEFINE s == Owner(p)
           f == [info EXCEPT ![p] = Head(rxq[p])]
<1>1. s \in Switch /\ rxq \in Queues
  BY PortFacts, QueuesTyped
<1>2. f \in [Port -> Vector]
  BY <1>1, RestProperties DEF TypeOK
<1>3. PICK rp \in PortsOf(s) \cup {NoPort} :
        LET root == RootVia(rp, s, f)
            cost == CostVia(rp, f)
            g    == UpdatePorts(s, f, root, cost)
        IN  /\ rootPort' = [rootPort EXCEPT ![s] = rp]
            /\ designatedRoot' = [designatedRoot EXCEPT ![s] = root]
            /\ rootPathCost' = [rootPathCost EXCEPT ![s] = cost]
            /\ info' = g
            /\ helloActive' = HelloAfter(s, root)
            /\ rxq' = SendOn(Rest(p), Senders(s, g, root, rp), root, cost)
  BY DEF Accept
<1> DEFINE root == RootVia(rp, s, f)
           cost == CostVia(rp, f)
           g    == UpdatePorts(s, f, root, cost)
<1> HIDE DEF s, f
<1>4. root \in Switch /\ cost \in Nat
  BY <1>1, <1>2, BeliefTyped
<1> HIDE DEF root, cost
<1>5. g \in [Port -> Vector]
  BY <1>1, <1>2, <1>4, UpdatePortsProperties
<1>6. Senders(s, g, root, rp) \subseteq Port
  BY SendersArePorts DEF PortsOf
<1>7. rxq' = SendOn(Rest(p), Senders(s, g, root, rp), root, cost)
  BY <1>3 DEF root, cost, g
<1>8. rxq' \in Queues
  BY <1>1, <1>4, <1>6, <1>7, RestProperties, SendOnProperties
<1>9. info' \in [Port -> Vector]
  BY <1>3, <1>5 DEF root, cost, g
<1>10. /\ designatedRoot' \in [Switch -> Switch]
       /\ rootPathCost' \in [Switch -> Nat]
       /\ rootPort' \in [Switch -> Port \cup {NoPort}]
       /\ \A t \in Switch : rootPort'[t] \in PortsOf(t) \cup {NoPort}
       /\ helloActive' \in [Switch -> BOOLEAN]
  <2>1. designatedRoot' \in [Switch -> Switch] /\ rootPathCost' \in [Switch -> Nat]
    BY <1>3, <1>4 DEF TypeOK, root, cost
  <2>2. /\ rootPort' \in [Switch -> Port \cup {NoPort}]
        /\ \A t \in Switch : rootPort'[t] \in PortsOf(t) \cup {NoPort}
    BY <1>1, <1>3 DEF TypeOK, PortsOf
  <2>3. helloActive' \in [Switch -> BOOLEAN]
    <3>1. helloActive' = HelloAfter(s, root)
      BY <1>3 DEF root
    <3> QED BY <3>1 DEF HelloAfter, TypeOK
  <2> QED BY <2>1, <2>2, <2>3
<1> QED BY <1>8, <1>9, <1>10 DEF TypeOK, Queues

\* A handler that only sends keeps the types.
LEMMA TypeSend ==
  ASSUME TypeOK, NEW s \in Switch, NEW Q \in Queues,
         NEW ports, ports \subseteq Port,
         rxq' = SendOn(Q, ports, designatedRoot[s], rootPathCost[s]),
         UNCHANGED <<designatedRoot, rootPathCost, rootPort, helloActive, info>>
  PROVE  TypeOK'
<1>1. designatedRoot[s] \in Switch /\ rootPathCost[s] \in Nat
  BY DEF TypeOK
<1>2. rxq' \in Queues
  BY <1>1, SendOnProperties
<1> QED BY <1>2 DEF TypeOK, Queues, PortsOf

LEMMA TypeStep == TypeOK /\ [Next]_vars => TypeOK'
<1> SUFFICES ASSUME TypeOK, [Next]_vars PROVE TypeOK'
  OBVIOUS
<1>1. rxq \in Queues
  BY QueuesTyped
<1>2. ASSUME NEW p \in Port, Receive(p) PROVE TypeOK'
  <2>1. rxq[p] # <<>>
    BY <1>2 DEF Receive
  <2>2. CASE Accept(p)
    BY <2>1, <2>2, TypeAccept
  <2>3. CASE Decline(p)
    <3> DEFINE s == Owner(p)
               ports == {p} \cap Senders(s, info, designatedRoot[s], rootPort[s])
    <3>1. Rest(p) \in Queues /\ s \in Switch /\ ports \subseteq Port
      BY <1>1, <2>1, RestProperties, PortFacts
    <3>2. /\ rxq' = SendOn(Rest(p), ports, designatedRoot[s], rootPathCost[s])
          /\ UNCHANGED <<designatedRoot, rootPathCost, rootPort, helloActive, info>>
      BY <2>3 DEF Decline
    <3> HIDE DEF s, ports
    <3> QED BY <3>1, <3>2, TypeSend
  <2> QED BY <1>2, <2>2, <2>3 DEF Receive
<1>3. ASSUME NEW s \in Switch, HelloTimeout(s) PROVE TypeOK'
  <2> DEFINE ports == Senders(s, info, designatedRoot[s], rootPort[s])
  <2>1. ports \subseteq Port
    BY SendersArePorts DEF PortsOf
  <2>2. /\ rxq' = SendOn(rxq, ports, designatedRoot[s], rootPathCost[s])
        /\ UNCHANGED <<designatedRoot, rootPathCost, rootPort, helloActive, info>>
    BY <1>3 DEF HelloTimeout
  <2> HIDE DEF ports
  <2> QED BY <1>1, <2>1, <2>2, TypeSend
<1>4. ASSUME NEW p \in Port, Lose(p) PROVE TypeOK'
  <2>1. rxq' \in Queues
    BY <1>1, <1>4, RestProperties DEF Lose
  <2> QED BY <1>4, <2>1 DEF Lose, TypeOK, Queues, PortsOf
<1>5. CASE UNCHANGED vars
  BY <1>5 DEF vars, TypeOK, PortsOf
<1> QED BY <1>2, <1>3, <1>4, <1>5 DEF Next

\* Every switch, port and socket keeps to its type, and no socket ever holds
\* more than it buffers, in any network.
THEOREM TypeCorrect == Spec => []TypeOK
BY TypeInit, TypeStep, PTL DEF Spec

(***************************************************************************)
(* The path behind a vector.  It exists whatever the sender believes now,  *)
(* and looped cables do not matter.                                        *)
(***************************************************************************)
HasPath(v) == v.cost >= Dist[v.root][v.switch]

MessageSound(h, v) == HasPath(v) /\ v.switch = Owner(Peer[h])

StoredSound(p, v) ==
  /\ HasPath(v)
  /\ v.switch = Owner(Peer[p]) \/ (v.switch = Owner(p) /\ v.port = PortId(p))

PathInv ==
  /\ TypeOK
  /\ \A s \in Switch : rootPathCost[s] >= Dist[designatedRoot[s]][s]
  /\ \A p \in Port : StoredSound(p, info[p])
  /\ \A h \in Port : \A i \in DOMAIN rxq[h] : MessageSound(h, rxq[h][i])

\* What a switch announces, it has a path for, if it has one for its belief.
LEMMA ConfigSound ==
  ASSUME NEW h \in Port, NEW root, NEW cost, cost >= Dist[root][Owner(h)]
  PROVE  /\ StoredSound(h, Config(root, cost, h))
         /\ MessageSound(Peer[h], Config(root, cost, h))
<1>1. Peer[h] \in Port /\ Peer[Peer[h]] = h
  BY PortFacts
<1> QED BY <1>1 DEF StoredSound, MessageSound, HasPath, Config

\* Sending adds nothing else to the sockets.
LEMMA SendSound ==
  ASSUME NEW Q \in Queues, \A h \in Port : \A i \in DOMAIN Q[h] : MessageSound(h, Q[h][i]),
         NEW s \in Switch, NEW ports \in SUBSET PortsOf(s),
         NEW root \in Switch, NEW cost \in Nat, cost >= Dist[root][s]
  PROVE  \A h \in Port : \A i \in DOMAIN SendOn(Q, ports, root, cost)[h] :
           MessageSound(h, SendOn(Q, ports, root, cost)[h][i])
<1> DEFINE R == SendOn(Q, ports, root, cost)
<1>1. ports \subseteq Port
  BY DEF PortsOf
<1>2. \A h \in Port : \A i \in DOMAIN R[h] :
        \/ i \in DOMAIN Q[h] /\ R[h][i] = Q[h][i]
        \/ Peer[h] \in ports /\ R[h][i] = Config(root, cost, Peer[h])
  BY <1>1, SendOnProperties
<1> HIDE DEF R
<1>3. \A h \in Port : Peer[h] \in ports => MessageSound(h, Config(root, cost, Peer[h]))
  <2> SUFFICES ASSUME NEW h \in Port, Peer[h] \in ports
               PROVE  MessageSound(h, Config(root, cost, Peer[h]))
    OBVIOUS
  <2>1. Peer[h] \in Port /\ Peer[Peer[h]] = h /\ Owner(Peer[h]) = s
    BY PortFacts DEF PortsOf
  <2>2. MessageSound(Peer[Peer[h]], Config(root, cost, Peer[h]))
    BY <2>1, ConfigSound
  <2> QED BY <2>1, <2>2
<1>4. \A h \in Port : \A i \in DOMAIN R[h] : MessageSound(h, R[h][i])
  BY <1>2, <1>3
<1> QED BY <1>4 DEF R

LEMMA RestSound ==
  ASSUME PathInv, NEW p \in Port, rxq[p] # <<>>
  PROVE  /\ Rest(p) \in Queues
         /\ \A h \in Port : \A i \in DOMAIN Rest(p)[h] : MessageSound(h, Rest(p)[h][i])
         /\ Head(rxq[p]) \in Vector /\ MessageSound(p, Head(rxq[p]))
BY QueuesTyped, RestProperties DEF PathInv

\* A handler that only sends.
LEMMA SendKeepsPaths ==
  ASSUME PathInv, NEW s \in Switch, NEW Q \in Queues,
         \A h \in Port : \A i \in DOMAIN Q[h] : MessageSound(h, Q[h][i]),
         NEW ports \in SUBSET PortsOf(s),
         rxq' = SendOn(Q, ports, designatedRoot[s], rootPathCost[s]),
         UNCHANGED <<designatedRoot, rootPathCost, rootPort, helloActive, info>>
  PROVE  PathInv'
<1>1. /\ designatedRoot[s] \in Switch /\ rootPathCost[s] \in Nat
      /\ rootPathCost[s] >= Dist[designatedRoot[s]][s]
      /\ ports \subseteq Port
  BY DEF PathInv, TypeOK, PortsOf
<1>2. \A h \in Port : \A i \in DOMAIN rxq'[h] : MessageSound(h, rxq'[h][i])
  BY <1>1, SendSound
<1>3. TypeOK'
  BY <1>1, TypeSend DEF PathInv
<1> QED BY <1>2, <1>3 DEF PathInv

\* stp_handle_config_packet, whatever it elects.
LEMMA AcceptKeepsPaths ==
  ASSUME PathInv, NEW p \in Port, rxq[p] # <<>>, Accept(p)
  PROVE  PathInv'
<1> DEFINE s == Owner(p)
           f == [info EXCEPT ![p] = Head(rxq[p])]
<1>1. PICK rp \in PortsOf(s) \cup {NoPort} :
        LET root == RootVia(rp, s, f)
            cost == CostVia(rp, f)
            g    == UpdatePorts(s, f, root, cost)
        IN  /\ SelectsRootPort(rp, s, f)
            /\ designatedRoot' = [designatedRoot EXCEPT ![s] = root]
            /\ rootPathCost' = [rootPathCost EXCEPT ![s] = cost]
            /\ info' = g
            /\ rxq' = SendOn(Rest(p), Senders(s, g, root, rp), root, cost)
  BY DEF Accept
<1> DEFINE root == RootVia(rp, s, f)
           cost == CostVia(rp, f)
           g    == UpdatePorts(s, f, root, cost)
<1>2. s \in Switch /\ TypeOK /\ TypeOK'
  BY PortFacts, TypeAccept DEF PathInv
<1>3. /\ f \in [Port -> Vector]
      /\ \A q \in Port : StoredSound(q, f[q])
  <2>1. info \in [Port -> Vector] /\ \A q \in Port : StoredSound(q, info[q])
    BY DEF PathInv, TypeOK
  <2>2. Head(rxq[p]) \in Vector /\ StoredSound(p, Head(rxq[p]))
    BY RestSound DEF MessageSound, StoredSound
  <2> QED BY <2>1, <2>2
<1> HIDE DEF s, f
<1>4. SelectsRootPort(rp, s, f)
  BY <1>1
<1>5. root \in Switch /\ cost \in Nat
  BY <1>2, <1>3, BeliefTyped
<1>6. cost >= Dist[root][s]
  <2>1. CASE rp = NoPort
    <3>1. root = s /\ cost = 0
      BY <2>1 DEF RootVia, CostVia
    <3>2. Dist[s][s] = 0
      BY <1>2, DistAssumption
    <3> QED BY <3>1, <3>2
  <2>2. CASE rp # NoPort
    <3>1. rp \in Port /\ Owner(rp) = s /\ ~IsDesignated(f, rp)
      BY <1>4, <2>2 DEF SelectsRootPort, PortsOf
    <3>2. root = f[rp].root /\ cost = f[rp].cost + 1
      BY <2>2 DEF RootVia, CostVia, PathCost
    <3>3. f[rp].switch = Owner(Peer[rp]) /\ f[rp].cost >= Dist[f[rp].root][f[rp].switch]
      BY <1>3, <3>1 DEF StoredSound, HasPath, IsDesignated
    <3>4. /\ Dist[root][Owner(rp)] <= Dist[root][Owner(Peer[rp])] + 1
          /\ Dist[root][Owner(rp)] \in Nat /\ Dist[root][Owner(Peer[rp])] \in Nat
      BY <1>5, <3>1, DistanceStep
    <3>5. f[rp].cost \in Nat
      BY <1>3, <3>1, VectorFields
    <3> HIDE DEF root, cost
    <3> QED BY <3>1, <3>2, <3>3, <3>4, <3>5
  <2> QED BY <2>1, <2>2
<1>7. /\ designatedRoot' = [designatedRoot EXCEPT ![s] = root]
      /\ rootPathCost' = [rootPathCost EXCEPT ![s] = cost]
      /\ info' = g
      /\ rxq' = SendOn(Rest(p), Senders(s, g, root, rp), root, cost)
  BY <1>1
<1>8. \A q \in Port : g[q] = f[q] \/ (Owner(q) = s /\ g[q] = Config(root, cost, q))
  BY <1>2, <1>3, <1>5, UpdatePortsProperties
<1>9. Senders(s, g, root, rp) \in SUBSET PortsOf(s)
  BY SendersArePorts
<1> HIDE DEF root, cost, g
<1>10. \A t \in Switch : rootPathCost'[t] >= Dist[designatedRoot'[t]][t]
  <2>1. /\ designatedRoot \in [Switch -> Switch] /\ rootPathCost \in [Switch -> Nat]
        /\ \A t \in Switch : rootPathCost[t] >= Dist[designatedRoot[t]][t]
    BY DEF PathInv, TypeOK
  <2>2. \A t \in Switch : /\ designatedRoot'[t] = IF t = s THEN root ELSE designatedRoot[t]
                          /\ rootPathCost'[t] = IF t = s THEN cost ELSE rootPathCost[t]
    BY <1>7, <2>1
  <2> QED BY <1>6, <2>1, <2>2
<1>11. \A q \in Port : StoredSound(q, info'[q])
  <2>1. \A q \in Port : Owner(q) = s => StoredSound(q, Config(root, cost, q))
    BY <1>6, ConfigSound
  <2> QED BY <1>3, <1>7, <1>8, <2>1
<1>12. \A h \in Port : \A i \in DOMAIN rxq'[h] : MessageSound(h, rxq'[h][i])
  BY <1>2, <1>5, <1>6, <1>7, <1>9, RestSound, SendSound
<1> QED BY <1>2, <1>10, <1>11, <1>12 DEF PathInv

(***************************************************************************)
(* Each switch by itself: what it believes, and what its ports store.      *)
(***************************************************************************)
NotWorse(root, cost, oldRoot, oldCost) ==
  root < oldRoot \/ (root = oldRoot /\ cost <= oldCost)

LocalInv ==
  PathInv /\ RolesFollowVectors /\ RootPortSound /\ RootPortOrUntouched /\ HelloIffRoot

\* The ports' information with the vector waiting at p stored.
Stored(p) == [info EXCEPT ![p] = Head(rxq[p])]

\* Storing what was received leaves vectors with a path behind them at the
\* ports, from the other end where a port is not designated, and the receiving
\* port is one of these.
LEMMA StoredAfterReceive ==
  ASSUME LoopFree, PathInv, NEW p \in Port, rxq[p] # <<>>
  PROVE  /\ Stored(p) \in [Port -> Vector]
         /\ ~IsDesignated(Stored(p), p)
         /\ \A q \in Port : HasPath(Stored(p)[q])
         /\ \A q \in Port : ~IsDesignated(Stored(p), q) => Stored(p)[q].switch = Owner(Peer[q])
         /\ \A q \in Port : q # p => Stored(p)[q] = info[q]
         /\ Stored(p)[p] = Head(rxq[p])
<1> DEFINE f == Stored(p)
<1>1. rxq \in Queues /\ info \in [Port -> Vector]
  BY QueuesTyped DEF PathInv, TypeOK
<1>2. Head(rxq[p]) \in Vector /\ MessageSound(p, Head(rxq[p]))
  BY RestSound
<1>3. /\ f \in [Port -> Vector] /\ f[p] = Head(rxq[p])
      /\ \A q \in Port : q # p => f[q] = info[q]
  BY <1>1, <1>2 DEF Stored
<1> HIDE DEF f
<1>4. HasPath(f[p]) /\ f[p].switch = Owner(Peer[p])
  BY <1>2, <1>3 DEF MessageSound
<1>5. ~IsDesignated(f, p)
  BY <1>4 DEF IsDesignated, LoopFree
<1>6. ASSUME NEW q \in Port, q # p
      PROVE  HasPath(f[q]) /\ (~IsDesignated(f, q) => f[q].switch = Owner(Peer[q]))
  <2>1. f[q] = info[q] /\ StoredSound(q, info[q])
    BY <1>3, <1>6 DEF PathInv
  <2> QED BY <2>1 DEF StoredSound, IsDesignated
<1> QED BY <1>3, <1>4, <1>5, <1>6 DEF f

\* The new belief is supported, believes in a better root than the switch
\* itself, and is not worse than the old one.
LEMMA BeliefImproves ==
  ASSUME LoopFree, LocalInv, NEW p \in Port, rxq[p] # <<>>,
         ComparePriority(Head(rxq[p]), info[p]),
         NEW rp \in PortsOf(Owner(p)) \cup {NoPort},
         SelectsRootPort(rp, Owner(p), Stored(p))
  PROVE  LET s == Owner(p)
             f == Stored(p)
         IN  /\ rp \in Port /\ Owner(rp) = s /\ ~IsDesignated(f, rp)
             /\ f[rp] \in Vector
             /\ RootVia(rp, s, f) = f[rp].root
             /\ CostVia(rp, f) = f[rp].cost + 1
             /\ CostVia(rp, f) >= Dist[RootVia(rp, s, f)][s]
             /\ RootVia(rp, s, f) < s
             /\ NotWorse(RootVia(rp, s, f), CostVia(rp, f),
                         designatedRoot[s], rootPathCost[s])
<1> DEFINE s == Owner(p)
           f == Stored(p)
<1>0. rp \in PortsOf(s) \cup {NoPort} /\ SelectsRootPort(rp, s, f)
  OBVIOUS
<1>1. /\ f \in [Port -> Vector] /\ info \in [Port -> Vector]
      /\ ~IsDesignated(f, p)
      /\ \A q \in Port : HasPath(f[q])
      /\ \A q \in Port : ~IsDesignated(f, q) => f[q].switch = Owner(Peer[q])
      /\ \A q \in Port : q # p => f[q] = info[q]
      /\ f[p] = Head(rxq[p])
  BY StoredAfterReceive DEF LocalInv, PathInv, TypeOK
<1>2. /\ s \in Switch /\ s \in Nat /\ p \in PortsOf(s)
      /\ designatedRoot[s] \in Switch /\ designatedRoot[s] \in Nat
      /\ rootPathCost[s] \in Nat
  BY PortFacts, NetworkAssumption DEF LocalInv, PathInv, TypeOK
<1> HIDE DEF s, f
<1>3. /\ rp \in PortsOf(s) /\ ~IsDesignated(f, rp)
      /\ \A q \in PortsOf(s) : ~IsDesignated(f, q) => ComparePriority(f[rp], f[q])
  BY <1>0, <1>1, <1>2 DEF SelectsRootPort
<1>4. rp \in Port /\ Owner(rp) = s /\ rp # NoPort /\ f[rp] \in Vector
  BY <1>1, <1>3, NetworkAssumption DEF PortsOf
<1>5. /\ f[rp].root \in Switch /\ f[rp].root \in Nat /\ f[rp].cost \in Nat
      /\ f[p] \in Vector
  BY <1>1, <1>4, VectorFields
<1>6. RootVia(rp, s, f) = f[rp].root /\ CostVia(rp, f) = f[rp].cost + 1
  BY <1>4 DEF RootVia, CostVia, PathCost
<1>7. f[rp].cost + 1 >= Dist[f[rp].root][s]
  <2>1. f[rp].switch = Owner(Peer[rp]) /\ f[rp].cost >= Dist[f[rp].root][f[rp].switch]
    BY <1>1, <1>3, <1>4 DEF HasPath
  <2>2. /\ Dist[f[rp].root][s] <= Dist[f[rp].root][Owner(Peer[rp])] + 1
        /\ Dist[f[rp].root][s] \in Nat /\ Dist[f[rp].root][Owner(Peer[rp])] \in Nat
    BY <1>4, <1>5, DistanceStep
  <2> QED BY <1>5, <2>1, <2>2
<1>8. ComparePriority(f[rp], f[p])
  BY <1>1, <1>2, <1>3
<1>9. /\ f[rp].root < s
      /\ NotWorse(f[rp].root, f[rp].cost + 1, designatedRoot[s], rootPathCost[s])
  <2>1. CASE rootPort[s] = NoPort
    <3>1. /\ rootPathCost[s] = 0 /\ designatedRoot[s] = s /\ IsDesignated(info, p)
      BY <1>2, <2>1 DEF LocalInv, RootPortOrUntouched, RootPortSound
    <3>2. info[p] = Config(s, 0, p)
      BY <1>2, <3>1 DEF LocalInv, RolesFollowVectors, s
    <3>3. ComparePriority(f[p], Config(s, 0, p))
      BY <1>1, <3>2
    <3>4. /\ f[p].switch = Owner(Peer[p]) /\ f[p].switch # s
          /\ f[p].cost >= Dist[f[p].root][f[p].switch]
      BY <1>1 DEF HasPath, LoopFree, s
    <3>5. f[p].root = s => f[p].cost > 0
      <4>1. Dist[f[p].root][f[p].switch] \in Nat
        BY <1>5, VectorFields, DistAssumption
      <4>2. f[p].root = s => Dist[f[p].root][f[p].switch] # 0
        BY <1>2, <1>5, <3>4, VectorFields, DistAssumption
      <4> QED BY <1>5, <3>4, <4>1, <4>2, VectorFields
    <3>6. f[p].root < s
      BY <1>2, <1>5, <3>3, <3>5, VectorFields DEF ComparePriority, Config
    <3>7. f[rp].root <= f[p].root
      BY <1>4, <1>5, <1>8, VectorFields DEF ComparePriority
    <3>8. f[rp].root < s
      BY <1>2, <1>5, <3>6, <3>7, VectorFields
    <3> QED BY <3>1, <3>8 DEF NotWorse
  <2>2. CASE rootPort[s] # NoPort
    <3> DEFINE o == rootPort[s]
    <3>1. /\ o \in PortsOf(s) /\ o \in Port
          /\ ~IsDesignated(info, o)
          /\ designatedRoot[s] = info[o].root /\ rootPathCost[s] = info[o].cost + 1
          /\ designatedRoot[s] < s
      BY <1>2, <2>2
         DEF LocalInv, PathInv, TypeOK, RootPortSound, RootPortOrUntouched, PathCost, PortsOf
    <3>2. info[o] \in Vector /\ f[o] \in Vector
      BY <1>1, <3>1
    <3> HIDE DEF o
    <3>3. ComparePriority(f[o], info[o])
      BY <1>1, <3>1, <3>2, PriorityTotal
    <3>4. ~IsDesignated(f, o)
      BY <1>1, <3>1 DEF IsDesignated
    <3>5. ComparePriority(f[rp], info[o])
      BY <1>3, <1>4, <3>1, <3>2, <3>3, <3>4, PriorityTransitive
    <3>6. \/ f[rp].root < info[o].root
          \/ f[rp].root = info[o].root /\ f[rp].cost <= info[o].cost
      BY <1>4, <3>2, <3>5, VectorFields DEF ComparePriority
    <3>7. info[o].root \in Nat /\ info[o].cost \in Nat
      BY <3>2, VectorFields
    <3> QED BY <1>2, <1>5, <3>1, <3>6, <3>7 DEF NotWorse
  <2> QED BY <2>1, <2>2
<1> QED BY <1>3, <1>4, <1>6, <1>7, <1>9 DEF s, f

\* What the port update of a better belief leaves at the ports of s: a port is
\* designated and announces the new belief, or keeps a vector that beats it.
\* The root port is of the second kind.
LEMMA PortsAfterUpdate ==
  ASSUME NEW s \in Switch, NEW f \in [Port -> Vector],
         NEW root \in Switch, NEW cost \in Nat,
         NEW g, g = UpdatePorts(s, f, root, cost),
         NEW q \in Port, Owner(q) = s,
         ~IsDesignated(f, q) => f[q].switch # s
  PROVE  IF IsDesignated(g, q)
         THEN g[q] = Config(root, cost, q)
         ELSE /\ ~IsDesignated(f, q) /\ g[q] = f[q]
              /\ ~ComparePriority(Config(root, cost, q), f[q])
<1> DEFINE own  == [root |-> root, cost |-> cost, switch |-> s, port |-> f[q].port]
           held == [f[q] EXCEPT !.port = PortId(q)]
           new  == Config(root, cost, q)
<1>1. /\ f[q] \in Vector /\ PortId(q) \in Nat
      /\ new.switch = s /\ new.port = PortId(q) /\ new.root = root /\ new.cost = cost
  BY PortFacts DEF Config
<1>2. held.root = f[q].root /\ held.cost = f[q].cost /\ held.switch = f[q].switch
  BY <1>1 DEF Vector
<1>3. g[q] = IF IsDesignated(f, q) \/ ComparePriority(own, held) THEN new ELSE f[q]
  BY DEF UpdatePorts
<1>4. /\ own.root = root /\ own.cost = cost /\ own.switch = s
  OBVIOUS
<1> HIDE DEF own, held
<1>5. ~IsDesignated(f, q) => (ComparePriority(own, held) <=> ComparePriority(new, f[q]))
  BY <1>1, <1>2, <1>4 DEF ComparePriority
<1>6. CASE IsDesignated(f, q) \/ ComparePriority(own, held)
  <2>1. g[q] = new
    BY <1>3, <1>6
  <2>2. IsDesignated(g, q)
    BY <1>1, <2>1 DEF IsDesignated
  <2> QED BY <2>1, <2>2
<1>7. CASE ~(IsDesignated(f, q) \/ ComparePriority(own, held))
  <2>1. g[q] = f[q] /\ ~IsDesignated(f, q)
    BY <1>3, <1>7
  <2>2. ~IsDesignated(g, q)
    BY <2>1 DEF IsDesignated
  <2> QED BY <1>5, <1>7, <2>1, <2>2
<1> QED BY <1>6, <1>7

\* What the handler does that stores the vector waiting at p: its switch
\* believes in root at that cost, no worse than before, from the vector its root
\* port rp stores; its ports hold what it announces or a vector that beats it.
Takes(p, rp, root, cost) ==
  LET s == Owner(p)
  IN  /\ root < s /\ cost >= Dist[root][s]
      /\ NotWorse(root, cost, designatedRoot[s], rootPathCost[s])
      /\ designatedRoot' = [designatedRoot EXCEPT ![s] = root]
      /\ rootPathCost' = [rootPathCost EXCEPT ![s] = cost]
      /\ \A t \in Switch :
           /\ designatedRoot'[t] = IF t = s THEN root ELSE designatedRoot[t]
           /\ rootPathCost'[t] = IF t = s THEN cost ELSE rootPathCost[t]
           /\ rootPort'[t] = IF t = s THEN rp ELSE rootPort[t]
           /\ helloActive'[t] = IF t = s THEN FALSE ELSE helloActive[t]
      /\ Owner(rp) = s /\ ~IsDesignated(info', rp)
      /\ root = info'[rp].root /\ cost = info'[rp].cost + PathCost
      /\ \A q \in Port : Owner(q) # s => info'[q] = info[q] /\ Stored(p)[q] = info[q]
      /\ \A q \in Port : Owner(q) = s =>
           IF IsDesignated(info', q)
           THEN info'[q] = Config(root, cost, q)
           ELSE /\ ~IsDesignated(Stored(p), q) /\ info'[q] = Stored(p)[q]
                /\ ~ComparePriority(Config(root, cost, q), info'[q])
      /\ rxq' = SendOn(Rest(p), Senders(s, info', root, rp), root, cost)

LEMMA AcceptTakes ==
  ASSUME LoopFree, LocalInv, NEW p \in Port, rxq[p] # <<>>,
         ComparePriority(Head(rxq[p]), info[p]), Accept(p)
  PROVE  \E rp \in Port, root \in Switch, cost \in Nat : Takes(p, rp, root, cost)
<1> DEFINE s == Owner(p)
           f == Stored(p)
<1>1. PICK rp \in PortsOf(s) \cup {NoPort} :
        LET root == RootVia(rp, s, f)
            cost == CostVia(rp, f)
            g    == UpdatePorts(s, f, root, cost)
        IN  /\ SelectsRootPort(rp, s, f)
            /\ rootPort' = [rootPort EXCEPT ![s] = rp]
            /\ designatedRoot' = [designatedRoot EXCEPT ![s] = root]
            /\ rootPathCost' = [rootPathCost EXCEPT ![s] = cost]
            /\ info' = g
            /\ helloActive' = HelloAfter(s, root)
            /\ rxq' = SendOn(Rest(p), Senders(s, g, root, rp), root, cost)
  BY DEF Accept, Stored
<1> DEFINE root == RootVia(rp, s, f)
           cost == CostVia(rp, f)
           g    == UpdatePorts(s, f, root, cost)
           Q    == Rest(p)
           ports == Senders(s, g, root, rp)
<1>2. /\ rootPort' = [rootPort EXCEPT ![s] = rp]
      /\ designatedRoot' = [designatedRoot EXCEPT ![s] = root]
      /\ rootPathCost' = [rootPathCost EXCEPT ![s] = cost]
      /\ info' = g
      /\ helloActive' = HelloAfter(s, root)
      /\ rxq' = SendOn(Q, ports, root, cost)
      /\ SelectsRootPort(rp, s, f)
  BY <1>1
<1>3. TypeOK /\ TypeOK' /\ PathInv
  BY TypeAccept DEF LocalInv, PathInv
<1>4. s \in Switch /\ s \in Nat /\ rxq \in Queues
  BY <1>3, PortFacts, QueuesTyped
<1>5. /\ f \in [Port -> Vector]
      /\ \A q \in Port : ~IsDesignated(f, q) => f[q].switch = Owner(Peer[q])
      /\ \A q \in Port : q # p => f[q] = info[q]
  BY <1>3, StoredAfterReceive
<1>6. /\ rp \in Port /\ Owner(rp) = s /\ ~IsDesignated(f, rp)
      /\ f[rp] \in Vector
      /\ root = f[rp].root /\ cost = f[rp].cost + 1
      /\ cost >= Dist[root][s]
      /\ root < s
      /\ NotWorse(root, cost, designatedRoot[s], rootPathCost[s])
  BY <1>2, BeliefImproves
<1> HIDE DEF s, f
<1>7. root \in Switch /\ root \in Nat /\ cost \in Nat
  BY <1>6, VectorFields
<1>8. g = UpdatePorts(s, f, root, cost)
  OBVIOUS
<1> HIDE DEF root, cost, g, Q, ports
<1>11. \A q \in Port : Owner(q) # s => f[q] = info[q] /\ g[q] = f[q]
  BY <1>4, <1>5, <1>7, <1>8, UpdatePortsProperties DEF s
<1>12. \A q \in Port : ~IsDesignated(f, q) => f[q].switch # Owner(q)
  BY <1>5 DEF LoopFree
<1>13. ASSUME NEW q \in Port, Owner(q) = s
       PROVE  IF IsDesignated(g, q)
              THEN g[q] = Config(root, cost, q)
              ELSE /\ ~IsDesignated(f, q) /\ g[q] = f[q]
                   /\ ~ComparePriority(Config(root, cost, q), f[q])
  BY <1>4, <1>5, <1>7, <1>8, <1>12, <1>13, PortsAfterUpdate
<1>14. ~IsDesignated(g, rp) /\ g[rp] = f[rp]
  <2>1. ~ComparePriority(f[rp], Config(root, cost, rp)) => FALSE
    BY <1>6, <1>7, VectorFields DEF ComparePriority, Config
  <2>2. ~ComparePriority(Config(root, cost, rp), f[rp])
    BY <1>6, <1>7, VectorFields DEF ComparePriority, Config
  <2>3. f[rp] # Config(root, cost, rp)
    BY <1>6, <1>7 DEF Config, IsDesignated
  <2>4. CASE IsDesignated(g, rp)
    <3>1. g[rp] = Config(root, cost, rp)
      BY <1>6, <1>13, <2>4
    <3> DEFINE own == [root |-> root, cost |-> cost, switch |-> s, port |-> f[rp].port]
               held == [f[rp] EXCEPT !.port = PortId(rp)]
    <3>2. held.root = f[rp].root /\ held.cost = f[rp].cost
      BY <1>6 DEF Vector
    <3>3. own.root = root /\ own.cost = cost
      OBVIOUS
    <3>4. g[rp] = IF IsDesignated(f, rp) \/ ComparePriority(own, held)
                  THEN Config(root, cost, rp) ELSE f[rp]
      BY <1>6, <1>8 DEF UpdatePorts
    <3> HIDE DEF own, held
    <3>5. ~ComparePriority(own, held)
      BY <1>6, <1>7, <3>2, <3>3, VectorFields DEF ComparePriority
    <3> QED BY <1>6, <2>3, <3>1, <3>4, <3>5
  <2> QED BY <1>6, <1>13, <2>4
<1>15. \A t \in Switch :
         /\ designatedRoot'[t] = IF t = s THEN root ELSE designatedRoot[t]
         /\ rootPathCost'[t] = IF t = s THEN cost ELSE rootPathCost[t]
         /\ rootPort'[t] = IF t = s THEN rp ELSE rootPort[t]
         /\ helloActive'[t] = IF t = s THEN FALSE ELSE helloActive[t]
  <2>1. root # s
    BY <1>4, <1>6, <1>7
  <2> QED BY <1>2, <1>3, <2>1 DEF TypeOK, HelloAfter
<1>16. \A q \in Port : Owner(q) = s =>
         IF IsDesignated(info', q)
         THEN info'[q] = Config(root, cost, q)
         ELSE /\ ~IsDesignated(f, q) /\ info'[q] = f[q]
              /\ ~ComparePriority(Config(root, cost, q), info'[q])
  BY <1>2, <1>13 DEF IsDesignated
<1>17. ~IsDesignated(info', rp) /\ root = info'[rp].root /\ cost = info'[rp].cost + PathCost
  BY <1>2, <1>6, <1>14 DEF IsDesignated, PathCost
<1>18. \A q \in Port : Owner(q) # s => info'[q] = info[q] /\ f[q] = info[q]
  BY <1>2, <1>11
<1>19. rxq' = SendOn(Rest(p), Senders(s, info', root, rp), root, cost)
  BY <1>2 DEF Q, ports
<1>20. Takes(p, rp, root, cost)
  BY <1>2, <1>6, <1>15, <1>16, <1>17, <1>18, <1>19 DEF Takes, s, f
<1> QED BY <1>6, <1>7, <1>20

\* Each switch's own state stays sound when it stores what it received.
LEMMA AcceptKeepsLocal ==
  ASSUME LocalInv, TypeOK', NEW p \in Port, NEW rp \in Port, NEW root \in Switch, NEW cost \in Nat,
         Takes(p, rp, root, cost)
  PROVE  RolesFollowVectors' /\ RootPortSound' /\ RootPortOrUntouched' /\ HelloIffRoot'
<1> DEFINE s == Owner(p)
<1>1. /\ root < s
      /\ \A t \in Switch :
           /\ designatedRoot'[t] = IF t = s THEN root ELSE designatedRoot[t]
           /\ rootPathCost'[t] = IF t = s THEN cost ELSE rootPathCost[t]
           /\ rootPort'[t] = IF t = s THEN rp ELSE rootPort[t]
           /\ helloActive'[t] = IF t = s THEN FALSE ELSE helloActive[t]
      /\ Owner(rp) = s /\ ~IsDesignated(info', rp)
      /\ root = info'[rp].root /\ cost = info'[rp].cost + PathCost
      /\ \A q \in Port : Owner(q) # s => info'[q] = info[q]
      /\ \A q \in Port : Owner(q) = s =>
           IF IsDesignated(info', q)
           THEN info'[q] = Config(root, cost, q)
           ELSE ~ComparePriority(Config(root, cost, q), info'[q])
  BY DEF Takes
<1>2. s \in Switch /\ s \in Nat /\ root \in Nat /\ root # s /\ TypeOK
  BY <1>1, PortFacts, NetworkAssumption DEF LocalInv, PathInv
<1> HIDE DEF s
<1>3. RolesFollowVectors'
  <2>1. ASSUME NEW q \in Port
        PROVE  LET own == Config(designatedRoot'[Owner(q)], rootPathCost'[Owner(q)], q)
               IN  IF IsDesignated(info', q) THEN info'[q] = own
                   ELSE ~ComparePriority(own, info'[q])
    <3>1. Owner(q) \in Switch
      BY PortFacts
    <3>2. CASE Owner(q) = s
      BY <1>1, <3>1, <3>2
    <3>3. CASE Owner(q) # s
      BY <1>1, <3>1, <3>3 DEF LocalInv, RolesFollowVectors, IsDesignated
    <3> QED BY <3>2, <3>3
  <2> QED BY <2>1 DEF RolesFollowVectors, IsDesignated
<1>4. RootPortSound'
  <2>1. ASSUME NEW t \in Switch
        PROVE  /\ rootPort'[t] = NoPort <=> designatedRoot'[t] = t
               /\ rootPort'[t] # NoPort =>
                    /\ ~IsDesignated(info', rootPort'[t])
                    /\ designatedRoot'[t] = info'[rootPort'[t]].root
                    /\ rootPathCost'[t] = info'[rootPort'[t]].cost + PathCost
    <3>1. CASE t = s
      <4>1. rootPort'[t] = rp /\ designatedRoot'[t] = root /\ rootPathCost'[t] = cost
        BY <1>1, <3>1
      <4>2. rp # NoPort /\ root # t
        BY <1>2, <3>1, PortFacts
      <4> QED BY <1>1, <4>1, <4>2
    <3>2. CASE t # s
      <4>1. rootPort[t] # NoPort => rootPort[t] \in Port /\ Owner(rootPort[t]) = t
        BY <1>2 DEF TypeOK, PortsOf
      <4>2. rootPort[t] # NoPort => info'[rootPort[t]] = info[rootPort[t]]
        BY <1>1, <3>2, <4>1
      <4>3. /\ rootPort[t] = NoPort <=> designatedRoot[t] = t
            /\ rootPort[t] # NoPort =>
                 /\ ~IsDesignated(info, rootPort[t])
                 /\ designatedRoot[t] = info[rootPort[t]].root
                 /\ rootPathCost[t] = info[rootPort[t]].cost + PathCost
        BY DEF LocalInv, RootPortSound
      <4>4. /\ rootPort'[t] = rootPort[t] /\ designatedRoot'[t] = designatedRoot[t]
            /\ rootPathCost'[t] = rootPathCost[t]
        BY <1>1, <3>2
      <4>5. rootPort[t] # NoPort => ~IsDesignated(info', rootPort[t])
        BY <4>2, <4>3 DEF IsDesignated
      <4> QED BY <4>2, <4>3, <4>4, <4>5
    <3> QED BY <3>1, <3>2
  <2> QED BY <2>1 DEF RootPortSound, IsDesignated
<1>5. RootPortOrUntouched'
  <2>1. ASSUME NEW t \in Switch
        PROVE  IF rootPort'[t] = NoPort
               THEN /\ rootPathCost'[t] = 0
                    /\ \A q \in PortsOf(t) : IsDesignated(info', q)
               ELSE designatedRoot'[t] < t
    <3>1. CASE t = s
      BY <1>1, <3>1, PortFacts
    <3>2. CASE t # s
      <4>1. \A q \in PortsOf(t) : info'[q] = info[q]
        BY <1>1, <3>2 DEF PortsOf
      <4> QED BY <1>1, <3>2, <4>1 DEF LocalInv, RootPortOrUntouched, IsDesignated
    <3> QED BY <3>1, <3>2
  <2> QED BY <2>1 DEF RootPortOrUntouched, IsDesignated, PortsOf
<1>6. HelloIffRoot'
  <2>1. ASSUME NEW t \in Switch PROVE helloActive'[t] <=> designatedRoot'[t] = t
    <3>1. CASE t = s
      BY <1>1, <1>2, <3>1
    <3>2. CASE t # s
      <4>1. helloActive[t] <=> designatedRoot[t] = t
        BY DEF LocalInv, HelloIffRoot
      <4>2. helloActive'[t] = helloActive[t] /\ designatedRoot'[t] = designatedRoot[t]
        BY <1>1, <3>2
      <4> QED BY <4>1, <4>2
    <3> QED BY <3>1, <3>2
  <2> QED BY <2>1 DEF HelloIffRoot
<1> QED BY <1>3, <1>4, <1>5, <1>6

\* The other handlers do not touch it.
LEMMA QueuesKeepLocal ==
  ASSUME LocalInv, UNCHANGED <<designatedRoot, rootPathCost, rootPort, helloActive, info>>
  PROVE  RolesFollowVectors' /\ RootPortSound' /\ RootPortOrUntouched' /\ HelloIffRoot'
BY DEF LocalInv, RolesFollowVectors, RootPortSound, RootPortOrUntouched, HelloIffRoot, IsDesignated

(***************************************************************************)
(* The inductive invariant: sending and losing config packets.             *)
(***************************************************************************)
\* What a switch with a supported belief announces is credible.
LEMMA FreshCredible ==
  ASSUME NEW h \in Port, NEW root \in Switch, NEW cost \in Nat,
         cost >= Dist[root][Owner(Peer[h])]
  PROVE  CredibleFrom(root, cost, h, Config(root, cost, Peer[h]))
<1> DEFINE m == Config(root, cost, Peer[h])
<1>1. m \in Vector
  BY PortFacts, ConfigIsVector
<1>2. ComparePriority(m, m)
  BY <1>1, PriorityTotal
<1>3. /\ m.switch = Owner(Peer[h]) /\ m.port = PortId(Peer[h])
      /\ m.root = root /\ m.cost = cost
  BY DEF Config
<1> QED BY <1>2, <1>3 DEF CredibleFrom

\* A credible vector stays so when its sender's belief improves.
LEMMA CredibleMonotone ==
  ASSUME NEW h \in Port, NEW m \in Vector,
         NEW root \in Switch, NEW cost \in Nat,
         NEW oldRoot \in Switch, NEW oldCost \in Nat,
         CredibleFrom(oldRoot, oldCost, h, m),
         NotWorse(root, cost, oldRoot, oldCost)
  PROVE  CredibleFrom(root, cost, h, m)
<1> DEFINE new == Config(root, cost, Peer[h])
           old == Config(oldRoot, oldCost, Peer[h])
<1>1. new \in Vector /\ old \in Vector
  BY PortFacts, ConfigIsVector
<1>2. /\ new.root = root /\ new.cost = cost
      /\ old.root = oldRoot /\ old.cost = oldCost
      /\ new.switch = old.switch /\ new.port = old.port
  BY DEF Config
<1> HIDE DEF new, old
<1>3. ComparePriority(new, old)
  BY <1>1, <1>2, VectorFields DEF ComparePriority, NotWorse
<1>4. ComparePriority(old, m)
  BY DEF CredibleFrom, old
<1>5. ComparePriority(new, m)
  BY <1>1, <1>3, <1>4, PriorityTransitive
<1> QED BY <1>5 DEF CredibleFrom, new

\* A step that only moves messages keeps the invariant when every message it
\* leaves was there before or says what its sender believes.
LEMMA QueuesOnly ==
  ASSUME Inductive, rxq' \in Queues,
         UNCHANGED <<designatedRoot, rootPathCost, rootPort, helloActive, info>>,
         \A h \in Port : \A i \in DOMAIN rxq'[h] :
           \/ \E j \in DOMAIN rxq[h] : rxq'[h][i] = rxq[h][j]
           \/ rxq'[h][i] = Config(designatedRoot[Owner(Peer[h])],
                                  rootPathCost[Owner(Peer[h])], Peer[h])
  PROVE  Inductive'
<1>1. TypeOK'
  BY DEF Inductive, TypeOK, Queues, PortsOf
<1>2. MessagesCredible'
  <2>1. ASSUME NEW h \in Port, NEW i \in DOMAIN rxq'[h]
        PROVE  CredibleFrom(designatedRoot[Owner(Peer[h])],
                            rootPathCost[Owner(Peer[h])], h, rxq'[h][i])
    <3> DEFINE t == Owner(Peer[h])
    <3>1. CASE \E j \in DOMAIN rxq[h] : rxq'[h][i] = rxq[h][j]
      BY <3>1 DEF Inductive, MessagesCredible, Credible
    <3>2. CASE rxq'[h][i] = Config(designatedRoot[t], rootPathCost[t], Peer[h])
      <4>1. /\ t \in Switch /\ designatedRoot[t] \in Switch
            /\ rootPathCost[t] \in Nat
            /\ rootPathCost[t] >= Dist[designatedRoot[t]][t]
        BY PortFacts DEF Inductive, TypeOK, BeliefSupported
      <4> QED BY <3>2, <4>1, FreshCredible
    <3> QED BY <3>1, <3>2
  <2> QED BY <2>1 DEF MessagesCredible, Credible
<1>3. StoredCredible'
  BY DEF Inductive, StoredCredible, Credible, IsDesignated
<1>4. RolesFollowVectors' /\ RootPortSound' /\ RootPortOrUntouched'
  BY DEF Inductive, RolesFollowVectors, RootPortSound, RootPortOrUntouched,
         IsDesignated
<1>5. BeliefSupported' /\ HelloIffRoot'
  BY DEF Inductive, BeliefSupported, HelloIffRoot
<1> QED BY <1>1, <1>2, <1>3, <1>4, <1>5 DEF Inductive

\* A switch that announces its belief keeps the invariant.
LEMMA SendKeeps ==
  ASSUME Inductive, NEW s \in Switch, NEW Q \in Queues,
         NEW ports, ports \subseteq PortsOf(s),
         \A h \in Port : \A i \in DOMAIN Q[h] :
           \E j \in DOMAIN rxq[h] : Q[h][i] = rxq[h][j],
         rxq' = SendOn(Q, ports, designatedRoot[s], rootPathCost[s]),
         UNCHANGED <<designatedRoot, rootPathCost, rootPort, helloActive, info>>
  PROVE  Inductive'
<1>1. /\ designatedRoot[s] \in Switch /\ rootPathCost[s] \in Nat
      /\ ports \subseteq Port /\ \A q \in ports : Owner(q) = s
  BY DEF Inductive, TypeOK, PortsOf
<1>2. /\ rxq' \in Queues
      /\ \A h \in Port : \A i \in DOMAIN rxq'[h] :
           \/ i \in DOMAIN Q[h] /\ rxq'[h][i] = Q[h][i]
           \/ /\ Peer[h] \in ports
              /\ rxq'[h][i] = Config(designatedRoot[s], rootPathCost[s], Peer[h])
  <2> DEFINE root == designatedRoot[s]
             cost == rootPathCost[s]
             R    == SendOn(Q, ports, root, cost)
  <2>1. rxq' = R
    OBVIOUS
  <2>2. root \in Switch /\ cost \in Nat /\ ports \subseteq Port
    BY <1>1
  <2> HIDE DEF root, cost
  <2>3. R \in Queues
    BY <2>2, SendOnProperties
  <2>4. \A h \in Port : \A i \in DOMAIN R[h] :
          \/ i \in DOMAIN Q[h] /\ R[h][i] = Q[h][i]
          \/ Peer[h] \in ports /\ R[h][i] = Config(root, cost, Peer[h])
    BY <2>2, SendOnProperties
  <2> HIDE DEF R
  <2> QED BY <2>1, <2>3, <2>4 DEF root, cost
<1>3. \A h \in Port : \A i \in DOMAIN rxq'[h] :
        \/ \E j \in DOMAIN rxq[h] : rxq'[h][i] = rxq[h][j]
        \/ rxq'[h][i] = Config(designatedRoot[Owner(Peer[h])],
                               rootPathCost[Owner(Peer[h])], Peer[h])
  BY <1>1, <1>2
<1> QED BY <1>2, <1>3, QueuesOnly

LEMMA DeclineKeeps ==
  ASSUME Inductive, NEW p \in Port, rxq[p] # <<>>, Decline(p)
  PROVE  Inductive'
<1> DEFINE s == Owner(p)
           ports == {p} \cap Senders(s, info, designatedRoot[s], rootPort[s])
<1>1. rxq \in Queues
  BY QueuesTyped DEF Inductive
<1>2. /\ Rest(p) \in Queues
      /\ \A h \in Port : \A i \in DOMAIN Rest(p)[h] :
           \E j \in DOMAIN rxq[h] : Rest(p)[h][i] = rxq[h][j]
  BY <1>1, RestProperties
<1>3. s \in Switch /\ ports \subseteq PortsOf(s)
  BY PortFacts
<1>4. /\ rxq' = SendOn(Rest(p), ports, designatedRoot[s], rootPathCost[s])
      /\ UNCHANGED <<designatedRoot, rootPathCost, rootPort, helloActive, info>>
  BY DEF Decline
<1> HIDE DEF s, ports
<1> QED BY <1>2, <1>3, <1>4, SendKeeps

LEMMA HelloKeeps ==
  ASSUME Inductive, NEW s \in Switch, HelloTimeout(s)
  PROVE  Inductive'
<1> DEFINE ports == Senders(s, info, designatedRoot[s], rootPort[s])
<1>1. rxq \in Queues
  BY QueuesTyped DEF Inductive
<1>2. ports \subseteq PortsOf(s)
  BY SendersArePorts
<1>3. /\ rxq' = SendOn(rxq, ports, designatedRoot[s], rootPathCost[s])
      /\ UNCHANGED <<designatedRoot, rootPathCost, rootPort, helloActive, info>>
  BY DEF HelloTimeout
<1> HIDE DEF ports
<1> QED BY <1>1, <1>2, <1>3, SendKeeps

LEMMA LoseKeeps ==
  ASSUME Inductive, NEW p \in Port, Lose(p)
  PROVE  Inductive'
<1>1. rxq \in Queues
  BY QueuesTyped DEF Inductive
<1>2. /\ rxq' \in Queues
      /\ \A h \in Port : \A i \in DOMAIN rxq'[h] :
           \E j \in DOMAIN rxq[h] : rxq'[h][i] = rxq[h][j]
  BY <1>1, RestProperties DEF Lose
<1>3. UNCHANGED <<designatedRoot, rootPathCost, rootPort, helloActive, info>>
  BY DEF Lose
<1> QED BY <1>2, <1>3, QueuesOnly

(***************************************************************************)
(* The inductive invariant: accepting a superior config packet.            *)
(***************************************************************************)

\* What the invariant says is part of it for each switch by itself.
LEMMA InductiveLocal == Inductive => LocalInv
<1> SUFFICES ASSUME Inductive PROVE PathInv
  BY DEF LocalInv, Inductive
<1>1. ASSUME NEW p \in Port PROVE StoredSound(p, info[p])
  <2>1. CASE IsDesignated(info, p)
    <3>1. Owner(p) \in Switch
      BY PortFacts
    <3>2. info[p] = Config(designatedRoot[Owner(p)], rootPathCost[Owner(p)], p)
      BY <2>1 DEF Inductive, RolesFollowVectors
    <3>3. rootPathCost[Owner(p)] >= Dist[designatedRoot[Owner(p)]][Owner(p)]
      BY <3>1 DEF Inductive, BeliefSupported
    <3> QED BY <3>2, <3>3, ConfigSound
  <2>2. CASE ~IsDesignated(info, p)
    BY <2>2 DEF Inductive, StoredCredible, Credible, CredibleFrom, StoredSound, HasPath
  <2> QED BY <2>1, <2>2
<1>2. ASSUME NEW h \in Port, NEW i \in DOMAIN rxq[h] PROVE MessageSound(h, rxq[h][i])
  BY DEF Inductive, MessagesCredible, Credible, CredibleFrom, MessageSound, HasPath
<1> QED BY <1>1, <1>2 DEF PathInv, Inductive, BeliefSupported

\* What is stored at a port that is not designated stays credible.
LEMMA StoredIsCredible ==
  ASSUME Inductive, NEW p \in Port, rxq[p] # <<>>,
         NEW q \in Port, ~IsDesignated(Stored(p), q)
  PROVE  Stored(p)[q] \in Vector /\ Credible(q, Stored(p)[q])
<1>1. rxq \in Queues /\ info \in [Port -> Vector]
  BY QueuesTyped DEF Inductive, TypeOK
<1>2. Head(rxq[p]) \in Vector /\ 1 \in DOMAIN rxq[p] /\ Head(rxq[p]) = rxq[p][1]
  BY <1>1, RestProperties
<1>3. CASE q = p
  <2>1. Stored(p)[q] = rxq[p][1]
    BY <1>1, <1>2, <1>3 DEF Stored
  <2> QED BY <1>2, <1>3, <2>1 DEF Inductive, MessagesCredible
<1>4. CASE q # p
  <2>1. Stored(p)[q] = info[q]
    BY <1>1, <1>4 DEF Stored
  <2> QED BY <1>1, <2>1 DEF Inductive, StoredCredible, IsDesignated
<1> QED BY <1>3, <1>4

\* stp_handle_config_packet keeps the invariant when it stores what it received.
LEMMA AcceptKeeps ==
  ASSUME LoopFree, Inductive, NEW p \in Port, rxq[p] # <<>>,
         ComparePriority(Head(rxq[p]), info[p]), Accept(p)
  PROVE  /\ Inductive'
         /\ \E root \in Switch, cost \in Nat :
              /\ designatedRoot' = [designatedRoot EXCEPT ![Owner(p)] = root]
              /\ rootPathCost' = [rootPathCost EXCEPT ![Owner(p)] = cost]
              /\ cost >= Dist[root][Owner(p)]
              /\ NotWorse(root, cost, designatedRoot[Owner(p)], rootPathCost[Owner(p)])
<1> DEFINE s == Owner(p)
           Q == Rest(p)
<1>1. LocalInv
  BY InductiveLocal
<1>2. PICK rp \in Port, root \in Switch, cost \in Nat : Takes(p, rp, root, cost)
  BY <1>1, AcceptTakes
<1> DEFINE ports == Senders(s, info', root, rp)
<1>3. TypeOK /\ TypeOK'
  BY TypeAccept DEF Inductive
<1>4. s \in Switch /\ rxq \in Queues
  BY <1>3, PortFacts, QueuesTyped
<1>5. /\ cost >= Dist[root][s]
      /\ NotWorse(root, cost, designatedRoot[s], rootPathCost[s])
      /\ \A t \in Switch :
           /\ designatedRoot'[t] = IF t = s THEN root ELSE designatedRoot[t]
           /\ rootPathCost'[t] = IF t = s THEN cost ELSE rootPathCost[t]
      /\ rxq' = SendOn(Q, ports, root, cost)
  BY <1>2 DEF Takes
<1>6. \A q \in Port : ~IsDesignated(info', q) =>
        ~IsDesignated(Stored(p), q) /\ info'[q] = Stored(p)[q]
  BY <1>2 DEF Takes, IsDesignated
<1>7. /\ Q \in Queues
      /\ \A h \in Port : \A i \in DOMAIN Q[h] :
           \E j \in DOMAIN rxq[h] : Q[h][i] = rxq[h][j]
  BY <1>4, RestProperties
<1>8. ports \subseteq PortsOf(s) /\ ports \subseteq Port
  BY SendersArePorts DEF PortsOf
<1> HIDE DEF s, Q, ports
\* Beliefs only improve, so what was credible stays credible.
<1>9. ASSUME NEW h \in Port, NEW m \in Vector, Credible(h, m)
      PROVE  CredibleFrom(designatedRoot'[Owner(Peer[h])],
                          rootPathCost'[Owner(Peer[h])], h, m)
  <2> DEFINE t == Owner(Peer[h])
  <2>1. /\ t \in Switch
        /\ designatedRoot[t] \in Switch /\ rootPathCost[t] \in Nat
    BY <1>3, PortFacts DEF TypeOK
  <2>2. CASE t = s
    BY <1>5, <1>9, <2>1, <2>2, CredibleMonotone DEF Credible
  <2>3. CASE t # s
    BY <1>5, <1>9, <2>1, <2>3 DEF Credible
  <2> QED BY <2>2, <2>3
<1>10. MessagesCredible'
  <2>1. \A h \in Port : \A i \in DOMAIN rxq'[h] :
          \/ i \in DOMAIN Q[h] /\ rxq'[h][i] = Q[h][i]
          \/ Peer[h] \in ports /\ rxq'[h][i] = Config(root, cost, Peer[h])
    BY <1>5, <1>7, <1>8, SendOnProperties
  <2>2. ASSUME NEW h \in Port, NEW i \in DOMAIN rxq'[h]
        PROVE  CredibleFrom(designatedRoot'[Owner(Peer[h])],
                            rootPathCost'[Owner(Peer[h])], h, rxq'[h][i])
    <3>1. CASE i \in DOMAIN Q[h] /\ rxq'[h][i] = Q[h][i]
      <4>1. PICK j \in DOMAIN rxq[h] : rxq'[h][i] = rxq[h][j]
        BY <1>7, <3>1
      <4>2. rxq[h][j] \in Vector
        BY <1>4, ElementOfSeq, LenProperties DEF Queues
      <4>3. Credible(h, rxq[h][j])
        BY DEF Inductive, MessagesCredible
      <4> QED BY <1>9, <4>1, <4>2, <4>3
    <3>2. CASE Peer[h] \in ports /\ rxq'[h][i] = Config(root, cost, Peer[h])
      <4>1. Owner(Peer[h]) = s
        BY <1>8, <3>2 DEF PortsOf
      <4> QED BY <1>4, <1>5, <3>2, <4>1, FreshCredible
    <3> QED BY <2>1, <3>1, <3>2
  <2> QED BY <2>2 DEF MessagesCredible, Credible
<1>11. StoredCredible'
  <2>1. ASSUME NEW h \in Port, ~IsDesignated(info', h)
        PROVE  CredibleFrom(designatedRoot'[Owner(Peer[h])],
                            rootPathCost'[Owner(Peer[h])], h, info'[h])
    BY <1>6, <1>9, <2>1, StoredIsCredible
  <2> QED BY <2>1 DEF StoredCredible, Credible, IsDesignated
<1>12. BeliefSupported'
  BY <1>5 DEF Inductive, BeliefSupported
<1>13. RolesFollowVectors' /\ RootPortSound' /\ RootPortOrUntouched' /\ HelloIffRoot'
  BY <1>1, <1>2, <1>3, AcceptKeepsLocal
<1>14. Inductive'
  BY <1>3, <1>10, <1>11, <1>12, <1>13 DEF Inductive
<1> QED BY <1>2, <1>14 DEF Takes

(***************************************************************************)
(* The invariant, and the safety properties that follow from it.           *)
(***************************************************************************)
LEMMA InductiveInit == Init => Inductive
<1> SUFFICES ASSUME Init PROVE Inductive
  OBVIOUS
<1>1. TypeOK
  BY TypeInit
<1>2. \A p \in Port : info[p] = Config(Owner(p), 0, p) /\ IsDesignated(info, p)
  BY DEF Init, IsDesignated, Config
<1>3. \A p \in Port : Owner(p) \in Switch
  BY PortFacts
<1>4. MessagesCredible
  BY EmptySeq DEF Init, MessagesCredible
<1>5. StoredCredible
  BY <1>2 DEF StoredCredible
<1>6. RolesFollowVectors
  BY <1>2, <1>3 DEF Init, RolesFollowVectors
<1>7. BeliefSupported
  <2>1. \A s \in Switch : Dist[s][s] = 0
    BY DistAssumption
  <2>2. \A s \in Switch : designatedRoot[s] = s /\ rootPathCost[s] = 0
    BY DEF Init
  <2>3. \A s \in Switch : rootPathCost[s] = 0 /\ Dist[designatedRoot[s]][s] = 0
    BY <2>1, <2>2
  <2>4. ASSUME NEW s \in Switch PROVE rootPathCost[s] >= Dist[designatedRoot[s]][s]
    <3>1. rootPathCost[s] = 0 /\ Dist[designatedRoot[s]][s] = 0
      BY <2>3
    <3>2. 0 >= 0
      OBVIOUS
    <3> QED BY <3>1, <3>2
  <2> QED BY <2>4 DEF BeliefSupported
<1>8. RootPortSound /\ RootPortOrUntouched
  BY <1>2 DEF Init, RootPortSound, RootPortOrUntouched, PortsOf
<1>9. HelloIffRoot
  BY DEF Init, HelloIffRoot
<1> QED BY <1>1, <1>4, <1>5, <1>6, <1>7, <1>8, <1>9 DEF Inductive

LEMMA InductiveStep ==
  ASSUME LoopFree
  PROVE  Inductive /\ [Next]_vars => Inductive'
<1> SUFFICES ASSUME Inductive, [Next]_vars PROVE Inductive'
  OBVIOUS
<1>1. ASSUME NEW p \in Port, Receive(p) PROVE Inductive'
  <2>1. rxq[p] # <<>>
    BY <1>1 DEF Receive
  <2>2. CASE ComparePriority(Head(rxq[p]), info[p]) /\ Accept(p)
    BY <2>1, <2>2, AcceptKeeps
  <2>3. CASE Decline(p)
    BY <2>1, <2>3, DeclineKeeps
  <2> QED BY <1>1, <2>2, <2>3 DEF Receive
<1>2. ASSUME NEW s \in Switch, HelloTimeout(s) PROVE Inductive'
  BY <1>2, HelloKeeps
<1>3. ASSUME NEW p \in Port, Lose(p) PROVE Inductive'
  BY <1>3, LoseKeeps
<1>4. CASE UNCHANGED vars
  <2>1. rxq' \in Queues
    BY <1>4, QueuesTyped DEF Inductive, vars
  <2> QED BY <1>4, <2>1, QueuesOnly DEF vars
<1> QED BY <1>1, <1>2, <1>3, <1>4 DEF Next

\* In a network without looped cables, Inductive holds in every reachable
\* state of stp.c's switches, however packets are delayed or lost.
THEOREM InductiveInvariant == LoopFree => (Spec => []Inductive)
<1> SUFFICES ASSUME LoopFree PROVE Spec => []Inductive
  OBVIOUS
<1>1. Inductive /\ [Next]_vars => Inductive'
  BY InductiveStep
<1> QED BY <1>1, InductiveInit, PTL DEF Spec

\* Vectors stored, believed or on their way never promise less than Dist.
LEMMA InductiveDistance == Inductive => DistanceSound
<1> SUFFICES ASSUME Inductive PROVE DistanceSound
  OBVIOUS
<1>1. ASSUME NEW p \in Port PROVE info[p].cost >= Dist[info[p].root][info[p].switch]
  <2>1. CASE IsDesignated(info, p)
    <3>1. Owner(p) \in Switch
      BY PortFacts
    <3>2. info[p] = Config(designatedRoot[Owner(p)], rootPathCost[Owner(p)], p)
      BY <2>1 DEF Inductive, RolesFollowVectors
    <3> QED BY <3>1, <3>2 DEF Inductive, BeliefSupported, Config
  <2>2. CASE ~IsDesignated(info, p)
    BY <2>2 DEF Inductive, StoredCredible, Credible, CredibleFrom
  <2> QED BY <2>1, <2>2
<1>2. ASSUME NEW p \in Port, NEW i \in DOMAIN rxq[p]
      PROVE  rxq[p][i].cost >= Dist[rxq[p][i].root][rxq[p][i].switch]
  BY DEF Inductive, MessagesCredible, Credible, CredibleFrom
<1>3. \A v \in Vectors : v.cost >= Dist[v.root][v.switch]
  BY <1>1, <1>2 DEF Vectors
<1> QED BY <1>3 DEF DistanceSound, Inductive, BeliefSupported

\* Two ends that both gave way would each store a vector that beats the other.
LEMMA InductiveServed == Inductive => SegmentServed
<1> SUFFICES ASSUME Inductive, NEW p \in Port,
                    ~IsDesignated(info, p), ~IsDesignated(info, Peer[p])
             PROVE  FALSE
  BY DEF SegmentServed
<1> DEFINE q == Peer[p]
           ownP == Config(designatedRoot[Owner(p)], rootPathCost[Owner(p)], p)
           ownQ == Config(designatedRoot[Owner(q)], rootPathCost[Owner(q)], q)
<1>1. q \in Port /\ Peer[q] = p
  BY PortFacts
<1>2. ownP \in Vector /\ ownQ \in Vector /\ info[p] \in Vector /\ info[q] \in Vector
  BY <1>1, PortFacts, ConfigIsVector DEF Inductive, TypeOK
<1>3. ComparePriority(ownQ, info[p]) /\ ComparePriority(ownP, info[q])
  BY <1>1 DEF Inductive, StoredCredible, Credible, CredibleFrom
<1>4. ~ComparePriority(ownP, info[p]) /\ ~ComparePriority(ownQ, info[q])
  BY <1>1 DEF Inductive, RolesFollowVectors
<1> HIDE DEF q, ownP, ownQ
<1>5. ComparePriority(info[p], ownP) /\ ComparePriority(info[q], ownQ)
  BY <1>2, <1>4, PriorityTotal
<1>6. ComparePriority(ownQ, ownP) /\ ComparePriority(ownP, ownQ)
  BY <1>2, <1>3, <1>5, PriorityTransitive
<1>7. ComparePriority(ownP, info[p])
  BY <1>2, <1>3, <1>6, PriorityTransitive
<1> QED BY <1>4, <1>7

\* No vector ever promises a root at less than the topology's distance.
THEOREM DistanceCorrect == LoopFree => (Spec => []DistanceSound)
BY InductiveInvariant, InductiveDistance, PTL

\* Belief and root port of a switch always agree.
THEOREM RootPortCorrect == LoopFree => (Spec => []RootPortSound)
<1>1. Inductive => RootPortSound
  BY DEF Inductive
<1> QED BY <1>1, InductiveInvariant, PTL

\* The hello timer runs exactly at the switches that are their own root.
THEOREM HelloCorrect == LoopFree => (Spec => []HelloIffRoot)
<1>1. Inductive => HelloIffRoot
  BY DEF Inductive
<1> QED BY <1>1, InductiveInvariant, PTL

\* Every link has a designated end at all times.
THEOREM SegmentsAlwaysServed == LoopFree => (Spec => []SegmentServed)
BY InductiveInvariant, InductiveServed, PTL

\* Roles of ports always follow from the vectors they store.
THEOREM RolesCorrect == LoopFree => (Spec => []RolesFollowVectors)
<1>1. Inductive => RolesFollowVectors
  BY DEF Inductive
<1> QED BY <1>1, InductiveInvariant, PTL

(***************************************************************************)
(* The switches implement the root election.                               *)
(***************************************************************************)
beliefs ==
  [s \in Switch |-> [root |-> designatedRoot[s], cost |-> rootPathCost[s]]]

LEMMA ElectionInit == Init => Election!Init
BY DEF Init, Election!Init

LEMMA ElectionStep ==
  ASSUME LoopFree
  PROVE  Inductive /\ [Next]_vars => [Election!Next]_beliefs
<1> SUFFICES ASSUME Inductive, [Next]_vars
             PROVE  Election!Next \/ UNCHANGED beliefs
  OBVIOUS
<1>1. ASSUME UNCHANGED <<designatedRoot, rootPathCost>> PROVE UNCHANGED beliefs
  BY <1>1 DEF beliefs
<1>2. ASSUME NEW p \in Port, ComparePriority(Head(rxq[p]), info[p]),
             rxq[p] # <<>>, Accept(p)
      PROVE  Election!Next \/ UNCHANGED beliefs
  <2> DEFINE s == Owner(p)
  <2>1. s \in Switch
    BY PortFacts
  <2>2. PICK root \in Switch, cost \in Nat :
          /\ designatedRoot' = [designatedRoot EXCEPT ![s] = root]
          /\ rootPathCost' = [rootPathCost EXCEPT ![s] = cost]
          /\ cost >= Dist[root][s]
          /\ NotWorse(root, cost, designatedRoot[s], rootPathCost[s])
    BY <1>2, AcceptKeeps
  <2> HIDE DEF s
  <2>3. /\ designatedRoot \in [Switch -> Switch] /\ rootPathCost \in [Switch -> Nat]
    BY DEF Inductive, TypeOK
  <2> DEFINE new == [root |-> root, cost |-> cost]
  <2>4. beliefs' = [beliefs EXCEPT ![s] = new]
    BY <2>1, <2>2, <2>3 DEF beliefs
  <2>5. beliefs'[s] = new /\ beliefs[s] = [root |-> designatedRoot[s], cost |-> rootPathCost[s]]
    BY <2>1, <2>4 DEF beliefs
  <2>6. CASE root = designatedRoot[s] /\ cost = rootPathCost[s]
    BY <2>2, <2>3, <2>6, <1>1
  <2>7. CASE ~(root = designatedRoot[s] /\ cost = rootPathCost[s])
    <3>1. \/ root < designatedRoot[s]
          \/ root = designatedRoot[s] /\ cost < rootPathCost[s]
      BY <2>1, <2>2, <2>3, <2>7 DEF NotWorse
    <3>2. Election!Better(beliefs'[s], beliefs[s])
      BY <2>5, <3>1 DEF Election!Better
    <3>3. Election!Supported(s, beliefs'[s]) /\ beliefs'[s] \in Election!Belief
      BY <2>2, <2>5 DEF Election!Supported, Election!Belief
    <3>4. Election!Improve(s)
      BY <2>4, <2>5, <3>2, <3>3 DEF Election!Improve, beliefs
    <3> QED BY <2>1, <3>4 DEF Election!Next
  <2> QED BY <2>6, <2>7
<1>3. ASSUME NEW p \in Port, Receive(p) PROVE Election!Next \/ UNCHANGED beliefs
  BY <1>1, <1>2, <1>3 DEF Receive, Decline
<1>4. ASSUME NEW s \in Switch, HelloTimeout(s) PROVE UNCHANGED beliefs
  BY <1>1, <1>4 DEF HelloTimeout
<1>5. ASSUME NEW p \in Port, Lose(p) PROVE UNCHANGED beliefs
  BY <1>1, <1>5 DEF Lose
<1>6. CASE UNCHANGED vars
  BY <1>1, <1>6 DEF vars
<1> QED BY <1>3, <1>4, <1>5, <1>6 DEF Next

\* Seen from outside, the switches of any network without looped cables do
\* nothing but improve their beliefs, one at a time, to supported ones.
THEOREM ImplementsElection == LoopFree => (Spec => ElectionSpec)
<1> SUFFICES ASSUME LoopFree PROVE Spec => ElectionSpec
  OBVIOUS
<1>1. Inductive /\ [Next]_vars => [Election!Next]_beliefs
  BY ElectionStep
<1>2. Spec => []Inductive
  BY InductiveInvariant
<1> QED BY <1>1, <1>2, ElectionInit, PTL
        DEF Spec, ElectionSpec, Election!Spec, beliefs

-----------------------------------------------------------------------------
(***************************************************************************)
(* Restarts.  A new process knows nothing of what the old one sent, so     *)
(* vectors may be better than what their sender would announce now; but    *)
(* the paths they tell of exist, and looped cables do not matter.          *)
(***************************************************************************)
LEMMA PathInvInit == CrashInit => PathInv
<1> SUFFICES ASSUME CrashInit PROVE PathInv
  OBVIOUS
<1>1. Init /\ TypeOK
  BY TypeInit DEF CrashInit
<1>2. \A s \in Switch : 0 >= Dist[s][s]
  BY DistAssumption
<1>3. \A p \in Port : StoredSound(p, Config(Owner(p), 0, p))
  BY <1>2, PortFacts, ConfigSound
<1>4. \A h \in Port : DOMAIN rxq[h] = {}
  BY <1>1, EmptySeq DEF Init
<1> QED BY <1>1, <1>2, <1>3, <1>4 DEF Init, PathInv

LEMMA PathInvNext == PathInv /\ [CrashNext]_cvars => PathInv'
<1> SUFFICES ASSUME PathInv, [CrashNext]_cvars PROVE PathInv'
  OBVIOUS
<1>1. rxq \in Queues
  BY QueuesTyped DEF PathInv
<1>2. ASSUME NEW p \in Port, LiveReceive(p) PROVE PathInv'
  <2>1. rxq[p] # <<>> /\ (Accept(p) \/ Decline(p))
    BY <1>2 DEF LiveReceive, Receive
  <2>2. CASE Decline(p)
    <3> DEFINE s == Owner(p)
               ports == {p} \cap Senders(s, info, designatedRoot[s], rootPort[s])
    <3>1. s \in Switch /\ ports \in SUBSET PortsOf(s)
      BY PortFacts, SendersArePorts
    <3>2. /\ rxq' = SendOn(Rest(p), ports, designatedRoot[s], rootPathCost[s])
          /\ UNCHANGED <<designatedRoot, rootPathCost, rootPort, helloActive, info>>
      BY <2>2 DEF Decline
    <3> HIDE DEF s, ports
    <3> QED BY <2>1, <3>1, <3>2, RestSound, SendKeepsPaths
  <2> QED BY <2>1, <2>2, AcceptKeepsPaths
<1>3. ASSUME NEW s \in Switch, LiveHelloTimeout(s) PROVE PathInv'
  <2> DEFINE ports == Senders(s, info, designatedRoot[s], rootPort[s])
  <2>1. ports \in SUBSET PortsOf(s)
    BY SendersArePorts
  <2>2. /\ rxq' = SendOn(rxq, ports, designatedRoot[s], rootPathCost[s])
        /\ UNCHANGED <<designatedRoot, rootPathCost, rootPort, helloActive, info>>
    BY <1>3 DEF LiveHelloTimeout, HelloTimeout
  <2>3. \A h \in Port : \A i \in DOMAIN rxq[h] : MessageSound(h, rxq[h][i])
    BY DEF PathInv
  <2> HIDE DEF ports
  <2> QED BY <1>1, <2>1, <2>2, <2>3, SendKeepsPaths
<1>4. ASSUME NEW p \in Port, LiveLose(p) PROVE PathInv'
  <2>1. /\ rxq[p] # <<>> /\ rxq' = Rest(p)
        /\ UNCHANGED <<designatedRoot, rootPathCost, rootPort, helloActive, info>>
    BY <1>4 DEF LiveLose, Lose
  <2>2. /\ rxq' \in Queues
        /\ \A h \in Port : \A i \in DOMAIN rxq'[h] : MessageSound(h, rxq'[h][i])
    BY <2>1, RestSound
  <2> QED BY <2>1, <2>2 DEF PathInv, TypeOK, Queues, PortsOf
<1>5. ASSUME NEW s \in Switch, Restart(s) PROVE PathInv'
  <2>1. Dist[s][s] = 0 /\ \A p \in Port : Config(Owner(p), 0, p) \in Vector
    BY DistAssumption, PortFacts, ConfigIsVector
  <2>2. \A p \in Port : Owner(p) = s => StoredSound(p, Config(s, 0, p))
    BY <2>1, ConfigSound
  <2>3. \A p \in Port : /\ info'[p] = IF Owner(p) = s THEN Config(s, 0, p) ELSE info[p]
                        /\ rxq'[p] = IF Owner(p) = s THEN <<>> ELSE rxq[p]
    BY <1>5 DEF Restart
  <2>4. TypeOK'
    <3>1. info' \in [Port -> Vector]
      BY <1>5, <2>1 DEF Restart, PathInv, TypeOK
    <3>2. rxq' \in [Port -> Seq(Vector)] /\ \A p \in Port : Len(rxq'[p]) <= QueueCap
      <4>1. <<>> \in Seq(Vector) /\ Len(<<>>) = 0 /\ QueueCap \in Nat
        BY EmptySeq, NetworkAssumption
      <4> QED BY <1>5, <4>1 DEF Restart, PathInv, TypeOK
    <3>3. /\ designatedRoot' \in [Switch -> Switch] /\ rootPathCost' \in [Switch -> Nat]
          /\ helloActive' \in [Switch -> BOOLEAN]
      BY <1>5 DEF Restart, PathInv, TypeOK
    <3>4. /\ rootPort' \in [Switch -> Port \cup {NoPort}]
          /\ \A t \in Switch : rootPort'[t] \in PortsOf(t) \cup {NoPort}
      BY <1>5 DEF Restart, PathInv, TypeOK, PortsOf
    <3> QED BY <3>1, <3>2, <3>3, <3>4 DEF TypeOK
  <2>5. \A t \in Switch : rootPathCost'[t] >= Dist[designatedRoot'[t]][t]
    BY <1>5, <2>1 DEF Restart, PathInv, TypeOK
  <2>6. \A p \in Port : StoredSound(p, info'[p])
    BY <2>2, <2>3 DEF PathInv
  <2>7. \A h \in Port : \A i \in DOMAIN rxq'[h] : MessageSound(h, rxq'[h][i])
    <3>1. DOMAIN <<>> = {}
      OBVIOUS
    <3> QED BY <2>3, <3>1 DEF PathInv
  <2> QED BY <2>4, <2>5, <2>6, <2>7 DEF PathInv
<1>6. CASE UNCHANGED vars
  BY <1>6 DEF vars, PathInv, TypeOK, PortsOf
<1>7. ASSUME NEW s \in Switch, Crash(s) PROVE PathInv'
  BY <1>6, <1>7 DEF Crash
<1> QED BY <1>2, <1>3, <1>4, <1>5, <1>6, <1>7 DEF CrashNext, cvars

\* Switches may end and start again at any moment and packets get lost: no cost
\* that is stored, believed or on its way is less than the topology's distance, in
\* any network, looped cables included (stp_init, stp_handle_config_packet).
THEOREM DistanceSurvivesRestarts == CrashSpec => []DistanceSound
<1>1. PathInv => DistanceSound
  <2> SUFFICES ASSUME PathInv, NEW v \in Vectors PROVE v.cost >= Dist[v.root][v.switch]
    BY DEF PathInv, DistanceSound
  <2>1. CASE \E p \in Port : v = info[p]
    BY <2>1 DEF PathInv, StoredSound, HasPath
  <2>2. CASE \E p \in Port : \E i \in DOMAIN rxq[p] : v = rxq[p][i]
    BY <2>2 DEF PathInv, MessageSound, HasPath
  <2> QED BY <2>1, <2>2 DEF Vectors
<1> QED BY <1>1, PathInvInit, PathInvNext, PTL DEF CrashSpec

\* A restarted switch is sound by itself, whatever its ports had stored.
LEMMA RestartKeepsLocal ==
  ASSUME LocalInv, NEW s \in Switch, Restart(s)
  PROVE  RolesFollowVectors' /\ RootPortSound' /\ RootPortOrUntouched' /\ HelloIffRoot'
<1>1. TypeOK
  BY DEF LocalInv, PathInv
<1>2. \A t \in Switch :
        /\ designatedRoot'[t] = IF t = s THEN s ELSE designatedRoot[t]
        /\ rootPathCost'[t] = IF t = s THEN 0 ELSE rootPathCost[t]
        /\ rootPort'[t] = IF t = s THEN NoPort ELSE rootPort[t]
        /\ helloActive'[t] = IF t = s THEN TRUE ELSE helloActive[t]
  BY <1>1 DEF Restart, TypeOK
<1>3. \A q \in Port : info'[q] = IF Owner(q) = s THEN Config(s, 0, q) ELSE info[q]
  BY DEF Restart
<1>4. ASSUME NEW q \in Port
      PROVE  /\ Owner(q) = s => IsDesignated(info', q)
             /\ Owner(q) # s => (IsDesignated(info', q) <=> IsDesignated(info, q))
  <2>1. CASE Owner(q) = s
    <3>1. info'[q] = Config(Owner(q), 0, q)
      BY <1>3, <2>1
    <3> QED BY <2>1, <3>1 DEF IsDesignated, Config
  <2>2. CASE Owner(q) # s
    <3>1. info'[q] = info[q]
      BY <1>3, <2>2
    <3> QED BY <2>2, <3>1 DEF IsDesignated
  <2> QED BY <2>1, <2>2
<1>5. RolesFollowVectors'
  <2>1. ASSUME NEW q \in Port
        PROVE  LET own == Config(designatedRoot'[Owner(q)], rootPathCost'[Owner(q)], q)
               IN  IF IsDesignated(info', q) THEN info'[q] = own
                   ELSE ~ComparePriority(own, info'[q])
    <3>1. Owner(q) \in Switch
      BY PortFacts
    <3>2. CASE Owner(q) = s
      BY <1>2, <1>3, <1>4, <3>1, <3>2
    <3>3. CASE Owner(q) # s
      BY <1>2, <1>3, <1>4, <3>1, <3>3 DEF LocalInv, RolesFollowVectors
    <3> QED BY <3>2, <3>3
  <2> QED BY <2>1 DEF RolesFollowVectors, IsDesignated
<1>6. RootPortSound'
  <2>1. ASSUME NEW t \in Switch
        PROVE  /\ rootPort'[t] = NoPort <=> designatedRoot'[t] = t
               /\ rootPort'[t] # NoPort =>
                    /\ ~IsDesignated(info', rootPort'[t])
                    /\ designatedRoot'[t] = info'[rootPort'[t]].root
                    /\ rootPathCost'[t] = info'[rootPort'[t]].cost + PathCost
    <3>1. CASE t = s
      BY <1>2, <3>1
    <3>2. CASE t # s
      <4>1. rootPort[t] # NoPort => rootPort[t] \in Port /\ Owner(rootPort[t]) = t
        BY <1>1 DEF TypeOK, PortsOf
      <4>2. rootPort[t] # NoPort => info'[rootPort[t]] = info[rootPort[t]]
        BY <1>3, <3>2, <4>1
      <4>3. /\ rootPort[t] = NoPort <=> designatedRoot[t] = t
            /\ rootPort[t] # NoPort =>
                 /\ ~IsDesignated(info, rootPort[t])
                 /\ designatedRoot[t] = info[rootPort[t]].root
                 /\ rootPathCost[t] = info[rootPort[t]].cost + PathCost
        BY DEF LocalInv, RootPortSound
      <4>4. /\ rootPort'[t] = rootPort[t] /\ designatedRoot'[t] = designatedRoot[t]
            /\ rootPathCost'[t] = rootPathCost[t]
        BY <1>2, <3>2
      <4> QED BY <1>4, <3>2, <4>1, <4>2, <4>3, <4>4
    <3> QED BY <3>1, <3>2
  <2> QED BY <2>1 DEF RootPortSound, IsDesignated
<1>7. RootPortOrUntouched'
  <2>1. ASSUME NEW t \in Switch
        PROVE  IF rootPort'[t] = NoPort
               THEN /\ rootPathCost'[t] = 0
                    /\ \A q \in PortsOf(t) : IsDesignated(info', q)
               ELSE designatedRoot'[t] < t
    <3>1. CASE t = s
      BY <1>2, <1>4, <3>1 DEF PortsOf
    <3>2. CASE t # s
      BY <1>2, <1>4, <3>2 DEF LocalInv, RootPortOrUntouched, PortsOf
    <3> QED BY <3>1, <3>2
  <2> QED BY <2>1 DEF RootPortOrUntouched, IsDesignated, PortsOf
<1>8. HelloIffRoot'
  BY <1>2 DEF LocalInv, HelloIffRoot
<1> QED BY <1>5, <1>6, <1>7, <1>8

\* Without looped cables each switch by itself stays sound over restarts, and
\* what a running process believes only improves.
LEMMA LocalNext ==
  ASSUME LoopFree, LocalInv, [CrashNext]_cvars
  PROVE  /\ LocalInv'
         /\ \A s \in Switch : alive[s] /\ alive'[s] =>
              \/ designatedRoot'[s] < designatedRoot[s]
              \/ designatedRoot'[s] = designatedRoot[s] /\ rootPathCost'[s] <= rootPathCost[s]
<1> DEFINE LocalOK == RolesFollowVectors /\ RootPortSound /\ RootPortOrUntouched /\ HelloIffRoot
           Improves ==
             \A s \in Switch : alive[s] /\ alive'[s] =>
               \/ designatedRoot'[s] < designatedRoot[s]
               \/ designatedRoot'[s] = designatedRoot[s] /\ rootPathCost'[s] <= rootPathCost[s]
<1>1. PathInv' /\ TypeOK /\ TypeOK'
  BY PathInvNext DEF LocalInv, PathInv
<1>2. /\ designatedRoot \in [Switch -> Switch] /\ rootPathCost \in [Switch -> Nat]
  BY <1>1 DEF TypeOK
<1>3. ASSUME UNCHANGED <<designatedRoot, rootPathCost, rootPort, helloActive, info>>
      PROVE  LocalOK' /\ Improves
  BY <1>2, <1>3, QueuesKeepLocal
<1>4. ASSUME NEW p \in Port, rxq[p] # <<>>, Accept(p), ComparePriority(Head(rxq[p]), info[p])
      PROVE  LocalOK' /\ Improves
  <2>1. PICK rp \in Port, root \in Switch, cost \in Nat : Takes(p, rp, root, cost)
    BY <1>4, AcceptTakes
  <2>2. LocalOK'
    BY <1>1, <2>1, AcceptKeepsLocal
  <2>3. NotWorse(root, cost, designatedRoot[Owner(p)], rootPathCost[Owner(p)])
    BY <2>1 DEF Takes
  <2>4. \A t \in Switch : /\ designatedRoot'[t] = IF t = Owner(p) THEN root ELSE designatedRoot[t]
                          /\ rootPathCost'[t] = IF t = Owner(p) THEN cost ELSE rootPathCost[t]
    BY <2>1 DEF Takes
  <2>5. Improves
    BY <1>2, <2>3, <2>4 DEF NotWorse
  <2> QED BY <2>2, <2>5
<1>5. ASSUME NEW s \in Switch, Restart(s) PROVE LocalOK' /\ Improves
  <2>1. LocalOK'
    BY <1>5, RestartKeepsLocal
  <2>2. ~alive[s] /\ \A t \in Switch \ {s} : /\ designatedRoot'[t] = designatedRoot[t]
                                             /\ rootPathCost'[t] = rootPathCost[t]
    BY <1>2, <1>5 DEF Restart
  <2>3. Improves
    BY <1>2, <2>2
  <2> QED BY <2>1, <2>3
<1> HIDE DEF LocalOK, Improves
<1>6. ASSUME NEW p \in Port, LiveReceive(p) PROVE LocalOK' /\ Improves
  BY <1>3, <1>4, <1>6 DEF LiveReceive, Receive, Decline
<1>7. ASSUME NEW p \in Port, LiveLose(p) PROVE LocalOK' /\ Improves
  BY <1>3, <1>7 DEF LiveLose, Lose
<1>8. ASSUME NEW s \in Switch, LiveHelloTimeout(s) PROVE LocalOK' /\ Improves
  BY <1>3, <1>8 DEF LiveHelloTimeout, HelloTimeout
<1>9. ASSUME NEW s \in Switch, Crash(s) PROVE LocalOK' /\ Improves
  BY <1>3, <1>9 DEF Crash, vars
<1>10. ASSUME UNCHANGED cvars PROVE LocalOK' /\ Improves
  BY <1>3, <1>10 DEF cvars, vars
<1>11. LocalOK' /\ Improves
  BY <1>5, <1>6, <1>7, <1>8, <1>9, <1>10 DEF CrashNext
<1>12. LocalInv'
  BY <1>1, <1>11 DEF LocalInv, LocalOK
<1> QED BY <1>11, <1>12 DEF Improves

\* What holds of each switch by itself, whoever ends and starts again.
THEOREM LocalSurvivesRestarts == LoopFree => (CrashSpec => []LocalInv)
<1> SUFFICES ASSUME LoopFree PROVE CrashSpec => []LocalInv
  OBVIOUS
<1>1. CrashInit => LocalInv
  BY PathInvInit, InductiveInit DEF CrashInit, LocalInv, Inductive
<1>2. LocalInv /\ [CrashNext]_cvars => LocalInv'
  BY LocalNext
<1> QED BY <1>1, <1>2, PTL DEF CrashSpec

\* Costs, root port, hello timer and roles of every switch agree with what it
\* stores, its own restarts and others' included.
THEOREM ConsistentOverRestarts == LoopFree => (CrashSpec => []SwitchesConsistent)
<1>1. LocalInv => RootPortSound /\ HelloIffRoot /\ RolesFollowVectors
  BY DEF LocalInv
<1>2. DistanceSound /\ RootPortSound /\ HelloIffRoot /\ RolesFollowVectors => SwitchesConsistent
  BY DEF SwitchesConsistent
<1> QED BY <1>1, <1>2, LocalSurvivesRestarts, DistanceSurvivesRestarts, PTL

\* A running process never comes to believe in a worse root or path, whatever
\* other switches announce after a restart.
THEOREM BeliefImprovesOverRestarts == LoopFree => (CrashSpec => BeliefOnlyImproves)
<1> SUFFICES ASSUME LoopFree PROVE CrashSpec => BeliefOnlyImproves
  OBVIOUS
<1> DEFINE Improves ==
             \A s \in Switch : alive[s] /\ alive'[s] =>
               \/ designatedRoot'[s] < designatedRoot[s]
               \/ designatedRoot'[s] = designatedRoot[s] /\ rootPathCost'[s] <= rootPathCost[s]
<1>1. LocalInv /\ [CrashNext]_cvars => [Improves]_cvars
  BY LocalNext
<1>2. CrashSpec => []LocalInv
  BY LocalSurvivesRestarts
<1> QED BY <1>1, <1>2, PTL DEF CrashSpec, BeliefOnlyImproves

-----------------------------------------------------------------------------
(***************************************************************************)
(* The learning switch: its types.                                         *)
(***************************************************************************)

\* The type invariant holds in every state.
THEOREM MacTypeCorrect == MacSpec => []MacTypeOK
<1>1. MacInit => MacTypeOK
  BY DEF MacInit, MacTypeOK
<1>2. MacTypeOK /\ [MacNext]_macVars => MacTypeOK'
  <2> SUFFICES ASSUME MacTypeOK, [MacNext]_macVars PROVE MacTypeOK'
    OBVIOUS
  <2> USE MacAssumption
  <2>1. ASSUME NEW src \in Station, NEW dst \in Station \cup Unheard, Lookup(src, dst)
        PROVE  MacTypeOK'
    <3>1. frame' \in Frame /\ frame' # None
      BY <2>1 DEF Lookup, MacTypeOK, Frame
    <3>2. \A e \in EntriesFor(dst) : e.iface \in Iface
      BY DEF MacTypeOK, EntriesFor, Entry
    <3>3. target' \in Iface \cup {None} /\ pos' \in Iface \cup {None}
      BY <2>1, <3>2 DEF Lookup, MacTypeOK
    <3>4. pos' = None <=> step' # "read"
      BY <2>1, <3>2 DEF Lookup, MacTypeOK
    <3>5. step' \in {"read", "forward"}
      BY <2>1 DEF Lookup
    <3> QED BY <2>1, <3>1, <3>3, <3>4, <3>5 DEF Lookup, MacTypeOK, sweepVars
  <2>2. CASE ReadIface
    BY <2>2 DEF ReadIface, MacTypeOK, sweepVars
  <2>3. CASE Forward
    BY <2>3 DEF Forward, MacTypeOK, Broadcast, sweepVars, Frame
  <2>4. CASE Learn
    <3>1. frame \in Frame
      BY <2>4 DEF Learn, MacTypeOK
    <3>2. table' \subseteq Entry
      <4>1. [mac |-> frame.src, iface |-> frame.in, age |-> 0] \in Entry
        BY <3>1 DEF Entry, Frame
      <4> QED BY <2>4, <4>1 DEF Learn, InsertMacPort, MacTypeOK
    <3>3. aged' \subseteq Station /\ heard' \in [Station -> Iface \cup {None}]
      BY <2>4, <3>1 DEF Learn, MacTypeOK, StillAged, Frame
    <3> QED BY <2>4, <3>2, <3>3 DEF Learn, Release, MacTypeOK
  <2>5. CASE ReadTime
    BY <2>5 DEF ReadTime, MacTypeOK, loopVars, Entry
  <2>6. CASE Sweep
    BY <2>6 DEF Sweep, Swept, MacTypeOK, loopVars
  <2>7. CASE Tick
    <3>1. table' \subseteq Entry
      BY <2>7 DEF Tick, MacTypeOK, Entry
    <3> QED BY <2>7, <3>1 DEF Tick, MacTypeOK, loopVars
  <2>8. ASSUME NEW s \in Station, NEW i \in Iface, Move(s, i) PROVE MacTypeOK'
    BY <2>8 DEF Move, MacTypeOK, loopVars, sweepVars
  <2>9. CASE UNCHANGED macVars
    BY <2>9 DEF MacTypeOK, macVars
  <2> QED BY <2>1, <2>2, <2>3, <2>4, <2>5, <2>6, <2>7, <2>8, <2>9 DEF MacNext
<1> QED BY <1>1, <1>2, PTL DEF MacSpec

-----------------------------------------------------------------------------
(***************************************************************************)
(* Where stations were heard.                                              *)
(***************************************************************************)

\* What the loop found is where the destination was heard last, in the block it
\* found and after reading it.
TargetSound ==
  /\ step = "read" => frame.dst \in Station /\ pos = heard[frame.dst]
  /\ step = "forward" =>
       target = None \/ (frame.dst \in Station /\ target = heard[frame.dst])

HeardInv == MacTypeOK /\ EntryIsLastHeard /\ TargetSound /\ SentWhereHeard

\* A lookup finds the interface where the destination was last heard, and
\* between the lookup and the learning nothing is heard.
LEMMA HeardInvariant == MacSpec => []HeardInv
<1>1. MacInit => HeardInv
  BY DEF MacInit, HeardInv, MacTypeOK, EntryIsLastHeard, TargetSound, SentWhereHeard
<1>2. MacTypeOK' /\ HeardInv /\ [MacNext]_macVars => HeardInv'
  <2> SUFFICES ASSUME MacTypeOK', HeardInv, [MacNext]_macVars
               PROVE  (EntryIsLastHeard /\ TargetSound /\ SentWhereHeard)'
    BY DEF HeardInv
  <2> USE MacAssumption DEF HeardInv
  <2>1. ASSUME NEW src \in Station, NEW dst \in Station \cup Unheard, Lookup(src, dst)
        PROVE  (EntryIsLastHeard /\ TargetSound /\ SentWhereHeard)'
    <3>1. EntryIsLastHeard' /\ SentWhereHeard'
      BY <2>1 DEF Lookup, EntryIsLastHeard, SentWhereHeard
    <3>2. TargetSound'
      <4>1. frame'.dst = dst /\ heard' = heard
        BY <2>1 DEF Lookup
      <4>2. \A e \in EntriesFor(dst) : dst \in Station /\ e.iface = heard[dst]
        BY DEF MacTypeOK, EntriesFor, EntryIsLastHeard, Entry
      <4> QED BY <2>1, <4>1, <4>2 DEF Lookup, TargetSound
    <3> QED BY <3>1, <3>2
  <2>2. CASE ReadIface
    BY <2>2 DEF ReadIface, EntryIsLastHeard, TargetSound, SentWhereHeard
  <2>3. CASE Forward
    <3>1. EntryIsLastHeard' /\ TargetSound'
      BY <2>3 DEF Forward, EntryIsLastHeard, TargetSound
    <3>2. SentWhereHeard'
      <4>1. frame \in Frame /\ frame' = frame /\ heard' = heard
        BY <2>3 DEF Forward, MacTypeOK
      <4>2. CASE target = None
        BY <2>3, <4>1, <4>2 DEF Forward, Broadcast, SentWhereHeard, MacTypeOK, Frame
      <4>3. CASE target # None
        <5>1. out' = {target} /\ frame.dst \in Station /\ target = heard[frame.dst]
          BY <2>3, <4>3 DEF Forward, TargetSound
        <5> QED BY <4>1, <5>1 DEF SentWhereHeard
      <4> QED BY <4>2, <4>3
    <3> QED BY <3>1, <3>2
  <2>4. CASE Learn
    <3>1. frame \in Frame /\ frame.src \in Station /\ step' = "receive"
      BY <2>4 DEF Learn, Release, MacTypeOK, Frame
    <3> DEFINE new == [mac |-> frame.src, iface |-> frame.in, age |-> 0]
    <3>2. /\ heard' = [heard EXCEPT ![frame.src] = frame.in]
          /\ table' = (table \ EntriesFor(frame.src)) \cup {new}
      BY <2>4 DEF Learn, InsertMacPort, EntriesFor, EntryIsLastHeard
    <3>3. new.mac = frame.src /\ new.iface = heard'[frame.src]
      BY <3>1, <3>2 DEF MacTypeOK
    <3>4. \A e \in table \ EntriesFor(frame.src) :
            e.mac # frame.src /\ e.iface = heard'[e.mac]
      BY <3>1, <3>2 DEF EntriesFor, EntryIsLastHeard, MacTypeOK, Entry
    <3> HIDE DEF new
    <3>5. EntryIsLastHeard'
      BY <3>2, <3>3, <3>4 DEF EntryIsLastHeard
    <3> QED BY <3>1, <3>5 DEF TargetSound, SentWhereHeard
  <2>5. CASE ReadTime
    BY <2>5 DEF ReadTime, loopVars, EntryIsLastHeard, TargetSound, SentWhereHeard
  <2>6. CASE Sweep
    BY <2>6 DEF Sweep, Swept, loopVars, EntryIsLastHeard, TargetSound, SentWhereHeard
  <2>7. CASE Tick
    <3> DEFINE Aged(e) == IF e.age < Timeout THEN [e EXCEPT !.age = @ + 1] ELSE e
    <3>1. table' = {Aged(e) : e \in table}
      BY <2>7 DEF Tick
    <3>2. \A e \in table : Aged(e).mac = e.mac /\ Aged(e).iface = e.iface
      BY DEF MacTypeOK, Entry
    <3> HIDE DEF Aged
    <3>3. EntryIsLastHeard'
      BY <2>7, <3>1, <3>2 DEF Tick, EntryIsLastHeard
    <3> QED BY <2>7, <3>3 DEF Tick, loopVars, TargetSound, SentWhereHeard
  <2>8. ASSUME NEW s \in Station, NEW i \in Iface, Move(s, i)
        PROVE  (EntryIsLastHeard /\ TargetSound /\ SentWhereHeard)'
    BY <2>8 DEF Move, loopVars, sweepVars, EntryIsLastHeard, TargetSound, SentWhereHeard
  <2>9. CASE UNCHANGED macVars
    BY <2>9 DEF macVars, EntryIsLastHeard, TargetSound, SentWhereHeard
  <2> QED BY <2>1, <2>2, <2>3, <2>4, <2>5, <2>6, <2>7, <2>8, <2>9 DEF MacNext
<1> QED BY <1>1, <1>2, MacTypeCorrect, PTL DEF MacSpec

\* One entry for a station, naming the interface it was last learned on.
THEOREM TableCorrect == MacSpec => []EntryIsLastHeard
<1> HeardInv => EntryIsLastHeard
  BY DEF HeardInv
<1> QED BY HeardInvariant, PTL

\* Frames go where their destination was last heard and never back where they
\* came from otherwise, whatever the sweeper removes meanwhile.
THEOREM ForwardingCorrect == MacSpec => []SentWhereHeard
<1> HeardInv => SentWhereHeard
  BY DEF HeardInv
<1> QED BY HeardInvariant, PTL

-----------------------------------------------------------------------------
(***************************************************************************)
(* What the sweeper may remove.                                            *)
(***************************************************************************)

\* The entries the sweeper is about to remove are still too old.
AgedAreOld == \A e \in table : e.mac \in aged => e.age >= Timeout

\* An entry loses its place among the aged ones whenever it is renewed.
LEMMA AgedInvariant == MacSpec => [](EntryIsLastHeard /\ MacTypeOK /\ AgedAreOld)
<1>1. MacInit => AgedAreOld
  BY DEF MacInit, AgedAreOld
<1>2. MacTypeOK /\ EntryIsLastHeard /\ AgedAreOld /\ [MacNext]_macVars => AgedAreOld'
  <2> SUFFICES ASSUME MacTypeOK, EntryIsLastHeard, AgedAreOld, [MacNext]_macVars PROVE AgedAreOld'
    OBVIOUS
  <2> USE MacAssumption
  <2>1. CASE Learn
    <3>1. aged' = aged \ {frame.src}
      BY <2>1 DEF Learn, StillAged
    <3>2. \A e \in table' : e \in table \/ e.mac = frame.src
      BY <2>1 DEF Learn, InsertMacPort
    <3> QED BY <3>1, <3>2 DEF AgedAreOld
  <2>2. CASE ReadTime
    <3>1. aged' = {e.mac : e \in {e \in table : e.age >= Timeout}} /\ table' = table
      BY <2>2 DEF ReadTime
    <3> QED BY <3>1 DEF AgedAreOld, EntryIsLastHeard
  <2>3. CASE Tick
    <3> DEFINE Aged(e) == IF e.age < Timeout THEN [e EXCEPT !.age = @ + 1] ELSE e
    <3>1. table' = {Aged(e) : e \in table} /\ aged' = aged
      BY <2>3 DEF Tick
    <3>2. \A e \in table : Aged(e).mac = e.mac /\ (e.age >= Timeout => Aged(e).age >= Timeout)
      BY DEF MacTypeOK, Entry
    <3> HIDE DEF Aged
    <3> QED BY <3>1, <3>2 DEF AgedAreOld
  <2>4. CASE Sweep
    BY <2>4 DEF Sweep, Swept, AgedAreOld
  <2>5. ASSUME NEW src \in Station, NEW dst \in Station \cup Unheard, Lookup(src, dst)
        PROVE  AgedAreOld'
    BY <2>5 DEF Lookup, sweepVars, AgedAreOld
  <2>6. CASE ReadIface \/ Forward
    BY <2>6 DEF ReadIface, Forward, sweepVars, AgedAreOld
  <2>7. ASSUME NEW s \in Station, NEW i \in Iface, Move(s, i) PROVE AgedAreOld'
    BY <2>7 DEF Move, sweepVars, AgedAreOld
  <2>8. CASE UNCHANGED macVars
    BY <2>8 DEF macVars, AgedAreOld
  <2> QED BY <2>1, <2>2, <2>3, <2>4, <2>5, <2>6, <2>7, <2>8 DEF MacNext
<1> QED BY <1>1, <1>2, MacTypeCorrect, TableCorrect, PTL DEF MacSpec

\* No step removes an entry whose station was silent for less than
\* MAC_PORT_TIMEOUT.
THEOREM RemovalCorrect == MacSpec => RemovedOnlyWhenOld
<1>1. MacTypeOK /\ AgedAreOld /\ [MacNext]_macVars
        => [\A e \in table : e.age < Timeout => \E f \in table' : f.mac = e.mac]_table
  <2> SUFFICES ASSUME MacTypeOK, AgedAreOld, [MacNext]_macVars, table' # table,
                      NEW e \in table, e.age < Timeout
               PROVE  \E f \in table' : f.mac = e.mac
    OBVIOUS
  <2> e \in Entry
    BY DEF MacTypeOK
  <2>1. CASE Learn
    <3> DEFINE new == [mac |-> frame.src, iface |-> frame.in, age |-> 0]
    <3>1. new \in table' /\ new.mac = frame.src
      BY <2>1 DEF Learn, InsertMacPort
    <3>2. e.mac # frame.src => e \in table'
      BY <2>1 DEF Learn, InsertMacPort, EntriesFor
    <3> QED BY <3>1, <3>2
  <2>2. CASE Sweep
    <3>1. e.mac \notin aged
      BY MacAssumption DEF AgedAreOld, Entry
    <3> QED BY <2>2, <3>1 DEF Sweep, Swept
  <2>3. CASE Tick
    <3>1. [e EXCEPT !.age = @ + 1] \in table' /\ [e EXCEPT !.age = @ + 1].mac = e.mac
      BY <2>3 DEF Tick, Entry
    <3> QED BY <3>1
  <2>4. table' = table
        \/ Learn \/ Sweep \/ Tick
    BY DEF MacNext, Lookup, ReadIface, Forward, ReadTime, Move, macVars
  <2> QED BY <2>1, <2>2, <2>3, <2>4
<1> QED BY <1>1, AgedInvariant, PTL DEF MacSpec, RemovedOnlyWhenOld

=============================================================================
