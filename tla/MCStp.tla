-------------------------------- MODULE MCStp --------------------------------
(***************************************************************************)
(* Small networks for Stp.                                                 *)
(***************************************************************************)
EXTENDS Stp, FiniteSets

\* A network is a set of links, a link the set of its two ends.
Ends(links) == UNION links

PeerOf(links) ==
  [p \in Ends(links) |-> CHOOSE q \in Ends(links) : q # p /\ {p, q} \in links]

SwitchesOf(links) == {p[1] : p \in Ends(links)}

\* Hop distances; nobody is further away than there are switches.
DistOf(links) ==
  LET S == SwitchesOf(links)
      Neighbor(s) == {t \in S : \E e \in links :
                        \E p, q \in e : p # q /\ p[1] = s /\ q[1] = t}
      Within[n \in 0..Cardinality(S)] ==
        [r \in S |-> IF n = 0 THEN {r}
                     ELSE Within[n - 1][r]
                            \cup UNION {Neighbor(t) : t \in Within[n - 1][r]}]
  IN  [r \in S |-> [s \in S |->
         CHOOSE n \in 0..Cardinality(S) :
           /\ s \in Within[n][r] \/ n = Cardinality(S)
           /\ \A m \in 0..(n - 1) : s \notin Within[m][r]]]

\* Three switches in a cycle.
Triangle == {{<<1, 1>>, <<2, 1>>}, {<<2, 2>>, <<3, 2>>}, {<<1, 2>>, <<3, 1>>}}

\* four_node_ring.py: b1-b2, b1-b3, b2-b4, b3-b4.
Ring == {{<<1, 1>>, <<2, 1>>}, {<<1, 2>>, <<3, 1>>},
         {<<2, 2>>, <<4, 1>>}, {<<3, 2>>, <<4, 2>>}}

TriangleSwitch == SwitchesOf(Triangle)
TrianglePort   == Ends(Triangle)
TrianglePeer   == PeerOf(Triangle)
TriangleDist   == DistOf(Triangle)

RingSwitch == SwitchesOf(Ring)
RingPort   == Ends(Ring)
RingPeer   == PeerOf(Ring)
RingDist   == DistOf(Ring)

=============================================================================
