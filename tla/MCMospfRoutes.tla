---------------------------- MODULE MCMospfRoutes ----------------------------
(***************************************************************************)
(* The four routers of 09-mospf/topo.py, which form a ring, and the same   *)
(* ring with a link across, in both ways that differ for router 1.  A      *)
(* network is named by the routers in it; each has one for its hosts.      *)
(***************************************************************************)
EXTENDS MospfRoutes

MCRouter == 1..4

Ring == {{1, 2}, {1, 3}, {2, 4}, {3, 4}}
Links == Ring \cup {{1, 4}, {2, 3}}

MCNetwork == {{q} : q \in MCRouter} \cup Links
MCAttached == [q \in MCRouter |-> {n \in MCNetwork : q \in n}]
MCLinkNetwork == [l \in Links |-> l]

\* The networks of topo.py: hosts are only at routers 1 and 4.
TopoNetwork == {{1}, {4}} \cup Ring
TopoAttached == [q \in MCRouter |-> {n \in TopoNetwork : q \in n}]

RingOnly == {Ring}
AllCables == {Ring, Ring \cup {{1, 4}}, Ring \cup {{2, 3}}}

ListsOf(k) == {o \in [1..k -> MCRouter] : \A i, j \in 1..k : o[i] = o[j] => i = j}

CompleteLists == ListsOf(4)
AllLists == UNION {ListsOf(k) : k \in 1..4}

=============================================================================
