---------------------------- MODULE RootElection ----------------------------
(***************************************************************************)
(* What the spanning-tree protocol of 05-stp promises about a switch's     *)
(* belief, without ports, messages or timers: each switch holds the        *)
(* identity of the root it believes in and the cost of its path to it, and *)
(* the only thing that ever happens is that one switch improves its belief *)
(* to another one that the topology can really support.                    *)
(***************************************************************************)
EXTENDS Naturals

CONSTANTS
  Switch,   \* switch identities, ordered: the smaller one is the better root
  Dist      \* Dist[r][s] bounds the cost of any path from r to s from below

VARIABLE belief   \* belief[s] = [root, cost]

Belief == [root : Switch, cost : Nat]

Better(a, b) ==
  \/ a.root < b.root
  \/ a.root = b.root /\ a.cost < b.cost

Supported(s, b) == b.cost >= Dist[b.root][s]

Init == belief = [s \in Switch |-> [root |-> s, cost |-> 0]]

\* The new belief is stated over belief', so that a step can be recognised
\* without enumerating the costs.
Improve(s) ==
  /\ belief'[s] \in Belief
  /\ Better(belief'[s], belief[s])
  /\ Supported(s, belief'[s])
  /\ belief' = [belief EXCEPT ![s] = belief'[s]]

Next == \E s \in Switch : Improve(s)

Spec == Init /\ [][Next]_belief

=============================================================================
