------------------------------ MODULE LinkState ------------------------------
(***************************************************************************)
(* What the flooding of mOSPF promises: each router publishes versions of  *)
(* what it advertises; every other router has a copy of one of them, or    *)
(* none, and replaces it only by a later one.  Copies may be forgotten and *)
(* learned again; a router's own copy is always the latest.                *)
(***************************************************************************)
EXTENDS Naturals, Sequences

CONSTANTS
  Node,     \* the routers
  Content   \* what can be advertised

VARIABLES
  log,    \* the versions each router has published
  copy    \* the number of the version of each router that each router has

linkVars == <<log, copy>>

LinkInit ==
  /\ log = [o \in Node |-> <<>>]
  /\ copy = [q \in Node |-> [o \in Node |-> 0]]

Publish(o) ==
  /\ \E c \in Content : log' = [log EXCEPT ![o] = Append(@, c)]
  /\ copy' = [copy EXCEPT ![o][o] = Len(log[o]) + 1]

Learn(q, o) ==
  /\ q # o
  /\ \E v \in copy[q][o] + 1 .. Len(log[o]) : copy' = [copy EXCEPT ![q][o] = v]
  /\ UNCHANGED log

Forget(q, lost) ==
  /\ q \notin lost
  /\ copy' = [copy EXCEPT ![q] = [o \in Node |-> IF o \in lost THEN 0 ELSE @[o]]]
  /\ UNCHANGED log

LinkNext ==
  \/ \E o \in Node : Publish(o)
  \/ \E q, o \in Node : Learn(q, o)
  \/ \E q \in Node, lost \in SUBSET Node : Forget(q, lost)

LinkSpec == LinkInit /\ [][LinkNext]_linkVars

=============================================================================
