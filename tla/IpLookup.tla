------------------------------ MODULE IpLookup ------------------------------
(***************************************************************************)
(* The prefix trees of 10-ip_lookup/tree.c: one that branches on each bit, *)
(* and one that branches on Stride bits at a time, in which a prefix that  *)
(* ends between two levels is expanded to all children it covers.  Both    *)
(* are built line by line from the forwarding table.  The first is the     *)
(* second with one bit at a time, and is called tree 1.                    *)
(***************************************************************************)
EXTENDS Naturals, Sequences

CONSTANTS
  Width,      \* bits of an address
  Stride,     \* bits of a level of the advanced tree
  Port,       \* ports
  NotAPort,   \* NOT_A_PORT
  MaxLines    \* bound of the model: lines of the forwarding table

ASSUME LookupAssumption ==
  /\ Width \in Nat /\ Stride \in Nat \ {0, 1} /\ Width % Stride = 0
  /\ NotAPort \notin Port
  /\ MaxLines \in Nat

Bit == {0, 1}
Address == [1..Width -> Bit]
Prefix == UNION {[1..n -> Bit] : n \in 0..Width}
Tree == {1, Stride}

VARIABLES
  table,    \* the port of each prefix listed so far
  line,     \* how many lines have been read
  nested,   \* history: no prefix was listed after one that it contains
  nodes,    \* the nodes of each tree, as the bits on the way to them
  port      \* the ports of its match nodes

vars == <<table, line, nested, nodes, port>>

IsPartOf(p, q) == Len(p) <= Len(q) /\ p = SubSeq(q, 1, Len(p))

\* The nodes on the way from the root along some bits.
Along(bits, s) == {SubSeq(bits, 1, k) : k \in {j \in 0..Len(bits) : j % s = 0}}

\* Empty trees: a root that matches nothing.
Init ==
  /\ table = <<>>
  /\ line = 0
  /\ nested = TRUE
  /\ nodes = [s \in Tree |-> {<<>>}]
  /\ port = [s \in Tree |-> <<>>]

\* A partial function with another value at some places.
With(f, places, value) ==
  [x \in DOMAIN f \cup places |-> IF x \in places THEN value ELSE f[x]]

\* How many bits of the level it ends in a prefix leaves open.
Open(prefix, s) == (s - (Len(prefix) % s)) % s

\* Mutated form: the first of the children only.
ExpandedFirst(prefix, s) ==
  {prefix \o [i \in 1..Open(prefix, s) |-> 0]}

\* Mutated form: the bits that do not fill a level are dropped.
ExpandedNot(prefix, s) == {SubSeq(prefix, 1, Len(prefix) - (Len(prefix) % s))}

\* The nodes a prefix is entered at: all those at the next level that it covers.
Expanded(prefix, s) ==
  {prefix \o rest : rest \in [1..Open(prefix, s) -> Bit]}

\* The nodes there are after a prefix has been entered, besides those before.
Created(prefix, s) == Along(prefix, s) \cup Expanded(prefix, s)

\* One line of the forwarding table.  A match node at which a prefix is entered
\* gets its port, whatever it had.
Insert(prefix, p) ==
  /\ line < MaxLines
  /\ line' = line + 1
  /\ nested' = (nested /\ \A q \in DOMAIN table : IsPartOf(prefix, q) => prefix = q)
  /\ table' = With(table, {prefix}, p)
  /\ nodes' = [s \in Tree |-> nodes[s] \cup Created(prefix, s)]
  /\ port' = [s \in Tree |-> With(port[s], Expanded(prefix, s), p)]

Next == \E prefix \in Prefix, p \in Port : Insert(prefix, p)

Spec == Init /\ [][Next]_vars

-----------------------------------------------------------------------------
(***************************************************************************)
(* Looking up, and its properties.                                         *)
(***************************************************************************)

\* Mutated form: the node after the last bit is not looked at.
ReachedEarly(ip, s) == {q \in Along(ip, s) : Len(q) < Width /\ Along(q, s) \subseteq nodes[s]}

\* Where a search arrives: it ends at the first node that is missing.
Reached(ip, s) == {q \in Along(ip, s) : Along(q, s) \subseteq nodes[s]}

Longest(paths) == CHOOSE p \in paths : \A q \in paths : Len(q) <= Len(p)

\* lookup_tree, lookup_tree_advance
Lookup(ip, s) ==
  LET matches == Reached(ip, s) \cap DOMAIN port[s]
  IN  IF matches = {} THEN NotAPort ELSE port[s][Longest(matches)]

\* The prefixes of an address in the forwarding table.
Listed(ip) == {p \in DOMAIN table : IsPartOf(p, ip)}

\* What the forwarding table says of an address.
LongestPrefixMatch(ip) ==
  IF Listed(ip) = {} THEN NotAPort ELSE table[Longest(Listed(ip))]

\* The basic tree does longest prefix matching, in whatever order the lines come.
BasicIsLongest == \A ip \in Address : Lookup(ip, 1) = LongestPrefixMatch(ip)

\* So does the advanced tree, although expanded prefixes overwrite one another,
\* when a prefix is never listed after one that it contains.
AdvancedIsLongest ==
  nested => \A ip \in Address : Lookup(ip, Stride) = LongestPrefixMatch(ip)

Level(p) == (Len(p) + Stride - 1) \div Stride

\* In other orders it may give the port of a shorter prefix of the address, but only
\* of one that ends within the same level as the longest, and never misses one.
WrongWithinLevel ==
  \A ip \in Address :
    IF Listed(ip) = {} THEN Lookup(ip, Stride) = NotAPort
    ELSE \E p \in Listed(ip) :
           /\ Level(p) = Level(Longest(Listed(ip)))
           /\ Lookup(ip, Stride) = table[p]

=============================================================================
