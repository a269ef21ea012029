---------------------------- MODULE LookupProofs ----------------------------
(***************************************************************************)
(* Proofs about IpLookup: what the two trees answer, for all forwarding    *)
(* tables, widths and strides.                                             *)
(***************************************************************************)
EXTENDS IpLookup, Integers, FiniteSetTheorems, SequenceTheorems, TLAPS

-----------------------------------------------------------------------------
(***************************************************************************)
(* Levels.                                                                 *)
(***************************************************************************)

LEMMA Division ==
  ASSUME NEW s \in Nat \ {0}, NEW n \in Nat
  PROVE  n % s \in 0..s-1 /\ n \div s \in Nat /\ n = s * (n \div s) + (n % s)
OBVIOUS

LEMMA Product ==
  ASSUME NEW s \in Nat \ {0}, NEW a \in Nat, NEW b \in Nat, a < b
  PROVE  s * a + s <= s * b /\ s * a \in Nat /\ s * b \in Nat
<1>1. PICK c \in Nat : b = a + 1 + c
  <2> b - a - 1 \in Nat
    OBVIOUS
  <2> b = a + 1 + (b - a - 1)
    OBVIOUS
  <2> QED OBVIOUS
<1>2. s * b = s * a + s + s * c
  BY <1>1
<1>3. s * c \in Nat /\ s * a \in Nat
  OBVIOUS
<1> QED BY <1>2, <1>3

\* Multiples are at least one level apart.
LEMMA Multiples ==
  ASSUME NEW s \in Nat \ {0}, NEW j \in Nat, NEW k \in Nat, j % s = 0, k % s = 0, j < k
  PROVE  j + s <= k
<1> DEFINE a == j \div s
           b == k \div s
<1>1. j = s * a /\ k = s * b /\ a \in Nat /\ b \in Nat
  BY Division
<1> HIDE DEF a, b
<1>2. a < b
  <2> SUFFICES ASSUME b <= a PROVE FALSE
    BY <1>1
  <2>1. CASE b = a
    BY <1>1, <2>1
  <2>2. CASE b < a
    BY <1>1, <2>2, Product
  <2> QED BY <1>1, <2>1, <2>2
<1> QED BY <1>1, <1>2, Product

LEMMA Quotient ==
  ASSUME NEW s \in Nat \ {0}, NEW a \in Nat, NEW r \in 0..s-1
  PROVE  (s * a + r) % s = r /\ (s * a + r) \div s = a
<1> DEFINE n == s * a + r
           q == n \div s
           m == n % s
<1>1. n \in Nat /\ q \in Nat /\ m \in 0..s-1 /\ s * q + m = s * a + r
  <2> s * a \in Nat
    OBVIOUS
  <2> QED BY Division
<1> HIDE DEF q, m, n
<1>2. s * q \in Nat /\ s * a \in Nat
  BY <1>1
<1>3. CASE q < a
  BY <1>1, <1>2, <1>3, Product
<1>4. CASE a < q
  BY <1>1, <1>2, <1>4, Product
<1>5. q = a
  BY <1>1, <1>3, <1>4
<1> QED BY <1>1, <1>2, <1>5 DEF q, m, n

\* The bits of the level a prefix ends in and of those before.
Up(n, s) == n + ((s - (n % s)) % s)

LEMMA UpIs ==
  ASSUME NEW s \in Nat \ {0}, NEW n \in Nat
  PROVE  /\ Up(n, s) \in Nat /\ n <= Up(n, s) /\ Up(n, s) < n + s /\ Up(n, s) % s = 0
         /\ (s - (n % s)) % s \in Nat
         /\ (n + s - 1) \div s = Up(n, s) \div s
<1>1. PICK a \in Nat, r \in 0..s-1 : n = s * a + r /\ n % s = r
  BY Division
<1>2. PICK t \in Nat : t = s * a
  BY Product
<1>3. n = t + r /\ r \in 0..s-1 /\ Up(n, s) = n + ((s - r) % s)
  BY <1>1, <1>2 DEF Up
<1>4. CASE r = 0
  <2>1. s % s = 0
    <3>1. (s * 1 + 0) % s = 0
      BY Quotient
    <3> QED BY <3>1
  <2>2. Up(n, s) = n /\ (s - (n % s)) % s = 0
    BY <1>1, <1>3, <1>4, <2>1
  <2>3. (t + (s - 1)) \div s = a /\ (t + 0) \div s = a
    BY <1>1, <1>2, Quotient
  <2>4. n + s - 1 = t + (s - 1) /\ n = t + 0
    BY <1>3, <1>4
  <2>5. (n + s - 1) \div s = n \div s
    BY <2>3, <2>4
  <2> QED BY <1>1, <1>4, <2>2, <2>5
<1>5. CASE r # 0
  <2>1. (s - r) % s = s - r
    <3>1. PICK u \in 0..s-1 : u = s - r
      BY <1>3, <1>5
    <3>2. (s * 0 + u) % s = u
      BY Quotient
    <3>3. s * 0 + u = u
      OBVIOUS
    <3> QED BY <3>1, <3>2, <3>3
  <2>2. Up(n, s) = n + s - r /\ Up(n, s) = t + s + 0 /\ (s - (n % s)) % s \in Nat
    BY <1>1, <1>3, <2>1
  <2>3. PICK b \in Nat : b = a + 1
    OBVIOUS
  <2>4. s * b = t + s
    BY <1>2, <2>3
  <2>5. (s * b + 0) % s = 0 /\ (s * b + 0) \div s = b
    BY Quotient
  <2>6. PICK u \in 0..s-1 : u = r - 1
    BY <1>3, <1>5
  <2>7. n + s - 1 = t + s + u
    BY <1>3, <2>6
  <2>8. (s * b + u) \div s = b
    BY Quotient
  <2>9. (n + s - 1) \div s = Up(n, s) \div s /\ Up(n, s) % s = 0
    BY <2>2, <2>4, <2>5, <2>7, <2>8
  <2> QED BY <1>3, <1>5, <2>2, <2>9
<1> QED BY <1>4, <1>5

LEMMA UpLeast ==
  ASSUME NEW s \in Nat \ {0}, NEW n \in Nat, NEW k \in Nat, k % s = 0, n <= k
  PROVE  Up(n, s) <= k
<1>1. /\ Up(n, s) \in Nat /\ Up(n, s) < n + s /\ Up(n, s) % s = 0
  BY UpIs
<1> SUFFICES ASSUME k < Up(n, s) PROVE FALSE
  BY <1>1
<1>2. k + s <= Up(n, s)
  BY <1>1, Multiples
<1> QED BY <1>1, <1>2

LEMMA UpMonotone ==
  ASSUME NEW s \in Nat \ {0}, NEW n \in Nat, NEW k \in Nat, n <= k
  PROVE  Up(n, s) <= Up(k, s)
<1>1. Up(k, s) \in Nat /\ k <= Up(k, s) /\ Up(k, s) % s = 0
  BY UpIs
<1>2. n <= Up(k, s)
  BY <1>1
<1> QED BY <1>1, <1>2, UpLeast

LEMMA TreeType == \A s \in Tree : s \in Nat \ {0} /\ Width % s = 0
<1>1. Width % 1 = 0
  BY LookupAssumption
<1> QED BY <1>1, LookupAssumption DEF Tree

-----------------------------------------------------------------------------
(***************************************************************************)
(* Prefixes.                                                               *)
(***************************************************************************)

LEMMA PrefixIs ==
  ASSUME NEW p
  PROVE  p \in Prefix <=> p \in Seq(Bit) /\ Len(p) \in 0..Width
<1>1. Width \in Nat
  BY LookupAssumption
<1>2. ASSUME p \in Prefix PROVE p \in Seq(Bit) /\ Len(p) \in 0..Width
  <2>1. PICK n \in 0..Width : p \in [1..n -> Bit]
    BY <1>2 DEF Prefix
  <2>2. p \in Seq(Bit) /\ Len(p) = n
    BY <1>1, <2>1, SeqDef, LenProperties
  <2> QED BY <2>2
<1>3. ASSUME p \in Seq(Bit), Len(p) \in 0..Width PROVE p \in Prefix
  <2>1. p \in [1..Len(p) -> Bit]
    BY <1>3, LenProperties
  <2> QED BY <1>3, <2>1 DEF Prefix
<1> QED BY <1>2, <1>3

LEMMA AddressIs ==
  ASSUME NEW ip \in Address
  PROVE  ip \in Prefix /\ Len(ip) = Width
<1>1. Width \in 0..Width
  BY LookupAssumption
<1>2. ip \in Prefix
  BY <1>1 DEF Address, Prefix
<1>3. ip \in Seq(Bit) /\ ip \in [1..Width -> Bit]
  BY <1>2, PrefixIs DEF Address
<1> QED BY <1>1, <1>2, <1>3, LenProperties

LEMMA CutIs ==
  ASSUME NEW q \in Prefix, NEW k \in 0..Len(q)
  PROVE  /\ SubSeq(q, 1, k) \in Prefix
         /\ Len(SubSeq(q, 1, k)) = k
         /\ \A i \in 1..k : SubSeq(q, 1, k)[i] = q[i]
<1>1. q \in Seq(Bit) /\ Len(q) \in 0..Width /\ Width \in Nat
  BY PrefixIs, LookupAssumption
<1>2. \A i \in 1..k : q[i] \in Bit
  BY <1>1, ElementOfSeq
<1>3. /\ SubSeq(q, 1, k) \in Seq(Bit)
      /\ Len(SubSeq(q, 1, k)) = IF 1 <= k THEN k - 1 + 1 ELSE 0
      /\ \A i \in 1..k - 1 + 1 : SubSeq(q, 1, k)[i] = q[1 + i - 1]
  BY <1>1, <1>2, SubSeqProperties
<1>4. Len(SubSeq(q, 1, k)) = k /\ k - 1 + 1 = k /\ k \in 0..Width
  BY <1>1, <1>3
<1>5. \A i \in 1..k : SubSeq(q, 1, k)[i] = q[i]
  BY <1>3, <1>4
<1> QED BY <1>3, <1>4, <1>5, PrefixIs

LEMMA PartIs ==
  ASSUME NEW p \in Prefix, NEW q \in Prefix
  PROVE  IsPartOf(p, q) <=> Len(p) <= Len(q) /\ \A i \in 1..Len(p) : p[i] = q[i]
<1>1. p \in Seq(Bit) /\ q \in Seq(Bit) /\ Len(p) \in Nat /\ Len(q) \in Nat
  BY PrefixIs
<1> SUFFICES ASSUME Len(p) <= Len(q)
             PROVE  p = SubSeq(q, 1, Len(p)) <=> \A i \in 1..Len(p) : p[i] = q[i]
  BY DEF IsPartOf
<1> DEFINE cut == SubSeq(q, 1, Len(p))
<1>2. cut \in Prefix /\ Len(cut) = Len(p) /\ \A i \in 1..Len(p) : cut[i] = q[i]
  BY <1>1, CutIs
<1>3. cut \in Seq(Bit)
  BY <1>2, PrefixIs
<1> HIDE DEF cut
<1>4. (\A i \in 1..Len(p) : p[i] = cut[i]) => p = cut
  BY <1>1, <1>2, <1>3, SeqEqual
<1>5. p = cut <=> \A i \in 1..Len(p) : p[i] = q[i]
  BY <1>2, <1>4
<1> QED BY <1>5 DEF cut

\* Parts of the same bits are parts of one another.
LEMMA PartOrder ==
  ASSUME NEW p \in Prefix, NEW q \in Prefix, NEW e \in Prefix, IsPartOf(q, e)
  PROVE  /\ IsPartOf(p, q) => IsPartOf(p, e)
         /\ IsPartOf(p, e) /\ Len(p) <= Len(q) => IsPartOf(p, q)
         /\ IsPartOf(p, e) /\ Len(p) = Len(q) => p = q
<1>1. /\ p \in Seq(Bit) /\ q \in Seq(Bit)
      /\ Len(p) \in Nat /\ Len(q) \in Nat /\ Len(e) \in Nat
  BY PrefixIs
<1>2. Len(q) <= Len(e) /\ \A i \in 1..Len(q) : q[i] = e[i]
  BY PartIs
<1>3. IsPartOf(p, e) <=> Len(p) <= Len(e) /\ \A i \in 1..Len(p) : p[i] = e[i]
  BY PartIs
<1>4. IsPartOf(p, q) <=> Len(p) <= Len(q) /\ \A i \in 1..Len(p) : p[i] = q[i]
  BY PartIs
<1>5. IsPartOf(p, q) => IsPartOf(p, e)
  BY <1>1, <1>2, <1>3, <1>4
<1>6. IsPartOf(p, e) /\ Len(p) <= Len(q) => IsPartOf(p, q)
  BY <1>1, <1>2, <1>3, <1>4
<1>7. IsPartOf(p, e) /\ Len(p) = Len(q) => p = q
  BY <1>1, <1>2, <1>3, SeqEqual
<1> QED BY <1>5, <1>6, <1>7

\* Numbers have a smallest among them: the ranges 1..n have by inclusion.
LEMMA Smallest ==
  ASSUME NEW S \in SUBSET Nat, S # {}
  PROVE  \E n \in S : \A m \in S : n <= m
<1> DEFINE T == {1..n : n \in S}
           R == StrictSubsetOrdering(Nat)
<1>1. IsWellFoundedOn(R, FiniteSubsetsOf(Nat))
  BY FS_StrictSubsetOrderingWellFounded
<1>2. T \subseteq FiniteSubsetsOf(Nat) /\ T # {}
  <2>1. \A n \in S : IsFiniteSet(1..n) /\ 1..n \in SUBSET Nat
    BY FS_Interval
  <2> QED BY <2>1 DEF FiniteSubsetsOf
<1>3. \E x \in T : \A y \in T : ~(<<y, x>> \in R)
  <2> HIDE DEF T, R
  <2> QED BY <1>1, <1>2, WFMin
<1>4. PICK n \in S : \A m \in S : ~(<<1..m, 1..n>> \in R)
  BY <1>3
<1>5. \A m \in S : ~(1..m \subseteq 1..n /\ 1..m # 1..n)
  <2>1. \A m \in S : 1..m \in SUBSET Nat
    OBVIOUS
  <2>2. \A A, B \in SUBSET Nat : A \subseteq B /\ A # B => <<A, B>> \in R
    BY DEF StrictSubsetOrdering
  <2> HIDE DEF R
  <2> QED BY <1>4, <2>1, <2>2
<1>6. ASSUME NEW m \in S PROVE n <= m
  <2> SUFFICES ASSUME m < n PROVE FALSE
    BY <1>4, <1>6
  <2>1. 1..m \subseteq 1..n
    OBVIOUS
  <2>2. n \in 1..n /\ n \notin 1..m
    OBVIOUS
  <2> QED BY <1>5, <1>6, <2>1, <2>2
<1> QED BY <1>4, <1>6

\* Prefixes have a longest among them.
LEMMA LongestIs ==
  ASSUME NEW S \in SUBSET Prefix, S # {}
  PROVE  Longest(S) \in S /\ \A q \in S : Len(q) <= Len(Longest(S))
<1> DEFINE T == {Width - Len(p) : p \in S}
<1>1. \A p \in S : Len(p) \in 0..Width
  BY PrefixIs
<1>2. T \in SUBSET Nat /\ T # {}
  BY <1>1, LookupAssumption
<1>3. \E n \in T : \A m \in T : n <= m
  <2> HIDE DEF T
  <2> QED BY <1>2, Smallest
<1>4. PICK p \in S : \A q \in S : Width - Len(p) <= Width - Len(q)
  BY <1>3
<1>5. \A q \in S : Len(q) <= Len(p)
  BY <1>1, <1>4, LookupAssumption
<1> QED BY <1>5 DEF Longest

-----------------------------------------------------------------------------
(***************************************************************************)
(* Where prefixes are entered, and where searches pass.                    *)
(***************************************************************************)

LEMMA ExpandedIs ==
  ASSUME NEW s \in Tree, NEW p \in Prefix, NEW e
  PROVE  e \in Expanded(p, s)
           <=> e \in Prefix /\ Len(e) = Up(Len(p), s) /\ IsPartOf(p, e)
<1>1. s \in Nat \ {0} /\ Width % s = 0 /\ Width \in Nat
  BY TreeType, LookupAssumption
<1>2. p \in Seq(Bit) /\ Len(p) \in 0..Width /\ Len(p) \in Nat
  BY <1>1, PrefixIs
<1> DEFINE k == Open(p, s)
           n == Len(p)
<1>3. k \in Nat /\ Up(n, s) = n + k
  BY <1>1, <1>2, UpIs DEF Up, Open
<1>4. Up(n, s) \in 0..Width
  BY <1>1, <1>2, UpIs, UpLeast
<1> HIDE DEF k, n
<1>5. n \in Nat /\ n = Len(p)
  BY <1>2 DEF n
<1>6. ASSUME e \in Expanded(p, s)
      PROVE  e \in Prefix /\ Len(e) = n + k /\ IsPartOf(p, e)
  <2>1. PICK rest \in [1..k -> Bit] : e = p \o rest
    BY <1>6 DEF Expanded, k
  <2>2. rest \in Seq(Bit) /\ Len(rest) = k
    BY <1>3, <2>1, SeqDef, LenProperties
  <2>3. e \in Seq(Bit) /\ Len(e) = n + k /\ \A i \in 1..n + k : e[i] = IF i <= n THEN p[i] ELSE rest[i - n]
    BY <1>2, <1>5, <2>1, <2>2, ConcatProperties
  <2>4. e \in Prefix
    BY <1>3, <1>4, <2>3, PrefixIs
  <2>5. n <= Len(e) /\ \A i \in 1..n : p[i] = e[i]
    BY <1>3, <1>5, <2>3
  <2> QED BY <1>5, <2>3, <2>4, <2>5, PartIs
<1>7. ASSUME e \in Prefix, Len(e) = n + k, IsPartOf(p, e)
      PROVE  e \in Expanded(p, s)
  <2> DEFINE rest == [i \in 1..k |-> e[n + i]]
  <2>1. e \in Seq(Bit) /\ \A i \in 1..n : p[i] = e[i]
    BY <1>5, <1>7, PrefixIs, PartIs
  <2>2. \A i \in 1..n + k : e[i] \in Bit
    BY <1>7, <2>1, ElementOfSeq
  <2>3. rest \in [1..k -> Bit]
    BY <1>3, <1>5, <2>2
  <2>4. \A i \in 1..k : rest[i] = e[n + i]
    OBVIOUS
  <2> HIDE DEF rest
  <2>5. rest \in Seq(Bit) /\ Len(rest) = k
    BY <1>3, <2>3, SeqDef, LenProperties
  <2>6. /\ p \o rest \in Seq(Bit) /\ Len(p \o rest) = n + k
        /\ \A i \in 1..n + k : (p \o rest)[i] = IF i <= n THEN p[i] ELSE rest[i - n]
    BY <1>2, <1>5, <2>5, ConcatProperties
  <2>7. \A i \in 1..n + k : (p \o rest)[i] = e[i]
    <3> SUFFICES ASSUME NEW i \in 1..n + k PROVE (p \o rest)[i] = e[i]
      OBVIOUS
    <3>1. CASE i <= n
      BY <1>3, <1>5, <2>1, <2>6, <3>1
    <3>2. CASE ~(i <= n)
      <4>1. i - n \in 1..k /\ n + (i - n) = i
        BY <1>3, <1>5, <3>2
      <4> QED BY <2>4, <2>6, <3>2, <4>1
    <3> QED BY <3>1, <3>2
  <2>8. p \o rest = e
    BY <1>7, <2>1, <2>6, <2>7, SeqEqual
  <2> QED BY <2>3, <2>8 DEF Expanded, k
<1> QED BY <1>3, <1>5, <1>6, <1>7

LEMMA AlongIs ==
  ASSUME NEW s \in Tree, NEW bits \in Prefix, NEW q
  PROVE  q \in Along(bits, s) <=> q \in Prefix /\ Len(q) % s = 0 /\ IsPartOf(q, bits)
<1>1. ASSUME q \in Along(bits, s) PROVE q \in Prefix /\ Len(q) % s = 0 /\ IsPartOf(q, bits)
  <2>1. PICK k \in 0..Len(bits) : k % s = 0 /\ q = SubSeq(bits, 1, k)
    BY <1>1 DEF Along
  <2>2. Len(bits) \in Nat
    BY PrefixIs
  <2>3. q \in Prefix /\ Len(q) = k
    BY <2>1, CutIs
  <2> QED BY <2>1, <2>2, <2>3 DEF IsPartOf
<1>2. ASSUME q \in Prefix, Len(q) % s = 0, IsPartOf(q, bits) PROVE q \in Along(bits, s)
  <2>1. Len(q) \in 0..Len(bits) /\ q = SubSeq(bits, 1, Len(q))
    BY <1>2, PrefixIs DEF IsPartOf
  <2> QED BY <1>2, <2>1 DEF Along
<1> QED BY <1>1, <1>2

\* Entering a prefix creates every node on the way to where it is entered.
LEMMA CreatedAll ==
  ASSUME NEW s \in Tree, NEW p \in Prefix, NEW e \in Expanded(p, s)
  PROVE  Along(e, s) \subseteq Created(p, s)
<1> SUFFICES ASSUME NEW q \in Along(e, s) PROVE q \in Created(p, s)
  OBVIOUS
<1>1. e \in Prefix /\ Len(e) = Up(Len(p), s) /\ IsPartOf(p, e)
  BY ExpandedIs
<1>2. q \in Prefix /\ Len(q) % s = 0 /\ IsPartOf(q, e)
  BY <1>1, AlongIs
<1>3. s \in Nat \ {0} /\ Len(p) \in Nat /\ Len(q) \in Nat /\ Len(e) \in Nat
  BY <1>1, <1>2, TreeType, PrefixIs
<1>4. CASE Len(q) <= Len(p)
  <2>1. IsPartOf(q, p)
    BY <1>1, <1>2, <1>4, PartOrder
  <2> QED BY <1>2, <2>1, AlongIs DEF Created
<1>5. CASE ~(Len(q) <= Len(p))
  <2>1. Len(q) <= Len(e) /\ Up(Len(p), s) <= Len(q)
    BY <1>2, <1>3, <1>5, UpLeast DEF IsPartOf
  <2>2. Len(q) = Len(e)
    BY <1>1, <1>3, <2>1
  <2>3. IsPartOf(e, e)
    BY <1>1, <1>3, PartIs
  <2>4. q = e
    BY <1>1, <1>2, <2>2, <2>3, PartOrder
  <2> QED BY <2>4 DEF Created
<1> QED BY <1>4, <1>5

-----------------------------------------------------------------------------
(***************************************************************************)
(* The invariant.                                                          *)
(***************************************************************************)

\* A match node has the port of a listed prefix that is entered there, of the
\* longest when none was listed after one that it contains, and can be reached.
RightAt(e, s) ==
  /\ Along(e, s) \subseteq nodes[s]
  /\ \E p \in DOMAIN table :
       /\ e \in Expanded(p, s)
       /\ port[s][e] = table[p]
       /\ nested => \A q \in DOMAIN table : e \in Expanded(q, s) => Len(q) <= Len(p)

EnteredAt(s) ==
  /\ \A p \in DOMAIN table : Expanded(p, s) \subseteq DOMAIN port[s]
  /\ \A e \in DOMAIN port[s] : RightAt(e, s)

LookupInv ==
  /\ DOMAIN table \subseteq Prefix
  /\ \A s \in Tree : EnteredAt(s)

LEMMA LookupInvInit == Init => LookupInv
<1> SUFFICES ASSUME Init PROVE LookupInv
  OBVIOUS
<1>1. DOMAIN table = {} /\ \A s \in Tree : DOMAIN port[s] = {}
  BY DEF Init
<1> QED BY <1>1 DEF LookupInv, EnteredAt

LEMMA InsertStep ==
  ASSUME LookupInv, NEW prefix \in Prefix, NEW p \in Port, Insert(prefix, p)
  PROVE  LookupInv'
<1>1. table' = With(table, {prefix}, p)
  BY DEF Insert
<1>2. /\ DOMAIN table' = DOMAIN table \cup {prefix}
      /\ table'[prefix] = p
      /\ \A q \in DOMAIN table \ {prefix} : table'[q] = table[q]
  BY <1>1 DEF With
<1>3. DOMAIN table' \subseteq Prefix
  BY <1>2 DEF LookupInv
<1>4. ASSUME NEW s \in Tree PROVE EnteredAt(s)'
  <2> DEFINE here == Expanded(prefix, s)
  <2>1. port'[s] = With(port[s], here, p) /\ nodes'[s] = nodes[s] \cup Created(prefix, s)
    BY DEF Insert
  <2>2. /\ DOMAIN port'[s] = DOMAIN port[s] \cup here
        /\ \A e \in here : port'[s][e] = p
        /\ \A e \in DOMAIN port[s] \ here : port'[s][e] = port[s][e]
    BY <2>1 DEF With
  <2>3. \A q \in DOMAIN table' : Expanded(q, s) \subseteq DOMAIN port'[s]
    BY <1>2, <2>2 DEF LookupInv, EnteredAt
  <2>4. ASSUME NEW e \in here PROVE RightAt(e, s)'
    <3>1. Along(e, s) \subseteq nodes'[s]
      BY <2>1, CreatedAll
    <3>2. ASSUME nested', NEW q \in DOMAIN table', e \in Expanded(q, s)
          PROVE  Len(q) <= Len(prefix)
      <4>1. q \in Prefix /\ Len(q) \in Nat /\ Len(prefix) \in Nat
        BY <1>3, PrefixIs
      <4>2. IsPartOf(q, e) /\ IsPartOf(prefix, e) /\ e \in Prefix
        BY <3>2, <4>1, ExpandedIs
      <4>3. CASE q \in DOMAIN table
        <5> SUFFICES ASSUME Len(prefix) < Len(q) PROVE FALSE
          BY <4>1
        <5>1. IsPartOf(prefix, q)
          BY <4>1, <4>2, PartOrder
        <5>2. prefix = q
          BY <3>2, <4>3, <5>1 DEF Insert
        <5> QED BY <4>1, <5>2
      <4> QED BY <1>2, <4>1, <4>3
    <3> QED BY <1>2, <2>2, <2>4, <3>1, <3>2 DEF RightAt
  <2>5. ASSUME NEW e \in DOMAIN port[s] \ here PROVE RightAt(e, s)'
    <3>1. PICK q \in DOMAIN table :
            /\ e \in Expanded(q, s)
            /\ port[s][e] = table[q]
            /\ nested => \A r \in DOMAIN table : e \in Expanded(r, s) => Len(r) <= Len(q)
      BY DEF LookupInv, EnteredAt, RightAt
    <3>2. Along(e, s) \subseteq nodes'[s]
      BY <2>1 DEF LookupInv, EnteredAt, RightAt
    <3>3. q # prefix /\ table'[q] = table[q] /\ port'[s][e] = port[s][e]
      BY <1>2, <2>2, <2>5, <3>1
    <3>4. nested' => \A r \in DOMAIN table' : e \in Expanded(r, s) => Len(r) <= Len(q)
      BY <1>2, <2>5, <3>1 DEF Insert
    <3> QED BY <1>2, <3>1, <3>2, <3>3, <3>4 DEF RightAt
  <2> QED BY <2>2, <2>3, <2>4, <2>5 DEF EnteredAt
<1> QED BY <1>3, <1>4 DEF LookupInv

THEOREM LookupInvariant == Spec => []LookupInv
<1>1. LookupInv /\ [Next]_vars => LookupInv'
  <2> SUFFICES ASSUME LookupInv, [Next]_vars PROVE LookupInv'
    OBVIOUS
  <2>1. CASE UNCHANGED vars
    BY <2>1 DEF vars, LookupInv, EnteredAt, RightAt
  <2> QED BY <2>1, InsertStep DEF Next
<1> QED BY <1>1, LookupInvInit, PTL DEF Spec

-----------------------------------------------------------------------------
(***************************************************************************)
(* What is looked up.                                                      *)
(***************************************************************************)
Matches(ip, s) == Reached(ip, s) \cap DOMAIN port[s]

LEMMA ListedIs ==
  ASSUME LookupInv, NEW ip \in Address
  PROVE  /\ Listed(ip) \in SUBSET Prefix
         /\ \A p \in Listed(ip) : p \in DOMAIN table /\ IsPartOf(p, ip)
BY DEF LookupInv, Listed

\* Every listed prefix of an address is found where it was entered.
LEMMA FoundThere ==
  ASSUME LookupInv, NEW ip \in Address, NEW s \in Tree, NEW p \in Listed(ip)
  PROVE  \E e \in Matches(ip, s) : Len(e) = Up(Len(p), s)
<1>1. p \in Prefix /\ p \in DOMAIN table /\ IsPartOf(p, ip)
  BY ListedIs
<1>2. ip \in Prefix /\ Len(ip) = Width
  BY AddressIs
<1>3. s \in Nat \ {0} /\ Width % s = 0 /\ Width \in Nat /\ Len(p) \in 0..Width
  BY <1>1, TreeType, LookupAssumption, PrefixIs
<1> DEFINE k == Up(Len(p), s)
<1>4. k \in 0..Width /\ Len(p) <= k /\ k % s = 0
  BY <1>3, UpIs, UpLeast
<1> HIDE DEF k
<1> DEFINE e == SubSeq(ip, 1, k)
<1>5. e \in Prefix /\ Len(e) = k
  BY <1>2, <1>4, CutIs
<1>6. IsPartOf(e, ip)
  BY <1>2, <1>4, <1>5 DEF IsPartOf
<1> HIDE DEF e
<1>7. IsPartOf(p, e)
  BY <1>1, <1>2, <1>4, <1>5, <1>6, PartOrder
<1>8. e \in DOMAIN port[s]
  BY <1>1, <1>5, <1>7, ExpandedIs DEF LookupInv, EnteredAt, k
<1>9. e \in Along(ip, s)
  BY <1>2, <1>4, <1>5, <1>6, AlongIs
<1> QED BY <1>5, <1>8, <1>9 DEF Matches, Reached, LookupInv, EnteredAt, RightAt, k

\* What a match stands for.
LEMMA MatchIs ==
  ASSUME LookupInv, NEW ip \in Address, NEW s \in Tree, NEW e \in Matches(ip, s)
  PROVE  \E p \in Listed(ip) :
           /\ Len(e) = Up(Len(p), s)
           /\ port[s][e] = table[p]
           /\ nested => \A q \in Listed(ip) : Up(Len(q), s) = Len(e) => Len(q) <= Len(p)
<1>1. ip \in Prefix
  BY AddressIs
<1>2. e \in Prefix /\ IsPartOf(e, ip)
  BY <1>1, AlongIs DEF Matches, Reached
<1>3. PICK p \in DOMAIN table :
        /\ e \in Expanded(p, s)
        /\ port[s][e] = table[p]
        /\ nested => \A q \in DOMAIN table : e \in Expanded(q, s) => Len(q) <= Len(p)
  BY DEF Matches, LookupInv, EnteredAt, RightAt
<1>4. p \in Prefix
  BY DEF LookupInv
<1>5. Len(e) = Up(Len(p), s) /\ IsPartOf(p, e)
  BY <1>3, <1>4, ExpandedIs
<1>6. p \in Listed(ip)
  BY <1>1, <1>2, <1>4, <1>5, PartOrder DEF Listed
<1>7. ASSUME NEW q \in Listed(ip), Up(Len(q), s) = Len(e) PROVE e \in Expanded(q, s)
  <2>1. q \in Prefix /\ IsPartOf(q, ip) /\ Len(q) \in Nat /\ s \in Nat \ {0}
    BY ListedIs, PrefixIs, TreeType
  <2>2. Len(q) <= Len(e)
    BY <1>7, <2>1, UpIs
  <2>3. IsPartOf(q, e)
    BY <1>1, <1>2, <2>1, <2>2, PartOrder
  <2> QED BY <1>2, <1>7, <2>1, <2>3, ExpandedIs
<1> QED BY <1>3, <1>5, <1>6, <1>7, ListedIs

\* An answer is right but for the level, and right when prefixes came nested or
\* when levels are bits.
LEMMA AnswerIs ==
  ASSUME LookupInv, NEW ip \in Address, NEW s \in Tree
  PROVE  IF Listed(ip) = {} THEN Lookup(ip, s) = NotAPort
         ELSE \E p \in Listed(ip) :
                /\ Up(Len(p), s) = Up(Len(Longest(Listed(ip))), s)
                /\ Lookup(ip, s) = table[p]
                /\ nested \/ s = 1 => p = Longest(Listed(ip))
<1>1. CASE Listed(ip) = {}
  <2>1. Matches(ip, s) = {}
    BY <1>1, MatchIs
  <2> QED BY <1>1, <2>1 DEF Lookup, Matches
<1>2. CASE Listed(ip) # {}
  <2> DEFINE long == Longest(Listed(ip))
             last == Longest(Matches(ip, s))
  <2>1. long \in Listed(ip) /\ \A q \in Listed(ip) : Len(q) <= Len(long)
    BY <1>2, ListedIs, LongestIs
  <2>2. \A q \in Listed(ip) : q \in Prefix /\ Len(q) \in Nat /\ IsPartOf(q, ip)
    BY ListedIs, PrefixIs
  <2>3. Matches(ip, s) \in SUBSET Prefix /\ Matches(ip, s) # {}
    <3>1. Matches(ip, s) \in SUBSET Prefix
      BY AddressIs, AlongIs DEF Matches, Reached
    <3> QED BY <2>1, <3>1, FoundThere
  <2>4. last \in Matches(ip, s) /\ \A e \in Matches(ip, s) : Len(e) <= Len(last)
    BY <2>3, LongestIs
  <2>5. Lookup(ip, s) = port[s][last]
    BY <2>3 DEF Lookup, Matches
  <2> HIDE DEF long, last
  <2>6. PICK p \in Listed(ip) :
          /\ Len(last) = Up(Len(p), s)
          /\ port[s][last] = table[p]
          /\ nested => \A q \in Listed(ip) : Up(Len(q), s) = Len(last) => Len(q) <= Len(p)
    BY <2>4, MatchIs
  <2>7. Up(Len(p), s) = Up(Len(long), s)
    <3>1. PICK e \in Matches(ip, s) : Len(e) = Up(Len(long), s)
      BY <2>1, FoundThere
    <3>2. Up(Len(long), s) <= Up(Len(p), s)
      BY <2>4, <2>6, <3>1
    <3>3. s \in Nat \ {0} /\ Len(p) \in Nat /\ Len(long) \in Nat /\ Len(p) <= Len(long)
      BY <2>1, <2>2, TreeType
    <3>4. Up(Len(p), s) <= Up(Len(long), s)
      BY <3>3, UpMonotone
    <3>5. Up(Len(p), s) \in Nat /\ Up(Len(long), s) \in Nat
      BY <3>3, UpIs
    <3> QED BY <3>2, <3>4, <3>5
  <2>8. ASSUME nested \/ s = 1 PROVE p = long
    <3>1. Len(p) \in Nat /\ Len(long) \in Nat /\ Len(p) <= Len(long)
      BY <2>1, <2>2
    <3>2. Len(p) = Len(long)
      <4>1. CASE nested
        BY <2>1, <2>6, <2>7, <3>1, <4>1
      <4>2. CASE s = 1
        <5>1. \A n \in Nat : n <= Up(n, 1) /\ Up(n, 1) < n + 1 /\ Up(n, 1) \in Nat
          BY UpIs
        <5>2. \A n \in Nat : Up(n, 1) = n
          BY <5>1
        <5> QED BY <2>7, <3>1, <4>2, <5>2
      <4> QED BY <2>8, <4>1, <4>2
    <3> QED BY <2>1, <2>2, <3>2, AddressIs, PartOrder
  <2> QED BY <1>2, <2>5, <2>6, <2>7, <2>8 DEF long
<1> QED BY <1>1, <1>2

\* The basic tree does longest prefix matching, whatever the forwarding table and
\* in whatever order its lines come (create_tree, lookup_tree).
THEOREM BasicTreeCorrect == Spec => []BasicIsLongest
<1>1. LookupInv => BasicIsLongest
  <2> SUFFICES ASSUME LookupInv, NEW ip \in Address PROVE Lookup(ip, 1) = LongestPrefixMatch(ip)
    BY DEF BasicIsLongest
  <2>1. 1 \in Tree
    BY DEF Tree
  <2> QED BY <2>1, AnswerIs DEF LongestPrefixMatch
<1> QED BY <1>1, LookupInvariant, PTL

\* So does the advanced tree, for every number of bits a level has, when no
\* prefix is listed after one that it contains (create_tree_advance,
\* lookup_tree_advance).
THEOREM AdvancedTreeCorrect == Spec => []AdvancedIsLongest
<1>1. LookupInv => AdvancedIsLongest
  <2> SUFFICES ASSUME LookupInv, nested, NEW ip \in Address
               PROVE  Lookup(ip, Stride) = LongestPrefixMatch(ip)
    BY DEF AdvancedIsLongest
  <2>1. Stride \in Tree
    BY DEF Tree
  <2> QED BY <2>1, AnswerIs DEF LongestPrefixMatch
<1> QED BY <1>1, LookupInvariant, PTL

\* In any other order what it gives is wrong at most within the level the
\* longest prefix ends in.
THEOREM AdvancedTreeWrongWithinLevel == Spec => []WrongWithinLevel
<1>1. LookupInv => WrongWithinLevel
  <2> SUFFICES ASSUME LookupInv, NEW ip \in Address
               PROVE  IF Listed(ip) = {} THEN Lookup(ip, Stride) = NotAPort
                      ELSE \E p \in Listed(ip) :
                             /\ Level(p) = Level(Longest(Listed(ip)))
                             /\ Lookup(ip, Stride) = table[p]
    BY DEF WrongWithinLevel
  <2>1. Stride \in Tree /\ Stride \in Nat \ {0}
    BY LookupAssumption DEF Tree
  <2>2. \A p, q \in Listed(ip) : Up(Len(p), Stride) = Up(Len(q), Stride) => Level(p) = Level(q)
    <3>1. \A p \in Listed(ip) : Len(p) \in Nat
      BY ListedIs, PrefixIs
    <3>2. \A n \in Nat : (n + Stride - 1) \div Stride = Up(n, Stride) \div Stride
      BY <2>1, UpIs
    <3> QED BY <3>1, <3>2 DEF Level
  <2>3. Listed(ip) # {} => Longest(Listed(ip)) \in Listed(ip)
    BY ListedIs, LongestIs
  <2> QED BY <2>1, <2>2, <2>3, AnswerIs
<1> QED BY <1>1, LookupInvariant, PTL

=============================================================================
