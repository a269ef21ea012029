---------------------------- MODULE RouterProofs ----------------------------
(***************************************************************************)
(* Proofs about Router and its ARP cache, for any interfaces, addresses,   *)
(* routes, arrivals and sizes of the table.                                *)
(***************************************************************************)
EXTENDS Router, TLAPS

Record == [hop : Address \cup {0},
           what : {"inside", "sent", "answered", "reported", "dropped"}]

\* What is to be sent for the router itself carries no number.
Unnumbered == {job \in Job : job.pkt.id = 0}

-----------------------------------------------------------------------------
(***************************************************************************)
(* Sequences.                                                              *)
(***************************************************************************)

LEMMA TailType ==
  ASSUME NEW S, NEW q \in Seq(S), q # <<>>
  PROVE  /\ Head(q) \in S /\ Tail(q) \in Seq(S)
         /\ Len(q) \in Nat \ {0} /\ Len(Tail(q)) = Len(q) - 1
         /\ \A n \in DOMAIN Tail(q) : n + 1 \in DOMAIN q /\ Tail(q)[n] = q[n + 1]
         /\ 1 \in DOMAIN q /\ Head(q) = q[1]
OBVIOUS

LEMMA AppendType ==
  ASSUME NEW S, NEW q \in Seq(S), NEW x \in S
  PROVE  /\ Append(q, x) \in Seq(S) /\ Append(q, x) # <<>>
         /\ Len(Append(q, x)) = Len(q) + 1
         /\ DOMAIN Append(q, x) = 1..(Len(q) + 1)
         /\ \A n \in DOMAIN q : n \in DOMAIN Append(q, x) /\ Append(q, x)[n] = q[n]
         /\ Append(q, x)[Len(q) + 1] = x
OBVIOUS

LEMMA ConcatType ==
  ASSUME NEW S, NEW p \in Seq(S), NEW q \in Seq(S)
  PROVE  p \o q \in Seq(S)
OBVIOUS

-----------------------------------------------------------------------------
(***************************************************************************)
(* What is handed over for sending.                                        *)
(***************************************************************************)
LEMMA RouteType ==
  ASSUME NEW dst \in Address, HasRoute(dst)
  PROVE  /\ RouteOf(dst).iface \in Iface
         /\ NextHop(dst) \in Address
<1>1. RouteOf(dst) \in LongestPrefixMatch(dst)
  BY DEF HasRoute, RouteOf
<1>2. PICK i \in DOMAIN Routes : RouteOf(dst) = Routes[i]
  BY <1>1 DEF LongestPrefixMatch
<1> DEFINE Route == [dest : Nat, len : 0..Width, gw : Address \cup {0}, iface : Iface]
<1>3. Routes \in Seq(Route)
  BY RouterAssumption
<1>4. RouteOf(dst) \in Route
  <2> HIDE DEF Route
  <2> QED BY <1>2, <1>3
<1>5. RouteOf(dst).iface \in Iface /\ RouteOf(dst).gw \in Address \cup {0}
  BY <1>4
<1> QED BY <1>5 DEF NextHop

LEMMA SendJobsType ==
  ASSUME NEW pkt \in Packet
  PROVE  /\ SendJobs(pkt) \in Seq(Job)
         /\ pkt.id = 0 => SendJobs(pkt) \in Seq(Unnumbered)
<1>1. pkt.dst \in Address
  BY RouterAssumption
<1>2. CASE HasRoute(pkt.dst)
  <2> DEFINE job == [iface |-> RouteOf(pkt.dst).iface, hop |-> NextHop(pkt.dst), pkt |-> pkt]
  <2>1. job \in Job
    BY <1>1, <1>2, RouteType DEF Job
  <2>2. SendJobs(pkt) = <<job>>
    BY <1>2 DEF SendJobs
  <2>3. pkt.id = 0 => job \in Unnumbered
    BY <2>1 DEF Unnumbered
  <2> HIDE DEF job
  <2> QED BY <2>1, <2>2, <2>3
<1>3. CASE ~HasRoute(pkt.dst)
  BY <1>3 DEF SendJobs
<1> QED BY <1>2, <1>3

LEMMA ErrorJobsType ==
  ASSUME NEW pkt \in Packet
  PROVE  ErrorJobs(pkt) \in Seq(Unnumbered)
<1>1. pkt.src \in Address
  BY RouterAssumption
<1>2. CASE HasRoute(pkt.src)
  <2> DEFINE err == [id |-> 0, kind |-> "error", src |-> IfaceIp[RouteOf(pkt.src).iface],
                     dst |-> pkt.src, ttl |-> DefaultTTL]
  <2>1. IfaceIp[RouteOf(pkt.src).iface] \in Address
    BY <1>1, <1>2, RouteType, RouterAssumption
  <2>2. DefaultTTL \in 0..255
    BY DEF DefaultTTL
  <2>3. err \in Packet
    BY <1>1, <2>1, <2>2, RouterAssumption
  <2>4. err.id = 0
    OBVIOUS
  <2>5. ErrorJobs(pkt) = SendJobs(err)
    BY <1>2 DEF ErrorJobs
  <2> HIDE DEF err
  <2> QED BY <2>3, <2>4, <2>5, SendJobsType
<1>3. CASE ~HasRoute(pkt.src)
  BY <1>3 DEF ErrorJobs
<1> QED BY <1>2, <1>3

LEMMA ReplyJobsType ==
  ASSUME NEW pkt \in Packet
  PROVE  ReplyJobs(pkt) \in Seq(Unnumbered)
<1>1. CASE pkt.kind = "echo"
  <2> DEFINE rep == [id |-> 0, kind |-> "reply", src |-> pkt.dst, dst |-> pkt.src,
                     ttl |-> DefaultTTL]
  <2>1. DefaultTTL \in 0..255
    BY DEF DefaultTTL
  <2>2. rep \in Packet
    BY <2>1, RouterAssumption
  <2>3. rep.id = 0
    OBVIOUS
  <2>4. ReplyJobs(pkt) = SendJobs(rep)
    BY <1>1 DEF ReplyJobs
  <2> HIDE DEF rep
  <2> QED BY <2>2, <2>3, <2>4, SendJobsType
<1>2. CASE pkt.kind # "echo"
  BY <1>2 DEF ReplyJobs
<1> QED BY <1>1, <1>2

LEMMA TtlType ==
  ASSUME NEW pkt \in Packet
  PROVE  [pkt EXCEPT !.ttl = TtlAfter(pkt)] \in Packet
<1>1. pkt.ttl \in 0..255
  BY RouterAssumption
<1>2. TtlAfter(pkt) \in 0..255
  BY <1>1 DEF TtlAfter
<1>3. TtlAfter(pkt) \in 0..255 => [pkt EXCEPT !.ttl = TtlAfter(pkt)] \in Packet
  BY RouterAssumption
<1> QED BY <1>2, <1>3

-----------------------------------------------------------------------------
(***************************************************************************)
(* The invariant.                                                          *)
(***************************************************************************)

\* A lookup that failed has something to send, and for the receive loop it still
\* fails, because nobody else inserts mappings.
MissedOK ==
  /\ \A t \in Thread : missed[t] => todo[t] # <<>>
  /\ missed["receive"] => ~Known(Head(todo["receive"]).hop)

\* The sweeper sends nothing but errors of its own.
SweeperOK == todo["sweep"] \in Seq(Unnumbered)

\* Requests on the unreachable list hold packets.
UnreachableOK == \A r \in unreachable : r.pkts # <<>>

RouterInv ==
  /\ RouterTypeOK
  /\ CacheConsistent
  /\ MissedOK
  /\ SweeperOK
  /\ UnreachableOK

-----------------------------------------------------------------------------
(***************************************************************************)
(* The cache.                                                              *)
(***************************************************************************)

\* Appending keeps the list of requests in order.
LEMMA AppendStep ==
  ASSUME CacheTypeOK, OneRequestPerHop, KnownNotAwaited,
         NEW iface \in Iface, NEW ip \in Address, NEW pkt \in Packet,
         pkt.id # 0 => ~Known(ip),
         AppendPacket(iface, ip, pkt)
  PROVE  CacheTypeOK' /\ OneRequestPerHop' /\ KnownNotAwaited'
<1> DEFINE found == {r \in requests : r.ip = ip /\ r.iface = iface}
           new == [iface |-> iface, ip |-> ip, due |-> FALSE, retries |-> 0, pkts |-> <<pkt>>]
<1>1. entries' = entries
  BY DEF AppendPacket
<1>2. \A a : Known(a)' <=> Known(a)
  BY <1>1 DEF Known
<1>3. CASE found = {} /\ requests' = requests \cup {new}
  <2>1. 0 \in 0..MaxRetries /\ <<pkt>> \in Seq(Packet)
    BY ArpAssumption
  <2>2. new \in Request /\ new.ip = ip /\ new.iface = iface /\ new.pkts = <<pkt>>
    BY <2>1 DEF Request
  <2> HIDE DEF new
  <2>3. CacheTypeOK'
    <3>1. requests' \subseteq Request
      BY <1>3, <2>2 DEF CacheTypeOK
    <3> QED BY <1>1, <3>1 DEF CacheTypeOK
  <2>4. OneRequestPerHop'
    <3>1. \A r \in requests : ~(r.ip = ip /\ r.iface = iface)
      BY <1>3
    <3>2. new.pkts # <<>>
      BY <2>2
    <3>3. requests' = requests \cup {new}
      BY <1>3
    <3> QED BY <2>2, <3>1, <3>2, <3>3 DEF OneRequestPerHop
  <2>5. ~Known(ip) \/ \A n \in DOMAIN new.pkts : new.pkts[n].id = 0
    BY <2>2
  <2>6. KnownNotAwaited'
    BY <1>2, <1>3, <2>2, <2>5 DEF KnownNotAwaited
  <2> QED BY <2>3, <2>4, <2>6
<1>4. ASSUME NEW r \in found,
             requests' = (requests \ {r}) \cup {[r EXCEPT !.pkts = Append(@, pkt)]}
      PROVE  CacheTypeOK' /\ OneRequestPerHop' /\ KnownNotAwaited'
  <2> DEFINE longer == [r EXCEPT !.pkts = Append(@, pkt)]
  <2>1. r \in Request /\ r \in requests /\ r.ip = ip /\ r.iface = iface
    BY <1>4 DEF CacheTypeOK
  <2>2. r.pkts \in Seq(Packet)
    BY <2>1 DEF Request
  <2>3. Append(r.pkts, pkt) \in Seq(Packet) /\ Append(r.pkts, pkt) # <<>>
    BY <2>2, AppendType
  <2>4. /\ longer \in Request /\ longer.ip = ip /\ longer.iface = iface
        /\ longer.pkts = Append(r.pkts, pkt)
    BY <2>1, <2>3 DEF Request
  <2> HIDE DEF longer
  <2>5. requests' = (requests \ {r}) \cup {longer}
    BY <1>4 DEF longer
  <2>6. CacheTypeOK'
    BY <1>1, <1>4, <2>4, <2>5 DEF CacheTypeOK
  <2>7. OneRequestPerHop'
    BY <2>1, <2>3, <2>4, <2>5 DEF OneRequestPerHop
  <2>8. ~Known(ip) \/ \A n \in DOMAIN longer.pkts : longer.pkts[n].id = 0
    <3>1. ~Known(ip) \/ (pkt.id = 0 /\ \A n \in DOMAIN r.pkts : r.pkts[n].id = 0)
      BY <2>1 DEF KnownNotAwaited
    <3>2. \A n \in DOMAIN Append(r.pkts, pkt) :
            Append(r.pkts, pkt)[n] = pkt \/ (n \in DOMAIN r.pkts /\ Append(r.pkts, pkt)[n] = r.pkts[n])
      BY <2>2
    <3> QED BY <2>4, <3>1, <3>2
  <2>9. KnownNotAwaited'
    BY <1>2, <2>4, <2>5, <2>8 DEF KnownNotAwaited
  <2> QED BY <2>6, <2>7, <2>9
<1> QED BY <1>3, <1>4 DEF AppendPacket

\* A mapping goes to its old slot, or to one for which there is no other.
LEMMA InsertStep ==
  ASSUME CacheTypeOK, CacheConsistent, NEW ip \in Address, Insert(ip)
  PROVE  CacheTypeOK' /\ CacheConsistent'
<1>1. PICK i \in Slot :
        /\ InsertSlot(i, ip)
        /\ entries' = [entries EXCEPT ![i] = [valid |-> TRUE, ip |-> ip, age |-> 0]]
  BY DEF Insert
<1>2. requests' = {r \in requests : r.ip # ip}
  BY DEF Insert, Waiting
<1>3. 0 \in 0..(EntryTimeout + 1)
  BY ArpAssumption
<1> DEFINE new == [valid |-> TRUE, ip |-> ip, age |-> 0]
<1>4. new \in Entry /\ new.valid /\ new.ip = ip
  BY <1>3 DEF Entry
<1> HIDE DEF new
<1>5. /\ entries' \in [Slot -> Entry]
      /\ entries'[i] = new
      /\ \A j \in Slot \ {i} : entries'[j] = entries[j]
  BY <1>1, <1>4 DEF CacheTypeOK, new
<1>6. CacheTypeOK'
  BY <1>2, <1>5 DEF CacheTypeOK
<1>7. OneEntryPerAddress'
  <2>1. \A j \in Slot \ {i} : ~(entries[j].valid /\ entries[j].ip = ip)
    BY <1>1 DEF InsertSlot, CacheConsistent, OneEntryPerAddress
  <2> QED BY <1>4, <1>5, <2>1 DEF OneEntryPerAddress, CacheConsistent
<1>8. OneRequestPerHop'
  BY <1>2 DEF OneRequestPerHop, CacheConsistent
<1>9. KnownNotAwaited'
  <2>1. \A a : a # ip /\ Known(a)' => Known(a)
    BY <1>4, <1>5 DEF Known
  <2> QED BY <1>2, <2>1 DEF KnownNotAwaited, CacheConsistent
<1> QED BY <1>6, <1>7, <1>8, <1>9 DEF CacheConsistent

\* Requests that are changed one by one, but for their address, interface and
\* packets, stay in order if nothing becomes known.
LEMMA EachRequest ==
  ASSUME OneRequestPerHop, KnownNotAwaited, \A a : Known(a)' => Known(a),
         NEW f, NEW S, S \subseteq requests,
         \A r \in S : f[r].ip = r.ip /\ f[r].iface = r.iface /\ f[r].pkts = r.pkts,
         requests' = {f[r] : r \in S}
  PROVE  OneRequestPerHop' /\ KnownNotAwaited'
<1>1. OneRequestPerHop'
  BY DEF OneRequestPerHop
<1>2. KnownNotAwaited'
  BY DEF KnownNotAwaited
<1> QED BY <1>1, <1>2

\* Slots that keep their address, or are freed, keep the table in order.
LEMMA EachEntry ==
  ASSUME OneEntryPerAddress,
         \A i \in Slot : entries'[i].valid => entries[i].valid /\ entries'[i].ip = entries[i].ip
  PROVE  OneEntryPerAddress' /\ \A a : Known(a)' => Known(a)
<1>1. OneEntryPerAddress'
  BY DEF OneEntryPerAddress
<1>2. \A a : Known(a)' => Known(a)
  BY DEF Known
<1> QED BY <1>1, <1>2

LEMMA SweepStep ==
  ASSUME CacheTypeOK, CacheConsistent, SweepCache
  PROVE  CacheTypeOK' /\ CacheConsistent' /\ \A a : Known(a)' => Known(a)
<1> DEFINE again == {r \in requests \ GivenUp : r.due}
           f == [r \in requests |->
                   IF r.due THEN [r EXCEPT !.due = FALSE, !.retries = @ + 1] ELSE r]
           S == requests \ GivenUp
<1>1. entries' = [i \in Slot |-> IF entries[i].age > EntryTimeout THEN Free ELSE entries[i]]
  BY DEF SweepCache
<1>2. Free \in Entry /\ ~Free.valid
  BY ArpAssumption DEF Free, Entry
<1>3. entries' \in [Slot -> Entry]
  BY <1>1, <1>2 DEF CacheTypeOK
<1>4. OneEntryPerAddress' /\ \A a : Known(a)' => Known(a)
  <2>1. \A i \in Slot : entries'[i].valid => entries[i].valid /\ entries'[i].ip = entries[i].ip
    BY <1>1, <1>2
  <2> QED BY <2>1, EachEntry DEF CacheConsistent
<1>5. requests' = {f[r] : r \in S}
  BY DEF SweepCache, GivenUp
<1>6. \A r \in S : /\ f[r] \in Request
                   /\ f[r].ip = r.ip /\ f[r].iface = r.iface /\ f[r].pkts = r.pkts
  <2> SUFFICES ASSUME NEW r \in S
               PROVE  /\ f[r] \in Request
                      /\ f[r].ip = r.ip /\ f[r].iface = r.iface /\ f[r].pkts = r.pkts
    OBVIOUS
  <2>1. r \in Request
    BY DEF CacheTypeOK
  <2>2. CASE r.due
    <3>1. r.retries + 1 \in 0..MaxRetries
      BY <2>1, <2>2, ArpAssumption DEF GivenUp, Request
    <3>2. f[r] = [r EXCEPT !.due = FALSE, !.retries = @ + 1]
      BY <2>2
    <3> QED BY <2>1, <3>1, <3>2 DEF Request
  <2>3. CASE ~r.due
    BY <2>1, <2>3
  <2> QED BY <2>2, <2>3
<1>7. OneRequestPerHop' /\ KnownNotAwaited'
  <2> HIDE DEF f
  <2> QED BY <1>4, <1>5, <1>6, EachRequest DEF CacheConsistent
<1>8. requests' \subseteq Request
  <2> HIDE DEF f
  <2> QED BY <1>5, <1>6
<1> QED BY <1>3, <1>4, <1>7, <1>8 DEF CacheTypeOK, CacheConsistent

LEMMA AgeStep ==
  ASSUME CacheTypeOK, CacheConsistent, AgeCache
  PROVE  CacheTypeOK' /\ CacheConsistent' /\ \A a : Known(a)' => Known(a)
<1> DEFINE f == [r \in requests |-> [r EXCEPT !.due = TRUE]]
<1>1. \A i \in Slot : /\ entries[i] \in Entry /\ entries'[i] \in Entry
                      /\ entries'[i].valid = entries[i].valid
                      /\ entries'[i].ip = entries[i].ip
  BY ArpAssumption DEF AgeCache, CacheTypeOK, Entry
<1>2. entries' \in [Slot -> Entry]
  BY <1>1 DEF AgeCache
<1>3. OneEntryPerAddress' /\ \A a : Known(a)' => Known(a)
  BY <1>1, EachEntry DEF CacheConsistent
<1>4. requests' = {f[r] : r \in requests}
  BY DEF AgeCache
<1>5. \A r \in requests : /\ f[r] \in Request
                          /\ f[r].ip = r.ip /\ f[r].iface = r.iface /\ f[r].pkts = r.pkts
  BY DEF CacheTypeOK, Request
<1>6. OneRequestPerHop' /\ KnownNotAwaited' /\ requests' \subseteq Request
  <2> HIDE DEF f
  <2> QED BY <1>3, <1>4, <1>5, EachRequest DEF CacheConsistent
<1> QED BY <1>2, <1>3, <1>6 DEF CacheTypeOK, CacheConsistent

-----------------------------------------------------------------------------
(***************************************************************************)
(* The steps of the router.                                                *)
(***************************************************************************)

\* A packet's fate may change; the order of arrival does not.
LEMMA FateType ==
  ASSUME NEW q \in Seq(Record), NEW f \in [DOMAIN q -> Record]
  PROVE  f \in Seq(Record) /\ Len(f) = Len(q)
OBVIOUS

LEMMA WhatType ==
  ASSUME NEW q \in Seq(Record), NEW k \in DOMAIN q, NEW w,
         w \in {"inside", "sent", "answered", "reported", "dropped"}
  PROVE  q[k] \in Record /\ [q[k] EXCEPT !.what = w] \in Record
<1>1. q[k] \in Record
  OBVIOUS
<1> QED BY <1>1 DEF Record

\* What RouterInv says of the state beside the cache.
LEMMA InvTypes ==
  ASSUME RouterInv
  PROVE  /\ CacheTypeOK
         /\ todo \in [Thread -> Seq(Job)]
         /\ missed \in [Thread -> BOOLEAN]
         /\ unreachable \subseteq Request
         /\ slept \in BOOLEAN
         /\ fate \in Seq(Record)
         /\ Len(fate) <= MaxPackets
BY DEF RouterInv, RouterTypeOK, Record

\* Whatever is handed over to the receive loop, if it is made of jobs.
LEMMA HandOverStep ==
  ASSUME RouterInv, Idle("receive"),
         NEW jobs \in Seq(Job), HandOver(jobs) \/ UNCHANGED todo,
         NEW r \in Record, fate' = Append(fate, r), Len(fate) < MaxPackets,
         UNCHANGED <<cacheVars, missed, unreachable, slept>>
  PROVE  RouterInv'
<1>1. fate' \in Seq(Record) /\ Len(fate') <= MaxPackets
  <2>1. fate' \in Seq(Record) /\ Len(fate') = Len(fate) + 1 /\ Len(fate) \in Nat
    BY InvTypes, AppendType
  <2> QED BY <2>1, RouterAssumption
<1>2. todo' \in [Thread -> Seq(Job)] /\ todo'["sweep"] = todo["sweep"]
  BY InvTypes DEF HandOver, Thread
<1>3. RouterTypeOK'
  BY <1>1, <1>2, InvTypes DEF RouterTypeOK, CacheTypeOK, Record, cacheVars
<1>4. CacheConsistent'
  BY DEF RouterInv, CacheConsistent, OneEntryPerAddress, OneRequestPerHop,
         KnownNotAwaited, Known, cacheVars
<1>5. MissedOK'
  BY <1>2 DEF RouterInv, MissedOK, Idle, Thread
<1>6. SweeperOK' /\ UnreachableOK'
  BY <1>2 DEF RouterInv, SweeperOK, UnreachableOK
<1> QED BY <1>3, <1>4, <1>5, <1>6 DEF RouterInv

LEMMA ReceiveIpStep ==
  ASSUME RouterInv, NEW i \in Iface, NEW pkt \in Packet, ReceiveIp(i, pkt),
         Len(fate) < MaxPackets
  PROVE  RouterInv'
<1>1. Idle("receive") /\ UNCHANGED <<cacheVars, missed, unreachable, slept>>
  BY DEF ReceiveIp
<1>2. \A q : q \in Seq(Unnumbered) => q \in Seq(Job)
  BY DEF Unnumbered
<1>3. ReplyJobs(pkt) \in Seq(Job) /\ ErrorJobs(pkt) \in Seq(Job)
  BY <1>2, ReplyJobsType, ErrorJobsType
<1>4. EarlyReply(i, pkt) \in Seq(Job)
  BY <1>3 DEF EarlyReply
<1>5. pkt.src \in Address /\ pkt.dst \in Address
  BY RouterAssumption
<1>6. CASE DropLocal(i, pkt)
  <2>1. [hop |-> 0, what |-> "dropped"] \in Record
    BY DEF Record
  <2> QED BY <1>1, <1>4, <1>6, <2>1, HandOverStep DEF DropLocal, Settle
<1>7. CASE Report(i, pkt)
  <2>1. [hop |-> 0, what |-> ErrorFate(pkt)] \in Record
    BY DEF Record, ErrorFate
  <2>2. EarlyReply(i, pkt) \o ErrorJobs(pkt) \in Seq(Job)
    BY <1>3, <1>4, ConcatType
  <2> QED BY <1>1, <1>7, <2>1, <2>2, HandOverStep DEF Report, Settle
<1>8. CASE DeliverLocal(i, pkt)
  <2> DEFINE what == IF ReplyJobs(pkt) # <<>> THEN "answered" ELSE "dropped"
  <2>1. [hop |-> 0, what |-> what] \in Record
    BY DEF Record
  <2>2. EarlyReply(i, pkt) \o ReplyJobs(pkt) \in Seq(Job)
    BY <1>3, <1>4, ConcatType
  <2> QED BY <1>1, <1>8, <2>1, <2>2, HandOverStep DEF DeliverLocal, Settle
<1>9. CASE Forward(i, pkt)
  <2> DEFINE older == [pkt EXCEPT !.ttl = TtlAfter(pkt)]
  <2>1. [hop |-> NextHop(pkt.dst), what |-> "inside"] \in Record
    BY <1>5, <1>9, RouteType DEF Record, Forward
  <2>2. EarlyReply(i, pkt) \o SendJobs(older) \in Seq(Job)
    <3>1. older \in Packet
      BY TtlType
    <3> HIDE DEF older
    <3> QED BY <1>4, <3>1, SendJobsType, ConcatType
  <2> QED BY <1>1, <1>9, <2>1, <2>2, HandOverStep DEF Forward, Settle
<1> QED BY <1>6, <1>7, <1>8, <1>9 DEF ReceiveIp

LEMMA ReceiveArpReplyStep ==
  ASSUME RouterInv, NEW ip \in Address, ReceiveArpReply(ip)
  PROVE  RouterInv'
<1>1. CacheTypeOK' /\ CacheConsistent'
  BY InvTypes, InsertStep DEF RouterInv, ReceiveArpReply
<1>2. fate' \in Seq(Record) /\ Len(fate') = Len(fate)
  <2>1. fate' \in [DOMAIN fate -> Record]
    BY InvTypes, WhatType DEF ReceiveArpReply
  <2> QED BY <2>1, InvTypes, FateType
<1>3. UNCHANGED <<todo, missed, unreachable, slept>> /\ ~missed["receive"]
  BY DEF ReceiveArpReply, Idle
<1>4. RouterTypeOK'
  BY <1>1, <1>2, <1>3, InvTypes DEF RouterTypeOK, Record
<1>5. MissedOK' /\ SweeperOK' /\ UnreachableOK'
  BY <1>3 DEF RouterInv, MissedOK, SweeperOK, UnreachableOK
<1> QED BY <1>1, <1>4, <1>5 DEF RouterInv

\* Taking the first job off a thread's list leaves jobs of the same kind.
LEMMA NextJob ==
  ASSUME RouterInv, NEW t \in Thread, todo[t] # <<>>
  PROVE  /\ Head(todo[t]) \in Job
         /\ t = "sweep" => Head(todo[t]).pkt.id = 0
         /\ [todo EXCEPT ![t] = Tail(todo[t])] \in [Thread -> Seq(Job)]
         /\ [todo EXCEPT ![t] = Tail(todo[t])]["sweep"] \in Seq(Unnumbered)
<1>1. todo \in [Thread -> Seq(Job)] /\ todo["sweep"] \in Seq(Unnumbered)
  BY InvTypes DEF RouterInv, SweeperOK
<1>2. Head(todo[t]) \in Job /\ Tail(todo[t]) \in Seq(Job)
  BY <1>1, TailType
<1>3. t = "sweep" => Head(todo[t]) \in Unnumbered /\ Tail(todo[t]) \in Seq(Unnumbered)
  BY <1>1, TailType
<1> QED BY <1>1, <1>2, <1>3 DEF Unnumbered, Thread

LEMMA LookupStep ==
  ASSUME RouterInv, NEW t \in Thread, Lookup(t)
  PROVE  RouterInv'
<1>1. /\ todo[t] # <<>> /\ ~missed[t]
      /\ UNCHANGED <<cacheVars, unreachable, slept>>
  BY DEF Lookup
<1>2. CacheTypeOK' /\ CacheConsistent' /\ UnreachableOK' /\ \A a : Known(a)' <=> Known(a)
  BY <1>1 DEF RouterInv, RouterTypeOK, CacheTypeOK, CacheConsistent, OneEntryPerAddress,
              OneRequestPerHop, KnownNotAwaited, Known, UnreachableOK, cacheVars
<1>3. CASE SendKnown(t)
  <2>1. fate' \in Seq(Record) /\ Len(fate') = Len(fate)
    <3>1. fate' \in [DOMAIN fate -> Record]
      BY <1>3, InvTypes, WhatType DEF SendKnown
    <3> QED BY <3>1, InvTypes, FateType
  <2>2. todo' = [todo EXCEPT ![t] = Tail(todo[t])] /\ missed' = missed
    BY <1>3 DEF SendKnown
  <2>3. RouterTypeOK' /\ SweeperOK'
    BY <1>1, <1>2, <2>1, <2>2, InvTypes, NextJob DEF RouterTypeOK, SweeperOK, Record
  <2>4. MissedOK'
    BY <1>1, <1>2, <2>2, InvTypes DEF RouterInv, MissedOK
  <2> QED BY <1>2, <2>3, <2>4 DEF RouterInv
<1>4. CASE Miss(t)
  <2>1. /\ ~Known(Head(todo[t]).hop)
        /\ missed' = [missed EXCEPT ![t] = TRUE] /\ UNCHANGED <<todo, fate>>
    BY <1>4 DEF Miss
  <2>2. RouterTypeOK' /\ SweeperOK'
    BY <1>1, <1>2, <2>1, InvTypes DEF RouterInv, RouterTypeOK, SweeperOK, Record
  <2>3. MissedOK'
    BY <1>1, <1>2, <2>1, InvTypes DEF RouterInv, MissedOK
  <2> QED BY <1>2, <2>2, <2>3 DEF RouterInv
<1> QED BY <1>3, <1>4 DEF Lookup

LEMMA PendStep ==
  ASSUME RouterInv, NEW t \in Thread, Pend(t)
  PROVE  RouterInv'
<1> DEFINE job == Head(todo[t])
<1>1. /\ missed[t] /\ AppendPacket(job.iface, job.hop, job.pkt)
      /\ missed' = [missed EXCEPT ![t] = FALSE]
      /\ todo' = [todo EXCEPT ![t] = Tail(todo[t])]
      /\ UNCHANGED <<unreachable, slept, fate>>
  BY DEF Pend
<1>2. todo[t] # <<>>
  BY <1>1 DEF RouterInv, MissedOK
<1>3. job \in Job
  BY <1>2, NextJob
<1>4. job.iface \in Iface /\ job.hop \in Address /\ job.pkt \in Packet
  BY <1>3 DEF Job
<1>5. job.pkt.id # 0 => ~Known(job.hop)
  BY <1>1, <1>2, NextJob DEF RouterInv, MissedOK, Thread
<1>6. CacheTypeOK' /\ OneRequestPerHop' /\ KnownNotAwaited'
  <2> HIDE DEF job
  <2> QED BY <1>1, <1>4, <1>5, InvTypes, AppendStep DEF RouterInv, CacheConsistent
<1>7. entries' = entries
  BY <1>1 DEF AppendPacket
<1>8. CacheConsistent'
  BY <1>6, <1>7 DEF RouterInv, CacheConsistent, OneEntryPerAddress
<1>9. RouterTypeOK' /\ SweeperOK'
  BY <1>1, <1>2, <1>6, InvTypes, NextJob DEF RouterTypeOK, SweeperOK, Record
<1>10. MissedOK' /\ UnreachableOK'
  BY <1>1, <1>7, InvTypes DEF RouterInv, MissedOK, UnreachableOK, Known
<1> QED BY <1>8, <1>9, <1>10 DEF RouterInv

LEMMA SweeperStep ==
  ASSUME RouterInv, Sweep
  PROVE  RouterInv'
<1>1. CacheTypeOK' /\ CacheConsistent' /\ \A a : Known(a)' => Known(a)
  BY InvTypes, SweepStep DEF RouterInv, Sweep
<1>2. unreachable' \subseteq Request /\ UnreachableOK'
  BY InvTypes DEF RouterInv, Sweep, GivenUp, CacheTypeOK, UnreachableOK, CacheConsistent,
                  OneRequestPerHop
<1>3. slept' = FALSE /\ UNCHANGED <<todo, missed, fate>>
  BY DEF Sweep
<1>4. RouterTypeOK'
  BY <1>1, <1>2, <1>3, InvTypes DEF RouterTypeOK, Record
<1>5. MissedOK' /\ SweeperOK'
  BY <1>1, <1>3 DEF RouterInv, MissedOK, SweeperOK
<1> QED BY <1>1, <1>2, <1>4, <1>5 DEF RouterInv

LEMMA ReportUnreachableStep ==
  ASSUME RouterInv, ReportUnreachable
  PROVE  RouterInv'
<1>1. Idle("sweep") /\ UNCHANGED <<cacheVars, missed, slept>>
  BY DEF ReportUnreachable
<1>2. PICK r \in unreachable :
        /\ unreachable' = (unreachable \ {r})
             \cup (IF Len(r.pkts) = 1 THEN {} ELSE {[r EXCEPT !.pkts = Tail(@)]})
        /\ todo' = [todo EXCEPT !["sweep"] = ErrorJobs(Head(r.pkts))]
        /\ fate' = [k \in DOMAIN fate |->
                      IF k = Head(r.pkts).id
                      THEN [fate[k] EXCEPT !.what = ErrorFate(Head(r.pkts))] ELSE fate[k]]
  BY DEF ReportUnreachable
<1>3. r \in Request /\ r.pkts # <<>>
  BY InvTypes DEF RouterInv, UnreachableOK
<1>4. r.pkts \in Seq(Packet)
  BY <1>3 DEF Request
<1>5. /\ Head(r.pkts) \in Packet /\ Tail(r.pkts) \in Seq(Packet)
      /\ Len(r.pkts) # 1 => Tail(r.pkts) # <<>>
  <2> DEFINE q == r.pkts
  <2> HIDE DEF q
  <2>1. q \in Seq(Packet) /\ q # <<>>
    BY <1>3, <1>4 DEF q
  <2>2. /\ Head(q) \in Packet /\ Tail(q) \in Seq(Packet)
        /\ Len(q) # 1 => Len(Tail(q)) # 0
    BY <2>1, TailType
  <2>3. Len(q) # 1 => Tail(q) # <<>>
    BY <2>2
  <2> QED BY <2>2, <2>3 DEF q
<1>6. [r EXCEPT !.pkts = Tail(@)] \in Request /\ [r EXCEPT !.pkts = Tail(@)].pkts = Tail(r.pkts)
  BY <1>3, <1>5 DEF Request
<1>7. unreachable' \subseteq Request /\ UnreachableOK'
  BY <1>2, <1>5, <1>6, InvTypes DEF RouterInv, UnreachableOK
<1>8. fate' \in Seq(Record) /\ Len(fate') = Len(fate)
  <2>1. ErrorFate(Head(r.pkts)) \in {"inside", "sent", "answered", "reported", "dropped"}
    BY DEF ErrorFate
  <2>2. fate' \in [DOMAIN fate -> Record]
    BY <1>2, <2>1, InvTypes, WhatType
  <2> QED BY <2>2, InvTypes, FateType
<1>9. todo' \in [Thread -> Seq(Job)] /\ SweeperOK' /\ todo'["receive"] = todo["receive"]
  <2>1. ErrorJobs(Head(r.pkts)) \in Seq(Unnumbered)
    BY <1>5, ErrorJobsType
  <2>2. ErrorJobs(Head(r.pkts)) \in Seq(Job)
    BY <2>1 DEF Unnumbered
  <2> QED BY <1>2, <2>1, <2>2, InvTypes DEF SweeperOK, Thread
<1>10. CacheTypeOK' /\ CacheConsistent' /\ \A a : Known(a)' <=> Known(a)
  BY <1>1 DEF RouterInv, RouterTypeOK, CacheTypeOK, CacheConsistent, OneEntryPerAddress,
              OneRequestPerHop, KnownNotAwaited, Known, cacheVars
<1>11. RouterTypeOK'
  BY <1>1, <1>7, <1>8, <1>9, <1>10, InvTypes DEF RouterTypeOK, Record
<1>12. MissedOK'
  BY <1>1, <1>9, <1>10 DEF RouterInv, MissedOK, Idle, Thread
<1> QED BY <1>7, <1>9, <1>10, <1>11, <1>12 DEF RouterInv

LEMMA TickStep ==
  ASSUME RouterInv, Tick
  PROVE  RouterInv'
<1>1. CacheTypeOK' /\ CacheConsistent' /\ \A a : Known(a)' => Known(a)
  BY InvTypes, AgeStep DEF RouterInv, Tick
<1>2. slept' = TRUE /\ UNCHANGED <<todo, missed, unreachable, fate>>
  BY DEF Tick
<1>3. RouterTypeOK'
  BY <1>1, <1>2, InvTypes DEF RouterTypeOK, Record
<1>4. MissedOK' /\ SweeperOK' /\ UnreachableOK'
  BY <1>1, <1>2 DEF RouterInv, MissedOK, SweeperOK, UnreachableOK
<1> QED BY <1>1, <1>3, <1>4 DEF RouterInv

LEMMA RouterInvInit == RouterInit => RouterInv
<1> SUFFICES ASSUME RouterInit PROVE RouterInv
  OBVIOUS
<1>1. Free \in Entry /\ ~Free.valid
  BY ArpAssumption DEF Free, Entry
<1>2. CacheTypeOK /\ CacheConsistent
  BY <1>1 DEF RouterInit, CacheInit, CacheTypeOK, CacheConsistent, OneEntryPerAddress,
              OneRequestPerHop, KnownNotAwaited
<1>3. RouterTypeOK
  <2>1. fate \in Seq(Record) /\ Len(fate) <= MaxPackets
    BY RouterAssumption DEF RouterInit
  <2>2. todo \in [Thread -> Seq(Job)]
    <3>1. <<>> \in Seq(Job)
      OBVIOUS
    <3> QED BY <3>1 DEF RouterInit
  <2>3. missed \in [Thread -> BOOLEAN] /\ unreachable \subseteq Request /\ slept \in BOOLEAN
    BY DEF RouterInit
  <2> QED BY <1>2, <2>1, <2>2, <2>3 DEF RouterTypeOK, Record
<1>4. MissedOK /\ SweeperOK /\ UnreachableOK
  BY DEF RouterInit, MissedOK, SweeperOK, UnreachableOK, Thread
<1> QED BY <1>2, <1>3, <1>4 DEF RouterInv

LEMMA RouterInvNext == RouterInv /\ [RouterNext]_routerVars => RouterInv'
<1> SUFFICES ASSUME RouterInv, [RouterNext]_routerVars PROVE RouterInv'
  OBVIOUS
<1>1. ASSUME NEW x \in Input, Len(fate) < MaxPackets,
             ReceiveIp(x.iface, [id |-> Len(fate) + 1, kind |-> x.kind,
                                 src |-> x.src, dst |-> x.dst, ttl |-> x.ttl])
      PROVE  RouterInv'
  <2> DEFINE pkt == [id |-> Len(fate) + 1, kind |-> x.kind,
                     src |-> x.src, dst |-> x.dst, ttl |-> x.ttl]
  <2>1. Len(fate) \in Nat /\ Len(fate) + 1 \in 0..MaxPackets
    BY <1>1, InvTypes, RouterAssumption
  <2>2. pkt \in Packet /\ x.iface \in Iface
    BY <2>1, RouterAssumption
  <2> HIDE DEF pkt
  <2>3. ReceiveIp(x.iface, pkt)
    BY <1>1 DEF pkt
  <2> QED BY <1>1, <2>2, <2>3, ReceiveIpStep
<1>2. CASE UNCHANGED routerVars
  BY <1>2 DEF RouterInv, RouterTypeOK, CacheTypeOK, CacheConsistent, OneEntryPerAddress,
              OneRequestPerHop, KnownNotAwaited, Known, MissedOK, SweeperOK, UnreachableOK,
              routerVars, cacheVars
<1> QED
  BY <1>1, <1>2, ReceiveArpReplyStep, LookupStep, PendStep, SweeperStep,
     ReportUnreachableStep, TickStep DEF RouterNext

\* RouterInv holds throughout.
THEOREM RouterInvariant == RouterSpec => []RouterInv
<1> QED BY RouterInvInit, RouterInvNext, PTL DEF RouterSpec

\* The state keeps its types: what is handed over for sending leads to an
\* interface and an address of the router's, and no retry is counted beyond
\* MaxRetries (arpcache.c, ip_base.c, icmp.c).
THEOREM RouterTypes == RouterSpec => []RouterTypeOK
<1>1. RouterInv => RouterTypeOK
  BY DEF RouterInv
<1> QED BY <1>1, RouterInvariant, PTL

\* Lookup, append, insert and sweep are critical sections of their own, run by
\* two threads, but the table holds one mapping for an address, the list one
\* request for a next hop, and no received packet waits for a mapping that is
\* there (arpcache_lookup, arpcache_append_packet, arpcache_insert).
THEOREM CacheStaysConsistent == RouterSpec => []CacheConsistent
<1>1. RouterInv => CacheConsistent
  BY DEF RouterInv
<1> QED BY <1>1, RouterInvariant, PTL

\* A mapping in use gives way only when the table is full (arpcache_insert).
THEOREM EvictionOnlyWhenFull == RouterSpec => EvictsOnlyWhenFull
<1> DEFINE Kept(i) == /\ entries[i].valid /\ entries[i].age <= EntryTimeout
                      /\ entries'[i].ip # entries[i].ip
                      => \A j \in Slot : entries[j].valid
<1>1. ASSUME RouterInv, [RouterNext]_routerVars
      PROVE  [\A i \in Slot : Kept(i)]_entries
  <2>1. SUFFICES ASSUME NEW i \in Slot, entries'[i].ip # entries[i].ip,
                        entries[i].valid, entries[i].age <= EntryTimeout,
                        NEW j \in Slot, ~entries[j].valid
                 PROVE  FALSE
    OBVIOUS
  <2>2. entries \in [Slot -> Entry]
    BY <1>1, InvTypes DEF CacheTypeOK
  <2>3. ASSUME NEW ip \in Address, Insert(ip) PROVE FALSE
    <3>1. PICK k \in Slot : InsertSlot(k, ip)
             /\ entries' = [entries EXCEPT ![k] = [valid |-> TRUE, ip |-> ip, age |-> 0]]
      BY <2>3 DEF Insert
    <3>2. k = i /\ entries[i].ip # ip
      BY <2>1, <2>2, <3>1
    <3> QED BY <2>1, <3>1, <3>2 DEF InsertSlot
  <2>4. CASE SweepCache
    <3>1. ~(entries[i].age > EntryTimeout)
      <4>1. entries[i].age \in Nat /\ EntryTimeout \in Nat
        BY <2>1, <2>2, ArpAssumption DEF Entry
      <4> QED BY <2>1, <4>1
    <3>2. entries'[i] = entries[i]
      BY <2>1, <2>4, <3>1 DEF SweepCache
    <3> QED BY <2>1, <3>2
  <2>5. CASE AgeCache
    BY <2>1, <2>2, <2>5 DEF AgeCache, Entry
  <2>6. CASE UNCHANGED entries
    BY <2>1, <2>6
  <2> QED
    BY <1>1, <2>3, <2>4, <2>5, <2>6
    DEF RouterNext, ReceiveIp, ReceiveArpReply, Lookup, Pend, AppendPacket, Sweep,
        ReportUnreachable, Tick, routerVars, cacheVars
<1> QED BY <1>1, RouterInvariant, PTL DEF RouterSpec, EvictsOnlyWhenFull

-----------------------------------------------------------------------------
(***************************************************************************)
(* Where packets are.  The receive loop holds those it has still to send,  *)
(* requests those that wait; those given up are on the unreachable list.   *)
(***************************************************************************)
In(S, k) == \E r \in S : \E n \in DOMAIN r.pkts : r.pkts[n].id = k

Queued(jobs, k) == \E n \in DOMAIN jobs : jobs[n].pkt.id = k

InsideOf(f, k) == k \in DOMAIN f /\ f[k].what = "inside"

\* No packet is at two places of the same kind.
Alone(S) ==
  \A r, q \in S : \A n \in DOMAIN r.pkts, m \in DOMAIN q.pkts :
    r.pkts[n].id = q.pkts[m].id /\ r.pkts[n].id # 0 => r = q /\ n = m

OneAt(jobs) ==
  \A m, n \in DOMAIN jobs : jobs[m].pkt.id # 0 /\ jobs[n].pkt.id # 0 => m = n

\* Nor at places of two kinds; and the receive loop has only the last.
Tracked(k, jobs, reqs, unr, f) ==
  /\ InsideOf(f, k) <=> Queued(jobs, k) \/ In(reqs, k) \/ In(unr, k)
  /\ ~(Queued(jobs, k) /\ In(reqs, k))
  /\ ~(Queued(jobs, k) /\ In(unr, k))
  /\ ~(In(reqs, k) /\ In(unr, k))
  /\ Queued(jobs, k) => k = Len(f)

\* Packets wait in the order of their arrival.
InOrder(S) ==
  \A r \in S : \A m, n \in DOMAIN r.pkts :
    m < n /\ r.pkts[m].id # 0 /\ r.pkts[n].id # 0 => r.pkts[m].id < r.pkts[n].id

\* They wait for the next hop that was found for them.
HopsRight(jobs, reqs, f) ==
  /\ \A n \in DOMAIN jobs : jobs[n].pkt.id # 0 => f[jobs[n].pkt.id].hop = jobs[n].hop
  /\ \A r \in reqs : \A n \in DOMAIN r.pkts : r.pkts[n].id # 0 => f[r.pkts[n].id].hop = r.ip

NotOvertaken(unr, f) ==
  \A k, l \in DOMAIN f :
    k < l /\ f[k].hop = f[l].hop /\ f[k].what = "inside" /\ ~In(unr, k) => f[l].what # "sent"

Track(jobs, reqs, unr, f) ==
  /\ OneAt(jobs) /\ Alone(reqs) /\ Alone(unr) /\ InOrder(reqs)
  /\ \A k \in 1..MaxPackets : Tracked(k, jobs, reqs, unr, f)
  /\ HopsRight(jobs, reqs, f)
  /\ NotOvertaken(unr, f)

TrackInv == Track(todo["receive"], requests, unreachable, fate)

LEMMA PlaceTypes ==
  /\ MaxPackets \in Nat
  /\ \A r \in Request : r.pkts \in Seq(Packet) /\ r.ip \in Address
  /\ \A r \in Request : \A n \in DOMAIN r.pkts : r.pkts[n].id \in 0..MaxPackets
  /\ \A job \in Job : job.pkt.id \in 0..MaxPackets
<1>1. MaxPackets \in Nat /\ \A p \in Packet : p.id \in 0..MaxPackets
  BY RouterAssumption
<1>2. \A r \in Request : r.pkts \in Seq(Packet) /\ r.ip \in Address
  BY DEF Request
<1>3. \A q \in Seq(Packet) : \A n \in DOMAIN q : q[n] \in Packet
  OBVIOUS
<1> QED BY <1>1, <1>2, <1>3 DEF Job

\* A packet arrives when the receive loop has nothing to send.
LEMMA TrackArrival ==
  ASSUME NEW reqs \in SUBSET Request, NEW unr \in SUBSET Request,
         NEW f \in Seq(Record), Len(f) < MaxPackets, Track(<<>>, reqs, unr, f),
         NEW rec \in Record, rec.what # "sent",
         NEW jobs \in Seq(Job), OneAt(jobs),
         \A n \in DOMAIN jobs : /\ jobs[n].pkt.id \in {0, Len(f) + 1}
                                /\ jobs[n].pkt.id # 0 => rec.hop = jobs[n].hop,
         rec.what = "inside" <=> Queued(jobs, Len(f) + 1)
  PROVE  Track(jobs, reqs, unr, Append(f, rec))
<1> DEFINE g == Append(f, rec)
           new == Len(f) + 1
<1>1. /\ g \in Seq(Record) /\ Len(g) = new /\ DOMAIN g = 1..new /\ DOMAIN f = 1..Len(f)
      /\ \A k \in DOMAIN f : g[k] = f[k]
      /\ g[new] = rec
      /\ Len(f) \in Nat /\ new \in Nat
  BY AppendType
<1> HIDE DEF g, new
<1>2. \A k \in 1..MaxPackets : Tracked(k, <<>>, reqs, unr, f)
  BY DEF Track
<1>3. \A k \in 1..MaxPackets : /\ ~Queued(<<>>, k)
                               /\ InsideOf(f, k) <=> In(reqs, k) \/ In(unr, k)
                               /\ ~(In(reqs, k) /\ In(unr, k))
                               /\ Queued(jobs, k) => k = new
  BY <1>2 DEF Tracked, Queued, new
<1>4. \A k \in 1..MaxPackets : InsideOf(g, k) <=> InsideOf(f, k) \/ Queued(jobs, k)
  <2> SUFFICES ASSUME NEW k \in 1..MaxPackets
               PROVE  InsideOf(g, k) <=> InsideOf(f, k) \/ Queued(jobs, k)
    OBVIOUS
  <2>1. CASE k = new
    BY <1>1, <1>3, <2>1 DEF InsideOf, new
  <2>2. CASE k # new
    BY <1>1, <1>3, <2>2 DEF InsideOf, new
  <2> QED BY <2>1, <2>2
<1>5. ~InsideOf(f, new)
  BY <1>1 DEF InsideOf, new
<1>6. \A k \in 1..MaxPackets : Tracked(k, jobs, reqs, unr, g)
  BY <1>1, <1>3, <1>4, <1>5 DEF Tracked
<1>7. HopsRight(jobs, reqs, g)
  <2>1. ASSUME NEW r \in reqs, NEW n \in DOMAIN r.pkts, r.pkts[n].id # 0
        PROVE  g[r.pkts[n].id].hop = r.ip
    <3>1. r.pkts[n].id \in 1..MaxPackets
      BY <2>1, PlaceTypes
    <3>2. r.pkts[n].id \in DOMAIN f
      BY <1>3, <3>1 DEF In, InsideOf
    <3> QED BY <1>1, <2>1, <3>2 DEF Track, HopsRight
  <2>2. ASSUME NEW n \in DOMAIN jobs, jobs[n].pkt.id # 0
        PROVE  g[jobs[n].pkt.id].hop = jobs[n].hop
    BY <1>1, <2>2 DEF new
  <2> QED BY <2>1, <2>2 DEF HopsRight
<1>8. NotOvertaken(unr, g)
  <2> SUFFICES ASSUME NEW k \in DOMAIN g, NEW l \in DOMAIN g, k < l, g[k].hop = g[l].hop,
                      g[k].what = "inside", ~In(unr, k)
               PROVE  g[l].what # "sent"
    BY DEF NotOvertaken
  <2>1. CASE l = new
    BY <1>1, <2>1
  <2>2. CASE l # new
    <3>1. k \in DOMAIN f /\ l \in DOMAIN f
      BY <1>1, <2>2 DEF new
    <3> QED BY <1>1, <3>1 DEF Track, NotOvertaken
  <2> QED BY <2>1, <2>2
<1> QED BY <1>6, <1>7, <1>8 DEF Track, g

\* Only what changes of the packets that are gone changes.
Settled(f, g, gone) ==
  /\ DOMAIN g = DOMAIN f /\ Len(g) = Len(f)
  /\ \A k \in DOMAIN f : /\ g[k].hop = f[k].hop
                         /\ k \notin gone => g[k].what = f[k].what
                         /\ k \in gone => g[k].what # "inside"

\* Packets leave the places they were at.
LEMMA TrackGone ==
  ASSUME NEW jobs, NEW reqs, NEW unr, NEW f, Track(jobs, reqs, unr, f),
         NEW jobs2, NEW reqs2, NEW unr2, NEW g, NEW gone, Settled(f, g, gone),
         \A k \in 1..MaxPackets :
           /\ Queued(jobs2, k) => Queued(jobs, k)
           /\ In(reqs2, k) => In(reqs, k)
           /\ In(unr2, k) => In(unr, k)
           /\ Queued(jobs2, k) \/ In(reqs2, k) \/ In(unr2, k) <=> InsideOf(f, k) /\ k \notin gone
  PROVE  \A k \in 1..MaxPackets : Tracked(k, jobs2, reqs2, unr2, g)
<1> SUFFICES ASSUME NEW k \in 1..MaxPackets PROVE Tracked(k, jobs2, reqs2, unr2, g)
  OBVIOUS
<1>1. Tracked(k, jobs, reqs, unr, f)
  BY DEF Track
<1>2. InsideOf(g, k) <=> InsideOf(f, k) /\ k \notin gone
  BY DEF InsideOf, Settled
<1>3. Len(g) = Len(f)
  BY DEF Settled
<1> QED BY <1>1, <1>2, <1>3 DEF Tracked

\* If what stays is in order, only hops and types are left to see to.
LEMMA TrackStays ==
  ASSUME NEW jobs, NEW reqs, NEW unr, NEW f, Track(jobs, reqs, unr, f),
         NEW jobs2 \in Seq(Job), NEW reqs2 \in SUBSET Request, NEW unr2, NEW g, NEW gone,
         Settled(f, g, gone),
         \A k \in 1..MaxPackets :
           /\ Queued(jobs2, k) => Queued(jobs, k)
           /\ In(unr2, k) /\ In(reqs2, k) => FALSE
           /\ In(reqs2, k) /\ Queued(jobs2, k) => FALSE
           /\ In(unr2, k) => ~Queued(jobs, k)
           /\ Queued(jobs2, k) \/ In(reqs2, k) \/ In(unr2, k) <=> InsideOf(f, k) /\ k \notin gone,
         OneAt(jobs2), Alone(reqs2), Alone(unr2), InOrder(reqs2), HopsRight(jobs2, reqs2, f),
         NotOvertaken(unr2, g)
  PROVE  Track(jobs2, reqs2, unr2, g)
<1>1. \A k \in 1..MaxPackets : Tracked(k, jobs2, reqs2, unr2, g)
  <2> SUFFICES ASSUME NEW k \in 1..MaxPackets PROVE Tracked(k, jobs2, reqs2, unr2, g)
    OBVIOUS
  <2>1. Tracked(k, jobs, reqs, unr, f)
    BY DEF Track
  <2>2. InsideOf(g, k) <=> InsideOf(f, k) /\ k \notin gone
    BY DEF InsideOf, Settled
  <2>3. Len(g) = Len(f)
    BY DEF Settled
  <2> QED BY <2>1, <2>2, <2>3 DEF Tracked
<1>2. HopsRight(jobs2, reqs2, g)
  <2>1. ASSUME NEW k \in 1..MaxPackets, Queued(jobs2, k) \/ In(reqs2, k)
        PROVE  g[k].hop = f[k].hop
    <3>1. k \in DOMAIN f
      BY <2>1 DEF InsideOf
    <3> QED BY <3>1 DEF Settled
  <2>2. ASSUME NEW n \in DOMAIN jobs2, jobs2[n].pkt.id # 0
        PROVE  g[jobs2[n].pkt.id].hop = jobs2[n].hop
    <3>1. jobs2[n] \in Job
      OBVIOUS
    <3>2. jobs2[n].pkt.id \in 1..MaxPackets
      BY <2>2, <3>1, PlaceTypes
    <3>3. g[jobs2[n].pkt.id].hop = f[jobs2[n].pkt.id].hop
      BY <2>1, <3>2 DEF Queued
    <3> QED BY <2>2, <3>3 DEF HopsRight
  <2>3. ASSUME NEW r \in reqs2, NEW n \in DOMAIN r.pkts, r.pkts[n].id # 0
        PROVE  g[r.pkts[n].id].hop = r.ip
    <3>1. r.pkts[n].id \in 1..MaxPackets
      BY <2>3, PlaceTypes
    <3>2. g[r.pkts[n].id].hop = f[r.pkts[n].id].hop
      BY <2>1, <3>1 DEF In
    <3> QED BY <2>3, <3>2 DEF HopsRight
  <2> QED BY <2>2, <2>3 DEF HopsRight
<1> QED BY <1>1, <1>2 DEF Track

\* The job that was first leaves the receive loop's list.
LEMMA TailPlaces ==
  ASSUME NEW jobs \in Seq(Job), jobs # <<>>, OneAt(jobs)
  PROVE  /\ OneAt(Tail(jobs))
         /\ \A k \in 1..MaxPackets :
              Queued(Tail(jobs), k) <=> Queued(jobs, k) /\ k # Head(jobs).pkt.id
         /\ \A n \in DOMAIN Tail(jobs) : \E m \in DOMAIN jobs : jobs[m] = Tail(jobs)[n]
<1> DEFINE rest == Tail(jobs)
<1>1. /\ rest \in Seq(Job) /\ Len(jobs) \in Nat \ {0} /\ Len(rest) = Len(jobs) - 1
      /\ \A n \in DOMAIN rest : n + 1 \in DOMAIN jobs /\ rest[n] = jobs[n + 1]
      /\ 1 \in DOMAIN jobs /\ Head(jobs) = jobs[1]
      /\ DOMAIN rest = 1..Len(rest) /\ DOMAIN jobs = 1..Len(jobs)
  BY TailType
<1> HIDE DEF rest
<1>2. OneAt(rest)
  BY <1>1 DEF OneAt
<1>3. ASSUME NEW k \in 1..MaxPackets
      PROVE  Queued(rest, k) <=> Queued(jobs, k) /\ k # Head(jobs).pkt.id
  <2>1. ASSUME NEW n \in DOMAIN rest, rest[n].pkt.id = k
        PROVE  Queued(jobs, k) /\ k # Head(jobs).pkt.id
    BY <1>1, <2>1 DEF Queued, OneAt
  <2>2. ASSUME NEW n \in DOMAIN jobs, jobs[n].pkt.id = k, k # Head(jobs).pkt.id
        PROVE  Queued(rest, k)
    <3>1. n - 1 \in DOMAIN rest /\ (n - 1) + 1 = n
      BY <1>1, <2>2
    <3>2. rest[n - 1] = jobs[n]
      BY <1>1, <3>1
    <3> QED BY <2>2, <3>1, <3>2 DEF Queued
  <2> QED BY <2>1, <2>2 DEF Queued
<1>4. \A n \in DOMAIN rest : \E m \in DOMAIN jobs : jobs[m] = rest[n]
  BY <1>1
<1> QED BY <1>2, <1>3, <1>4 DEF rest

\* A packet joins those that wait for its next hop, behind them.
Joins(pkt, hop, reqs, reqs2) ==
  \E old \in SUBSET reqs, new \in Request, q \in Seq(Packet) :
    /\ new.pkts = Append(q, pkt) /\ new.ip = hop
    /\ \A r \in old : r.pkts = q /\ r.ip = hop
    /\ old = {} => q = <<>>
    /\ \A r, s \in old : r = s
    /\ reqs2 = (reqs \ old) \cup {new}

\* Those that wait came before it.
CameLast(pkt, hop, reqs, f) ==
  pkt.id # 0 => /\ f[pkt.id].hop = hop
                /\ \A k \in 1..MaxPackets : In(reqs, k) => k < pkt.id

LEMMA AppendPlaces ==
  ASSUME NEW reqs \in SUBSET Request, NEW jobs, NEW f,
         Alone(reqs), InOrder(reqs), HopsRight(jobs, reqs, f),
         NEW pkt \in Packet, NEW hop \in Address, CameLast(pkt, hop, reqs, f),
         NEW reqs2, Joins(pkt, hop, reqs, reqs2)
  PROVE  /\ Alone(reqs2) /\ InOrder(reqs2) /\ HopsRight(<<>>, reqs2, f)
         /\ \A k \in 1..MaxPackets : In(reqs2, k) <=> In(reqs, k) \/ k = pkt.id
<1>0. PICK old \in SUBSET reqs, new \in Request, q \in Seq(Packet) :
        /\ new.pkts = Append(q, pkt) /\ new.ip = hop
        /\ \A r \in old : r.pkts = q /\ r.ip = hop
        /\ old = {} => q = <<>>
        /\ \A r, s \in old : r = s
        /\ reqs2 = (reqs \ old) \cup {new}
  BY DEF Joins
<1>1. /\ DOMAIN new.pkts = 1..(Len(q) + 1) /\ DOMAIN q = 1..Len(q) /\ Len(q) \in Nat
      /\ \A n \in DOMAIN q : n \in DOMAIN new.pkts /\ new.pkts[n] = q[n]
      /\ new.pkts[Len(q) + 1] = pkt
  BY <1>0, AppendType
<1>2. \A n \in DOMAIN new.pkts : new.pkts[n].id \in 0..MaxPackets
  BY PlaceTypes
<1>3. pkt.id \in 0..MaxPackets
  BY <1>1, <1>2
<1>4. \A n \in DOMAIN q : \E r \in old : r.pkts = q /\ r.ip = hop
  <2>1. old = {} => DOMAIN q = {}
    BY <1>0, <1>1
  <2> QED BY <1>0, <2>1
<1>5. \A n \in DOMAIN q : n < Len(q) + 1
  BY <1>1
<1>6. \A n \in DOMAIN new.pkts : n \in DOMAIN q \/ n = Len(q) + 1
  BY <1>1
<1>7. \A r \in reqs : \A n \in DOMAIN r.pkts :
        r.pkts[n].id # 0 => r.pkts[n].id \in 1..MaxPackets /\ In(reqs, r.pkts[n].id)
  BY PlaceTypes DEF In
<1>8. \A r \in reqs : \A n \in DOMAIN r.pkts :
        r.pkts[n].id # 0 /\ pkt.id # 0 => r.pkts[n].id < pkt.id
  BY <1>7 DEF CameLast
<1>9. \A k \in 1..MaxPackets : In(reqs2, k) <=> In(reqs, k) \/ k = pkt.id
  <2> SUFFICES ASSUME NEW k \in 1..MaxPackets
               PROVE  In(reqs2, k) <=> In(reqs, k) \/ k = pkt.id
    OBVIOUS
  <2>1. In({new}, k) => In(reqs, k) \/ k = pkt.id
    BY <1>0, <1>1, <1>4, <1>6 DEF In
  <2>2. k = pkt.id => In(reqs2, k)
    BY <1>0, <1>1 DEF In
  <2>3. ASSUME NEW r \in old, NEW n \in DOMAIN r.pkts, r.pkts[n].id = k
        PROVE  In(reqs2, k)
    BY <1>0, <1>1, <2>3 DEF In
  <2> QED BY <1>0, <2>1, <2>2, <2>3 DEF In
<1>10. InOrder(reqs2)
  <2>1. ASSUME NEW m \in DOMAIN new.pkts, NEW n \in DOMAIN new.pkts, m < n,
               new.pkts[m].id # 0, new.pkts[n].id # 0
        PROVE  new.pkts[m].id < new.pkts[n].id
    <3>1. m \in DOMAIN q
      BY <1>1, <2>1
    <3>2. PICK r \in old : r.pkts = q
      BY <1>4, <3>1
    <3>3. CASE n \in DOMAIN q
      BY <1>1, <2>1, <3>1, <3>2, <3>3 DEF InOrder
    <3>4. CASE n = Len(q) + 1
      BY <1>1, <1>8, <2>1, <3>1, <3>2, <3>4
    <3> QED BY <1>6, <3>3, <3>4
  <2> QED BY <1>0, <2>1 DEF InOrder
<1>11. HopsRight(<<>>, reqs2, f)
  <2>1. \A n \in DOMAIN new.pkts : new.pkts[n].id # 0 => f[new.pkts[n].id].hop = new.ip
    BY <1>0, <1>1, <1>4, <1>6 DEF HopsRight, CameLast
  <2> QED BY <1>0, <2>1 DEF HopsRight
<1>12. Alone(reqs2)
  <2>1. ASSUME NEW r \in reqs \ old, NEW n \in DOMAIN r.pkts, NEW m \in DOMAIN new.pkts,
               r.pkts[n].id = new.pkts[m].id, r.pkts[n].id # 0
        PROVE  FALSE
    <3>1. CASE m \in DOMAIN q
      <4>1. PICK s \in old : s.pkts = q
        BY <1>4, <3>1
      <4> QED BY <1>1, <2>1, <3>1, <4>1 DEF Alone
    <3>2. CASE m = Len(q) + 1
      <4>1. r.pkts[n].id < pkt.id /\ r.pkts[n].id = pkt.id
        BY <1>1, <1>8, <2>1, <3>2
      <4> QED BY <1>3, <4>1
    <3> QED BY <1>6, <3>1, <3>2
  <2>2. ASSUME NEW n \in DOMAIN new.pkts, NEW m \in DOMAIN new.pkts,
               new.pkts[n].id = new.pkts[m].id, new.pkts[n].id # 0
        PROVE  n = m
    <3>1. CASE n \in DOMAIN q /\ m \in DOMAIN q
      <4>1. PICK s \in old : s.pkts = q
        BY <1>4, <3>1
      <4> QED BY <1>1, <2>2, <3>1, <4>1 DEF Alone
    <3>2. CASE n # m
      <4>1. new.pkts[n].id < new.pkts[m].id \/ new.pkts[m].id < new.pkts[n].id
        BY <1>0, <1>1, <1>10, <2>2, <3>2 DEF InOrder
      <4> QED BY <1>2, <2>2, <4>1
    <3> QED BY <3>2
  <2>3. ASSUME NEW r \in reqs2, NEW s \in reqs2, NEW n \in DOMAIN r.pkts, NEW m \in DOMAIN s.pkts,
               r.pkts[n].id = s.pkts[m].id, r.pkts[n].id # 0
        PROVE  r = s /\ n = m
    <3>1. CASE r = new /\ s = new
      BY <2>2, <2>3, <3>1
    <3>2. CASE r = new /\ s # new
      BY <1>0, <2>1, <2>3, <3>2
    <3>3. CASE r # new /\ s = new
      BY <1>0, <2>1, <2>3, <3>3
    <3>4. CASE r \in reqs /\ s \in reqs
      BY <2>3, <3>4 DEF Alone
    <3> QED BY <1>0, <2>3, <3>1, <3>2, <3>3, <3>4
  <2> QED BY <1>0, <2>3 DEF Alone
<1> QED BY <1>9, <1>10, <1>11, <1>12

\* Requests that are changed, but for their address and packets, hold the same.
Renewed(S, fn, T) ==
  /\ T = {fn[r] : r \in S}
  /\ \A r \in S : fn[r].ip = r.ip /\ fn[r].pkts = r.pkts

LEMMA MapPlaces ==
  ASSUME NEW S, NEW fn, NEW T, Renewed(S, fn, T),
         NEW jobs, NEW f, Alone(S), InOrder(S), HopsRight(jobs, S, f)
  PROVE  /\ Alone(T) /\ InOrder(T) /\ HopsRight(jobs, T, f)
         /\ \A k : In(T, k) <=> In(S, k)
<1>1. Alone(T)
  BY DEF Alone, Renewed
<1>2. InOrder(T)
  BY DEF InOrder, Renewed
<1>3. HopsRight(jobs, T, f)
  BY DEF HopsRight, Renewed
<1>4. \A k : In(T, k) <=> In(S, k)
  BY DEF In, Renewed
<1> QED BY <1>1, <1>2, <1>3, <1>4

-----------------------------------------------------------------------------
(***************************************************************************)
(* The steps of the router, and where they leave the packets.              *)
(***************************************************************************)

LEMMA ArrivalTrack ==
  ASSUME RouterInv, TrackInv, Idle("receive"), Len(fate) < MaxPackets,
         NEW jobs \in Seq(Job), HandOver(jobs) \/ (jobs = <<>> /\ UNCHANGED todo), OneAt(jobs),
         NEW rec \in Record, rec.what # "sent",
         \A n \in DOMAIN jobs : /\ jobs[n].pkt.id \in {0, Len(fate) + 1}
                                /\ jobs[n].pkt.id # 0 => rec.hop = jobs[n].hop,
         rec.what = "inside" <=> Queued(jobs, Len(fate) + 1),
         fate' = Append(fate, rec), UNCHANGED <<cacheVars, unreachable>>
  PROVE  TrackInv'
<1>1. todo["receive"] = <<>>
  BY DEF Idle
<1>2. todo'["receive"] = jobs
  BY <1>1, InvTypes DEF HandOver, Thread
<1>3. Track(<<>>, requests, unreachable, fate)
  BY <1>1 DEF TrackInv
<1>4. requests \in SUBSET Request /\ unreachable \in SUBSET Request /\ fate \in Seq(Record)
  BY InvTypes DEF CacheTypeOK
<1>5. Track(jobs, requests, unreachable, Append(fate, rec))
  BY <1>3, <1>4, TrackArrival
<1> QED BY <1>2, <1>5 DEF TrackInv, cacheVars

\* A packet that is not forwarded leaves nothing behind but unnumbered ones.
LEMMA SettledArrival ==
  ASSUME RouterInv, TrackInv, Idle("receive"), Len(fate) < MaxPackets,
         NEW jobs \in Seq(Unnumbered), HandOver(jobs) \/ (jobs = <<>> /\ UNCHANGED todo),
         NEW what \in {"answered", "reported", "dropped"}, Settle(0, what),
         UNCHANGED <<cacheVars, unreachable>>
  PROVE  TrackInv'
<1>1. jobs \in Seq(Job) /\ \A n \in DOMAIN jobs : jobs[n].pkt.id = 0
  <2>1. jobs \in Seq(Job)
    BY DEF Unnumbered
  <2>2. \A n \in DOMAIN jobs : jobs[n] \in Unnumbered
    OBVIOUS
  <2> QED BY <2>1, <2>2 DEF Unnumbered
<1> DEFINE rec == [hop |-> 0, what |-> what]
<1>2. rec \in Record /\ rec.what # "sent" /\ rec.what # "inside" /\ fate' = Append(fate, rec)
  BY DEF Record, Settle
<1> HIDE DEF rec
<1>3. Len(fate) + 1 # 0
  BY InvTypes
<1>4. OneAt(jobs) /\ ~Queued(jobs, Len(fate) + 1)
  BY <1>1, <1>3 DEF OneAt, Queued
<1> QED BY <1>1, <1>2, <1>4, ArrivalTrack

LEMMA ReceiveIpTrack ==
  ASSUME RouterInv, TrackInv, NEW i \in Iface, NEW pkt \in Packet, pkt.id = Len(fate) + 1,
         Len(fate) < MaxPackets, ReceiveIp(i, pkt)
  PROVE  TrackInv'
<1>1. Idle("receive") /\ UNCHANGED <<cacheVars, unreachable>>
  BY DEF ReceiveIp
<1>2. <<>> \in Seq(Unnumbered)
  OBVIOUS
<1>3. ReplyJobs(pkt) \in Seq(Unnumbered) /\ ErrorJobs(pkt) \in Seq(Unnumbered)
  BY ReplyJobsType, ErrorJobsType
<1>4. EarlyReply(i, pkt) \in Seq(Unnumbered)
  BY <1>2, <1>3 DEF EarlyReply
<1>5. CASE DropLocal(i, pkt)
  BY <1>1, <1>2, <1>5, SettledArrival DEF DropLocal
<1>6. CASE Report(i, pkt)
  <2>1. EarlyReply(i, pkt) \o ErrorJobs(pkt) \in Seq(Unnumbered)
    BY <1>3, <1>4, ConcatType
  <2>2. ErrorFate(pkt) \in {"answered", "reported", "dropped"}
    BY DEF ErrorFate
  <2> QED BY <1>1, <1>6, <2>1, <2>2, SettledArrival DEF Report
<1>7. CASE DeliverLocal(i, pkt)
  <2> DEFINE what == IF ReplyJobs(pkt) # <<>> THEN "answered" ELSE "dropped"
  <2>1. EarlyReply(i, pkt) \o ReplyJobs(pkt) \in Seq(Unnumbered)
    BY <1>3, <1>4, ConcatType
  <2>2. what \in {"answered", "reported", "dropped"} /\ Settle(0, what)
    BY <1>7 DEF DeliverLocal
  <2> HIDE DEF what
  <2> QED BY <1>1, <1>7, <2>1, <2>2, SettledArrival DEF DeliverLocal
<1>8. CASE Forward(i, pkt)
  <2> DEFINE older == [pkt EXCEPT !.ttl = TtlAfter(pkt)]
             early == EarlyReply(i, pkt)
             job == [iface |-> RouteOf(pkt.dst).iface, hop |-> NextHop(pkt.dst), pkt |-> older]
             rec == [hop |-> NextHop(pkt.dst), what |-> "inside"]
             jobs == early \o <<job>>
  <2>1. pkt.dst \in Address /\ HasRoute(pkt.dst)
    BY <1>8, RouterAssumption DEF Forward
  <2>2. older \in Packet /\ older.id = Len(fate) + 1 /\ older.dst = pkt.dst
    BY TtlType, RouterAssumption
  <2>3. /\ HandOver(early \o SendJobs(older)) /\ Settle(NextHop(pkt.dst), "inside")
    BY <1>8 DEF Forward
  <2>4. rec \in Record /\ rec.what = "inside" /\ rec.hop = NextHop(pkt.dst)
    BY <2>1, RouteType DEF Record
  <2>5. fate' = Append(fate, rec)
    BY <2>3 DEF Settle
  <2> HIDE DEF older, rec
  <2>6. SendJobs(older) = <<job>>
    BY <2>1, <2>2 DEF SendJobs
  <2>7. /\ job \in Job /\ job.pkt = older /\ job.hop = NextHop(pkt.dst)
    BY <2>1, <2>2, RouteType DEF Job
  <2> HIDE DEF job
  <2>8. early \in Seq(Job) /\ \A n \in DOMAIN early : early[n].pkt.id = 0
    <3>1. early \in Seq(Job)
      BY <1>4 DEF Unnumbered
    <3>2. \A n \in DOMAIN early : early[n] \in Unnumbered
      BY <1>4
    <3> QED BY <3>1, <3>2 DEF Unnumbered
  <2> HIDE DEF early
  <2>9. /\ jobs \in Seq(Job)
        /\ \A n \in DOMAIN jobs : \/ n \in DOMAIN early /\ jobs[n] = early[n]
                                  \/ n = Len(early) + 1 /\ jobs[n] = job
        /\ Len(early) + 1 \in DOMAIN jobs /\ jobs[Len(early) + 1] = job
    BY <2>7, <2>8
  <2>10. HandOver(jobs)
    BY <2>3, <2>6
  <2> HIDE DEF jobs
  <2>11. OneAt(jobs)
    BY <2>8, <2>9 DEF OneAt
  <2>12. Queued(jobs, Len(fate) + 1)
    BY <2>2, <2>7, <2>9 DEF Queued
  <2>13. \A n \in DOMAIN jobs : /\ jobs[n].pkt.id \in {0, Len(fate) + 1}
                                /\ jobs[n].pkt.id # 0 => rec.hop = jobs[n].hop
    BY <2>2, <2>4, <2>7, <2>8, <2>9
  <2> QED BY <1>1, <2>4, <2>5, <2>9, <2>10, <2>11, <2>12, <2>13, ArrivalTrack
<1> QED BY <1>5, <1>6, <1>7, <1>8 DEF ReceiveIp

\* All that waited for the address leave together.
LEMMA ReceiveArpReplyTrack ==
  ASSUME RouterInv, TrackInv, NEW ip \in Address, ReceiveArpReply(ip)
  PROVE  TrackInv'
<1> DEFINE sent == UNION {{r.pkts[n].id : n \in DOMAIN r.pkts} : r \in Waiting(ip)}
           g == [k \in DOMAIN fate |->
                   IF k \in sent THEN [fate[k] EXCEPT !.what = "sent"] ELSE fate[k]]
           reqs2 == requests \ Waiting(ip)
<1>1. /\ todo["receive"] = <<>> /\ fate' = g /\ requests' = reqs2
      /\ UNCHANGED <<todo, unreachable>>
  BY DEF ReceiveArpReply, Idle, Insert
<1>2. requests \in SUBSET Request /\ fate \in Seq(Record)
  BY InvTypes DEF CacheTypeOK
<1>3. Settled(fate, g, sent)
  <2>1. g \in [DOMAIN fate -> Record]
    BY <1>2, WhatType
  <2>2. DOMAIN g = DOMAIN fate /\ Len(g) = Len(fate)
    BY <1>2, <2>1, FateType
  <2>3. \A k \in DOMAIN fate : fate[k] \in Record
    BY <1>2
  <2>4. \A k \in DOMAIN fate : /\ g[k].hop = fate[k].hop
                               /\ k \notin sent => g[k].what = fate[k].what
                               /\ k \in sent => g[k].what = "sent"
    BY <2>3 DEF Record
  <2> HIDE DEF g, sent
  <2> QED BY <2>2, <2>4 DEF Settled
<1>4. \A k : k \in sent <=> \E r \in requests : r.ip = ip /\ \E n \in DOMAIN r.pkts : r.pkts[n].id = k
  BY DEF Waiting
<1>5. reqs2 \in SUBSET Request /\ \A r : r \in reqs2 <=> r \in requests /\ r.ip # ip
  BY <1>2 DEF Waiting
<1> HIDE DEF g, sent, reqs2
<1>6. Track(<<>>, requests, unreachable, fate)
  BY <1>1 DEF TrackInv
<1>7. \A k \in 1..MaxPackets : In(reqs2, k) <=> In(requests, k) /\ k \notin sent
  <2> SUFFICES ASSUME NEW k \in 1..MaxPackets
               PROVE  In(reqs2, k) <=> In(requests, k) /\ k \notin sent
    OBVIOUS
  <2>1. k # 0
    BY PlaceTypes
  <2>2. In(reqs2, k) /\ k \in sent => FALSE
    BY <1>4, <1>5, <1>6, <2>1 DEF Track, Alone, In
  <2> QED BY <1>4, <1>5, <2>2 DEF In
<1>8. \A k \in 1..MaxPackets : Tracked(k, <<>>, requests, unreachable, fate) /\ ~Queued(<<>>, k)
  BY <1>6 DEF Track, Queued
<1>9. \A k \in 1..MaxPackets :
        /\ In(unreachable, k) /\ In(reqs2, k) => FALSE
        /\ In(reqs2, k) \/ In(unreachable, k) <=> InsideOf(fate, k) /\ k \notin sent
  <2>1. \A k : k \in sent => In(requests, k)
    BY <1>4 DEF In
  <2> QED BY <1>7, <1>8, <2>1 DEF Tracked
<1>10. Alone(reqs2) /\ InOrder(reqs2) /\ HopsRight(<<>>, reqs2, fate) /\ Alone(unreachable)
  BY <1>5, <1>6 DEF Track, Alone, InOrder, HopsRight
<1>11. NotOvertaken(unreachable, g)
  <2> SUFFICES ASSUME NEW k \in DOMAIN g, NEW l \in DOMAIN g, k < l, g[k].hop = g[l].hop,
                      g[k].what = "inside", ~In(unreachable, k)
               PROVE  g[l].what # "sent"
    BY DEF NotOvertaken
  <2>1. /\ k \in DOMAIN fate /\ l \in DOMAIN fate /\ fate[k].hop = fate[l].hop
        /\ k \notin sent /\ fate[k].what = "inside"
        /\ l \notin sent => g[l].what = fate[l].what
    BY <1>3 DEF Settled
  <2>2. k \in 1..MaxPackets /\ l \in 1..MaxPackets
    BY <1>2, <2>1, InvTypes, PlaceTypes
  <2>3. In(requests, k)
    BY <1>8, <2>1, <2>2 DEF Tracked, InsideOf
  <2>4. fate[k].hop # ip
    <3>1. PICK r \in requests : \E n \in DOMAIN r.pkts : r.pkts[n].id = k
      BY <2>3 DEF In
    <3>2. r.ip # ip
      BY <1>4, <2>1, <3>1
    <3>3. fate[k].hop = r.ip
      BY <1>6, <2>2, <3>1 DEF Track, HopsRight
    <3> QED BY <3>2, <3>3
  <2>5. l \in sent => fate[l].hop = ip
    BY <1>4, <1>6, <2>2 DEF Track, HopsRight
  <2>6. fate[l].what # "sent"
    BY <1>6, <2>1 DEF Track, NotOvertaken
  <2> QED BY <2>1, <2>4, <2>5, <2>6
<1>12. <<>> \in Seq(Job) /\ OneAt(<<>>)
  BY DEF OneAt
<1>13. Track(<<>>, reqs2, unreachable, g)
  BY <1>3, <1>5, <1>6, <1>8, <1>9, <1>10, <1>11, <1>12, TrackStays DEF Tracked
<1> QED BY <1>1, <1>13 DEF TrackInv

\* A packet that is sent at once is the last that came, and nothing waits for
\* its next hop.
LEMMA SendKnownTrack ==
  ASSUME RouterInv, TrackInv, NEW t \in Thread, todo[t] # <<>>, SendKnown(t),
         UNCHANGED <<cacheVars, unreachable>>
  PROVE  TrackInv'
<1> DEFINE job == Head(todo[t])
           id == job.pkt.id
           jobs == todo["receive"]
           g == [k \in DOMAIN fate |->
                   IF k = id THEN [fate[k] EXCEPT !.what = "sent"] ELSE fate[k]]
<1>1. /\ Known(job.hop) /\ fate' = g /\ requests' = requests /\ unreachable' = unreachable
      /\ todo' = [todo EXCEPT ![t] = Tail(todo[t])]
  BY DEF SendKnown, cacheVars
<1>2. /\ requests \in SUBSET Request /\ fate \in Seq(Record)
      /\ jobs \in Seq(Job) /\ todo'["receive"] \in Seq(Job)
  BY <1>1, InvTypes, NextJob DEF CacheTypeOK, Thread
<1>3. job \in Job /\ id \in 0..MaxPackets /\ (t = "sweep" => id = 0)
  BY NextJob, PlaceTypes
<1>4. Settled(fate, g, {id})
  <2>1. g \in [DOMAIN fate -> Record]
    BY <1>2, WhatType
  <2>2. DOMAIN g = DOMAIN fate /\ Len(g) = Len(fate)
    BY <1>2, <2>1, FateType
  <2>3. \A k \in DOMAIN fate : fate[k] \in Record
    BY <1>2
  <2>4. \A k \in DOMAIN fate : /\ g[k].hop = fate[k].hop
                               /\ k # id => g[k].what = fate[k].what
                               /\ k = id => g[k].what = "sent"
    BY <2>3 DEF Record
  <2> HIDE DEF g, id
  <2> QED BY <2>2, <2>4 DEF Settled
<1>5. Track(jobs, requests, unreachable, fate)
  BY DEF TrackInv
<1>6. t = "receive" => jobs # <<>> /\ job = Head(jobs) /\ todo'["receive"] = Tail(jobs)
  BY <1>1, InvTypes DEF Thread
<1>7. t = "sweep" => todo'["receive"] = jobs
  BY <1>1, InvTypes DEF Thread
<1> DEFINE jobs2 == todo'["receive"]
<1> HIDE DEF g, jobs, id, job, jobs2
<1>8. /\ OneAt(jobs2)
      /\ \A k \in 1..MaxPackets : Queued(jobs2, k) <=> Queued(jobs, k) /\ k # id
      /\ \A n \in DOMAIN jobs2 : \E m \in DOMAIN jobs : jobs[m] = jobs2[n]
  <2>1. CASE t = "receive"
    <3>1. jobs \in Seq(Job) /\ jobs # <<>> /\ OneAt(jobs)
      BY <1>2, <1>5, <1>6, <2>1 DEF Track
    <3>2. jobs2 = Tail(jobs) /\ id = Head(jobs).pkt.id
      BY <1>6, <2>1 DEF id, jobs2
    <3>3. /\ OneAt(Tail(jobs))
          /\ \A k \in 1..MaxPackets :
               Queued(Tail(jobs), k) <=> Queued(jobs, k) /\ k # Head(jobs).pkt.id
          /\ \A n \in DOMAIN Tail(jobs) : \E m \in DOMAIN jobs : jobs[m] = Tail(jobs)[n]
      BY <3>1, TailPlaces
    <3> QED BY <3>2, <3>3
  <2>2. CASE t = "sweep"
    <3>1. jobs2 = jobs /\ id = 0 /\ OneAt(jobs)
      BY <1>3, <1>5, <1>7, <2>2 DEF Track, jobs2
    <3>2. \A k \in 1..MaxPackets : k # 0
      BY PlaceTypes
    <3> QED BY <3>1, <3>2
  <2>3. t = "receive" \/ t = "sweep"
    BY DEF Thread
  <2> QED BY <2>1, <2>2, <2>3
<1>9. /\ id # 0 => t = "receive" /\ id \in 1..MaxPackets /\ Queued(jobs, id)
      /\ id # 0 => fate[id].hop = job.hop
  <2>1. id # 0 => t = "receive" /\ id \in 1..MaxPackets
    BY <1>3, PlaceTypes DEF Thread
  <2>2. t = "receive" => 1 \in DOMAIN jobs /\ job = jobs[1]
    BY <1>2, <1>6, TailType
  <2> QED BY <1>5, <2>1, <2>2 DEF Track, HopsRight, Queued, id
<1>10. \A k \in 1..MaxPackets : Tracked(k, jobs, requests, unreachable, fate)
  BY <1>5 DEF Track
<1>11. \A k \in 1..MaxPackets :
         /\ Queued(jobs2, k) => Queued(jobs, k)
         /\ In(unreachable, k) /\ In(requests, k) => FALSE
         /\ In(requests, k) /\ Queued(jobs2, k) => FALSE
         /\ In(unreachable, k) => ~Queued(jobs, k)
         /\ Queued(jobs2, k) \/ In(requests, k) \/ In(unreachable, k)
              <=> InsideOf(fate, k) /\ k \notin {id}
  <2> SUFFICES ASSUME NEW k \in 1..MaxPackets
               PROVE  /\ Queued(jobs2, k) => Queued(jobs, k)
                      /\ In(unreachable, k) /\ In(requests, k) => FALSE
                      /\ In(requests, k) /\ Queued(jobs2, k) => FALSE
                      /\ In(unreachable, k) => ~Queued(jobs, k)
                      /\ Queued(jobs2, k) \/ In(requests, k) \/ In(unreachable, k)
                           <=> InsideOf(fate, k) /\ k \notin {id}
    OBVIOUS
  <2>1. k # 0
    BY PlaceTypes
  <2>2. k = id => Queued(jobs, k)
    BY <1>9, <2>1
  <2> QED BY <1>8, <1>10, <2>2 DEF Tracked
<1>12. HopsRight(jobs2, requests, fate)
  BY <1>5, <1>8 DEF Track, HopsRight
<1>13. NotOvertaken(unreachable, g)
  <2> SUFFICES ASSUME NEW k \in DOMAIN g, NEW l \in DOMAIN g, k < l, g[k].hop = g[l].hop,
                      g[k].what = "inside", ~In(unreachable, k)
               PROVE  g[l].what # "sent"
    BY DEF NotOvertaken
  <2>1. /\ k \in DOMAIN fate /\ l \in DOMAIN fate /\ fate[k].hop = fate[l].hop
        /\ k # id /\ fate[k].what = "inside"
        /\ l # id => g[l].what = fate[l].what
    BY <1>4 DEF Settled
  <2>2. k \in 1..MaxPackets /\ l \in 1..MaxPackets
    BY <1>2, <2>1, InvTypes, PlaceTypes
  <2>3. CASE l # id
    BY <1>5, <2>1, <2>3 DEF Track, NotOvertaken
  <2>4. CASE l = id
    <3>1. l = Len(fate) /\ fate[l].hop = job.hop
      BY <1>9, <1>10, <2>2, <2>4, PlaceTypes DEF Tracked
    <3>2. ~Queued(jobs, k)
      BY <1>2, <1>10, <2>1, <2>2, <3>1 DEF Tracked
    <3>3. In(requests, k)
      BY <1>10, <2>1, <2>2, <3>2 DEF Tracked, InsideOf
    <3>4. PICK r \in requests : \E n \in DOMAIN r.pkts : r.pkts[n].id = k
      BY <3>3 DEF In
    <3>5. k # 0
      BY <2>2, PlaceTypes
    <3>6. fate[k].hop = r.ip /\ ~Known(r.ip)
      BY <1>5, <3>4, <3>5 DEF Track, HopsRight, RouterInv, CacheConsistent, KnownNotAwaited
    <3> QED BY <1>1, <2>1, <3>1, <3>6 DEF job
  <2> QED BY <2>3, <2>4
<1>14. Alone(requests) /\ Alone(unreachable) /\ InOrder(requests)
  BY <1>5 DEF Track
<1>15. Track(jobs2, requests, unreachable, g)
  <2>1. jobs2 \in Seq(Job)
    BY <1>2 DEF jobs2
  <2> QED BY <1>2, <1>4, <1>5, <1>8, <1>11, <1>12, <1>13, <1>14, <2>1, TrackStays
<1> QED BY <1>1, <1>15 DEF TrackInv, jobs2

\* A packet whose lookup failed waits behind the earlier ones for its next hop.
LEMMA PendTrack ==
  ASSUME RouterInv, TrackInv, NEW t \in Thread, Pend(t)
  PROVE  TrackInv'
<1> DEFINE job == Head(todo[t])
           id == job.pkt.id
           jobs == todo["receive"]
           jobs2 == todo'["receive"]
<1>1. /\ missed[t] /\ AppendPacket(job.iface, job.hop, job.pkt)
      /\ todo' = [todo EXCEPT ![t] = Tail(todo[t])]
      /\ UNCHANGED <<unreachable, fate>>
  BY DEF Pend
<1>2. todo[t] # <<>>
  BY <1>1 DEF RouterInv, MissedOK
<1>3. /\ requests \in SUBSET Request /\ fate \in Seq(Record)
      /\ jobs \in Seq(Job) /\ jobs2 \in Seq(Job)
  BY <1>1, <1>2, InvTypes, NextJob DEF CacheTypeOK, Thread
<1>4. job \in Job /\ id \in 0..MaxPackets /\ (t = "sweep" => id = 0)
  BY <1>2, NextJob, PlaceTypes
<1>5. job.iface \in Iface /\ job.hop \in Address /\ job.pkt \in Packet
  BY <1>4 DEF Job
<1>6. Track(jobs, requests, unreachable, fate)
  BY DEF TrackInv
<1>7. t = "receive" => jobs # <<>> /\ job = Head(jobs) /\ jobs2 = Tail(jobs)
  BY <1>1, <1>2, InvTypes DEF Thread
<1>8. t = "sweep" => jobs2 = jobs
  BY <1>1, InvTypes DEF Thread
<1>9. requests' \in SUBSET Request
  <2>1. CacheTypeOK'
    BY PendStep, InvTypes DEF RouterInv, RouterTypeOK
  <2> QED BY <2>1 DEF CacheTypeOK
<1> HIDE DEF jobs, id, job, jobs2
<1>10. /\ OneAt(jobs2)
       /\ \A k \in 1..MaxPackets : Queued(jobs2, k) <=> Queued(jobs, k) /\ k # id
       /\ \A n \in DOMAIN jobs2 : \E m \in DOMAIN jobs : jobs[m] = jobs2[n]
  <2>1. CASE t = "receive"
    <3>1. jobs \in Seq(Job) /\ jobs # <<>> /\ OneAt(jobs)
      BY <1>3, <1>6, <1>7, <2>1 DEF Track
    <3>2. jobs2 = Tail(jobs) /\ id = Head(jobs).pkt.id
      BY <1>7, <2>1 DEF id
    <3>3. /\ OneAt(Tail(jobs))
          /\ \A k \in 1..MaxPackets :
               Queued(Tail(jobs), k) <=> Queued(jobs, k) /\ k # Head(jobs).pkt.id
          /\ \A n \in DOMAIN Tail(jobs) : \E m \in DOMAIN jobs : jobs[m] = Tail(jobs)[n]
      BY <3>1, TailPlaces
    <3> QED BY <3>2, <3>3
  <2>2. CASE t = "sweep"
    <3>1. jobs2 = jobs /\ id = 0 /\ OneAt(jobs)
      BY <1>4, <1>6, <1>8, <2>2 DEF Track
    <3>2. \A k \in 1..MaxPackets : k # 0
      BY PlaceTypes
    <3> QED BY <3>1, <3>2
  <2>3. t = "receive" \/ t = "sweep"
    BY DEF Thread
  <2> QED BY <2>1, <2>2, <2>3
<1>11. /\ id # 0 => t = "receive" /\ id \in 1..MaxPackets /\ Queued(jobs, id)
       /\ id # 0 => fate[id].hop = job.hop
  <2>1. id # 0 => t = "receive" /\ id \in 1..MaxPackets
    BY <1>4, PlaceTypes DEF Thread
  <2>2. t = "receive" => 1 \in DOMAIN jobs /\ job = jobs[1]
    BY <1>3, <1>7, TailType
  <2> QED BY <1>6, <2>1, <2>2 DEF Track, HopsRight, Queued, id
<1>12. \A k \in 1..MaxPackets : Tracked(k, jobs, requests, unreachable, fate)
  BY <1>6 DEF Track
<1>13. id # 0 => \A k \in 1..MaxPackets : In(requests, k) => k < id
  <2> SUFFICES ASSUME id # 0, NEW k \in 1..MaxPackets, In(requests, k) PROVE k < id
    OBVIOUS
  <2>1. id = Len(fate) /\ ~In(requests, id)
    BY <1>11, <1>12 DEF Tracked
  <2>2. k \in DOMAIN fate
    BY <1>12 DEF Tracked, InsideOf
  <2> QED BY <1>3, <2>1, <2>2
<1>14. Alone(requests) /\ Alone(unreachable) /\ InOrder(requests) /\ HopsRight(jobs, requests, fate)
  BY <1>6 DEF Track
<1>15. Joins(job.pkt, job.hop, requests, requests')
  <2> DEFINE found == {r \in requests : r.ip = job.hop /\ r.iface = job.iface}
             first == [iface |-> job.iface, ip |-> job.hop, due |-> FALSE, retries |-> 0,
                       pkts |-> <<job.pkt>>]
  <2>1. CASE found = {} /\ requests' = requests \cup {first}
    <3>1. <<>> \in Seq(Packet) /\ <<job.pkt>> = Append(<<>>, job.pkt)
      OBVIOUS
    <3>2. first.pkts = Append(<<>>, job.pkt) /\ first.ip = job.hop
      BY <3>1
    <3> HIDE DEF first
    <3>3. first \in Request
      BY <1>9, <2>1
    <3>4. requests' = (requests \ {}) \cup {first}
      BY <2>1
    <3> QED BY <3>1, <3>2, <3>3, <3>4 DEF Joins
  <2>2. ASSUME NEW r \in found,
               requests' = (requests \ {r}) \cup {[r EXCEPT !.pkts = Append(@, job.pkt)]}
        PROVE  Joins(job.pkt, job.hop, requests, requests')
    <3> DEFINE longer == [r EXCEPT !.pkts = Append(@, job.pkt)]
    <3>1. r \in Request /\ r \in requests /\ r.ip = job.hop
      BY <1>3
    <3>2. longer.pkts = Append(r.pkts, job.pkt) /\ longer.ip = job.hop
      BY <3>1 DEF Request
    <3>3. longer \in Request
      BY <1>9, <2>2
    <3>4. r.pkts \in Seq(Packet)
      BY <3>1, PlaceTypes
    <3>5. requests' = (requests \ {r}) \cup {longer}
      BY <2>2
    <3> HIDE DEF longer
    <3> QED BY <3>1, <3>2, <3>3, <3>4, <3>5 DEF Joins
  <2> QED BY <1>1, <2>1, <2>2 DEF AppendPacket
<1>16. /\ Alone(requests') /\ InOrder(requests') /\ HopsRight(<<>>, requests', fate)
       /\ \A k \in 1..MaxPackets : In(requests', k) <=> In(requests, k) \/ k = id
  <2>1. CameLast(job.pkt, job.hop, requests, fate)
    BY <1>11, <1>13 DEF id, CameLast
  <2> QED BY <1>3, <1>5, <1>14, <1>15, <2>1, AppendPlaces DEF id
<1>17. HopsRight(jobs2, requests', fate)
  BY <1>10, <1>14, <1>16 DEF HopsRight
<1>18. Settled(fate, fate, {})
  BY DEF Settled
<1>19. \A k \in 1..MaxPackets :
         /\ Queued(jobs2, k) => Queued(jobs, k)
         /\ In(unreachable, k) /\ In(requests', k) => FALSE
         /\ In(requests', k) /\ Queued(jobs2, k) => FALSE
         /\ In(unreachable, k) => ~Queued(jobs, k)
         /\ Queued(jobs2, k) \/ In(requests', k) \/ In(unreachable, k)
              <=> InsideOf(fate, k) /\ k \notin {}
  <2> SUFFICES ASSUME NEW k \in 1..MaxPackets
               PROVE  /\ Queued(jobs2, k) => Queued(jobs, k)
                      /\ In(unreachable, k) /\ In(requests', k) => FALSE
                      /\ In(requests', k) /\ Queued(jobs2, k) => FALSE
                      /\ In(unreachable, k) => ~Queued(jobs, k)
                      /\ Queued(jobs2, k) \/ In(requests', k) \/ In(unreachable, k)
                           <=> InsideOf(fate, k) /\ k \notin {}
    OBVIOUS
  <2>1. k # 0
    BY PlaceTypes
  <2>2. k = id => Queued(jobs, k)
    BY <1>11, <2>1
  <2> QED BY <1>10, <1>12, <1>16, <2>2 DEF Tracked
<1>20. NotOvertaken(unreachable, fate)
  BY <1>6 DEF Track
<1>21. Track(jobs2, requests', unreachable, fate)
  BY <1>3, <1>6, <1>9, <1>10, <1>14, <1>16, <1>17, <1>18, <1>19, <1>20, TrackStays
<1> QED BY <1>1, <1>21 DEF TrackInv, jobs2

\* Requests that are given up take their packets with them.
LEMMA SweepTrack ==
  ASSUME RouterInv, TrackInv, Sweep
  PROVE  TrackInv'
<1> DEFINE jobs == todo["receive"]
           S == requests \ GivenUp
           fn == [r \in requests |->
                    IF r.due THEN [r EXCEPT !.due = FALSE, !.retries = @ + 1] ELSE r]
<1>1. /\ unreachable = {} /\ unreachable' = GivenUp
      /\ UNCHANGED <<todo, fate>>
  BY DEF Sweep
<1>2. /\ requests \in SUBSET Request /\ jobs \in Seq(Job)
  BY InvTypes DEF CacheTypeOK, Thread
<1>3. requests' \in SUBSET Request
  <2>1. CacheTypeOK'
    BY SweeperStep, InvTypes DEF RouterInv, RouterTypeOK
  <2> QED BY <2>1 DEF CacheTypeOK
<1>4. requests' = {fn[r] : r \in S}
  BY DEF Sweep, SweepCache, GivenUp
<1>5. \A r \in S : fn[r].ip = r.ip /\ fn[r].pkts = r.pkts
  BY <1>2 DEF Request
<1>6. GivenUp \subseteq requests
  BY DEF GivenUp
<1>7. Track(jobs, requests, {}, fate)
  BY <1>1 DEF TrackInv
<1> HIDE DEF jobs, fn, S
<1>8. \A k \in 1..MaxPackets : /\ Tracked(k, jobs, requests, {}, fate) /\ ~In({}, k)
                               /\ In(requests, k) <=> In(S, k) \/ In(GivenUp, k)
                               /\ ~(In(S, k) /\ In(GivenUp, k))
  <2> SUFFICES ASSUME NEW k \in 1..MaxPackets
               PROVE  /\ Tracked(k, jobs, requests, {}, fate) /\ ~In({}, k)
                      /\ In(requests, k) <=> In(S, k) \/ In(GivenUp, k)
                      /\ ~(In(S, k) /\ In(GivenUp, k))
    OBVIOUS
  <2>1. k # 0
    BY PlaceTypes
  <2>2. ~(In(S, k) /\ In(GivenUp, k))
    BY <1>6, <1>7, <2>1 DEF Track, Alone, In, S
  <2>3. In(requests, k) <=> In(S, k) \/ In(GivenUp, k)
    BY <1>6 DEF In, S
  <2>4. ~In({}, k)
    BY DEF In
  <2> QED BY <1>7, <2>2, <2>3, <2>4 DEF Track
<1>9. Alone(S) /\ InOrder(S) /\ HopsRight(jobs, S, fate) /\ Alone(GivenUp) /\ OneAt(jobs)
  <2>1. Alone(requests) /\ InOrder(requests) /\ HopsRight(jobs, requests, fate) /\ OneAt(jobs)
    BY <1>7 DEF Track
  <2>2. S \subseteq requests
    BY DEF S
  <2>3. Alone(S) /\ Alone(GivenUp)
    BY <1>6, <2>1, <2>2 DEF Alone
  <2>4. InOrder(S)
    BY <2>1, <2>2 DEF InOrder
  <2>5. HopsRight(jobs, S, fate)
    BY <2>1, <2>2 DEF HopsRight
  <2> QED BY <2>1, <2>3, <2>4, <2>5
<1>10. /\ Alone(requests') /\ InOrder(requests') /\ HopsRight(jobs, requests', fate)
       /\ \A k : In(requests', k) <=> In(S, k)
  <2>1. Renewed(S, fn, requests')
    BY <1>4, <1>5 DEF Renewed
  <2> QED BY <1>9, <2>1, MapPlaces
<1>11. Settled(fate, fate, {})
  BY DEF Settled
<1>12. NotOvertaken(GivenUp, fate)
  BY <1>7 DEF Track, NotOvertaken, In
<1>13. \A k \in 1..MaxPackets :
         /\ Queued(jobs, k) => Queued(jobs, k)
         /\ In(GivenUp, k) /\ In(requests', k) => FALSE
         /\ In(requests', k) /\ Queued(jobs, k) => FALSE
         /\ In(GivenUp, k) => ~Queued(jobs, k)
         /\ Queued(jobs, k) \/ In(requests', k) \/ In(GivenUp, k)
              <=> InsideOf(fate, k) /\ k \notin {}
  BY <1>8, <1>10 DEF Tracked
<1>14. Track(jobs, requests', GivenUp, fate)
  BY <1>2, <1>3, <1>7, <1>9, <1>10, <1>11, <1>12, <1>13, TrackStays
<1> QED BY <1>1, <1>14 DEF TrackInv, jobs

\* As time passes, packets stay where they are.
LEMMA TickTrack ==
  ASSUME RouterInv, TrackInv, Tick
  PROVE  TrackInv'
<1> DEFINE fn == [r \in requests |-> [r EXCEPT !.due = TRUE]]
<1>1. UNCHANGED <<todo, unreachable, fate>>
  BY DEF Tick
<1>2. requests' = {fn[r] : r \in requests}
  BY DEF Tick, AgeCache
<1>3. \A r \in requests : fn[r].ip = r.ip /\ fn[r].pkts = r.pkts
  BY InvTypes DEF CacheTypeOK, Request
<1> HIDE DEF fn
<1>4. /\ Alone(requests') /\ InOrder(requests')
      /\ HopsRight(todo["receive"], requests', fate)
      /\ \A k : In(requests', k) <=> In(requests, k)
  <2>1. Alone(requests) /\ InOrder(requests) /\ HopsRight(todo["receive"], requests, fate)
    BY DEF TrackInv, Track
  <2>2. Renewed(requests, fn, requests')
    BY <1>2, <1>3 DEF Renewed
  <2> QED BY <2>1, <2>2, MapPlaces
<1> QED BY <1>1, <1>4 DEF TrackInv, Track, Tracked

\* The packet that is reported leaves the list.
LEMMA ReportTrack ==
  ASSUME RouterInv, TrackInv, ReportUnreachable
  PROVE  TrackInv'
<1> DEFINE jobs == todo["receive"]
<1>1. PICK r \in unreachable :
        /\ unreachable' = (unreachable \ {r})
             \cup (IF Len(r.pkts) = 1 THEN {} ELSE {[r EXCEPT !.pkts = Tail(@)]})
        /\ todo' = [todo EXCEPT !["sweep"] = ErrorJobs(Head(r.pkts))]
        /\ fate' = [k \in DOMAIN fate |->
                      IF k = Head(r.pkts).id
                      THEN [fate[k] EXCEPT !.what = ErrorFate(Head(r.pkts))] ELSE fate[k]]
  BY DEF ReportUnreachable
<1>2. requests' = requests /\ todo'["receive"] = jobs
  BY <1>1, InvTypes DEF ReportUnreachable, cacheVars, Thread
<1>3. /\ requests \in SUBSET Request /\ fate \in Seq(Record) /\ jobs \in Seq(Job)
      /\ r \in Request /\ r.pkts # <<>> /\ unreachable \subseteq Request
  BY InvTypes DEF CacheTypeOK, Thread, RouterInv, UnreachableOK
<1> DEFINE q == r.pkts
           id == Head(q).id
           what == ErrorFate(Head(q))
           shorter == [r EXCEPT !.pkts = Tail(@)]
           g == [k \in DOMAIN fate |->
                   IF k = id THEN [fate[k] EXCEPT !.what = what] ELSE fate[k]]
<1>4. /\ q \in Seq(Packet) /\ q # <<>>
      /\ what \in {"reported", "dropped"}
      /\ shorter.pkts = Tail(q)
      /\ fate' = g
      /\ unreachable' = (unreachable \ {r}) \cup (IF Len(q) = 1 THEN {} ELSE {shorter})
  BY <1>1, <1>3, PlaceTypes DEF Request, ErrorFate
<1>5. Settled(fate, g, {id}) /\ \A k \in DOMAIN fate : k = id => g[k].what = what
  <2>1. g \in [DOMAIN fate -> Record]
    BY <1>3, <1>4, WhatType
  <2>2. DOMAIN g = DOMAIN fate /\ Len(g) = Len(fate)
    BY <1>3, <2>1, FateType
  <2>3. \A k \in DOMAIN fate : fate[k] \in Record
    BY <1>3
  <2>4. \A k \in DOMAIN fate : /\ g[k].hop = fate[k].hop
                               /\ k # id => g[k].what = fate[k].what
                               /\ k = id => g[k].what = what
    BY <2>3 DEF Record
  <2> HIDE DEF g, id, what
  <2> QED BY <1>4, <2>2, <2>4 DEF Settled
<1>6. Track(jobs, requests, unreachable, fate)
  BY DEF TrackInv
<1> HIDE DEF jobs, g, what, shorter
<1>7. /\ Tail(q) \in Seq(Packet) /\ Len(q) \in Nat \ {0} /\ Len(Tail(q)) = Len(q) - 1
      /\ \A n \in DOMAIN Tail(q) : n + 1 \in DOMAIN q /\ Tail(q)[n] = q[n + 1]
      /\ 1 \in DOMAIN q /\ Head(q) = q[1]
      /\ DOMAIN q = 1..Len(q) /\ DOMAIN Tail(q) = 1..Len(Tail(q))
  <2> HIDE DEF q
  <2> QED BY <1>4, TailType
<1>8. /\ r \in unreachable /\ r.pkts = q /\ Alone(unreachable)
  BY <1>6 DEF Track
<1>9. \A k \in 1..MaxPackets : In(unreachable', k) <=> In(unreachable, k) /\ k # id
  <2> SUFFICES ASSUME NEW k \in 1..MaxPackets
               PROVE  In(unreachable', k) <=> In(unreachable, k) /\ k # id
    OBVIOUS
  <2> HIDE DEF q
  <2>1. k # 0
    BY PlaceTypes
  <2>2. ASSUME NEW s \in unreachable', NEW n \in DOMAIN s.pkts, s.pkts[n].id = k
        PROVE  In(unreachable, k) /\ k # id
    <3>1. CASE s \in unreachable /\ s # r
      BY <1>7, <1>8, <2>1, <2>2, <3>1 DEF Alone, In
    <3>2. CASE s = shorter
      <4>1. n + 1 \in DOMAIN q /\ q[n + 1].id = k /\ n + 1 # 1
        BY <1>4, <1>7, <2>2, <3>2
      <4> QED BY <1>7, <1>8, <2>1, <4>1 DEF Alone, In
    <3> QED BY <1>4, <3>1, <3>2
  <2>3. ASSUME NEW s \in unreachable, NEW n \in DOMAIN s.pkts, s.pkts[n].id = k, k # id
        PROVE  In(unreachable', k)
    <3>1. CASE s = r
      <4>1. n - 1 \in DOMAIN Tail(q) /\ (n - 1) + 1 = n
        BY <1>7, <1>8, <2>3, <3>1
      <4>2. Tail(q)[n - 1] = q[n]
        BY <1>7, <4>1
      <4>3. shorter \in unreachable'
        BY <1>4, <1>7, <4>1
      <4> QED BY <1>4, <1>8, <2>3, <3>1, <4>1, <4>2, <4>3 DEF In
    <3>2. CASE s # r
      BY <1>4, <2>3, <3>2 DEF In
    <3> QED BY <3>1, <3>2
  <2> QED BY <2>2, <2>3 DEF In
<1>10. Alone(unreachable')
  <2> HIDE DEF q
  <2>1. ASSUME NEW s \in unreachable, s # r, NEW n \in DOMAIN s.pkts,
               NEW m \in DOMAIN shorter.pkts,
               s.pkts[n].id = shorter.pkts[m].id, s.pkts[n].id # 0
        PROVE  FALSE
    BY <1>4, <1>7, <1>8, <2>1 DEF Alone
  <2>2. ASSUME NEW n \in DOMAIN shorter.pkts, NEW m \in DOMAIN shorter.pkts,
               shorter.pkts[n].id = shorter.pkts[m].id, shorter.pkts[n].id # 0
        PROVE  n = m
    <3>1. n + 1 = m + 1
      BY <1>4, <1>7, <1>8, <2>2 DEF Alone
    <3> QED BY <1>4, <1>7, <3>1
  <2>3. ASSUME NEW s \in unreachable', NEW u \in unreachable',
               NEW n \in DOMAIN s.pkts, NEW m \in DOMAIN u.pkts,
               s.pkts[n].id = u.pkts[m].id, s.pkts[n].id # 0
        PROVE  s = u /\ n = m
    <3>1. CASE s = shorter /\ u = shorter
      BY <2>2, <2>3, <3>1
    <3>2. CASE s = shorter /\ u \in unreachable \ {r}
      BY <2>1, <2>3, <3>2
    <3>3. CASE s \in unreachable \ {r} /\ u = shorter
      BY <2>1, <2>3, <3>3
    <3>4. CASE s \in unreachable /\ u \in unreachable
      BY <1>8, <2>3, <3>4 DEF Alone
    <3> QED BY <1>4, <2>3, <3>1, <3>2, <3>3, <3>4
  <2> QED BY <2>3 DEF Alone
<1>11. id # 0 => In(unreachable, id)
  BY <1>7, <1>8 DEF In
<1> HIDE DEF q, id
<1>12. \A k \in 1..MaxPackets : Tracked(k, jobs, requests, unreachable, fate)
  BY <1>6 DEF Track
<1>13. \A k \in 1..MaxPackets :
         /\ Queued(jobs, k) => Queued(jobs, k)
         /\ In(unreachable', k) /\ In(requests, k) => FALSE
         /\ In(requests, k) /\ Queued(jobs, k) => FALSE
         /\ In(unreachable', k) => ~Queued(jobs, k)
         /\ Queued(jobs, k) \/ In(requests, k) \/ In(unreachable', k)
              <=> InsideOf(fate, k) /\ k \notin {id}
  <2> SUFFICES ASSUME NEW k \in 1..MaxPackets
               PROVE  /\ Queued(jobs, k) => Queued(jobs, k)
                      /\ In(unreachable', k) /\ In(requests, k) => FALSE
                      /\ In(requests, k) /\ Queued(jobs, k) => FALSE
                      /\ In(unreachable', k) => ~Queued(jobs, k)
                      /\ Queued(jobs, k) \/ In(requests, k) \/ In(unreachable', k)
                           <=> InsideOf(fate, k) /\ k \notin {id}
    OBVIOUS
  <2>1. k # 0
    BY PlaceTypes
  <2>2. k = id => In(unreachable, k)
    BY <1>11, <2>1
  <2> QED BY <1>9, <1>12, <2>2 DEF Tracked
<1>14. NotOvertaken(unreachable', g)
  <2> SUFFICES ASSUME NEW k \in DOMAIN g, NEW l \in DOMAIN g, k < l, g[k].hop = g[l].hop,
                      g[k].what = "inside", ~In(unreachable', k)
               PROVE  g[l].what # "sent"
    BY DEF NotOvertaken
  <2>1. /\ k \in DOMAIN fate /\ l \in DOMAIN fate /\ fate[k].hop = fate[l].hop
        /\ k # id /\ fate[k].what = "inside"
        /\ l # id => g[l].what = fate[l].what
        /\ l = id => g[l].what = what
    BY <1>5 DEF Settled
  <2>2. k \in 1..MaxPackets
    BY <1>3, <2>1, InvTypes, PlaceTypes
  <2>3. ~In(unreachable, k)
    BY <1>9, <2>1, <2>2
  <2>4. fate[l].what # "sent"
    BY <1>6, <2>1, <2>3 DEF Track, NotOvertaken
  <2> QED BY <1>4, <2>1, <2>4
<1>15. OneAt(jobs) /\ Alone(requests) /\ InOrder(requests) /\ HopsRight(jobs, requests, fate)
  BY <1>6 DEF Track
<1>16. Track(jobs, requests, unreachable', g)
  BY <1>3, <1>5, <1>6, <1>10, <1>13, <1>14, <1>15, TrackStays
<1> QED BY <1>2, <1>4, <1>16 DEF TrackInv

LEMMA TrackInvInit == RouterInit => TrackInv
<1> SUFFICES ASSUME RouterInit PROVE TrackInv
  OBVIOUS
<1>1. todo["receive"] = <<>> /\ requests = {} /\ unreachable = {} /\ fate = <<>>
  BY DEF RouterInit, CacheInit, Thread
<1>2. \A k \in 1..MaxPackets : Tracked(k, <<>>, {}, {}, <<>>)
  BY DEF Tracked, Queued, In, InsideOf
<1> QED BY <1>1, <1>2
    DEF TrackInv, Track, OneAt, Alone, InOrder, HopsRight, NotOvertaken

LEMMA TrackInvNext == RouterInv /\ TrackInv /\ [RouterNext]_routerVars => TrackInv'
<1> SUFFICES ASSUME RouterInv, TrackInv, [RouterNext]_routerVars PROVE TrackInv'
  OBVIOUS
<1>1. ASSUME NEW x \in Input, Len(fate) < MaxPackets,
             ReceiveIp(x.iface, [id |-> Len(fate) + 1, kind |-> x.kind,
                                 src |-> x.src, dst |-> x.dst, ttl |-> x.ttl])
      PROVE  TrackInv'
  <2> DEFINE pkt == [id |-> Len(fate) + 1, kind |-> x.kind,
                     src |-> x.src, dst |-> x.dst, ttl |-> x.ttl]
  <2>1. Len(fate) \in Nat /\ Len(fate) + 1 \in 0..MaxPackets
    BY <1>1, InvTypes, RouterAssumption
  <2>2. pkt \in Packet /\ pkt.id = Len(fate) + 1 /\ x.iface \in Iface
    BY <2>1, RouterAssumption
  <2> HIDE DEF pkt
  <2>3. ReceiveIp(x.iface, pkt)
    BY <1>1 DEF pkt
  <2> QED BY <1>1, <2>2, <2>3, ReceiveIpTrack
<1>2. ASSUME NEW t \in Thread, Lookup(t)
      PROVE  TrackInv'
  <2>1. todo[t] # <<>> /\ UNCHANGED <<cacheVars, unreachable>>
    BY <1>2 DEF Lookup
  <2>2. CASE SendKnown(t)
    BY <2>1, <2>2, SendKnownTrack
  <2>3. CASE Miss(t)
    BY <2>1, <2>3 DEF Miss, TrackInv, cacheVars
  <2> QED BY <1>2, <2>2, <2>3 DEF Lookup
<1>3. CASE UNCHANGED routerVars
  BY <1>3 DEF TrackInv, routerVars, cacheVars
<1> QED
  BY <1>1, <1>2, <1>3, ReceiveArpReplyTrack, PendTrack, SweepTrack, ReportTrack, TickTrack
  DEF RouterNext

LEMMA TrackInvariant == RouterSpec => []TrackInv
<1> QED BY RouterInvariant, TrackInvInit, TrackInvNext, PTL DEF RouterSpec

\* A packet accepted for forwarding is in exactly one place until it is sent or
\* reported, and in none afterwards (arpcache_append_packet, arpcache_insert,
\* arpcache_sweep, iface_send_packet_by_arp).
THEOREM PacketsStayConserved == RouterSpec => []PacketsConserved
<1>1. ASSUME RouterInv, TrackInv PROVE PacketsConserved
  <2> SUFFICES ASSUME NEW k \in 1..MaxPackets
               PROVE  IF Inside(k) THEN \E x \in Places(k) : Places(k) = {x} ELSE Places(k) = {}
    BY DEF PacketsConserved
  <2> DEFINE jobs == todo["receive"]
  <2>1. /\ Tracked(k, jobs, requests, unreachable, fate)
        /\ OneAt(jobs) /\ Alone(requests) /\ Alone(unreachable)
    BY <1>1 DEF TrackInv, Track
  <2>2. k # 0
    BY PlaceTypes
  <2>3. \A n \in DOMAIN todo["sweep"] : todo["sweep"][n].pkt.id # k
    <3>1. \A n \in DOMAIN todo["sweep"] : todo["sweep"][n] \in Unnumbered
      BY <1>1 DEF RouterInv, SweeperOK
    <3> QED BY <2>2, <3>1 DEF Unnumbered
  <2>4. \A x : x \in Places(k) <=>
          \/ \E n \in DOMAIN jobs : jobs[n].pkt.id = k /\ x = <<"todo", "receive", n>>
          \/ \E r \in requests : \E n \in DOMAIN r.pkts :
               r.pkts[n].id = k /\ x = <<"requests", r, n>>
          \/ \E r \in unreachable : \E n \in DOMAIN r.pkts :
               r.pkts[n].id = k /\ x = <<"unreachable", r, n>>
    BY <2>3 DEF Places, Thread
  <2>5. Inside(k) <=> InsideOf(fate, k)
    BY DEF Inside, InsideOf
  <2> HIDE DEF jobs
  <2>6. CASE Queued(jobs, k)
    <3>1. PICK n \in DOMAIN jobs : jobs[n].pkt.id = k
      BY <2>6 DEF Queued
    <3>2. \A x : x \in Places(k) <=> x = <<"todo", "receive", n>>
      BY <2>1, <2>2, <2>4, <2>6, <3>1 DEF Tracked, In, OneAt
    <3>3. Places(k) = {<<"todo", "receive", n>>}
      BY <3>2
    <3> QED BY <2>1, <2>5, <2>6, <3>3 DEF Tracked
  <2>7. CASE In(requests, k)
    <3>1. PICK r \in requests : \E n \in DOMAIN r.pkts : r.pkts[n].id = k
      BY <2>7 DEF In
    <3>2. PICK n \in DOMAIN r.pkts : r.pkts[n].id = k
      BY <3>1
    <3>3. \A x : x \in Places(k) <=> x = <<"requests", r, n>>
      BY <2>1, <2>2, <2>4, <2>7, <3>2 DEF Tracked, In, Queued, Alone
    <3>4. Places(k) = {<<"requests", r, n>>}
      BY <3>3
    <3> QED BY <2>1, <2>5, <2>7, <3>4 DEF Tracked
  <2>8. CASE In(unreachable, k)
    <3>1. PICK r \in unreachable : \E n \in DOMAIN r.pkts : r.pkts[n].id = k
      BY <2>8 DEF In
    <3>2. PICK n \in DOMAIN r.pkts : r.pkts[n].id = k
      BY <3>1
    <3>3. \A x : x \in Places(k) <=> x = <<"unreachable", r, n>>
      BY <2>1, <2>2, <2>4, <2>8, <3>2 DEF Tracked, In, Queued, Alone
    <3>4. Places(k) = {<<"unreachable", r, n>>}
      BY <3>3
    <3> QED BY <2>1, <2>5, <2>8, <3>4 DEF Tracked
  <2>9. CASE ~Queued(jobs, k) /\ ~In(requests, k) /\ ~In(unreachable, k)
    <3>1. \A x : x \notin Places(k)
      BY <2>4, <2>9 DEF Queued, In
    <3> QED BY <2>1, <2>5, <2>9, <3>1 DEF Tracked
  <2> QED BY <2>6, <2>7, <2>8, <2>9
<1> QED BY <1>1, RouterInvariant, TrackInvariant, PTL

\* Packets for one next hop are not overtaken, unless they have been given up,
\* whether they waited for it or not (iface_send_packet_by_arp,
\* arpcache_append_packet, arpcache_insert).
THEOREM HopsStayFifo == RouterSpec => []HopFifo
<1>1. TrackInv => HopFifo
  <2>1. \A k : Unreachable(k) <=> In(unreachable, k)
    BY DEF Unreachable, In
  <2> QED BY <2>1 DEF TrackInv, Track, NotOvertaken, InOrder, HopFifo
<1> QED BY <1>1, TrackInvariant, PTL

=============================================================================
