------------------------------- MODULE Router -------------------------------
(***************************************************************************)
(* One router of 07-router: the receive loop handles IP and ARP packets    *)
(* and forwards, answers or reports them (ip.c, icmp.c, ip_base.c, arp.c); *)
(* the sweeper of the ARP cache runs beside it and sends errors of its own *)
(* through the same functions.  Sending is a lookup in the cache and, if   *)
(* that fails, an append: two critical sections.                           *)
(***************************************************************************)
EXTENDS ArpCache

CONSTANTS
  IfaceIp,     \* iface->ip
  Routes,      \* rtable, a sequence of [dest, len, gw, iface]
  Width,       \* bits of an address
  NetOrder,    \* an address read in the other byte order
  Host,        \* addresses whose owner sends ARP replies
  Input,       \* the IP packets that may arrive, see ReceiveIp
  MaxPackets   \* bound of the model: how many arrive

ASSUME RouterAssumption ==
  /\ IfaceIp \in [Iface -> Address]
  /\ Routes \in Seq([dest : Nat, len : 0..Width, gw : Address \cup {0}, iface : Iface])
  /\ NetOrder \in [Address -> Nat]
  /\ Host \subseteq Address
  /\ Packet = [id : 0..MaxPackets, kind : {"data", "echo", "reply", "error"},
               src : Address, dst : Address, ttl : 0..255]
  /\ Input \subseteq [iface : Iface, kind : {"data", "echo", "reply", "error"},
                      src : Address, dst : Address, ttl : 0..255]
  /\ MaxPackets \in Nat

VARIABLES
  todo,         \* what each thread has still to send, as [iface, hop, pkt]
  missed,       \* whether its lookup for the first of these has failed
  unreachable,  \* unreachable_list of the sweeper
  slept,        \* the sweeper's sleep(1) is over
  fate          \* of each packet that arrived, in the order of arrival

routerVars == <<cacheVars, todo, missed, unreachable, slept, fate>>

Thread == {"receive", "sweep"}

Job == [iface : Iface, hop : Address, pkt : Packet]

\* The type invariant.
RouterTypeOK ==
  /\ CacheTypeOK
  /\ todo \in [Thread -> Seq(Job)]
  /\ missed \in [Thread -> BOOLEAN]
  /\ unreachable \subseteq Request
  /\ slept \in BOOLEAN
  /\ fate \in Seq([hop : Address \cup {0},
                   what : {"inside", "sent", "answered", "reported", "dropped"}])
  /\ Len(fate) <= MaxPackets

-----------------------------------------------------------------------------
(***************************************************************************)
(* Routes.                                                                 *)
(***************************************************************************)
Matches(dst, route) ==
  dst \div 2^(Width - route.len) = route.dest \div 2^(Width - route.len)

\* longest_prefix_match: of equally long ones the scan keeps the last.
LongestPrefixMatch(dst) ==
  {Routes[i] : i \in {i \in DOMAIN Routes :
     /\ Matches(dst, Routes[i])
     /\ \A j \in DOMAIN Routes :
          Matches(dst, Routes[j]) =>
            \/ Routes[j].len < Routes[i].len
            \/ Routes[j].len = Routes[i].len /\ j <= i}}

HasRoute(dst) == LongestPrefixMatch(dst) # {}
RouteOf(dst)  == CHOOSE r \in LongestPrefixMatch(dst) : TRUE
NextHop(dst)  == IF RouteOf(dst).gw # 0 THEN RouteOf(dst).gw ELSE dst

\* ip_send_packet, and the end of handle_ip_packet: the packet is handed to
\* iface_send_packet_by_arp, or freed if there is no route.
SendJobs(pkt) ==
  IF HasRoute(pkt.dst)
  THEN <<[iface |-> RouteOf(pkt.dst).iface, hop |-> NextHop(pkt.dst), pkt |-> pkt]>>
  ELSE <<>>

DefaultTTL == 64

\* icmp_send_packet: an error goes to the source of the packet, from the
\* address of the interface that leads there.
ErrorJobs(pkt) ==
  IF HasRoute(pkt.src)
  THEN SendJobs([id |-> 0, kind |-> "error", src |-> IfaceIp[RouteOf(pkt.src).iface],
                 dst |-> pkt.src, ttl |-> DefaultTTL])
  ELSE <<>>

ReplyJobs(pkt) ==
  IF pkt.kind = "echo"
  THEN SendJobs([id |-> 0, kind |-> "reply", src |-> pkt.dst, dst |-> pkt.src,
                 ttl |-> DefaultTTL])
  ELSE <<>>

-----------------------------------------------------------------------------
(***************************************************************************)
(* The receive loop.                                                       *)
(***************************************************************************)
Idle(t) == todo[t] = <<>> /\ ~missed[t]

\* ip.c compares the address as it stands in the header with the host order.
\* A packet that passes is answered if it is an echo request, and then falls
\* through to the forwarding code.
LooksLocal(i, pkt) == NetOrder[pkt.dst] = IfaceIp[i]

EarlyReply(i, pkt) == IF LooksLocal(i, pkt) THEN ReplyJobs(pkt) ELSE <<>>

\* The byte that holds the TTL wraps around.
TtlAfter(pkt) == (pkt.ttl + 255) % 256

Settle(hop, what) == fate' = Append(fate, [hop |-> hop, what |-> what])

HandOver(jobs) == todo' = [todo EXCEPT !["receive"] = jobs]

ErrorFate(pkt) == IF HasRoute(pkt.src) THEN "reported" ELSE "dropped"

DropLocal(i, pkt) ==
  /\ LooksLocal(i, pkt) /\ pkt.kind = "data"
  /\ Settle(0, "dropped")
  /\ UNCHANGED todo

\* TTL run out, or no route.
Report(i, pkt) ==
  /\ ~(LooksLocal(i, pkt) /\ pkt.kind = "data")
  /\ TtlAfter(pkt) = 0 \/ ~HasRoute(pkt.dst)
  /\ HandOver(EarlyReply(i, pkt) \o ErrorJobs(pkt))
  /\ Settle(0, ErrorFate(pkt))

\* The packet is for the interface its route leads to.
DeliverLocal(i, pkt) ==
  /\ ~(LooksLocal(i, pkt) /\ pkt.kind = "data")
  /\ TtlAfter(pkt) # 0 /\ HasRoute(pkt.dst)
  /\ pkt.dst = IfaceIp[RouteOf(pkt.dst).iface]
  /\ HandOver(EarlyReply(i, pkt) \o ReplyJobs(pkt))
  /\ Settle(0, IF ReplyJobs(pkt) # <<>> THEN "answered" ELSE "dropped")

Forward(i, pkt) ==
  /\ ~(LooksLocal(i, pkt) /\ pkt.kind = "data")
  /\ TtlAfter(pkt) # 0 /\ HasRoute(pkt.dst)
  /\ pkt.dst # IfaceIp[RouteOf(pkt.dst).iface]
  /\ HandOver(EarlyReply(i, pkt) \o SendJobs([pkt EXCEPT !.ttl = TtlAfter(pkt)]))
  /\ Settle(NextHop(pkt.dst), "inside")

\* handle_ip_packet, up to the first lookup in the ARP cache.
ReceiveIp(i, pkt) ==
  /\ Idle("receive")
  /\ \/ DropLocal(i, pkt)
     \/ Report(i, pkt)
     \/ DeliverLocal(i, pkt)
     \/ Forward(i, pkt)
  /\ UNCHANGED <<cacheVars, missed, unreachable, slept>>

\* handle_arp_packet for a reply to this router.  It is taken whether or not
\* it was asked for, so it may come at any time, again, late or never.  The
\* packets that wait for it are sent.
ReceiveArpReply(ip) ==
  /\ Idle("receive")
  /\ ip \in Host
  /\ Insert(ip)
  /\ LET sent == UNION {{r.pkts[n].id : n \in DOMAIN r.pkts} : r \in Waiting(ip)}
     IN  fate' = [k \in DOMAIN fate |->
                    IF k \in sent THEN [fate[k] EXCEPT !.what = "sent"] ELSE fate[k]]
  /\ UNCHANGED <<todo, missed, unreachable, slept>>

-----------------------------------------------------------------------------
(***************************************************************************)
(* iface_send_packet_by_arp, run by both threads.                          *)
(***************************************************************************)
SendKnown(t) ==
  LET job == Head(todo[t])
  IN  /\ Known(job.hop)
      /\ todo' = [todo EXCEPT ![t] = Tail(todo[t])]
      /\ fate' = [k \in DOMAIN fate |->
                    IF k = job.pkt.id THEN [fate[k] EXCEPT !.what = "sent"] ELSE fate[k]]
      /\ UNCHANGED missed

Miss(t) ==
  /\ ~Known(Head(todo[t]).hop)
  /\ missed' = [missed EXCEPT ![t] = TRUE]
  /\ UNCHANGED <<todo, fate>>

Lookup(t) ==
  /\ todo[t] # <<>> /\ ~missed[t]
  /\ SendKnown(t) \/ Miss(t)
  /\ UNCHANGED <<cacheVars, unreachable, slept>>

Pend(t) ==
  LET job == Head(todo[t])
  IN  /\ missed[t]
      /\ AppendPacket(job.iface, job.hop, job.pkt)
      /\ missed' = [missed EXCEPT ![t] = FALSE]
      /\ todo' = [todo EXCEPT ![t] = Tail(todo[t])]
      /\ UNCHANGED <<unreachable, slept, fate>>

-----------------------------------------------------------------------------
(***************************************************************************)
(* The sweeper.                                                            *)
(***************************************************************************)
Sweep ==
  /\ slept
  /\ unreachable = {} /\ Idle("sweep")
  /\ SweepCache
  /\ unreachable' = GivenUp
  /\ slept' = FALSE
  /\ UNCHANGED <<todo, missed, fate>>

\* The next packet of the unreachable list is taken off it and reported; its
\* request is freed with the last one.
ReportUnreachable ==
  /\ Idle("sweep")
  /\ \E r \in unreachable :
       LET pkt == Head(r.pkts)
       IN  /\ unreachable' = (unreachable \ {r})
                \cup (IF Len(r.pkts) = 1 THEN {} ELSE {[r EXCEPT !.pkts = Tail(@)]})
           /\ todo' = [todo EXCEPT !["sweep"] = ErrorJobs(pkt)]
           /\ fate' = [k \in DOMAIN fate |->
                         IF k = pkt.id THEN [fate[k] EXCEPT !.what = ErrorFate(pkt)]
                         ELSE fate[k]]
  /\ UNCHANGED <<cacheVars, missed, slept>>

\* A second passes; sleep(1) does not return before one has.
Tick ==
  /\ AgeCache
  /\ slept' = TRUE
  /\ UNCHANGED <<todo, missed, unreachable, fate>>

RouterInit ==
  /\ CacheInit
  /\ todo = [t \in Thread |-> <<>>]
  /\ missed = [t \in Thread |-> FALSE]
  /\ unreachable = {}
  /\ slept = FALSE
  /\ fate = <<>>

RouterNext ==
  \/ /\ Len(fate) < MaxPackets
     /\ \E x \in Input : ReceiveIp(x.iface, [id |-> Len(fate) + 1, kind |-> x.kind,
                              src |-> x.src, dst |-> x.dst, ttl |-> x.ttl])
  \/ \E ip \in Address : ReceiveArpReply(ip)
  \/ \E t \in Thread : Lookup(t) \/ Pend(t)
  \/ Sweep
  \/ ReportUnreachable
  \/ Tick

RouterSpec == RouterInit /\ [][RouterNext]_routerVars

\* Neither thread waits for anything but the lock; time passes.
FairRouterSpec ==
  /\ RouterSpec
  /\ WF_routerVars(Tick)
  /\ WF_routerVars(Sweep)
  /\ WF_routerVars(ReportUnreachable)
  /\ \A t \in Thread : WF_routerVars(Lookup(t)) /\ WF_routerVars(Pend(t))

-----------------------------------------------------------------------------
(***************************************************************************)
(* Properties.                                                             *)
(***************************************************************************)

Inside(k) == k \in DOMAIN fate /\ fate[k].what = "inside"

\* The places where packet k is: still to be sent by a thread, waiting for a
\* mapping, or on the unreachable list.
Places(k) ==
  (UNION {{<<"todo", t, n>> : n \in {n \in DOMAIN todo[t] : todo[t][n].pkt.id = k}} :
            t \in Thread})
    \cup (UNION {{<<"requests", r, n>> : n \in {n \in DOMAIN r.pkts : r.pkts[n].id = k}} :
                   r \in requests})
    \cup (UNION {{<<"unreachable", r, n>> : n \in {n \in DOMAIN r.pkts : r.pkts[n].id = k}} :
                   r \in unreachable})

\* A packet that was accepted for forwarding is in exactly one place until it
\* is sent or reported, and in none afterwards: it is never lost, never sent
\* or reported twice, and never both.
PacketsConserved ==
  \A k \in 1..MaxPackets :
    IF Inside(k)
    THEN \E x \in Places(k) : Places(k) = {x}
    ELSE Places(k) = {}

\* No received packet waits for a mapping that is in the table: lookup and
\* append are separate, but only the receive loop inserts mappings.
KnownNotAwaited ==
  \A r \in requests : (\E n \in DOMAIN r.pkts : r.pkts[n].id # 0) => ~Known(r.ip)

\* What two threads make of the table and of the list of requests in their
\* separate critical sections stays in order.
CacheConsistent == OneEntryPerAddress /\ OneRequestPerHop /\ KnownNotAwaited

Unreachable(k) == \E r \in unreachable : \E n \in DOMAIN r.pkts : r.pkts[n].id = k

\* Packets for one next hop leave in the order they came, whether they had to
\* wait for it or not; only one that has been given up is overtaken.
HopFifo ==
  /\ \A k, l \in DOMAIN fate :
       /\ k < l /\ fate[k].hop = fate[l].hop
       /\ fate[k].what = "inside" /\ ~Unreachable(k)
       => fate[l].what # "sent"
  /\ \A r \in requests : \A m, n \in DOMAIN r.pkts :
       m < n /\ r.pkts[m].id # 0 /\ r.pkts[n].id # 0 => r.pkts[m].id < r.pkts[n].id

\* Every packet is sent or reported in the end.
PacketsSettle ==
  \A k \in 1..MaxPackets : Inside(k) ~> ~Inside(k)

\* "for each pending packet, send icmp packet (DEST_HOST_UNREACHABLE), and
\* drop these packets": once nothing arrives any more, nothing waits any more.
CacheDrains == <>[](requests = {})

=============================================================================
