# TLA+ models of the UCAS computer-network labs

Every directory of the repository is a network program of its own. This
project models their control logic in TLA+, checks it on small networks with
TLC, and proves the central properties for every network with TLAPS.

## 1. The system

| Part | Source | State it keeps | Operations | Concurrency |
|---|---|---|---|---|
| Spanning tree | `05-stp/stp.c`, `stp_timer.c`, `main.c` | believed root, cost, root port, hello timer; four `designated_*` fields per port | receive a config packet, hello timeout, dump and exit | receive loop + timer thread, one lock held for a whole handler |
| Hub | `04-hub+switch/hub` | none | flood a frame | one thread |
| Learning switch | `04-hub+switch/switch` | MAC table with ages | forward, learn, sweep | receive loop + sweeper, lock per table operation |
| ARP cache | `07-router/arpcache.c`, `arp.c` (copied in `09-mospf`) | 32 mappings, list of pending requests and their packets | look up, pend, insert, sweep, answer | receive loop + sweeper; two critical sections per send |
| Static router | `07-router/ip.c`, `icmp.c`, `ip_base.c`, `rtable.c` | routing table (read only) | forward, deliver, report errors | receive loop (+ errors from the sweeper) |
| mOSPF daemon | `09-mospf/mospf_daemon.c` | neighbours per interface, sequence number | send/receive hello and LSU, expire neighbours and database entries | receive loop + four timer threads, `mospf_lock` |
| mOSPF routes | `09-mospf/mospf_database.c`, `rtable.c` | link-state database, routing table | update database, run Dijkstra, rebuild the table | under both `mospf_lock` and `rtable_mutex` |
| IP lookup | `10-ip_lookup/tree.c` | two tries | build, look up | none |
| HTTPS server | `03-socket/https-server-example.c` | none across requests | redirect, whole file, range | two accept loops |
| Device layer | `device_internal.c` in each | raw sockets | send, poll, receive | - |

The parts interact by messages (frames between processes on a link), by shared
state under a lock (the threads of one process), and by calls: the router's
forwarding calls the ARP cache, whose sweeper calls back into ICMP and thus into
forwarding; the mOSPF daemon calls the route computation, which writes the
table that forwarding reads.

What is hard, per part:

* *Spanning tree*: config packets cross, get lost and arrive late; switches end
  and restart; nothing ages. Wanted: beliefs are always backed by the topology,
  every segment keeps a designated end, roles follow the stored vectors, the
  network settles on a spanning tree, and does so again after restarts.
* *Learning switch*: lookup before learning, sweep against refresh. Wanted: an
  entry is where its station was last heard; no entry outlives its age while its
  station is silent; no frame goes out where it came in except in the known case.
* *ARP cache*: reply between lookup and append, full table, retries against late
  replies. Wanted: every pended packet is sent once or reported once, never both.
* *mOSPF*: 16-bit sequence numbers, restart from 0, ageing against refresh,
  routes recomputed on some changes only, lock nesting. Wanted: a database never
  goes back to an older advertisement, floods end, tables agree with databases,
  routes settle without loops, threads do not wait on one another for ever.
* *IP lookup*: the multibit trie expands prefixes over leaves. Wanted: longest prefix match.
* *HTTPS server*: range arithmetic, a fixed buffer, requests that arrive in pieces, one
  client after the other. Wanted: nobody takes a cut body for the whole, and everybody
  who stays is answered.

## 2. Plan

| Order | Module | Models | Abstract specification | State |
|---|---|---|---|---|
| 1 | `Stp`, `StpCrash`, `SwitchProofs` | spanning tree | `RootElection` | done |
| 2 | `ArpCache`, `Router`, `RouterProofs` | cache, pending packets, sweeper; forwarding and ICMP errors | each packet has one outcome | done |
| 3 | `MacTable`, `SwitchProofs` | learning switch and hub | last-heard port | done |
| 4 | `Mospf`, `MospfProofs` | mOSPF daemons: neighbours, flooding, ageing | `LinkState` | done |
| 5 | `MospfRoutes`, `RoutesProofs` | Dijkstra, first hops, the table | shortest distances in the database | done |
| 6 | `MospfAge`, `AgeProofs` | one router's advertisement in real time: restarts from number 0, 16-bit wrap, 30 s period against 40 s ageing | known again within a bounded time | done |
| 7 | `IpLookup`, `LookupProofs` | both prefix trees, their building and searching | longest prefix match | done |
| 8 | `RouterLocks`, `LockProofs` | the lock nesting of a mOSPF router's threads | no circular wait | done |
| 9 | `HttpServer`, `HttpProofs` | request handling, ranges, both accept loops | the bytes asked for | done |

Every invariant and every action property that a passing run checks is also a theorem, for
every value of the constants; nothing of the plan is left. Where a theorem
needs a condition that goes beyond the named assumptions, it is its hypothesis: `LoopFree`
(section 3) and `TimeoutBetweenRounds` (section 8), where it is said what fails without it.

What the provers cannot do stays with TLC: liveness under fairness. Induction
over numbers has no rule that they can instantiate, but the numbers 1..n are
well-founded under inclusion, so every set of numbers has a smallest one
(`Smallest`), and a set that holds 0 and with each number the next holds all
(`Inductive`). That is how the recursive functions over 0..n, the scans for a nearest node and the
chains along `prev` are reasoned about.

## 3. Spanning tree

### Model and code

`Stp.tla`: one handler is one step, because both threads take `stp->lock`
before a handler and release it afterwards (`stp.c:404-418`, `stp_timer.c`).

| Model | Code |
|---|---|
| `designatedRoot`, `rootPathCost`, `rootPort`, `helloActive` | the fields of `stp_t` |
| `info[p]` | `designated_root`, `designated_cost`, `designated_switch`, `designated_port` of a port |
| `rxq[p]` | frames in the raw socket of the port's interface |
| `Receive` = `Accept` or `Decline` | `stp_handle_config_packet` |
| `SelectsRootPort`, `RootVia`, `CostVia` | the election loop and the assignments after it |
| `UpdatePorts` | the loop over the ports, with its arguments in the code's order |
| `HelloAfter` | stopping the timer |
| `HelloTimeout` | `stp_handle_hello_timeout` |
| `SendOn` | `stp_send_config` on each designated port |
| `Lose`, the capacity in `SendOn` | frames the kernel drops |
| `Crash`, `Restart` (`StpCrash`) | SIGTERM, and `stp_init` of a new process |

The election is `\E rp : SelectsRootPort(rp, ...)`. The condition has exactly one
solution (of two equal ports the scan keeps the later one), so the choice is
the code's and proofs need no induction over the scan.

### Runs

| Run | Network | What it shows |
|---|---|---|
| `stp_ring` | `four_node_ring.py` (4 switches, 4 links), one-frame sockets | all safety properties, the inductive invariant (types included), and that the switches implement `RootElection` |
| `stp_crash` | triangle, lost packets, at most one process ends | `SwitchesConsistent`: what holds of a single switch (`DistanceSound`, `RootPortSound`, `HelloIffRoot`, `RolesFollowVectors`) outlives restarts; `BeliefOnlyImproves`: a belief gets worse by a restart only; `Reconverges`: a spanning tree for good, with or without a restart, from whatever the restarted switch and its neighbours hold; `LostRootFallsSilent`: nothing circles when the root never comes back |

*Bounds.* `QueueCap` is the number of frames a socket buffers. With one frame
already an old vector can be on its way in each direction of a link while its
sender changes its mind, and a full socket drops the newer one; the safety
properties were also explored on the triangle with two frames (28,917 states),
and the proofs hold for any capacity. `MaxCrash` = 1 lets a process end in
any state of the others. The ring contains a cycle of four, two ports on each
switch and a switch (4) with two equally good ports, which is where the tie in
the election matters. Its liveness graph is too large for TLC; the triangle has a
cycle as well.

*Fairness.* `stp_timer_routine` polls every 100 microseconds, so an active hello
timer fires again and again: weak fairness of `HelloTimeout`. A link that is
offered frames for ever delivers infinitely many of them: strong fairness of
`Receive` on each port (weak would be met by losing every frame). Nobody is
obliged to restart a switch: `Reconverges` assumes that all run from some time on.

*Nothing ages.* `stp_proto.h:52` documents `max_age` as the "timeout for received data",
20 seconds, but the code only sends the value. When a neighbour is gone for good, its vector
stays; when it was the root, the others keep believing in it, no hello timer is ever started
again (`stp.c:272-275` only stops it), and the network falls silent with a tree that is rooted
in a switch that does not exist. `Reconverges` therefore asks that all switches run in the end,
and `LostRootFallsSilent` says what happens otherwise: at least what is left
of the lost root's announcements does not circle, although equal vectors are passed on.

What the runs taught:

* Accepting a vector *equal* to the stored one is not a detail. It is the only
  way the root's repeated hellos get past the first switch; with a strict
  comparison, one lost packet can leave a switch behind for ever.
* `SegmentServed` does not survive restarts: a config packet sent before a
  restart can make both ends of a link give way until the next hello. That is
  transient, and `Reconverges` covers the recovery.
* The costs that circulate stay backed by the topology even across restarts
  (`SwitchesConsistent` in `stp_crash`): a vector's path existed when it was sent
  and the links do not change.

### Proofs

The first part of `SwitchProofs.tla` proves for every set of switches, every wiring, every socket
capacity: `TypeCorrect`, unconditionally; and, for networks in which no cable
has both ends in one switch (`LoopFree`), `InductiveInvariant`,
`DistanceCorrect`, `RootPortCorrect`, `HelloCorrect`, `SegmentsAlwaysServed`,
`RolesCorrect` and `ImplementsElection`.

The assumptions are `NetworkAssumption` (links are point to point, identities
are numbers) and `DistAssumption` (`Dist` is zero exactly on the diagonal and
grows by at most one per link, as hop distance does).

No safety property is inductive by itself, because each depends on what is in
flight. `Inductive` closes the gap with one idea, `Credible`: a vector found at a
port, stored or travelling, names the port at the other end as its sender, has a
path behind it, and is **no better than what that sender would announce now**.

1. *A new belief is never worse* (`BeliefImproves` and its neighbours in the
   module): the accepted vector is at least as good as the stored one, so the
   elected root port offers at least what it did. Hence everything credible
   stays credible when a sender changes its belief.
2. *What is sent is credible* when sent, since it is the sender's present belief.
3. `BeliefSupported` and `DistanceSound` follow with the triangle inequality of
   `Dist`.
4. `SegmentServed`: were both ends of a link not designated, each would store a
   vector that beats its own announcement (`RolesFollowVectors`) and is no better
   than the other's (`Credible`); by transitivity each end's announcement would
   beat the other's, strictly.
5. `ImplementsElection`: a step that changes a belief is `Accept`, and improves it.

The theorems about `StpCrash` say what outlives restarts. When processes may start again, a
sender's belief can get worse, so that vectors may be better than what the sender would announce
now: `Credible` is lost, and with it `SegmentServed`. What stays:

* The path of a vector exists (`PathInv`), since it existed when the vector was sent and the
  links do not change. `DistanceSurvivesRestarts` follows; it needs neither `LoopFree` nor an
  order of beliefs, so it holds for looped cables as well.
* What speaks of one switch only (`LocalInv`): its root port, roles and hello timer agree with
  the vectors it stores. `AcceptKeepsLocal` shows that accepting *any* packet with a path behind it
  keeps this, however old it is and whatever its sender has become; restarting sets up a state of
  which it holds. From it follow `ConsistentOverRestarts` and
  `BeliefImprovesOverRestarts`: however much
  worse a neighbour's announcements become, a switch stays with the best it has heard
  until it is restarted itself. That it keeps believing in what no longer exists is the other side
  of this (`LostRootFallsSilent`).

`Inductive` is `LocalInv` for processes that do not end, together with `Credible`; the two proofs
share their lemmas.

Looped cables are excluded from the rest for a reason: at `stp.c:262` the last two arguments
stand the other way round, which for a cable within one switch keeps both ends
designated; a root switch with such a cable elects it as its root port and
believes in itself at cost 1. On links between different switches the comparison
is decided before it reaches those arguments.

### Only model-checked

Liveness: `Reconverges` and `LostRootFallsSilent`.

### Not modelled

TCN packets and the dump on SIGTERM (output only); `max_age`, `msg_age` and
`fwd_delay`, which are sent but never read; the check of the destination address
at `main.c:15`, which compares one byte; the packet buffer that is never freed.

## 4. Router and ARP cache

### Model and code

`ArpCache.tla` holds the cache: each of its actions is one critical section of
`arpcache.lock`. `Router.tla` extends it with the two threads that enter them.

| Model | Code |
|---|---|
| `entries`, `requests` | `arpcache.entries`, `arpcache.req_list` |
| `Known` | the search of `arpcache_lookup` |
| `AppendPacket`, `Insert`, `SweepCache` | the locked parts of `arpcache_append_packet`, `arpcache_insert`, `arpcache_sweep` |
| `todo[t]`, `missed[t]` | how far thread `t` is in `iface_send_packet_by_arp`: what it has to send, and whether its lookup failed |
| `unreachable` | `unreachable_list`, which the sweeper works off without the lock |
| `ReceiveIp` = `DropLocal`, `Report`, `DeliverLocal` or `Forward` | the outcomes of `handle_ip_packet` |
| `ReceiveArpReply` | `handle_arp_packet` for a reply, which is taken whether or not it was asked for |
| `Lookup`, `Pend` | the two halves of `iface_send_packet_by_arp` |
| `Sweep`, `ReportUnreachable` | `arpcache_sweep` up to the unlock, and the loop after it |
| `fate` | nothing in the code: what has become of each packet that arrived |

A mapping's MAC address is left out, since no ARP reply contradicts another
here. Time stamps are ages that `Tick` advances; an age is counted no further
than the first value that is too old. Addresses are numbers, and `NetOrder` is an
address read in the other byte order: `ip.c:23` compares the two, so that
`LooksLocal` accepts packets for the mirror image of an interface's address.

### Runs

| Run | Bounds | What it shows |
|---|---|---|
| `router` | two packets out of five kinds, two slots, one retry, an age limit of zero | conservation, order, retries, eviction, and that every packet is settled |
| `router_drain` | one packet | a counterexample to `CacheDrains`, see section 12 |

*Bounds.* Two packets can wait for the same next hop, for two of them, or one can
wait while the other's mapping expires; with errors that makes up to four next
hops for two slots, so that the table is full and slot 0 is evicted. One retry and
an age limit of zero seconds (the code: five and fifteen) let a request be
repeated, given up, and mappings expire between any two steps. The addresses have
two bits for the network and two for the host, so that the mirror image of an
interface's address is an address behind a gateway. The echo request for a mirrored
address, which is answered *and* forwarded, is modelled (`EarlyReply`) but is not
among the arrivals.

*Fairness.* Neither thread waits for anything but a lock that is held for a bounded
time: weak fairness of their steps and of the clock. Nothing is assumed of hosts;
a reply may come late, after the request was given up, unasked for, again, or never, as
`handle_arp_packet` (`arp.c:92-99`) takes every reply to the address of its interface.

What the run taught:

* A late reply may overtake: when a packet has been given up, one that came later
  can still be sent before the error about the first goes out. `HopFifo` excepts
  exactly those on the unreachable list.
* `KnownNotAwaited` (a part of `CacheConsistent`) is true of received packets only because the receive loop, which
  pends them, is also the one that inserts mappings. The sweeper's own errors do
  get pended for mappings that have just become known, and then wait until the
  request is repeated.
* A request is sent once and then repeated `ARP_REQUEST_MAX_RETRIES` times, six in
  all; the comment at `arpcache.c:184` speaks of five.

### Proofs

`RouterProofs.tla` proves, for any interfaces, addresses, routes, arrivals, sizes of the
table and interleavings of the two threads, `RouterTypes`, `CacheStaysConsistent`,
`EvictionOnlyWhenFull`, `PacketsStayConserved` and `HopsStayFifo`, from `ArpAssumption` and `RouterAssumption` (the constants have
their types; addresses are numbers).

`KnownNotAwaited` is not inductive: it is the packet *between* the lookup and the append that
could be pended for a mapping that has arrived meanwhile. `MissedOK` says that this does not
happen to the receive loop, because only that loop inserts, and only between two packets;
`SweeperOK` says that what the sweeper pends carries no received packet. `OneRequestPerHop`
includes that no request is empty, which `UnreachableOK` carries on to the list the sweeper
works off, so that there is always a first packet to take. `EvictionOnlyWhenFull` goes
through the steps that write a slot: the insertion, which chooses it, the sweep, which frees
what is too old, and the clock, which only ages.

`PacketsConserved` and `HopFifo` look at four containers at once: what the receive loop has
in hand, the requests, the list of what was given up, and `fate`. `TrackInv` says of them
that a packet in one is in no other and nowhere twice, that only the one that has arrived last is
in the receive loop's hands, that packets wait in the order of their arrival and for the next hop
that was found for them, and that none was sent before an earlier one for the same next hop which has not been
given up. Each step moves packets from one container to another; there is a lemma for each kind of
move (arrival, sending, pending, a reply that flushes a request, giving up, reporting). A packet
whose mapping is known cannot overtake one that waits for it, because of `KnownNotAwaited`: nothing
received waits for what is known.

`PacketsSettle` is liveness and model-checked only.

## 5. Learning switch and hub

`MacTable.tla`: `Lookup`, `ReadIface`, `Forward` and `Learn` are `handle_packet`, whose two
uses of the table are separate critical sections; `ReadTime` and `Sweep` are
`sweep_aged_mac_port_entry`, which reads the time before it asks for the lock.
`Broadcast` is `broadcast_packet`, which is all of the hub. The hash table is a set
of entries. `Move` plugs a station in elsewhere; `heard` and `out` record where a
station was last learned and where the frame was sent.

`lookup_port` returns `pos->iface` after it has released the lock (`mac.c:57-58`): the step
`Lookup` ends at the unlock, with `pos` on what was found, and `ReadIface` follows it. The
sweeper may remove and free the entry in between. `free` writes only to the first two words of a
block, which are the list links, and nothing is allocated before the next
insertion, so what `ReadIface` reads is still the interface.

Run `mac_table`: three interfaces, two stations that move freely, an unknown
destination, an ageing time of two seconds. Three interfaces distinguish where a
frame came from, where its destination is and where it is not; a second of waiting
for the lock is enough to let a refreshed stamp lie after the sweeper's `now`.
Fairness: both threads go on and time passes; stations need not speak.

The second part of `SwitchProofs.tla` proves, for all stations, interfaces and ageing times, `MacTypeCorrect`,
`TableCorrect`, `ForwardingCorrect` and `RemovalCorrect`. The invariant behind
the third is `TargetSound`: what the loop has looked up, read or not, is where the destination was
last heard, because only the loop itself learns. Behind the last is `AgedAreOld`:
what the sweeper has judged too old stays too old until it is renewed, and renewing it
takes it off the list. `SilentForgotten` is liveness and is model-checked.

Not covered: several switches. Tables of different switches age independently, and a
switch sends a frame back out of its ingress when that is where it last heard the
destination; the repository's experiment has one switch.

## 6. mOSPF

### Model and code

`Mospf.tla` is the daemon on every router, `MospfRoutes.tla` what one router does
with its database. Every handler and every round of a thread holds `mospf_lock` from
beginning to end (the sending thread releases it only inside
`pthread_cond_timedwait`), so each is one step.

| Model (`Mospf`) | Code |
|---|---|
| `nbrs` | `nbr_list` of the interfaces; a cable is an interface at each end |
| `lsuThread` | the sending thread: not yet waiting, waiting, woken |
| `db` | `mospf_db`: number and content of each entry |
| `sent` | `sequence_num` is its length; the contents are kept for the properties |
| `net` | LSU packets on their way, in no order |
| `Hello`, `NbrTimeout`, `Signalled` | `handle_mospf_hello`, `checking_nbr_thread`, `pthread_cond_signal` |
| `StartLsuThread`, `SendLsu` | `sending_mospf_lsu_thread` |
| `ReceiveLsu`, `Newer`, `PassedOn`, `SendTo` | `handle_mospf_lsu`, `update_mospf_db`, `send_mospf_lsu_msg` |
| `DbTimeout` | `check_mospf_db_timeout` |

| Model (`MospfRoutes`) | Code |
|---|---|
| `Begin`, `Graph` | `init_mospf_graph`, from any database that flooding may leave |
| `Visit`, `Nearest`, `Better` | a round of `dijkstra` |
| `StartRoutes` | `clear_rtable`, `load_rtable_from_kernel` |
| `SetRoutes`, `FirstHop`, `AddRoutes` | a round of `set_rtable_with_path`, `get_first_hop`, `try_add_rt_entry` |
| `LinkFails` | `disable_link` of `topo.py` |

Timers are abstract: neighbours and entries may time out at any moment, except that
a router's own entry does not, because its own thread renews it every 30 seconds and
entries live 40. `MospfRoutes` takes the entries of a database from before or after a
link failure, each by itself, which includes databases in which the two ends of a link
disagree. The neighbour lists are those of one of these times and never older than the own
entry.

### Runs

| Run | Instance | What it shows |
|---|---|---|
| `mospf` | triangle, two advertisements by one router, one loss or timeout | genuine entries, nothing older wins, echoes are harmless, nobody left out, no signal lost |
| `mospf_routes` | the ring of `topo.py` and the ring with a link across, one failing link, every list of one to four routers in every order | true distances, shortest routes, no stale ones |
| `mospf_loop` | the ring and networks of `topo.py`, complete databases | a counterexample to `NetworksReached`, see section 12 |

*Bounds.* Entries of different origins never touch, so one origin (`MaxSend` = 2, 0, 0)
shows what two of its advertisements can do to each other; two origins with time to
live 255 were explored as well (1,670,256 states). A triangle is the smallest network with
two ways to each router, and a time to live of two lets an advertisement come back to
its origin. The code's is 255, and `FloodCovers` holds only while the time to live
is not used up before everybody has the advertisement. Since sends are bounded the
model stops, and deadlock is not checked for it. The four-ring is the smallest in which
first hop and last hop of a shortest path differ and two first hops are equally good;
the link across makes the distances unequal. In `mospf_routes` only router 1 computes,
the wirings being symmetric but for the two that differ for it.

What the runs taught:

* `ChangesAnnounced` holds only from a router's first advertisement on. A signal that
  comes before the sending thread waits is lost, and the first advertisement goes
  out 30 seconds after the start; everything after that is announced at once.
* Nothing is retransmitted. `FloodCovers` therefore excepts runs in which something
  was lost or timed out, or in which a neighbour was found after entries were
  known: a new neighbour learns the others' entries only from their next periodic
  advertisements.
* A router's own changes go into its database but do not recompute its table
  (`sending_mospf_lsu_thread` calls `update_mospf_db` alone); the table follows at the
  next foreign advertisement or timeout. `SoleNetworksShortest` allows for neighbour lists
  that are ahead of the own entry: no route then goes through a router that is no
  neighbour, but a known way may be left unused.
* `SoleNetworksShortest` is about networks that one router advertises (those of the
  hosts). For the others the farther router's advertisement wins; see section 12.

### Proofs

`MospfProofs.tla` proves for any routers, cables, time to live and bounds:
`TypeCorrect`, `AnnouncementCorrect`, `GenuineCorrect` and `ImplementsFlooding`, from
`MospfAssumption` alone, and `FloodingCovers` for networks of at most `MaxTtl + 1` routers
(`SmallNetwork`; the code's `MOSPF_MAX_LSU_TTL` is 255).

`ChangesAnnounced` needs one fact more to be inductive: a thread that has not begun to
wait has sent nothing (`AnnounceInv`). `EntriesGenuine` is not inductive because of echoes:
a router might accept an advertisement of its own as newer than its own entry and would
then hold one it has replaced. `OwnLatest` rules that out: the own entry is always
the latest advertisement, so nothing that was sent can be newer (`EchoIsNotNewer`), and the
next one always is (`OwnIsNewer`). With both, each step of the daemons is a `Publish`,
`Learn` or `Forget` of `LinkState`, or changes no copy. `OwnLatest` depends on the
numbers only growing, which holds for 65,536 advertisements of a process
(`MaxSend` stays below); restarts and wraps break it, and `MospfAge` says what holds then.

`FloodingCovers` rests on a count. Each time an advertisement is passed on, the router that passes
it on has just come to have it, so its hops are never more than the routers that have it
(`TravelsRight`): the time to live is used up only when everybody has it. The other half is that
what a router has, each of its neighbours has as well or it is on its way there
(`AllCovered`): the neighbour it came from, to whom it is not sent, has it.

`RoutesProofs.tla` proves `VisitedIsFinal`, `RoutesAreFresh` and `SoleNetworksRight` for any
routers, wirings and databases, from `RoutesAssumption`: a database lists each router once and
fewer than `BigInt` (0x3fffffff in the code), and links have networks. Edges are those the database gives, in one direction
where its entries contradict each other; nothing is assumed of them.

1. `PathsOK`: a distance is the length of the path along which `prev` leads back to the router itself.
2. `FrontierOK`: nodes are visited in the order of their distance, the neighbours of a visited
   node are at most one step further, and no distance exceeds the number of visited nodes. The last
   keeps distances of reached nodes below `BigInt`, which stands for "not reached".
3. By induction over the distance, what is within k steps of the source has been visited or has a
   distance of at most k (`FrontierFinal`, `ReachedFinal`), and the first hop of a node is a neighbour from which
   it is one step nearer (`FirstHopRight`).
4. `TableOK`: while routes are entered, the table has those of the nodes that were taken, and of
   a network that one router advertises exactly the one of its first hop, unless that is no neighbour.

`NetworksReached` is not a theorem but refuted, see section 12.

## 7. Prefix trees

`IpLookup.tla` builds both trees of `tree.c` from the lines of a forwarding table, one
line per step, and defines the searches on them. A node is named by the bits that
lead to it; `nodes[s]` are the nodes that exist and `port[s]` the ports of the match nodes,
for the tree that takes `s` bits at a time (the basic tree is the case of one bit,
where nothing is ever expanded). A search goes on while nodes exist and returns the port
of the last match node it has passed.

Run `ip_lookup`: addresses of four bits, levels of two bits, every table of up to three lines
in every order, every address. Three lines are a prefix, one that it contains and one that
overwrites the expansion of either; two levels tell a prefix that is expanded from one
that is passed on the way to another.

* `BasicIsLongest`: the basic tree is right for any order of the lines.
* `AdvancedIsLongest`: the advanced tree is right when no prefix is listed after one
  that it contains. `test/forwarding_table.txt` is sorted by address and then by length and
  meets that; the code does not check it.
* `WrongWithinLevel`: otherwise a lookup may give a shorter prefix's port, but only
  of one that ends within the same level as the longest.

`LookupProofs.tla` proves all three, as `BasicTreeCorrect`, `AdvancedTreeCorrect` and
`AdvancedTreeWrongWithinLevel`, for addresses of any width and levels of any number of bits that divides it
(the code: 32 and 4). `LookupInv` says that every prefix is entered at the nodes it is expanded to, that
the nodes on the way to them exist, and that a match node has the port of a prefix entered there, of
the longest if the table was nested in order. A prefix of n bits is entered at the next multiple of the
level's bits (`Up`), which is monotone: of two prefixes of an address the longer one is entered at the same
level or further down, so the last match node of a search has the longest one, or one of its level.

## 8. A mOSPF router in time

`MospfAge.tla` follows the advertisements of one router, the origin, through a restart, a
wrap of its sequence numbers and a loss, with the intervals of `mospf_proto.h` in units of
five seconds: advertisements every 6 (30 s), entries too old at 8 (40 s).

| Model | Code |
|---|---|
| `Stop`, `Start` | the end of the process; `mospf_init`, which counts from 0 again |
| `waiting`, `BeginWait`, `elapsed`, `signalled`, `SendDue` | `pthread_cond_timedwait` in the sending thread; a signal before its first call (`Hello`) is lost |
| `SendLsu`, `seq` | its round; the 16 bits of the number wrap at `SeqMod` |
| `Newer`, `Stored` | `update_mospf_db`, for the own entry as for those of others |
| `ReceiveLsu` | `handle_mospf_lsu`; the origin meets echoes of its earlier self |
| `AgeDatabase`, `TooOld` | `check_mospf_db_timeout` |
| `RoutesFrom`, `computed` | from which own entry the table was last computed; unchanged by the early return when there is none |
| `ReceiveOther` | an advertisement of another router, which recomputes the table |
| `calm` | nothing in the code: time since the last restart, wrap or loss |

`Tick` ends a unit. Within one, packets arrive, a woken thread runs, a missing neighbour is
found (hellos come every 5 s) and every database is aged once, in any order. The neighbours of
the origin are constant apart from its own restart; the advertisements of the others
appear only as `ReceiveOther`, at least one in every interval.

Run `mospf_age`: a triangle, one restart, one loss, a wrap every four numbers. The wrap makes
numbers go back with and without a restart; four numbers are enough for entries with a
greater, an equal and a smaller number than the next. Two peers are needed for
an old advertisement to come back round.

* `KnownAgain`: 14 units (70 s: one lifetime and one interval) after the numbers last went back
  or something was lost, every database says what the origin advertises. After 12 units
  (60 s) it may still be otherwise, so the bound is not far off. It is not the 40 s one might expect, because a
  refused advertisement is repeated only 30 s later. And the router's *own* database needs it
  as well: before its first advertisement, an echo of its earlier self can become its own entry, which then
  refuses the new ones.
* `TableFollows`: the routes are computed from the present neighbours at most one
  interval after that, although the router's own changes never recompute them: others
  advertise meanwhile. Until then it may route by what it no longer has, since
  `update_routing_table_from_database` returns early without an own entry.

### Proofs

The run has the code's figures for the intervals and one restart. `AgeProofs.tla` proves
`KnownAgainHolds` for all intervals of which the lifetime is longer than an interval and a unit
(`AgeAssumption`; 40 s against 30 s and 5 s), any number of neighbours, restarts and
losses, and any modulus. The invariant, `AgeInv`, rests on three kinds of entries. What
a database has may be from *before* the numbers last went back: it is never renewed, so its age is at least
the time `calm` since then, and after a lifetime it is gone. What is *from after* gives way to the
next number, because numbers only grow while `calm` does. And what the origin sent *last* (`Latest`) is
as old as the sending thread has waited (`elapsed`). A database with nothing, or with an entry of the second
kind, takes the next advertisement, which is at most one interval away; from then on `Fresh` renews
itself. What makes the bound delicate is that databases are aged in any order within a unit:
an entry's age counts as of the end of the unit (`AgeThen`), so that it does not depend on
whether the round of `checking_database_thread` has come yet.

`TableFollowsHolds` needs `TimeoutBetweenRounds`: the lifetime is no multiple of the
interval, as 40 s is none of 30 s. With an interval of two units and a lifetime of four TLC finds why:
the origin's own database refuses its advertisement in the same unit in which, a moment later, it ages the old
entry away, so its routes stay computed from what it had before for one interval
more. Changing the two figures of `mospf_proto.h` without regard to this would cost the bound.

## 9. The locks of a mOSPF router

`RouterLocks.tla` is about the receive loop, the sending thread, both checking threads and
the ARP sweeper, and about `mospf_lock`, `rtable_mutex` and `arpcache.lock`. A step ends where a mutex is
asked for or given back, or where a pointer into a list is about to be used. `at[t]` is
where a thread is, `held[t]` what it has locked, `left[t]` how many packets it has still to
send: to all neighbours (`Flood`), or errors about what was given up (`Sweep`). What is decided by
data (whether an advertisement is new, a route exists, a mapping is known) is any outcome.

| Model | Code |
|---|---|
| `Receive` | `handle_packet` down to the first lock of each kind of packet |
| `Hello`, `HandleLsu`, `SendLsu`, `CheckNbr`, `CheckDatabase`, `Leave` | the bodies under `mospf_lock` |
| `ClearTable`, `Rebuilt` | `update_routing_table_from_database` under `rtable_mutex` |
| `FindSource`, `UseSource` | `icmp_send_packet`, which looks for the interface that leads back |
| `Match`, `UseRoute`, `Sent` | `ip_send_packet`, which keeps `rtable_mutex` over everything below |
| `Lookup`, `AppendPacket`, `Insert`, `Sweep` | the critical sections of the cache |

Run `router_locks`: two neighbours, so that a list is walked while it could be freed, and
one packet given up in a sweep (70,842 states with two, which was explored as well).

* `NoCircularWait`: no set of threads waits for one another.
* `PointersLive`: no route is used after `clear_rtable`, no neighbour after
  `checking_nbr_thread` freed it. `ip_send_packet` could give its mutex back after the
  search; the route it found could then be gone.
* `RoundsEnd`: every round ends. Every path out, early returns included, gives back what it
  locked.

*Fairness.* Nothing inside a critical section waits for anything but a mutex, so threads go
on. Strong fairness at a mutex: whoever holds one sleeps or polls between two of its rounds, so the mutex
is free for long stretches, and a thread that waits gets it in one of them.

`LockProofs.tla` proves, for any number of neighbours and packets, `LockInvariant`,
`DeadlockFree` and `NoDanglingPointer`. The invariant is `Discipline`, which gives for each
place in the nested functions exactly the set of mutexes held there (`HeldAt`), together with
`Exclusion`. Locks are always taken in the order `mospf_lock`, `rtable_mutex`, `arpcache.lock`, so of any
set of threads the one that asks for the last of these asks for a mutex that none of those who
wait has. That order is there because nobody reports or sends a packet with the cache's lock in hand. `RoundsEnd` is liveness and is model-checked.

## 10. HTTP and HTTPS server

`HttpServer.tla` has the two threads, each with the connections of its port, and clients
that connect, send, follow the redirection and may leave. A file is a sequence of
bytes, one of which may be NUL; `Room` is what the response buffer leaves for the body.

| Model | Code |
|---|---|
| `Accept`, `backlog` | `http_thread_func`, `https_thread_func`, the kernel's queue |
| `Handshake`, `Read`, `Write` | the calls in `handle_https_request` that can fail or block, and their counterparts in `handle_http_request` |
| `Part` | how much of the request the one read returned: nothing, none of the uri, some of it, the request line, and four cuts in and after the Range header |
| `SeenMethod`, `SeenUri`, `Cut` | `sscanf` of method and uri: a shorter name, or what the arrays happen to hold |
| `Respond`, `Ranged`, `Unsatisfiable` | the branches up to the response |
| `Announced`, `Printed` | `Content-Length`, and what `snprintf` prints with `%s` or `%.*s` |
| `Crashes` | `strchr` finds nothing and its result is used |
| `Exit` | `exit(1)`, or a signal: the end of both threads |
| `Answered`, `Follow` | the reply and the close; the client then asks port 443 for the name in `Location` |

The method and the uri go into arrays that nothing initialises (lines 23 and 60). When the read
ends before a word, its array has what was on the stack, an earlier request's name for example: any
method and any name, in the model. When it ends within the uri, the name is a shorter one
(`Cut`), which may be missing or be another file.

Header wording is left out, and so is the host of the redirection as long as it was read whole:
the server answers for every host. A Host header that was read in part may send the client
to another server, which counts as having left. Once a client has left, what the thread meets is any
of a failed call, an empty read or a `SIGPIPE`. What was sent and never read turns the close into a reset,
which may cost the client its answer. What a client sends after the one read is not a step of its own, since
nobody looks at it, and neither is a cut Range header at port 80.

Run `http_server` (561,127 states): one client asks for each of a text file (`page`), one with a NUL byte
(`page2`, whose name begins like the other), one larger than the buffer and a missing one, with each kind
of range; another one comes between. More clients only wait longer in the same queue.

* `AnswerRight`: a body may be cut at a NUL or at the end of the buffer, but `Content-Length` is
  computed from the file, so whoever has as many bytes as were announced has exactly one
  file or the range of it; and the body is complete when it fits and has no NUL. It is
  the file the client asked for, through the redirection too, *unless the request line was read in part*
  (`cut`), at port 80 or at port 443.
* `EveryClientServed`: as long as no client leaves and no header is cut inside a range, everybody is
  answered, through the redirection too; whoever had part of a request read may lose the answer to the
  reset. Most answers have no length and end with the close, so a path that did not close
  would keep its client waiting.

The exception is real. `test/test.py:15` asserts that a 200 carries the file that was asked for. Of a
request for `/page2`, `GET /page` may be all that the one read (line 52) returns; the answer is then a 200
with the whole of `page` and a `Content-Length` that matches. When the read ends before the
uri, the array holds whatever was there, and port 80 redirects to such a name in the same way
(lines 17-36). Without the condition on `cut` TLC refutes `AnswerRight` within seconds.

*Fairness*: weak fairness of the threads and of the clients' sending. A client that connects and
sends nothing holds up its port for ever, since nothing times out; such a client counts as one that
has still to send. The system stops when all clients are done, so deadlock is not checked.

`HttpProofs.tla` proves `AnswersAreRight` for any files, requests, clients, buffer sizes, pieces a
request may arrive in, and ways in which a name may be cut short. What makes it inductive is that every
connection waits in one queue once or is being served by the thread of its port (`Placed`), so that what
a thread writes is about what it has seen of the request of the client it serves, and that is the request
itself when the request line was read whole (`RepliesRight`), although clients leave, and connect again to the
other port, while it does. That a reply has the bytes that were announced only if it has all of them
is then a lemma about `Respond`. `EveryClientServed` is liveness and is model-checked.

Not modelled: starting up, directories (whose size `ftell` may report as
anything), running out of memory, the limit of the listen queue.

## 11. Not modelled

Opening raw sockets, reading the kernel's routing table, TLS, and the mininet and plotting
scripts are I/O without protocol logic; the topologies of the scripts serve as instances. The
packet buffers and graph arrays that are never freed are not modelled: no state the models have
depends on them. Shared libraries and headers copied between the labs are modelled once.

## 12. Findings

* **Errors about errors circulate** (`router_drain`). `arpcache.c:184-186`: packets
  whose requests are not answered are reported and dropped. `icmp_send_packet` reports
  any packet, errors included. When the source of an undeliverable packet cannot be
  resolved either, the error about the error is addressed to the router itself, which
  does not answer its own ARP requests. That packet is pended, given up, and reported to
  the router with an identical one, for ever.

* **Shared networks are routed to the farther router** (`mospf_loop`).
  `mospf_database.c:250` announces routes by shortest paths. Destinations are taken in the
  order of their distance, and `try_add_rt_entry` (`rtable.c:38-46`) overwrites, so for a
  link's network, which both its ends advertise, the farther end wins. Which way it is
  reached depends on the order of the database, which is the order in which routers
  became known. In the ring of `topo.py` two neighbours can each choose the way
  through the other, with complete and equal databases, until some link changes.
