------------------------------ MODULE ArpCache ------------------------------
(***************************************************************************)
(* The ARP cache of the routers (07-router/arpcache.c, copied unchanged to *)
(* 09-mospf): mappings, and requests with the packets that wait for them.   *)
(* Each action is one critical section of arpcache.lock; who enters it and *)
(* when is up to the module Router.                                        *)
(*                                                                         *)
(* A mapping's MAC address is a function of its IP address here and is     *)
(* left out; the time stamps become ages, as nothing else is done with     *)
(* them.                                                                   *)
(***************************************************************************)
EXTENDS Naturals, Sequences

CONSTANTS
  Iface,         \* the router's interfaces
  Address,       \* IP addresses, in host byte order; 0 is none
  Packet,        \* what may have to wait
  MaxArpSize,    \* MAX_ARP_SIZE
  EntryTimeout,  \* ARP_ENTRY_TIMEOUT
  MaxRetries     \* ARP_REQUEST_MAX_RETRIES

ASSUME ArpAssumption ==
  /\ Address \subseteq Nat
  /\ MaxArpSize \in Nat \ {0}
  /\ EntryTimeout \in Nat
  /\ MaxRetries \in Nat

VARIABLES
  entries,    \* arpcache.entries
  requests    \* arpcache.req_list; its order does not matter

cacheVars == <<entries, requests>>

Slot == 1..MaxArpSize

\* The age of an entry is counted up to the first value that is too old.
Entry == [valid : BOOLEAN, ip : Address \cup {0}, age : 0..(EntryTimeout + 1)]
Free  == [valid |-> FALSE, ip |-> 0, age |-> 0]

\* due: a second has begun since the ARP request was sent (now - sent >= 1).
Request == [iface : Iface, ip : Address, due : BOOLEAN,
            retries : 0..MaxRetries, pkts : Seq(Packet)]

CacheTypeOK ==
  /\ entries \in [Slot -> Entry]
  /\ requests \subseteq Request

CacheInit ==
  /\ entries = [i \in Slot |-> Free]
  /\ requests = {}

-----------------------------------------------------------------------------
Known(ip) == \E i \in Slot : entries[i].valid /\ entries[i].ip = ip

\* Mutated form: the packet goes to the front of those that wait.
AppendFirst(iface, ip, pkt) ==
  /\ LET found == {r \in requests : r.ip = ip /\ r.iface = iface}
     IN  \/ /\ found = {}
            /\ requests' = requests \cup
                 {[iface |-> iface, ip |-> ip, due |-> FALSE, retries |-> 0,
                   pkts |-> <<pkt>>]}
         \/ \E r \in found :
              /\ requests' = (requests \ {r})
                               \cup {[r EXCEPT !.pkts = <<pkt>> \o @]}
  /\ UNCHANGED entries

\* arpcache_append_packet: join the request for this address and interface,
\* or make one and ask.
AppendPacket(iface, ip, pkt) ==
  /\ LET found == {r \in requests : r.ip = ip /\ r.iface = iface}
     IN  \/ /\ found = {}
            /\ requests' = requests \cup
                 {[iface |-> iface, ip |-> ip, due |-> FALSE, retries |-> 0,
                   pkts |-> <<pkt>>]}
         \/ \E r \in found :
              /\ requests' = (requests \ {r})
                               \cup {[r EXCEPT !.pkts = Append(@, pkt)]}
  /\ UNCHANGED entries

\* Mutated form: an existing mapping is updated, otherwise slot 0 is taken.
InsertSlotZero(i, ip) ==
  LET same == {j \in Slot : entries[j].valid /\ entries[j].ip = ip}
  IN  IF same # {} THEN i \in same /\ \A j \in same : i <= j ELSE i = 1

\* The slot a mapping goes to: that of the same address, else the first free
\* one, else the first (slot 0 of the code).
InsertSlot(i, ip) ==
  LET free == {j \in Slot : ~entries[j].valid}
      same == {j \in Slot : entries[j].valid /\ entries[j].ip = ip}
  IN  IF same # {} THEN i \in same /\ \A j \in same : i <= j
      ELSE IF free # {} THEN i \in free /\ \A j \in free : i <= j
      ELSE i = 1

Waiting(ip) == {r \in requests : r.ip = ip}

\* Mutated form: the requests stay after their packets have been sent.
InsertKeepingRequests(ip) ==
  /\ \E i \in Slot :
       /\ InsertSlot(i, ip)
       /\ entries' = [entries EXCEPT ![i] = [valid |-> TRUE, ip |-> ip, age |-> 0]]
  /\ UNCHANGED requests

\* arpcache_insert: note the mapping; the packets Waiting for it are sent.
Insert(ip) ==
  /\ \E i \in Slot :
       /\ InsertSlot(i, ip)
       /\ entries' = [entries EXCEPT ![i] = [valid |-> TRUE, ip |-> ip, age |-> 0]]
  /\ requests' = requests \ Waiting(ip)

\* Mutated form: one repetition more.
GivenUpLate == {r \in requests : r.due /\ r.retries > MaxRetries}

\* Due requests that were repeated often enough: no reply is to be expected.
GivenUp == {r \in requests : r.due /\ r.retries >= MaxRetries}

\* Mutated form: repeated requests are not counted.
SweepUncounted ==
  LET again == {r \in requests \ GivenUp : r.due}
  IN  /\ entries' = [i \in Slot |-> IF entries[i].age > EntryTimeout THEN Free
                                    ELSE entries[i]]
      /\ requests' = (requests \ (GivenUp \cup again))
           \cup {[r EXCEPT !.due = FALSE] : r \in again}

\* The locked part of arpcache_sweep: old mappings go, due requests are sent
\* again, and those GivenUp leave the list.
SweepCache ==
  LET again == {r \in requests \ GivenUp : r.due}
  IN  /\ entries' = [i \in Slot |-> IF entries[i].age > EntryTimeout THEN Free
                                    ELSE entries[i]]
      /\ requests' = (requests \ (GivenUp \cup again))
           \cup {[r EXCEPT !.due = FALSE, !.retries = @ + 1] : r \in again}

\* A second passes.
AgeCache ==
  /\ entries' = [i \in Slot |->
       IF entries[i].valid /\ entries[i].age <= EntryTimeout
       THEN [entries[i] EXCEPT !.age = @ + 1] ELSE entries[i]]
  /\ requests' = {[r EXCEPT !.due = TRUE] : r \in requests}

-----------------------------------------------------------------------------
\* The table never holds two mappings for an address, of which a lookup would
\* keep finding the older one (the second loop of arpcache_insert).
OneEntryPerAddress ==
  \A i, j \in Slot :
    /\ entries[i].valid /\ entries[j].valid
    /\ entries[i].ip = entries[j].ip
    => i = j

\* Packets for a next hop wait in one request and never in an empty one, so
\* a next hop is asked for once a second, however many packets wait.
OneRequestPerHop ==
  /\ \A r, q \in requests : r.ip = q.ip /\ r.iface = q.iface => r = q
  /\ \A r \in requests : r.pkts # <<>>

\* A mapping that is not too old is replaced by one for another address only
\* when no slot is free (arpcache_insert starts from slot 0).
EvictsOnlyWhenFull ==
  [][\A i \in Slot :
       /\ entries[i].valid /\ entries[i].age <= EntryTimeout
       /\ entries'[i].ip # entries[i].ip
       => \A j \in Slot : entries[j].valid]_entries

=============================================================================
