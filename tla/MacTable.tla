------------------------------ MODULE MacTable ------------------------------
(***************************************************************************)
(* The learning switch of 04-hub+switch/switch: the receive loop looks a   *)
(* frame's destination up, forwards or floods it, and only then learns its *)
(* source; the sweeper forgets stations that were silent for too long.     *)
(* Stations are plugged into interfaces and may be moved.                  *)
(*                                                                         *)
(* The hash table is a set of entries.  The sweeper reads the time before  *)
(* it takes the lock: it is left with the stations whose stamp was too old *)
(* at that moment and has not been renewed since.                          *)
(***************************************************************************)
EXTENDS Naturals

CONSTANTS
  Iface,      \* the switch's interfaces
  Station,    \* MAC addresses that send frames
  Unheard,    \* destination addresses that never do, such as the broadcast one
  None,       \* a NULL interface, or no frame
  Timeout     \* MAC_PORT_TIMEOUT

\* What the receive loop needs of an Ethernet frame and where it came in.
Frame == [src : Station, dst : Station \cup Unheard, in : Iface]

ASSUME MacAssumption ==
  /\ Iface # {}
  /\ None \notin Iface \cup Frame
  /\ Station \cap Unheard = {}
  /\ Timeout \in Nat \ {0}

VARIABLES
  table,     \* mac_port_map, the entries of all buckets
  frame,     \* the frame the receive loop is handling, or None
  step,      \* what the receive loop does next
  pos,       \* the interface in the block that lookup_port found, or None
  target,    \* dst_iface
  slept,     \* the sweeper's sleep(1) is over
  sweeping,  \* the sweeper has read the time and not yet swept
  aged,      \* entries that are too old for the time it has read
  at,        \* where each station is plugged in
  heard,     \* where each station was when the switch last learned it
  out        \* where the frame has been sent

macVars == <<table, frame, step, pos, target, slept, sweeping, aged, at, heard, out>>
loopVars == <<frame, step, pos, target, out>>
sweepVars == <<slept, sweeping, aged>>

\* Ages are counted up to the first that is too old.
Entry == [mac : Station, iface : Iface, age : 0..Timeout]

\* The type invariant.
MacTypeOK ==
  /\ table \subseteq Entry
  /\ frame \in Frame \cup {None}
  /\ step \in {"receive", "read", "forward", "learn"}
  /\ frame = None <=> step = "receive"
  /\ pos \in Iface \cup {None}
  /\ pos = None <=> step # "read"
  /\ target \in Iface \cup {None}
  /\ slept \in BOOLEAN
  /\ sweeping \in BOOLEAN
  /\ aged \subseteq Station
  /\ at \in [Station -> Iface]
  /\ heard \in [Station -> Iface \cup {None}]
  /\ out \subseteq Iface

MacInit ==
  /\ table = {}
  /\ frame = None
  /\ step = "receive"
  /\ pos = None
  /\ target = None
  /\ slept = FALSE
  /\ sweeping = FALSE
  /\ aged = {}
  /\ at \in [Station -> Iface]
  /\ heard = [s \in Station |-> None]
  /\ out = {}

EntriesFor(mac) == {e \in table : e.mac = mac}

-----------------------------------------------------------------------------
(***************************************************************************)
(* handle_packet: two critical sections, of the lookup and the learning,   *)
(* and between them the reading of what was found and the sending.         *)
(***************************************************************************)

\* lookup_port, up to the unlock
Lookup(src, dst) ==
  /\ step = "receive"
  /\ src # dst
  /\ frame' = [src |-> src, dst |-> dst, in |-> at[src]]
  /\ \/ /\ \E e \in EntriesFor(dst) : pos' = e.iface
        /\ step' = "read"
        /\ UNCHANGED target
     \/ /\ EntriesFor(dst) = {}
        /\ step' = "forward"
        /\ target' = None
        /\ UNCHANGED pos
  /\ out' = {}
  /\ UNCHANGED <<table, sweepVars, at, heard>>

\* pos->iface, read after the unlock.  The sweeper may have freed the block by
\* now: free() overwrites its first words, the list links, and no other; only
\* this thread allocates blocks or changes an interface, and not before it learns.
ReadIface ==
  /\ step = "read"
  /\ target' = pos
  /\ pos' = None
  /\ step' = "forward"
  /\ UNCHANGED <<table, frame, out, sweepVars, at, heard>>

\* Mutated form: the frame also goes back where it came from.
BroadcastAll(in) == Iface

\* broadcast_packet: every interface but the one the frame came from.
Broadcast(in) == Iface \ {in}

Forward ==
  /\ step = "forward"
  /\ out' = IF target # None THEN {target} ELSE Broadcast(frame.in)
  /\ step' = "learn"
  /\ UNCHANGED <<table, frame, pos, target, sweepVars, at, heard>>

\* Mutated form: a known station keeps its interface.
InsertMacPortKeeping(mac, iface) ==
  \/ \E e \in EntriesFor(mac) :
       table' = (table \ {e}) \cup {[mac |-> mac, iface |-> e.iface, age |-> 0]}
  \/ /\ EntriesFor(mac) = {}
     /\ table' = table \cup {[mac |-> mac, iface |-> iface, age |-> 0]}

\* insert_mac_port: the first entry found is moved and its age reset, or a new
\* one is added.
InsertMacPort(mac, iface) ==
  \/ \E e \in EntriesFor(mac) :
       table' = (table \ {e}) \cup {[mac |-> mac, iface |-> iface, age |-> 0]}
  \/ /\ EntriesFor(mac) = {}
     /\ table' = table \cup {[mac |-> mac, iface |-> iface, age |-> 0]}

\* Mutated form: the sweeper does not look at the stamp again.
StillAgedIgnored(mac) == aged

\* A renewed stamp is later than the time the sweeper has read.
StillAged(mac) == aged \ {mac}

\* Mutated form: the packet is not released.
ReleaseNot == step' = "receive" /\ UNCHANGED frame

\* handle_packet releases the packet and returns to the receive loop.
Release == step' = "receive" /\ frame' = None

Learn ==
  /\ step = "learn"
  /\ InsertMacPort(frame.src, frame.in)
  /\ aged' = StillAged(frame.src)
  /\ heard' = [heard EXCEPT ![frame.src] = frame.in]
  /\ Release
  /\ UNCHANGED <<pos, target, out, slept, sweeping, at>>

-----------------------------------------------------------------------------
(***************************************************************************)
(* sweep_aged_mac_port_entry, in two steps, and the surroundings.          *)
(***************************************************************************)
ReadTime ==
  /\ slept /\ ~sweeping
  /\ sweeping' = TRUE
  /\ slept' = FALSE
  /\ aged' = {e.mac : e \in {e \in table : e.age >= Timeout}}
  /\ UNCHANGED <<table, loopVars, at, heard>>

\* Mutated form: nothing is removed.
SweptNothing == table

Swept == {e \in table : e.mac \notin aged}

Sweep ==
  /\ sweeping
  /\ table' = Swept
  /\ sweeping' = FALSE
  /\ aged' = {}
  /\ UNCHANGED <<slept, loopVars, at, heard>>

\* A second passes; sleep(1) does not return before one has.
Tick ==
  /\ table' = {IF e.age < Timeout THEN [e EXCEPT !.age = @ + 1] ELSE e : e \in table}
  /\ slept' = TRUE
  /\ UNCHANGED <<sweeping, aged, loopVars, at, heard>>

\* A station is plugged in elsewhere.
Move(s, i) ==
  /\ at[s] # i
  /\ at' = [at EXCEPT ![s] = i]
  /\ UNCHANGED <<table, loopVars, sweepVars, heard>>

MacNext ==
  \/ \E src \in Station, dst \in Station \cup Unheard : Lookup(src, dst)
  \/ ReadIface
  \/ Forward
  \/ Learn
  \/ ReadTime
  \/ Sweep
  \/ Tick
  \/ \E s \in Station, i \in Iface : Move(s, i)

MacSpec == MacInit /\ [][MacNext]_macVars

\* Neither thread waits for anything but the lock; time passes.
FairSpec ==
  /\ MacSpec
  /\ WF_macVars(ReadIface) /\ WF_macVars(Forward) /\ WF_macVars(Learn)
  /\ WF_macVars(ReadTime) /\ WF_macVars(Sweep) /\ WF_macVars(Tick)

-----------------------------------------------------------------------------
(***************************************************************************)
(* Properties.                                                             *)
(***************************************************************************)

\* The table has at most one entry for a station, and it names the interface
\* where the station was last learned, wherever it was before.
EntryIsLastHeard ==
  /\ \A e \in table : e.iface = heard[e.mac]
  /\ \A e, f \in table : e.mac = f.mac => e = f

\* A frame goes to the interface where its destination was last heard, unless
\* it came from there; and it goes back to where it came from only when its
\* destination was last heard there: a sweep between any two steps of
\* handle_packet, the reading of a freed entry among them, cannot lose it or
\* send it astray.
SentWhereHeard ==
  step = "learn" =>
    /\ frame.dst \in Station /\ heard[frame.dst] # None
         => heard[frame.dst] \in out \cup {frame.in}
    /\ frame.in \in out => frame.dst \in Station /\ heard[frame.dst] = frame.in

\* An entry is removed only after a silence of MAC_PORT_TIMEOUT, although the
\* sweeper may wait for the lock while the station is heard again.
RemovedOnlyWhenOld ==
  [][\A e \in table : e.age < Timeout => \E f \in table' : f.mac = e.mac]_table

\* A station that says nothing any more is forgotten in the end, after which
\* frames for it are flooded, so that it is reached wherever it is plugged in.
SilentForgotten ==
  \A s \in Station :
    <>[](frame = None \/ frame.src # s) => <>[](EntriesFor(s) = {})

=============================================================================
