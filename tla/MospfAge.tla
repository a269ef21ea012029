------------------------------ MODULE MospfAge ------------------------------
(***************************************************************************)
(* The advertisements of one mOSPF router, the origin, in time: its        *)
(* process ends and starts again with sequence number 0, its 16-bit        *)
(* numbers wrap, and its neighbours keep refusing numbers that are not     *)
(* greater until what they have is too old.  All routers are neighbours of *)
(* one another; time passes in units of a few seconds, and within a unit   *)
(* hellos and advertisements arrive, waiting threads wake and each         *)
(* database is aged once, in any order.                                    *)
(***************************************************************************)
EXTENDS Naturals

CONSTANTS
  Origin,      \* the router whose advertisements are followed
  Peer,        \* the others
  LsuInt,      \* MOSPF_DEFAULT_LSUINT, in units
  DbTimeout,   \* MOSPF_DATABASE_TIMEOUT, in units
  SeqMod,      \* sequence numbers wrap here: 2^16
  NoEntry,     \* what a database says of an origin it does not list
  MaxRun,      \* bound of the model: how often the origin's process ends
  MaxLoss      \* bound of the model: advertisements that get lost

Router == Peer \cup {Origin}

\* What the origin advertises: its neighbours; run is the process that did.
Advert == [run : 0..MaxRun, nbrs : SUBSET Peer]

Entry == [seq : 0..SeqMod - 1, adv : Advert, age : 0..DbTimeout - 1]

\* A unit is short enough that an entry is not too old before its renewal.
ASSUME AgeAssumption ==
  /\ Origin \notin Peer
  /\ LsuInt \in Nat \ {0} /\ DbTimeout \in Nat /\ LsuInt + 1 < DbTimeout
  /\ SeqMod \in Nat \ {0}
  /\ NoEntry \notin Entry
  /\ MaxRun \in Nat /\ MaxLoss \in Nat

VARIABLES
  run,        \* the number of the origin's process
  up,         \* whether it runs
  nbrs,       \* its neighbour lists
  seq,        \* its sequence_num
  waiting,    \* whether its sending thread has begun to wait
  elapsed,    \* how long it waits
  signalled,  \* whether it was woken
  db,         \* what each router's database says of the origin
  computed,   \* the own entry from which the origin's routes were computed last
  heard,      \* how long ago it took an advertisement of another router
  net,        \* advertisements on their way
  due,        \* routers that have still to age their database in this unit
  calm,       \* history: time since a restart, a wrap or a loss
  losses      \* how many there were

originVars == <<run, up, nbrs, seq, waiting, elapsed, signalled, computed, heard>>
ageVars == <<originVars, db, net, due, calm, losses>>

\* The time within which everything is to be known again.
Recovery == DbTimeout + LsuInt
Settled  == Recovery + LsuInt

\* mospf_init
AgeInit ==
  /\ run = 0 /\ up = TRUE /\ nbrs = {} /\ seq = 0
  /\ waiting = FALSE /\ elapsed = 0 /\ signalled = FALSE
  /\ db = [q \in Router |-> NoEntry]
  /\ computed = NoEntry /\ heard = 0
  /\ net = {} /\ due = {}
  /\ calm = 0 /\ losses = 0

Current == [run |-> run, nbrs |-> nbrs]

-----------------------------------------------------------------------------
(***************************************************************************)
(* The origin's process.                                                   *)
(***************************************************************************)

\* It ends; what it knew is gone, what it sent is still on its way.
Stop ==
  /\ up /\ run < MaxRun
  /\ up' = FALSE
  /\ nbrs' = {} /\ waiting' = FALSE /\ signalled' = FALSE /\ computed' = NoEntry
  /\ db' = [db EXCEPT ![Origin] = NoEntry]
  /\ due' = due \ {Origin}
  /\ UNCHANGED <<run, seq, elapsed, heard, net, calm, losses>>

\* mospf_init in a new process
Start ==
  /\ ~up
  /\ up' = TRUE /\ run' = run + 1
  /\ seq' = 0 /\ elapsed' = 0 /\ heard' = 0
  /\ calm' = 0
  /\ UNCHANGED <<nbrs, waiting, signalled, computed, db, net, due, losses>>

\* handle_mospf_hello for a neighbour that is not in the list.  The signal is
\* lost when the sending thread does not wait yet.
Hello(p) ==
  /\ up /\ p \in Peer \ nbrs
  /\ nbrs' = nbrs \cup {p}
  /\ signalled' = waiting
  /\ UNCHANGED <<run, up, seq, waiting, elapsed, computed, heard, db, net, due, calm, losses>>

\* The first pthread_cond_timedwait of sending_mospf_lsu_thread.  It holds
\* mospf_lock from there on whenever it does not wait.
BeginWait ==
  /\ up /\ ~waiting
  /\ waiting' = TRUE
  /\ UNCHANGED <<run, up, nbrs, seq, elapsed, signalled, computed, heard,
                 db, net, due, calm, losses>>

-----------------------------------------------------------------------------
(***************************************************************************)
(* Databases.                                                              *)
(***************************************************************************)

\* update_mospf_db takes what it does not know, or what is newer.
Newer(entry, s) == entry = NoEntry \/ s > entry.seq

Stored(q, m) ==
  [db EXCEPT ![q] = IF Newer(@, m.seq) THEN [seq |-> m.seq, adv |-> m.adv, age |-> 0] ELSE @]

\* Mutated form: databases keep what they have.
TooOldNever(entry) == FALSE

TooOld(entry) == entry.age + 1 = DbTimeout

Aged(entry) ==
  IF entry = NoEntry \/ TooOld(entry) THEN NoEntry ELSE [entry EXCEPT !.age = @ + 1]

\* A round of checking_database_thread.  When the own entry goes,
\* update_routing_table_from_database finds no source and leaves the table.
AgeDatabase(q) ==
  /\ q \in due
  /\ due' = due \ {q}
  /\ db' = [db EXCEPT ![q] = Aged(@)]
  /\ UNCHANGED <<originVars, net, calm, losses>>

\* Mutated form: the routes keep to the database they were computed from.
RoutesFromNot(entry) == computed

\* update_routing_table_from_database, as far as the own entry is concerned
RoutesFrom(entry) == IF entry = NoEntry THEN computed ELSE entry.adv

-----------------------------------------------------------------------------
(***************************************************************************)
(* Advertisements.                                                         *)
(***************************************************************************)
SendTo(m, from, tos) ==
  {[seq |-> m.seq, adv |-> m.adv, from |-> from, to |-> p] : p \in tos}

SendDue == signalled \/ elapsed >= LsuInt

\* A round of sending_mospf_lsu_thread.  Its own database may refuse the number
\* as well, and the table is not computed again.
SendLsu ==
  LET m == [seq |-> seq, adv |-> Current]
  IN  /\ up /\ waiting /\ SendDue
      /\ db' = Stored(Origin, m)
      /\ net' = net \cup SendTo(m, Origin, nbrs)
      /\ seq' = (seq + 1) % SeqMod
      /\ calm' = IF seq' = 0 THEN 0 ELSE calm
      /\ elapsed' = 0 /\ signalled' = FALSE
      /\ UNCHANGED <<run, up, nbrs, waiting, computed, heard, due, losses>>

\* handle_mospf_lsu; the origin may meet an advertisement of its earlier self.
ReceiveLsu(m) ==
  /\ IF m.to = Origin /\ ~up
     THEN net' = net \ {m} /\ UNCHANGED <<db, computed>>
     ELSE /\ db' = Stored(m.to, m)
          /\ net' = (net \ {m}) \cup
               (IF ~Newer(db[m.to], m.seq) THEN {}
                ELSE SendTo(m, m.to, (IF m.to = Origin THEN nbrs ELSE Router)
                                       \ {m.to, m.from}))
          /\ computed' = IF m.to = Origin /\ Newer(db[Origin], m.seq)
                         THEN RoutesFrom(db'[Origin]) ELSE computed
  /\ UNCHANGED <<run, up, nbrs, seq, waiting, elapsed, signalled, heard, due, calm, losses>>

LoseLsu(m) ==
  /\ losses < MaxLoss
  /\ net' = net \ {m}
  /\ losses' = losses + 1
  /\ calm' = 0
  /\ UNCHANGED <<originVars, db, due>>

\* The origin takes an advertisement of another router that is newer.
ReceiveOther ==
  /\ up /\ nbrs # {} /\ heard > 0
  /\ heard' = 0
  /\ computed' = RoutesFrom(db[Origin])
  /\ UNCHANGED <<run, up, nbrs, seq, waiting, elapsed, signalled, db, net, due, calm, losses>>

-----------------------------------------------------------------------------
\* A unit is over: hellos come more often than once in a unit and packets take
\* less, threads that started or were woken have run, and a neighbour's own advertisements come
\* every LsuInt.
Tick ==
  /\ due = {} /\ net = {}
  /\ up => nbrs = Peer /\ waiting /\ ~SendDue /\ heard < LsuInt
  /\ due' = IF up THEN Router ELSE Peer
  /\ elapsed' = IF up THEN elapsed + 1 ELSE elapsed
  /\ heard' = IF up THEN heard + 1 ELSE heard
  /\ calm' = IF calm < Settled THEN calm + 1 ELSE calm
  /\ UNCHANGED <<run, up, nbrs, seq, waiting, signalled, computed, db, net, losses>>

AgeNext ==
  \/ Stop \/ Start
  \/ \E p \in Peer : Hello(p)
  \/ BeginWait
  \/ \E q \in Router : AgeDatabase(q)
  \/ SendLsu
  \/ \E m \in net : ReceiveLsu(m) \/ LoseLsu(m)
  \/ ReceiveOther
  \/ Tick

AgeSpec == AgeInit /\ [][AgeNext]_ageVars

-----------------------------------------------------------------------------
(***************************************************************************)
(* Properties.                                                             *)
(***************************************************************************)

\* However the origin's numbers went back, by a restart or a wrap, and whatever
\* was lost: DbTimeout + LsuInt later every database, the own one included,
\* says what the origin advertises now, and goes on saying so.
KnownAgain ==
  up /\ calm > Recovery =>
    \A q \in Router : db[q] # NoEntry /\ db[q].adv = Current

\* Though its own changes do not make the origin compute its routes, they are
\* computed from its present neighbours an advertisement interval later.
TableFollows == up /\ calm > Settled - 1 => computed = Current

=============================================================================
