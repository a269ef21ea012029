-------------------------------- MODULE Mospf --------------------------------
(***************************************************************************)
(* The mOSPF daemons of 09-mospf on the routers of a network: neighbours   *)
(* are found by hellos and lost by silence, every router floods what it    *)
(* advertises, and databases forget what is not renewed.  Each handler and *)
(* each round of a thread runs under mospf_lock and is one step.           *)
(*                                                                         *)
(* An advertisement is the set of neighbours; the networks do not change.  *)
(* Timers are abstract: a timer may fire at any time, except that a        *)
(* router's own entry does not age out (renewed every MOSPF_DEFAULT_LSUINT *)
(* seconds, it never gets MOSPF_DATABASE_TIMEOUT seconds old).  What is    *)
(* computed from the databases is in MospfRoutes.                          *)
(***************************************************************************)
EXTENDS Naturals, Sequences

CONSTANTS
  Router,      \* routers, which are their own identities
  Cables,      \* the pairs of routers that are connected
  MaxTtl,      \* MOSPF_MAX_LSU_TTL
  NoEntry,     \* what the database says of a router it does not list
  MaxSend,     \* bound of the model: how often each router advertises
  MaxTrouble   \* bound of the model: losses and timeouts

\* u16 seq
MaxSeq == 65535
SeqNum == 0..MaxSeq

\* mospf_db_entry_t
Entry == [seq : SeqNum, adv : SUBSET Router]

ASSUME MospfAssumption ==
  /\ NoEntry \notin Entry
  /\ Cables \subseteq {{q, s} : q, s \in Router}
  /\ \A q \in Router : {q} \notin Cables
  /\ MaxTtl \in Nat \ {0}
  /\ MaxSend \in [Router -> SeqNum]
  /\ MaxTrouble \in Nat

VARIABLES
  nbrs,      \* the neighbour lists of each router's interfaces
  lsuThread, \* where the sending thread is
  db,        \* mospf_db
  net,       \* advertisements on their way
  sent,      \* what each router has advertised, in order
  calm,      \* history: nothing was lost or timed out, and no neighbour came
             \* late, so far
  trouble    \* how often something was lost or timed out

mospfVars == <<nbrs, lsuThread, db, net, sent, calm, trouble>>

Peers(q) == {s \in Router : {q, s} \in Cables}

Lsu == [origin : Router, seq : SeqNum, adv : SUBSET Router, ttl : 1..MaxTtl,
        from : Router, to : Router]

\* The type invariant.
MospfTypeOK ==
  /\ nbrs \in [Router -> SUBSET Router]
  /\ \A q \in Router : nbrs[q] \subseteq Peers(q)
  /\ lsuThread \in [Router -> {"starting", "waiting", "woken"}]
  /\ db \in [Router -> [Router -> Entry \cup {NoEntry}]]
  /\ net \subseteq Lsu
  /\ sent \in [Router -> Seq(SUBSET Router)]
  /\ \A q \in Router : Len(sent[q]) <= MaxSend[q]
  /\ calm \in BOOLEAN
  /\ trouble \in 0..MaxTrouble

\* mospf_init
MospfInit ==
  /\ nbrs = [q \in Router |-> {}]
  /\ lsuThread = [q \in Router |-> "starting"]
  /\ db = [q \in Router |-> [o \in Router |-> NoEntry]]
  /\ net = {}
  /\ sent = [q \in Router |-> <<>>]
  /\ calm = TRUE
  /\ trouble = 0

-----------------------------------------------------------------------------
(***************************************************************************)
(* Neighbours.                                                             *)
(***************************************************************************)

\* Mutated form: the thread is left to its timeout.
SignalledNot(q) == lsuThread

\* pthread_cond_signal: it wakes the thread that waits, and is lost otherwise.
Signalled(q) == [lsuThread EXCEPT ![q] = IF @ = "waiting" THEN "woken" ELSE @]

\* handle_mospf_hello for a neighbour that is not in the list yet.  For the
\* others only the age is reset.
Hello(q, s) ==
  /\ s \in Peers(q) \ nbrs[q]
  /\ nbrs' = [nbrs EXCEPT ![q] = @ \cup {s}]
  /\ lsuThread' = Signalled(q)
  /\ calm' = (calm /\ \A o \in Router : db[q][o] = NoEntry)
  /\ UNCHANGED <<db, net, sent, trouble>>

Trouble ==
  /\ trouble < MaxTrouble
  /\ trouble' = trouble + 1
  /\ calm' = FALSE

\* A round of checking_nbr_thread that finds some too old.
NbrTimeout(q, silent) ==
  /\ silent # {} /\ silent \subseteq nbrs[q]
  /\ nbrs' = [nbrs EXCEPT ![q] = @ \ silent]
  /\ lsuThread' = Signalled(q)
  /\ Trouble
  /\ UNCHANGED <<db, net, sent>>

-----------------------------------------------------------------------------
(***************************************************************************)
(* Advertisements.                                                         *)
(***************************************************************************)

\* Mutated form: whatever arrives is accepted.
NewerAlways(entry, seq) == TRUE

\* update_mospf_db takes what it does not know, or what is newer.
Newer(entry, seq) == entry = NoEntry \/ seq > entry.seq

\* send_mospf_lsu_msg: to every neighbour but those on the interface ignore.
SendTo(msg, q, ignore, ttl) ==
  {[origin |-> msg.origin, seq |-> msg.seq, adv |-> msg.adv, ttl |-> ttl,
    from |-> q, to |-> s] : s \in nbrs[q] \ {ignore}}

\* Mutated form: nothing is passed on.
PassedOnNot(m) == {}

\* Mutated form: the time to live is not looked at.
PassedOnAlways(m) == SendTo(m, m.to, m.from, m.ttl - 1)

\* To all neighbours except the one it came from, unless its time to live is
\* over.
PassedOn(m) == IF m.ttl > 1 THEN SendTo(m, m.to, m.from, m.ttl - 1) ELSE {}

\* Mutated form: rounds are not counted.
SequenceNumStuck(q) == 0

\* instance->sequence_num counts the rounds.
SequenceNum(q) == Len(sent[q])

\* The sending thread gets to wait for a signal or the timeout.
StartLsuThread(q) ==
  /\ lsuThread[q] = "starting"
  /\ lsuThread' = [lsuThread EXCEPT ![q] = "waiting"]
  /\ UNCHANGED <<nbrs, db, net, sent, calm, trouble>>

\* A round of sending_mospf_lsu_thread, woken or after the timeout.
SendLsu(q) ==
  LET seq == SequenceNum(q)
      msg == [origin |-> q, seq |-> seq, adv |-> nbrs[q]]
  IN  /\ lsuThread[q] # "starting"
      /\ Len(sent[q]) < MaxSend[q]
      /\ db' = IF Newer(db[q][q], seq)
               THEN [db EXCEPT ![q][q] = [seq |-> seq, adv |-> nbrs[q]]] ELSE db
      /\ net' = net \cup SendTo(msg, q, q, MaxTtl)
      /\ sent' = [sent EXCEPT ![q] = Append(@, nbrs[q])]
      /\ lsuThread' = [lsuThread EXCEPT ![q] = "waiting"]
      /\ UNCHANGED <<nbrs, calm, trouble>>

\* handle_mospf_lsu: what is newer is stored and passed on.
ReceiveLsu(m) ==
  /\ IF Newer(db[m.to][m.origin], m.seq)
     THEN /\ db' = [db EXCEPT ![m.to][m.origin] = [seq |-> m.seq, adv |-> m.adv]]
          /\ net' = (net \ {m}) \cup PassedOn(m)
     ELSE /\ net' = net \ {m}
          /\ UNCHANGED db
  /\ UNCHANGED <<nbrs, lsuThread, sent, calm, trouble>>

\* Advertisements are IP packets that ip_send_packet routes to one interface of
\* a neighbour.  On any other interface handle_ip_packet only forwards them, so
\* a table that lags behind may delay one or lose it, and no more.
LoseLsu(m) ==
  /\ net' = net \ {m}
  /\ Trouble
  /\ UNCHANGED <<nbrs, lsuThread, db, sent>>

\* check_mospf_db_timeout
DbTimeout(q, old) ==
  /\ old # {} /\ q \notin old
  /\ \A o \in old : db[q][o] # NoEntry
  /\ db' = [db EXCEPT ![q] = [o \in Router |-> IF o \in old THEN NoEntry ELSE @[o]]]
  /\ Trouble
  /\ UNCHANGED <<nbrs, lsuThread, net, sent>>

MospfNext ==
  \/ \E q, s \in Router : Hello(q, s)
  \/ \E q \in Router : \E silent \in SUBSET nbrs[q] : NbrTimeout(q, silent)
  \/ \E q \in Router : StartLsuThread(q)
  \/ \E q \in Router : SendLsu(q)
  \/ \E m \in net : ReceiveLsu(m) \/ LoseLsu(m)
  \/ \E q \in Router : \E old \in SUBSET Router : DbTimeout(q, old)

MospfSpec == MospfInit /\ [][MospfNext]_mospfVars

-----------------------------------------------------------------------------
(***************************************************************************)
(* Properties.                                                             *)
(***************************************************************************)

\* The number of the advertisement a database holds, from 1; 0 for none.
Version(q, o) == IF db[q][o] = NoEntry THEN 0 ELSE db[q][o].seq + 1

\* What databases hold and what travels was advertised under that number by
\* the router it names: a number never stands for two contents.
EntriesGenuine ==
  /\ \A q, o \in Router :
       db[q][o] # NoEntry =>
         Version(q, o) \in DOMAIN sent[o] /\ db[q][o].adv = sent[o][Version(q, o)]
  /\ \A m \in net : m.seq + 1 \in DOMAIN sent[m.origin] /\ m.adv = sent[m.origin][m.seq + 1]

\* When a router's neighbours are not those it has advertised last, its sending
\* thread has been woken: no signal of a change is lost once it has begun.
ChangesAnnounced ==
  \A q \in Router :
    sent[q] # <<>> /\ sent[q][Len(sent[q])] # nbrs[q] => lsuThread[q] = "woken"

\* Unless something was lost, timed out or came late, a neighbour has what a router
\* has, or it is on its way: flooding past the interface an advertisement came from
\* leaves nobody out, in whatever order they arrive.
FloodCovers ==
  calm => \A q, o \in Router : \A s \in nbrs[q] :
            \/ Version(q, o) <= Version(s, o)
            \/ \E m \in net : m.to = s /\ m.origin = o /\ m.seq + 1 >= Version(q, o)

Copies == [q \in Router |-> [o \in Router |-> Version(q, o)]]

\* The databases are copies in the sense of LinkState.
Flooding == INSTANCE LinkState WITH
  Node <- Router,
  Content <- SUBSET Router,
  log <- sent,
  copy <- Copies

\* They never go back, except by forgetting, and a router's own entry is what
\* it has advertised last, whatever echo of it comes around a cycle.
FloodingSpec == Flooding!LinkSpec

=============================================================================
