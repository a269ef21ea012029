------------------------------ MODULE AgeProofs ------------------------------
(***************************************************************************)
(* Proofs about the advertisements of one mOSPF router in time, for any    *)
(* number of neighbours, restarts, wraps and losses and for all intervals  *)
(* that satisfy the assumption of MospfAge.                                *)
(***************************************************************************)
EXTENDS MospfAge, Integers, TLAPS

-----------------------------------------------------------------------------
(***************************************************************************)
(* Types.                                                                  *)
(***************************************************************************)

Lsu == [seq : 0..SeqMod - 1, adv : Advert, from : Router, to : Router]

AgeTypeOK ==
  /\ run \in 0..MaxRun /\ up \in BOOLEAN /\ (~up => run < MaxRun)
  /\ nbrs \subseteq Peer
  /\ seq \in 0..SeqMod - 1 /\ elapsed \in Nat
  /\ waiting \in BOOLEAN /\ signalled \in BOOLEAN
  /\ db \in [Router -> Entry \cup {NoEntry}]
  /\ computed \in Advert \cup {NoEntry} /\ heard \in Nat
  /\ net \subseteq Lsu /\ due \subseteq Router
  /\ calm \in 0..Settled /\ losses \in Nat

\* The figures that follow from the intervals.
LEMMA Figures ==
  /\ LsuInt \in Nat /\ LsuInt >= 1 /\ DbTimeout \in Nat /\ DbTimeout > LsuInt + 1
  /\ Recovery \in Nat /\ Recovery = DbTimeout + LsuInt
  /\ Settled \in Nat /\ Settled = DbTimeout + LsuInt + LsuInt
BY AgeAssumption DEF Recovery, Settled

\* A sequence number is followed by the next one or, at the end, by 0.
LEMMA NextNumber ==
  ASSUME NEW n \in 0..SeqMod - 1
  PROVE  /\ (n + 1) % SeqMod \in 0..SeqMod - 1
         /\ (n + 1) % SeqMod = 0 \/ (n + 1) % SeqMod = n + 1
<1>1. CASE n + 1 < SeqMod
  BY <1>1, AgeAssumption
<1>2. CASE n + 1 = SeqMod
  BY <1>2, AgeAssumption
<1> QED BY <1>1, <1>2, AgeAssumption

\* What the origin advertises is an advertisement.
LEMMA CurrentIsAdvert ==
  ASSUME AgeTypeOK
  PROVE  Current \in Advert
BY DEF AgeTypeOK, Current, Advert

\* Packets that are sent on are packets.
LEMMA SentAreLsus ==
  ASSUME NEW m, m.seq \in 0..SeqMod - 1, m.adv \in Advert,
         NEW from \in Router, NEW tos \in SUBSET Router
  PROVE  SendTo(m, from, tos) \subseteq Lsu
BY DEF SendTo, Lsu

\* A database that stores an advertisement is a database.
LEMMA StoredIsDatabase ==
  ASSUME AgeTypeOK, NEW q \in Router,
         NEW m, m.seq \in 0..SeqMod - 1, m.adv \in Advert
  PROVE  Stored(q, m) \in [Router -> Entry \cup {NoEntry}]
<1>1. [seq |-> m.seq, adv |-> m.adv, age |-> 0] \in Entry
  BY AgeAssumption DEF Entry
<1> QED BY <1>1 DEF Stored, AgeTypeOK

\* What a database holds after an advertisement came.
LEMMA StoredAt ==
  ASSUME AgeTypeOK, NEW q \in Router, NEW r \in Router, NEW m
  PROVE  Stored(q, m)[r] =
           IF r = q /\ Newer(db[q], m.seq)
           THEN [seq |-> m.seq, adv |-> m.adv, age |-> 0] ELSE db[r]
BY DEF Stored, AgeTypeOK

LEMMA TypeInit == AgeInit => AgeTypeOK
<1> SUFFICES ASSUME AgeInit PROVE AgeTypeOK
  OBVIOUS
<1>1. /\ run \in 0..MaxRun /\ seq \in 0..SeqMod - 1 /\ elapsed \in Nat
      /\ heard \in Nat /\ calm \in 0..Settled /\ losses \in Nat
  BY AgeAssumption, Figures DEF AgeInit
<1>2. db \in [Router -> Entry \cup {NoEntry}]
  BY DEF AgeInit
<1>3. up /\ waiting \in BOOLEAN /\ signalled \in BOOLEAN
  BY DEF AgeInit
<1>4. nbrs \subseteq Peer /\ net \subseteq Lsu /\ due \subseteq Router
      /\ computed \in Advert \cup {NoEntry}
  BY DEF AgeInit
<1> QED BY <1>1, <1>2, <1>3, <1>4 DEF AgeTypeOK

\* Every action keeps the types.
LEMMA TypeStep ==
  ASSUME AgeTypeOK, [AgeNext]_ageVars
  PROVE  AgeTypeOK'
<1> USE Figures
<1>1. CASE Stop
  BY <1>1, AgeAssumption DEF Stop, AgeTypeOK, Router
<1>2. CASE Start
  BY <1>2, AgeAssumption DEF Start, AgeTypeOK
<1>3. ASSUME NEW p \in Peer, Hello(p) PROVE AgeTypeOK'
  BY <1>3 DEF Hello, AgeTypeOK
<1>4. ASSUME NEW q \in Router, AgeDatabase(q) PROVE AgeTypeOK'
  <2>1. Aged(db[q]) \in Entry \cup {NoEntry}
    <3> SUFFICES ASSUME db[q] # NoEntry, ~TooOld(db[q])
                 PROVE  [db[q] EXCEPT !.age = @ + 1] \in Entry
      BY DEF Aged
    <3>1. db[q] \in Entry
      BY DEF AgeTypeOK
    <3>2. db[q].age + 1 \in 0..DbTimeout - 1
      BY <3>1 DEF Entry, TooOld
    <3> QED BY <3>1, <3>2 DEF Entry
  <2>2. db' \in [Router -> Entry \cup {NoEntry}]
    BY <1>4, <2>1 DEF AgeDatabase, AgeTypeOK
  <2> QED BY <1>4, <2>2 DEF AgeDatabase, AgeTypeOK, originVars
<1>5. CASE SendLsu
  <2> DEFINE m == [seq |-> seq, adv |-> Current]
  <2>1. m.seq \in 0..SeqMod - 1 /\ m.adv \in Advert /\ Origin \in Router /\ nbrs \in SUBSET Router
    BY CurrentIsAdvert DEF AgeTypeOK, Router
  <2>2. db' \in [Router -> Entry \cup {NoEntry}]
    <3>1. db' = Stored(Origin, m)
      BY <1>5 DEF SendLsu
    <3> QED BY <2>1, <3>1, StoredIsDatabase
  <2>3. net' \subseteq Lsu
    <3>1. net' = net \cup SendTo(m, Origin, nbrs)
      BY <1>5 DEF SendLsu
    <3>2. SendTo(m, Origin, nbrs) \subseteq Lsu
      BY <2>1, SentAreLsus
    <3> QED BY <3>1, <3>2 DEF AgeTypeOK
  <2>4. seq' \in 0..SeqMod - 1
    BY <1>5, NextNumber DEF SendLsu, AgeTypeOK
  <2>5. calm' \in 0..Settled
    BY <1>5 DEF SendLsu, AgeTypeOK
  <2> QED BY <1>5, <2>2, <2>3, <2>4, <2>5 DEF SendLsu, AgeTypeOK
<1>6. ASSUME NEW m \in net, ReceiveLsu(m) PROVE AgeTypeOK'
  <2>1. /\ m.seq \in 0..SeqMod - 1 /\ m.adv \in Advert
        /\ m.from \in Router /\ m.to \in Router
    BY DEF AgeTypeOK, Lsu
  <2>2. db' \in [Router -> Entry \cup {NoEntry}]
    <3>1. db' = db \/ db' = Stored(m.to, m)
      BY <1>6 DEF ReceiveLsu
    <3> QED BY <2>1, <3>1, StoredIsDatabase DEF AgeTypeOK
  <2>3. net' \subseteq Lsu
    <3> DEFINE tos == (IF m.to = Origin THEN nbrs ELSE Router) \ {m.to, m.from}
    <3>1. tos \in SUBSET Router
      BY DEF AgeTypeOK, Router
    <3>2. SendTo(m, m.to, tos) \subseteq Lsu
      BY <2>1, <3>1, SentAreLsus
    <3>3. net' \subseteq net \cup SendTo(m, m.to, tos)
      BY <1>6 DEF ReceiveLsu
    <3> HIDE DEF tos
    <3> QED BY <3>2, <3>3 DEF AgeTypeOK
  <2>4. computed' \in Advert \cup {NoEntry}
    <3>1. \/ computed' = computed
          \/ db'[Origin] # NoEntry /\ computed' = db'[Origin].adv
      BY <1>6 DEF ReceiveLsu, RoutesFrom
    <3>2. db'[Origin] # NoEntry => db'[Origin].adv \in Advert
      BY <2>2 DEF Router, Entry
    <3> QED BY <3>1, <3>2 DEF AgeTypeOK
  <2> QED BY <1>6, <2>2, <2>3, <2>4 DEF ReceiveLsu, AgeTypeOK
<1>7. ASSUME NEW m \in net, LoseLsu(m) PROVE AgeTypeOK'
  BY <1>7 DEF LoseLsu, AgeTypeOK, originVars
<1>8. CASE ReceiveOther
  <2>1. db[Origin] # NoEntry => db[Origin].adv \in Advert
    BY DEF AgeTypeOK, Router, Entry
  <2> QED BY <1>8, <2>1 DEF ReceiveOther, RoutesFrom, AgeTypeOK
<1>9. CASE Tick
  BY <1>9 DEF Tick, AgeTypeOK, Router
<1>10. CASE BeginWait
  BY <1>10 DEF BeginWait, AgeTypeOK
<1>11. CASE UNCHANGED ageVars
  BY <1>11 DEF AgeTypeOK, ageVars, originVars
<1> QED BY <1>1, <1>2, <1>3, <1>4, <1>5, <1>6, <1>7, <1>8, <1>9, <1>10, <1>11
  DEF AgeNext

-----------------------------------------------------------------------------
(***************************************************************************)
(* The pace of the origin's advertisements.                                *)
(***************************************************************************)

\* The multiples of the advertisement interval.
Rounds == {n \in Nat : \E k \in Nat : n = k * LsuInt}

LEMMA RoundsFacts ==
  /\ 0 \in Rounds
  /\ \A n \in Rounds : n + LsuInt \in Rounds
<1>1. 0 \in Rounds
  <2>1. 0 = 0 * LsuInt
    BY Figures
  <2> QED BY <2>1 DEF Rounds
<1>2. ASSUME NEW n \in Rounds PROVE n + LsuInt \in Rounds
  <2>1. PICK k \in Nat : n = k * LsuInt
    BY DEF Rounds
  <2>2. (k + 1) * LsuInt = k * LsuInt + LsuInt
    BY Figures
  <2>3. n + LsuInt \in Nat /\ k + 1 \in Nat
    BY Figures DEF Rounds
  <2> QED BY <2>1, <2>2, <2>3 DEF Rounds
<1> QED BY <1>1, <1>2

\* How old an entry is once this unit's round of the database has come.
AgeThen(q) == IF q \in due THEN db[q].age + 1 ELSE db[q].age

\* The times of the origin's process: nothing is on its way but in the unit of
\* a sending, no more than an interval passes between two, and, from the unit
\* after a restart, a wrap or a loss on, all neighbours are known and only the
\* last advertisement is on its way.
Waits ==
  /\ elapsed <= LsuInt /\ heard <= LsuInt
  /\ calm = 0 \/ net # {} => elapsed = 0

InStep == calm < Settled => calm >= elapsed /\ calm - elapsed \in Rounds

AtRest ==
  calm >= 1 =>
    /\ nbrs = Peer /\ ~signalled
    /\ \A m \in net : m.seq + 1 = seq /\ m.adv = Current

PaceOK == up => Waits /\ InStep /\ AtRest

LEMMA PaceInit == AgeInit => PaceOK
BY Figures, RoundsFacts DEF AgeInit, PaceOK, Waits, InStep, AtRest

\* Packets that are sent on say what the packet says.
LEMMA SentSay ==
  ASSUME NEW m, NEW from, NEW tos, NEW n \in SendTo(m, from, tos)
  PROVE  n.seq = m.seq /\ n.adv = m.adv /\ n.to \in tos
BY DEF SendTo

\* In an undisturbed round the origin sends after an interval, when nothing is
\* on its way, and its number grows.
LEMMA RoundSend ==
  ASSUME AgeTypeOK, PaceOK, SendLsu, calm' >= 1
  PROVE  /\ up /\ calm' = calm /\ elapsed = LsuInt /\ net = {} /\ nbrs = Peer
         /\ seq' = seq + 1 /\ seq \in Nat
         /\ net' = SendTo([seq |-> seq, adv |-> Current], Origin, nbrs)
<1>1. calm' = calm /\ seq' # 0 /\ up
  BY DEF SendLsu
<1>2. seq' = seq + 1 /\ seq \in Nat
  BY <1>1, NextNumber DEF SendLsu, AgeTypeOK
<1>3. ~signalled /\ elapsed <= LsuInt /\ nbrs = Peer
  BY <1>1 DEF PaceOK, Waits, AtRest
<1>4. elapsed = LsuInt
  BY <1>3, Figures DEF SendLsu, SendDue, AgeTypeOK
<1>5. net = {}
  BY <1>1, <1>4, Figures DEF PaceOK, Waits
<1> QED BY <1>1, <1>2, <1>3, <1>4, <1>5 DEF SendLsu

\* Every action keeps the pace.
LEMMA PaceStep ==
  ASSUME AgeTypeOK, PaceOK, [AgeNext]_ageVars
  PROVE  PaceOK'
<1> USE Figures
<1>1. CASE Stop
  BY <1>1 DEF Stop, PaceOK
<1>2. CASE Start
  BY <1>2, RoundsFacts DEF Start, PaceOK, Waits, InStep, AtRest
<1>3. ASSUME NEW p \in Peer, Hello(p) PROVE PaceOK'
  <2>1. up /\ calm = 0 /\ calm' = 0
    BY <1>3 DEF Hello, PaceOK, AtRest, AgeTypeOK
  <2> QED BY <1>3, <2>1 DEF Hello, PaceOK, Waits, InStep, AtRest
<1>4. ASSUME NEW q \in Router, AgeDatabase(q) PROVE PaceOK'
  BY <1>4 DEF AgeDatabase, originVars, PaceOK, Waits, InStep, AtRest, Current
<1>5. CASE SendLsu
  <2>1. up /\ Waits /\ elapsed' = 0 /\ heard' = heard
    BY <1>5 DEF SendLsu, PaceOK
  <2>2. Waits'
    BY <2>1 DEF Waits
  <2>3. CASE calm' = 0
    BY <2>1, <2>2, <2>3, RoundsFacts DEF PaceOK, InStep, AtRest
  <2>4. CASE calm' >= 1
    <3>1. /\ calm' = calm /\ elapsed = LsuInt /\ nbrs = Peer
          /\ seq' = seq + 1 /\ net' = SendTo([seq |-> seq, adv |-> Current], Origin, nbrs)
      BY <1>5, <2>4, RoundSend
    <3>2. InStep'
      <4> SUFFICES ASSUME calm' < Settled
                   PROVE  calm' - 0 \in Rounds /\ calm' >= 0
        BY <2>1 DEF InStep
      <4>1. calm - LsuInt \in Rounds /\ calm \in Nat
        BY <3>1, <2>1, <1>5 DEF PaceOK, InStep, AgeTypeOK
      <4>2. (calm - LsuInt) + LsuInt = calm
        BY <4>1
      <4> QED BY <3>1, <4>1, <4>2, RoundsFacts
    <3>3. Current' = Current /\ nbrs' = Peer /\ ~signalled'
      BY <1>5, <3>1 DEF SendLsu, Current
    <3>4. \A n \in net' : n.seq + 1 = seq' /\ n.adv = Current'
      BY <3>1, <3>3, SentSay
    <3> QED BY <2>2, <3>2, <3>3, <3>4 DEF PaceOK, AtRest
  <2>5. calm' \in Nat
    BY <1>5 DEF SendLsu, AgeTypeOK
  <2> QED BY <2>3, <2>4, <2>5
<1>6. ASSUME NEW m \in net, ReceiveLsu(m) PROVE PaceOK'
  <2> SUFFICES ASSUME up PROVE PaceOK'
    BY <1>6 DEF ReceiveLsu, PaceOK
  <2>1. UNCHANGED <<run, up, nbrs, seq, elapsed, signalled, heard, calm>>
    BY <1>6 DEF ReceiveLsu
  <2>2. Waits' /\ InStep'
    BY <2>1 DEF PaceOK, Waits, InStep
  <2>3. ASSUME NEW n \in net'
        PROVE  \E l \in net : n.seq = l.seq /\ n.adv = l.adv
    <3>1. n \in net \/ \E tos : n \in SendTo(m, m.to, tos)
      BY <1>6, <2>3 DEF ReceiveLsu
    <3> QED BY <3>1, SentSay
  <2>4. AtRest'
    BY <2>1, <2>3 DEF PaceOK, AtRest, Current
  <2> QED BY <2>1, <2>2, <2>4 DEF PaceOK
<1>7. ASSUME NEW m \in net, LoseLsu(m) PROVE PaceOK'
  BY <1>7, RoundsFacts DEF LoseLsu, originVars, PaceOK, Waits, InStep, AtRest
<1>8. CASE ReceiveOther
  BY <1>8 DEF ReceiveOther, PaceOK, Waits, InStep, AtRest, Current
<1>9. CASE Tick
  <2> SUFFICES ASSUME up PROVE PaceOK'
    BY <1>9 DEF Tick, PaceOK
  <2>1. /\ net' = {} /\ nbrs' = Peer /\ ~signalled' /\ elapsed < LsuInt /\ heard < LsuInt
        /\ elapsed' = elapsed + 1 /\ heard' = heard + 1
        /\ calm' = IF calm < Settled THEN calm + 1 ELSE calm
        /\ calm \in Nat /\ elapsed \in Nat /\ heard \in Nat
    BY <1>9 DEF Tick, SendDue, AgeTypeOK
  <2>2. Waits'
    BY <2>1 DEF Waits
  <2>3. InStep'
    <3> SUFFICES ASSUME calm' < Settled PROVE calm' >= elapsed' /\ calm' - elapsed' \in Rounds
      BY DEF InStep
    <3>1. calm < Settled /\ calm' = calm + 1
      BY <2>1
    <3>2. calm >= elapsed /\ calm - elapsed \in Rounds
      BY <3>1 DEF PaceOK, InStep
    <3>3. calm' - elapsed' = calm - elapsed
      BY <2>1, <3>1
    <3> QED BY <2>1, <3>1, <3>2, <3>3
  <2>4. AtRest'
    BY <2>1 DEF AtRest
  <2> QED BY <2>2, <2>3, <2>4 DEF PaceOK
<1>10. CASE BeginWait
  BY <1>10 DEF BeginWait, PaceOK, Waits, InStep, AtRest, Current
<1>11. CASE UNCHANGED ageVars
  BY <1>11 DEF ageVars, originVars, PaceOK, Waits, InStep, AtRest, Current
<1> QED BY <1>1, <1>2, <1>3, <1>4, <1>5, <1>6, <1>7, <1>8, <1>9, <1>10, <1>11
  DEF AgeNext

-----------------------------------------------------------------------------
(***************************************************************************)
(* What databases say of the origin.                                       *)
(***************************************************************************)

\* The entry says what the origin advertises and will give way to its next
\* number; it is the one sent last; a packet is on its way that will renew it.
Fresh(q)   == db[q].adv = Current /\ db[q].seq < seq
Latest(q)  == db[q] # NoEntry /\ db[q].seq + 1 = seq
Pending(q) == \E m \in net : m.to = q
Young(q)   == AgeThen(q) <= elapsed + 1

\* Since a restart, a wrap or a loss an entry has only become older, or it is
\* from after it; the one sent last is as old as the time since it was sent.
EntryOK(q) ==
  db[q] # NoEntry => AgeThen(q) >= calm \/ (Fresh(q) /\ (Latest(q) => Young(q)))

\* When what is from before has become too old, every router has the last
\* advertisement or will have it in this unit.
ServedOK(q) ==
  \/ Latest(q) /\ Young(q)
  \/ Pending(q) /\ q # Origin /\ (calm > Recovery => db[q] # NoEntry /\ AgeThen(q) <= LsuInt + 1)

EntriesOK == up /\ calm >= 1 => \A q \in Router : EntryOK(q)
AllServed == up /\ calm > DbTimeout + elapsed => \A q \in Router : ServedOK(q)

AgeInv == AgeTypeOK /\ PaceOK /\ EntriesOK /\ AllServed

\* The fields of an entry.
LEMMA EntryFields ==
  ASSUME AgeTypeOK, NEW q \in Router, db[q] # NoEntry
  PROVE  /\ db[q].seq \in Nat /\ db[q].age \in Nat /\ db[q].age < DbTimeout
         /\ AgeThen(q) \in Nat /\ AgeThen(q) <= DbTimeout
         /\ seq \in Nat
<1>1. db[q] \in Entry
  BY DEF AgeTypeOK
<1>2. db[q].seq \in Nat /\ db[q].age \in Nat /\ db[q].age < DbTimeout
  BY <1>1, Figures DEF Entry
<1> QED BY <1>2, Figures DEF AgeThen, AgeTypeOK

\* Ageing a database keeps what its entry says and how old it is this unit.
LEMMA AgeingKeeps ==
  ASSUME AgeTypeOK, NEW q \in Router, NEW r \in Router, AgeDatabase(q), db'[r] # NoEntry
  PROVE  /\ db[r] # NoEntry
         /\ db'[r].seq = db[r].seq /\ db'[r].adv = db[r].adv
         /\ AgeThen(r)' = AgeThen(r)
<1>1. CASE r = q
  <2>1. q \in due /\ q \notin due' /\ db'[q] = Aged(db[q])
    BY <1>1 DEF AgeDatabase, AgeTypeOK
  <2>2. db[q] # NoEntry /\ db'[q] = [db[q] EXCEPT !.age = @ + 1]
    BY <1>1, <2>1 DEF Aged
  <2>3. db[q] \in Entry
    BY <2>2 DEF AgeTypeOK
  <2> QED BY <1>1, <2>1, <2>2, <2>3 DEF Entry, AgeThen
<1>2. CASE r # q
  BY <1>2 DEF AgeDatabase, AgeTypeOK, AgeThen
<1> QED BY <1>1, <1>2

\* What is stored is fresh and new.
LEMMA StoredIsNew ==
  ASSUME AgeTypeOK, NEW q \in Router, NEW m, Newer(db[q], m.seq), db' = Stored(q, m),
         m.adv = Current', m.seq + 1 = seq', m.seq \in Nat, due' = due, elapsed' \in Nat,
         AgeTypeOK'
  PROVE  Fresh(q)' /\ Latest(q)' /\ Young(q)'
<1>1. db'[q] = [seq |-> m.seq, adv |-> m.adv, age |-> 0]
  BY StoredAt
<1>2. db'[q] # NoEntry
  <2>1. db'[q].seq + 1 = seq' /\ db'[q].adv = m.adv
    BY <1>1
  <2>2. [seq |-> m.seq, adv |-> m.adv, age |-> 0] \in Entry
    <3>1. m.adv \in Advert
      BY DEF AgeTypeOK, Current, Advert
    <3>2. m.seq \in 0..SeqMod - 1
      BY AgeAssumption DEF AgeTypeOK
    <3> QED BY <3>1, <3>2, Figures DEF Entry
  <2> QED BY <1>1, <2>2, AgeAssumption
<1>3. Fresh(q)' /\ Latest(q)'
  BY <1>1, <1>2 DEF Fresh, Latest
<1>4. Young(q)'
  <2>1. db'[q].age = 0
    BY <1>1
  <2>2. AgeThen(q)' \in 0..1
    BY <2>1 DEF AgeThen
  <2>3. elapsed' \in Nat
    OBVIOUS
  <2> QED BY <2>2, <2>3 DEF Young
<1> QED BY <1>3, <1>4

\* Where neither the databases nor what the origin advertises change, an entry
\* stays what it is.
LEMMA SameEntry ==
  ASSUME NEW q \in Router, UNCHANGED <<run, nbrs, seq, elapsed, db, due, calm>>, EntryOK(q)
  PROVE  EntryOK(q)'
BY DEF EntryOK, Fresh, Latest, Young, AgeThen, Current

\* Every action keeps the entries.
LEMMA EntriesStep ==
  ASSUME AgeTypeOK, AgeTypeOK', PaceOK, EntriesOK, [AgeNext]_ageVars
  PROVE  EntriesOK'
<1> USE Figures
<1> SUFFICES ASSUME up', calm' >= 1, NEW q \in Router PROVE EntryOK(q)'
  BY DEF EntriesOK
<1>1. CASE Stop
  BY <1>1 DEF Stop
<1>2. CASE Start
  BY <1>2 DEF Start
<1>3. ASSUME NEW p \in Peer, Hello(p) PROVE EntryOK(q)'
  <2>1. up /\ calm >= 1
    BY <1>3 DEF Hello
  <2> QED BY <1>3, <2>1 DEF Hello, PaceOK, AtRest
<1>4. ASSUME NEW r \in Router, AgeDatabase(r) PROVE EntryOK(q)'
  <2>1. UNCHANGED <<run, up, nbrs, seq, elapsed, calm>>
    BY <1>4 DEF AgeDatabase, originVars
  <2>2. EntryOK(q)
    BY <2>1 DEF EntriesOK
  <2> SUFFICES ASSUME db'[q] # NoEntry
               PROVE  AgeThen(q)' >= calm' \/ (Fresh(q)' /\ (Latest(q)' => Young(q)'))
    BY DEF EntryOK
  <2>3. /\ db[q] # NoEntry /\ db'[q].seq = db[q].seq /\ db'[q].adv = db[q].adv
        /\ AgeThen(q)' = AgeThen(q)
    BY <1>4, AgeingKeeps
  <2>4. AgeThen(q) >= calm \/ (Fresh(q) /\ (Latest(q) => Young(q)))
    BY <2>2, <2>3 DEF EntryOK
  <2>5. Fresh(q)' = Fresh(q) /\ Latest(q)' = Latest(q) /\ Young(q)' = Young(q)
    BY <2>1, <2>3 DEF Fresh, Latest, Young, Current
  <2> QED BY <2>1, <2>3, <2>4, <2>5
<1>5. CASE SendLsu
  <2> DEFINE m == [seq |-> seq, adv |-> Current]
  <2>1. /\ up /\ calm' = calm /\ elapsed = LsuInt /\ seq' = seq + 1 /\ seq \in Nat
        /\ Current' = Current /\ elapsed' = 0 /\ due' = due /\ db' = Stored(Origin, m)
    BY <1>5, RoundSend DEF SendLsu, Current
  <2>2. EntryOK(q)
    BY <2>1 DEF EntriesOK
  <2>3. CASE q = Origin /\ Newer(db[q], seq)
    <3>1. m.seq = seq /\ m.adv = Current /\ elapsed' \in Nat
      BY <2>1
    <3> HIDE DEF m
    <3>2. Fresh(q)' /\ Latest(q)' /\ Young(q)'
      BY <2>1, <2>3, <3>1, StoredIsNew
    <3> QED BY <3>2 DEF EntryOK
  <2>4. CASE ~(q = Origin /\ Newer(db[q], seq))
    <3>1. db'[q] = db[q]
      BY <2>1, <2>4, StoredAt DEF Router
    <3> SUFFICES ASSUME db[q] # NoEntry PROVE AgeThen(q) >= calm \/ (Fresh(q)' /\ ~Latest(q)')
      BY <2>1, <3>1 DEF EntryOK, AgeThen
    <3>2. CASE Fresh(q)
      <4>1. db[q].seq \in Nat /\ db[q].seq < seq
        BY <3>2, EntryFields DEF Fresh
      <4>2. Fresh(q)' /\ ~Latest(q)'
        BY <2>1, <3>1, <3>2, <4>1 DEF Fresh, Latest
      <4> QED BY <4>2
    <3> QED BY <2>2, <3>2 DEF EntryOK
  <2> QED BY <2>3, <2>4
<1>6. ASSUME NEW m \in net, ReceiveLsu(m) PROVE EntryOK(q)'
  <2>1. UNCHANGED <<run, up, nbrs, seq, elapsed, due, calm>> /\ db' = Stored(m.to, m)
    BY <1>6 DEF ReceiveLsu
  <2>2. EntryOK(q) /\ m.to \in Router /\ m.seq \in Nat
    BY <2>1 DEF EntriesOK, AgeTypeOK, Lsu
  <2>3. m.seq + 1 = seq' /\ m.adv = Current'
    BY <2>1 DEF PaceOK, AtRest, Current
  <2>4. CASE q = m.to /\ Newer(db[q], m.seq)
    <3>1. elapsed' \in Nat
      BY DEF AgeTypeOK
    <3>2. Fresh(q)' /\ Latest(q)' /\ Young(q)'
      BY <2>1, <2>2, <2>3, <2>4, <3>1, StoredIsNew
    <3> QED BY <3>2 DEF EntryOK
  <2>5. CASE ~(q = m.to /\ Newer(db[q], m.seq))
    <3>1. db'[q] = db[q]
      BY <2>1, <2>2, <2>5, StoredAt
    <3> QED BY <2>1, <2>2, <3>1 DEF EntryOK, Fresh, Latest, Young, AgeThen, Current
  <2> QED BY <2>4, <2>5
<1>7. ASSUME NEW m \in net, LoseLsu(m) PROVE EntryOK(q)'
  BY <1>7 DEF LoseLsu
<1>8. CASE ReceiveOther
  BY <1>8, SameEntry DEF ReceiveOther, EntriesOK
<1>9. CASE Tick
  <2>1. /\ up /\ due = {} /\ due' = Router /\ elapsed' = elapsed + 1
        /\ calm' = (IF calm < Settled THEN calm + 1 ELSE calm)
        /\ UNCHANGED <<run, nbrs, seq, db>> /\ calm \in Nat /\ elapsed \in Nat
    BY <1>9 DEF Tick, AgeTypeOK
  <2> SUFFICES ASSUME db[q] # NoEntry PROVE EntryOK(q)'
    BY <2>1 DEF EntryOK
  <2>2. AgeThen(q) \in Nat /\ AgeThen(q)' = AgeThen(q) + 1
    BY <2>1, EntryFields DEF AgeThen
  <2>3. CASE calm = 0
    BY <2>1, <2>2, <2>3 DEF EntryOK
  <2>4. CASE calm >= 1
    <3>1. AgeThen(q) >= calm \/ (Fresh(q) /\ (Latest(q) => Young(q)))
      BY <2>1, <2>4 DEF EntriesOK, EntryOK
    <3>2. Fresh(q)' = Fresh(q) /\ Latest(q)' = Latest(q)
      BY <2>1 DEF Fresh, Latest, Current
    <3>3. Young(q) => Young(q)'
      BY <2>1, <2>2 DEF Young
    <3>4. AgeThen(q) >= calm => AgeThen(q)' >= calm'
      BY <2>1, <2>2
    <3> QED BY <3>1, <3>2, <3>3, <3>4 DEF EntryOK
  <2> QED BY <2>1, <2>3, <2>4
<1>10. CASE BeginWait
  BY <1>10, SameEntry DEF BeginWait, EntriesOK
<1>11. CASE UNCHANGED ageVars
  BY <1>11, SameEntry DEF ageVars, originVars, EntriesOK
<1> QED BY <1>1, <1>2, <1>3, <1>4, <1>5, <1>6, <1>7, <1>8, <1>9, <1>10, <1>11
  DEF AgeNext

\* When what is from before has become too old, what a database says is fresh.
LEMMA OldIsGone ==
  ASSUME AgeTypeOK, EntriesOK, up, calm > DbTimeout, NEW q \in Router, db[q] # NoEntry
  PROVE  Fresh(q) /\ (Latest(q) => Young(q))
<1>1. EntryOK(q) /\ calm \in Nat
  BY Figures DEF EntriesOK, AgeTypeOK
<1>2. AgeThen(q) \in Nat /\ AgeThen(q) <= DbTimeout
  BY EntryFields
<1> QED BY <1>1, <1>2, Figures DEF EntryOK

\* A fresh entry gives way to the number the origin sends, and if it does not
\* give way to the number sent last, it is that.
LEMMA FreshGivesWay ==
  ASSUME AgeTypeOK, EntriesOK, up, calm > DbTimeout, NEW q \in Router
  PROVE  /\ Newer(db[q], seq)
         /\ \A n \in Nat : n + 1 = seq /\ ~Newer(db[q], n) => Latest(q) /\ Young(q)
<1> SUFFICES ASSUME db[q] # NoEntry
             PROVE  /\ Newer(db[q], seq)
                    /\ \A n \in Nat : n + 1 = seq /\ ~Newer(db[q], n) => Latest(q) /\ Young(q)
  BY DEF Newer
<1>1. db[q].seq < seq /\ (Latest(q) => Young(q)) /\ db[q].seq \in Nat /\ seq \in Nat
  BY OldIsGone, EntryFields DEF Fresh
<1>2. ASSUME NEW n \in Nat, n + 1 = seq, ~Newer(db[q], n) PROVE Latest(q)
  <2>1. ~(n > db[q].seq)
    BY <1>2 DEF Newer
  <2> QED BY <1>1, <1>2, <2>1 DEF Latest
<1> QED BY <1>1, <1>2 DEF Newer

\* An entry that was renewed in this interval is not too old before the next.
LEMMA YoungStays ==
  ASSUME AgeTypeOK, AgeTypeOK', NEW q \in Router, NEW r \in Router, AgeDatabase(r),
         db[q] # NoEntry, AgeThen(q) <= LsuInt + 1
  PROVE  db'[q] # NoEntry
<1>1. CASE q = r
  <2>1. db[q].age \in Nat /\ q \in due /\ db'[q] = Aged(db[q])
    BY <1>1, EntryFields DEF AgeDatabase, AgeTypeOK
  <2>2. db[q].age + 1 < DbTimeout
    BY <2>1, Figures DEF AgeThen
  <2>3. db'[q] = [db[q] EXCEPT !.age = @ + 1] /\ db[q] \in Entry
    BY <2>1, <2>2, Figures DEF Aged, TooOld, AgeTypeOK
  <2>4. [db[q] EXCEPT !.age = @ + 1] \in Entry
    BY <2>1, <2>2, <2>3, Figures DEF Entry
  <2> QED BY <2>3, <2>4, AgeAssumption
<1>2. CASE q # r
  BY <1>2 DEF AgeDatabase, AgeTypeOK
<1> QED BY <1>1, <1>2

LEMMA SameServed ==
  ASSUME NEW q \in Router, UNCHANGED <<run, nbrs, seq, elapsed, db, net, due, calm>>, ServedOK(q)
  PROVE  ServedOK(q)'
BY DEF ServedOK, Latest, Young, Pending, AgeThen

\* Every action keeps the routers served.
LEMMA ServedStep ==
  ASSUME AgeInv, AgeTypeOK', [AgeNext]_ageVars
  PROVE  AllServed'
<1> USE Figures
<1> SUFFICES ASSUME up', calm' > DbTimeout + elapsed', NEW q \in Router PROVE ServedOK(q)'
  BY DEF AllServed
<1>0. /\ AgeTypeOK /\ PaceOK /\ EntriesOK /\ AllServed
      /\ calm \in Nat /\ calm' \in Nat /\ elapsed \in Nat /\ elapsed' \in Nat
  BY DEF AgeInv, AgeTypeOK
<1>00. calm' > DbTimeout /\ calm' >= 1
  <2>1. \A c, e, d \in Nat : c > d + e => c > d /\ c >= 1
    OBVIOUS
  <2>2. calm' \in Nat /\ elapsed' \in Nat /\ DbTimeout \in Nat
    BY <1>0
  <2>3. calm' > DbTimeout + elapsed'
    OBVIOUS
  <2> QED BY ONLY <2>1, <2>2, <2>3, Zenon
<1>1. CASE Stop
  BY <1>1 DEF Stop
<1>2. CASE Start
  BY <1>00, <1>2 DEF Start
<1>3. ASSUME NEW p \in Peer, Hello(p) PROVE ServedOK(q)'
  <2>1. up /\ calm >= 1
    BY <1>0, <1>3 DEF Hello
  <2> QED BY <1>0, <1>3, <2>1 DEF Hello, PaceOK, AtRest
<1>4. ASSUME NEW r \in Router, AgeDatabase(r) PROVE ServedOK(q)'
  <2>1. UNCHANGED <<run, up, nbrs, seq, elapsed, net, calm>>
    BY <1>4 DEF AgeDatabase, originVars
  <2>2. ServedOK(q) /\ elapsed <= LsuInt
    BY <1>0, <2>1 DEF AllServed, PaceOK, Waits
  <2>3. ASSUME db[q] # NoEntry, AgeThen(q) <= LsuInt + 1
        PROVE  db'[q] # NoEntry /\ db'[q].seq = db[q].seq /\ AgeThen(q)' = AgeThen(q)
    <3>1. db'[q] # NoEntry
      BY <1>0, <1>4, <2>3, YoungStays
    <3> QED BY <1>0, <1>4, <3>1, AgeingKeeps
  <2>4. CASE Latest(q) /\ Young(q)
    <3>1. db[q] # NoEntry /\ AgeThen(q) <= LsuInt + 1
      BY <1>0, <2>2, <2>4, EntryFields DEF Latest, Young
    <3>2. db'[q] # NoEntry /\ db'[q].seq = db[q].seq /\ AgeThen(q)' = AgeThen(q)
      BY <2>3, <3>1
    <3> QED BY <2>1, <2>4, <3>2 DEF ServedOK, Latest, Young
  <2>5. CASE /\ Pending(q) /\ q # Origin
             /\ calm > Recovery => db[q] # NoEntry /\ AgeThen(q) <= LsuInt + 1
    <3>1. Pending(q)'
      BY <2>1, <2>5 DEF Pending
    <3>2. calm > Recovery => db'[q] # NoEntry /\ AgeThen(q)' <= LsuInt + 1
      BY <2>3, <2>5
    <3> QED BY <2>1, <2>5, <3>1, <3>2 DEF ServedOK
  <2> QED BY <2>2, <2>4, <2>5 DEF ServedOK
<1>5. CASE SendLsu
  <2> DEFINE m == [seq |-> seq, adv |-> Current]
  <2>1. /\ up /\ calm' = calm /\ calm > DbTimeout /\ elapsed = LsuInt /\ net = {} /\ nbrs = Peer
        /\ seq' = seq + 1 /\ seq \in Nat /\ net' = SendTo(m, Origin, nbrs)
        /\ Current' = Current /\ elapsed' = 0 /\ due' = due /\ db' = Stored(Origin, m)
    <3>1. /\ up /\ calm' = calm /\ elapsed = LsuInt /\ net = {} /\ nbrs = Peer
          /\ seq' = seq + 1 /\ seq \in Nat /\ net' = SendTo(m, Origin, nbrs)
      BY <1>0, <1>5, <1>00, RoundSend
    <3>2. Current' = Current /\ elapsed' = 0 /\ due' = due /\ db' = Stored(Origin, m)
      BY <1>5 DEF SendLsu, Current
    <3> QED BY <1>00, <3>1, <3>2
  <2>2. m.seq = seq /\ m.adv = Current
    OBVIOUS
  <2>3. CASE q = Origin
    <3>1. Newer(db[q], seq)
      BY <1>0, <2>1, FreshGivesWay
    <3> HIDE DEF m
    <3>2. Latest(q)' /\ Young(q)'
      BY <1>0, <2>1, <2>2, <2>3, <3>1, StoredIsNew
    <3> QED BY <3>2 DEF ServedOK
  <2>4. CASE q # Origin
    <3>1. Pending(q)'
      <4> DEFINE n == [seq |-> m.seq, adv |-> m.adv, from |-> Origin, to |-> q]
      <4>1. n \in SendTo(m, Origin, nbrs) /\ n.to = q
        BY <2>1, <2>4 DEF SendTo, Router
      <4> QED BY <2>1, <4>1 DEF Pending
    <3>2. db'[q] = db[q]
      BY <1>0, <2>1, <2>4, StoredAt DEF Router
    <3>3. ASSUME calm > Recovery PROVE db[q] # NoEntry /\ AgeThen(q) <= LsuInt + 1
      <4>1. ServedOK(q) /\ ~Pending(q)
        BY <1>0, <2>1, <3>3 DEF AllServed, Pending
      <4> QED BY <2>1, <4>1 DEF ServedOK, Latest, Young
    <3>4. AgeThen(q)' = AgeThen(q)
      BY <2>1, <3>2 DEF AgeThen
    <3> QED BY <2>1, <2>4, <3>1, <3>2, <3>3, <3>4 DEF ServedOK
  <2> QED BY <2>3, <2>4
<1>6. ASSUME NEW m \in net, ReceiveLsu(m) PROVE ServedOK(q)'
  <2>1. /\ UNCHANGED <<run, up, nbrs, seq, elapsed, due, calm>>
        /\ db' = Stored(m.to, m) /\ net \ {m} \subseteq net'
    BY <1>6 DEF ReceiveLsu
  <2>2. /\ ServedOK(q) /\ up /\ calm > DbTimeout
        /\ m.to \in Router /\ m.seq \in Nat
        /\ m.seq + 1 = seq /\ m.adv = Current /\ Current' = Current
    BY <1>0, <2>1 DEF AllServed, PaceOK, AtRest, AgeTypeOK, Lsu, Current
  <2>3. CASE q = m.to /\ Newer(db[q], m.seq)
    <3>1. Latest(q)' /\ Young(q)'
      BY <1>0, <2>1, <2>2, <2>3, StoredIsNew
    <3> QED BY <3>1 DEF ServedOK
  <2>4. CASE ~(q = m.to /\ Newer(db[q], m.seq))
    <3>1. db'[q] = db[q]
      BY <1>0, <2>1, <2>2, <2>4, StoredAt
    <3>2. AgeThen(q)' = AgeThen(q) /\ (Latest(q) => Latest(q)') /\ (Young(q) => Young(q)')
      BY <2>1, <3>1 DEF AgeThen, Latest, Young
    <3>3. CASE q = m.to
      <4>1. Latest(q) /\ Young(q)
        BY <1>0, <2>2, <2>4, <3>3, FreshGivesWay
      <4> QED BY <3>2, <4>1 DEF ServedOK
    <3>4. CASE q # m.to
      <4>1. Pending(q) => Pending(q)'
        BY <2>1, <3>4 DEF Pending
      <4> QED BY <2>1, <2>2, <3>1, <3>2, <4>1 DEF ServedOK
    <3> QED BY <3>3, <3>4
  <2> QED BY <2>3, <2>4
<1>7. ASSUME NEW m \in net, LoseLsu(m) PROVE ServedOK(q)'
  BY <1>00, <1>7 DEF LoseLsu
<1>8. CASE ReceiveOther
  BY <1>0, <1>8, SameServed DEF ReceiveOther, AllServed
<1>9. CASE Tick
  <2>1. /\ up /\ due = {} /\ due' = Router /\ elapsed' = elapsed + 1 /\ net = {}
        /\ elapsed < LsuInt /\ calm' = (IF calm < Settled THEN calm + 1 ELSE calm)
        /\ UNCHANGED <<seq, db>>
    BY <1>0, <1>9 DEF Tick, SendDue
  <2>2. calm > DbTimeout + elapsed
    BY <1>0, <2>1
  <2>3. Latest(q) /\ Young(q)
    BY <1>0, <2>1, <2>2 DEF AllServed, ServedOK, Pending
  <2>4. AgeThen(q) \in Nat /\ AgeThen(q)' = AgeThen(q) + 1
    BY <1>0, <2>1, <2>3, EntryFields DEF AgeThen, Latest
  <2>5. Latest(q)' /\ Young(q)'
    BY <1>0, <2>1, <2>3, <2>4 DEF Latest, Young
  <2> QED BY <2>5 DEF ServedOK
<1>10. CASE BeginWait
  BY <1>0, <1>10, SameServed DEF BeginWait, AllServed
<1>11. CASE UNCHANGED ageVars
  BY <1>0, <1>11, SameServed DEF ageVars, originVars, AllServed
<1> QED BY <1>1, <1>2, <1>3, <1>4, <1>5, <1>6, <1>7, <1>8, <1>9, <1>10, <1>11
  DEF AgeNext

LEMMA AgeInvInit == AgeInit => AgeInv
<1> SUFFICES ASSUME AgeInit PROVE AgeInv
  OBVIOUS
<1>1. calm = 0 /\ elapsed = 0
  BY DEF AgeInit
<1> QED BY <1>1, TypeInit, PaceInit, Figures DEF AgeInv, EntriesOK, AllServed

LEMMA AgeInvStep == AgeInv /\ [AgeNext]_ageVars => AgeInv'
<1> SUFFICES ASSUME AgeInv, [AgeNext]_ageVars PROVE AgeInv'
  OBVIOUS
<1>1. AgeTypeOK' /\ PaceOK'
  BY TypeStep, PaceStep DEF AgeInv
<1> QED BY <1>1, EntriesStep, ServedStep DEF AgeInv

LEMMA AgeInvImpliesKnown == AgeInv => KnownAgain
<1> SUFFICES ASSUME AgeInv, up, calm > Recovery, NEW q \in Router
             PROVE  db[q] # NoEntry /\ db[q].adv = Current
  BY DEF KnownAgain
<1>1. /\ AgeTypeOK /\ EntriesOK /\ calm \in Nat /\ elapsed \in Nat /\ elapsed <= LsuInt
  BY DEF AgeInv, AgeTypeOK, PaceOK, Waits
<1>2. calm > DbTimeout + elapsed /\ calm > DbTimeout
  BY <1>1, Figures
<1>3. db[q] # NoEntry
  BY <1>2 DEF AgeInv, AllServed, ServedOK, Latest
<1> QED BY <1>1, <1>2, <1>3, OldIsGone DEF Fresh

\* However the origin's numbers went back, by a restart or by a wrap, and
\* whatever was lost: a database timeout and an advertisement interval later
\* every database says what the origin advertises, and goes on saying so.
THEOREM KnownAgainHolds == AgeSpec => []KnownAgain
BY AgeInvInit, AgeInvStep, AgeInvImpliesKnown, PTL DEF AgeSpec

-----------------------------------------------------------------------------
(***************************************************************************)
(* The origin's own routes.                                                *)
(***************************************************************************)

\* An advertisement of another router that comes when the recovery is over
\* makes the routes current; they are computed from the own entry.
RoutesOK == up /\ calm >= Recovery + heard => computed = Current

\* The database timeout does not end with an advertisement interval: 40 s is
\* no multiple of 30 s.  If it did, an own number that its own database refused
\* could be followed by that database's last round of the old entry, and the
\* entry would be missing for an interval more.
TimeoutBetweenRounds == DbTimeout \notin Rounds

\* From the end of the recovery on the own database has the last advertisement.
LEMMA OwnEntry ==
  ASSUME TimeoutBetweenRounds, AgeInv, up, calm >= Recovery
  PROVE  db[Origin] # NoEntry /\ db[Origin].adv = Current
<1>1. /\ AgeTypeOK /\ EntriesOK /\ AllServed /\ calm \in Nat /\ elapsed \in Nat
      /\ elapsed <= LsuInt /\ Origin \in Router
  BY DEF AgeInv, AgeTypeOK, PaceOK, Waits, Router
<1>2. calm > DbTimeout + elapsed
  <2> SUFFICES ASSUME calm = DbTimeout + elapsed PROVE FALSE
    BY <1>1, Figures
  <2>1. calm < Settled /\ calm - elapsed = DbTimeout
    BY <1>1, Figures
  <2> QED BY <2>1 DEF AgeInv, PaceOK, InStep, TimeoutBetweenRounds
<1>3. db[Origin] # NoEntry
  BY <1>1, <1>2 DEF AllServed, ServedOK, Latest
<1>4. calm > DbTimeout
  BY <1>1, Figures
<1> QED BY <1>1, <1>3, <1>4, OldIsGone DEF Fresh

\* Every action keeps the routes current.
LEMMA RoutesStep ==
  ASSUME TimeoutBetweenRounds, AgeInv, AgeTypeOK', RoutesOK, [AgeNext]_ageVars
  PROVE  RoutesOK'
<1> USE Figures
<1> SUFFICES ASSUME up', calm' >= Recovery + heard' PROVE computed' = Current'
  BY DEF RoutesOK
<1>0. /\ AgeTypeOK /\ PaceOK /\ calm \in Nat /\ calm' \in Nat /\ heard \in Nat /\ heard' \in Nat
  BY DEF AgeInv, AgeTypeOK
<1>00. calm' >= 1 /\ calm' >= Recovery
  <2>1. \A c, h, r \in Nat : c >= r + h /\ r >= 1 => c >= 1 /\ c >= r
    OBVIOUS
  <2>2. Recovery \in Nat /\ Recovery >= 1
    OBVIOUS
  <2>3. calm' \in Nat /\ heard' \in Nat /\ calm' >= Recovery + heard'
    BY <1>0
  <2> QED BY ONLY <2>1, <2>2, <2>3, Zenon
<1>1. CASE Stop
  BY <1>1 DEF Stop
<1>2. CASE Start
  BY <1>00, <1>2 DEF Start
<1>3. ASSUME NEW p \in Peer, Hello(p) PROVE computed' = Current'
  BY <1>0, <1>00, <1>3 DEF Hello, PaceOK, AtRest
<1>4. ASSUME NEW q \in Router, AgeDatabase(q) PROVE computed' = Current'
  BY <1>4 DEF AgeDatabase, originVars, RoutesOK, Current
<1>5. CASE SendLsu
  <2>1. up /\ calm' = calm /\ UNCHANGED <<run, nbrs, computed, heard>>
    BY <1>0, <1>00, <1>5, RoundSend DEF SendLsu
  <2> QED BY <2>1 DEF RoutesOK, Current
<1>6. ASSUME NEW m \in net, ReceiveLsu(m) PROVE computed' = Current'
  <2>1. UNCHANGED <<run, up, nbrs, heard, calm>>
    BY <1>6 DEF ReceiveLsu
  <2>2. CASE m.to = Origin /\ Newer(db[Origin], m.seq)
    <3>1. computed' = RoutesFrom(db'[Origin]) /\ db' = Stored(Origin, m)
      BY <1>6, <2>1, <2>2 DEF ReceiveLsu
    <3>2. db'[Origin] = [seq |-> m.seq, adv |-> m.adv, age |-> 0]
      BY <1>0, <2>2, <3>1, StoredAt DEF Router
    <3>3. m.adv = Current
      BY <1>0, <1>00, <2>1 DEF PaceOK, AtRest
    <3>4. db'[Origin] # NoEntry
      <4>1. m.seq \in 0..SeqMod - 1 /\ m.adv \in Advert
        BY <1>0 DEF AgeTypeOK, Lsu
      <4>2. db'[Origin] \in Entry
        BY <3>2, <4>1 DEF Entry
      <4> QED BY <4>2, AgeAssumption
    <3> QED BY <2>1, <3>1, <3>2, <3>3, <3>4 DEF RoutesFrom, Current
  <2>3. CASE ~(m.to = Origin /\ Newer(db[Origin], m.seq))
    <3>1. computed' = computed
      BY <1>6, <2>3 DEF ReceiveLsu
    <3> QED BY <2>1, <3>1 DEF RoutesOK, Current
  <2> QED BY <2>2, <2>3
<1>7. ASSUME NEW m \in net, LoseLsu(m) PROVE computed' = Current'
  BY <1>00, <1>7 DEF LoseLsu
<1>8. CASE ReceiveOther
  <2>1. up /\ calm' = calm /\ computed' = RoutesFrom(db[Origin]) /\ Current' = Current
    BY <1>8 DEF ReceiveOther, Current
  <2>2. db[Origin] # NoEntry /\ db[Origin].adv = Current
    BY <1>00, <2>1, OwnEntry
  <2> QED BY <2>1, <2>2 DEF RoutesFrom
<1>9. CASE Tick
  <2>1. /\ up /\ heard < LsuInt /\ heard' = heard + 1
        /\ calm' = (IF calm < Settled THEN calm + 1 ELSE calm)
        /\ computed' = computed /\ Current' = Current
    BY <1>9 DEF Tick, Current
  <2>2. calm >= Recovery + heard
    BY <1>0, <2>1
  <2> QED BY <2>1, <2>2 DEF RoutesOK
<1>10. CASE BeginWait
  BY <1>10 DEF BeginWait, RoutesOK, Current
<1>11. CASE UNCHANGED ageVars
  BY <1>11 DEF ageVars, originVars, RoutesOK, Current
<1> QED BY <1>1, <1>2, <1>3, <1>4, <1>5, <1>6, <1>7, <1>8, <1>9, <1>10, <1>11
  DEF AgeNext

\* Though its own changes do not make the origin compute its routes, they are
\* computed from its present neighbours an advertisement interval after its
\* advertisements are known again.
THEOREM TableFollowsHolds == TimeoutBetweenRounds => (AgeSpec => []TableFollows)
<1> SUFFICES ASSUME TimeoutBetweenRounds PROVE AgeSpec => []TableFollows
  OBVIOUS
<1> DEFINE Inv == AgeInv /\ RoutesOK
<1>1. AgeInit => Inv
  <2> SUFFICES ASSUME AgeInit PROVE RoutesOK
    BY AgeInvInit
  <2> QED BY Figures DEF AgeInit, RoutesOK
<1>2. Inv /\ [AgeNext]_ageVars => Inv'
  <2> SUFFICES ASSUME AgeInv, RoutesOK, [AgeNext]_ageVars PROVE AgeInv' /\ RoutesOK'
    OBVIOUS
  <2>1. AgeInv' /\ AgeTypeOK'
    BY AgeInvStep DEF AgeInv
  <2> QED BY <2>1, RoutesStep
<1>3. Inv => TableFollows
  <2> SUFFICES ASSUME AgeInv, RoutesOK, up, calm > Settled - 1 PROVE computed = Current
    BY DEF TableFollows
  <2>1. calm \in Nat /\ heard \in Nat /\ heard <= LsuInt
    BY DEF AgeInv, AgeTypeOK, PaceOK, Waits
  <2>2. calm >= Recovery + heard
    BY <2>1, Figures
  <2> QED BY <2>2 DEF RoutesOK
<1> HIDE DEF Inv
<1> QED BY <1>1, <1>2, <1>3, PTL DEF AgeSpec

=============================================================================
