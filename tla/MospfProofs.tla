----------------------------- MODULE MospfProofs -----------------------------
(***************************************************************************)
(* Proofs about the mOSPF daemons, for every network.                      *)
(***************************************************************************)
EXTENDS Mospf, FiniteSetTheorems, TLAPS

\* Sequence numbers count from 0.
LEMMA SeqNumType == \A n \in SeqNum : n \in Nat /\ \A i \in Nat : i <= n => i \in SeqNum
<1>1. MaxSeq \in Nat
  BY SMT DEF MaxSeq
<1> QED BY <1>1, SMT DEF SeqNum

\* Something is lost or timed out, within the bound of the model.
LEMMA TroubleType ==
  ASSUME MospfTypeOK, Trouble
  PROVE  trouble' \in 0..MaxTrouble /\ calm' \in BOOLEAN
<1>1. calm' \in BOOLEAN
  BY DEF Trouble
<1>2. trouble \in Nat /\ MaxTrouble \in Nat /\ trouble < MaxTrouble /\ trouble' = trouble + 1
  BY MospfAssumption DEF MospfTypeOK, Trouble
<1>3. trouble' \in 0..MaxTrouble
  BY <1>2
<1> QED BY <1>1, <1>3

\* What is sent is well typed.
LEMMA SendToType ==
  ASSUME NEW msg,
         msg.origin \in Router, msg.seq \in SeqNum, msg.adv \in SUBSET Router,
         NEW q \in Router, NEW ignore, NEW ttl \in 1..MaxTtl,
         nbrs[q] \subseteq Router
  PROVE  /\ SendTo(msg, q, ignore, ttl) \subseteq Lsu
         /\ \A m \in SendTo(msg, q, ignore, ttl) :
              m.origin = msg.origin /\ m.seq = msg.seq /\ m.adv = msg.adv
BY DEF SendTo, Lsu

\* An advertisement that is sent has a number.
LEMMA SendIsCounted ==
  ASSUME MospfTypeOK, NEW q \in Router, SendLsu(q)
  PROVE  Len(sent[q]) \in SeqNum /\ Len(sent[q]) \in Nat /\ Len(sent[q]) < MaxSend[q]
<1>1. sent[q] \in Seq(SUBSET Router) /\ MaxSend[q] \in SeqNum
  BY MospfAssumption DEF MospfTypeOK
<1>2. Len(sent[q]) \in Nat /\ Len(sent[q]) < MaxSend[q]
  BY <1>1 DEF SendLsu
<1> QED BY <1>1, <1>2, SeqNumType

\* The type invariant holds in every state.
THEOREM TypeCorrect == MospfSpec => []MospfTypeOK
<1>1. MospfInit => MospfTypeOK
  <2> SUFFICES ASSUME MospfInit PROVE MospfTypeOK
    OBVIOUS
  <2>1. \A q \in Router : MaxSend[q] \in Nat
    <3>1. ASSUME NEW q \in Router PROVE MaxSend[q] \in SeqNum
      BY MospfAssumption
    <3> QED BY <3>1, SeqNumType
  <2>2. [q \in Router |-> <<>>] \in [Router -> Seq(SUBSET Router)]
    OBVIOUS
  <2>3. ASSUME NEW q \in Router PROVE Len(sent[q]) <= MaxSend[q]
    <3>1. sent[q] = <<>> /\ MaxSend[q] \in Nat
      BY <2>1 DEF MospfInit
    <3> QED BY <3>1
  <2> QED BY <2>2, <2>3, MospfAssumption DEF MospfInit, MospfTypeOK
<1>2. MospfTypeOK /\ [MospfNext]_mospfVars => MospfTypeOK'
  <2> SUFFICES ASSUME MospfTypeOK, [MospfNext]_mospfVars PROVE MospfTypeOK'
    OBVIOUS
  <2> USE MospfAssumption
  <2> \A q \in Router : nbrs[q] \subseteq Router
    BY DEF MospfTypeOK
  <2>1. ASSUME NEW q \in Router, NEW s \in Router, Hello(q, s) PROVE MospfTypeOK'
    BY <2>1 DEF Hello, MospfTypeOK, Signalled, Peers
  <2>2. ASSUME NEW q \in Router, NEW silent \in SUBSET nbrs[q], NbrTimeout(q, silent)
        PROVE  MospfTypeOK'
    <3>1. /\ nbrs' \in [Router -> SUBSET Router]
          /\ \A r \in Router : nbrs'[r] \subseteq Peers(r)
      BY <2>2 DEF NbrTimeout, MospfTypeOK
    <3>2. lsuThread' \in [Router -> {"starting", "waiting", "woken"}]
      BY <2>2 DEF NbrTimeout, MospfTypeOK, Signalled
    <3>3. trouble' \in 0..MaxTrouble /\ calm' \in BOOLEAN
      BY <2>2, TroubleType DEF NbrTimeout
    <3> QED BY <2>2, <3>1, <3>2, <3>3 DEF NbrTimeout, MospfTypeOK
  <2>3. ASSUME NEW q \in Router, StartLsuThread(q) PROVE MospfTypeOK'
    BY <2>3 DEF StartLsuThread, MospfTypeOK
  <2>4. ASSUME NEW q \in Router, SendLsu(q) PROVE MospfTypeOK'
    <3> DEFINE seq == Len(sent[q])
               msg == [origin |-> q, seq |-> seq, adv |-> nbrs[q]]
    <3>1. seq \in SeqNum /\ seq < MaxSend[q] /\ seq \in Nat
      BY <2>4, SendIsCounted
    <3>2. [seq |-> seq, adv |-> nbrs[q]] \in Entry
      BY <3>1 DEF Entry
    <3>3. db' \in [Router -> [Router -> Entry \cup {NoEntry}]]
      BY <2>4, <3>2 DEF SendLsu, SequenceNum, MospfTypeOK
    <3>4. net' \subseteq Lsu
      <4>1. MaxTtl \in 1..MaxTtl
        OBVIOUS
      <4>2. msg.origin \in Router /\ msg.seq \in SeqNum /\ msg.adv \in SUBSET Router
        BY <3>1
      <4>3. SendTo(msg, q, q, MaxTtl) \subseteq Lsu
        BY <4>1, <4>2, SendToType
      <4>4. net' = net \cup SendTo(msg, q, q, MaxTtl)
        BY <2>4 DEF SendLsu, SequenceNum
      <4> QED BY <4>3, <4>4 DEF MospfTypeOK
    <3>5. /\ sent' \in [Router -> Seq(SUBSET Router)]
          /\ \A r \in Router : Len(sent'[r]) <= MaxSend[r]
      <4>1. sent' = [sent EXCEPT ![q] = Append(@, nbrs[q])]
        BY <2>4 DEF SendLsu
      <4>2. nbrs[q] \in SUBSET Router /\ sent[q] \in Seq(SUBSET Router)
        BY DEF MospfTypeOK
      <4>3. /\ Append(sent[q], nbrs[q]) \in Seq(SUBSET Router)
            /\ Len(Append(sent[q], nbrs[q])) = seq + 1
        BY <4>2
      <4>4. MaxSend[q] \in Nat
        BY SeqNumType
      <4> QED BY <3>1, <4>1, <4>3, <4>4 DEF MospfTypeOK
    <3> QED BY <2>4, <3>3, <3>4, <3>5 DEF SendLsu, MospfTypeOK
  <2>5. ASSUME NEW m \in net, ReceiveLsu(m) PROVE MospfTypeOK'
    <3>1. m \in Lsu
      BY DEF MospfTypeOK
    <3>2. [seq |-> m.seq, adv |-> m.adv] \in Entry
      BY <3>1 DEF Lsu, Entry
    <3>3. db' \in [Router -> [Router -> Entry \cup {NoEntry}]]
      <4>1. m.to \in Router /\ m.origin \in Router
        BY <3>1 DEF Lsu
      <4> DEFINE entry == [seq |-> m.seq, adv |-> m.adv]
      <4>2. db' = [db EXCEPT ![m.to][m.origin] = entry] \/ db' = db
        BY <2>5 DEF ReceiveLsu
      <4>3. entry \in Entry
        BY <3>2
      <4>4. db \in [Router -> [Router -> Entry \cup {NoEntry}]]
        BY DEF MospfTypeOK
      <4> HIDE DEF entry
      <4>5. CASE db' = [db EXCEPT ![m.to][m.origin] = entry]
        BY <4>1, <4>3, <4>4, <4>5
      <4> QED BY <4>2, <4>4, <4>5
    <3>4. net' \subseteq Lsu
      <4>1. m.ttl > 1 => m.ttl - 1 \in 1..MaxTtl
        BY <3>1 DEF Lsu
      <4>2. PassedOn(m) \subseteq Lsu
        BY <3>1, <4>1, SendToType DEF PassedOn, Lsu
      <4> QED BY <2>5, <4>2 DEF ReceiveLsu, MospfTypeOK
    <3> QED BY <2>5, <3>3, <3>4 DEF ReceiveLsu, MospfTypeOK
  <2>6. ASSUME NEW m \in net, LoseLsu(m) PROVE MospfTypeOK'
    <3>1. trouble' \in 0..MaxTrouble /\ calm' \in BOOLEAN
      BY <2>6, TroubleType DEF LoseLsu
    <3> QED BY <2>6, <3>1 DEF LoseLsu, MospfTypeOK
  <2>7. ASSUME NEW q \in Router, NEW old \in SUBSET Router, DbTimeout(q, old)
        PROVE  MospfTypeOK'
    <3>1. trouble' \in 0..MaxTrouble /\ calm' \in BOOLEAN
      BY <2>7, TroubleType DEF DbTimeout
    <3>2. db' \in [Router -> [Router -> Entry \cup {NoEntry}]]
      BY <2>7 DEF DbTimeout, MospfTypeOK
    <3> QED BY <2>7, <3>1, <3>2 DEF DbTimeout, MospfTypeOK
  <2>8. CASE UNCHANGED mospfVars
    BY <2>8 DEF mospfVars, MospfTypeOK
  <2> QED BY <2>1, <2>2, <2>3, <2>4, <2>5, <2>6, <2>7, <2>8 DEF MospfNext
<1> QED BY <1>1, <1>2, PTL DEF MospfSpec

-----------------------------------------------------------------------------
(***************************************************************************)
(* Announcing changes.                                                     *)
(***************************************************************************)

\* No signal of a changed neighbour list is lost once a router has advertised.
AnnounceInv ==
  /\ ChangesAnnounced
  /\ \A q \in Router : lsuThread[q] = "starting" => sent[q] = <<>>

LEMMA AnnounceInvariant == MospfSpec => []AnnounceInv
<1>1. MospfInit => AnnounceInv
  BY DEF MospfInit, AnnounceInv, ChangesAnnounced
<1>2. MospfTypeOK /\ AnnounceInv /\ [MospfNext]_mospfVars => AnnounceInv'
  <2> SUFFICES ASSUME MospfTypeOK, AnnounceInv, [MospfNext]_mospfVars PROVE AnnounceInv'
    OBVIOUS
  <2>1. ASSUME NEW q \in Router, NEW s \in Router, Hello(q, s) PROVE AnnounceInv'
    BY <2>1 DEF Hello, Signalled, AnnounceInv, ChangesAnnounced, MospfTypeOK
  <2>2. ASSUME NEW q \in Router, NEW silent \in SUBSET nbrs[q], NbrTimeout(q, silent)
        PROVE  AnnounceInv'
    BY <2>2 DEF NbrTimeout, Signalled, AnnounceInv, ChangesAnnounced, MospfTypeOK
  <2>3. ASSUME NEW q \in Router, StartLsuThread(q) PROVE AnnounceInv'
    BY <2>3 DEF StartLsuThread, AnnounceInv, ChangesAnnounced, MospfTypeOK
  <2>4. ASSUME NEW q \in Router, SendLsu(q) PROVE AnnounceInv'
    <3>1. sent'[q][Len(sent'[q])] = nbrs'[q] /\ lsuThread'[q] = "waiting"
      BY <2>4 DEF SendLsu, MospfTypeOK
    <3>2. \A r \in Router \ {q} :
            sent'[r] = sent[r] /\ nbrs'[r] = nbrs[r] /\ lsuThread'[r] = lsuThread[r]
      BY <2>4 DEF SendLsu, MospfTypeOK
    <3> QED BY <3>1, <3>2 DEF AnnounceInv, ChangesAnnounced
  <2>5. \/ \E m \in net : ReceiveLsu(m) \/ LoseLsu(m)
        \/ \E q \in Router : \E old \in SUBSET Router : DbTimeout(q, old)
        \/ UNCHANGED mospfVars
        => UNCHANGED <<sent, nbrs, lsuThread>>
    BY DEF ReceiveLsu, LoseLsu, DbTimeout, mospfVars
  <2>6. CASE UNCHANGED <<sent, nbrs, lsuThread>>
    BY <2>6 DEF AnnounceInv, ChangesAnnounced
  <2> QED BY <2>1, <2>2, <2>3, <2>4, <2>5, <2>6 DEF MospfNext
<1> QED BY <1>1, <1>2, TypeCorrect, PTL DEF MospfSpec

\* The sending thread has been woken whenever there is something to announce.
THEOREM AnnouncementCorrect == MospfSpec => []ChangesAnnounced
<1> AnnounceInv => ChangesAnnounced
  BY DEF AnnounceInv
<1> QED BY AnnounceInvariant, PTL

-----------------------------------------------------------------------------
(***************************************************************************)
(* What databases hold.                                                    *)
(***************************************************************************)

\* A router's own entry is what it advertised last.
OwnLatest == \A q \in Router : Version(q, q) = Len(sent[q])

CopyInv == EntriesGenuine /\ OwnLatest

\* The own entry is accepted whenever the router advertises, and no echo is.
LEMMA OwnIsNewer ==
  ASSUME MospfTypeOK, OwnLatest, NEW q \in Router
  PROVE  Newer(db[q][q], Len(sent[q]))
<1>1. Version(q, q) = Len(sent[q])
  BY DEF OwnLatest
<1>2. CASE db[q][q] = NoEntry
  BY <1>2 DEF Newer
<1>3. CASE db[q][q] # NoEntry
  <2>1. db[q][q].seq \in Nat
    BY <1>3, SeqNumType DEF MospfTypeOK, Entry
  <2>2. Len(sent[q]) = db[q][q].seq + 1
    BY <1>1, <1>3 DEF Version
  <2> QED BY <2>1, <2>2 DEF Newer
<1> QED BY <1>2, <1>3

LEMMA EchoIsNotNewer ==
  ASSUME MospfTypeOK, CopyInv, NEW m \in net, Newer(db[m.to][m.origin], m.seq)
  PROVE  /\ m.to # m.origin
         /\ m.to \in Router /\ m.origin \in Router
         /\ m.seq + 1 \in Version(m.to, m.origin) + 1 .. Len(sent[m.origin])
<1>1. m \in Lsu
  BY DEF MospfTypeOK
<1>2. m.to \in Router /\ m.origin \in Router /\ m.seq \in SeqNum
  BY <1>1 DEF Lsu
<1>3. m.seq + 1 \in DOMAIN sent[m.origin]
  BY DEF CopyInv, EntriesGenuine
<1>4. m.seq + 1 <= Len(sent[m.origin])
  BY <1>2, <1>3 DEF MospfTypeOK
<1>5. db[m.to][m.origin] \in Entry \cup {NoEntry}
  BY <1>2 DEF MospfTypeOK
<1>6. Version(m.to, m.origin) \in Nat /\ m.seq + 1 > Version(m.to, m.origin)
  <2>1. m.seq \in Nat
    BY <1>2, SeqNumType
  <2>2. CASE db[m.to][m.origin] = NoEntry
    BY <2>1, <2>2 DEF Version
  <2>3. CASE db[m.to][m.origin] # NoEntry
    <3>1. db[m.to][m.origin].seq \in Nat
      BY <1>5, <2>3, SeqNumType DEF Entry
    <3> QED BY <2>1, <2>3, <3>1 DEF Version, Newer
  <2> QED BY <2>2, <2>3
<1>7. Version(m.to, m.to) = Len(sent[m.to])
  BY <1>2 DEF CopyInv, OwnLatest
<1>8. m.seq \in Nat /\ Len(sent[m.origin]) \in Nat
  BY <1>2, SeqNumType DEF MospfTypeOK
<1>9. m.to # m.origin
  BY <1>4, <1>6, <1>7, <1>8
<1> QED BY <1>2, <1>4, <1>6, <1>8, <1>9

\* Entries and advertisements on their way are genuine.
LEMMA CopyInvariant == MospfSpec => []CopyInv
<1>1. MospfInit => CopyInv
  BY DEF MospfInit, CopyInv, EntriesGenuine, OwnLatest, Version
<1>2. MospfTypeOK /\ CopyInv /\ [MospfNext]_mospfVars => CopyInv'
  <2> SUFFICES ASSUME MospfTypeOK, CopyInv, [MospfNext]_mospfVars PROVE CopyInv'
    OBVIOUS
  <2> USE MospfAssumption
  <2> \A q \in Router : nbrs[q] \subseteq Router
    BY DEF MospfTypeOK
  <2>1. ASSUME NEW q \in Router, SendLsu(q) PROVE CopyInv'
    <3> DEFINE seq == Len(sent[q])
               entry == [seq |-> seq, adv |-> nbrs[q]]
               msg == [origin |-> q, seq |-> seq, adv |-> nbrs[q]]
    <3>1. seq \in SeqNum /\ seq \in Nat
      BY <2>1, SendIsCounted
    <3>2. /\ db' = [db EXCEPT ![q][q] = entry]
          /\ net' = net \cup SendTo(msg, q, q, MaxTtl)
          /\ sent' = [sent EXCEPT ![q] = Append(@, nbrs[q])]
      BY <2>1, OwnIsNewer DEF SendLsu, SequenceNum, CopyInv
    <3>3. /\ \A r \in Router : DOMAIN sent[r] \subseteq DOMAIN sent'[r]
          /\ \A r \in Router : \A v \in DOMAIN sent[r] : sent'[r][v] = sent[r][v]
          /\ Len(sent'[q]) = seq + 1 /\ sent'[q][seq + 1] = nbrs[q]
          /\ seq + 1 \in DOMAIN sent'[q]
          /\ \A r \in Router \ {q} : sent'[r] = sent[r]
      BY <3>2 DEF MospfTypeOK
    <3>4. /\ db'[q][q] = entry /\ entry # NoEntry
          /\ \A r, o \in Router : r # q \/ o # q => db'[r][o] = db[r][o]
      BY <3>1, <3>2 DEF MospfTypeOK, Entry
    <3>5. OwnLatest'
      <4>1. Version(q, q)' = seq + 1
        BY <3>4 DEF Version
      <4>2. \A r \in Router \ {q} : Version(r, r)' = Version(r, r) /\ sent'[r] = sent[r]
        BY <3>3, <3>4 DEF Version
      <4> QED BY <3>3, <4>1, <4>2 DEF CopyInv, OwnLatest
    <3>6. \A r, o \in Router :
            db'[r][o] # NoEntry =>
              Version(r, o)' \in DOMAIN sent'[o] /\ db'[r][o].adv = sent'[o][Version(r, o)']
      <4>1. Version(q, q)' = seq + 1 /\ db'[q][q].adv = nbrs[q]
        BY <3>4 DEF Version
      <4>2. ASSUME NEW r \in Router, NEW o \in Router, r # q \/ o # q, db'[r][o] # NoEntry
            PROVE  /\ Version(r, o)' \in DOMAIN sent'[o]
                   /\ db'[r][o].adv = sent'[o][Version(r, o)']
        <5>1. db'[r][o] = db[r][o] /\ Version(r, o)' = Version(r, o)
          BY <3>4, <4>2 DEF Version
        <5>2. Version(r, o) \in DOMAIN sent[o] /\ db[r][o].adv = sent[o][Version(r, o)]
          BY <4>2, <5>1 DEF CopyInv, EntriesGenuine
        <5> QED BY <3>3, <5>1, <5>2
      <4> QED BY <3>3, <4>1, <4>2
    <3>7. \A m \in net' : m.seq + 1 \in DOMAIN sent'[m.origin]
                          /\ m.adv = sent'[m.origin][m.seq + 1]
      <4>1. \A m \in net : m.origin \in Router
        BY DEF MospfTypeOK, Lsu
      <4>2. MaxTtl \in 1..MaxTtl
        OBVIOUS
      <4>3. msg.origin \in Router /\ msg.seq \in SeqNum /\ msg.adv \in SUBSET Router
        BY <3>1
      <4>4. \A m \in SendTo(msg, q, q, MaxTtl) : m.origin = q /\ m.seq = seq /\ m.adv = nbrs[q]
        BY <4>2, <4>3, SendToType
      <4> QED BY <3>2, <3>3, <4>1, <4>4 DEF CopyInv, EntriesGenuine
    <3> QED BY <3>5, <3>6, <3>7 DEF CopyInv, EntriesGenuine
  <2>2. ASSUME NEW m \in net, ReceiveLsu(m) PROVE CopyInv'
    <3>1. m \in Lsu
      BY DEF MospfTypeOK
    <3>2. CASE ~Newer(db[m.to][m.origin], m.seq)
      BY <2>2, <3>2 DEF ReceiveLsu, CopyInv, EntriesGenuine, OwnLatest, Version
    <3>3. CASE Newer(db[m.to][m.origin], m.seq)
      <4> DEFINE entry == [seq |-> m.seq, adv |-> m.adv]
      <4>1. m.to # m.origin /\ m.to \in Router /\ m.origin \in Router
        BY <3>3, EchoIsNotNewer
      <4>2. /\ db' = [db EXCEPT ![m.to][m.origin] = entry]
            /\ net' = (net \ {m}) \cup PassedOn(m)
            /\ sent' = sent
        BY <2>2, <3>3 DEF ReceiveLsu
      <4>3. /\ db'[m.to][m.origin] = entry
            /\ \A r, o \in Router : r # m.to \/ o # m.origin => db'[r][o] = db[r][o]
        BY <4>1, <4>2 DEF MospfTypeOK
      <4>4. entry # NoEntry
        BY <3>1 DEF Lsu, Entry
      <4>5. \A n \in PassedOn(m) : n.origin = m.origin /\ n.seq = m.seq /\ n.adv = m.adv
        BY <3>1, SendToType DEF PassedOn, Lsu
      <4>6. OwnLatest'
        BY <4>1, <4>2, <4>3 DEF CopyInv, OwnLatest, Version
      <4>7. \A r, o \in Router :
              db'[r][o] # NoEntry =>
                Version(r, o)' \in DOMAIN sent'[o] /\ db'[r][o].adv = sent'[o][Version(r, o)']
        BY <4>2, <4>3, <4>4 DEF CopyInv, EntriesGenuine, Version
      <4>8. \A n \in net' : n.seq + 1 \in DOMAIN sent'[n.origin]
                            /\ n.adv = sent'[n.origin][n.seq + 1]
        BY <4>2, <4>5 DEF CopyInv, EntriesGenuine
      <4> QED BY <4>6, <4>7, <4>8 DEF CopyInv, EntriesGenuine
    <3> QED BY <3>2, <3>3
  <2>3. ASSUME NEW q \in Router, NEW old \in SUBSET Router, DbTimeout(q, old) PROVE CopyInv'
    <3>1. /\ \A r, o \in Router : db'[r][o] = db[r][o] \/ (r = q /\ o \in old /\ db'[r][o] = NoEntry)
          /\ q \notin old /\ UNCHANGED <<net, sent>>
      BY <2>3 DEF DbTimeout, MospfTypeOK
    <3> QED BY <3>1 DEF CopyInv, EntriesGenuine, OwnLatest, Version
  <2>4. ASSUME NEW m \in net, LoseLsu(m) PROVE CopyInv'
    BY <2>4 DEF LoseLsu, CopyInv, EntriesGenuine, OwnLatest, Version
  <2>5. CASE UNCHANGED <<db, net, sent>>
    BY <2>5 DEF CopyInv, EntriesGenuine, OwnLatest, Version
  <2>6. \/ \E q, s \in Router : Hello(q, s)
        \/ \E q \in Router : \E silent \in SUBSET nbrs[q] : NbrTimeout(q, silent)
        \/ \E q \in Router : StartLsuThread(q)
        \/ UNCHANGED mospfVars
        => UNCHANGED <<db, net, sent>>
    BY DEF Hello, NbrTimeout, StartLsuThread, mospfVars
  <2> QED BY <2>1, <2>2, <2>3, <2>4, <2>5, <2>6 DEF MospfNext
<1> QED BY <1>1, <1>2, TypeCorrect, PTL DEF MospfSpec

\* A sequence number never stands for two contents, in any network.
THEOREM GenuineCorrect == MospfSpec => []EntriesGenuine
<1> CopyInv => EntriesGenuine
  BY DEF CopyInv
<1> QED BY CopyInvariant, PTL

\* The daemons implement the abstract flooding.
THEOREM ImplementsFlooding == MospfSpec => FloodingSpec
<1>1. MospfInit => Flooding!LinkInit
  BY DEF MospfInit, Flooding!LinkInit, Copies, Version
<1>2. MospfTypeOK /\ CopyInv /\ [MospfNext]_mospfVars
        => [Flooding!LinkNext]_(Flooding!linkVars)
  <2> SUFFICES ASSUME MospfTypeOK, CopyInv, [MospfNext]_mospfVars
               PROVE  Flooding!LinkNext \/ UNCHANGED <<sent, Copies>>
    BY DEF Flooding!linkVars
  <2> USE MospfAssumption
  <2>1. ASSUME NEW q \in Router, SendLsu(q) PROVE Flooding!LinkNext
    <3> DEFINE seq == Len(sent[q])
               entry == [seq |-> seq, adv |-> nbrs[q]]
    <3>1. /\ db' = [db EXCEPT ![q][q] = entry]
          /\ sent' = [sent EXCEPT ![q] = Append(@, nbrs[q])]
      BY <2>1, OwnIsNewer DEF SendLsu, SequenceNum, CopyInv
    <3>2. entry # NoEntry
      <4> seq \in SeqNum
        BY <2>1, SendIsCounted
      <4> QED BY DEF Entry, MospfTypeOK
    <3>3. \A r, o \in Router :
            Version(r, o)' = IF r = q /\ o = q THEN seq + 1 ELSE Version(r, o)
      BY <3>1, <3>2 DEF Version, MospfTypeOK
    <3>4. Copies' = [Copies EXCEPT ![q][q] = Len(sent[q]) + 1]
      BY <3>3 DEF Copies
    <3>5. nbrs[q] \in SUBSET Router
      BY DEF MospfTypeOK
    <3>6. Flooding!Publish(q)
      BY <3>1, <3>4, <3>5 DEF Flooding!Publish
    <3> QED BY <3>6 DEF Flooding!LinkNext
  <2>2. ASSUME NEW m \in net, ReceiveLsu(m)
        PROVE  Flooding!LinkNext \/ UNCHANGED <<sent, Copies>>
    <3>1. CASE ~Newer(db[m.to][m.origin], m.seq)
      BY <2>2, <3>1 DEF ReceiveLsu, Copies, Version
    <3>2. CASE Newer(db[m.to][m.origin], m.seq)
      <4> DEFINE entry == [seq |-> m.seq, adv |-> m.adv]
      <4>1. /\ m.to # m.origin /\ m.to \in Router /\ m.origin \in Router
            /\ m.seq + 1 \in Version(m.to, m.origin) + 1 .. Len(sent[m.origin])
        BY <3>2, EchoIsNotNewer
      <4>2. db' = [db EXCEPT ![m.to][m.origin] = entry] /\ sent' = sent
        BY <2>2, <3>2 DEF ReceiveLsu
      <4>3. entry # NoEntry
        BY DEF MospfTypeOK, Lsu, Entry
      <4>4. \A r, o \in Router :
              Version(r, o)' = IF r = m.to /\ o = m.origin THEN m.seq + 1 ELSE Version(r, o)
        BY <4>1, <4>2, <4>3 DEF Version, MospfTypeOK
      <4>5. Copies' = [Copies EXCEPT ![m.to][m.origin] = m.seq + 1]
        BY <4>1, <4>4 DEF Copies
      <4>6. Copies[m.to][m.origin] = Version(m.to, m.origin)
        BY <4>1 DEF Copies
      <4>7. Flooding!Learn(m.to, m.origin)
        BY <4>1, <4>2, <4>5, <4>6 DEF Flooding!Learn
      <4> QED BY <4>1, <4>7 DEF Flooding!LinkNext
    <3> QED BY <3>1, <3>2
  <2>3. ASSUME NEW q \in Router, NEW old \in SUBSET Router, DbTimeout(q, old)
        PROVE  Flooding!LinkNext
    <3>1. /\ db' = [db EXCEPT ![q] = [o \in Router |-> IF o \in old THEN NoEntry ELSE @[o]]]
          /\ q \notin old /\ sent' = sent
      BY <2>3 DEF DbTimeout
    <3>2. \A r, o \in Router :
            Version(r, o)' = IF r = q /\ o \in old THEN 0 ELSE Version(r, o)
      BY <3>1 DEF Version, MospfTypeOK
    <3>3. Copies' = [Copies EXCEPT ![q] = [o \in Router |-> IF o \in old THEN 0 ELSE @[o]]]
      BY <3>2 DEF Copies
    <3>4. Flooding!Forget(q, old)
      BY <3>1, <3>3 DEF Flooding!Forget
    <3> QED BY <3>4 DEF Flooding!LinkNext
  <2>4. CASE UNCHANGED <<db, sent>>
    BY <2>4 DEF Copies, Version
  <2>5. \/ \E q, s \in Router : Hello(q, s)
        \/ \E q \in Router : \E silent \in SUBSET nbrs[q] : NbrTimeout(q, silent)
        \/ \E q \in Router : StartLsuThread(q)
        \/ \E m \in net : LoseLsu(m)
        \/ UNCHANGED mospfVars
        => UNCHANGED <<db, sent>>
    BY DEF Hello, NbrTimeout, StartLsuThread, LoseLsu, mospfVars
  <2> QED BY <2>1, <2>2, <2>3, <2>4, <2>5 DEF MospfNext
<1> QED BY <1>1, <1>2, TypeCorrect, CopyInvariant, PTL
        DEF MospfSpec, FloodingSpec, Flooding!LinkSpec

-----------------------------------------------------------------------------
(***************************************************************************)
(* Nobody is left out.                                                     *)
(***************************************************************************)

\* The time to live that a router gives its advertisements reaches everybody.
SmallNetwork == IsFiniteSet(Router) /\ Cardinality(Router) <= MaxTtl + 1

Holders(o, v) == {r \in Router : Version(r, o) >= v}

\* Whoever sent an advertisement has it, and each hop has added a router.
TravelsRight ==
  \A m \in net : /\ m.from \in Holders(m.origin, m.seq + 1)
                 /\ Cardinality(Holders(m.origin, m.seq + 1)) + m.ttl > MaxTtl

\* What FloodCovers says of a router, a neighbour of it and what they know of o.
Covered(q, s, o) ==
  \/ Version(q, o) <= Version(s, o)
  \/ \E m \in net : m.to = s /\ m.origin = o /\ m.seq + 1 >= Version(q, o)

AllCovered == \A q, o \in Router : \A s \in nbrs[q] : Covered(q, s, o)

FloodInv == calm => AllCovered /\ TravelsRight

LEMMA VersionNat ==
  ASSUME MospfTypeOK, NEW q \in Router, NEW o \in Router
  PROVE  Version(q, o) \in Nat
<1>1. db[q][o] \in Entry \cup {NoEntry}
  BY DEF MospfTypeOK
<1>2. db[q][o] # NoEntry => db[q][o].seq \in Nat
  BY <1>1, SeqNumType DEF Entry
<1> QED BY <1>2 DEF Version

LEMMA VersionNatNext ==
  ASSUME MospfTypeOK', NEW q \in Router, NEW o \in Router
  PROVE  Version(q, o)' \in Nat
<1>1. db'[q][o] \in Entry \cup {NoEntry}
  BY DEF MospfTypeOK
<1>2. db'[q][o] # NoEntry => db'[q][o].seq \in Nat
  BY <1>1, SeqNumType DEF Entry
<1> QED BY <1>2 DEF Version

\* Unless versions get lost, an advertisement never has fewer holders.
LEMMA HoldersGrow ==
  ASSUME SmallNetwork, MospfTypeOK, MospfTypeOK', NEW o \in Router, NEW v \in Nat,
         \A r \in Router : Version(r, o)' >= Version(r, o)
  PROVE  /\ Holders(o, v) \subseteq Holders(o, v)'
         /\ IsFiniteSet(Holders(o, v)') /\ IsFiniteSet(Holders(o, v))
         /\ Cardinality(Holders(o, v)') \in Nat /\ Cardinality(Holders(o, v)) \in Nat
         /\ Cardinality(Holders(o, v)) <= Cardinality(Holders(o, v)')
<1>1. \A r \in Router : Version(r, o) \in Nat /\ Version(r, o)' \in Nat
  BY VersionNat, VersionNatNext
<1>2. /\ Holders(o, v) \subseteq Router /\ Holders(o, v)' \subseteq Router
      /\ Holders(o, v) \subseteq Holders(o, v)'
  BY <1>1 DEF Holders
<1>3. IsFiniteSet(Holders(o, v)') /\ IsFiniteSet(Holders(o, v))
  BY <1>2, FS_Subset DEF SmallNetwork
<1> QED BY <1>2, <1>3, FS_Subset, FS_CardinalityType

\* What a round and what an accepted advertisement make of the versions.
LEMMA SendVersions ==
  ASSUME MospfTypeOK, CopyInv, NEW q \in Router, SendLsu(q)
  PROVE  \A r, o \in Router :
           Version(r, o)' = IF r = q /\ o = q THEN Len(sent[q]) + 1 ELSE Version(r, o)
<1> DEFINE entry == [seq |-> Len(sent[q]), adv |-> nbrs[q]]
<1>1. db' = [db EXCEPT ![q][q] = entry]
  BY OwnIsNewer DEF SendLsu, SequenceNum, CopyInv
<1>2. entry # NoEntry
  <2>1. Len(sent[q]) \in SeqNum /\ nbrs[q] \in SUBSET Router
    BY SendIsCounted DEF MospfTypeOK
  <2> QED BY <2>1, MospfAssumption DEF Entry
<1>3. entry.seq = Len(sent[q])
  OBVIOUS
<1> HIDE DEF entry
<1> QED BY <1>1, <1>2, <1>3 DEF Version, MospfTypeOK

LEMMA ReceiveVersions ==
  ASSUME MospfTypeOK, CopyInv, NEW m \in net, ReceiveLsu(m), Newer(db[m.to][m.origin], m.seq)
  PROVE  \A r, o \in Router :
           Version(r, o)' = IF r = m.to /\ o = m.origin THEN m.seq + 1 ELSE Version(r, o)
<1> DEFINE entry == [seq |-> m.seq, adv |-> m.adv]
<1>1. db' = [db EXCEPT ![m.to][m.origin] = entry]
  BY DEF ReceiveLsu
<1>2. entry # NoEntry
  BY MospfAssumption DEF MospfTypeOK, Lsu, Entry
<1>3. entry.seq = m.seq /\ m.to \in Router /\ m.origin \in Router
  BY EchoIsNotNewer
<1> HIDE DEF entry
<1> QED BY <1>1, <1>2, <1>3 DEF Version, MospfTypeOK

\* What is sent, and to whom.
LEMMA SentTo ==
  ASSUME NEW msg, NEW q, NEW ignore, NEW ttl
  PROVE  /\ \A m \in SendTo(msg, q, ignore, ttl) :
              m.origin = msg.origin /\ m.seq = msg.seq /\ m.from = q /\ m.ttl = ttl
         /\ \A s \in nbrs[q] \ {ignore} : \E m \in SendTo(msg, q, ignore, ttl) :
              m.to = s /\ m.origin = msg.origin /\ m.seq = msg.seq
<1> DEFINE sending(s) == [origin |-> msg.origin, seq |-> msg.seq, adv |-> msg.adv,
                          ttl |-> ttl, from |-> q, to |-> s]
<1>1. SendTo(msg, q, ignore, ttl) = {sending(s) : s \in nbrs[q] \ {ignore}}
  BY DEF SendTo
<1>2. \A s : /\ sending(s).origin = msg.origin /\ sending(s).seq = msg.seq
             /\ sending(s).from = q /\ sending(s).ttl = ttl /\ sending(s).to = s
  OBVIOUS
<1> HIDE DEF sending
<1> QED BY <1>1, <1>2

LEMMA FloodSend ==
  ASSUME SmallNetwork, MospfTypeOK, MospfTypeOK', CopyInv, AllCovered, TravelsRight,
         NEW q \in Router, SendLsu(q)
  PROVE  AllCovered' /\ TravelsRight'
<1> DEFINE seq == Len(sent[q])
           msg == [origin |-> q, seq |-> seq, adv |-> nbrs[q]]
           new == SendTo(msg, q, q, MaxTtl)
<1>1. seq \in Nat /\ Version(q, q) = seq
  BY SendIsCounted DEF CopyInv, OwnLatest
<1>2. \A r, o \in Router :
        Version(r, o)' = IF r = q /\ o = q THEN seq + 1 ELSE Version(r, o)
  BY SendVersions
<1>3. \A r, o \in Router : /\ Version(r, o) \in Nat /\ Version(r, o)' \in Nat
                           /\ Version(r, o)' >= Version(r, o)
  <2>1. \A r, o \in Router : Version(r, o) \in Nat /\ Version(r, o)' \in Nat
    BY VersionNat, VersionNatNext
  <2> HIDE DEF seq
  <2> SUFFICES ASSUME NEW r \in Router, NEW o \in Router PROVE Version(r, o)' >= Version(r, o)
    BY <2>1
  <2>2. CASE r = q /\ o = q
    BY <1>1, <1>2, <2>2
  <2>3. CASE ~(r = q /\ o = q)
    BY <1>2, <2>1, <2>3
  <2> QED BY <2>2, <2>3
<1>4. net' = net \cup new /\ nbrs' = nbrs
  BY DEF SendLsu, SequenceNum
<1>5. /\ \A m \in new : m.origin = q /\ m.seq = seq /\ m.from = q /\ m.ttl = MaxTtl
      /\ \A s \in nbrs[q] \ {q} : \E m \in new : m.to = s /\ m.origin = q /\ m.seq = seq
  BY SentTo
<1> HIDE DEF seq, new
<1>6. q \notin nbrs[q] /\ nbrs \in [Router -> SUBSET Router]
  <2>1. q \notin Peers(q)
    BY MospfAssumption, {q, q} = {q} DEF Peers
  <2> QED BY <2>1 DEF MospfTypeOK
<1>7. AllCovered'
  <2> SUFFICES ASSUME NEW r \in Router, NEW o \in Router, NEW s \in nbrs[r]
               PROVE  Covered(r, s, o)'
    BY <1>4 DEF AllCovered
  <2>1. CASE r = q /\ o = q
    BY <1>1, <1>2, <1>4, <1>5, <1>6, <2>1 DEF Covered
  <2>2. CASE ~(r = q /\ o = q)
    <3>1. Version(r, o)' = Version(r, o) /\ s \in Router
      BY <1>2, <1>6, <2>2
    <3>2. Version(s, o)' >= Version(s, o) /\ Version(s, o) \in Nat /\ Version(s, o)' \in Nat
      BY <1>3, <3>1
    <3>3. Covered(r, s, o)
      BY DEF AllCovered
    <3> QED BY <1>3, <1>4, <3>1, <3>2, <3>3 DEF Covered
  <2> QED BY <2>1, <2>2
<1>8. TravelsRight'
  <2> SUFFICES ASSUME NEW m \in net'
               PROVE  /\ m.from \in Holders(m.origin, m.seq + 1)'
                      /\ Cardinality(Holders(m.origin, m.seq + 1)') + m.ttl > MaxTtl
    BY DEF TravelsRight
  <2>1. m \in Lsu
    BY DEF MospfTypeOK
  <2>2. /\ m.from \in Router /\ m.origin \in Router /\ m.seq + 1 \in Nat /\ m.ttl \in Nat
        /\ MaxTtl \in Nat
    BY <2>1, SeqNumType, MospfAssumption DEF Lsu
  <2> DEFINE o == m.origin
             v == m.seq + 1
  <2>3. /\ Holders(o, v) \subseteq Holders(o, v)'
        /\ IsFiniteSet(Holders(o, v)')
        /\ Cardinality(Holders(o, v)') \in Nat /\ Cardinality(Holders(o, v)) \in Nat
        /\ Cardinality(Holders(o, v)) <= Cardinality(Holders(o, v)')
    <3> HIDE DEF o, v
    <3>1. o \in Router /\ v \in Nat
      BY <2>2 DEF o, v
    <3> QED BY <1>3, <3>1, HoldersGrow
  <2>4. CASE m \in net
    BY <2>2, <2>3, <2>4 DEF TravelsRight
  <2>5. CASE m \in new
    <3>1. o = q /\ v = seq + 1 /\ m.from = q /\ m.ttl = MaxTtl
      BY <1>5, <2>5
    <3>2. q \in Holders(o, v)'
      BY <1>1, <1>2, <3>1 DEF Holders
    <3>3. Cardinality(Holders(o, v)') # 0
      BY <2>3, <3>2, FS_EmptySet
    <3> QED BY <2>2, <2>3, <3>1, <3>2, <3>3
  <2> QED BY <1>4, <2>4, <2>5
<1> QED BY <1>7, <1>8

LEMMA FloodReceive ==
  ASSUME SmallNetwork, MospfTypeOK, MospfTypeOK', CopyInv, AllCovered, TravelsRight,
         NEW m \in net, ReceiveLsu(m)
  PROVE  AllCovered' /\ TravelsRight'
<1>1. m \in Lsu
  BY DEF MospfTypeOK
<1>2. /\ m.from \in Router /\ m.to \in Router /\ m.origin \in Router
      /\ m.seq \in Nat /\ m.ttl \in Nat /\ MaxTtl \in Nat /\ m.ttl >= 1
  BY <1>1, SeqNumType, MospfAssumption DEF Lsu
<1>3. nbrs \in [Router -> SUBSET Router] /\ nbrs' = nbrs
  BY DEF MospfTypeOK, ReceiveLsu
<1>4. CASE ~Newer(db[m.to][m.origin], m.seq)
  <2>1. net' = net \ {m} /\ db' = db
    BY <1>4 DEF ReceiveLsu
  <2>2. Version(m.to, m.origin) >= m.seq + 1
    <3>1. db[m.to][m.origin] \in Entry
      BY <1>2, <1>4 DEF MospfTypeOK, Newer
    <3>2. db[m.to][m.origin].seq \in Nat
      BY <3>1, SeqNumType DEF Entry
    <3> QED BY <1>2, <1>4, <3>2 DEF Newer, Version
  <2>3. \A r, o \in Router : Version(r, o)' = Version(r, o) /\ Version(r, o) \in Nat
    BY <2>1, VersionNat DEF Version
  <2>4. AllCovered'
    <3> SUFFICES ASSUME NEW r \in Router, NEW o \in Router, NEW s \in nbrs[r]
                 PROVE  Covered(r, s, o)'
      BY <1>3 DEF AllCovered
    <3>1. s \in Router /\ Covered(r, s, o)
      BY <1>3 DEF AllCovered
    <3>2. /\ Version(r, o)' = Version(r, o) /\ Version(s, o)' = Version(s, o)
          /\ Version(r, o) \in Nat /\ Version(s, o) \in Nat
      BY <2>3, <3>1
    <3> QED BY <1>2, <2>1, <2>2, <3>1, <3>2 DEF Covered
  <2>5. TravelsRight'
    <3>1. \A o, v : Holders(o, v)' = Holders(o, v)
      BY <2>1 DEF Holders, Version
    <3> QED BY <2>1, <3>1 DEF TravelsRight
  <2> QED BY <2>4, <2>5
<1>5. CASE Newer(db[m.to][m.origin], m.seq)
  <2> DEFINE o == m.origin
             v == m.seq + 1
             new == PassedOn(m)
  <2>1. net' = (net \ {m}) \cup new
    BY <1>5 DEF ReceiveLsu
  <2>2. \A r, p \in Router :
          Version(r, p)' = IF r = m.to /\ p = m.origin THEN v ELSE Version(r, p)
    BY <1>5, ReceiveVersions
  <2>3. m.to \in Router /\ Version(m.to, o) \in Nat /\ Version(m.to, o) < v
    BY <1>2, <1>5, EchoIsNotNewer, VersionNat
  <2>4. \A r, p \in Router : /\ Version(r, p) \in Nat /\ Version(r, p)' \in Nat
                             /\ Version(r, p)' >= Version(r, p)
    BY <2>2, <2>3, VersionNat, VersionNatNext
  <2>5. /\ \A n \in new : n.origin = o /\ n.seq = m.seq /\ n.from = m.to
                          /\ n.ttl = m.ttl - 1 /\ m.ttl > 1
        /\ m.ttl > 1 => \A s \in nbrs[m.to] \ {m.from} :
             \E n \in new : n.to = s /\ n.origin = o /\ n.seq = m.seq
    BY SentTo DEF PassedOn
  <2>6. o \in Router /\ v \in Nat /\ v = m.seq + 1
    BY <1>2
  <2>7. /\ m.from \in Holders(o, v)
        /\ Cardinality(Holders(o, v)) + m.ttl > MaxTtl
    BY DEF TravelsRight
  <2> HIDE DEF o, v, new
  <2>8. /\ Holders(o, v) \subseteq Holders(o, v)' /\ m.to \notin Holders(o, v)
        /\ m.to \in Holders(o, v)' /\ Holders(o, v)' \subseteq Router
        /\ Holders(o, v)' = Holders(o, v) \cup {m.to}
    <3>1. \A r \in Router : Version(r, o)' = IF r = m.to THEN v ELSE Version(r, o)
      BY <2>2, <2>6 DEF o
    <3> QED BY <2>3, <2>6, <3>1 DEF Holders
  <2>9. /\ IsFiniteSet(Holders(o, v)') /\ Cardinality(Holders(o, v)) \in Nat
        /\ Cardinality(Holders(o, v)') = Cardinality(Holders(o, v)) + 1
    <3>1. IsFiniteSet(Holders(o, v))
      BY <2>4, <2>6, HoldersGrow
    <3> QED BY <2>8, <3>1, FS_AddElement, FS_CardinalityType
  <2>10. m.ttl = 1 => Holders(o, v)' = Router
    <3>1. m.ttl = 1 => Cardinality(Holders(o, v)') >= Cardinality(Router)
      BY <1>2, <2>7, <2>9, FS_CardinalityType DEF SmallNetwork
    <3>2. /\ Cardinality(Holders(o, v)') <= Cardinality(Router)
          /\ Cardinality(Holders(o, v)') = Cardinality(Router) => Holders(o, v)' = Router
      BY <2>8, FS_Subset DEF SmallNetwork
    <3>3. Cardinality(Holders(o, v)') \in Nat /\ Cardinality(Router) \in Nat
      BY <2>9, FS_CardinalityType DEF SmallNetwork
    <3> QED BY <3>1, <3>2, <3>3
  <2>11. AllCovered'
    <3> SUFFICES ASSUME NEW r \in Router, NEW p \in Router, NEW s \in nbrs[r]
                 PROVE  Covered(r, s, p)'
      BY <1>3 DEF AllCovered
    <3>1. s \in Router /\ Covered(r, s, p)
      BY <1>3 DEF AllCovered
    <3>2. /\ Version(s, p)' >= Version(s, p)
          /\ Version(s, p) \in Nat /\ Version(s, p)' \in Nat
          /\ Version(r, p) \in Nat /\ Version(r, p)' \in Nat
      BY <2>4, <3>1
    <3>3. CASE r = m.to /\ p = o
      <4>1. Version(r, p)' = v
        BY <2>2, <3>3 DEF o
      <4>2. CASE Version(s, p)' >= v
        BY <2>6, <3>2, <4>1, <4>2 DEF Covered
      <4>3. CASE ~(Version(s, p)' >= v)
        <5>1. s # m.from /\ m.ttl > 1
          <6>1. s \notin Holders(o, v)'
            BY <3>3, <4>3 DEF Holders
          <6> QED BY <1>2, <2>7, <2>8, <2>10, <3>1, <6>1
        <5>2. PICK n \in new : n.to = s /\ n.origin = o /\ n.seq = m.seq
          BY <2>5, <3>3, <5>1
        <5> QED BY <2>1, <2>6, <3>3, <4>1, <5>2 DEF Covered
      <4> QED BY <4>2, <4>3
    <3>4. CASE ~(r = m.to /\ p = o)
      <4>1. Version(r, p)' = Version(r, p)
        BY <2>2, <3>4 DEF o
      <4>2. CASE Version(r, p) <= Version(s, p)
        BY <3>2, <4>1, <4>2 DEF Covered
      <4>3. CASE ~(Version(r, p) <= Version(s, p))
        <5>1. PICK n \in net : n.to = s /\ n.origin = p /\ n.seq + 1 >= Version(r, p)
          BY <3>1, <4>3 DEF Covered
        <5>2. CASE n # m
          BY <2>1, <4>1, <5>1, <5>2 DEF Covered
        <5>3. CASE n = m
          <6>1. Version(s, p)' = v
            BY <2>2, <3>1, <5>1, <5>3
          <6> QED BY <2>6, <3>2, <4>1, <5>1, <5>3, <6>1 DEF Covered
        <5> QED BY <5>2, <5>3
      <4> QED BY <4>2, <4>3
    <3> QED BY <3>3, <3>4
  <2>12. TravelsRight'
    <3> SUFFICES ASSUME NEW n \in net'
                 PROVE  /\ n.from \in Holders(n.origin, n.seq + 1)'
                        /\ Cardinality(Holders(n.origin, n.seq + 1)') + n.ttl > MaxTtl
      BY DEF TravelsRight
    <3>1. CASE n \in net
      <4>1. n \in Lsu
        BY <3>1 DEF MospfTypeOK
      <4>2. n.from \in Router /\ n.origin \in Router /\ n.seq + 1 \in Nat /\ n.ttl \in Nat
        BY <4>1, SeqNumType, MospfAssumption DEF Lsu
      <4> DEFINE p == n.origin
                 w == n.seq + 1
      <4>3. /\ Holders(p, w) \subseteq Holders(p, w)'
            /\ Cardinality(Holders(p, w)') \in Nat /\ Cardinality(Holders(p, w)) \in Nat
            /\ Cardinality(Holders(p, w)) <= Cardinality(Holders(p, w)')
        <5>1. p \in Router /\ w \in Nat
          BY <4>2
        <5> HIDE DEF p, w
        <5> QED BY <2>4, <5>1, HoldersGrow
      <4> QED BY <1>2, <3>1, <4>2, <4>3 DEF TravelsRight
    <3>2. CASE n \in new
      <4>1. /\ n.origin = o /\ n.seq + 1 = v /\ n.from = m.to /\ n.ttl = m.ttl - 1
        BY <2>5, <2>6, <3>2
      <4>2. /\ m.to \in Holders(o, v)'
            /\ Cardinality(Holders(o, v)') + n.ttl > MaxTtl
        BY <1>2, <2>7, <2>8, <2>9, <4>1
      <4>3. Holders(n.origin, n.seq + 1)' = Holders(o, v)'
        BY <4>1
      <4> QED BY <4>1, <4>2, <4>3
    <3> QED BY <2>1, <3>1, <3>2
  <2> QED BY <2>11, <2>12
<1> QED BY <1>4, <1>5

LEMMA FloodInvInit == MospfInit => FloodInv
BY DEF MospfInit, FloodInv, AllCovered, TravelsRight

LEMMA FloodInvNext ==
  ASSUME SmallNetwork, MospfTypeOK, MospfTypeOK', CopyInv, FloodInv, [MospfNext]_mospfVars
  PROVE  FloodInv'
<1> SUFFICES ASSUME calm' PROVE AllCovered' /\ TravelsRight'
  BY DEF FloodInv
<1>1. ASSUME NEW q \in Router, NEW s \in Router, Hello(q, s)
      PROVE  AllCovered' /\ TravelsRight'
  <2>1. /\ calm /\ \A o \in Router : db[q][o] = NoEntry
        /\ nbrs' = [nbrs EXCEPT ![q] = @ \cup {s}] /\ db' = db /\ net' = net
    BY <1>1 DEF Hello
  <2>2. AllCovered /\ TravelsRight
    BY <2>1 DEF FloodInv
  <2>3. \A r, o \in Router : Version(r, o)' = Version(r, o) /\ Version(r, o) \in Nat
    BY <2>1, VersionNat DEF Version
  <2>4. AllCovered'
    <3> SUFFICES ASSUME NEW r \in Router, NEW o \in Router, NEW t \in nbrs'[r]
                 PROVE  Covered(r, t, o)'
      BY DEF AllCovered
    <3>1. Covered(r, t, o)' <=> Covered(r, t, o)
      BY <2>1 DEF Covered, Version
    <3>2. CASE t \in nbrs[r]
      BY <2>2, <3>1, <3>2 DEF AllCovered
    <3>3. CASE t \notin nbrs[r]
      <4>1. r = q /\ t \in Router
        BY <2>1, <3>3 DEF MospfTypeOK
      <4>2. Version(r, o) = 0 /\ Version(t, o) \in Nat
        BY <2>1, <2>3, <4>1 DEF Version
      <4>3. Version(r, o) <= Version(t, o)
        BY <4>2
      <4> QED BY <3>1, <4>3 DEF Covered
    <3> QED BY <3>2, <3>3
  <2>5. TravelsRight'
    BY <2>1, <2>2 DEF TravelsRight, Holders, Version
  <2> QED BY <2>4, <2>5
<1>2. ASSUME NEW q \in Router, SendLsu(q) PROVE AllCovered' /\ TravelsRight'
  BY <1>2, FloodSend DEF SendLsu, FloodInv
<1>3. ASSUME NEW m \in net, ReceiveLsu(m) PROVE AllCovered' /\ TravelsRight'
  BY <1>3, FloodReceive DEF ReceiveLsu, FloodInv
<1>4. CASE UNCHANGED <<calm, nbrs, db, net>>
  <2>1. AllCovered /\ TravelsRight
    BY <1>4 DEF FloodInv
  <2>2. AllCovered'
    BY <1>4, <2>1 DEF AllCovered, Covered, Version
  <2>3. TravelsRight'
    BY <1>4, <2>1 DEF TravelsRight, Holders, Version
  <2> QED BY <2>2, <2>3
<1>5. ASSUME NEW q \in Router, StartLsuThread(q) PROVE UNCHANGED <<calm, nbrs, db, net>>
  BY <1>5 DEF StartLsuThread
<1>6. ~Trouble
  BY DEF Trouble
<1> QED BY <1>1, <1>2, <1>3, <1>4, <1>5, <1>6
        DEF MospfNext, NbrTimeout, LoseLsu, DbTimeout, mospfVars

\* In a network whose routers are at most one more than the hops an advertisement
\* may make (MOSPF_MAX_LSU_TTL), flooding past the interface something came
\* from leaves nobody out, in whatever order and on whatever cycles it arrives
\* (handle_mospf_lsu, send_mospf_lsu_msg).
THEOREM FloodingCovers ==
  ASSUME SmallNetwork
  PROVE  MospfSpec => []FloodCovers
<1>1. MospfTypeOK /\ MospfTypeOK' /\ CopyInv /\ FloodInv /\ [MospfNext]_mospfVars => FloodInv'
  BY FloodInvNext
<1>2. FloodInv => FloodCovers
  BY DEF FloodInv, FloodCovers, AllCovered, Covered
<1> QED BY <1>1, <1>2, FloodInvInit, TypeCorrect, CopyInvariant, PTL DEF MospfSpec

=============================================================================
