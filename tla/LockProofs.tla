----------------------------- MODULE LockProofs -----------------------------
(***************************************************************************)
(* Proofs about RouterLocks, for any number of neighbours and packets: the *)
(* mutexes are taken in one order, so that no circle of threads can wait,  *)
(* and every list is changed only while nobody else points into it.        *)
(***************************************************************************)
EXTENDS RouterLocks, TLAPS

\* Every variable keeps its type.
LockTypeOK ==
  /\ at \in [Thread -> Point]
  /\ held \in [Thread -> SUBSET Mutex]
  /\ task \in [Thread -> Task]
  /\ left \in [Thread -> Nat]
  /\ nbrs \in Nat
  /\ dangling \subseteq Thread

SendPoint == {"send", "match", "routed", "lookup", "looking", "append", "appending", "sent"}

ReportPoint == {"error", "source", "sourced"}

\* What a thread has at a point, with its task.
HeldAt(p, w) ==
  {m \in Mutex :
     \/ /\ m = "mospf"
        /\ p \in {"daemon", "routes", "clear", "rebuild", "leave"} \/ w = "flood"
     \/ /\ m = "rtable"
        /\ p \in {"clear", "rebuild", "source", "sourced"} \cup (SendPoint \ {"send"})
     \/ /\ m = "arp"
        /\ p \in {"looking", "appending", "inserting", "sweeping"}}

\* A thread has exactly the mutexes of its point, and sends a message on only
\* where it has mospf_lock; while it sends there is something left.
Discipline ==
  \A t \in Thread :
    /\ held[t] = HeldAt(at[t], task[t])
    /\ task[t] = "flood" => at[t] \in SendPoint \cup {"leave"}
    /\ at[t] \in SendPoint \cup ReportPoint => left[t] > 0

Exclusion == \A s, t \in Thread : s # t => held[s] \cap held[t] = {}

\* The inductive invariant.
LockInv == LockTypeOK /\ Discipline /\ Exclusion /\ PointersLive

-----------------------------------------------------------------------------
(***************************************************************************)
(* The invariant.                                                          *)
(***************************************************************************)

\* What a single thread does to itself keeps the discipline of all, if it
\* takes no mutex that another has.
LEMMA LocalStep ==
  ASSUME LockInv, NEW t \in Thread,
         \A s \in Thread \ {t} : /\ at'[s] = at[s] /\ held'[s] = held[s]
                                 /\ task'[s] = task[s] /\ left'[s] = left[s],
         held'[t] = HeldAt(at'[t], task'[t]),
         task'[t] = "flood" => at'[t] \in SendPoint \cup {"leave"},
         at'[t] \in SendPoint \cup ReportPoint => left'[t] > 0,
         \A m \in held'[t] \ held[t] : Free(m)
  PROVE  Discipline' /\ Exclusion'
<1>1. Discipline'
  BY DEF Discipline, LockInv, HeldAt
<1>2. Exclusion'
  <2> SUFFICES ASSUME NEW r \in Thread, NEW s \in Thread, r # s
               PROVE  held'[r] \cap held'[s] = {}
    BY DEF Exclusion
  <2>1. \A s1 \in Thread \ {t} : held'[t] \cap held[s1] = {}
    BY DEF LockInv, Exclusion, Free
  <2> QED BY <2>1 DEF LockInv, Exclusion
<1> QED BY <1>1, <1>2

LEMMA LockStart == LockInit => LockInv
BY LockAssumption DEF LockInit, LockInv, LockTypeOK, Discipline, Exclusion, PointersLive,
   HeldAt, SendPoint, ReportPoint, Thread, Mutex, Point, Task

\* A mutex that is got was free.
LEMMA LockKeeps ==
  ASSUME LockInv, NEW t \in Thread, Lock(t)
  PROVE  LockInv'
<1> USE DEF Lock, LockInv, Go
<1>1. at[t] \in DOMAIN Wanted /\ Wanted[at[t]] \in Mutex /\ Within[at[t]] \in Point
  BY DEF Waits, Wanted, Within, Mutex, Point
<1>2. LockTypeOK'
  BY <1>1 DEF LockTypeOK
<1>3. Discipline' /\ Exclusion'
  <2>1. at'[t] = Within[at[t]] /\ held'[t] = held[t] \cup {Wanted[at[t]]} /\ task'[t] = task[t]
        /\ left'[t] = left[t]
    BY DEF LockTypeOK
  <2>2. held'[t] = HeldAt(at'[t], task'[t])
    BY <1>1, <2>1 DEF Discipline, HeldAt, Wanted, Within, SendPoint, Mutex
  <2>3. task'[t] = "flood" => at'[t] \in SendPoint \cup {"leave"}
    BY <1>1, <2>1 DEF Discipline, Wanted, Within, SendPoint
  <2>4. at'[t] \in SendPoint \cup ReportPoint => left'[t] > 0
    BY <1>1, <2>1 DEF Discipline, Wanted, Within, SendPoint, ReportPoint
  <2>5. \A s \in Thread \ {t} : /\ at'[s] = at[s] /\ held'[s] = held[s]
                                /\ task'[s] = task[s] /\ left'[s] = left[s]
    BY DEF LockTypeOK
  <2>6. \A m \in held'[t] \ held[t] : Free(m)
    BY <2>1
  <2> QED BY <2>2, <2>3, <2>4, <2>5, <2>6, LocalStep
<1> QED BY <1>2, <1>3 DEF PointersLive

\* A round begins without a mutex.
LEMMA BeginKeeps ==
  ASSUME LockInv, Receive \/ \E t \in Thread : Wake(t)
  PROVE  LockInv'
<1>1. CASE Receive
  <2> USE <1>1 DEF Receive, Go, LockInv
  <2>1. LockTypeOK'
    BY DEF LockTypeOK, Point, Task, Thread
  <2>2. "receive" \in Thread
    BY DEF Thread
  <2>3. held["receive"] = {} /\ task["receive"] # "flood"
    BY <2>2 DEF Discipline, HeldAt, SendPoint, Mutex
  <2>4. held'["receive"] = HeldAt(at'["receive"], task'["receive"])
    BY <2>2, <2>3 DEF LockTypeOK, HeldAt, SendPoint, Mutex
  <2>5. /\ task'["receive"] # "flood"
        /\ at'["receive"] \in SendPoint \cup ReportPoint => left'["receive"] > 0
    BY <2>2, <2>3 DEF LockTypeOK, SendPoint, ReportPoint
  <2>6. \A s \in Thread \ {"receive"} : /\ at'[s] = at[s] /\ held'[s] = held[s]
                                        /\ task'[s] = task[s] /\ left'[s] = left[s]
    BY DEF LockTypeOK
  <2>7. Discipline' /\ Exclusion'
    BY <2>2, <2>4, <2>5, <2>6, LocalStep
  <2> QED BY <2>1, <2>7 DEF PointersLive
<1>2. ASSUME NEW t \in Thread, Wake(t) PROVE LockInv'
  <2> USE <1>2 DEF Wake, Go, LockInv
  <2>1. LockTypeOK'
    BY DEF LockTypeOK, Point
  <2>2. held[t] = {} /\ task[t] # "flood"
    BY DEF Discipline, HeldAt, SendPoint, Mutex
  <2>3. held'[t] = HeldAt(at'[t], task'[t])
    BY <2>2 DEF LockTypeOK, HeldAt, SendPoint, Mutex
  <2>4. task'[t] # "flood" /\ at'[t] \notin SendPoint \cup ReportPoint
    BY <2>2 DEF LockTypeOK, SendPoint, ReportPoint
  <2>5. \A s \in Thread \ {t} : /\ at'[s] = at[s] /\ held'[s] = held[s]
                                /\ task'[s] = task[s] /\ left'[s] = left[s]
    BY DEF LockTypeOK
  <2>6. Discipline' /\ Exclusion'
    BY <2>3, <2>4, <2>5, LocalStep
  <2> QED BY <2>1, <2>6 DEF PointersLive
<1> QED BY <1>1, <1>2

-----------------------------------------------------------------------------
(***************************************************************************)
(* The critical sections.                                                  *)
(***************************************************************************)

\* Walking the neighbour lists starts with mospf_lock alone.
LEMMA FloodKeeps ==
  ASSUME LockInv, NEW t \in Thread, Flood(t), held[t] \in {{"mospf"}, {"mospf", "rtable"}},
         held' = [held EXCEPT ![t] = {"mospf"}], task[t] # "flood",
         UNCHANGED <<nbrs, dangling>>
  PROVE  LockInv'
<1> USE DEF LockInv
<1>1. PICK n \in 0..nbrs :
        IF n = 0 THEN Go(t, "leave") /\ UNCHANGED <<task, left>>
        ELSE /\ task' = [task EXCEPT ![t] = "flood"]
             /\ left' = [left EXCEPT ![t] = n]
             /\ Go(t, "send")
  BY DEF Flood, LockTypeOK
<1>2. LockTypeOK'
  BY <1>1 DEF LockTypeOK, Go, Point, Task, Mutex
<1>3. held'[t] = HeldAt(at'[t], task'[t])
  BY <1>1 DEF LockTypeOK, Go, HeldAt, SendPoint, Mutex
<1>4. /\ at'[t] \in {"send", "leave"}
      /\ at'[t] = "send" => left'[t] > 0
  BY <1>1 DEF LockTypeOK, Go
<1>5. \A s \in Thread \ {t} : /\ at'[s] = at[s] /\ held'[s] = held[s]
                              /\ task'[s] = task[s] /\ left'[s] = left[s]
  BY <1>1 DEF LockTypeOK, Go
<1>6. \A m \in held'[t] \ held[t] : Free(m)
  BY DEF LockTypeOK
<1>7. Discipline' /\ Exclusion'
  BY <1>3, <1>4, <1>5, <1>6, LocalStep DEF SendPoint, ReportPoint
<1> QED BY <1>2, <1>7 DEF PointersLive

\* A thread that is done with a packet has given back all but the mutex of its
\* walk.
LEMMA DoneKeeps ==
  ASSUME LockInv, NEW t \in Thread, at[t] \in {"source", "match", "sent"}, SendDone(t),
         Unlock(t, "rtable"), UNCHANGED <<nbrs, dangling>>
  PROVE  LockInv'
<1> USE DEF LockInv, SendDone, Unlock, Go
<1>1. left[t] > 0 /\ left[t] \in Nat
  BY DEF Discipline, LockTypeOK, SendPoint, ReportPoint
<1>2. LockTypeOK'
  BY <1>1 DEF LockTypeOK, Point, Task
<1>3. held[t] = {"rtable"} \cup (IF task[t] = "flood" THEN {"mospf"} ELSE {})
  BY DEF Discipline, HeldAt, SendPoint, Mutex
<1>4. at[t] = "source" => task[t] # "flood"
  BY DEF Discipline, SendPoint
<1>5. held'[t] = HeldAt(at'[t], task'[t])
  BY <1>3 DEF LockTypeOK, HeldAt, SendPoint, Mutex
<1>6. task'[t] = "flood" => at'[t] \in SendPoint \cup {"leave"}
  BY <1>4 DEF LockTypeOK, SendPoint
<1>7. at'[t] \in SendPoint \cup ReportPoint => left'[t] > 0
  BY <1>1 DEF LockTypeOK, SendPoint, ReportPoint
<1>8. \A s \in Thread \ {t} : /\ at'[s] = at[s] /\ held'[s] = held[s]
                              /\ task'[s] = task[s] /\ left'[s] = left[s]
  BY DEF LockTypeOK
<1>9. held'[t] \subseteq held[t]
  BY DEF LockTypeOK
<1>10. Discipline' /\ Exclusion'
  BY <1>5, <1>6, <1>7, <1>8, <1>9, LocalStep
<1> QED BY <1>2, <1>10 DEF PointersLive

\* A step within a thread that gives back at most what it does not keep.
LEMMA MoveKeeps ==
  ASSUME LockInv, NEW t \in Thread, NEW p \in Point, Go(t, p),
         NEW h \in SUBSET held[t], held' = [held EXCEPT ![t] = h],
         h = HeldAt(p, task[t]), UNCHANGED <<task, left>>,
         task[t] = "flood" => p \in SendPoint \cup {"leave"},
         p \in SendPoint \cup ReportPoint => at[t] \in SendPoint \cup ReportPoint
  PROVE  Discipline' /\ Exclusion'
<1> USE DEF LockInv, Go
<1>1. at'[t] = p /\ held'[t] = h /\ task'[t] = task[t] /\ left'[t] = left[t]
  BY DEF LockTypeOK
<1>2. \A s \in Thread \ {t} : /\ at'[s] = at[s] /\ held'[s] = held[s]
                              /\ task'[s] = task[s] /\ left'[s] = left[s]
  BY DEF LockTypeOK
<1>3. p \in SendPoint \cup ReportPoint => left[t] > 0
  BY DEF Discipline
<1> QED BY <1>1, <1>2, <1>3, LocalStep

\* A critical section that ends or goes on without sending anything.
LEMMA SimpleKeeps ==
  ASSUME LockInv, NEW t \in Thread, NEW p \in Point, Go(t, p),
         NEW h \in SUBSET held[t], held' = [held EXCEPT ![t] = h],
         h = HeldAt(p, task[t]), UNCHANGED <<task, left>>,
         task[t] = "flood" => p \in SendPoint \cup {"leave"},
         p \in SendPoint \cup ReportPoint => at[t] \in SendPoint \cup ReportPoint,
         nbrs' \in Nat, dangling' = {}
  PROVE  LockInv'
<1>1. LockTypeOK'
  BY DEF LockInv, LockTypeOK, Go
<1>2. Discipline' /\ Exclusion'
  BY MoveKeeps
<1> QED BY <1>1, <1>2 DEF LockInv, PointersLive

\* What is freed, nobody else has in hand: whoever walks the lists has
\* mospf_lock, whoever uses a route has rtable_mutex.
LEMMA NothingFreed ==
  ASSUME LockInv
  PROVE  /\ at["neighbours"] = "daemon" => \A t \in Thread : ~Walking(t)
         /\ \A t \in Thread : at[t] = "clear" =>
              \A s \in Thread : at[s] \notin {"routed", "sourced"}
<1> USE DEF LockInv
<1>1. ASSUME at["neighbours"] = "daemon", NEW t \in Thread, Walking(t) PROVE FALSE
  <2>1. "neighbours" \in Thread /\ t # "neighbours"
    BY <1>1 DEF Thread, Walking, Discipline, SendPoint
  <2>2. "mospf" \in held[t] /\ "mospf" \in held["neighbours"]
    BY <1>1, <2>1 DEF Walking, Discipline, HeldAt, Mutex
  <2> QED BY <2>1, <2>2 DEF Exclusion
<1>2. ASSUME NEW t \in Thread, at[t] = "clear", NEW s \in Thread,
             at[s] \in {"routed", "sourced"}
      PROVE  FALSE
  <2>1. "rtable" \in held[t] /\ "rtable" \in held[s] /\ s # t
    BY <1>2 DEF Discipline, HeldAt, SendPoint, Mutex
  <2> QED BY <2>1 DEF Exclusion
<1> QED BY <1>1, <1>2

\* Every critical section keeps the invariant.
LEMMA WorkKeeps ==
  ASSUME LockInv, NEW t \in Thread, Work(t)
  PROVE  LockInv'
<1> USE DEF LockInv
<1> DEFINE has == HeldAt(at[t], task[t])
<1>0. /\ held[t] = has /\ held \in [Thread -> SUBSET Mutex] /\ dangling = {}
      /\ nbrs \in Nat
      /\ task[t] = "flood" => at[t] \in SendPoint \cup {"leave"}
  BY DEF Discipline, LockTypeOK, PointersLive
<1>1. CASE t = "receive" /\ Hello
  <2>1. Go(t, "leave") /\ at[t] = "daemon" /\ held' = held /\ nbrs' \in Nat
        /\ dangling' = dangling /\ UNCHANGED <<task, left>>
    BY <1>0, <1>1 DEF Hello
  <2>2. has = HeldAt("leave", task[t])
    BY <2>1 DEF HeldAt, SendPoint
  <2>3. held' = [held EXCEPT ![t] = held[t]]
    BY <1>0, <2>1
  <2> QED BY <1>0, <2>1, <2>2, <2>3, SimpleKeeps DEF SendPoint, ReportPoint, Point
<1>2. CASE t = "receive" /\ HandleLsu
  <2>1. at[t] = "daemon" /\ held' = held /\ nbrs' = nbrs /\ dangling' = dangling
        /\ task[t] = "lsu"
    BY <1>2 DEF HandleLsu
  <2>2. held[t] = {"mospf"} /\ held' = [held EXCEPT ![t] = held[t]]
    BY <1>0, <2>1 DEF HeldAt, SendPoint, Mutex
  <2>3. CASE Flood(t)
    BY <2>1, <2>2, <2>3, FloodKeeps
  <2>4. CASE Go(t, "leave") /\ UNCHANGED <<task, left>>
    <3>1. held[t] = HeldAt("leave", task[t])
      BY <2>1, <2>2 DEF HeldAt, SendPoint, Mutex
    <3> QED BY <1>0, <2>1, <2>2, <2>4, <3>1, SimpleKeeps DEF SendPoint, ReportPoint, Point
  <2>5. CASE Go(t, "routes") /\ UNCHANGED <<task, left>>
    <3>1. held[t] = HeldAt("routes", task[t])
      BY <2>1, <2>2 DEF HeldAt, SendPoint, Mutex
    <3> QED BY <1>0, <2>1, <2>2, <2>5, <3>1, SimpleKeeps DEF SendPoint, ReportPoint, Point
  <2> QED BY <1>2, <2>3, <2>4, <2>5 DEF HandleLsu
<1>3. CASE t = "receive" /\ Insert
  <2>1. at[t] = "inserting" /\ Go(t, "idle") /\ held' = [held EXCEPT ![t] = @ \ {"arp"}]
        /\ nbrs' = nbrs /\ dangling' = dangling /\ UNCHANGED <<task, left>>
    BY <1>3 DEF Insert, Unlock
  <2>2. held[t] \ {"arp"} = HeldAt("idle", task[t]) /\ task[t] # "flood"
    BY <1>0, <2>1 DEF HeldAt, SendPoint, Mutex
  <2> QED BY <1>0, <2>1, <2>2, SimpleKeeps DEF SendPoint, ReportPoint, Point
<1>4. CASE t = "lsu" /\ SendLsu
  <2>1. at[t] = "daemon" /\ held' = held /\ nbrs' = nbrs /\ dangling' = dangling
    BY <1>4 DEF SendLsu
  <2>2. held[t] = {"mospf"} /\ task[t] # "flood" /\ held' = [held EXCEPT ![t] = held[t]]
    BY <1>0, <2>1 DEF HeldAt, SendPoint, Mutex
  <2>3. CASE Flood(t)
    BY <2>1, <2>2, <2>3, FloodKeeps
  <2>4. CASE Go(t, "leave") /\ UNCHANGED <<task, left>>
    <3>1. held[t] = HeldAt("leave", task[t])
      BY <2>1, <2>2 DEF HeldAt, SendPoint, Mutex
    <3> QED BY <1>0, <2>1, <2>2, <2>4, <3>1, SimpleKeeps DEF SendPoint, ReportPoint, Point
  <2> QED BY <1>4, <2>3, <2>4 DEF SendLsu
<1>5. CASE t = "neighbours" /\ CheckNbr
  <2>1. at[t] = "daemon" /\ held' = held /\ nbrs' \in Nat /\ Go(t, "leave")
        /\ UNCHANGED <<task, left>>
    BY <1>0, <1>5 DEF CheckNbr
  <2>2. dangling' = {}
    BY <1>0, <1>5, <2>1, NothingFreed DEF CheckNbr
  <2>3. held[t] = HeldAt("leave", task[t]) /\ held' = [held EXCEPT ![t] = held[t]]
    BY <1>0, <2>1 DEF HeldAt, SendPoint, Mutex
  <2> QED BY <1>0, <2>1, <2>2, <2>3, SimpleKeeps DEF SendPoint, ReportPoint, Point
<1>6. CASE t = "database" /\ CheckDatabase
  <2>1. at[t] = "daemon" /\ held' = held /\ nbrs' = nbrs /\ dangling' = dangling
        /\ UNCHANGED <<task, left>>
    BY <1>6 DEF CheckDatabase
  <2>2. PICK p \in {"leave", "routes"} : Go(t, p)
    BY <1>6 DEF CheckDatabase
  <2>3. held[t] = HeldAt(p, task[t]) /\ held' = [held EXCEPT ![t] = held[t]]
    BY <1>0, <2>1 DEF HeldAt, SendPoint, Mutex
  <2>4. p \in Point /\ p \notin SendPoint \cup ReportPoint /\ task[t] # "flood"
    BY <1>0, <2>1 DEF SendPoint, ReportPoint, Point
  <2> QED BY <1>0, <2>1, <2>2, <2>3, <2>4, SimpleKeeps
<1>7. CASE t = "sweep" /\ Sweep
  <2>1. at[t] = "sweeping" /\ held' = [held EXCEPT ![t] = @ \ {"arp"}] /\ nbrs' = nbrs
        /\ dangling' = dangling
    BY <1>7 DEF Sweep, Unlock
  <2>2. held[t] = {"arp"} /\ task[t] # "flood"
    BY <1>0, <2>1 DEF HeldAt, SendPoint, Mutex
  <2>3. CASE Go(t, "idle") /\ UNCHANGED <<task, left>>
    <3>1. held[t] \ {"arp"} = HeldAt("idle", task[t])
      BY <2>2 DEF HeldAt, SendPoint, Mutex
    <3> QED BY <1>0, <2>1, <2>2, <2>3, <3>1, SimpleKeeps DEF SendPoint, ReportPoint, Point
  <2>4. ASSUME NEW n \in Nat \ {0}, task' = [task EXCEPT ![t] = "report"],
               left' = [left EXCEPT ![t] = n], Go(t, "error")
        PROVE  LockInv'
    <3>1. LockTypeOK'
      BY <2>1, <2>4 DEF LockTypeOK, Go, Point, Task
    <3>2. at'[t] = "error" /\ held'[t] = {} /\ task'[t] = "report" /\ left'[t] > 0
      BY <2>1, <2>2, <2>4 DEF LockTypeOK, Go
    <3>3. held'[t] = HeldAt(at'[t], task'[t])
      BY <3>2 DEF HeldAt, SendPoint, Mutex
    <3>4. \A s \in Thread \ {t} : /\ at'[s] = at[s] /\ held'[s] = held[s]
                                  /\ task'[s] = task[s] /\ left'[s] = left[s]
      BY <2>1, <2>4 DEF LockTypeOK, Go
    <3>5. Discipline' /\ Exclusion'
      BY <3>2, <3>3, <3>4, LocalStep
    <3> QED BY <2>1, <3>1, <3>5 DEF PointersLive
  <2> QED BY <1>7, <2>3, <2>4, LockAssumption DEF Sweep
<1>8. CASE ClearTable(t)
  <2>1. at[t] = "clear" /\ held' = held /\ nbrs' = nbrs /\ Go(t, "rebuild")
        /\ UNCHANGED <<task, left>>
    BY <1>8 DEF ClearTable
  <2>2. dangling' = {}
    BY <1>0, <1>8, <2>1, NothingFreed DEF ClearTable
  <2>3. held[t] = HeldAt("rebuild", task[t]) /\ held' = [held EXCEPT ![t] = held[t]]
    BY <1>0, <2>1 DEF HeldAt, SendPoint, Mutex
  <2> QED BY <1>0, <2>1, <2>2, <2>3, SimpleKeeps DEF SendPoint, ReportPoint, Point
<1>9. CASE Rebuilt(t)
  <2>1. at[t] = "rebuild" /\ held' = [held EXCEPT ![t] = @ \ {"rtable"}] /\ nbrs' = nbrs
        /\ dangling' = dangling
    BY <1>9 DEF Rebuilt, Unlock
  <2>2. held[t] = {"mospf", "rtable"} /\ task[t] # "flood"
    BY <1>0, <2>1 DEF HeldAt, SendPoint, Mutex
  <2>3. held' = [held EXCEPT ![t] = {"mospf"}]
    BY <1>0, <2>1, <2>2
  <2>4. CASE Flood(t)
    BY <2>1, <2>2, <2>3, <2>4, FloodKeeps
  <2>5. CASE Go(t, "leave") /\ UNCHANGED <<task, left>>
    <3>1. {"mospf"} = HeldAt("leave", task[t])
      BY <2>2 DEF HeldAt, SendPoint, Mutex
    <3> QED BY <1>0, <2>1, <2>2, <2>3, <2>5, <3>1, SimpleKeeps DEF SendPoint, ReportPoint, Point
  <2> QED BY <1>9, <2>4, <2>5 DEF Rebuilt
<1>10. CASE Leave(t)
  <2>1. at[t] = "leave" /\ held' = [held EXCEPT ![t] = @ \ {"mospf"}] /\ nbrs' = nbrs
        /\ dangling' = dangling /\ Go(t, "idle") /\ task' = [task EXCEPT ![t] = "none"]
        /\ left' = left
    BY <1>10 DEF Leave, Unlock
  <2>2. LockTypeOK'
    BY <2>1 DEF LockTypeOK, Go, Point, Task
  <2>3. at'[t] = "idle" /\ held'[t] = {} /\ task'[t] = "none"
    BY <1>0, <2>1 DEF LockTypeOK, Go, HeldAt, SendPoint, Mutex
  <2>4. held'[t] = HeldAt(at'[t], task'[t])
    BY <2>3 DEF HeldAt, SendPoint, Mutex
  <2>5. \A s \in Thread \ {t} : /\ at'[s] = at[s] /\ held'[s] = held[s]
                                /\ task'[s] = task[s] /\ left'[s] = left[s]
    BY <2>1 DEF LockTypeOK, Go
  <2>6. Discipline' /\ Exclusion'
    BY <2>3, <2>4, <2>5, LocalStep DEF SendPoint, ReportPoint
  <2> QED BY <2>1, <2>2, <2>6 DEF PointersLive
<1>11. CASE FindSource(t)
  <2>1. at[t] = "source" /\ nbrs' = nbrs /\ dangling' = dangling
    BY <1>11 DEF FindSource
  <2>2. CASE SendDone(t) /\ Unlock(t, "rtable")
    BY <2>1, <2>2, DoneKeeps
  <2>3. CASE Go(t, "sourced") /\ UNCHANGED <<held, task, left>>
    <3>1. held[t] = HeldAt("sourced", task[t]) /\ held' = [held EXCEPT ![t] = held[t]]
      BY <1>0, <2>1, <2>3 DEF HeldAt, SendPoint, Mutex
    <3> QED BY <1>0, <2>1, <2>3, <3>1, SimpleKeeps DEF SendPoint, ReportPoint, Point
  <2> QED BY <1>11, <2>2, <2>3 DEF FindSource
<1>12. CASE UseSource(t)
  <2>1. at[t] = "sourced" /\ held' = [held EXCEPT ![t] = held[t] \ {"rtable"}] /\ nbrs' = nbrs
        /\ dangling' = dangling /\ Go(t, "send") /\ UNCHANGED <<task, left>>
    BY <1>0, <1>12 DEF UseSource, Unlock
  <2>2. held[t] \ {"rtable"} = HeldAt("send", task[t])
    BY <1>0, <2>1 DEF HeldAt, SendPoint, Mutex
  <2> QED BY <1>0, <2>1, <2>2, SimpleKeeps DEF SendPoint, ReportPoint, Point
<1>13. CASE Match(t)
  <2>1. at[t] = "match" /\ nbrs' = nbrs /\ dangling' = dangling
    BY <1>13 DEF Match
  <2>2. CASE SendDone(t) /\ Unlock(t, "rtable")
    BY <2>1, <2>2, DoneKeeps
  <2>3. CASE Go(t, "routed") /\ UNCHANGED <<held, task, left>>
    <3>1. held[t] = HeldAt("routed", task[t]) /\ held' = [held EXCEPT ![t] = held[t]]
      BY <1>0, <2>1, <2>3 DEF HeldAt, SendPoint, Mutex
    <3> QED BY <1>0, <2>1, <2>3, <3>1, SimpleKeeps DEF SendPoint, ReportPoint, Point
  <2> QED BY <1>13, <2>2, <2>3 DEF Match
<1>14. CASE UseRoute(t)
  <2>1. at[t] = "routed" /\ held' = [held EXCEPT ![t] = held[t]] /\ nbrs' = nbrs
        /\ dangling' = dangling /\ Go(t, "lookup") /\ UNCHANGED <<task, left>>
    BY <1>0, <1>14 DEF UseRoute
  <2>2. held[t] = HeldAt("lookup", task[t])
    BY <1>0, <2>1 DEF HeldAt, SendPoint, Mutex
  <2> QED BY <1>0, <2>1, <2>2, SimpleKeeps DEF SendPoint, ReportPoint, Point
<1>15. CASE Sent(t)
  BY <1>15, DoneKeeps DEF Sent
<1>16. CASE Lookup(t)
  <2>1. at[t] = "looking" /\ held' = [held EXCEPT ![t] = held[t] \ {"arp"}] /\ nbrs' = nbrs
        /\ dangling' = dangling /\ UNCHANGED <<task, left>>
    BY <1>16 DEF Lookup, Unlock
  <2>2. PICK p \in {"sent", "append"} : Go(t, p)
    BY <1>16 DEF Lookup
  <2>3. held[t] \ {"arp"} = HeldAt(p, task[t])
    BY <1>0, <2>1 DEF HeldAt, SendPoint, Mutex
  <2> QED BY <1>0, <2>1, <2>2, <2>3, SimpleKeeps DEF SendPoint, ReportPoint, Point
<1>17. CASE AppendPacket(t)
  <2>1. at[t] = "appending" /\ held' = [held EXCEPT ![t] = held[t] \ {"arp"}] /\ nbrs' = nbrs
        /\ dangling' = dangling /\ Go(t, "sent") /\ UNCHANGED <<task, left>>
    BY <1>0, <1>17 DEF AppendPacket, Unlock
  <2>2. held[t] \ {"arp"} = HeldAt("sent", task[t])
    BY <1>0, <2>1 DEF HeldAt, SendPoint, Mutex
  <2> QED BY <1>0, <2>1, <2>2, SimpleKeeps DEF SendPoint, ReportPoint, Point
<1> QED
  BY <1>1, <1>2, <1>3, <1>4, <1>5, <1>6, <1>7, <1>8, <1>9, <1>10, <1>11, <1>12, <1>13,
     <1>14, <1>15, <1>16, <1>17 DEF Work

\* The inductive invariant holds in every state.
THEOREM LockInvariant == LockSpec => []LockInv
<1>1. LockInv /\ [LockNext]_lockVars => LockInv'
  <2> SUFFICES ASSUME LockInv, [LockNext]_lockVars PROVE LockInv'
    OBVIOUS
  <2>1. CASE UNCHANGED lockVars
    BY <2>1 DEF lockVars, LockInv, LockTypeOK, Discipline, Exclusion, PointersLive
  <2> QED BY <2>1, BeginKeeps, LockKeeps, WorkKeeps DEF LockNext
<1> QED BY <1>1, LockStart, PTL DEF LockSpec

-----------------------------------------------------------------------------
(***************************************************************************)
(* The properties.                                                         *)
(***************************************************************************)

\* A thread asks only for mutexes that come after those it has, in the order
\* mospf_lock, rtable_mutex, arpcache.lock.
LEMMA InOrder ==
  ASSUME LockInv, NEW t \in Thread, Waits(t), NEW m \in held[t]
  PROVE  \/ m = "mospf" /\ Wanted[at[t]] \in {"rtable", "arp"}
         \/ m = "rtable" /\ Wanted[at[t]] = "arp"
<1>1. held[t] = HeldAt(at[t], task[t]) /\ (task[t] = "flood" => at[t] \in SendPoint \cup {"leave"})
  BY DEF LockInv, Discipline
<1> QED BY <1>1 DEF Waits, Wanted, HeldAt, SendPoint, Mutex

\* Threads never wait for one another in a circle.
THEOREM DeadlockFree == LockSpec => []NoCircularWait
<1>1. LockInv => NoCircularWait
  <2> SUFFICES ASSUME LockInv, NEW S \in SUBSET Thread, NEW t \in S,
                      \A s \in S : Waits(s) /\ \E r \in S : Wanted[at[s]] \in held[r]
               PROVE  FALSE
    BY DEF NoCircularWait
  <2>1. PICK r \in S : Wanted[at[t]] \in held[r]
    OBVIOUS
  <2>2. Wanted[at[r]] \in {"rtable", "arp"}
    BY <2>1, InOrder
  <2>3. PICK q \in S : Wanted[at[r]] \in held[q]
    OBVIOUS
  <2>4. Wanted[at[q]] = "arp"
    BY <2>2, <2>3, InOrder
  <2>5. PICK p \in S : Wanted[at[q]] \in held[p]
    OBVIOUS
  <2> QED BY <2>4, <2>5, InOrder
<1> QED BY <1>1, LockInvariant, PTL

\* No thread goes on with a route or a neighbour that another has freed.
THEOREM NoDanglingPointer == LockSpec => []PointersLive
<1>1. LockInv => PointersLive
  BY DEF LockInv
<1> QED BY <1>1, LockInvariant, PTL

=============================================================================
