---------------------------- MODULE RouterLocks ----------------------------
(***************************************************************************)
(* The threads of one mOSPF router of 09-mospf and the three mutexes they  *)
(* nest: mospf_lock, rtable_mutex and the ARP cache's lock.  The receive   *)
(* loop, the sending thread, the two checking threads and the ARP sweeper  *)
(* all reach ip_send_packet or the routing table in the end.  A step ends  *)
(* where a mutex is asked for or given back, or where a pointer into a     *)
(* shared list is about to be used; what is computed in between is left    *)
(* to Mospf, MospfRoutes and Router.                                       *)
(***************************************************************************)
EXTENDS Naturals

CONSTANTS
  MaxNbr,      \* bound of the model: neighbours of all interfaces together
  MaxPending   \* bound of the model: packets given up in one sweep

ASSUME LockAssumption == MaxNbr \in Nat /\ MaxPending \in Nat

\* The hello thread takes no lock and is left out.
Thread == {"receive", "lsu", "neighbours", "database", "sweep"}

Mutex == {"mospf", "rtable", "arp"}

\* Where a thread asks for a mutex, and which.
Wanted == [enter |-> "mospf", routes |-> "rtable", error |-> "rtable",
           send |-> "rtable", lookup |-> "arp", append |-> "arp",
           insert |-> "arp", sweep |-> "arp"]

\* Where it is when it has got it.
Within == [enter |-> "daemon", routes |-> "clear", error |-> "source",
           send |-> "match", lookup |-> "looking", append |-> "appending",
           insert |-> "inserting", sweep |-> "sweeping"]

\* Where a thread is; "routed" and "sourced" hold a route that was found.
Point == {"idle", "enter", "daemon", "routes", "clear", "rebuild", "leave",
          "error", "source", "sourced", "send", "match", "routed", "lookup",
          "looking", "append", "appending", "sent", "insert", "inserting",
          "sweep", "sweeping"}

\* What a thread's round is about.
Task == {"none", "start", "hello", "lsu", "flood", "forward", "report"}

VARIABLES
  at,        \* where each thread is
  held,      \* the mutexes each thread has
  task,      \* what it is doing
  left,      \* packets it has still to send, the present one included
  nbrs,      \* length of the neighbour lists
  dangling   \* threads whose pointer into a list was freed by another

lockVars == <<at, held, task, left, nbrs, dangling>>

LockInit ==
  /\ at = [t \in Thread |-> IF t = "lsu" THEN "enter" ELSE "idle"]
  /\ held = [t \in Thread |-> {}]
  /\ task = [t \in Thread |-> IF t = "lsu" THEN "start" ELSE "none"]
  /\ left = [t \in Thread |-> 0]
  /\ nbrs = 0
  /\ dangling = {}

Go(t, point) == at' = [at EXCEPT ![t] = point]

Unlock(t, m) == held' = [held EXCEPT ![t] = @ \ {m}]

Waits(t) == at[t] \in DOMAIN Wanted

Free(m) == \A t \in Thread : m \notin held[t]

\* pthread_mutex_lock: the mutexes are not recursive.
Lock(t) ==
  /\ Waits(t)
  /\ Free(Wanted[at[t]])
  /\ held' = [held EXCEPT ![t] = @ \cup {Wanted[at[t]]}]
  /\ Go(t, Within[at[t]])
  /\ UNCHANGED <<task, left, nbrs, dangling>>

-----------------------------------------------------------------------------
(***************************************************************************)
(* Rounds begin.                                                           *)
(***************************************************************************)

\* handle_packet: a mOSPF packet, an ARP reply, an IP packet that is answered
\* or forwarded, or one that has run out of time.
Receive ==
  /\ at["receive"] = "idle"
  /\ \/ /\ \E what \in {"hello", "lsu"} : task' = [task EXCEPT !["receive"] = what]
        /\ Go("receive", "enter")
        /\ UNCHANGED left
     \/ /\ Go("receive", "insert")
        /\ UNCHANGED <<task, left>>
     \/ /\ task' = [task EXCEPT !["receive"] = "forward"]
        /\ left' = [left EXCEPT !["receive"] = 1]
        /\ Go("receive", "send")
     \/ /\ task' = [task EXCEPT !["receive"] = "report"]
        /\ left' = [left EXCEPT !["receive"] = 1]
        /\ Go("receive", "error")
  /\ UNCHANGED <<held, nbrs, dangling>>

\* sleep(1) or pthread_cond_timedwait is over.
Wake(t) ==
  /\ t # "receive" /\ at[t] = "idle"
  /\ Go(t, IF t = "sweep" THEN "sweep" ELSE "enter")
  /\ UNCHANGED <<held, task, left, nbrs, dangling>>

-----------------------------------------------------------------------------
(***************************************************************************)
(* Under mospf_lock.                                                       *)
(***************************************************************************)

\* send_mospf_lsu_msg walks the lists of neighbours; the handler leaves those
\* out that are on the interface it came from, or all when the time to live
\* is over.
Flood(t) ==
  \E n \in IF t = "lsu" THEN {nbrs} ELSE 0..nbrs :
    IF n = 0
    THEN Go(t, "leave") /\ UNCHANGED <<task, left>>
    ELSE /\ task' = [task EXCEPT ![t] = "flood"]
         /\ left' = [left EXCEPT ![t] = n]
         /\ Go(t, "send")

\* handle_mospf_hello
Hello ==
  /\ at["receive"] = "daemon" /\ task["receive"] = "hello"
  /\ nbrs' \in {nbrs, nbrs + 1} /\ nbrs' <= MaxNbr
  /\ Go("receive", "leave")
  /\ UNCHANGED <<held, task, left, dangling>>

\* handle_mospf_lsu: nothing new, or new while the own entry is missing and
\* update_routing_table_from_database returns at once, or new.
HandleLsu ==
  /\ at["receive"] = "daemon" /\ task["receive"] = "lsu"
  /\ \/ Go("receive", "leave") /\ UNCHANGED <<task, left>>
     \/ Flood("receive")
     \/ Go("receive", "routes") /\ UNCHANGED <<task, left>>
  /\ UNCHANGED <<held, nbrs, dangling>>

\* sending_mospf_lsu_thread, up to its first wait or in a round.
SendLsu ==
  /\ at["lsu"] = "daemon"
  /\ IF task["lsu"] = "start" THEN Go("lsu", "leave") /\ UNCHANGED <<task, left>>
     ELSE Flood("lsu")
  /\ UNCHANGED <<held, nbrs, dangling>>

\* send_mospf_lsu_msg has a neighbour in hand.
Walking(t) == task[t] = "flood"

\* checking_nbr_thread frees those that are too old.
CheckNbr ==
  /\ at["neighbours"] = "daemon"
  /\ \E n \in 0..nbrs :
       /\ nbrs' = n
       /\ dangling' = dangling \cup (IF n < nbrs THEN {t \in Thread : Walking(t)} ELSE {})
  /\ Go("neighbours", "leave")
  /\ UNCHANGED <<held, task, left>>

\* check_mospf_db_timeout
CheckDatabase ==
  /\ at["database"] = "daemon"
  /\ Go("database", "leave") \/ Go("database", "routes")
  /\ UNCHANGED <<held, task, left, nbrs, dangling>>

\* pthread_mutex_unlock(&mospf_lock), or waiting for the condition.
Leave(t) ==
  /\ at[t] = "leave"
  /\ Unlock(t, "mospf")
  /\ task' = [task EXCEPT ![t] = "none"]
  /\ Go(t, "idle")
  /\ UNCHANGED <<left, nbrs, dangling>>

-----------------------------------------------------------------------------
(***************************************************************************)
(* Under rtable_mutex.                                                     *)
(***************************************************************************)

\* clear_rtable frees every route.
ClearTable(t) ==
  /\ at[t] = "clear"
  /\ dangling' = dangling \cup {s \in Thread : at[s] \in {"routed", "sourced"}}
  /\ Go(t, "rebuild")
  /\ UNCHANGED <<held, task, left, nbrs>>

\* The table is filled again; the handler then passes the message on.
Rebuilt(t) ==
  /\ at[t] = "rebuild"
  /\ Unlock(t, "rtable")
  /\ IF t = "receive" THEN Flood(t) ELSE Go(t, "leave") /\ UNCHANGED <<task, left>>
  /\ UNCHANGED <<nbrs, dangling>>

\* A packet is dealt with; the next one, or the end of the round.
SendDone(t) ==
  /\ left' = [left EXCEPT ![t] = @ - 1]
  /\ Go(t, IF left[t] > 1 THEN (IF task[t] = "report" THEN "error" ELSE "send")
           ELSE IF task[t] = "flood" THEN "leave" ELSE "idle")
  /\ task' = IF left[t] > 1 \/ task[t] = "flood" THEN task ELSE [task EXCEPT ![t] = "none"]

\* icmp_send_packet looks for the interface that leads back.
FindSource(t) ==
  /\ at[t] = "source"
  /\ \/ SendDone(t) /\ Unlock(t, "rtable")
     \/ Go(t, "sourced") /\ UNCHANGED <<held, task, left>>
  /\ UNCHANGED <<nbrs, dangling>>

UseSource(t) ==
  /\ at[t] = "sourced"
  /\ Unlock(t, "rtable")
  /\ Go(t, "send")
  /\ UNCHANGED <<task, left, nbrs, dangling>>

\* Mutated form: the early return keeps the mutex.
MatchKeeping(t) ==
  /\ at[t] = "match"
  /\ \/ SendDone(t) /\ UNCHANGED held
     \/ Go(t, "routed") /\ UNCHANGED <<held, task, left>>
  /\ UNCHANGED <<nbrs, dangling>>

\* Mutated form: the mutex is given back before the route is used.
MatchUnlocking(t) ==
  /\ at[t] = "match"
  /\ Unlock(t, "rtable")
  /\ SendDone(t) \/ (Go(t, "routed") /\ UNCHANGED <<task, left>>)
  /\ UNCHANGED <<nbrs, dangling>>

\* longest_prefix_match in ip_send_packet, without or with success.
Match(t) ==
  /\ at[t] = "match"
  /\ \/ SendDone(t) /\ Unlock(t, "rtable")
     \/ Go(t, "routed") /\ UNCHANGED <<held, task, left>>
  /\ UNCHANGED <<nbrs, dangling>>

\* The route's gateway and interface are read.
UseRoute(t) ==
  /\ at[t] = "routed"
  /\ Go(t, "lookup")
  /\ UNCHANGED <<held, task, left, nbrs, dangling>>

\* The end of ip_send_packet.
Sent(t) ==
  /\ at[t] = "sent"
  /\ Unlock(t, "rtable")
  /\ SendDone(t)
  /\ UNCHANGED <<nbrs, dangling>>

-----------------------------------------------------------------------------
(***************************************************************************)
(* Under the ARP cache's lock.                                             *)
(***************************************************************************)

\* arpcache_lookup
Lookup(t) ==
  /\ at[t] = "looking"
  /\ Unlock(t, "arp")
  /\ Go(t, "sent") \/ Go(t, "append")
  /\ UNCHANGED <<task, left, nbrs, dangling>>

\* arpcache_append_packet
AppendPacket(t) ==
  /\ at[t] = "appending"
  /\ Unlock(t, "arp")
  /\ Go(t, "sent")
  /\ UNCHANGED <<task, left, nbrs, dangling>>

\* arpcache_insert
Insert ==
  /\ at["receive"] = "inserting"
  /\ Unlock("receive", "arp")
  /\ Go("receive", "idle")
  /\ UNCHANGED <<task, left, nbrs, dangling>>

\* Mutated form: the lock is kept while errors are sent.
SweepLocked ==
  /\ at["sweep"] = "sweeping"
  /\ \E n \in 0..MaxPending :
       IF n = 0 THEN Unlock("sweep", "arp") /\ Go("sweep", "idle") /\ UNCHANGED <<task, left>>
       ELSE /\ task' = [task EXCEPT !["sweep"] = "report"]
            /\ left' = [left EXCEPT !["sweep"] = n]
            /\ Go("sweep", "error")
            /\ UNCHANGED held
  /\ UNCHANGED <<nbrs, dangling>>

\* arpcache_sweep: what was given up is reported after the lock was released.
Sweep ==
  /\ at["sweep"] = "sweeping"
  /\ Unlock("sweep", "arp")
  /\ \E n \in 0..MaxPending :
       IF n = 0 THEN Go("sweep", "idle") /\ UNCHANGED <<task, left>>
       ELSE /\ task' = [task EXCEPT !["sweep"] = "report"]
            /\ left' = [left EXCEPT !["sweep"] = n]
            /\ Go("sweep", "error")
  /\ UNCHANGED <<nbrs, dangling>>

-----------------------------------------------------------------------------
\* The steps of a thread inside its critical sections.
Work(t) ==
  \/ t = "receive" /\ (Hello \/ HandleLsu \/ Insert)
  \/ t = "lsu" /\ SendLsu
  \/ t = "neighbours" /\ CheckNbr
  \/ t = "database" /\ CheckDatabase
  \/ t = "sweep" /\ Sweep
  \/ ClearTable(t) \/ Rebuilt(t) \/ Leave(t)
  \/ FindSource(t) \/ UseSource(t)
  \/ Match(t) \/ UseRoute(t) \/ Sent(t)
  \/ Lookup(t) \/ AppendPacket(t)

LockNext ==
  \/ Receive
  \/ \E t \in Thread : Wake(t) \/ Lock(t) \/ Work(t)

LockSpec == LockInit /\ [][LockNext]_lockVars

\* No critical section waits for anything but a mutex, so threads go on in it; a
\* mutex that is free again and again is got in the end, since its holders
\* sleep or poll between their rounds.  A thread is either in a critical section,
\* where Work stays enabled, or at a mutex, so that strong fairness says both.
FairLockSpec ==
  /\ LockSpec
  /\ \A t \in Thread : SF_lockVars(Lock(t) \/ Work(t))

-----------------------------------------------------------------------------
(***************************************************************************)
(* Properties.                                                             *)
(***************************************************************************)

\* No threads wait for one another in a circle, and none for itself: whatever
\* set of threads one takes, some thread of it does not wait for a mutex that
\* one of them has.
NoCircularWait ==
  \A S \in (SUBSET Thread) \ {{}} :
    \E t \in S : ~(Waits(t) /\ \E s \in S : Wanted[at[t]] \in held[s])

\* No thread goes on with a route after clear_rtable or with a neighbour list
\* after checking_nbr_thread has freed what it points to.
PointersLive == dangling = {}

\* Every round ends: no thread is kept waiting for ever, and every path out of
\* the nested functions gives back what it has locked.
RoundsEnd == \A t \in Thread : at[t] # "idle" ~> at[t] = "idle"

=============================================================================
