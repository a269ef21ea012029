------------------------------ MODULE StpCrash ------------------------------
(***************************************************************************)
(* The switches of Stp, some of whose processes end and are started again  *)
(* (dump_output and the ring scripts end ./stp with SIGTERM and start it   *)
(* from the shell).  Nothing is persisted, so a restart is stp_init.       *)
(***************************************************************************)
EXTENDS Stp

CONSTANTS MaxCrash   \* bound of the model: how often some process ends

VARIABLES
  alive,    \* whether each switch's process runs
  crashes   \* how many processes have ended so far

cvars == <<vars, alive, crashes>>

CrashInit ==
  /\ Init
  /\ alive = [s \in Switch |-> TRUE]
  /\ crashes = 0

\* SIGTERM: stp_dump_state prints and exits.  What the process knew is gone;
\* what it sent is still on its way.
Crash(s) ==
  /\ alive[s]
  /\ crashes < MaxCrash
  /\ alive' = [alive EXCEPT ![s] = FALSE]
  /\ crashes' = crashes + 1
  /\ UNCHANGED vars

\* stp_init in a new process, whose sockets are new and empty.
Restart(s) ==
  /\ ~alive[s]
  /\ alive' = [alive EXCEPT ![s] = TRUE]
  /\ designatedRoot' = [designatedRoot EXCEPT ![s] = s]
  /\ rootPathCost' = [rootPathCost EXCEPT ![s] = 0]
  /\ rootPort' = [rootPort EXCEPT ![s] = NoPort]
  /\ helloActive' = [helloActive EXCEPT ![s] = TRUE]
  /\ info' = [p \in Port |-> IF Owner(p) = s THEN Config(s, 0, p) ELSE info[p]]
  /\ rxq' = [p \in Port |-> IF Owner(p) = s THEN <<>> ELSE rxq[p]]
  /\ UNCHANGED crashes

LiveReceive(p) == alive[Owner(p)] /\ Receive(p) /\ UNCHANGED <<alive, crashes>>

LiveHelloTimeout(s) == alive[s] /\ HelloTimeout(s) /\ UNCHANGED <<alive, crashes>>

LiveLose(p) == alive[Owner(p)] /\ Lose(p) /\ UNCHANGED <<alive, crashes>>

CrashNext ==
  \/ \E p \in Port : LiveReceive(p) \/ LiveLose(p)
  \/ \E s \in Switch : LiveHelloTimeout(s) \/ Crash(s) \/ Restart(s)

CrashSpec == CrashInit /\ [][CrashNext]_cvars

\* The timer thread polls every 100us, so an active timer fires again and
\* again; a link that carries frames for ever delivers infinitely many.  Nobody
\* is obliged to restart a switch.
FairCrashSpec ==
  /\ CrashSpec
  /\ \A s \in Switch : WF_cvars(LiveHelloTimeout(s))
  /\ \A p \in Port : SF_cvars(LiveReceive(p))

-----------------------------------------------------------------------------
\* What each switch has is consistent over restarts, its own and others', though
\* packets from before them arrive after them: its costs are supported by the
\* topology, and root port, hello timer and roles agree with the vectors it
\* stores (stp_init, stp_handle_config_packet).
SwitchesConsistent ==
  DistanceSound /\ RootPortSound /\ HelloIffRoot /\ RolesFollowVectors

\* What a switch believes never gets worse while its process runs, whoever else
\* ends, restarts and announces less than before: a port gives up a vector only
\* for one that beats it, and so does the election (stp_handle_config_packet).
BeliefOnlyImproves ==
  [][\A s \in Switch : alive[s] /\ alive'[s] =>
       \/ designatedRoot'[s] < designatedRoot[s]
       \/ designatedRoot'[s] = designatedRoot[s] /\ rootPathCost'[s] <= rootPathCost[s]]_cvars

\* Once every process runs for good, the network settles on a spanning tree,
\* whatever was believed, stored or on its way when the last one started, and
\* although any config packet may be lost: the root repeats its own, and a
\* switch relays what it already knew.
Reconverges == <>[](\A s \in Switch : alive[s]) => <>[]Converged

\* Equal vectors are accepted and passed on (stp_port_compare_priority), and
\* nothing stored times out.  Yet what a root sent does not circle among the
\* others for ever: when it is gone for good and they go on believing in it,
\* their sockets run empty.
LostRootFallsSilent ==
  \A s \in Switch :
    <>[](~alive[s] /\ \A t \in Switch \ {s} : alive[t] /\ designatedRoot[t] = s)
      => <>[](\A p \in Port : Owner(p) # s => rxq[p] = <<>>)

=============================================================================
