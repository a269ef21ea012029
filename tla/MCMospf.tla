------------------------------- MODULE MCMospf -------------------------------
(***************************************************************************)
(* Three routers in a triangle, so that every advertisement reaches each   *)
(* of the others in two ways and comes back to its sender.                 *)
(***************************************************************************)
EXTENDS Mospf

MCRouter == 1..3
Triangle == {{1, 2}, {2, 3}, {1, 3}}

\* One router advertises twice; entries of different routers do not touch.
MCMaxSend == <<2, 0, 0>>

=============================================================================
