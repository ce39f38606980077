------------------------------ MODULE MCTopology ------------------------------
(* Two graphics adapters that number their targets alike. *)
EXTENDS Topology
MCAdapter == <<1, 2>>
MCTarget == <<1, 1>>
===============================================================================
