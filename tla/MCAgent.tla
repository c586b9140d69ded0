------------------------------ MODULE MCAgent ------------------------------
(* Model-checking instance of Agent: two kernel ids, four cores on two     *)
(* NUMA nodes, images asking for two cores.                                *)
EXTENDS Agent

MCNodeOf == (0 :> 0) @@ (1 :> 0) @@ (2 :> 1) @@ (3 :> 1)
=============================================================================
