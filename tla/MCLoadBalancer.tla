--------------------------- MODULE MCLoadBalancer ---------------------------
(***************************************************************************)
(* The instance of LoadBalancer for TLC: the two nodes of the list NODES,  *)
(* and functions of which none is special.                                 *)
(***************************************************************************)
EXTENDS LoadBalancer, TLC

Symmetric == Permutations(Functions)
=============================================================================
