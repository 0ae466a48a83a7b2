------------------------- MODULE MCPassiveResource -------------------------
(***************************************************************************)
(* The instance of PassiveResource for TLC: both kinds, all faults.        *)
(***************************************************************************)
EXTENDS PassiveResource
=============================================================================
