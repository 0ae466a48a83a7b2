------------------------- MODULE MCManagedResource -------------------------
(***************************************************************************)
(* Instances of ManagedResource for TLC.  Uuids are interchangeable, so    *)
(* the safety runs take their permutations as symmetries; the liveness     *)
(* runs do not.  The payload values are not: the blank object holds a      *)
(* particular one.                                                         *)
(***************************************************************************)
EXTENDS ManagedResource, TLC

Symmetric == Permutations(Ids)
=============================================================================
