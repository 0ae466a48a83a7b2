-------------------------- MODULE MCBoardInjection --------------------------
(***************************************************************************)
(* Instances of BoardInjection for TLC.  The names of the objects are      *)
(* interchangeable, and the safety run takes their permutations as         *)
(* symmetries; the liveness runs do not.                                   *)
(***************************************************************************)
EXTENDS BoardInjection, TLC

Symmetric == Permutations(Names)
=============================================================================
