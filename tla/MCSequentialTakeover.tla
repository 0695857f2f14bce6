------------------------- MODULE MCSequentialTakeover -------------------------
(***************************************************************************)
(* The instances of SequentialTakeover that TLC checks: two arms and small *)
(* bounds on the environment, given in the cfg files.                      *)
(***************************************************************************)
EXTENDS SequentialTakeoverInv, TLC

(* The two arms are treated alike by every action and property. *)
Symmetry == Permutations(Arms)
=============================================================================
