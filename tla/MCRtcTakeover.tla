----------------------------- MODULE MCRtcTakeover -----------------------------
(***************************************************************************)
(* The instances of RtcTakeover that TLC checks: two arms, small bounds on *)
(* the environment and small rollout profiles, given in the cfg files.     *)
(***************************************************************************)
EXTENDS RtcTakeoverInv, TLC

(* The two arms are treated alike by every action and property. *)
Symmetry == Permutations(Arms)
=============================================================================
