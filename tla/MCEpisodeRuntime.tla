--------------------------- MODULE MCEpisodeRuntime ---------------------------
(***************************************************************************)
(* EpisodeRuntime for TLC: two Episodes and two processes, so that an      *)
(* Episode meets what an earlier one, or an earlier process, left behind.  *)
(***************************************************************************)
EXTENDS EpisodeRuntimeInv
=============================================================================
