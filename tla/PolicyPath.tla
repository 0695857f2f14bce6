------------------------------ MODULE PolicyPath ------------------------------
(***************************************************************************)
(* The Policy path with its two users that no other module composes: the   *)
(* EXPO scheduler on an ExpoPolicyClient, and the Shadow loop on an        *)
(* AsyncPi05PolicyClient.  A Session has one of them.                      *)
(***************************************************************************)
EXTENDS ExpoScheduler, ShadowLoop

vars == <<pathVars, expoVars, shadowVars>>

Init == PathInit /\ ExpoInit /\ ShadowInit

Next ==
    \/ PathNext /\ UNCHANGED <<expoVars, shadowVars, twoPhase, activeEpoch, closed>>
    \/ twoPhase /\ (SessionNext \/ ExecutorNext) /\ UNCHANGED shadowVars
    \/ ~twoPhase /\ (HookNext \/ LoopNext) /\ UNCHANGED expoVars

Spec == Init /\ [][Next]_vars

FairSpec == Spec /\ WorkerFairness /\ LoopFairness

-----------------------------------------------------------------------------
(* docs/dagger/implementation.md:108 calls a runtime fault of the policy    *)
(* "an Episode-level failure" that does not stand in the way of the         *)
(* Session: an inference fails in an Episode only if something failed in it.*)
FailureStaysInItsEpisode ==
    \A k \in DOMAIN counted : ~counted[k].ok => counted[k].made \in struck

=============================================================================
