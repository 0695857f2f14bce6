--------------------------- MODULE EpisodeRuntimeInv ---------------------------
(***************************************************************************)
(* The inductive invariant behind the safety properties of EpisodeRuntime  *)
(* and its refinement of EpisodeArchive, in named parts.  TLC checks it on *)
(* the instance of MCEpisodeRuntime; that it is inductive for every value  *)
(* of the constants is proved in EpisodeRuntime_proofs.                    *)
(***************************************************************************)
EXTENDS EpisodeRuntime

(* From the closed MCAP to the formal directory: the recorder is gone. *)
Finalized == {"audit", "compress", "verify", "replace", "metadata", "commit"}

(* From the directory prepared to the directory committed. *)
Active == Steps \ {"idle", "check", "prepare", "leaving", "down"}

(* No recorder, publisher or thread before an Episode's own, nor after it. *)
CleanInv ==
    pc \in {"idle", "check", "prepare", "start", "down"} \cup Finalized
        => CanStart /\ thread = "none"

(* The Episodes are numbered in order, and nothing is on the disk of one    *)
(* that was not prepared yet.                                               *)
FreshInv ==
    /\ pc \in {"check", "prepare"} => current < MaxEpisodes
    /\ \A e \in Episodes : e > current =>
         bag[e] = "none" /\ mcap[e] = "none" /\ tmp[e] = "none" /\ place[e] = "none"

(* Whoever may write the disk writes it for an Episode that is a partial. *)
PartialInv ==
    pc \in Active \/ Alive => current \in Episodes /\ place[current] = "partial"

(* Until record() has returned nothing was recorded, so that entering late  *)
(* overwrites nothing.                                                      *)
EnterInv ==
    pc = "start" \/ thread = "starting" =>
        current \in Episodes /\ bag[current] = "none" /\ mcap[current] = "none"

(* How far the files are at each step of the finalization. *)
StageInv ==
    /\ pc \in {"unlink", "move", "rmdir"} => thread = "ended"
    /\ pc \in {"rmdir", "audit", "compress", "verify", "replace"} => mcap[current] = "raw"
    /\ pc \in {"compress", "verify", "replace"} => Compress
    /\ pc = "replace" => tmp[current] = "whole"
    /\ pc \in {"metadata", "commit"} => mcap[current] = IF Compress THEN "zstd" ELSE "raw"
    /\ pc = "commit" => meta[current] = outcome

(* A stop that raised is not finalized. *)
StopInv == pc \in {"unlink", "move", "rmdir"} \cup Finalized => ~stopError

IInv ==
    /\ TypeOK
    /\ CleanInv
    /\ FreshInv
    /\ PartialInv
    /\ EnterInv
    /\ StageInv
    /\ StopInv
    /\ CommittedIsComplete
=============================================================================
