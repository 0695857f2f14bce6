---------------------------- MODULE EpisodeArchive ----------------------------
(***************************************************************************)
(* What recording promises of every Episode it begins, however its process *)
(* ends: the Episode is a partial until it is committed, it is committed   *)
(* at most once and under one outcome, only with a whole recording, and a  *)
(* recording that was whole once is never lost.                            *)
(***************************************************************************)
CONSTANT Episodes

VARIABLES
    place, \* per Episode, where its directory is
    whole  \* per Episode, whether a complete MCAP of it exists

vars == <<place, whole>>

Outcomes == {"success", "fail", "aborted"}

TypeOK ==
    /\ place \in [Episodes -> {"none", "partial"} \cup Outcomes]
    /\ whole \in [Episodes -> BOOLEAN]

Init ==
    /\ place = [e \in Episodes |-> "none"]
    /\ whole = [e \in Episodes |-> FALSE]

Begin(e) ==
    /\ place[e] = "none"
    /\ place' = [place EXCEPT ![e] = "partial"]
    /\ UNCHANGED whole

Close(e) ==
    /\ place[e] = "partial"
    /\ whole' = [whole EXCEPT ![e] = TRUE]
    /\ UNCHANGED place

Commit(e) ==
    /\ place[e] = "partial"
    /\ whole[e]
    /\ \E o \in Outcomes : place' = [place EXCEPT ![e] = o]
    /\ UNCHANGED whole

Next == \E e \in Episodes : Begin(e) \/ Close(e) \/ Commit(e)

Spec == Init /\ [][Next]_vars
=============================================================================
