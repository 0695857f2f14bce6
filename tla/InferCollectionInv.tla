------------------------- MODULE InferCollectionInv -------------------------
(***************************************************************************)
(* The inductive invariant of InferCollection: what makes a label the      *)
(* operator's and a success whole, at every step in between.               *)
(***************************************************************************)
EXTENDS InferCollection

Presses == [episode : Nat, stage : {"ready", "running", "between"}]

(* From the hook that begins an Episode to its label. *)
Operated == {"arm", "loop", "poll", "opened", "discard", "listen", "announce", "hear", "repoll",
             "label", "close"}

Steps == {"ready", "idle", "home", "start", "verdict", "stopping", "commit", "leaving", "over"}
             \cup Operated

InferTypeOK ==
    /\ reports \in [Pedals -> Seq(Presses)]
    /\ recorded \in BOOLEAN /\ pc \in Steps
    /\ episode \in 0..MaxEpisodes
    /\ active \in BOOLEAN /\ ready \in BOOLEAN /\ stopError \in BOOLEAN
    /\ runningArmed \in BOOLEAN
    /\ event \in {"none", "right", "left", "conflict"}
    /\ gateOpen \in BOOLEAN /\ failure \in BOOLEAN
    /\ commandCount \in Nat
    /\ sent \in [Episodes -> Nat] /\ logged \in [Episodes -> Nat]
    /\ result \in [Episodes -> {"none", "blocked", "success", "fail", "aborted"}]
    /\ outcome \in {"none", "blocked", "success", "fail", "aborted"}
    /\ count \in [Episodes -> Nat]

(* The controller is active from start_episode to its close. *)
ActiveInv ==
    /\ pc \in Operated => active
    /\ pc \in {"ready", "idle", "home", "start", "verdict", "commit", "over"} => ~active
    /\ active => episode # 0
    /\ pc \in {"idle", "home"} => episode < MaxEpisodes
    /\ pc \in {"start", "verdict", "stopping", "commit"} => episode # 0

(* The gate is open only for an active Episode that is not being closed. *)
GateInv == gateOpen => active /\ pc # "close"

(* The running trigger is armed anew when INFER RUNNING is announced.      *)
ReadyInv ==
    /\ pc \in {"arm", "opened", "discard"} => ~ready
    /\ pc \in {"idle", "home", "start", "arm"} => ~runningArmed
    /\ pc \in {"announce", "hear", "repoll"} => runningArmed
    /\ pc \in {"loop", "poll"} /\ ready => runningArmed

(* What the Session thread labels by is an event. *)
EventInv == pc \in {"label", "close", "verdict"} => event # "none"

Reports == UNION {{reports[p][i] : i \in DOMAIN reports[p]} : p \in Pedals}

(* What the kernel buffers while a press means something, was pressed since *)
(* it does.                                                                 *)
BufferInv ==
    /\ pc = "idle" => Reports \subseteq {[episode |-> episode, stage |-> "ready"]}
    /\ active /\ runningArmed => Reports \subseteq {[episode |-> episode, stage |-> "running"]}

StartedInv ==
    /\ pc = "home" => startedBy \subseteq {[episode |-> episode, stage |-> "ready"]}
    /\ pc = "start" => startedBy \subseteq {[episode |-> episode - 1, stage |-> "ready"]}

LabelledInv == labelledBy \subseteq {[episode |-> episode, stage |-> "running"]}

Whole(e) == e \notin torn /\ sent[e] = logged[e]

(* Of an Episode that was not begun nothing was sent. *)
FreshInv ==
    \A e \in Episodes :
        e > episode \/ (e = episode /\ pc = "start") =>
            Whole(e) /\ sent[e] = 0 /\ result[e] = "none"

(* RecordedControl knows what was sent, and whether any of it failed. *)
CountInv ==
    pc \in Operated \cup {"verdict", "stopping", "commit"} =>
        /\ commandCount = sent[episode]
        /\ failure \/ Whole(episode)
        /\ result[episode] = "none"

(* Once the label is given nothing is sent any more. *)
VerdictInv ==
    /\ pc \in {"stopping", "commit"} /\ outcome = "success" => ~active /\ Whole(episode)
    /\ pc = "commit" => count[episode] = commandCount

(* A committed Episode is over, and so are its commands. *)
ResultInv ==
    \A e \in Episodes : result[e] # "none" =>
        /\ e = episode => ~active
        /\ result[e] = "success" => Whole(e) /\ count[e] = sent[e]

InferInv ==
    /\ InferTypeOK
    /\ ActiveInv /\ GateInv /\ ReadyInv /\ EventInv
    /\ BufferInv /\ StartedInv /\ LabelledInv
    /\ FreshInv /\ CountInv /\ VerdictInv /\ ResultInv
=============================================================================
