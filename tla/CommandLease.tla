---------------------------- MODULE CommandLease ----------------------------
(***************************************************************************)
(* What the command gateway of DAgger promises to the rest of the system,  *)
(* whatever its queue, threads and inference look like: commands to the    *)
(* two arms are sent under a lease, a lease belongs to one control epoch,  *)
(* a lease that was revoked is never used again, and no lease is in force  *)
(* while the Authority Timeline counts the time as the human's.            *)
(*                                                                         *)
(* RtcTakeover (the training-time RTC scheduler) implements it.  The       *)
(* sequential gateway does not: its policy_ready may use a lease that was  *)
(* revoked meanwhile, which SequentialTakeover has as ClosedMeansClosed.   *)
(***************************************************************************)
EXTENDS Naturals

VARIABLES
    epoch,  \* control epoch of the gateway
    lease,  \* state of this epoch's only lease
    human,  \* the timeline has an open human segment
    sent    \* commands sent under this epoch

vars == <<epoch, lease, human, sent>>

LeaseStates == {"fresh", "open", "revoked"}

TypeOK ==
    /\ epoch \in Nat
    /\ lease \in LeaseStates
    /\ human \in BOOLEAN
    /\ sent \in Nat

Init ==
    /\ epoch = 0
    /\ lease = "fresh"
    /\ human = FALSE
    /\ sent = 0

(* The one lease of an epoch is granted: a validated window is queued and *)
(* both arms accept policy commands.                                      *)
Grant ==
    /\ lease = "fresh"
    /\ ~human
    /\ lease' = "open"
    /\ UNCHANGED <<epoch, human, sent>>

(* Both arms are sent one command. *)
Send ==
    /\ lease = "open"
    /\ sent' = sent + 1
    /\ UNCHANGED <<epoch, lease, human>>

(* A takeover, a stop or a fault revokes the lease; an epoch that never had *)
(* one loses the right to it.                                               *)
Revoke ==
    /\ lease' = "revoked"
    /\ UNCHANGED <<epoch, human, sent>>

(* Everything that belonged to the old epoch is dropped. *)
Advance ==
    /\ epoch' > epoch
    /\ epoch' \in Nat
    /\ lease' = "fresh"
    /\ sent' = 0
    /\ UNCHANGED human

(* The human segment opens only when no command can be sent any more. *)
HumanBegins ==
    /\ lease # "open"
    /\ human' = TRUE
    /\ UNCHANGED <<epoch, lease, sent>>

HumanEnds ==
    /\ human' = FALSE
    /\ UNCHANGED <<epoch, lease, sent>>

Next == Grant \/ Send \/ Revoke \/ Advance \/ HumanBegins \/ HumanEnds

Spec == Init /\ [][Next]_vars
=============================================================================
