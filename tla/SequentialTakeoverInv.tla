------------------------- MODULE SequentialTakeoverInv -------------------------
(***************************************************************************)
(* The inductive invariant behind the safety properties of                 *)
(* SequentialTakeover, in named parts.  MCSequentialTakeover extends this  *)
(* module, so that it can be added to its configurations; that it is       *)
(* inductive for every value of the constants is proved in                 *)
(* SequentialTakeover_proofs.                                              *)
(***************************************************************************)
EXTENDS SequentialTakeover

Locked == \A a \in Arms : latch[a] = "locked"

(* The steps of prepare_policy and poll_policy up to the announcement. *)
Acquiring == {"prepare", "poll", "validate", "splice"}

Leaving == {"exit", "join", "exited"}

(* Where the Session thread can be in which state of the controller. *)
FlowInv ==
    /\ pc \notin {"snapshot", "reject"}
    /\ path = "takeover" => hook = "wait"
    /\ path = "stop" => hook = "stop"
    /\ pc \in Acquiring \cup {"announce"} => /\ state = "RESUME_PENDING"
                                             /\ hook \in {"start", "wait"}
                                             /\ active = "none"
    /\ pc = "wait" => /\ hook = "wait"
                      /\ state \in {"RESUME_PENDING", "MODEL_CONTROL", "HUMAN_ACTIVE", "FAULT_HOLD"}
                      /\ state = "RESUME_PENDING" => active = "none"
                      /\ state = "MODEL_CONTROL" => active = "model"
    /\ pc = "ready" => hook = "none"
    /\ pc \in {"finish", "commit"} => hook = "stop"
    /\ pc \in {"ready", "wait", "finish", "commit"} => path = "none"
    /\ pc \in {"ready", "commit"} => state = "IDLE" /\ active = "none" /\ ~safetyFailure
    /\ state = "IDLE" => pc \in {"ready", "commit"} \cup Leaving
    /\ state = "FAULT_HOLD" => pc \in {"wait", "finish"} \cup Leaving

(* A ticket that passed validation was submitted for the epoch it was taken *)
(* in; the Session thread takes one only while the gate is closed, so that  *)
(* it always asks the arms.                                                 *)
TicketInv ==
    /\ pc \in {"validate", "splice"} => ticket["session"].epoch = controlEpoch
    /\ pc = "splice" => ticket["session"].request = ticket["session"].epoch
    /\ xpc = "activate" => ticket["executor"].request = ticket["executor"].epoch
    /\ pc \in {"validate", "splice"} => ticket["session"].enable

(* No thread knows a later epoch than the gateway, and the gateway none     *)
(* later than the controller.                                               *)
EpochInv ==
    /\ gatewayEpoch <= controlEpoch
    /\ pc = "clear" => gatewayEpoch < controlEpoch
    /\ activeEpoch <= gatewayEpoch
    /\ xEpoch <= gatewayEpoch
    /\ \A t \in Threads : ticket[t].epoch <= gatewayEpoch

(* What is queued was inferred for the gateway's epoch. *)
QueueInv == \A i \in DOMAIN queue : queue[i] = gatewayEpoch

(* The executor thread is on its way to policy_ready, or in it, for the     *)
(* gateway's epoch: it may open the gate although the gate is closed now.   *)
InFlight ==
    \/ xpc = "epoch" /\ waiting /\ activeEpoch = gatewayEpoch
    \/ xpc = "episode" /\ waiting /\ activeEpoch = xEpoch /\ xEpoch = gatewayEpoch
    \/ xpc \in {"pending", "ready"} /\ waiting /\ xEpoch = gatewayEpoch
    \/ xpc \in {"validate", "activate"} /\ ticket["executor"].epoch = gatewayEpoch

(* There is a lease, or the executor thread may still revive the one of     *)
(* this epoch.  Only activation by the Session thread makes an epoch live,  *)
(* and only a later epoch ends it for certain.                              *)
Live == gateOpen \/ InFlight

(* Where the Session thread is while the epoch is live. *)
LiveInv ==
    /\ xpc = "ready" => waiting
    /\ Live =>
        \/ LeftBehind
        \/ /\ \/ pc \in {"announce", "close", "bump", "clear"} \cup Leaving
              \/ pc = "wait" /\ state = "MODEL_CONTROL"
           /\ state \in {"RESUME_PENDING", "MODEL_CONTROL", "HANDOVER_PENDING"}
           /\ active # "human"
           /\ gatewayEpoch = controlEpoch \/ pc = "clear"
           /\ \A a \in Arms : latch[a] = "policy"

(* Once clear_pending returned in a takeover the epoch is new: no step of   *)
(* the executor can give the human a live one, whatever signals came.       *)
HumanInv ==
    /\ pc \in {"begin", "gravity", "conclude"} /\ path = "takeover" => ~Live /\ queue = <<>>
    /\ state = "HUMAN_ACTIVE" \/ active = "human" => ~Live /\ queue = <<>>

(* Where the arms are known to be locked, if no enable request is late. *)
LockInv ==
    ~LateEnable =>
        /\ lateEnable = {}
        /\ ~LeftBehind =>
            /\ pc \in {"conclude", "finish", "commit"} => Locked \/ safetyFailure
            /\ pc = "conclude" /\ ~Faulting => Locked
            /\ state = "FAULT_HOLD" => Locked \/ safetyFailure

IInv ==
    /\ TypeOK
    /\ FlowInv
    /\ TicketInv
    /\ EpochInv
    /\ QueueInv
    /\ LiveInv
    /\ HumanInv
    /\ LockInv
=============================================================================
