---------------------------- MODULE RtcTakeoverInv ----------------------------
(***************************************************************************)
(* The inductive invariant behind the safety properties of RtcTakeover, in *)
(* named parts.  TLC checks it on the instance of MCRtcTakeover; that it   *)
(* is inductive for every value of the constants is proved in              *)
(* RtcTakeover_proofs.                                                     *)
(***************************************************************************)
EXTENDS RtcTakeover

Locked == \A a \in Arms : latch[a] = "locked"

(* The steps of prepare_policy and poll_policy up to the announcement. *)
Acquiring == {"prepare", "poll", "snapshot", "validate", "reject", "splice"}

Accepting == {"validate", "reject", "splice"}

Leaving == {"exit", "join", "exited"}

(* Where the Session thread can be in which state of the controller. *)
FlowInv ==
    /\ path = "takeover" => hook = "wait"
    /\ path = "stop" => hook = "stop"
    /\ pc \in Acquiring \cup {"announce"} => /\ state = "RESUME_PENDING"
                                             /\ hook \in {"start", "wait"}
                                             /\ active = "none"
    /\ pc = "wait" => /\ hook = "wait"
                      /\ state \in {"RESUME_PENDING", "MODEL_CONTROL", "HUMAN_ACTIVE", "FAULT_HOLD"}
                      /\ state = "RESUME_PENDING" => active = "none"
    /\ pc = "ready" => hook = "none"
    /\ pc \in {"finish", "commit"} => hook = "stop"
    /\ pc \in {"ready", "wait", "finish", "commit"} => path = "none"
    /\ pc \in {"ready", "commit"} => state = "IDLE" /\ active = "none" /\ ~safetyFailure
    /\ state = "IDLE" => pc \in {"ready", "commit"} \cup Leaving
    /\ state = "FAULT_HOLD" => pc \in {"wait", "finish"} \cup Leaving

(* Which event was recorded last. *)
EventInv ==
    /\ lastEvent = "FAULT_HOLD" => state \in {"FAULT_HOLD", "IDLE"}
    /\ pc \in Acquiring \cup {"announce"} => lastEvent \in {"NONE", "RESUME_REQUESTED"}
    /\ pc = "wait" /\ state = "RESUME_PENDING" => lastEvent \in {"NONE", "RESUME_REQUESTED"}
    /\ state = "MODEL_CONTROL" => lastEvent = "POLICY_ACTIVE"
    /\ state = "HUMAN_ACTIVE" => lastEvent = "HUMAN_ACTIVE"
    /\ path = "takeover" => lastEvent = "TAKEOVER_REQUESTED"

(* What the two threads copied before they left the lock. *)
SnapInv ==
    /\ pc \in Accepting => snap["session"].pending.phase = "bootstrap"
    /\ xpc \in Accepting => snap["executor"].pending.phase = "prefetch"
    /\ pc = "splice" => WindowFits("session")
    /\ xpc = "splice" => WindowFits("executor")

(* The gateway's epoch lags behind the controller's only while clear_pending*)
(* has not been called for it, or after a signal kept it from being called. *)
EpochInv ==
    /\ gatewayEpoch <= controlEpoch
    /\ pc = "clear" => gatewayEpoch < controlEpoch
    /\ pc \in Accepting \cup {"snapshot"} => gatewayEpoch = controlEpoch

(* When the gate can be open, unless two signals left it open behind the    *)
(* controller.                                                              *)
GateInv ==
    gateOpen =>
        /\ state # "HUMAN_ACTIVE" /\ active # "human"
        /\ \/ LeftBehind
           \/ /\ state \in {"RESUME_PENDING", "MODEL_CONTROL", "HANDOVER_PENDING"}
              /\ pc \in {"announce", "wait", "close", "bump", "clear"} \cup Leaving
              /\ pc = "wait" => state = "MODEL_CONTROL"
              /\ pc \in {"bump", "clear"} => Faulting /\ signals > 0
              /\ gatewayEpoch = controlEpoch \/ pc = "clear"
              /\ \A a \in Arms : latch[a] = "policy"

(* Nothing is queued or awaited for a human. *)
HumanInv ==
    /\ pc \in {"begin", "gravity", "conclude"} /\ path = "takeover"
           => ~gateOpen /\ queue = <<>> /\ pending.phase = "none"
    /\ state = "HUMAN_ACTIVE" \/ active = "human" => queue = <<>> /\ pending.phase = "none"

(* Where the arms are known to be locked, if no enable request is late. *)
LockInv ==
    ~LateEnable =>
        /\ lateEnable = {}
        /\ pc \in {"ready", "conclude", "finish", "commit"} => Locked \/ safetyFailure
        /\ pc = "conclude" /\ ~Faulting => Locked
        /\ state = "HUMAN_ACTIVE" \/ active = "human" => Locked
        /\ state = "FAULT_HOLD" => Locked \/ safetyFailure

(* The plan: whose epoch, from which step on, for how long. *)
PlanInv ==
    /\ pending.phase # "none" => pending.epoch = gatewayEpoch
    /\ pending.phase = "bootstrap" => ~gateOpen /\ pending.base = issued
    /\ QueueIsThePlan
    /\ WindowAccounting

(* An epoch in which a lease may still be granted has not lost one. *)
RevokeInv ==
    \/ ~revoked
    \/ gatewayEpoch < controlEpoch
    \/ pc \in {"announce", "close", "bump", "clear"} \cup Leaving
    \/ pc = "wait" /\ state = "MODEL_CONTROL"

IInv ==
    /\ TypeOK
    /\ FlowInv
    /\ EventInv
    /\ SnapInv
    /\ EpochInv
    /\ GateInv
    /\ HumanInv
    /\ LockInv
    /\ PlanInv
    /\ RevokeInv
=============================================================================
