--------------------------- MODULE SequentialTakeover ---------------------------
(***************************************************************************)
(* Take-over DAgger with the sequential gateway: the Session thread, the   *)
(* fixed-rate executor thread, the policy worker and the two arms.         *)
(***************************************************************************)
EXTENDS TakeoverController, PolicyActionGateway

vars == <<sessionVars, seqVars>>

TypeOK == SessionTypeOK /\ GatewayTypeOK

Init == SessionInit /\ GatewayInit

-----------------------------------------------------------------------------
(* The Session thread's gateway calls. *)

SessionPrepare ==
    /\ pc = "prepare"
    /\ IF CanPrepare(controlEpoch)
       THEN /\ PreparePolicy(episode, controlEpoch) /\ UNCHANGED executorVars
            /\ IF CanSubmit(controlEpoch) THEN CallReturned("poll") ELSE CallRaised
       ELSE UNCHANGED seqVars /\ CallRaised
    /\ Works

SessionPoll ==
    /\ pc = "poll"
    /\ IF NotPrepared(episode, controlEpoch)
       THEN CallRaised /\ UNCHANGED seqVars
       ELSE IF pending = "done"
            THEN /\ TakePending("session", episode, controlEpoch)
                 /\ UNCHANGED executorVars
                 /\ CallReturned("validate")
            ELSE CallReturned("return") /\ UNCHANGED seqVars
    /\ Works

SessionValidate ==
    /\ pc = "validate"
    /\ IF ticket["session"].request = controlEpoch THEN CallReturned("splice") ELSE CallRaised
    /\ Works
    /\ UNCHANGED seqVars

SessionInvalid ==
    /\ pc = "validate"
    /\ CallRaised
    /\ Fails
    /\ UNCHANGED seqVars

SessionActivate ==
    /\ pc = "splice"
    /\ IF LeaseIsStale("session")
       THEN EnterFault /\ UNCHANGED <<seqVars, armVars>>
       ELSE /\ ActivateLease("session") /\ UNCHANGED executorVars
            /\ IF ticket["session"].enable THEN EnableArms(Arms, {}) ELSE UNCHANGED armVars
            /\ Goto("announce")
    /\ Works
    /\ UNCHANGED <<state, controlEpoch, episode, safetyFailure, timelineVars, countVars>>

(* Mutant: the gate is opened before the arms are asked. *)
SessionEnableLast ==
    /\ pc = "splice"
    /\ ~LeaseIsStale("session")
    /\ ticket["session"].enable
    /\ ActivateLease("session") /\ UNCHANGED executorVars
    /\ \E on, late \in SUBSET Arms : EnableArms(on, late)
    /\ \/ Fails /\ EnterFault /\ UNCHANGED interrupted
       \/ Signalled /\ Escape /\ interrupted' = TRUE
    /\ UNCHANGED <<state, controlEpoch, episode, safetyFailure, timelineVars,
                   episodes, firstEpoch, committed>>

(* enable_policy_control raises, or is interrupted: the ticket is gone and   *)
(* the gate as it was.                                                       *)
SessionEnableFails ==
    /\ pc = "splice"
    /\ ~LeaseIsStale("session")
    /\ ticket["session"].enable
    /\ \E on, late \in SUBSET Arms : EnableArms(on, late)
    /\ \/ Fails /\ EnterFault /\ UNCHANGED interrupted
       \/ Signalled /\ Escape /\ interrupted' = TRUE
    /\ UNCHANGED <<state, controlEpoch, episode, safetyFailure, timelineVars,
                   episodes, firstEpoch, committed, seqVars>>

SessionTakeFault == TakeFault /\ PollFault

SessionPollPolicy == fault = -1 /\ PollPolicy /\ UNCHANGED seqVars

SessionClose ==
    /\ pc = "close"
    /\ IF controlEpoch = gatewayEpoch
       THEN CloseGate(controlEpoch) /\ UNCHANGED executorVars /\ Closed("bump")
       ELSE UNCHANGED seqVars /\ CloseRaised
    /\ Works

SessionClear ==
    /\ pc = "clear"
    /\ ClearPending(controlEpoch)
    /\ Closed("begin")
    /\ Works

SessionBegin ==
    /\ pc = "begin"
    /\ BeginEpoch(controlEpoch)
    /\ Closed("gravity")
    /\ Works

SessionExit ==
    /\ \/ pc = "exit" /\ Goto("join")
       \/ pc = "join" /\ xpc = "stopped" /\ Goto("exited")
    /\ Works
    /\ UNCHANGED <<authorityVars, seqVars>>

SessionThread ==
    \/ SessionStep /\ UNCHANGED seqVars
    \/ SessionPrepare \/ SessionPoll \/ SessionValidate \/ SessionInvalid
    \/ SessionActivate \/ SessionEnableFails
    \/ SessionTakeFault \/ SessionPollPolicy
    \/ SessionClose \/ SessionClear \/ SessionBegin
    \/ SessionExit

-----------------------------------------------------------------------------
(* The executor thread and the policy worker. *)

ExecutorLoop ==
    /\ IF pc = "join" THEN ExecStop ELSE ExecGate
    /\ UNCHANGED sessionVars

ExecutorQuiet ==
    /\ \/ ExecReadEpoch \/ ExecReadEpisode \/ ExecReadPending \/ ExecPolicyReady
       \/ ExecValidate \/ ExecCount \/ ExecRequest \/ ExecNotDue \/ ExecPublish
       \/ ExecFailCheck \/ ExecFailGate \/ ExecFailClose \/ ExecLatch
    /\ UNCHANGED sessionVars

(* policy_ready in the executor thread; it may have found the gate closed   *)
(* when it took the ticket, and then asks the arms.                         *)
ExecutorActivate ==
    /\ ExecActivate
    /\ IF ~LeaseIsStale("executor") /\ ticket["executor"].enable
       THEN EnableArms(Arms, {})
       ELSE UNCHANGED armVars
    /\ Works
    /\ UNCHANGED <<flowVars, state, controlEpoch, episode, safetyFailure, timelineVars, countVars>>

(* enable_policy_control timed out or was refused by one arm: the exception *)
(* leaves the locked region with the ticket gone and the gate as it was, and*)
(* step hands it to _fail.                                                  *)
ExecutorEnableFails ==
    /\ xpc = "activate"
    /\ ~LeaseIsStale("executor")
    /\ ticket["executor"].enable
    /\ \E on, late \in SUBSET Arms : EnableArms(on, late)
    /\ ExecGoto("fail") /\ Untouched
    /\ Fails
    /\ UNCHANGED <<flowVars, state, controlEpoch, episode, safetyFailure, timelineVars, countVars>>

ExecutorFails ==
    /\ ExecPolicyTimeout \/ ExecInvalid \/ ExecWatchdog \/ ExecPublishFails
    /\ Fails
    /\ UNCHANGED <<flowVars, authorityVars>>

ExecutorThread ==
    \/ ExecutorLoop \/ ExecutorQuiet
    \/ ExecutorActivate \/ ExecutorEnableFails \/ ExecutorFails

PolicyWorker == (FinishAbandoned \/ FinishPending) /\ UNCHANGED sessionVars

Ended == pc = "exited" /\ UNCHANGED vars

Next == SessionThread \/ ExecutorThread \/ PolicyWorker \/ Ended

Spec == Init /\ [][Next]_vars

-----------------------------------------------------------------------------
(* What one signal leaves behind when _fault swallows it inside             *)
(* clear_pending: a gateway in an epoch the controller has left, which the  *)
(* executor thread, in the middle of policy_ready, may still make live.     *)
LeftBehind == gatewayEpoch < controlEpoch /\ signals > 0

(* No command lease exists while a human owns the arms: a lease that        *)
(* policy_ready activated after close_gate had returned is revoked again by *)
(* clear_pending before the controller gets there.  None exists while a     *)
(* fault is held or between Episodes either, except one left behind by a    *)
(* signal.                                                                  *)
NoLeaseWithoutPolicy ==
    /\ state = "HUMAN_ACTIVE" \/ active = "human" => ~gateOpen /\ queue = <<>>
    /\ state \in {"FAULT_HOLD", "IDLE"} => ~gateOpen \/ LeftBehind

(* The gate is open only when both arms accepted policy control, although   *)
(* two threads may enable them, either may fail half way, and a third path  *)
(* locks them.  A lease left behind by a signal survives the locking.       *)
LeaseCoversBothArms == gateOpen => LeftBehind \/ \A a \in Arms : latch[a] = "policy"

(* An Episode is committed only with both arms confirmed locked and no lease*)
(* left, unless a signal left one behind: its activation may have asked the *)
(* arms again after they were locked.  Only claimed when no enable request  *)
(* outlives its timeout.                                                    *)
CommitIsCompensated ==
    pc = "commit" => /\ ~safetyFailure
                     /\ \/ LeftBehind
                        \/ ~gateOpen /\ \A a \in Arms : latch[a] = "locked"

(* A command is sent in the epoch its chunk was inferred for, whichever of  *)
(* the two threads accepted the response and however many control epochs    *)
(* began while it was being validated outside the lock.                     *)
SendsItsOwnEpoch ==
    [][issued' > issued => lastSent' = gatewayEpoch]_vars

(* "After close_gate returned no old action is produced": once the lease of *)
(* an epoch was given up, nothing more is sent in that epoch.               *)
ClosedMeansClosed ==
    [][issued' > issued => ~revoked]_vars

(* "RESUME_REQUESTED -> fresh observation -> fresh action": no observation  *)
(* is captured for the policy while the human has the arms, so that what it *)
(* resumes from is fresh.                                                   *)
ResumeIsFresh == state = "HUMAN_ACTIVE" => pending = "none"
=============================================================================
