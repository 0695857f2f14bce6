------------------------------ MODULE RtcTakeover ------------------------------
(***************************************************************************)
(* Take-over DAgger with the training-time RTC scheduler: the Session      *)
(* thread, the scheduler's executor thread, the policy worker and the two  *)
(* arm controllers, as TakeoverApplication.run assembles them.             *)
(***************************************************************************)
EXTENDS TakeoverController, RtcScheduler

vars == <<sessionVars, rtcVars>>

TypeOK == SessionTypeOK /\ RtcTypeOK

Init == SessionInit /\ RtcInit

-----------------------------------------------------------------------------
(* The Session thread's gateway calls. *)

SessionPrepare ==
    /\ pc = "prepare"
    /\ IF CanPrepare(controlEpoch)
       THEN /\ PreparePolicy(episode, controlEpoch)
            /\ IF CanSubmit(controlEpoch) THEN CallReturned("poll") ELSE CallRaised
       ELSE UNCHANGED rtcVars /\ CallRaised
    /\ Works

(* policy_ready's first region: lost, done, or still waiting. *)
SessionPoll ==
    /\ pc = "poll"
    /\ IF BootstrapLost(episode, controlEpoch)
       THEN CallRaised
       ELSE CallReturned(IF pending.done THEN "snapshot" ELSE "return")
    /\ Works
    /\ UNCHANGED rtcVars

(* The bootstrap deadline passed. *)
SessionPollTimeout ==
    /\ pc = "poll"
    /\ ~BootstrapLost(episode, controlEpoch)
    /\ ~pending.done
    /\ CallRaised
    /\ Fails
    /\ UNCHANGED rtcVars

SessionSnapshot ==
    /\ pc = "snapshot"
    /\ IF Acceptable("bootstrap")
       THEN AcceptSnapshot("session", "bootstrap") /\ UNCHANGED xpc /\ CallReturned("validate")
       ELSE UNCHANGED rtcVars /\ CallRaised
    /\ Works

SessionValidate ==
    /\ pc = "validate"
    /\ IF WindowFits("session") THEN CallReturned("splice") ELSE CallRaised
    /\ Works
    /\ UNCHANGED rtcVars

(* The inference failed, its identity or the arms' state is stale: raise.   *)
(* A joint limit is violated: reject the window first.                      *)
SessionInvalid ==
    /\ pc = "validate"
    /\ \/ CallRaised
       \/ CallReturned("reject")
    /\ Fails
    /\ UNCHANGED rtcVars

SessionReject ==
    /\ pc = "reject"
    /\ RejectWindow("session")
    /\ UNCHANGED <<xpc, raisedIn>>
    /\ CallRaised
    /\ Works

(* enable_policy_control under the lock, then the gate opens. *)
SessionSplice ==
    /\ pc = "splice"
    /\ IF StillCurrent("session")
       THEN /\ EnableArms(Arms, {})
            /\ Splice("session") /\ UNCHANGED xpc
            /\ Goto("announce")
       ELSE /\ EnterFault
            /\ UNCHANGED <<rtcVars, armVars>>
    /\ Works
    /\ UNCHANGED <<state, controlEpoch, episode, safetyFailure, timelineVars, countVars>>

(* enable_policy_control timed out, was refused by one arm, or a signal     *)
(* interrupted the wait for it: the gate stays closed.                      *)
SessionEnableFails ==
    /\ pc = "splice"
    /\ StillCurrent("session")
    /\ \E on, late \in SUBSET Arms : EnableArms(on, late)
    /\ \/ Fails /\ EnterFault /\ UNCHANGED interrupted
       \/ Signalled /\ Escape /\ interrupted' = TRUE
    /\ UNCHANGED <<state, controlEpoch, episode, safetyFailure, timelineVars,
                   episodes, firstEpoch, committed, rtcVars>>

SessionTakeFault == TakeFault /\ PollFault

SessionPollPolicy == fault = -1 /\ PollPolicy /\ UNCHANGED rtcVars

SessionClose ==
    /\ pc = "close"
    /\ IF controlEpoch = gatewayEpoch
       THEN CloseGate(controlEpoch) /\ Closed("bump")
       ELSE UNCHANGED rtcVars /\ CloseRaised
    /\ Works

SessionClear ==
    /\ pc = "clear"
    /\ ClearPending(controlEpoch)
    /\ Closed("begin")
    /\ Works

SessionBegin ==
    /\ pc = "begin"
    /\ BeginEpoch(controlEpoch)
    /\ Closed("gravity")
    /\ Works

(* run() closes the executor on every way out of run_episode_loop: the stop *)
(* flag is set, and the thread, which tests it between two steps, is joined.*)
SessionExit ==
    /\ \/ pc = "exit" /\ Goto("join")
       \/ pc = "join" /\ xpc = "stopped" /\ Goto("exited")
    /\ Works
    /\ UNCHANGED <<authorityVars, rtcVars>>

SessionThread ==
    \/ SessionStep /\ UNCHANGED rtcVars
    \/ SessionPrepare \/ SessionPoll \/ SessionPollTimeout
    \/ SessionSnapshot \/ SessionValidate \/ SessionInvalid \/ SessionReject
    \/ SessionSplice \/ SessionEnableFails
    \/ SessionTakeFault \/ SessionPollPolicy
    \/ SessionClose \/ SessionClear \/ SessionBegin
    \/ SessionExit

-----------------------------------------------------------------------------
(* The executor thread and the policy worker. *)

ExecutorLoop ==
    /\ IF pc = "join" THEN ExecStop ELSE ExecBegin
    /\ UNCHANGED sessionVars

ExecutorQuiet ==
    /\ \/ ExecSnapshot \/ ExecValidate \/ ExecReject \/ ExecSplice
       \/ ExecNotDue \/ ExecPublish \/ ExecUnderrun \/ ExecFail
    /\ UNCHANGED sessionVars

ExecutorFails ==
    /\ \/ ExecInvalid("fail") \/ ExecInvalid("reject")
       \/ ExecWatchdog \/ ExecPublishFails
    /\ Fails
    /\ UNCHANGED <<flowVars, authorityVars>>

ExecutorThread == ExecutorLoop \/ ExecutorQuiet \/ ExecutorFails

PolicyWorker == (FinishAbandoned \/ FinishPending) /\ UNCHANGED sessionVars

Ended == pc = "exited" /\ UNCHANGED vars

Next == SessionThread \/ ExecutorThread \/ PolicyWorker \/ Ended

Spec == Init /\ [][Next]_vars

(***************************************************************************)
(* Fairness: a thread that can go on does.  The Session thread's loop polls*)
(* every poll_interval_s, the worker's inference ends (its transport has a *)
(* timeout), the executor thread is never blocked for longer than an       *)
(* enable_policy_control call.  Nothing is assumed of the operator, of the *)
(* environment's failures or of signals.                                   *)
(***************************************************************************)
SessionProgress ==
    \/ pc \notin {"ready", "wait"} /\ SessionThread
    \/ pc = "wait" /\ UNCHANGED rtcVars /\ (PollSafetyFailure \/ EndFaulted)
    \/ SessionTakeFault
    \/ SessionPollPolicy

Fairness == WF_vars(SessionProgress) /\ WF_vars(ExecutorThread) /\ WF_vars(PolicyWorker)

FairSpec == Spec /\ Fairness

-----------------------------------------------------------------------------
(* Who has the arms. *)

(* What two signals leave behind when _fault swallows them, one inside      *)
(* close_gate and one inside clear_pending: a gateway in an epoch that the  *)
(* controller has left, with its gate as it was.  The next Episode's        *)
(* prepare_policy refuses that epoch, and its _fault clears it.             *)
LeftBehind == gatewayEpoch < controlEpoch /\ signals >= 2

(* No command lease exists while a human owns the arms: whatever the        *)
(* executor thread was doing when the ownership pedal was pressed, nothing  *)
(* it holds can be sent any more.  None exists while a fault is held or     *)
(* between Episodes either, except one left behind by two signals.          *)
(* takeover.py: HUMAN_ACTIVE, FAULT_HOLD and IDLE are reached only behind   *)
(* close_gate and clear_pending.                                            *)
NoLeaseWithoutPolicy ==
    /\ state = "HUMAN_ACTIVE" \/ active = "human" => ~gateOpen /\ queue = <<>> /\ pending.phase = "none"
    /\ state \in {"FAULT_HOLD", "IDLE"} => ~gateOpen \/ LeftBehind

(* The gate is open only when both arms accepted policy control, and an arm *)
(* is locked again only behind a closed gate: no command is ever sent to    *)
(* one arm of a pair that ignores it.  Two signals swallowed by one _fault  *)
(* leave the gate open behind the locked arms.                              *)
LeaseCoversBothArms == gateOpen => LeftBehind \/ \A a \in Arms : latch[a] = "policy"

(* An arm accepts policy commands only for a reason: the gate is open, or   *)
(* the controller is on its way to lock the arms, or the process is ending. *)
(* Only claimed when no enable request outlives its timeout.                *)
UnlockedOnlyForPolicy ==
    (state \in {"HUMAN_ACTIVE", "FAULT_HOLD", "IDLE"} \/ active = "human")
        => safetyFailure \/ pc \in {"exit", "join", "exited"} \/ \A a \in Arms : latch[a] = "locked"

(* An Episode is committed only with both arms confirmed in gravity         *)
(* compensation: a takeover, stop or fault whose compensation failed ends   *)
(* the Session instead (the safety failure is raised out of stop_episode).  *)
(* No lease is left then, except one left behind by two signals.            *)
CommitIsCompensated ==
    pc = "commit" => /\ ~gateOpen \/ LeftBehind
                     /\ ~safetyFailure
                     /\ \A a \in Arms : latch[a] = "locked"

(* The recorded authority events of an Episode follow the handover protocol *)
(* and FAULT_HOLD is the last of them, however sink failures, faults and    *)
(* signals cut the sequence short.                                          *)
Protocol ==
    [NONE |-> {"POLICY_ACTIVE", "FAULT_HOLD"},
     POLICY_ACTIVE |-> {"TAKEOVER_REQUESTED", "FAULT_HOLD"},
     TAKEOVER_REQUESTED |-> {"HUMAN_ACTIVE", "FAULT_HOLD"},
     HUMAN_ACTIVE |-> {"RESUME_REQUESTED", "FAULT_HOLD"},
     RESUME_REQUESTED |-> {"POLICY_ACTIVE", "FAULT_HOLD"},
     FAULT_HOLD |-> {}]

EventsFollowProtocol ==
    [][lastEvent' # lastEvent =>
         \/ lastEvent' \in Protocol[lastEvent]
         \/ lastEvent' = "NONE" /\ episodes' = episodes + 1]_vars

-----------------------------------------------------------------------------
(* What is sent. *)

(* Every command sent is the row planned for exactly this step of exactly   *)
(* this epoch, and it is sent while the controller has not yet given the    *)
(* lease up: no row of an earlier epoch, none twice, none skipped, across   *)
(* every splice.  A signal that _fault swallows inside close_gate lets the  *)
(* old epoch send until clear_pending, and one swallowed there too lets it  *)
(* send what is left of its window.                                         *)
SendsThePlan ==
    [][issued' > issued =>
         /\ lastPublished' = [epoch |-> gatewayEpoch, step |-> issued]
         /\ \/ /\ gatewayEpoch = controlEpoch
               /\ state \in {"RESUME_PENDING", "MODEL_CONTROL", "HANDOVER_PENDING"}
            \/ pc = "clear" /\ Faulting /\ signals > 0
            \/ LeftBehind]_vars

(* While the gate is open the queue holds the plan of the next steps without*)
(* a gap; only a publish that raised leaves one, for the executor's _fail to*)
(* drop.                                                                    *)
QueueIsThePlan ==
    gateOpen /\ xpc # "fail" =>
        \A i \in DOMAIN queue : queue[i] = [epoch |-> gatewayEpoch, step |-> issued + i - 1]

(* While the gate is open every row of the last safe window is either sent  *)
(* or queued, and an inference requested at the prefetch boundary is at     *)
(* most MaxDelay - 1 commands old when the queue runs dry: the executor     *)
(* underruns before it could meet a delay the policy was not trained for.   *)
WindowAccounting ==
    gateOpen /\ xpc # "fail" =>
        /\ Len(queue) + sinceSplice = SafeWindow
        /\ pending.phase = "prefetch" => issued - pending.base = sinceSplice - PrefetchAfter
        /\ pending.phase = "none" => sinceSplice < PrefetchAfter

(* At the prefetch boundary the queue can supply as many rows of action     *)
(* prefix as the rolling-maximum estimate asks for.                         *)
PrefixIsAvailable ==
    gateOpen /\ xpc # "fail" /\ sinceSplice + 1 = PrefetchAfter => Len(queue) - 1 >= Estimate

-----------------------------------------------------------------------------
(* The gateway's promise. *)

Lease == INSTANCE CommandLease WITH
    epoch <- gatewayEpoch,
    lease <- IF gateOpen THEN "open" ELSE IF revoked THEN "revoked" ELSE "fresh",
    human <- active = "human",
    sent <- issued

(* A lease is granted once per epoch, is never used after it was revoked    *)
(* and never while the timeline counts the time as the human's.             *)
ImplementsLease == Lease!Spec

-----------------------------------------------------------------------------
(* What must happen. *)

(* A press of the ownership pedal ends with the human in control, a held    *)
(* fault, or the end of the Episode: the handover never stalls.             *)
HandoverEnds ==
    state = "HANDOVER_PENDING" ~> (state \in {"HUMAN_ACTIVE", "FAULT_HOLD", "IDLE"} \/ pc = "exited")

(* Asking for the policy ends too, although the bootstrap may queue behind  *)
(* inferences the worker has not finished.                                  *)
ResumeEnds ==
    state = "RESUME_PENDING" ~> (state # "RESUME_PENDING" \/ pc = "exited")

(* A fault the executor latched ends the Episode it is in. *)
FaultEndsEpisode ==
    (state = "MODEL_CONTROL" /\ fault # -1) ~> (state \in {"FAULT_HOLD", "IDLE"} \/ pc = "exited")

-----------------------------------------------------------------------------
(* What the repository says and the code does not do. *)

(* "An Episode-level failure does not block the Session": a fault ends the  *)
(* Episode in which it arose, and no later one.                             *)
FaultsEndTheirOwnEpisode ==
    [][fault # -1 /\ fault' = -1 => fault >= firstEpoch]_vars

(* "Responses of an old epoch are void": no error of an earlier epoch is    *)
(* latched as a fault of the current one.                                   *)
OldResponsesAreVoid ==
    [][fault' # fault /\ fault' # -1 => fault' = gatewayEpoch]_vars

(* "Any fault locks the arms again": while FAULT_HOLD is held without a     *)
(* safety failure both arms refuse policy commands.                         *)
FaultLocksArms ==
    state = "FAULT_HOLD" /\ ~safetyFailure => \A a \in Arms : latch[a] = "locked"
=============================================================================
