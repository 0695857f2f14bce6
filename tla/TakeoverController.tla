-------------------------- MODULE TakeoverController --------------------------
(***************************************************************************)
(* The Session thread of Take-over DAgger: TakeoverController, its         *)
(* AuthorityTimeline, TakeoverRecordTrigger.wait, and as much of           *)
(* EpisodeRuntime.run_once and run_episode_loop as decides which of the    *)
(* controller's methods runs next and where an exception goes.             *)
(*                                                                         *)
(* The thread runs alone inside the controller, but every gateway call     *)
(* takes the gateway's lock, so the executor thread runs between any two   *)
(* of them: `pc' names the next call, and each call is one step.           *)
(*                                                                         *)
(* This module has the Session thread's side only.  A step that calls the  *)
(* gateway is an operator here (what the thread does after the call        *)
(* returned, or raised); RtcTakeover and SequentialTakeover conjoin it     *)
(* with what the call does to their gateway.                               *)
(*                                                                         *)
(* Bounds, all on the environment: MaxEpisodes activations of the record   *)
(* pedal, MaxTakeovers presses of the ownership pedal, MaxFailures failing *)
(* calls (service, sink, inference, watchdog), Signals termination signals.*)
(***************************************************************************)
EXTENDS Integers

CONSTANTS
    Arms,         \* the two arm controllers
    MaxEpisodes,  \* bound: Episodes started in one Session
    MaxTakeovers, \* bound: ownership toggles in one Session
    MaxFailures,  \* bound: failing calls in one Session
    Signals,      \* bound: termination signals delivered
    LateEnable    \* whether an enable request that timed out may still arrive

ASSUME BoundsAssumption ==
    /\ MaxEpisodes \in Nat
    /\ MaxTakeovers \in Nat
    /\ MaxFailures \in Nat
    /\ Signals \in Nat
    /\ LateEnable \in BOOLEAN

VARIABLES
    pc,            \* the Session thread's next step
    hook,          \* the caller of the controller: which except clause is next
    path,          \* the controller's method: why it closes the gate, or asks for it
    state,         \* TakeoverController.state
    controlEpoch,  \* TakeoverController.control_epoch
    episode,       \* TakeoverController.episode_id, 0 for None
    safetyFailure, \* TakeoverController._safety_failure is set
    active,        \* AuthorityTimeline._active: owner of the open segment
    lastEvent,     \* the Episode's last event on /dagger/authority
    latch,         \* per arm: does the controller accept policy commands
    lateEnable,    \* arms with an enable request sent and not yet handled
    interrupted,   \* this Episode's outcome is "recording interrupted"
    episodes,      \* Episodes started
    firstEpoch,    \* observer: control epoch the current Episode started with
    committed,     \* Episodes committed to the store
    takeovers,     \* ownership toggles consumed
    failures,      \* failing calls consumed
    signals        \* termination signals consumed

flowVars == <<pc, hook, path>>
timelineVars == <<active, lastEvent>>
armVars == <<latch, lateEnable>>
countVars == <<interrupted, episodes, firstEpoch, committed>>
envVars == <<takeovers, failures, signals>>
authorityVars == <<state, controlEpoch, episode, safetyFailure, timelineVars, armVars, countVars>>
sessionVars == <<flowVars, authorityVars, envVars>>

States == {"IDLE", "MODEL_CONTROL", "HANDOVER_PENDING", "HUMAN_ACTIVE",
           "RESUME_PENDING", "FAULT_HOLD"}

Events == {"NONE", "POLICY_ACTIVE", "TAKEOVER_REQUESTED", "HUMAN_ACTIVE",
           "RESUME_REQUESTED", "FAULT_HOLD"}

(* prepare .. announce: acquiring a lease.  close .. conclude: giving one   *)
(* up.  finish, commit: the rest of run_once.  exit, join, exited: the      *)
(* executor is told to stop and waited for, and the process ends.           *)
Steps == {"ready", "wait",
          "prepare", "poll", "snapshot", "validate", "reject", "splice", "announce",
          "close", "bump", "clear", "begin", "gravity", "conclude",
          "finish", "commit", "exit", "join", "exited"}

(* "try": inside the try block of start_episode or _resume, which wraps     *)
(* poll_policy.  "inner": in the _fault of poll_policy inside that block.   *)
(* "fault": in any other _fault.                                            *)
Paths == {"none", "try", "takeover", "stop", "fault", "inner"}

Faulting == path \in {"fault", "inner"}

ArmTypeOK ==
    /\ latch \in [Arms -> {"locked", "policy"}]
    /\ lateEnable \in SUBSET Arms

SessionTypeOK ==
    /\ pc \in Steps
    /\ hook \in {"none", "start", "wait", "stop"}
    /\ path \in Paths
    /\ state \in States
    /\ controlEpoch \in Nat
    /\ episode \in Nat
    /\ safetyFailure \in BOOLEAN
    /\ active \in {"none", "model", "human"}
    /\ lastEvent \in Events
    /\ ArmTypeOK
    /\ interrupted \in BOOLEAN
    /\ episodes \in Nat
    /\ firstEpoch \in Nat
    /\ committed \in Nat
    /\ takeovers \in Nat
    /\ failures \in Nat
    /\ signals \in Nat

SessionInit ==
    /\ pc = "ready"
    /\ hook = "none"
    /\ path = "none"
    /\ state = "IDLE"
    /\ controlEpoch = 0
    /\ episode = 0
    /\ safetyFailure = FALSE
    /\ active = "none"
    /\ lastEvent = "NONE"
    /\ latch = [a \in Arms |-> "locked"]
    /\ lateEnable = {}
    /\ interrupted = FALSE
    /\ episodes = 0
    /\ firstEpoch = 0
    /\ committed = 0
    /\ takeovers = 0
    /\ failures = 0
    /\ signals = 0

-----------------------------------------------------------------------------
(* The environment's budgets. *)

Fails == failures < MaxFailures /\ failures' = failures + 1 /\ UNCHANGED <<takeovers, signals>>

Works == UNCHANGED envVars

Signalled == signals < Signals /\ signals' = signals + 1 /\ UNCHANGED <<takeovers, failures>>

-----------------------------------------------------------------------------
(* Where the thread goes next. *)

Goto(step) == pc' = step /\ UNCHANGED <<hook, path>>

(* stop_episode, called by the stopping hook: FAULT_HOLD has already closed *)
(* the gate and compensated gravity.                                        *)
StopEpisode ==
    /\ hook' = "stop"
    /\ IF state = "FAULT_HOLD"
       THEN pc' = "finish" /\ path' = "none"
       ELSE pc' = "close" /\ path' = "stop"

(* An exception leaves the controller.  _wait_for_end turns it into an      *)
(* outcome and the stopping hook still runs; out of the started or the      *)
(* stopping hook it leaves run_once and ends the Session.                   *)
Escape ==
    IF hook = "wait"
    THEN StopEpisode
    ELSE pc' = "exit" /\ hook' = "none" /\ path' = "none"

(* _fault is entered: the same closing sequence, with errors tolerated.     *)
(* poll_policy has an except clause of its own inside the one of            *)
(* start_episode and _resume; prepare_policy has only theirs.               *)
EnterFault ==
    /\ pc' = "close"
    /\ path' = IF path = "try" /\ pc # "prepare" THEN "inner" ELSE "fault"
    /\ UNCHANGED hook

(* The controller returns to the hook that called it. *)
Return ==
    /\ path' = "none"
    /\ IF hook = "stop"
       THEN pc' = "finish" /\ UNCHANGED hook
       ELSE pc' = "wait" /\ hook' = "wait"

-----------------------------------------------------------------------------
(* Starting an Episode. *)

(* The record pedal starts an Episode: GO_HOME re-locks both arms, the      *)
(* backend and the monitor start, and the started hook enters start_episode.*)
StartEpisode ==
    /\ pc = "ready"
    /\ state = "IDLE"
    /\ episodes < MaxEpisodes
    /\ episodes' = episodes + 1
    /\ episode' = episodes + 1
    /\ firstEpoch' = controlEpoch
    /\ safetyFailure' = FALSE
    /\ lastEvent' = "NONE"
    /\ active' = "none"
    /\ state' = "RESUME_PENDING"
    /\ latch' = [a \in Arms |-> "locked"]
    /\ pc' = "prepare" /\ hook' = "start" /\ path' = "try"
    /\ Works
    /\ UNCHANGED <<controlEpoch, lateEnable, interrupted, committed>>

(* prepare_episode finds a failed check: the arms are compensated and the   *)
(* Session stays READY (EpisodeBlocked).                                    *)
StartBlocked ==
    /\ pc = "ready"
    /\ Fails
    /\ latch' = [a \in Arms |-> "locked"]
    /\ UNCHANGED <<flowVars, state, controlEpoch, episode, safetyFailure, timelineVars,
                   lateEnable, countVars>>

(* GO_HOME, the store, the backend or the monitor raise: run_once raises    *)
(* before the controller is entered.                                        *)
StartRefused ==
    /\ pc = "ready"
    /\ episodes < MaxEpisodes
    /\ Fails
    /\ pc' = "exit" /\ UNCHANGED <<hook, path>>
    /\ UNCHANGED authorityVars

(* The Session has recorded the Episodes it was asked for. *)
EndSession ==
    /\ pc = "ready"
    /\ episodes = MaxEpisodes
    /\ Goto("exit")
    /\ Works
    /\ UNCHANGED authorityVars

-----------------------------------------------------------------------------
(* Acquiring the lease: prepare_policy and poll_policy. *)

(* A gateway call made by the lease-acquiring sequence returned: the next   *)
(* step is `step', or the hook's caller when the policy is not ready.       *)
CallReturned(step) ==
    /\ IF step = "return" THEN Return ELSE Goto(step)
    /\ UNCHANGED authorityVars

(* A gateway call inside a try block raised. *)
CallRaised ==
    /\ EnterFault
    /\ UNCHANGED authorityVars

(* Mutant: the requests are sent and not waited for. *)
EnableArmsUnconfirmed(on, late) ==
    /\ UNCHANGED latch
    /\ lateEnable' = lateEnable \cup on \cup late

(* enable_policy_control asks both arms.  The arms in `on' have switched    *)
(* when the call ends; of the others, those in `late' still hold the        *)
(* request.  It returns only if all have switched.                          *)
EnableArms(on, late) ==
    /\ latch' = [a \in Arms |-> IF a \in on THEN "policy" ELSE latch[a]]
    /\ lateEnable' = IF LateEnable THEN lateEnable \cup (late \ on) ELSE lateEnable

(* timeline.policy_active, then the state. *)
AnnouncePolicy ==
    /\ pc = "announce"
    /\ active' = "model"
    /\ \/ /\ lastEvent' = "POLICY_ACTIVE"
          /\ state' = "MODEL_CONTROL"
          /\ Return
          /\ Works
       \/ /\ Fails \* the event sink raises after the segment was opened
          /\ EnterFault
          /\ UNCHANGED <<lastEvent, state>>
    /\ UNCHANGED <<controlEpoch, episode, safetyFailure, armVars, countVars>>

-----------------------------------------------------------------------------
(* The polling loop of _wait_for_end: poll_runtime, then the signal. *)

(* poll_runtime raises the safety failure; the outcome is FAIL. *)
PollSafetyFailure ==
    /\ pc = "wait"
    /\ safetyFailure
    /\ Escape
    /\ Works
    /\ UNCHANGED authorityVars

(* Mutant: faults are looked for only while the policy is polled. *)
PollFaultOnResume ==
    /\ pc = "wait"
    /\ ~safetyFailure
    /\ state = "RESUME_PENDING"
    /\ CallRaised
    /\ Works

(* poll_runtime took a fault from the gateway. *)
PollFault ==
    /\ pc = "wait"
    /\ ~safetyFailure
    /\ state # "FAULT_HOLD"
    /\ CallRaised
    /\ Works

(* Mutant: the policy is polled in the wrong state. *)
PollPolicyOfModel ==
    /\ pc = "wait"
    /\ ~safetyFailure
    /\ state = "MODEL_CONTROL"
    /\ CallReturned("poll")
    /\ Works

(* poll_runtime found no fault and polls the policy. *)
PollPolicy ==
    /\ pc = "wait"
    /\ ~safetyFailure
    /\ state = "RESUME_PENDING"
    /\ CallReturned("poll")
    /\ Works

(* episode_fault_signal: FAULT_HOLD ends the Episode with FAIL. *)
EndFaulted ==
    /\ pc = "wait"
    /\ ~safetyFailure
    /\ state = "FAULT_HOLD"
    /\ StopEpisode
    /\ Works
    /\ UNCHANGED authorityVars

(* The record pedal, the abort key, a required stream failure or a dead     *)
(* process end the Episode in any state.                                    *)
EndEpisode ==
    /\ pc = "wait"
    /\ StopEpisode
    /\ Works
    /\ UNCHANGED authorityVars

(* Mutant: a failing event sink is ignored. *)
TakeoverUnrecorded ==
    /\ pc = "wait"
    /\ ~safetyFailure
    /\ state = "MODEL_CONTROL"
    /\ takeovers < MaxTakeovers
    /\ takeovers' = takeovers + 1
    /\ UNCHANGED signals
    /\ state' = "HANDOVER_PENDING"
    /\ active' = "none"
    /\ \/ lastEvent' = "TAKEOVER_REQUESTED" /\ UNCHANGED failures
       \/ failures < MaxFailures /\ failures' = failures + 1 /\ UNCHANGED lastEvent
    /\ pc' = "close" /\ path' = "takeover" /\ UNCHANGED hook
    /\ UNCHANGED <<controlEpoch, episode, safetyFailure, armVars, countVars>>

(* The ownership pedal under MODEL_CONTROL: _takeover up to its try block.  *)
(* takeover_requested closes the model segment before it emits.             *)
Takeover ==
    /\ pc = "wait"
    /\ ~safetyFailure
    /\ state = "MODEL_CONTROL"
    /\ takeovers < MaxTakeovers
    /\ takeovers' = takeovers + 1
    /\ UNCHANGED signals
    /\ state' = "HANDOVER_PENDING"
    /\ active' = "none"
    /\ \/ /\ lastEvent' = "TAKEOVER_REQUESTED"
          /\ pc' = "close" /\ path' = "takeover" /\ UNCHANGED hook
          /\ UNCHANGED failures
       \/ /\ failures < MaxFailures \* the sink raises outside the try block
          /\ failures' = failures + 1
          /\ Escape
          /\ UNCHANGED lastEvent
    /\ UNCHANGED <<controlEpoch, episode, safetyFailure, armVars, countVars>>

(* The ownership pedal under HUMAN_ACTIVE: _resume up to its try block. *)
Resume ==
    /\ pc = "wait"
    /\ ~safetyFailure
    /\ state = "HUMAN_ACTIVE"
    /\ takeovers < MaxTakeovers
    /\ takeovers' = takeovers + 1
    /\ UNCHANGED signals
    /\ state' = "RESUME_PENDING"
    /\ active' = "none"
    /\ \/ /\ lastEvent' = "RESUME_REQUESTED"
          /\ pc' = "prepare" /\ path' = "try" /\ UNCHANGED hook
          /\ UNCHANGED failures
       \/ /\ failures < MaxFailures
          /\ failures' = failures + 1
          /\ Escape
          /\ UNCHANGED lastEvent
    /\ UNCHANGED <<controlEpoch, episode, safetyFailure, armVars, countVars>>

-----------------------------------------------------------------------------
(* Giving the lease up: close, bump, clear, begin, gravity, conclude, for a *)
(* takeover, for the end of the Episode and for a fault.                    *)

(* close_gate or clear_pending or begin_epoch returned. *)
Closed(step) ==
    /\ Goto(step)
    /\ UNCHANGED authorityVars

(* close_gate raised: _fault starts over, unless this is _fault. *)
CloseRaised ==
    /\ IF Faulting THEN Goto("bump") ELSE EnterFault
    /\ UNCHANGED authorityVars

BumpEpoch ==
    /\ pc = "bump"
    /\ controlEpoch' = controlEpoch + 1
    /\ Goto("clear")
    /\ Works
    /\ UNCHANGED <<state, episode, safetyFailure, timelineVars, armVars, countVars>>

(* Mutant: the calls return before the arms are locked. *)
GravityUnconfirmed ==
    /\ pc = "gravity"
    /\ \E off \in SUBSET Arms :
         latch' = [a \in Arms |-> IF a \in off THEN "locked" ELSE latch[a]]
    /\ Goto("conclude")
    /\ Works
    /\ UNCHANGED <<state, controlEpoch, episode, safetyFailure, timelineVars, lateEnable, countVars>>

(* enable_gravity_compensation returned: both arms are locked. *)
Gravity ==
    /\ pc = "gravity"
    /\ latch' = [a \in Arms |-> "locked"]
    /\ Goto("conclude")
    /\ Works
    /\ UNCHANGED <<state, controlEpoch, episode, safetyFailure, timelineVars, lateEnable, countVars>>

(* It raised: some arms may have been locked.  Inside _fault this is the    *)
(* safety failure; elsewhere _fault asks again.                             *)
GravityRaises ==
    /\ pc = "gravity"
    /\ Fails
    /\ \E off \in SUBSET Arms :
         latch' = [a \in Arms |-> IF a \in off THEN "locked" ELSE latch[a]]
    /\ IF Faulting
       THEN safetyFailure' = TRUE /\ Goto("conclude")
       ELSE UNCHANGED safetyFailure /\ EnterFault
    /\ UNCHANGED <<state, controlEpoch, episode, timelineVars, lateEnable, countVars>>

(* Mutant: a failing event sink leaves the handover where it is. *)
ConcludeTakeoverSilently ==
    /\ pc = "conclude" /\ path = "takeover"
    /\ active' = "human"
    /\ \/ lastEvent' = "HUMAN_ACTIVE" /\ state' = "HUMAN_ACTIVE" /\ Works
       \/ Fails /\ UNCHANGED <<lastEvent, state>>
    /\ Return
    /\ UNCHANGED <<controlEpoch, episode, safetyFailure, armVars, countVars>>

(* timeline.human_active opens the human segment, then emits. *)
ConcludeTakeover ==
    /\ pc = "conclude" /\ path = "takeover"
    /\ active' = "human"
    /\ \/ /\ lastEvent' = "HUMAN_ACTIVE"
          /\ state' = "HUMAN_ACTIVE"
          /\ Return
          /\ Works
       \/ /\ Fails
          /\ EnterFault
          /\ UNCHANGED <<lastEvent, state>>
    /\ UNCHANGED <<controlEpoch, episode, safetyFailure, armVars, countVars>>

ConcludeStop ==
    /\ pc = "conclude" /\ path = "stop"
    /\ Return
    /\ Works
    /\ UNCHANGED authorityVars

(* timeline.fault_hold closes the open segment, then emits.  If the sink    *)
(* raises the controller is left without reaching FAULT_HOLD, unless the    *)
(* outer except clause of start_episode or _resume enters _fault once more. *)
ConcludeFault ==
    /\ pc = "conclude" /\ Faulting
    /\ active' = "none"
    /\ \/ /\ lastEvent' = "FAULT_HOLD"
          /\ state' = "FAULT_HOLD"
          /\ Return
          /\ Works
       \/ /\ Fails
          /\ IF path = "inner" THEN EnterFault ELSE Escape
          /\ UNCHANGED <<lastEvent, state>>
    /\ UNCHANGED <<controlEpoch, episode, safetyFailure, armVars, countVars>>

(* Mutant: the safety failure is forgotten with the Episode. *)
FinishEpisodeAnyway ==
    /\ pc = "finish"
    /\ active' = "none"
    /\ state' = "IDLE"
    /\ episode' = 0
    /\ safetyFailure' = FALSE
    /\ Goto("commit")
    /\ Works
    /\ UNCHANGED <<controlEpoch, lastEvent, armVars, countVars>>

(* The end of stop_episode: the timeline is finished, and a safety failure  *)
(* is raised last, so that run_once never commits this Episode.             *)
FinishEpisode ==
    /\ pc = "finish"
    /\ active' = "none"
    /\ state' = "IDLE"
    /\ episode' = 0
    /\ safetyFailure' = FALSE
    /\ IF safetyFailure THEN Escape ELSE Goto("commit")
    /\ Works
    /\ UNCHANGED <<controlEpoch, lastEvent, armVars, countVars>>

(* The rest of run_once: components stopped, MCAP finalized, metadata       *)
(* written, directory renamed.  An Episode ended by a signal is committed   *)
(* and is the Session's last.                                               *)
CommitEpisode ==
    /\ pc = "commit"
    /\ \/ /\ committed' = committed + 1
          /\ pc' = IF interrupted THEN "exit" ELSE "ready"
          /\ hook' = "none"
          /\ Works
       \/ /\ Fails
          /\ pc' = "exit" /\ hook' = "none"
          /\ UNCHANGED committed
    /\ UNCHANGED <<path, state, controlEpoch, episode, safetyFailure, timelineVars,
                   armVars, interrupted, episodes, firstEpoch>>

-----------------------------------------------------------------------------
(* SIGINT and SIGTERM: KeyboardInterrupt in the Session thread. *)

(* It is raised between two calls: no `except Exception' of the controller  *)
(* catches it.                                                              *)
Interrupt ==
    /\ pc \notin {"exit", "join", "exited"}
    /\ Signalled
    /\ Escape
    /\ interrupted' = TRUE
    /\ UNCHANGED <<state, controlEpoch, episode, safetyFailure, timelineVars, armVars,
                   episodes, firstEpoch, committed>>

(* It is raised while waiting for the arms to lock.  _fault catches it like *)
(* any failure of the call; a takeover or a stop does not.                  *)
InterruptGravity ==
    /\ pc = "gravity"
    /\ Signalled
    /\ \E off \in SUBSET Arms :
         latch' = [a \in Arms |-> IF a \in off THEN "locked" ELSE latch[a]]
    /\ IF Faulting
       THEN safetyFailure' = TRUE /\ Goto("conclude") /\ UNCHANGED interrupted
       ELSE UNCHANGED safetyFailure /\ Escape /\ interrupted' = TRUE
    /\ UNCHANGED <<state, controlEpoch, episode, timelineVars, lateEnable,
                   episodes, firstEpoch, committed>>

(* _fault catches it inside close_gate or clear_pending as well: the call   *)
(* is abandoned and the sequence goes on.                                   *)
InterruptFaultCall ==
    /\ Faulting
    /\ pc \in {"close", "clear", "begin"}
    /\ Signalled
    /\ Closed(IF pc = "close" THEN "bump" ELSE "gravity")

-----------------------------------------------------------------------------
(* The arms. *)

(* An arm handles an enable request after the caller's timeout. *)
EnableArrives(a) ==
    /\ a \in lateEnable
    /\ lateEnable' = lateEnable \ {a}
    /\ latch' = [latch EXCEPT ![a] = "policy"]
    /\ Works
    /\ UNCHANGED <<flowVars, state, controlEpoch, episode, safetyFailure, timelineVars, countVars>>

-----------------------------------------------------------------------------
(* Steps that involve no gateway. *)
SessionStep ==
    \/ StartEpisode \/ StartBlocked \/ StartRefused \/ EndSession
    \/ AnnouncePolicy
    \/ PollSafetyFailure \/ EndFaulted \/ EndEpisode \/ Takeover \/ Resume
    \/ BumpEpoch \/ Gravity \/ GravityRaises
    \/ ConcludeTakeover \/ ConcludeStop \/ ConcludeFault
    \/ FinishEpisode \/ CommitEpisode
    \/ Interrupt \/ InterruptGravity \/ InterruptFaultCall
    \/ \E a \in Arms : EnableArrives(a)
=============================================================================
