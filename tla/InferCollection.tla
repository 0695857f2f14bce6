--------------------------- MODULE InferCollection ---------------------------
(***************************************************************************)
(* The infer Session: Episodes a fixed policy drives and the operator      *)
(* starts and labels with two pedals.  InferController and its trigger run *)
(* on the Session thread, inside EpisodeRuntime or run_unrecorded; the     *)
(* action scheduler publishes through RecordedControl on its own thread.   *)
(*                                                                         *)
(* `pc' is the Session thread's next step.  The scheduler is what the      *)
(* controller sees of it: gate, pending inference, fault, and an executor  *)
(* between two of its locked regions (RtcScheduler has the rest).          *)
(***************************************************************************)
EXTENDS PedalTrigger, StreamHealth

CONSTANTS
    MaxEpisodes, \* run: episodes
    MaxCommands, \* bound: commands of an Episode
    MaxFailures, \* bound: failing calls
    MaxSignals   \* bound: SIGINT and SIGTERM

ASSUME InferAssumption == {MaxEpisodes, MaxCommands, MaxFailures, MaxSignals} \subseteq Nat

VARIABLES
    recorded,     \* recording.enabled of the policy configuration
    pc,
    episode,      \* Episodes begun
    active, ready, stopError, \* InferController
    runningArmed, \* InferRecordTrigger._running_armed
    event,        \* the event of the last wait
    outcome,      \* of the Episode; "blocked" is a FAIL with session_blocked
    interrupted,  \* Ctrl+C ended the Episode
    startedBy, labelledBy, \* the presses taken for it
    gateOpen, fault,       \* the scheduler
    pending,      \* its inference: the Episode it is for and its state
    executor,     \* the executor thread's place, and the Episode it accepts for
    failure, commandCount, \* RecordedControl
    sent, logged, \* per Episode, commands both arms were sent, and records published
    torn,         \* the Episodes one of whose commands failed
    result, count, \* per Episode, the committed outcome and command_count
    failures, signals \* consumed

controllerVars == <<active, ready, stopError, runningArmed>>
episodeVars == <<episode, event, outcome, interrupted, startedBy, labelledBy>>
schedulerVars == <<gateOpen, fault, pending, executor>>
commandVars == <<failure, commandCount, sent, logged, torn>>
resultVars == <<result, count>>
envVars == <<failures, signals>>
vars == <<recorded, pc, controllerVars, episodeVars, schedulerVars, commandVars, resultVars,
          pedalVars, healthVars, envVars>>

Episodes == 1..MaxEpisodes

NoInference == [episode |-> 0, state |-> "none"]
Resting == [step |-> "idle", episode |-> 0]

Init ==
    /\ PedalInit /\ HealthInit
    /\ recorded \in BOOLEAN
    /\ pc = "ready"
    /\ episode = 0
    /\ active = FALSE /\ ready = FALSE /\ stopError = FALSE /\ runningArmed = FALSE
    /\ event = "none" /\ outcome = "none" /\ interrupted = FALSE
    /\ startedBy = {} /\ labelledBy = {}
    /\ gateOpen = FALSE /\ fault = FALSE /\ pending = NoInference /\ executor = Resting
    /\ failure = FALSE /\ commandCount = 0 /\ torn = {}
    /\ sent = [e \in Episodes |-> 0] /\ logged = [e \in Episodes |-> 0]
    /\ result = [e \in Episodes |-> "none"] /\ count = [e \in Episodes |-> 0]
    /\ failures = 0 /\ signals = 0

(* RecordedControl.start *)
StartCommands == failure' = FALSE /\ commandCount' = 0

(* Both arms were sent the command; the record of it was published. *)
Sent == commandCount' = commandCount + 1 /\ sent' = [sent EXCEPT ![episode] = @ + 1]
Logged == logged' = [logged EXCEPT ![episode] = @ + 1]

Works == UNCHANGED envVars
Fails == failures < MaxFailures /\ failures' = failures + 1 /\ UNCHANGED signals

Go(from, to) == pc = from /\ pc' = to

-----------------------------------------------------------------------------
(* The operator and the telemetry, as long as somebody takes notice. *)

Noticed == pc \notin {"leaving", "over"}

Stage ==
    CASE pc = "idle" -> "ready"
      [] active /\ runningArmed -> "running"
      [] OTHER -> "between"

Pressed ==
    /\ Noticed
    /\ \E p \in Pedals : Press(p, [episode |-> episode, stage |-> Stage])
    /\ UNCHANGED <<recorded, pc, controllerVars, episodeVars, schedulerVars, commandVars,
                   resultVars, healthVars, envVars>>

Settled ==
    /\ Noticed
    /\ SettlePedal
    /\ UNCHANGED <<recorded, pc, controllerVars, episodeVars, schedulerVars, commandVars,
                   resultVars, healthVars, envVars>>

Telemetry ==
    /\ Noticed
    /\ TelemetryStops \/ \E sample \in Published : Sample(sample)
    /\ UNCHANGED <<recorded, pc, controllerVars, episodeVars, schedulerVars, commandVars,
                   resultVars, pedalVars, envVars>>

-----------------------------------------------------------------------------
(* The executor thread. *)

ExecutorOnly ==
    UNCHANGED <<recorded, pc, controllerVars, episodeVars, resultVars, pedalVars, healthVars>>

(* RecordedControl.publish, under the scheduler's lock.  An arm, or the     *)
(* record of a command both arms were sent, may fail.                       *)
PublishWorks ==
    /\ Sent /\ Logged
    /\ UNCHANGED <<failure, torn, executor>>
    /\ Works

PublishFails ==
    /\ \/ UNCHANGED <<commandCount, sent>>
       \/ Sent
    /\ failure' = TRUE
    /\ torn' = torn \cup {episode}
    /\ executor' = [Resting EXCEPT !.step = "failing"]
    /\ UNCHANGED logged
    /\ Fails

Publish ==
    /\ executor = Resting /\ gateOpen
    /\ sent[episode] < MaxCommands
    /\ PublishWorks \/ PublishFails
    /\ UNCHANGED <<gateOpen, fault, pending>>
    /\ ExecutorOnly

(* An underrun, the watchdog, a submit that is refused. *)
ExecutorRaises ==
    /\ executor = Resting /\ gateOpen
    /\ executor' = [Resting EXCEPT !.step = "failing"]
    /\ Fails
    /\ UNCHANGED <<gateOpen, fault, pending, commandVars>>
    /\ ExecutorOnly

Prefetch ==
    /\ executor = Resting /\ gateOpen /\ pending = NoInference
    /\ pending' = [episode |-> episode, state |-> "running"]
    /\ Works
    /\ UNCHANGED <<gateOpen, fault, executor, commandVars>>
    /\ ExecutorOnly

InferenceDone ==
    /\ pending.state = "running"
    /\ pending' = [pending EXCEPT !.state = "done"]
    /\ Works
    /\ UNCHANGED <<gateOpen, fault, executor, commandVars>>
    /\ ExecutorOnly

(* _accept_pending copies what it accepts for and leaves the lock. *)
Accept ==
    /\ executor = Resting /\ gateOpen /\ pending.state = "done"
    /\ executor' = [step |-> "accepting", episode |-> pending.episode]
    /\ Works
    /\ UNCHANGED <<gateOpen, fault, pending, commandVars>>
    /\ ExecutorOnly

(* It splices, or finds the response stale, failed or unsafe; a rejected    *)
(* window closes the gate and sets the fault whatever happened meanwhile.   *)
Accepted ==
    LET current == pending = [episode |-> executor.episode, state |-> "done"]
    IN  /\ executor.step = "accepting"
        /\ \/ /\ current
              /\ executor' = Resting /\ pending' = NoInference
              /\ UNCHANGED <<gateOpen, fault>>
              /\ Works
           \/ /\ executor' = [Resting EXCEPT !.step = "failing"]
              /\ UNCHANGED <<gateOpen, fault, pending>>
              /\ IF current THEN Fails ELSE Works
           \/ /\ executor' = Resting
              /\ gateOpen' = FALSE /\ fault' = TRUE /\ pending' = NoInference
              /\ Fails
        /\ UNCHANGED commandVars
        /\ ExecutorOnly

(* _fail: with the gate closed and nothing pending there is no fault. *)
Fail ==
    /\ executor.step = "failing"
    /\ executor' = Resting
    /\ IF gateOpen \/ pending # NoInference
       THEN gateOpen' = FALSE /\ pending' = NoInference /\ fault' = TRUE
       ELSE UNCHANGED <<gateOpen, pending, fault>>
    /\ Works
    /\ UNCHANGED commandVars
    /\ ExecutorOnly

-----------------------------------------------------------------------------
(* The Session thread, between two Episodes. *)

(* _wait_for_start arms the trigger: both raise once a pedal is unplugged.  *)
Ready ==
    /\ episode < MaxEpisodes
    /\ \/ Go("ready", "idle") /\ Arm /\ Works
       \/ Go("ready", "leaving") /\ UNCHANGED pedalVars /\ Fails
    /\ runningArmed' = FALSE
    /\ UNCHANGED <<recorded, active, ready, stopError, episodeVars, schedulerVars, commandVars,
                   resultVars, healthVars>>

(* Only the right pedal starts an Episode. *)
WaitForStart ==
    /\ pc = "idle"
    /\ \/ /\ Wait
          /\ IF Heard = "right"
             THEN pc' = "home" /\ startedBy' = HeardPresses
             ELSE UNCHANGED <<pc, startedBy>>
          /\ Works
       \/ pc' = "leaving" /\ Disarm /\ UNCHANGED startedBy /\ Fails
    /\ UNCHANGED <<recorded, controllerVars, episode, event, outcome, interrupted, labelledBy,
                   schedulerVars, commandVars, resultVars, healthVars>>

(* The configured Episodes are done. *)
LastEpisode ==
    /\ Go("ready", "leaving")
    /\ episode = MaxEpisodes
    /\ Works
    /\ UNCHANGED <<recorded, controllerVars, episodeVars, schedulerVars, commandVars, resultVars,
                   pedalVars, healthVars>>

Begins(to) == Go("home", to) /\ StartMonitor /\ episode' = episode + 1 /\ Works
BeginRefused(to) == Go("home", to) /\ UNCHANGED <<healthVars, episode>> /\ Fails

(* disarm; the pre-Episode check, GO_HOME, the recorder, the monitor.  A    *)
(* check that fails leaves the Session READY.                               *)
Home ==
    /\ recorded
    /\ Begins("start") \/ BeginRefused("ready") \/ BeginRefused("leaving")
    /\ Disarm
    /\ labelledBy' = {} /\ outcome' = "none"
    /\ UNCHANGED <<recorded, controllerVars, event, interrupted, startedBy, schedulerVars,
                   commandVars, resultVars>>

(* run_unrecorded: any failure ends it. *)
HomeUnrecorded ==
    /\ ~recorded
    /\ Begins("start") \/ BeginRefused("leaving")
    /\ Disarm
    /\ labelledBy' = {} /\ outcome' = "none"
    /\ UNCHANGED <<recorded, controllerVars, event, interrupted, startedBy, schedulerVars,
                   commandVars, resultVars>>

(* start_episode: clear_pending, RecordedControl.start, prepare_policy.     *)
(* (No executor step in between: the gate is closed, nothing is pending.)   *)
StartEpisode ==
    /\ active' = TRUE /\ ready' = FALSE /\ stopError' = FALSE
    /\ gateOpen' = FALSE
    /\ StartCommands
    /\ \/ Go("start", "arm") /\ pending' = [episode |-> episode, state |-> "running"] /\ Works
       \/ Go("start", "leaving") /\ pending' = NoInference /\ Fails
    /\ UNCHANGED <<recorded, runningArmed, episodeVars, fault, executor, sent, logged, torn,
                   resultVars, pedalVars, healthVars>>

-----------------------------------------------------------------------------
(* _wait_for_end and InferRecordTrigger.wait. *)

(* The Episode ends so; the rest of the controller's state is unchanged. *)
End(by) == pc' = "stopping" /\ outcome' = by

(* An arm that raises is outside _wait_for_end's try. *)
ArmRunning ==
    /\ pc = "arm"
    /\ \/ pc' = "loop" /\ Arm /\ UNCHANGED outcome /\ Works
       \/ recorded /\ pc' = "leaving" /\ UNCHANGED <<outcome, pedalVars>> /\ Fails
       \/ ~recorded /\ End("blocked") /\ UNCHANGED pedalVars /\ Fails
    /\ runningArmed' = FALSE
    /\ UNCHANGED <<recorded, active, ready, stopError, episode, event, interrupted, startedBy,
                   labelledBy, schedulerVars, commandVars, resultVars, healthVars>>

(* The child processes run and the required streams flow, or it is blocked. *)
CheckStreams ==
    /\ pc = "loop"
    /\ \/ ~RequiredFailure /\ pc' = "poll" /\ UNCHANGED outcome /\ Works
       \/ RequiredFailure /\ End("blocked") /\ Works
       \/ End("blocked") /\ Fails
    /\ UNCHANGED <<recorded, controllerVars, episode, event, interrupted, startedBy, labelledBy,
                   schedulerVars, commandVars, resultVars, pedalVars, healthVars>>

(* take_fault() or commands.failure *)
Disturbed == fault \/ failure

(* poll.  The bootstrap is awaited; its answer, once validated, opens the   *)
(* gate; it may time out, fail, be refused, or have been cancelled.         *)
Poll ==
    /\ pc = "poll"
    /\ \/ Disturbed /\ End("blocked") /\ fault' = FALSE
          /\ UNCHANGED <<gateOpen, pending>> /\ Works
       \/ ~Disturbed /\ ready /\ pc' = "hear"
          /\ UNCHANGED <<outcome, gateOpen, pending, fault>> /\ Works
       \/ ~Disturbed /\ ~ready /\ pending = NoInference /\ End("blocked")
          /\ UNCHANGED <<gateOpen, pending, fault>> /\ Works
       \/ ~Disturbed /\ ~ready /\ pending.state = "running" /\ pc' = "discard"
          /\ UNCHANGED <<outcome, gateOpen, pending, fault>> /\ Works
       \/ ~Disturbed /\ ~ready /\ pending.state = "done" /\ pc' = "opened"
          /\ gateOpen' = TRUE /\ pending' = NoInference
          /\ UNCHANGED <<outcome, fault>> /\ Works
       \/ ~Disturbed /\ ~ready /\ End("blocked")
          /\ UNCHANGED <<gateOpen, pending, fault>> /\ Fails
    /\ UNCHANGED <<recorded, controllerVars, episode, event, interrupted, startedBy,
                   labelledBy, executor, commandVars, resultVars, pedalVars, healthVars>>

(* policy_ready returns, or raises behind the open gate. *)
PolicyReady ==
    /\ \/ Go("opened", "listen") /\ ready' = TRUE /\ UNCHANGED outcome /\ Works
       \/ pc = "opened" /\ End("blocked") /\ UNCHANGED ready /\ Fails
    /\ UNCHANGED <<recorded, active, stopError, runningArmed, episode, event, interrupted, startedBy,
                   labelledBy, schedulerVars, commandVars, resultVars, pedalVars, healthVars>>

Discard ==
    /\ \/ Go("discard", "loop") /\ Wait /\ UNCHANGED outcome /\ Works
       \/ pc = "discard" /\ End("blocked") /\ UNCHANGED pedalVars /\ Fails
    /\ UNCHANGED <<recorded, controllerVars, episode, event, interrupted, startedBy, labelledBy,
                   schedulerVars, commandVars, resultVars, healthVars>>

ListenForLabel ==
    /\ \/ Go("listen", "announce") /\ Arm /\ runningArmed' = TRUE /\ UNCHANGED outcome /\ Works
       \/ pc = "listen" /\ End("blocked") /\ UNCHANGED <<runningArmed, pedalVars>> /\ Fails
    /\ UNCHANGED <<recorded, active, ready, stopError, episode, event, interrupted, startedBy,
                   labelledBy, schedulerVars, commandVars, resultVars, healthVars>>

(* INFER RUNNING *)
Announce ==
    /\ Go("announce", "hear")
    /\ Works
    /\ UNCHANGED <<recorded, controllerVars, episodeVars, schedulerVars, commandVars, resultVars,
                   pedalVars, healthVars>>

(* A pedal may be unplugged. *)
HearLabel ==
    /\ pc = "hear"
    /\ \/ /\ pc' = "repoll" /\ Wait
          /\ event' = Heard
          /\ labelledBy' = IF Heard = "none" THEN {} ELSE HeardPresses
          /\ UNCHANGED outcome
          /\ Works
       \/ End("blocked") /\ Fails /\ UNCHANGED <<event, labelledBy, pedalVars>>
    /\ UNCHANGED <<recorded, controllerVars, episode, interrupted, startedBy, schedulerVars,
                   commandVars, resultVars, healthVars>>

(* A concurrent policy fault is preferred over the label. *)
PollAgain ==
    /\ pc = "repoll"
    /\ IF Disturbed
       THEN End("blocked") /\ fault' = FALSE
       ELSE pc' = (IF event = "none" THEN "loop" ELSE "label") /\ UNCHANGED <<outcome, fault>>
    /\ Works
    /\ UNCHANGED <<recorded, controllerVars, episode, event, interrupted, startedBy, labelledBy,
                   gateOpen, pending, executor, commandVars, resultVars, pedalVars, healthVars>>

-----------------------------------------------------------------------------
(* label, close, stop_episode. *)

CloseGate ==
    /\ Go("label", "close")
    /\ gateOpen' = FALSE
    /\ Works
    /\ UNCHANGED <<recorded, controllerVars, episodeVars, fault, pending, executor, commandVars,
                   resultVars, pedalVars, healthVars>>

(* clear_pending and gravity compensation, which may fail: _stop_error. *)
Close ==
    /\ pc = "close"
    /\ pending' = NoInference
    /\ active' = FALSE /\ ready' = FALSE
    /\ \/ pc' = "verdict" /\ UNCHANGED <<stopError, outcome>> /\ Works
       \/ End("blocked") /\ stopError' = TRUE /\ Fails
    /\ UNCHANGED <<recorded, runningArmed, episode, event, interrupted, startedBy, labelledBy,
                   gateOpen, fault, executor, commandVars, resultVars, pedalVars, healthVars>>

Label == [right |-> "success", left |-> "fail", conflict |-> "aborted"]

(* Mutant: what the worker published, rather than what RecordedControl      *)
(* kept, decides.                                                           *)
VerdictByFault ==
    /\ pc = "verdict"
    /\ IF fault THEN End("blocked") ELSE End(Label[event])
    /\ fault' = FALSE
    /\ Works
    /\ UNCHANGED <<recorded, controllerVars, episode, event, interrupted, startedBy, labelledBy,
                   gateOpen, pending, executor, commandVars, resultVars, pedalVars, healthVars>>

(* A fault at the label. *)
Verdict ==
    /\ pc = "verdict"
    /\ IF Disturbed THEN End("blocked") ELSE End(Label[event])
    /\ fault' = FALSE
    /\ Works
    /\ UNCHANGED <<recorded, controllerVars, episode, event, interrupted, startedBy, labelledBy,
                   gateOpen, pending, executor, commandVars, resultVars, pedalVars, healthVars>>

(* close, once more or for the first time: without an exception. *)
CloseIfActive ==
    /\ active' = FALSE /\ ready' = FALSE
    /\ IF active
       THEN gateOpen' = FALSE /\ pending' = NoInference
       ELSE UNCHANGED <<gateOpen, pending>>

(* disarm, then stop_episode: close, unless label did; command_count.       *)
StopEpisode ==
    /\ recorded
    /\ pc = "stopping"
    /\ Disarm
    /\ CloseIfActive
    /\ \/ pc' = (IF stopError THEN "leaving" ELSE "commit") /\ Works /\ UNCHANGED stopError
       \/ active /\ pc' = "leaving" /\ Fails /\ stopError' = TRUE
    /\ count' = [count EXCEPT ![episode] = commandCount]
    /\ StopMonitor
    /\ UNCHANGED <<recorded, runningArmed, episodeVars, fault, executor, commandVars, result>>

(* run_unrecorded: disarm, close, stop the monitor.  It goes on only when   *)
(* the operator ended the Episode and no cleanup failed.                    *)
CleanUp ==
    /\ ~recorded
    /\ pc = "stopping"
    /\ Disarm
    /\ CloseIfActive
    /\ StopMonitor
    /\ \/ pc' = (IF outcome = "blocked" THEN "leaving" ELSE "ready") /\ Works
       \/ pc' = "leaving" /\ Fails
    /\ UNCHANGED <<recorded, stopError, runningArmed, episodeVars, fault, executor, commandVars,
                   resultVars>>

(* The recorder stops, the artifacts are finalized and committed.  After a  *)
(* FAIL, also one that is SESSION BLOCKED, the Session is READY again.      *)
Commit ==
    /\ \/ /\ pc = "commit"
          /\ pc' = IF interrupted THEN "leaving" ELSE "ready"
          /\ result' = [result EXCEPT ![episode] = outcome]
          /\ Works
       \/ Go("commit", "leaving") /\ UNCHANGED result /\ Fails
    /\ UNCHANGED <<recorded, controllerVars, episodeVars, schedulerVars, commandVars, count,
                   pedalVars, healthVars>>

-----------------------------------------------------------------------------
(* SIGINT and SIGTERM, and the end of the Session. *)

Signalled == signals < MaxSignals /\ signals' = signals + 1 /\ UNCHANGED failures

(* Inside _wait_for_end: the Episode is aborted.  Inside close it is also   *)
(* _stop_error.                                                             *)
InterruptEpisode ==
    /\ recorded
    /\ pc \in {"loop", "poll", "opened", "discard", "listen", "announce", "hear", "repoll",
              "label", "close", "verdict"}
    /\ End("aborted")
    /\ interrupted' = TRUE
    /\ stopError' = (pc = "close")
    /\ IF pc = "close"
       THEN active' = FALSE /\ ready' = FALSE /\ pending' = NoInference
       ELSE UNCHANGED <<active, ready, pending>>
    /\ Signalled
    /\ UNCHANGED <<recorded, runningArmed, episode, event, startedBy, labelledBy, gateOpen, fault,
                   executor, commandVars, resultVars, pedalVars, healthVars>>

InterruptSession ==
    /\ pc \notin {"leaving", "over"}
    /\ recorded => pc \in {"ready", "idle", "home", "start", "arm", "stopping", "commit"}
    /\ pc' = "leaving"
    /\ Signalled
    /\ UNCHANGED <<recorded, controllerVars, episodeVars, schedulerVars, commandVars, resultVars,
                   pedalVars, healthVars>>

(* run: the controller is closed once more, then the executor, and at last  *)
(* the pedals.                                                              *)
Leave ==
    /\ Go("leaving", "over")
    /\ CloseIfActive
    /\ ClosePedals
    /\ Works
    /\ UNCHANGED <<recorded, stopError, runningArmed, episodeVars, fault, executor, commandVars,
                   resultVars, healthVars>>

-----------------------------------------------------------------------------
SessionThread ==
    \/ Ready \/ WaitForStart \/ LastEpisode \/ Home \/ HomeUnrecorded \/ StartEpisode
    \/ ArmRunning \/ CheckStreams \/ Poll \/ PolicyReady \/ Discard
    \/ ListenForLabel \/ Announce \/ HearLabel \/ PollAgain
    \/ CloseGate \/ Close \/ Verdict \/ StopEpisode \/ CleanUp \/ Commit \/ Leave

Executor == Publish \/ ExecutorRaises \/ Prefetch \/ Accept \/ Accepted \/ Fail

Next ==
    \/ SessionThread \/ Executor \/ InferenceDone
    \/ Pressed \/ Settled \/ Telemetry
    \/ InterruptEpisode \/ InterruptSession

Spec == Init /\ [][Next]_vars

-----------------------------------------------------------------------------
(* No buffered press means anything: what starts an Episode was pressed     *)
(* after the trigger was armed for it, and what labels it was pressed in    *)
(* that Episode, after the trigger was armed anew because the policy is     *)
(* running - INFER RUNNING is announced right after, and a press in between *)
(* counts (InferRecordTrigger.wait, PedalTrigger.arm).                      *)
LabelIsDeliberate ==
    /\ pc \in {"home", "start"} =>
           startedBy \subseteq {[episode |-> e, stage |-> "ready"] : e \in {episode, episode - 1}}
    /\ labelledBy \subseteq {[episode |-> episode, stage |-> "running"]}

(* An Episode committed as a success has every one of its commands sent to  *)
(* both arms and its record published for the recorder, and its metadata    *)
(* counts them: a command that fails while the operator labels makes it a   *)
(* failure, and the next Episode starts from a clean slate                  *)
(* (RecordedControl.publish, InferController.label and start_episode).      *)
SuccessIsUndisturbed ==
    \A e \in Episodes :
        result[e] = "success" => e \notin torn /\ count[e] = sent[e] /\ sent[e] = logged[e]
=============================================================================
