# ARX5 dual-arm collection: TLA+ models

This directory models the collection and take-over software under `src/`
(`arx5_collection`): two ARX5 arms, three cameras, a remote policy, an operator
with two pedals, and Episodes recorded as MCAP. Source paths below are relative
to `src/src/arx5_collection/`. `PROJECT.json` maps every definition to the lines
it translates.

Contents: [the system](#the-system) - [modules](#modules) -
[correspondence](#correspondence-with-the-code) - [runs](#runs-and-bounds) -
[fairness](#fairness) - [proofs](#proofs) - [disagreements](#where-the-code-and-its-documents-disagree) -
[not modelled](#not-modelled) - [plan](#plan)

## The system

| Component | State | Operations | Talks to | What must be right |
|---|---|---|---|---|
| Takeover controller (`dagger/takeover.py`) | state, control epoch, authority timeline, safety failure | start, toggle ownership, poll, fault, stop an Episode | gateway, arm services, event sink; called by the Episode loop | no command lease while a human owns the arms; events in protocol order; no commit without compensation |
| RTC scheduler (`dagger/rtc_scheduler.py`) | gate, epoch, queue, pending inference, counters, rolling delay, fault; one lock, one thread | prepare, policy_ready, step, close_gate, clear_pending, take_fault | policy client, command port | the queue is the plan of this epoch from this step on; a stale response is never spliced |
| Sequential gateway and executor (`dagger/action_gateway.py`) | gate, epoch, ticket, commands, fault; one lock, one thread | prepare, policy_ready, pop, publish, latch, step | as above | the same authority properties with lock regions that are shorter |
| Policy client (`dagger/policy_client.py`, `openpi_transport.py`) | active epoch, one worker, a connection | begin_epoch, submit, infer, close | snapshot, policy server | a response answers the request it is taken for |
| Policy server (`dagger/policy_server.py`, `policy_envelope.py`) | start-up stage | hash, load, warm up, serve | client | echoes the identifiers it was sent |
| Command port, arm services (`dagger/command_ros.py`, `ros2_adapters/reset.py`) | latch of each arm, requests outstanding | enable policy control, publish, GO_HOME, gravity compensation | vendor controller | both arms or none |
| Episode runtime (`episode/runtime.py`, `cli.py`) | READY / RECORDING / FINALIZING, the pending Episode | run_once: check, prepare, record, finalize, commit | everything below | one Episode at a time; an Episode is committed whole or stays partial |
| Recorder (`ros2_adapters/recording.py`, `recording_publisher.py`) | a recorder, its thread, three events, a bag directory, a publisher | start, stop | rosbag2 | no thread, no publisher and no half-closed bag is left behind |
| Finalizer, store, metadata (`episode/finalization.py`, `store.py`, `metadata.py`) | files | compress, verify, replace, write, commit | disk | no recording is lost to compression; the rename is the only commit |
| Monitor and health (`ros2_adapters/monitor.py`, `health.py`) | latest telemetry, per-stream tracker | start, observe, required_failure, stop | telemetry topic | a stopped required stream ends the Episode |
| Production Session (`production/orchestrator.py`, `processes.py`, `system.py`, ...) | owned processes, checks, open resources | start in order, stop in reverse | OS | everything started is stopped, once, whatever fails on the way |
| Snapshot path (`snapshot_shared_memory.py`, `dagger/local_snapshot.py`, C++ writer, buffer and socket server) | two slots with generations, a socket | write, request, read | camera source, arm adapter | a reader sees one triplet or an error |
| EXPO (`dagger/expo.py`) | a scheduler's state and `_finishing` | prepare and finish of a window | policy client | windows are fixed: no row early, late, twice or of another window |
| Shadow loop (`dagger/shadow.py`) | a thread per Episode, `_stop`, counters | start, stop, summary | policy client, metadata | the summary of an Episode leaves no attempt out; a hook that fails ends the Session |
| Infer collection (`infer/`) | active, ready, recorded commands | start, poll, label, close, stop | gateway, recorder, monitor, pedals | a label is deliberate; success only with every command sent to both arms and its record published |
| Triggers (`episode/adapters/`, `production/triggers.py`, `dagger/triggers.py`) | armed, last press | arm, wait, disarm | pedals, terminal | a press of an earlier phase is not an input of this one |
| Calibration (`calibration/`) | the resources of one program, a motion thread, service requests on their way, a camera slot, run and route files | teach, record, stop, park, solve | calibration controllers, camera process, operator, disk | hands on the arms only when both are let go; an image is of the pose it is filed under; what is on disk is whole |
| Station initialization (`station/`) | station file | identify | devices | a wizard that replaces one file |

How they interact: the Session thread runs the Episode loop and, through its
trigger and hooks, the takeover controller; the controller calls a gateway whose
lock it shares with the gateway's own thread; that thread publishes commands and
asks the policy client's worker for the next chunk; a recorder thread runs beside
them. The only messages are mode requests to the arms, inferences and telemetry.

What makes it hard: the gateway's two threads meet between any two lock regions,
and a control epoch may end in any of these gaps; every call of the handover may
raise, and the fault path repeats the same calls; a mode request that timed out
may still be served; a signal is an exception at any step; the files of an Episode
are changed in nine steps, and the process may be killed between any two.

## Modules

| Module | Models |
|---|---|
| `TakeoverController` | the Session thread's side of a take-over Session, with the arms' latches, the timeline and the pieces of the Episode loop around it |
| `RtcScheduler` | the RTC gateway, its executor's step and the policy worker |
| `RtcTakeover` | both, composed: which step of the controller makes which call; the safety, action and liveness properties |
| `CommandLease` | abstract: a lease is granted once per epoch, used only while held, never granted while the human's time runs |
| `PolicyActionGateway`, `SequentialTakeover` | the sequential gateway, its executor, and the same controller over it |
| `RosbagRecordingBackend` | recorder thread, its events, publisher, bag directory and MCAP |
| `EpisodeRuntime` | Episode loop, run_once, finalizer, store and metadata over processes that are interrupted, killed and restarted |
| `EpisodeArchive` | abstract: an Episode is partial until it is committed once, with a whole recording, and a whole recording is never lost |
| `ProcessGroups` | process groups: leader, the child it forked, strays; a signal and its wait |
| `ProductionSession` | one program after the other: acquisition, Episodes, release, with every signal, failure and crash between |
| `SnapshotArena` | the shared memory: writer and reader part by part |
| `LocalSnapshot` | camera source, buffer, socket server and client around the arena |
| `PolicyTransport` | server, the one connection, the client's worker |
| `ExpoScheduler`, `ShadowLoop`, `PolicyPath` | the two users of the transport no other module composes, and their composition with it |
| `PedalTrigger`, `StreamHealth` | two pedals with their kernel buffers; one required stream and its telemetry |
| `InferCollection` | infer Session, recorded or not, over both |
| `CalibrationArms` | the controllers in calibration mode, the service calls of two threads, feedback, and the motion thread of `ReplayControl` |
| `CalibrationRun` | one calibration program after the other over them: hardware, teach, record, park, files |
| `MC*` | the instances for TLC; `MCOperatorPrograms` runs either `InferCollection` or `CalibrationRun` |
| `RtcTakeoverInv`, `EpisodeRuntimeInv` | the inductive invariants, in named parts, which a run checks too |
| `SequentialTakeoverInv`, `PolicyPathInv`, `ProductionSessionInv`, `LocalSnapshotInv`, `InferCollectionInv`, `CalibrationRunInv` | the inductive invariants of the others, which no run lists |
| `*_proofs` | theorems; `Snapshot_proofs` is about the arena and the socket, `OperatorPrograms_proofs` about `InferCollection` and `CalibrationRun` |

## Correspondence with the code

**Grain.** One action is one lock region, one call that can raise, or one
unlocked stretch between two regions. `pc` (Session thread), `xpc` (executor
thread) and `thread` (recorder) say what comes next. Where Python reads shared
attributes in several lock regions, the model has a step for each, and a `snap`
or a captured value carries what was read.

**Data.** An action row is the pair of the epoch it was inferred for and the step
it is planned for: row i of a response to a request made after b commands is
planned for step b+i. With that a wrong splice, a repeated or skipped row and a
row of an old epoch all show, and joint values do not matter. Joint limits,
staleness of arm states and the identity of a response are choices between
accept and reject at the step where the code decides. A fault is the epoch it
arose in. Clocks are left out: a command is due or not yet, and a deadline may
expire at the price of one failure.

**Faults.** `MaxFailures` bounds calls that raise, `Signals`/`MaxSignals` the
signals, `MaxCrashes` the kills, `LateEnable` says whether a mode request may be
served after its timeout. A KeyboardInterrupt is an exception at the step it
meets: `_fault` swallows it, `_stop_recorder_thread` collects it, other handlers
stop the recorder, and elsewhere it leaves the loop. `start_episode` and
`_resume` wrap `poll_policy`, which has an except clause of its own: the `_fault`
of the inner one is `path = "inner"`, and when its last step raises, the outer
clause runs `_fault` once more. The arms may be enabled by either thread of the
sequential gateway, and either may fail half way (`SessionEnableFails`,
`ExecutorEnableFails`).

**A swallowed signal.** `_fault` calls `close_gate` and `clear_pending` in two
`try` blocks whose `except BaseException` goes on (`takeover.py:427-434`). A
Ctrl+C inside each leaves the RTC gateway in the epoch the controller has left,
with its gate open; in the sequential gateway one is enough, because the executor
thread may open the gate in between. The properties call that state `LeftBehind`
and except it by name: the gate stays open in FAULT_HOLD, and may still send what
is left of its window, until the next Episode's `prepare` refuses the old epoch.
While a human owns the arms the exception does not apply.

**Episode files.** Per Episode: `bag` (none, open, closed, metadata.yaml unlinked,
empty), `mcap` (none, raw, zstd), `tmp` (the compressed file, torn or whole),
`meta` (torn, or the outcome it names) and `place` (partial or the outcome's
directory). Each file-system call is a step. A metadata write or a compression
that is killed leaves a torn file. `leaving` is the propagation of whatever ends
the loop, up to the interpreter's wait for the recorder thread; the Session's
own shutdown happens there and is not modelled.

**Production Session.** `Plan` is the order of `ProductionSession.start`; no
program of the repository passes `additional_processes`, so they have no step. A
step of it is made in up to four moves (`do`, `made`, `confirm`, `keep`), because
an exception finds different things held between them. What the program would
still stop is read off its own state (`Known`): the lists it keeps (`Kept`), what
the step in hand has made, and what the cleanup that runs has before it. Whoever
runs outside that is among the `Strays`. `RosReadinessGate.start` makes its
context and node and then its executor and thread with no `try` around either:
an exception in between leaves the node behind (`context` is `"node"`), which
nothing stops and which does not keep the process from exiting. A failed check of
`prepare_episode` is answered by gravity compensation, any other exception leaves
the Session without. Cleanup is a list `todo` worked off by
stage: `undo` (a supervisor's own except), `inner` (`SystemBringup.stop`),
`outer` (`ProductionSession.stop`, the only one that ignores signals). The next
program finds what the last one left: groups that run, interfaces that are up,
a raised USB setting. A signal that meets `SystemBringup.stop` while it restores
the USB setting is swallowed there, and only the setting is lost.

**Snapshot.** In `SnapshotArena` the content of a part is the number of the
commit it was copied from, so a torn or exchanged sample shows. Stores and loads
take effect in program order, as on the station's x86 hosts. `LocalSnapshot`
takes a commit and a read as one step each, which `ReadsAreWhole` justifies, and
adds what the arena does not have: stamps, the causal selection, descriptors on
the socket, the client's deadline and the shutdown of the source.

**Policy path.** A message carries the identifiers that are compared and nothing
else; the inference that prepared an EXPO candidate stands for the candidate. An
answer nobody waits for stays in `answers`. A row of the EXPO queue is its
inference, its index and whether it closes the window. A shadow hook that raises,
`start` with a thread left or `stop` whose join timed out, makes `run_once` raise
and ends the Session (`JoinRaises`, `LeaveSession`); the application's `finally`
stops the loop again, and if that raises too the client is left open while the
transport is closed under its worker (`HangUp`).

**Infer collection.** `pc` is the Session thread's next step, recorded
(`EpisodeRuntime`) or not (`run_unrecorded`). A recorded Episode that is blocked
is a FAIL with SESSION BLOCKED, after which the Session is READY again; an
unrecorded one ends it. Arming the trigger for the label and announcing INFER
RUNNING are two steps, either pedal call may raise (a pedal is unplugged), and
`policy_ready` may raise behind the gate it opened. A press carries the stage it
was made in. The scheduler is what the controller and the command recorder see of
it: the gate, one inference, a fault, and an executor that may be between two
lock regions.

**Calibration.** `at` names the next call of the main thread that changes
something or can raise. An exception, a signal or the Esc key takes it to the
handler of the region it is in (`Handler`): `record_route`'s `finally` in its
order (stop, join, hold, trace, run.json), then `park`, then the ExitStack. Where
the arms stand is a number, the move of the route that ends there, and 0
elsewhere; one arm moves at a time. A stamp is compared with one moment only, the
opening of the capture window, so an image carries its pose and whether it was
exposed `after` that. A service answers in the order it was asked and nothing
orders two services; a request whose caller gave up is `nobody`'s and still on its
way. `Serve`, `Watchdog` and `Frozen` are
`docker/patches/arx-x5-calibration-control.patch`; hands and pushes are external,
and a push lasts longer than the time between two samples. `finalize_samples`
rewrites the observations one after the other (`Split`) and then the digest of
each in the run (`Digest`), so a kill finds any number of them rewritten.
`alarmed` says that a call to the arms was given up or the stop raised; a signal
inside a call counts too, which `cli.py:217` does not report to the operator. What
nobody reads any more (the control after its stop, the slot after an exception) is
reset. The container, and the controllers in it, end with the process.

**Observers.** `revoked` (a lease of this epoch was given up), the epoch inside
`fault`, `struck` (the Episodes something failed in), `counted.made`,
`startedBy`, `labelledBy`, `sent`, `logged`, `torn`, `alarmed` (a service call or
the stop raised) and `finished` are not in the code; no
action depends on them.

## Runs and bounds

All passing runs explore their whole state space.

| Run | Question | Bounds |
|---|---|---|
| `rtc_authority` | who may command the arms, when, with which actions; refinement of the lease | 2 Episodes, 2 presses, 1 failure, 2 signals, smallest profile (window 1) |
| `rtc_progress` | splice arithmetic, prefix, paired enabling; handover, resume and fault come to an end | 1 Episode, 2 presses, 1 failure, 1 signal, windows of 4 in chunks of 6, delays up to 2, history 2, late mode requests, 6 commands; no symmetry |
| `seq_authority` | the same authority questions over the sequential gateway, whose two threads both enable the arms: paired lease, commits, old epochs | 2 Episodes, 2 presses, 1 failure, 1 signal |
| `episode_archive` | what is committed is complete, nothing recorded is lost, finalization ends, READY is clean | 2 Episodes, 2 processes, 2 failures, 2 signals, 1 kill |
| `production_session` | what runs is under the lease, recordings are made in gravity compensation, no failing call loses a running process, a cleanup ends | 2 programs of 2 Episodes, 2 arms, 5 processes of which 1 forks a child, 2 signals, 2 faults |
| `snapshot_arena` | a read returns one whole commit | 2 slots, 4 parts, 6 commits: the slot a reader is in is written again, twice |
| `snapshot` | an observation is of its own capture, a stop ends | one wrist camera, one arm, a clock of 2, 2 connections, 2 commits |
| `policy_path` | a ticket answers its own request, fixed windows, complete summaries, a loop that was stopped ends | 5 inferences, 2 failures, 2 Episodes, 2 epochs, windows of 3 with delay 1 |
| `operator_programs` | infer: labels are deliberate, success is undisturbed; calibration: hands are safe, an observation shows its pose, the disk is whole | infer: 2 Episodes, 3 presses, 1 command, 2 failures, 1 signal, 1 change of telemetry; calibration: 1 program that finds an earlier run and a finished route, a route of a start move and 2 captures, 1 pose to teach, 2 device faults, 1 exception or kill |
| `rtc_late_enable`, `seq_reopened_gate`, `policy_late_answer` | one documented claim each, which the code does not keep | the smallest instance that shows it |

`rtc_authority` and `episode_archive` also check the inductive invariant `IInv`
that the proofs use. `operator_programs` explores the union of its two programs
and not their product: each holds the lease of the station while it has the
hardware (`production/lease.py`), so that one runs and the other does not. Its
symmetry is that of the two arms of a calibration; what the operator does once the
infer Session is leaving reaches nobody and is left out (`Noticed`).

Why the bounds are enough: two Episodes make what an earlier one left behind meet
the next; two presses are a full round of model, human and model within one
Episode; one failure reaches every single-failure path, and a signal on top of it
reaches the failures of the fault path; the second signal of `rtc_authority` is
the one that makes `LeftBehind` happen there, as the first does in
`seq_authority`. One command is enough for the infer Session, whose counts are
compared and not added up across Episodes. The progress instance has a delay between
zero and the largest trained one and a history that forgets. For
the recorder, two failures or signals are needed to fail once while starting or
recording and once more while stopping; the same holds for the production
Session, where the second program is the one that meets what the first lost.
For calibration two faults let a device fail while the program handles the
failure of another, and one exception or kill meets every step; with two captures
a leftover of the first (a best image, a window, a sample) meets the second.
Five inferences let an answer that came late shift a bootstrap, a prepare and a
finish of the next segment; three presses are a buffered one beside the start
and the label. An instance is small where only the order matters: one wrist
camera beside the overview camera is enough for a group that spans too long.

`CHECK_DEADLOCK FALSE` stands where a bounded system stops: all programs have
ended, all Episodes are over, or the clock is at its bound.

## Fairness

`RtcTakeover!FairSpec` is weak fairness of the Session thread's steps, of the
executor's steps and of the policy worker: the loops poll with finite timeouts,
the worker's transport has a timeout, and every service call has a deadline. No
fairness is assumed of the operator, of failures or of signals. A WF of a thread
is over the disjunction of its steps, so the properties do not rely on a choice
between its outcomes. `EpisodeRuntime!FairSpec` is the same for the main thread
and the recorder thread; the operator need not start or end anything.

`ProductionSession!FairSpec` is weak fairness of the cleanup's steps only: every
one of them waits with a timeout (`ManagedProcess.stop`, `shutdown(timeout_sec)`,
`join(timeout)`). `PolicyPath!FairSpec` is that of the client's worker and of the
shadow loops; the server owes nobody an answer, since a receive times out. That
the worker gets as far as the receive assumes that `connection.send`, which has
no timeout (`openpi_transport.py:56`), returns or raises.
`StopIsNotStuck` needs no fairness: it says that while the camera process waits
for its server thread, no call of that thread can block for good.

## Proofs

TLAPS checks the following for all values of the constants allowed by
`RolloutAssumption`, `SessionAssumption`, `SnapshotAssumption` and the bounds'
assumptions. Each safety theorem rests on one inductive invariant, called `IInv`
(`ArenaInv` for the arena, `InferInv` and `CalibrationInv` for the operator's
programs), whose conjuncts are named and proved one action at a time. TLC was
asked first whether each of them holds on the instance of its run; where no run
lists the invariant, add it to the configuration to see that (`MCProductionSession`,
`MCLocalSnapshot` and `MCOperatorPrograms` then extend the `Inv` module).

**Take-over with the RTC scheduler** (`RtcTakeover_proofs`: lemmas on the queue
and the rolling maximum, the preservation of each part, the theorems; the lemmas on
the controller, which both compositions need, are in `TakeoverController_proofs`).
`IInv` says where the Session thread can be in which
controller state (`FlowInv`), which event was last (`EventInv`), what the threads'
snapshots still mean (`SnapInv`), how far the gateway's epoch lags (`EpochInv`),
where the gate can be open (`GateInv`), that nothing is queued for a human
(`HumanInv`), where the latches are known (`LockInv`), the queue as a plan
(`PlanInv`), and that an epoch which may still be granted a lease has not lost one
(`RevokeInv`). The central step is the splice: a snapshot taken before the epoch
changed is refused because `StillCurrent` compares the pending inference, the
epoch, the Episode, the count and the last command. From it: `TypeCorrect`,
`HumanIsAlone`, `PairedLease`, `ArmsAreLocked` and `CommitsAreCompensated` (both
only without late mode requests, as the run `rtc_late_enable` shows),
`QueueIsExact`, `WindowAddsUp`, `PrefixNeverShort`, the action properties
`OnlyThePlanIsSent` and `EventsAreOrdered`, and `GateIsALease`: the composition
implements `CommandLease`, step by step under the mapping gate open / revoked /
fresh. `Signals` is any number: what two of them can leave behind (`LeftBehind`)
is excepted in the properties and nowhere assumed away, and the invariant counts
how many signals it takes to get there.

**Take-over with the sequential gateway** (`SequentialTakeover_proofs`). Here the
gate being closed says little, because the executor thread may be on its way to
open it, as the run `seq_reopened_gate` shows. The invariant speaks of
an epoch that is `Live` instead: the gate is open, or the executor is `InFlight`
with a ticket of this epoch. `LiveInv` says where the Session thread can be while
the epoch is live, and `HumanInv` that once `clear_pending` returned in a takeover
the epoch is new, so nothing in flight is of it (`EpochInv`: no thread knows a
later epoch than the gateway). From it: `HumanIsAlone`, `PairedLease`,
`NothingOfAnOldEpochIsSent` and `CommitsAreCompensated`, again for any number of
signals, with what one can leave behind excepted by name.

**Episode archive** (`EpisodeRuntime_proofs`). A kill or a signal may come at any
step, so every step carries what it owes to the ones before: whoever may still
write, be it the main thread or a recorder thread nobody waits for, writes for an
Episode that is partial (`PartialInv`), `StageInv` says how far the files are at
each step of the finalization, and until `record()` returned there is nothing to
overwrite (`EnterInv`). From it: `ReadyStaysClean`, `CommittedStaysComplete`,
`FailedStopStaysPartial`, and `RecordingIsArchived`: `EpisodeRuntime` implements
`EpisodeArchive`.

**Policy path** (`PolicyPath_proofs`). The connection holds as many late answers
as receives timed out. `EveryTicketIsItsOwn` rests on `LagInv`: an EXPO inference
that took another's candidates is behind by at least one answer, stays so until
the connection is given up, and so never finds its own finish as the next answer.
`WindowsAreFixed` rests on `QueueInv` (the queue is the rest of one window) and
`PendingInv` (the next window is selected only when the one before is complete),
`SummariesAreComplete` on `ShadowInv` and `AttemptInv`: there is no loop but that
of the thread the Session knows, it has at most one inference in flight, and it
ends only when that one is counted.

**Shared memory** (`Snapshot_proofs`). For any number of slots, parts and
commits, and readers that hold any descriptor ever issued: an even generation 2n
vouches that every part of the slot is of commit n, an odd one that the parts
before `writing` are; a reader whose first comparison held has copied parts of its
commit as long as the generation has not moved, and the second comparison says
whether it has.

**Snapshot socket** (`Snapshot_proofs`). A capture has at most one request on the
line: sent and not received, in the hands of the server, or answered
(`RequestInv`); a client that gives up closes its socket, so none of the three is
left when the next capture begins. A group is chosen after its request arrived and
is then no older than allowed, and a commit replaces a slot under a generation
nobody was answered (`CommitIsFresh`, `CommitKeepsFresh`); hence
`ObservationsAreFresh`. `StopNeverSticks` rests on `connection_` being the
descriptor that is served (`ConnectionInv`), and on the order in which `stop()`
clears `running_` and shuts the two descriptors down (`StopInv`). That the greatest
stamp of a buffer exists is proved from the well-foundedness of the numbers.

**Production Session** (`ProductionSession_proofs`). `LockInv` and `TodoInv` say
that the lease is held from its step on and goes back last: after everything the
program knows of and would still stop (lemma `KnownUnderLease`). That is
`HardwareStaysUnderLease`. It needs `FlagInv` (the Session knows its system only
after `report`, and knows no process of its own before) and the shape of the
cleanup lists. `NoneIsLost` is an action property, proved step by step: what a
list, a handler or a cleanup gives up is stopped, or known to the next one. It
excepts what does lose a process: a signal or a crash, a report that cannot be
printed, a leader that outlives SIGKILL. `ArmsStayInGravity` rests on `LateInv`: a
request nobody waits for is served only once the program is being left, because
the call that gave it up raised. Names of processes are assumed to differ from
those of the other steps of `Plan` (`SessionAssumption`), as they do in the code.

**Infer collection** (`OperatorPrograms_proofs`). `LabelsAreDeliberate` rests on
`BufferInv`: while a press means something, all the kernel has buffered was pressed
since it does, because `arm` drained the pedals. `SuccessesAreUndisturbed` rests on
`CountInv`, what `RecordedControl` knows of what was sent and of what failed (in
this Episode: `start_episode` resets it, after a blocked one too),
and on `GateInv` and `VerdictInv`: once the label is given the gate is closed,
nothing more is sent, and the counts that are written are final.

**Calibration** (`OperatorPrograms_proofs`; of `CalibrationSpec`, which the run's
`StationSpec` runs beside the infer collection). Nobody but the main thread asks
for a mode, and it waits for the answer (`CallInv`); a hold that the motion thread
gave up is ahead of the main thread's in the queue of the same service, so nothing
is left in it when that one is answered by both arms (`HoldInv`). With `ModeInv`
that is `HandsStaySafe`. `WindowInv` says that while an observation's window is open
and no push has gone unseen, the arms are at the goal and every image exposed since
shows it, hence `ObservationsShowTheirPose`. `DiskStaysWhole` follows from what each
step of `record_route` and `capture_teach` owes to the files: `RunInv`,
`PointerInv`, `SplitInv` (the digests are those of the rewritten observations once
the run is complete), `EvidenceInv`, `RouteInv`.

Only model-checked: liveness (`HandoverEnds`, `ResumeEnds`, `FaultEndsEpisode`,
`FinalizationEnds`, `StopEnds`, `StopIsObeyed`), which is beyond the prover. Every
safety property of a passing run is stated by a theorem; the properties of the
three runs that expect a violation are false.

## Where the code and its documents disagree

Three are runs with `expect: violation`; the trace of TLC is the scenario.

1. `seq_reopened_gate`: after `close_gate` returned, the executor thread, already
   inside `policy_ready`, opens the gate again and sends a command of the old
   epoch (`action_gateway.py:413`, against `docs/dagger/implementation.md:106`).
2. `rtc_late_enable`: a mode request served after its timeout unlocks an arm in
   FAULT_HOLD (`command_ros.py:173`, against `docs/dagger/requirements.md:140`).
3. `policy_late_answer`: the answer of a receive that timed out is read by the
   next request, so every later inference of the Session reads the answer of the
   one before it and fails (`openpi_transport.py:69`, against
   `docs/dagger/implementation.md:108`). `AnswersItsOwnRequest` shows that none of
   them is taken for the right one.

The following are stated in the modules and are not among the runs. To see one,
put it in place of the properties of the configuration named: 4 and 7 as an
`INVARIANT`, 5 and 6, which speak of a step, as a `PROPERTY`. TLC violates each.

4. `SequentialTakeover!ResumeIsFresh` (`MCSequentialAuthority.cfg`): the executor
   submits an inference while a human has the arms, and the resume takes its
   answer (`action_gateway.py:540`, against `docs/dagger/requirements.md:127`).
5. `RtcTakeover!FaultsEndTheirOwnEpisode` (`MCRtcAuthority.cfg`): a fault recorded
   while an Episode ends is not cleared and ends the next Episode
   (`rtc_scheduler.py:498`, against `docs/dagger/requirements.md:139`).
6. `RtcTakeover!OldResponsesAreVoid` (`MCRtcAuthority.cfg`): a response of a closed
   epoch that is rejected late closes the gate of the new epoch
   (`rtc_scheduler.py:461`, against `docs/dagger/requirements.md:76`).
7. `EpisodeRuntime!RecorderIsToldToStop` (`MCEpisodeArchive.cfg`): a signal between
   the recorder's start and the wait for its end leaves the recorder thread
   waiting and the MCAP open (`episode/runtime.py:94`, against
   `docs/production-orchestration/implementation.md:75` and `:157`).
Observed while modelling, without a property of their own: a scheduler fault
other than a failed publish that is raised just before a label closes the gate is
dropped by `_fail`, and the Episode is a success although
`docs/rl-collection/implementation.md:36` gives the fault precedence; a Ctrl+C at
the verdict commits `aborted` with the termination reason of the label; a fault
of the executor that belongs to the previous infer Episode can block the next;
the EXPO step compares a deadline it read before the epoch changed and may fault
the new one; the result of an EXPO `begin` is never looked at; two Ctrl+C
swallowed in `_fault` (`takeover.py:427-434`) leave the gate open in FAULT_HOLD
(see *A swallowed signal*); the process group is signalled only while its leader
runs, so children of a leader that died or left on INT survive `stop()`
(`production/processes.py:132`, against
`docs/production-orchestration/implementation.md:157`; `Reaped` models it);
`RosReadinessGate.start` leaves its context and node behind when it fails after
`create_node`; a signal between Popen and the append to the list of processes
loses the process (`production/processes.py:183`).

## Not modelled

- What the policy computes, calibration's numerics (board detection, kinematics,
  the solver and its verification), station initialization, vendor code and camera
  drivers: computation or device input without a protocol of their own.
- Configuration and the content of checks before a Session: no state between
  calls; a check passes or fails. The numeric side conditions of a rollout
  profile are `RolloutAssumption`.
- Wording, logging and layout everywhere; timing beyond order and deadlines,
  except the stamps of `LocalSnapshot`, which its selection compares.
- A diagnostic sink that raises, and a paired publish cut between its two arms
  outside the infer collection (both listed under hazards).
- A mode request that is still on its way when a program ends: it is taken not to
  be served in a later one (`Gone` clears `late`).
- Memory orders weaker than program order in the arena; another process that
  writes to it.

## Plan

Done: the take-over core over both gateways, the Episode archive, the policy path,
the production Session, the snapshot, the infer collection and calibration, each
model-checked and with the proofs of its safety properties. Left:

1. Proofs: that the other models implement abstract specifications of their own, as
   `RtcTakeover` implements `CommandLease` and `EpisodeRuntime` `EpisodeArchive`.
2. The publish of `RtcScheduler` split between the two arms, as `InferCollection`
   has it, and a sink that raises.
