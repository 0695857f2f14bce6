---------------------------- MODULE EpisodeRuntime ----------------------------
(***************************************************************************)
(* One collection Session's Episodes, from the operator's trigger to the   *)
(* directory on the disk: run_episode_loop, EpisodeRuntime.run_once with   *)
(* the recorder behind it, McapFinalizer and EpisodeStore, over processes  *)
(* that are interrupted, killed and started again.                         *)
(*                                                                         *)
(* `pc' is the main thread's next step.  Every step that writes the disk   *)
(* is a step of its own.  An exception goes to "leaving": run_once is left,*)
(* the Session stops its processes, and the interpreter waits for the      *)
(* recorder thread, which is no daemon.                                    *)
(*                                                                         *)
(* Hooks, triggers, checks and health failures are nondeterministic: what  *)
(* matters here is which step they end.  Their own models are elsewhere.   *)
(***************************************************************************)
EXTENDS RosbagRecordingBackend

CONSTANTS
    Compress,    \* McapFinalizer.enabled
    MaxSessions, \* bound: processes started on this disk
    MaxFailures, \* bound: failing calls
    MaxSignals,  \* bound: SIGINT and SIGTERM
    MaxCrashes   \* bound: processes killed

ASSUME RuntimeAssumption ==
    /\ Compress \in BOOLEAN
    /\ {MaxSessions, MaxFailures, MaxSignals, MaxCrashes} \subseteq Nat

VARIABLES
    pc,          \* the main thread's next step
    raising,     \* an exception is being propagated while components stop
    current,     \* the last Episode prepared, 0 before the first
    outcome,     \* what _wait_for_end returned
    interrupted, \* ... with the error "recording interrupted"
    place,       \* per Episode, where its directory is
    tmp,         \* per Episode, .episode.mcap.zstd.tmp
    meta,        \* per Episode, metadata.json
    sessions, failures, signals, crashes \* consumed

diskVars == <<bag, mcap, place, tmp, meta>>
loopVars == <<raising, current, outcome, interrupted>>
envVars == <<sessions, failures, signals, crashes>>
vars == <<pc, loopVars, backendVars, place, tmp, meta, envVars>>

Outcomes == {"success", "fail", "aborted"}

Steps == {"idle", "check", "prepare", "start", "starting", "abandon", "abandonJoin",
          "monitor", "announce", "started", "recording", "finalizing", "stopping",
          "stop", "join", "unlink", "move", "rmdir", "audit",
          "compress", "verify", "replace", "metadata", "commit", "leaving", "down"}

TypeOK ==
    /\ BackendTypeOK
    /\ pc \in Steps
    /\ raising \in BOOLEAN
    /\ current \in 0..MaxEpisodes
    /\ outcome \in Outcomes
    /\ interrupted \in BOOLEAN
    /\ place \in [Episodes -> {"none", "partial"} \cup Outcomes]
    /\ tmp \in [Episodes -> {"none", "torn", "whole"}]
    /\ meta \in [Episodes -> {"none", "torn"} \cup Outcomes]
    /\ {sessions, failures, signals, crashes} \subseteq Nat

Init ==
    /\ BackendInit
    /\ pc = "idle"
    /\ raising = FALSE
    /\ current = 0
    /\ outcome = "success"
    /\ interrupted = FALSE
    /\ place = [e \in Episodes |-> "none"]
    /\ tmp = [e \in Episodes |-> "none"]
    /\ meta = [e \in Episodes |-> "none"]
    /\ sessions = 1
    /\ failures = 0
    /\ signals = 0
    /\ crashes = 0

-----------------------------------------------------------------------------
Works == UNCHANGED envVars

Fails == failures < MaxFailures /\ failures' = failures + 1 /\ UNCHANGED <<sessions, signals, crashes>>

Signalled == signals < MaxSignals /\ signals' = signals + 1 /\ UNCHANGED <<sessions, failures, crashes>>

(* From step `from' to step `to', the loop's variables and the disk outside *)
(* the backend unchanged.                                                   *)
Go(from, to) == pc = from /\ pc' = to /\ UNCHANGED <<loopVars, place, tmp, meta>>

(* An exception: the components are stopped first. *)
RaiseAndStop(from) ==
    /\ pc = from
    /\ pc' = "stop"
    /\ raising' = TRUE
    /\ UNCHANGED <<current, outcome, interrupted, place, tmp, meta>>

-----------------------------------------------------------------------------
(* READY: the trigger, the pre-Episode check, the partial directory. *)

Activate == Go("idle", "check") /\ current < MaxEpisodes /\ Works /\ UNCHANGED backendVars

(* pre_episode_check and GO_HOME pass; or EpisodeBlocked keeps the Session  *)
(* READY; or anything else ends it.                                         *)
Check ==
    /\ \/ Go("check", "prepare") /\ Works
       \/ Go("check", "idle") /\ Fails
       \/ Go("check", "leaving") /\ Fails
    /\ UNCHANGED backendVars

(* EpisodeStore.prepare; the id is fresh. *)
Prepare ==
    /\ \/ /\ pc = "prepare" /\ pc' = "start"
          /\ current' = current + 1
          /\ place' = [place EXCEPT ![current + 1] = "partial"]
          /\ UNCHANGED <<raising, outcome, interrupted, tmp, meta>>
          /\ Works
       \/ Go("prepare", "leaving") /\ Fails
    /\ UNCHANGED backendVars

-----------------------------------------------------------------------------
(* Starting the components. *)

Start ==
    \/ Go("start", "starting") /\ StartRecorder /\ Works
    \/ /\ Go("start", "leaving") /\ UNCHANGED backendVars
       /\ IF CanStart THEN Fails ELSE Works

(* The directory exists, record() was entered, and the recorder subscribed  *)
(* to every topic.                                                          *)
Starting == Go("starting", "monitor") /\ thread = "entered" /\ Works /\ UNCHANGED backendVars

StartingFails == Go("starting", "abandon") /\ thread = "failed" /\ Works /\ UNCHANGED backendVars

(* It does not subscribe in time, or is not matched to the publisher.       *)
ProbeFails == Go("starting", "abandon") /\ Fails /\ UNCHANGED backendVars

Abandon ==
    /\ Go("abandon", "abandonJoin")
    /\ \/ StopRecorder(current) /\ Works
       \/ StopRecorderRaises(current) /\ Fails

(* The join; after its timeout start() calls stop() once more. *)
AbandonJoin ==
    \/ Go("abandonJoin", "leaving") /\ Cleared /\ UNCHANGED <<bag, mcap>> /\ Works
    \/ RaiseAndStop("abandonJoin") /\ Alive /\ Fails /\ UNCHANGED backendVars

StartMonitor ==
    /\ \/ Go("monitor", "announce") /\ Works
       \/ RaiseAndStop("monitor") /\ Fails
    /\ UNCHANGED backendVars

(* state = RECORDING and its sink. *)
Announce == Go("announce", "started") /\ Works /\ UNCHANGED backendVars

StartedHook ==
    /\ \/ Go("started", "recording") /\ Works
       \/ RaiseAndStop("started") /\ Fails
    /\ UNCHANGED backendVars

-----------------------------------------------------------------------------
(* _wait_for_end. *)

EndRecording(by, signalled) ==
    /\ pc = "recording"
    /\ pc' = "finalizing"
    /\ outcome' = by
    /\ interrupted' = signalled
    /\ UNCHANGED <<raising, current, backendVars, place, tmp, meta>>

(* The record pedal: success, or the operator's task failure. *)
EndByOperator == \E by \in {"success", "fail", "aborted"} : EndRecording(by, FALSE) /\ Works

(* A required stream, a child process or the trigger failed. *)
EndByFailure == EndRecording("fail", FALSE) /\ Fails

(* Mutant: an interrupted Episode has an outcome of its own. *)
EndBySignalUnnamed == EndRecording("interrupted", TRUE) /\ Signalled

EndBySignal == EndRecording("aborted", TRUE) /\ Signalled

-----------------------------------------------------------------------------
(* FINALIZING: hook, recorder, audit. *)

Finalizing == Go("finalizing", "stopping") /\ Works /\ UNCHANGED backendVars

StoppingHook ==
    /\ \/ Go("stopping", "stop") /\ Works
       \/ RaiseAndStop("stopping") /\ Fails
    /\ UNCHANGED backendVars

Stop ==
    /\ Go("stop", "join")
    /\ \/ StopRecorder(current) /\ Works
       \/ StopRecorderRaises(current) /\ Fails

(* Mutant: a recorder that failed is not told from one that stopped. *)
JoinIgnoresError ==
    \/ Go("join", "unlink") /\ ~Alive /\ Works /\ UNCHANGED backendVars
    \/ Go("join", "leaving") /\ Alive /\ Fails /\ UNCHANGED backendVars

(* The thread is dead and the MCAP is moved, unless the recorder failed or  *)
(* could not be stopped; the join may time out.                             *)
Join ==
    \/ /\ Go("join", "unlink") /\ thread = "ended" /\ ~stopError
       /\ Works
       /\ UNCHANGED backendVars
    \/ Go("join", "leaving") /\ (thread = "failed" \/ stopError) /\ Cleared /\ Works /\ UNCHANGED <<bag, mcap>>
    \/ Go("join", "leaving") /\ Alive /\ Fails /\ UNCHANGED backendVars

(* _finalize_single_mcap; whatever fails, the thread is dead and cleared. *)
Unlink ==
    \/ Go("unlink", "move") /\ UnlinkMetadata(current) /\ Works
    \/ /\ Go("unlink", "leaving")
       /\ Cleared /\ UNCHANGED <<bag, mcap>>
       /\ IF bag[current] = "closed" THEN Fails ELSE Works

Move ==
    \/ Go("move", "rmdir") /\ MoveMcap(current) /\ Works
    \/ Go("move", "leaving") /\ Cleared /\ UNCHANGED <<bag, mcap>> /\ Fails

Rmdir ==
    \/ Go("rmdir", IF raising THEN "leaving" ELSE "audit") /\ RemoveBag(current) /\ Works
    \/ Go("rmdir", "leaving") /\ Cleared /\ UNCHANGED <<bag, mcap>> /\ Fails

(* monitor.stop reads the MCAP back. *)
Audit ==
    /\ \/ Go("audit", IF Compress THEN "compress" ELSE "metadata") /\ Works
       \/ Go("audit", "leaving") /\ Fails
    /\ UNCHANGED backendVars

-----------------------------------------------------------------------------
(* McapFinalizer.finalize. *)

TmpBecomes(state) == tmp' = [tmp EXCEPT ![current] = state]

(* _require_capacity, or the command, fails before there is an output. *)
NotCompressed == UNCHANGED tmp /\ pc' = "leaving" /\ Fails

Compressing ==
    /\ pc = "compress"
    /\ \/ TmpBecomes("whole") /\ pc' = "verify" /\ Works
       \/ TmpBecomes("torn") /\ pc' \in {"verify", "leaving"} /\ Fails
       \/ NotCompressed
    /\ UNCHANGED <<loopVars, place, meta, backendVars>>

(* Mutant: the compressed file is not compared with the source. *)
VerifyNothing == Go("verify", "replace") /\ Works /\ UNCHANGED backendVars

(* _require_equivalent_metrics: only a whole file has the source's streams. *)
Equivalent == tmp[current] = "whole"

(* doctor, and the audit's comparison with the source. *)
Verify ==
    /\ \/ Go("verify", "replace") /\ Equivalent /\ Works
       \/ Go("verify", "leaving") /\ ~Equivalent /\ Works
       \/ Go("verify", "leaving") /\ Fails
    /\ UNCHANGED backendVars

(* What an unverified file would make of the MCAP is never more than it is. *)
Replace ==
    \/ /\ pc = "replace" /\ pc' = "metadata"
       /\ mcap' = [mcap EXCEPT ![current] = IF tmp[current] = "whole" THEN "zstd" ELSE "none"]
       /\ TmpBecomes("none")
       /\ Works
       /\ UNCHANGED <<loopVars, place, meta, threadVars, recorder, writer, bag>>
    \/ Go("replace", "leaving") /\ Fails /\ UNCHANGED backendVars

-----------------------------------------------------------------------------
(* metadata.json and EpisodeStore.commit. *)

MetaBecomes(state) == meta' = [meta EXCEPT ![current] = state]

WriteMetadata ==
    /\ pc = "metadata"
    /\ \/ MetaBecomes(outcome) /\ pc' = "commit" /\ Works
       \/ MetaBecomes("torn") /\ pc' = "leaving" /\ Fails
       \/ UNCHANGED meta /\ pc' = "leaving" /\ Fails
    /\ UNCHANGED <<loopVars, place, tmp, backendVars>>

(* The partial holds exactly the two files. *)
CommitRefused == bag[current] # "none" \/ tmp[current] # "none"

Commit ==
    /\ \/ /\ pc = "commit" /\ ~CommitRefused
          /\ place' = [place EXCEPT ![current] = outcome]
          /\ pc' = IF interrupted THEN "leaving" ELSE "idle"
          /\ UNCHANGED <<loopVars, tmp, meta>>
          /\ Works
       \/ Go("commit", "leaving") /\ IF CommitRefused THEN Works ELSE Fails
    /\ UNCHANGED backendVars

-----------------------------------------------------------------------------
(* SIGINT and SIGTERM: KeyboardInterrupt in the main thread. *)

(* Where nothing catches it on the way out of run_once.  Between            *)
(* _wait_for_end and the stopping hook the recorder is still running.       *)
InterruptLeaves ==
    /\ pc \in {"idle", "check", "prepare", "start", "announce", "finalizing", "stop", "join",
               "audit", "compress", "verify", "replace", "metadata", "commit"}
    /\ pc' = "leaving"
    /\ UNCHANGED <<loopVars, backendVars, place, meta>>
    /\ IF pc = "compress" THEN tmp' \in {tmp, [tmp EXCEPT ![current] = "torn"]} ELSE UNCHANGED tmp
    /\ Signalled

(* Where the finally clauses clear the dead recorder. *)
InterruptClears ==
    /\ \E step \in {"abandonJoin", "unlink", "move", "rmdir"} : Go(step, "leaving")
    /\ Cleared /\ UNCHANGED <<bag, mcap>>
    /\ Signalled

(* Where an except BaseException stops the recorder first. *)
InterruptStops ==
    /\ \/ \E step \in {"starting", "monitor", "started", "stopping"} : RaiseAndStop(step)
       \/ RaiseAndStop("abandonJoin") /\ Alive
    /\ Signalled
    /\ UNCHANGED backendVars

(* In a readiness probe; and inside recorder.stop(), which collects it. *)
InterruptCollected ==
    \/ Go("starting", "abandon") /\ UNCHANGED backendVars /\ Signalled
    \/ Go("abandon", "abandonJoin") /\ StopRecorderRaises(current) /\ Signalled
    \/ Go("stop", "join") /\ StopRecorderRaises(current) /\ Signalled

-----------------------------------------------------------------------------
(* The end of a process and the start of the next. *)

(* Episode id, disk and budgets survive; nothing else does. *)
Dies ==
    /\ pc' = "down"
    /\ raising' = FALSE
    /\ interrupted' = FALSE
    /\ LoseBackend
    /\ UNCHANGED <<current, outcome, place>>

(* The interpreter waits for the recorder thread. *)
Exit == pc = "leaving" /\ ~Alive /\ Dies /\ Works /\ UNCHANGED <<tmp, meta>>

(* ... until the next signal. *)
InterruptExit == pc = "leaving" /\ Alive /\ Dies /\ Signalled /\ UNCHANGED <<tmp, meta>>

Crash ==
    /\ pc # "down"
    /\ crashes < MaxCrashes
    /\ crashes' = crashes + 1
    /\ Dies
    /\ IF pc = "compress" THEN tmp' \in {tmp, [tmp EXCEPT ![current] = "torn"]} ELSE UNCHANGED tmp
    /\ IF pc = "metadata" THEN meta' \in {meta, [meta EXCEPT ![current] = "torn"]} ELSE UNCHANGED meta
    /\ UNCHANGED <<sessions, failures, signals>>

(* The next process reports the partials it finds and leaves them alone. *)
Restart ==
    /\ Go("down", "idle")
    /\ sessions < MaxSessions
    /\ sessions' = sessions + 1
    /\ UNCHANGED <<backendVars, failures, signals, crashes>>

(* The loop stays READY for good; the Session is over; or its recorder      *)
(* thread never ends, and neither does the process.                         *)
Ended ==
    /\ \/ pc = "down" /\ sessions = MaxSessions
       \/ pc = "leaving" /\ Alive
       \/ pc = "idle" /\ current = MaxEpisodes
    /\ UNCHANGED vars

-----------------------------------------------------------------------------
MainThread ==
    \/ Check \/ Prepare \/ Start \/ Starting \/ StartingFails \/ ProbeFails \/ Abandon \/ AbandonJoin
    \/ StartMonitor \/ Announce \/ StartedHook
    \/ Finalizing \/ StoppingHook \/ Stop \/ Join \/ Unlink \/ Move \/ Rmdir \/ Audit
    \/ Compressing \/ Verify \/ Replace \/ WriteMetadata \/ Commit
    \/ Exit

RecorderThread ==
    /\ \/ (RecorderEnters(current) \/ RecorderEnds) /\ Works
       \/ RecorderFails(current) /\ Fails
    /\ UNCHANGED <<pc, loopVars, place, tmp, meta>>

Operator == Activate \/ EndByOperator \/ EndByFailure \/ EndBySignal

Interrupts ==
    \/ InterruptLeaves \/ InterruptClears \/ InterruptStops
    \/ InterruptCollected \/ InterruptExit

Next == MainThread \/ RecorderThread \/ Operator \/ Interrupts \/ Crash \/ Restart \/ Ended

Spec == Init /\ [][Next]_vars

(* Every call of the two threads returns: the hooks, the tools and the      *)
(* joins have deadlines.  Nothing obliges an operator, a signal or a fault. *)
FairSpec == Spec /\ WF_vars(MainThread) /\ WF_vars(RecorderThread)

-----------------------------------------------------------------------------
(* Outside run_once, and before its recorder, nothing of an earlier Episode *)
(* is left: no recorder, no publisher, no thread.  (The Session goes on     *)
(* with the objects that recorded the Episode before.)                      *)
ReadyIsClean ==
    pc \in {"idle", "check", "prepare", "start"} => CanStart /\ thread = "none"

(* An Episode under an outcome is exactly a closed MCAP, in the form the    *)
(* Session asked for, and the metadata of that outcome, whatever was        *)
(* interrupted, failed or killed on the way (EpisodeStore.commit, the only  *)
(* place that takes an Episode for a formal one).                           *)
CommittedIsComplete ==
    \A e \in Episodes :
        place[e] \in Outcomes =>
            /\ bag[e] = "none" /\ tmp[e] = "none"
            /\ mcap[e] = IF Compress THEN "zstd" ELSE "raw"
            /\ meta[e] = place[e]

(* An Episode whose recorder failed to stop is not committed, even when its *)
(* MCAP looks whole (_stop raises after the thread was released).           *)
FailedStopIsNotCommitted ==
    [][stopError => \A e \in Episodes : place'[e] \in Outcomes => place[e] \in Outcomes]_vars

(* Whatever becomes of the process, a recording that was closed is on the   *)
(* disk for good, and a partial becomes one formal Episode at most          *)
(* (_finalize_single_mcap, McapFinalizer and EpisodeStore together).        *)
Whole == [e \in Episodes |-> bag[e] \in {"closed", "unlinked"} \/ mcap[e] # "none"]

Archive == INSTANCE EpisodeArchive WITH whole <- Whole

ImplementsArchive == Archive!Spec

(* A recording that ends is finalized or leaves the Session: no component   *)
(* waits for the recorder thread for ever.                                  *)
FinalizationEnds == pc = "finalizing" ~> pc \in {"idle", "leaving", "down"}

(* Ctrl+C while recording closes the MCAP; whatever ends the Session, the   *)
(* recorder was told to stop before the interpreter waits for it.           *)
RecorderIsToldToStop == pc = "leaving" /\ Alive => released
=============================================================================
