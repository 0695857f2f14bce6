------------------------ MODULE RosbagRecordingBackend ------------------------
(***************************************************************************)
(* RosbagRecordingBackend: the recorder thread, the events the main thread *)
(* shares with it, and the files of an Episode's rosbag2 directory.        *)
(*                                                                         *)
(* An operator here is what one stretch of start() or stop() does to the   *)
(* backend; EpisodeRuntime says when the main thread gets there.  rosbag2  *)
(* itself is external: record() creates the directory, stop() closes the   *)
(* MCAP and writes metadata.yaml.                                          *)
(***************************************************************************)
EXTENDS Integers

CONSTANT MaxEpisodes \* bound: Episodes prepared over all processes

ASSUME EpisodesAssumption == MaxEpisodes \in Nat

VARIABLES
    thread,    \* the recorder thread
    released,  \* _worker_release
    stopError, \* recorder.stop() or stop_spin() raised in this stop
    recorder,  \* _recorder is set
    writer,    \* RosRecordingPublisher._publisher is set
    bag,       \* per Episode, the directory .episode.mcap.rosbag2
    mcap       \* per Episode, the file episode.mcap

threadVars == <<thread, released, stopError>>
backendVars == <<threadVars, recorder, writer, bag, mcap>>

Episodes == 1..MaxEpisodes

(* starting: in start_spin() or record(); entered: waiting for the release; *)
(* failed: ended with an error; ended: ended without.                       *)
ThreadStates == {"none", "starting", "entered", "failed", "ended"}

(* open: its MCAP is being written; closed: the MCAP is whole and           *)
(* metadata.yaml is there; unlinked: metadata.yaml is gone; empty: so is    *)
(* the MCAP.                                                                *)
BagStates == {"none", "open", "closed", "unlinked", "empty"}

BackendTypeOK ==
    /\ thread \in ThreadStates
    /\ released \in BOOLEAN
    /\ stopError \in BOOLEAN
    /\ recorder \in BOOLEAN
    /\ writer \in BOOLEAN
    /\ bag \in [Episodes -> BagStates]
    /\ mcap \in [Episodes -> {"none", "raw", "zstd"}]

BackendInit ==
    /\ thread = "none"
    /\ released = FALSE
    /\ stopError = FALSE
    /\ recorder = FALSE
    /\ writer = FALSE
    /\ bag = [e \in Episodes |-> "none"]
    /\ mcap = [e \in Episodes |-> "none"]

Alive == thread \in {"starting", "entered"}

-----------------------------------------------------------------------------
(* The recorder thread. *)

(* record() returned: the directory exists, the thread waits.  A recorder   *)
(* that was already told to stop is destroyed unclosed.                     *)
RecorderEnters(e) ==
    /\ thread = "starting"
    /\ thread' = "entered"
    /\ bag' = [bag EXCEPT ![e] = "open"]
    /\ UNCHANGED <<released, stopError, recorder, writer, mcap>>

(* start_spin() or record() raised, before or after the directory was made. *)
RecorderFails(e) ==
    /\ thread = "starting"
    /\ thread' = "failed"
    /\ bag' \in {bag, [bag EXCEPT ![e] = "open"]}
    /\ UNCHANGED <<released, stopError, recorder, writer, mcap>>

RecorderEnds ==
    /\ thread = "entered"
    /\ released
    /\ thread' = "ended"
    /\ UNCHANGED <<released, stopError, recorder, writer, bag, mcap>>

-----------------------------------------------------------------------------
(* start(), from the recording publisher to the running thread. *)

CanStart == ~recorder /\ ~writer

(* RosRecordingPublisher.start_episode: a fresh publisher. *)
OpenWriter == ~writer /\ writer' = TRUE

StartRecorder ==
    /\ CanStart
    /\ recorder' = TRUE
    /\ OpenWriter
    /\ thread' = "starting"
    /\ released' = FALSE
    /\ stopError' = FALSE
    /\ UNCHANGED <<bag, mcap>>

-----------------------------------------------------------------------------
(* _stop_recorder_thread. *)

(* Mutant: the thread of a closed MCAP is not released. *)
StopRecorderOnlyCloses(e) ==
    /\ bag' = IF thread = "entered" THEN [bag EXCEPT ![e] = "closed"] ELSE bag
    /\ UNCHANGED <<threadVars, recorder, writer, mcap>>

(* recorder.stop() closes the MCAP of a thread that has entered; the thread *)
(* is released either way.                                                  *)
StopRecorder(e) ==
    /\ bag' = IF thread = "entered" THEN [bag EXCEPT ![e] = "closed"] ELSE bag
    /\ released' = TRUE
    /\ UNCHANGED <<thread, stopError, recorder, writer, mcap>>

(* It raised (a signal counts as an error of the call), and so will stop(). *)
(* recorder.stop() may have closed the MCAP before.                         *)
StopRecorderRaises(e) ==
    /\ bag' \in IF thread = "entered" THEN {bag, [bag EXCEPT ![e] = "closed"]} ELSE {bag}
    /\ stopError' = TRUE
    /\ released' = TRUE
    /\ UNCHANGED <<thread, recorder, writer, mcap>>

(* _clear_active and stop_episode: only once the thread is dead. *)
Cleared ==
    /\ ~Alive
    /\ recorder' = FALSE
    /\ writer' = FALSE
    /\ thread' = "none"
    /\ UNCHANGED <<released, stopError>>

-----------------------------------------------------------------------------
(* _finalize_single_mcap: three calls of the file system. *)

(* Mutant: the directory is emptied before the MCAP is moved. *)
UnlinkEverything(e) ==
    /\ bag[e] = "closed"
    /\ bag' = [bag EXCEPT ![e] = "empty"]
    /\ UNCHANGED <<threadVars, recorder, writer, mcap>>

UnlinkMetadata(e) ==
    /\ bag[e] = "closed"
    /\ bag' = [bag EXCEPT ![e] = "unlinked"]
    /\ UNCHANGED <<threadVars, recorder, writer, mcap>>

MoveMcap(e) ==
    /\ bag' = [bag EXCEPT ![e] = "empty"]
    /\ mcap' = [mcap EXCEPT ![e] = "raw"]
    /\ UNCHANGED <<threadVars, recorder, writer>>

(* Mutant: a finished recording leaves its publisher to the next Episode. *)
RemoveBagKeepsWriter(e) ==
    /\ bag' = [bag EXCEPT ![e] = "none"]
    /\ recorder' = FALSE
    /\ thread' = "none"
    /\ UNCHANGED <<released, stopError, writer, mcap>>

RemoveBag(e) ==
    /\ bag' = [bag EXCEPT ![e] = "none"]
    /\ Cleared
    /\ UNCHANGED mcap

(* The process died: what is on the disk stays. *)
LoseBackend ==
    /\ thread' = "none"
    /\ released' = FALSE
    /\ stopError' = FALSE
    /\ recorder' = FALSE
    /\ writer' = FALSE
    /\ UNCHANGED <<bag, mcap>>
=============================================================================
