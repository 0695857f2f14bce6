----------------------------- MODULE StreamHealth -----------------------------
(***************************************************************************)
(* RosStreamMonitor and the StreamHealthTracker of the running Episode,    *)
(* for the one required stream: telemetry samples arrive on the monitor's  *)
(* own thread, the Session thread asks for the failure of the stream.      *)
(*                                                                         *)
(* A sample says that data flows, that it has been silent too long, that   *)
(* its count went back, or that it is of another topic, which breaks the   *)
(* contract whatever came before.                                          *)
(* `heard' is FALSE once the last sample is older than heartbeat_timeout_s.*)
(***************************************************************************)
EXTENDS Naturals

CONSTANT MaxSamples \* bound: changes of the telemetry

ASSUME SampleAssumption == MaxSamples \in Nat

VARIABLES
    latest,     \* RosStreamMonitor._latest
    heard,      \* it arrived within heartbeat_timeout_s
    monitoring, \* _health is not None
    observed,   \* StreamHealthTracker.observed
    broken,     \* contract_failures
    samples     \* consumed

healthVars == <<latest, heard, monitoring, observed, broken, samples>>

HealthInit ==
    /\ latest = "flows"
    /\ heard = TRUE
    /\ monitoring = FALSE
    /\ observed = "none"
    /\ broken = FALSE
    /\ samples = 0

(* What a snapshot of the stream's tracker in its publisher says. *)
Published == {"flows", "silent", "rewinds", "breaks"}

(* Only a sample this tracker has observed makes a lower count a failure.   *)
Breaks(sample, before) == sample = "breaks" \/ (sample = "rewinds" /\ before # "none")

(* observe: a broken contract stays; the sample that breaks it is not kept. *)
Observe(sample) ==
    /\ broken' = (broken \/ Breaks(sample, observed))
    /\ observed' = IF Breaks(sample, observed) THEN observed ELSE sample

(* _status_callback *)
Sample(sample) ==
    /\ samples < MaxSamples
    /\ sample # latest \/ ~heard
    /\ samples' = samples + 1
    /\ latest' = sample
    /\ heard' = TRUE
    /\ IF monitoring THEN Observe(sample) ELSE UNCHANGED <<observed, broken>>
    /\ UNCHANGED monitoring

(* The publisher of the telemetry is gone, or late. *)
TelemetryStops ==
    /\ samples < MaxSamples
    /\ heard
    /\ samples' = samples + 1
    /\ heard' = FALSE
    /\ UNCHANGED <<latest, monitoring, observed, broken>>

(* start: a fresh sample of before is the first observation. *)
StartMonitor ==
    /\ ~monitoring
    /\ monitoring' = TRUE
    /\ observed' = IF heard /\ ~Breaks(latest, "none") THEN latest ELSE "none"
    /\ broken' = (heard /\ Breaks(latest, "none"))
    /\ UNCHANGED <<latest, heard, samples>>

(* StreamHealthTracker: no telemetry at all is a warning only. *)
StreamFailure == broken \/ (heard /\ observed = "silent")

(* RosStreamMonitor.required_failure, asked between its start and its stop. *)
RequiredFailure == monitoring /\ StreamFailure

(* The tracker is dropped. *)
StopMonitor ==
    /\ monitoring' = FALSE
    /\ observed' = "none"
    /\ broken' = FALSE
    /\ UNCHANGED <<latest, heard, samples>>

=============================================================================
