----------------------------- MODULE RtcScheduler -----------------------------
(***************************************************************************)
(* RtcActionScheduler, its executor thread, and AsyncPi05PolicyClient's    *)
(* single worker.                                                          *)
(*                                                                         *)
(* One lock protects the scheduler.  A step is one locked region, or one   *)
(* unlocked stretch between two of them; the two threads that enter the    *)
(* scheduler are "session" (the controller's calls) and "executor".        *)
(*                                                                         *)
(* An action row is abstracted to the control epoch it was inferred for    *)
(* and the step of that epoch it was planned for: row i of the response to *)
(* a request submitted after b commands were issued is planned for step    *)
(* b + i.  Clock readings are abstracted: a command is due or is not yet,  *)
(* and a deadline expires at the cost of one of the environment's failures.*)
(***************************************************************************)
EXTENDS Integers, Sequences, FiniteSetsExt

CONSTANTS
    PrefetchAfter, \* rollout.prefetch_after_steps
    MaxDelay,      \* checkpoint.max_delay_steps
    InitialDelay,  \* rollout.initial_delay_steps
    HistorySize,   \* rollout.delay_history_size
    Horizon,       \* execution.action_chunk_size
    MaxIssued      \* bound: commands issued in one epoch

(* RtcRolloutProfile.__post_init__ and validate_for. *)
ASSUME RolloutAssumption ==
    /\ PrefetchAfter \in Nat \ {0}
    /\ MaxDelay \in Nat
    /\ InitialDelay \in Nat
    /\ HistorySize \in Nat \ {0}
    /\ Horizon \in Nat
    /\ InitialDelay < MaxDelay
    /\ PrefetchAfter + MaxDelay - 1 <= Horizon
    /\ MaxIssued \in Nat

VARIABLES
    gatewayEpoch,   \* RtcActionScheduler._control_epoch
    gatewayEpisode, \* _episode_id, 0 for None
    gateOpen,       \* _gate_open
    pending,        \* _pending and whether its future is done
    queue,          \* _queue
    lastPublished,  \* _last_published_command
    issued,         \* _issued_total
    sinceSplice,    \* _issued_since_splice
    delays,         \* RollingMaxDelayEstimator._history
    fault,          \* _fault: the epoch its error arose in, -1 for None
    revoked,        \* observer: this epoch's lease was given up or lost
    snap,           \* per thread, what _accept_pending copied under the lock
    xpc,            \* the executor thread's next step
    raisedIn,       \* the epoch the executor's exception arose in
    policyEpoch,    \* AsyncPi05PolicyClient._active_epoch
    backlog         \* abandoned inferences ahead in the single worker's queue

schedulerVars == <<gatewayEpoch, gatewayEpisode, gateOpen, pending, queue, lastPublished,
                   issued, sinceSplice, delays, fault, revoked>>
policyVars == <<policyEpoch, backlog>>
threadVars == <<snap, xpc, raisedIn>>
rtcVars == <<schedulerVars, threadVars, policyVars>>

Threads == {"session", "executor"}

SafeWindow == PrefetchAfter + MaxDelay - 1

NoPending == [phase |-> "none", done |-> FALSE, epoch |-> 0, base |-> 0, estimate |-> 0]

Pendings == [phase : {"none", "bootstrap", "prefetch"}, done : BOOLEAN,
             epoch : Nat, base : Nat, estimate : Nat]

(* A planned action row. *)
Rows == [epoch : Nat, step : Nat]

NoCommand == [epoch |-> 0, step |-> -1]

Snapshots == [pending : Pendings, epoch : Nat, episode : Nat, issued : Nat,
              last : Rows \cup {NoCommand}]

NoSnapshot == [pending |-> NoPending, epoch |-> 0, episode |-> 0, issued |-> 0, last |-> NoCommand]

RtcTypeOK ==
    /\ gatewayEpoch \in Nat
    /\ gatewayEpisode \in Nat
    /\ gateOpen \in BOOLEAN
    /\ pending \in Pendings
    /\ queue \in Seq(Rows)
    /\ lastPublished \in Rows \cup {NoCommand}
    /\ issued \in Nat
    /\ sinceSplice \in Nat
    /\ delays \in Seq(0..(MaxDelay - 1))
    /\ fault \in Nat \cup {-1}
    /\ revoked \in BOOLEAN
    /\ snap \in [Threads -> Snapshots]
    /\ xpc \in {"idle", "snapshot", "validate", "reject", "splice", "publish", "fail", "stopped"}
    /\ raisedIn \in Nat
    /\ policyEpoch \in Nat
    /\ backlog \in Nat

RtcInit ==
    /\ gatewayEpoch = 0
    /\ gatewayEpisode = 0
    /\ gateOpen = FALSE
    /\ pending = NoPending
    /\ queue = <<>>
    /\ lastPublished = NoCommand
    /\ issued = 0
    /\ sinceSplice = 0
    /\ delays = <<>>
    /\ fault = -1
    /\ revoked = FALSE
    /\ snap = [t \in Threads |-> NoSnapshot]
    /\ xpc = "idle"
    /\ raisedIn = 0
    /\ policyEpoch = 0
    /\ backlog = 0

-----------------------------------------------------------------------------
(* The delay estimator. *)

(* Mutant: a step of margin on top of the rolling maximum. *)
EstimateWithMargin ==
    IF delays = <<>> THEN InitialDelay ELSE 1 + Max({delays[i] : i \in DOMAIN delays})

Estimate == IF delays = <<>> THEN InitialDelay ELSE Max({delays[i] : i \in DOMAIN delays})

(* deque(maxlen = HistorySize).append *)
Observed(delay) ==
    Append(IF Len(delays) = HistorySize THEN Tail(delays) ELSE delays, delay)

-----------------------------------------------------------------------------
(* The policy client. *)

(* _pending = None while its inference is queued or running: the worker     *)
(* still has to get it out of the way.                                      *)
Abandon == backlog' = IF pending.phase # "none" /\ ~pending.done THEN backlog + 1 ELSE backlog

(* The worker finishes an inference nobody waits for any more. *)
FinishAbandoned ==
    /\ backlog > 0
    /\ backlog' = backlog - 1
    /\ UNCHANGED <<schedulerVars, threadVars, policyEpoch>>

(* The worker completes the pending inference; whether its future holds a   *)
(* ticket or an exception is decided when it is read.                       *)
FinishPending ==
    /\ pending.phase # "none" /\ ~pending.done
    /\ backlog = 0
    /\ pending' = [pending EXCEPT !.done = TRUE]
    /\ UNCHANGED <<gatewayEpoch, gatewayEpisode, gateOpen, queue, lastPublished, issued,
                   sinceSplice, delays, fault, revoked, threadVars, policyVars>>

-----------------------------------------------------------------------------
(* The controller's calls that are one locked region. *)

CloseGate(e) ==
    /\ e = gatewayEpoch
    /\ gateOpen' = FALSE
    /\ revoked' = TRUE
    /\ UNCHANGED <<gatewayEpoch, gatewayEpisode, pending, queue, lastPublished, issued,
                   sinceSplice, delays, fault, threadVars, policyVars>>

(* Mutant: only the lease is renewed, the old plan stays queued. *)
ClearPendingKeepsQueue(e) ==
    /\ e >= gatewayEpoch
    /\ gatewayEpoch' = e
    /\ revoked' = (revoked /\ e = gatewayEpoch)
    /\ gateOpen' = FALSE
    /\ pending' = NoPending
    /\ Abandon
    /\ gatewayEpisode' = 0
    /\ lastPublished' = NoCommand
    /\ issued' = 0
    /\ sinceSplice' = 0
    /\ delays' = <<>>
    /\ UNCHANGED <<queue, fault, threadVars, policyEpoch>>

(* The locked part of clear_pending.  The latched fault survives it. *)
ClearPending(e) ==
    /\ e >= gatewayEpoch
    /\ gatewayEpoch' = e
    /\ revoked' = (revoked /\ e = gatewayEpoch)
    /\ gateOpen' = FALSE
    /\ pending' = NoPending
    /\ Abandon
    /\ queue' = <<>>
    /\ gatewayEpisode' = 0
    /\ lastPublished' = NoCommand
    /\ issued' = 0
    /\ sinceSplice' = 0
    /\ delays' = <<>>
    /\ UNCHANGED <<fault, threadVars, policyEpoch>>

(* Its last call, outside the lock. *)
BeginEpoch(e) ==
    /\ policyEpoch' = e
    /\ UNCHANGED <<schedulerVars, threadVars, backlog>>

CanPrepare(e) ==
    /\ e = gatewayEpoch
    /\ pending.phase = "none"
    /\ queue = <<>>
    /\ ~gateOpen

(* The client refuses a request for another epoch than its own. *)
CanSubmit(e) == e = policyEpoch

(* The Episode is noted before the request is submitted. *)
PreparePolicy(ep, e) ==
    /\ CanPrepare(e)
    /\ gatewayEpisode' = ep
    /\ pending' = IF CanSubmit(e)
                  THEN [phase |-> "bootstrap", done |-> FALSE, epoch |-> e, base |-> issued,
                        estimate |-> 0]
                  ELSE pending
    /\ UNCHANGED <<gatewayEpoch, gateOpen, queue, lastPublished, issued, sinceSplice, delays,
                   fault, revoked, threadVars, policyVars>>

(* policy_ready's first locked region raises. *)
BootstrapLost(ep, e) ==
    \/ e # gatewayEpoch
    \/ ep # gatewayEpisode
    \/ pending.phase = "none"

TakeFault ==
    /\ fault # -1
    /\ fault' = -1
    /\ UNCHANGED <<gatewayEpoch, gatewayEpisode, gateOpen, pending, queue, lastPublished, issued,
                   sinceSplice, delays, revoked, threadVars, policyVars>>

-----------------------------------------------------------------------------
(* _accept_pending, by thread t. *)

Acceptable(phase) == pending.done /\ pending.phase = phase

AcceptSnapshot(t, phase) ==
    /\ Acceptable(phase)
    /\ snap' = [snap EXCEPT ![t] = [pending |-> pending, epoch |-> gatewayEpoch,
                                    episode |-> gatewayEpisode, issued |-> issued,
                                    last |-> lastPublished]]
    /\ UNCHANGED <<schedulerVars, raisedIn, policyVars>>

ActualDelay(t) == snap[t].issued - snap[t].pending.base

(* Mutant: the rows executed while the response was computed are not skipped.*)
WindowStartAtZero(t) == 0

(* Where the safe window starts in the response. *)
WindowStart(t) == IF snap[t].pending.phase = "bootstrap" THEN 0 ELSE ActualDelay(t)

(* The delay is one the policy was trained for and the chunk is long enough.*)
WindowFits(t) ==
    /\ IF snap[t].pending.phase = "bootstrap"
       THEN ActualDelay(t) = 0
       ELSE ActualDelay(t) \in 0..(MaxDelay - 1)
    /\ WindowStart(t) + SafeWindow <= Horizon

(* _reject_window_locked: no epoch is compared. *)
RejectWindow(t) ==
    /\ gateOpen' = FALSE
    /\ revoked' = (revoked \/ gateOpen)
    /\ queue' = <<>>
    /\ pending' = NoPending
    /\ Abandon
    /\ fault' = IF fault = -1 THEN snap[t].epoch ELSE fault
    /\ UNCHANGED <<gatewayEpoch, gatewayEpisode, lastPublished, issued, sinceSplice, delays,
                   snap, policyEpoch>>

(* Mutant: what was copied is compared by Episode only. *)
StillInEpisode(t) == snap[t].episode = gatewayEpisode

StillCurrent(t) ==
    /\ snap[t].epoch = gatewayEpoch
    /\ snap[t].episode = gatewayEpisode
    /\ snap[t].pending = pending
    /\ snap[t].issued = issued
    /\ snap[t].last = lastPublished

(* The rows of the safe window, with the step each is planned for. *)
Window(t) ==
    [i \in 1..SafeWindow |->
        [epoch |-> snap[t].pending.epoch,
         step |-> snap[t].pending.base + WindowStart(t) + i - 1]]

(* Mutant: every splice opens the gate. *)
SpliceReopens(t) ==
    /\ StillCurrent(t)
    /\ gateOpen' = TRUE
    /\ delays' = IF pending.phase = "bootstrap" THEN delays ELSE Observed(ActualDelay(t))
    /\ queue' = Window(t)
    /\ sinceSplice' = 0
    /\ pending' = NoPending
    /\ snap' = [snap EXCEPT ![t] = NoSnapshot]
    /\ UNCHANGED <<gatewayEpoch, gatewayEpisode, lastPublished, issued, fault, revoked,
                   raisedIn, policyVars>>

(* Mutant: the count since the last splice goes on. *)
SpliceKeepsCount(t) ==
    /\ StillCurrent(t)
    /\ IF pending.phase = "bootstrap"
       THEN gateOpen' = TRUE /\ UNCHANGED delays
       ELSE delays' = Observed(ActualDelay(t)) /\ UNCHANGED gateOpen
    /\ queue' = Window(t)
    /\ pending' = NoPending
    /\ snap' = [snap EXCEPT ![t] = NoSnapshot]
    /\ UNCHANGED <<gatewayEpoch, gatewayEpisode, lastPublished, issued, sinceSplice, fault,
                   revoked, raisedIn, policyVars>>

(* The locked splice, once enable_policy_control has returned. *)
Splice(t) ==
    /\ StillCurrent(t)
    /\ IF pending.phase = "bootstrap"
       THEN gateOpen' = TRUE /\ UNCHANGED delays
       ELSE delays' = Observed(ActualDelay(t)) /\ UNCHANGED gateOpen
    /\ queue' = Window(t)
    /\ sinceSplice' = 0
    /\ pending' = NoPending
    /\ snap' = [snap EXCEPT ![t] = NoSnapshot]
    /\ UNCHANGED <<gatewayEpoch, gatewayEpisode, lastPublished, issued, fault, revoked,
                   raisedIn, policyVars>>

-----------------------------------------------------------------------------
(* The executor thread: _step. *)

ExecGoto(step) == xpc' = step

(* The gate is open: accept a finished inference first. *)
ExecBegin ==
    /\ xpc = "idle"
    /\ gateOpen
    /\ ExecGoto(IF pending.done THEN "snapshot" ELSE "publish")
    /\ UNCHANGED <<schedulerVars, snap, raisedIn, policyVars>>

(* An exception of the executor's unlocked code. *)
ExecRaise ==
    /\ ExecGoto("fail")
    /\ UNCHANGED <<schedulerVars, snap, policyVars>>

ExecSnapshot ==
    /\ xpc = "snapshot"
    /\ IF Acceptable("prefetch")
       THEN AcceptSnapshot("executor", "prefetch") /\ ExecGoto("validate")
       ELSE ExecRaise /\ raisedIn' = gatewayEpoch

(* The response is read and its window checked without the lock. *)
ExecValidate ==
    /\ xpc = "validate"
    /\ IF WindowFits("executor")
       THEN /\ ExecGoto("splice")
            /\ UNCHANGED <<schedulerVars, snap, raisedIn, policyVars>>
       ELSE ExecRaise /\ raisedIn' = snap["executor"].epoch

(* The inference failed, its prefix changed, the arms' state is stale, or   *)
(* (step "reject") a joint limit is violated.                               *)
ExecInvalid(step) ==
    /\ xpc = "validate"
    /\ ExecGoto(step)
    /\ raisedIn' = snap["executor"].epoch
    /\ UNCHANGED <<schedulerVars, snap, policyVars>>

ExecReject ==
    /\ xpc = "reject"
    /\ RejectWindow("executor")
    /\ ExecGoto("fail")
    /\ UNCHANGED raisedIn

ExecSplice ==
    /\ xpc = "splice"
    /\ IF StillCurrent("executor")
       THEN Splice("executor") /\ ExecGoto("publish")
       ELSE ExecRaise /\ raisedIn' = snap["executor"].epoch

(* The gate was closed meanwhile, or the command is not due. *)
ExecNotDue ==
    /\ xpc = "publish"
    /\ ExecGoto("idle")
    /\ UNCHANGED <<schedulerVars, snap, raisedIn, policyVars>>

(* One command to both arms, and at the prefetch boundary the next request. *)
ExecPublish ==
    /\ xpc = "publish"
    /\ gateOpen
    /\ queue # <<>>
    /\ issued < MaxIssued
    /\ queue' = Tail(queue)
    /\ lastPublished' = Head(queue)
    /\ issued' = issued + 1
    /\ sinceSplice' = sinceSplice + 1
    /\ IF sinceSplice + 1 = PrefetchAfter /\ pending.phase = "none"
       THEN IF Len(queue) - 1 < Estimate
            THEN ExecGoto("fail") /\ raisedIn' = gatewayEpoch /\ UNCHANGED pending
            ELSE /\ pending' = [phase |-> "prefetch", done |-> FALSE, epoch |-> gatewayEpoch,
                                base |-> issued + 1, estimate |-> Estimate]
                 /\ ExecGoto("idle") /\ UNCHANGED raisedIn
       ELSE ExecGoto("idle") /\ UNCHANGED <<pending, raisedIn>>
    /\ UNCHANGED <<gatewayEpoch, gatewayEpisode, gateOpen, delays, fault, revoked, snap, policyVars>>

(* The command is due and there is none. *)
ExecUnderrun ==
    /\ xpc = "publish"
    /\ gateOpen
    /\ queue = <<>>
    /\ ExecRaise
    /\ raisedIn' = gatewayEpoch

(* The watchdog expired. *)
ExecWatchdog ==
    /\ xpc = "publish"
    /\ gateOpen
    /\ ExecRaise
    /\ raisedIn' = gatewayEpoch

(* The paired publish raised: the row has left the queue and counts as sent *)
(* nowhere.                                                                 *)
ExecPublishFails ==
    /\ xpc = "publish"
    /\ gateOpen
    /\ queue # <<>>
    /\ queue' = Tail(queue)
    /\ ExecGoto("fail")
    /\ raisedIn' = gatewayEpoch
    /\ UNCHANGED <<gatewayEpoch, gatewayEpisode, gateOpen, pending, lastPublished, issued,
                   sinceSplice, delays, fault, revoked, snap, policyVars>>

(* _fail: whatever epoch the scheduler is in by now. *)
ExecFail ==
    /\ xpc = "fail"
    /\ ExecGoto("idle")
    /\ IF ~gateOpen /\ pending.phase = "none"
       THEN UNCHANGED <<gateOpen, revoked, queue, pending, fault, backlog>>
       ELSE /\ gateOpen' = FALSE
            /\ revoked' = (revoked \/ gateOpen)
            /\ queue' = <<>>
            /\ pending' = NoPending
            /\ Abandon
            /\ fault' = IF fault = -1 THEN raisedIn ELSE fault
    /\ snap' = [snap EXCEPT !["executor"] = NoSnapshot]
    /\ raisedIn' = 0
    /\ UNCHANGED <<gatewayEpoch, gatewayEpisode, lastPublished, issued, sinceSplice, delays,
                   policyEpoch>>

(* The thread leaves its loop: it tests _stop between two steps. *)
ExecStop ==
    /\ xpc = "idle"
    /\ ExecGoto("stopped")
    /\ UNCHANGED <<schedulerVars, snap, raisedIn, policyVars>>
=============================================================================
