---------------------------- MODULE ExpoScheduler ----------------------------
(***************************************************************************)
(* ExpoActionScheduler over the Policy path: fixed windows of Steps        *)
(* commands, the next candidates prepared while the last Delay of them are *)
(* executed, and the window selected ("finish") in the gap between two     *)
(* commands.  One lock; the executor thread's steps are the locked regions *)
(* of _step, _accept_pending and _fail, and the Session thread makes the   *)
(* controller's calls in between.                                          *)
(*                                                                         *)
(* An action row is its inference, its index in that inference's chunk and *)
(* whether it is the last of the selected window.                          *)
(* Clocks are abstracted: a command is due or not, a deadline may be past. *)
(***************************************************************************)
EXTENDS PolicyTransport

CONSTANTS
    Steps,   \* execution.execution_steps
    MaxEpoch \* bound: control segments

(* ExpoActionScheduler.__init__ *)
ASSUME WindowAssumption == Steps \in Nat /\ Delay < Steps /\ MaxEpoch \in Nat

VARIABLES
    epoch,     \* _control_epoch
    gateOpen,  \* _gate_open
    pending,   \* _pending: the inference, whether it is the bootstrap
    queue,     \* _queue
    last,      \* _last_published_command
    issued,    \* _issued_since_splice
    finishing, \* _finishing
    fault,     \* _fault is set
    executor,  \* the executor thread: its step and what it copied
    control    \* the Session thread's place in the controller

expoVars == <<epoch, gateOpen, pending, queue, last, issued, finishing, fault, executor, control>>

NoPending == [inference |-> 0, bootstrap |-> FALSE]
NoCommand == [inference |-> 0, index |-> -1, final |-> FALSE]
Resting == [step |-> "idle", finishing |-> FALSE, pending |-> NoPending, epoch |-> 0,
            last |-> NoCommand]

PendingDone == pending # NoPending /\ Done(pending.inference)

ExpoInit ==
    /\ epoch = 0
    /\ gateOpen = FALSE
    /\ pending = NoPending
    /\ queue = <<>>
    /\ last = NoCommand
    /\ issued = 0
    /\ finishing = FALSE
    /\ fault = FALSE
    /\ executor = Resting
    /\ control = "human"

-----------------------------------------------------------------------------
(* The Session thread: the controller's calls. *)

(* prepare_policy *)
Prepare ==
    /\ control = "human"
    /\ connection # "none"
    /\ pending = NoPending /\ queue = <<>> /\ ~gateOpen
    /\ CanSubmit(epoch)
    /\ Submitted("prepare", 1, epoch, 0)
    /\ pending' = [inference |-> Len(future) + 1, bootstrap |-> TRUE]
    /\ control' = "preparing"
    /\ UNCHANGED <<epoch, gateOpen, queue, last, issued, finishing, fault, executor,
                   serverVars, connection, clientVars, answers, worker, remote, failures, struck>>

Window(inference, start) ==
    [k \in 1..Steps |-> [inference |-> inference, index |-> start + k - 1, final |-> k = Steps]]

(* policy_ready accepts the bootstrap window and opens the gate. *)
PolicyReady ==
    /\ control = "preparing"
    /\ PendingDone
    /\ future[pending.inference].state = "ticket"
    /\ queue' = Window(pending.inference, 0)
    /\ gateOpen' = TRUE
    /\ issued' = 0
    /\ pending' = NoPending
    /\ control' = "policy"
    /\ UNCHANGED <<epoch, last, finishing, fault, executor, pathVars>>

(* policy_ready raises: a timeout, a failed inference, a rejected window or *)
(* a bootstrap that is gone.  Or the operator takes over, or the tick finds *)
(* the latched fault.  All of them end in close_gate ...                    *)
CloseGate ==
    /\ control \in {"preparing", "policy"}
    /\ gateOpen' = FALSE
    /\ fault' = FALSE
    /\ control' = "closing"
    /\ UNCHANGED <<epoch, pending, queue, last, issued, finishing, executor, pathVars>>

(* ... clear_pending under the lock ... *)
ClearPending ==
    /\ control = "closing"
    /\ epoch < MaxEpoch
    /\ epoch' = epoch + 1
    /\ gateOpen' = FALSE
    /\ pending' = NoPending
    /\ queue' = <<>>
    /\ last' = NoCommand
    /\ issued' = 0
    /\ control' = "cleared"
    /\ UNCHANGED <<finishing, fault, executor, pathVars>>

(* ... and, outside it, the client's epoch and _finishing. *)
ClearFinishing ==
    /\ control = "cleared"
    /\ BeginClientEpoch(epoch)
    /\ finishing' = FALSE
    /\ control' = "human"
    /\ UNCHANGED <<epoch, gateOpen, pending, queue, last, issued, fault, executor,
                   serverVars, connection, twoPhase, answers, closed, jobs, worker, remote,
                   future, failures, struck>>

-----------------------------------------------------------------------------
(* The executor thread: _step. *)

Goto(step) == executor' = [executor EXCEPT !.step = step]

(* The first locked region: between two windows nothing is published until  *)
(* the next one is selected.                                                *)
Begin ==
    /\ executor.step = "idle"
    /\ gateOpen
    /\ finishing => pending = NoPending \/ PendingDone
    /\ executor' = [executor EXCEPT !.finishing = finishing,
                                    !.step = IF ~finishing THEN "publish"
                                             ELSE IF pending = NoPending THEN "fail"
                                             ELSE "accept"]
    /\ UNCHANGED <<epoch, gateOpen, pending, queue, last, issued, finishing, fault, control, pathVars>>

(* The deadline of the fast stage, or the watchdog, has passed. *)
DeadlineMissed ==
    /\ \/ executor.step = "idle" /\ gateOpen /\ finishing
       \/ executor.step = "publish" /\ gateOpen
    /\ Goto("fail")
    /\ UNCHANGED <<epoch, gateOpen, pending, queue, last, issued, finishing, fault, control, pathVars>>

(* _accept_pending, up to the splice; the ticket may be an exception and    *)
(* the window may violate the action contract.                              *)
Accept ==
    /\ executor.step = "accept"
    /\ executor' = [executor EXCEPT !.pending = pending, !.epoch = epoch, !.last = last,
                       !.step = IF PendingDone /\ ~pending.bootstrap
                                   /\ future[pending.inference].state = "ticket"
                                THEN "splice" ELSE "fail"]
    /\ UNCHANGED <<epoch, gateOpen, pending, queue, last, issued, finishing, fault, control, pathVars>>

(* _reject_window_locked *)
RejectWindow ==
    /\ executor.step = "splice"
    /\ gateOpen' = FALSE
    /\ queue' = <<>>
    /\ pending' = NoPending
    /\ fault' = TRUE
    /\ Goto("fail")
    /\ UNCHANGED <<epoch, last, issued, finishing, control, pathVars>>

(* Mutant: what was copied is not compared with what is there now. *)
SpliceStale ==
    /\ executor.step = "splice"
    /\ queue' = Window(executor.pending.inference, Delay)
    /\ issued' = 0
    /\ pending' = NoPending
    /\ finishing' = FALSE
    /\ Goto("publish")
    /\ UNCHANGED <<epoch, gateOpen, last, fault, control, pathVars>>

(* The splice, and the reset of _finishing that follows it. *)
Splice ==
    /\ executor.step = "splice"
    /\ IF executor.pending = pending /\ executor.epoch = epoch /\ executor.last = last
       THEN /\ queue' = Window(executor.pending.inference, Delay)
            /\ issued' = 0
            /\ pending' = NoPending
            /\ finishing' = FALSE
            /\ Goto("publish")
       ELSE Goto("fail") /\ UNCHANGED <<queue, issued, pending, finishing>>
    /\ UNCHANGED <<epoch, gateOpen, last, fault, control, pathVars>>

(* The second locked region: the gate was closed, or nothing is due. *)
NotDue ==
    /\ executor.step = "publish"
    /\ Goto("idle")
    /\ UNCHANGED <<epoch, gateOpen, pending, queue, last, issued, finishing, fault, control, pathVars>>

Exhausted ==
    /\ executor.step = "publish"
    /\ gateOpen
    /\ queue = <<>>
    /\ Goto("fail")
    /\ UNCHANGED <<epoch, gateOpen, pending, queue, last, issued, finishing, fault, control, pathVars>>

(* After Steps - Delay commands: the next candidates, conditioned on the    *)
(* commands still queued.                                                   *)
Prefetch ==
    IF Len(queue) - 1 = Delay /\ CanSubmit(epoch)
    THEN /\ Submitted("prepare", 1, epoch, Delay)
         /\ pending' = [inference |-> Len(future) + 1, bootstrap |-> FALSE]
         /\ Goto("idle")
         /\ UNCHANGED finishing
    ELSE Goto("fail") /\ UNCHANGED <<pending, finishing, jobs, future>>

(* After Steps commands: the candidates must be there, and the window is    *)
(* selected from them.                                                      *)
Select ==
    IF PendingDone /\ future[pending.inference].state = "prepared" /\ CanSubmit(epoch)
    THEN /\ jobs' = Append(jobs, [phase |-> "finish", episode |-> 1, epoch |-> epoch,
                                  inference |-> pending.inference, delay |-> Delay,
                                  ticket |-> future[pending.inference].prepared])
         /\ future' = [future EXCEPT ![pending.inference] = Waiting]
         /\ finishing' = TRUE
         /\ Goto("idle")
         /\ UNCHANGED pending
    ELSE Goto("fail") /\ UNCHANGED <<pending, finishing, jobs, future>>

Publish ==
    /\ executor.step = "publish"
    /\ gateOpen
    /\ queue # <<>>
    /\ queue' = Tail(queue)
    /\ last' = Head(queue)
    /\ issued' = issued + 1
    /\ IF issued + 1 = Steps - Delay THEN Prefetch
       ELSE IF issued + 1 = Steps THEN Select
       ELSE Goto("idle") /\ UNCHANGED <<pending, finishing, jobs, future>>
    /\ UNCHANGED <<epoch, gateOpen, fault, control, serverVars, connection, clientVars,
                   answers, worker, remote, failures, struck>>

(* _fail: without a gate and a pending inference there is nothing to stop. *)
Fail ==
    /\ executor.step = "fail"
    /\ executor' = Resting
    /\ IF gateOpen \/ pending # NoPending
       THEN gateOpen' = FALSE /\ queue' = <<>> /\ pending' = NoPending /\ fault' = TRUE
       ELSE UNCHANGED <<gateOpen, queue, pending, fault>>
    /\ UNCHANGED <<epoch, last, issued, finishing, control, pathVars>>

(* The Session ends: the controller is at rest and the executor is joined   *)
(* before the client is closed.                                             *)
ExpoEnds ==
    /\ control = "human"
    /\ executor.step = "idle"
    /\ CloseClient
    /\ UNCHANGED expoVars

SessionNext == Prepare \/ PolicyReady \/ CloseGate \/ ClearPending \/ ClearFinishing \/ ExpoEnds

ExecutorNext ==
    \/ Begin \/ DeadlineMissed \/ Accept \/ RejectWindow \/ Splice \/ NotDue \/ Exhausted
    \/ Publish \/ Fail

-----------------------------------------------------------------------------
(* "No early splice, no base tail execution": the commands of a control     *)
(* segment are the consecutive rows of its windows.  A window's rows go out *)
(* in order, the next window begins with the row after the delay its        *)
(* candidates were prepared with, and only when the window before is        *)
(* complete.                                                                *)
FixedWindows ==
    [][ last' \notin {NoCommand, last} =>
          \/ last = NoCommand /\ last'.index = 0
          \/ last'.inference = last.inference /\ last'.index = last.index + 1
          \/ last.final /\ last'.inference > last.inference /\ last'.index = Delay ]_last

=============================================================================
