-------------------------- MODULE PolicyActionGateway --------------------------
(***************************************************************************)
(* PolicyActionGateway and FixedRateCommandExecutor: the sequential        *)
(* gateway.  A chunk of ExecutionSteps commands is sent in full before the *)
(* next observation is requested.                                          *)
(*                                                                         *)
(* One lock protects the gateway, and the executor takes it once for every *)
(* property it reads: gate_open, control_epoch, episode_id,                *)
(* has_pending_policy and pending_command_count are five separate steps.   *)
(* Both threads run policy_ready, which leaves the lock while it validates.*)
(*                                                                         *)
(* A queued command is abstracted to the control epoch its chunk was       *)
(* inferred for; clock readings to due / not due / expired.                *)
(***************************************************************************)
EXTENDS Integers, Sequences

CONSTANTS
    ExecutionSteps, \* execution.execution_steps
    MaxIssued       \* bound: commands sent in one epoch

ASSUME ExecutionAssumption ==
    /\ ExecutionSteps \in Nat \ {0}
    /\ MaxIssued \in Nat

VARIABLES
    gatewayEpoch,   \* PolicyActionGateway._control_epoch
    gatewayEpisode, \* _episode_id, 0 for None; a new epoch keeps it
    gateOpen,       \* _gate_open
    pending,        \* _pending: none, or a future that is waiting or done
    pendingEpoch,   \* the epoch it was submitted for
    queue,          \* _queue
    fault,          \* _fault: the epoch its error arose in, -1 for None
    issued,         \* observer: commands sent in this epoch
    lastSent,       \* observer: the epoch the last command was inferred for
    revoked,        \* observer: close_gate returned in this epoch, or the lease was lost
    ticket,         \* per thread, the ticket policy_ready took, and for which identity
    xpc,            \* the executor thread's next step
    xEpoch,         \* the epoch it read
    xEpisode,       \* the Episode it read
    activeEpoch,    \* _active_epoch, -1 for None
    waiting,        \* _policy_wait_started_s is not None
    policyEpoch,    \* AsyncPi05PolicyClient._active_epoch
    backlog         \* abandoned inferences ahead in the single worker's queue

gatewayVars == <<gatewayEpoch, gatewayEpisode, gateOpen, pending, pendingEpoch, queue, fault>>
observers == <<issued, lastSent, revoked>>
executorVars == <<xpc, xEpoch, xEpisode, activeEpoch, waiting>>
policyVars == <<policyEpoch, backlog>>
seqVars == <<gatewayVars, observers, ticket, executorVars, policyVars>>

Threads == {"session", "executor"}

NoTicket == [epoch |-> 0, request |-> 0, episode |-> 0, enable |-> FALSE]

(* epoch and episode: what the caller asked with; request: what the future  *)
(* was submitted for; enable: whether the gate was closed when it was taken.*)
Tickets == [epoch : Nat, request : Nat, episode : Nat, enable : BOOLEAN]

ExecutorTypeOK ==
    /\ xpc \in {"idle", "epoch", "episode", "pending", "ready", "validate", "activate",
                "count", "request", "publish", "fail", "failgate", "failclose", "latch", "stopped"}
    /\ xEpoch \in Nat
    /\ xEpisode \in Nat
    /\ activeEpoch \in Nat \cup {-1}
    /\ waiting \in BOOLEAN

GatewayTypeOK ==
    /\ gatewayEpoch \in Nat
    /\ gatewayEpisode \in Nat
    /\ gateOpen \in BOOLEAN
    /\ pending \in {"none", "waiting", "done"}
    /\ pendingEpoch \in Nat
    /\ queue \in Seq(Nat)
    /\ fault \in Nat \cup {-1}
    /\ issued \in Nat
    /\ lastSent \in Nat
    /\ revoked \in BOOLEAN
    /\ ticket \in [Threads -> Tickets]
    /\ ExecutorTypeOK
    /\ policyEpoch \in Nat
    /\ backlog \in Nat

GatewayInit ==
    /\ gatewayEpoch = 0
    /\ gatewayEpisode = 0
    /\ gateOpen = FALSE
    /\ pending = "none"
    /\ pendingEpoch = 0
    /\ queue = <<>>
    /\ fault = -1
    /\ issued = 0
    /\ lastSent = 0
    /\ revoked = FALSE
    /\ ticket = [t \in Threads |-> NoTicket]
    /\ xpc = "idle"
    /\ xEpoch = 0
    /\ xEpisode = 0
    /\ activeEpoch = -1
    /\ waiting = FALSE
    /\ policyEpoch = 0
    /\ backlog = 0

-----------------------------------------------------------------------------
(* The policy client. *)

(* The worker finishes an inference nobody waits for any more. *)
FinishAbandoned ==
    /\ backlog > 0
    /\ backlog' = backlog - 1
    /\ UNCHANGED <<gatewayVars, observers, ticket, executorVars, policyEpoch>>

FinishPending ==
    /\ pending = "waiting"
    /\ backlog = 0
    /\ pending' = "done"
    /\ UNCHANGED <<gatewayEpoch, gatewayEpisode, gateOpen, pendingEpoch, queue, fault,
                   observers, ticket, executorVars, policyVars>>

-----------------------------------------------------------------------------
(* The gateway's locked regions. *)

CloseGate(e) ==
    /\ e = gatewayEpoch
    /\ gateOpen' = FALSE
    /\ revoked' = TRUE
    /\ UNCHANGED <<gatewayEpoch, gatewayEpisode, pending, pendingEpoch, queue, fault,
                   issued, lastSent, ticket, policyVars>>

(* Mutant: clear_pending relies on close_gate for the gate. *)
ClearPendingLeavesGate(e) ==
    /\ e >= gatewayEpoch
    /\ gatewayEpoch' = e
    /\ backlog' = IF pending = "waiting" THEN backlog + 1 ELSE backlog
    /\ pending' = "none"
    /\ pendingEpoch' = 0
    /\ queue' = <<>>
    /\ issued' = 0
    /\ lastSent' = e
    /\ revoked' = (revoked /\ e = gatewayEpoch)
    /\ UNCHANGED <<gatewayEpisode, gateOpen, fault, ticket, executorVars, policyEpoch>>

ClearPending(e) ==
    /\ e >= gatewayEpoch
    /\ gatewayEpoch' = e
    /\ backlog' = IF pending = "waiting" THEN backlog + 1 ELSE backlog
    /\ pending' = "none"
    /\ pendingEpoch' = 0
    /\ queue' = <<>>
    /\ gateOpen' = FALSE
    /\ issued' = 0
    /\ lastSent' = e
    /\ revoked' = (revoked /\ e = gatewayEpoch)
    /\ UNCHANGED <<gatewayEpisode, fault, ticket, executorVars, policyEpoch>>

BeginEpoch(e) ==
    /\ policyEpoch' = e
    /\ UNCHANGED <<gatewayVars, observers, ticket, executorVars, backlog>>

(* The gate is not consulted. *)
CanPrepare(e) ==
    /\ e = gatewayEpoch
    /\ pending = "none"
    /\ queue = <<>>

(* The client refuses a request for another epoch than its own. *)
CanSubmit(e) == e = policyEpoch

(* The Episode is noted before the request is submitted. *)
PreparePolicy(ep, e) ==
    /\ CanPrepare(e)
    /\ gatewayEpisode' = ep
    /\ IF CanSubmit(e)
       THEN pending' = "waiting" /\ pendingEpoch' = e
       ELSE UNCHANGED <<pending, pendingEpoch>>
    /\ UNCHANGED <<gatewayEpoch, gateOpen, queue, fault, observers, ticket, policyVars>>

(* policy_ready's first region raises. *)
NotPrepared(ep, e) == e # gatewayEpoch \/ ep # gatewayEpisode \/ pending = "none"

TakePending(t, ep, e) ==
    /\ pending = "done"
    /\ ticket' = [ticket EXCEPT ![t] = [epoch |-> e, request |-> pendingEpoch,
                                        episode |-> ep, enable |-> ~gateOpen]]
    /\ pending' = "none"
    /\ pendingEpoch' = 0
    /\ UNCHANGED <<gatewayEpoch, gatewayEpisode, gateOpen, queue, fault, observers, policyVars>>

(* Mutant: only the Episode is compared. *)
LeaseIsOfOtherEpisode(t) == ticket[t].episode # gatewayEpisode

LeaseIsStale(t) == ticket[t].epoch # gatewayEpoch \/ ticket[t].episode # gatewayEpisode

(* Its second region, once enable_policy_control has returned if it was     *)
(* needed: only the identity was compared, so the gate opens even if it was *)
(* closed meanwhile.                                                        *)
ActivateLease(t) ==
    /\ ~LeaseIsStale(t)
    /\ queue' = queue \o [i \in 1..ExecutionSteps |-> ticket[t].request]
    /\ gateOpen' = TRUE
    /\ ticket' = [ticket EXCEPT ![t] = NoTicket]
    /\ UNCHANGED <<gatewayEpoch, gatewayEpisode, pending, pendingEpoch, fault, observers, policyVars>>

TakeFault ==
    /\ fault # -1
    /\ fault' = -1
    /\ UNCHANGED <<gatewayEpoch, gatewayEpisode, gateOpen, pending, pendingEpoch, queue,
                   observers, ticket, executorVars, policyVars>>

-----------------------------------------------------------------------------
(* The executor thread: step. *)

ExecGoto(step) == xpc' = step /\ UNCHANGED <<xEpoch, xEpisode, activeEpoch, waiting>>

ResetSchedule ==
    /\ xpc' = "idle"
    /\ activeEpoch' = -1
    /\ waiting' = FALSE
    /\ xEpoch' = 0
    /\ xEpisode' = 0

(* step returns and keeps its schedule. *)
StepReturns(wait) ==
    /\ xpc' = "idle"
    /\ waiting' = wait
    /\ xEpoch' = 0
    /\ xEpisode' = 0
    /\ UNCHANGED activeEpoch

Untouched == UNCHANGED <<gatewayVars, observers, ticket, policyVars>>

ExecGate ==
    /\ xpc = "idle"
    /\ IF gateOpen THEN ExecGoto("epoch") ELSE ResetSchedule
    /\ Untouched

ExecReadEpoch ==
    /\ xpc = "epoch"
    /\ xpc' = "episode"
    /\ xEpoch' = gatewayEpoch
    /\ UNCHANGED <<xEpisode, activeEpoch, waiting>>
    /\ Untouched

(* The Episode, then a new epoch restarts the schedule. *)
ExecReadEpisode ==
    /\ xpc = "episode"
    /\ xEpisode' = gatewayEpisode
    /\ xpc' = IF gatewayEpisode = 0 THEN "fail" ELSE "pending"
    /\ activeEpoch' = xEpoch
    /\ waiting' = (waiting /\ activeEpoch = xEpoch)
    /\ UNCHANGED xEpoch
    /\ Untouched

ExecReadPending ==
    /\ xpc = "pending"
    /\ ExecGoto(IF pending = "none" THEN "count"
                ELSE IF waiting THEN "ready" ELSE "fail")
    /\ Untouched

ExecPolicyReady ==
    /\ xpc = "ready"
    /\ IF NotPrepared(xEpisode, xEpoch)
       THEN ExecGoto("fail") /\ Untouched
       ELSE IF pending = "done"
            THEN ExecGoto("validate") /\ TakePending("executor", xEpisode, xEpoch)
            ELSE StepReturns(TRUE) /\ Untouched

(* The policy wait timed out. *)
ExecPolicyTimeout ==
    /\ xpc = "ready"
    /\ ExecGoto("fail")
    /\ Untouched

ExecValidate ==
    /\ xpc = "validate"
    /\ ExecGoto(IF ticket["executor"].request = ticket["executor"].epoch THEN "activate" ELSE "fail")
    /\ Untouched

(* The inference failed or its window is not safe. *)
ExecInvalid ==
    /\ xpc = "validate"
    /\ ExecGoto("fail")
    /\ Untouched

ExecActivate ==
    /\ xpc = "activate"
    /\ IF LeaseIsStale("executor")
       THEN ExecGoto("fail") /\ Untouched
       ELSE ActivateLease("executor") /\ StepReturns(FALSE)

ExecCount ==
    /\ xpc = "count"
    /\ ExecGoto(IF queue = <<>> THEN "request" ELSE "publish")
    /\ Untouched

(* The queue was empty: the next chunk is requested. *)
ExecRequest ==
    /\ xpc = "request"
    /\ IF CanPrepare(xEpoch)
       THEN /\ PreparePolicy(xEpisode, xEpoch)
            /\ IF CanSubmit(xEpoch) THEN StepReturns(TRUE) ELSE ExecGoto("fail")
       ELSE ExecGoto("fail") /\ Untouched

ExecNotDue ==
    /\ xpc \in {"request", "publish"}
    /\ StepReturns(waiting)
    /\ Untouched

LeaseIsClosed(e) == e # gatewayEpoch \/ ~gateOpen \/ queue = <<>>

ExecPublish ==
    /\ xpc = "publish"
    /\ IF LeaseIsClosed(xEpoch)
       THEN ExecGoto("fail") /\ Untouched
       ELSE /\ issued < MaxIssued
            /\ queue' = Tail(queue)
            /\ lastSent' = Head(queue)
            /\ issued' = issued + 1
            /\ StepReturns(waiting)
            /\ UNCHANGED <<gatewayEpoch, gatewayEpisode, gateOpen, pending, pendingEpoch, fault,
                           revoked, ticket, policyVars>>

(* The watchdog expired. *)
ExecWatchdog ==
    /\ xpc = "publish"
    /\ ExecGoto("fail")
    /\ Untouched

(* The paired publish raised: the command has left the queue. *)
ExecPublishFails ==
    /\ xpc = "publish"
    /\ ~LeaseIsClosed(xEpoch)
    /\ queue' = Tail(queue)
    /\ ExecGoto("fail")
    /\ UNCHANGED <<gatewayEpoch, gatewayEpisode, gateOpen, pending, pendingEpoch, fault,
                   observers, ticket, policyVars>>

(* _fail: an error of a lease that is over is dropped.  The epoch and the   *)
(* gate are read one after the other.                                       *)
ExecFailCheck ==
    /\ xpc = "fail"
    /\ IF gatewayEpoch = xEpoch THEN ExecGoto("failgate") ELSE ResetSchedule
    /\ Untouched

ExecFailGate ==
    /\ xpc = "failgate"
    /\ IF gateOpen THEN ExecGoto("failclose") ELSE ResetSchedule
    /\ Untouched

ExecFailClose ==
    /\ xpc = "failclose"
    /\ ExecGoto("latch")
    /\ IF xEpoch = gatewayEpoch
       THEN CloseGate(xEpoch)
       ELSE Untouched

(* latch_fault compares nothing. *)
ExecLatch ==
    /\ xpc = "latch"
    /\ gateOpen' = FALSE
    /\ revoked' = (revoked \/ gateOpen)
    /\ queue' = <<>>
    /\ fault' = IF fault = -1 THEN xEpoch ELSE fault
    /\ ResetSchedule
    /\ ticket' = [ticket EXCEPT !["executor"] = NoTicket]
    /\ UNCHANGED <<gatewayEpoch, gatewayEpisode, pending, pendingEpoch, issued, lastSent, policyVars>>

ExecStop ==
    /\ xpc = "idle"
    /\ ExecGoto("stopped")
    /\ Untouched
=============================================================================
