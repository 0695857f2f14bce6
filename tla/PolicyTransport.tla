--------------------------- MODULE PolicyTransport ---------------------------
(***************************************************************************)
(* The Policy path of a Session: the policy server, the one WebSocket that *)
(* OpenPiDaggerTransport opens and never reopens, and the single worker of *)
(* AsyncPi05PolicyClient or of ExpoPolicyClient.                           *)
(*                                                                         *)
(* A message carries the identifiers the client compares, the inference    *)
(* whose "prepare" made the EXPO candidates it is about, and the delay its *)
(* window is selected for.  Observations and actions are left out.  Bound: *)
(* MaxInferences requests of the user, MaxFailures refusals, crashes and   *)
(* missing observations.  A receive may time out whenever nothing is there.*)
(***************************************************************************)
EXTENDS Integers, Sequences

CONSTANTS
    Delay,         \* rollout.initial_delay_steps
    MaxInferences, \* bound: inferences of one Session
    MaxFailures    \* bound: failures of the server and of the observations

ASSUME PathAssumption ==
    /\ Delay \in Nat \ {0}
    /\ MaxInferences \in Nat
    /\ MaxFailures \in Nat

VARIABLES
    server,      \* what policy_server.serve is doing
    connection,  \* OpenPiDaggerTransport._connection
    twoPhase,    \* the Session's client is an ExpoPolicyClient
    requests,    \* messages the server has not answered
    answers,     \* messages the transport has not received
    activeEpoch, \* AsyncPi05PolicyClient._active_epoch
    closed,      \* _closed
    jobs,        \* the executor's queue
    worker,      \* its thread: the job, the message it exchanges, the step
    remote,      \* ExpoPolicyClient._remote_episode
    future,      \* per inference, its latest Future
    failures,    \* environment: failures so far
    struck       \* observer: the Episodes something failed in

serverVars == <<server, requests>>
clientVars == <<twoPhase, activeEpoch, closed>>
pathVars == <<server, connection, twoPhase, requests, answers, activeEpoch, closed, jobs,
              worker, remote, future, failures, struck>>

NoJob == [phase |-> "none", episode |-> 0, epoch |-> 0, inference |-> 0, delay |-> 0, ticket |-> 0]
Idle == [step |-> "idle", op |-> "none", job |-> NoJob]

(* What a Future holds; answered and prepared name inferences. *)
Waiting == [state |-> "waiting", answered |-> 0, prepared |-> 0]
Failed == [state |-> "failed", answered |-> 0, prepared |-> 0]
Cancelled == [state |-> "cancelled", answered |-> 0, prepared |-> 0]
Prepared(p) == [state |-> "prepared", answered |-> 0, prepared |-> p]
Ticket(i, p) == [state |-> "ticket", answered |-> i, prepared |-> p]

Done(i) == future[i].state # "waiting"

NoRemote == <<0, 0>>

PathInit ==
    /\ server = "hashing"
    /\ connection = "none"
    /\ twoPhase \in BOOLEAN
    /\ requests = <<>>
    /\ answers = <<>>
    /\ activeEpoch = 0
    /\ closed = FALSE
    /\ jobs = <<>>
    /\ worker = Idle
    /\ remote = NoRemote
    /\ future = <<>>
    /\ failures = 0
    /\ struck = {}

-----------------------------------------------------------------------------
(* The server. *)

Strike(e) ==
    /\ failures < MaxFailures
    /\ failures' = failures + 1
    /\ struck' = struck \cup {e}

ServerStep(from, to) ==
    /\ server = from
    /\ server' = to
    /\ UNCHANGED <<connection, requests, answers, clientVars, jobs, worker, remote, future,
                   failures, struck>>

(* The tree's hash is the configured one. *)
Hashed == ServerStep("hashing", IF twoPhase THEN "listening" ELSE "loading")

(* create_pi05_joint_policy *)
Loaded == ServerStep("loading", "warming")

(* One inference, and one with a prefix, before the port is opened. *)
WarmedUp == ServerStep("warming", "listening")

ServerDies ==
    /\ server # "dead"
    /\ Strike(worker.job.episode)
    /\ server' = "dead"
    /\ connection' = IF connection = "open" THEN "broken" ELSE connection
    /\ requests' = <<>>
    /\ UNCHANGED <<answers, clientVars, jobs, worker, remote, future>>

(* The identifiers of the request are echoed. *)
Answer ==
    /\ server = "listening"
    /\ requests # <<>>
    /\ answers' = Append(answers, Head(requests))
    /\ requests' = Tail(requests)
    /\ UNCHANGED <<server, connection, clientVars, jobs, worker, remote, future, failures, struck>>

(* An exception of the policy is sent as text and ends the connection. *)
Refuse ==
    /\ server = "listening"
    /\ requests # <<>>
    /\ Strike(worker.job.episode)
    /\ answers' = Append(answers, [Head(requests) EXCEPT !.op = "error"])
    /\ requests' = <<>>
    /\ connection' = "broken"
    /\ UNCHANGED <<server, clientVars, jobs, worker, remote, future>>

-----------------------------------------------------------------------------
(* The transport is opened once, before the Session. *)

Connect ==
    /\ connection = "none"
    /\ server = "listening"
    /\ connection' = "open"
    /\ UNCHANGED <<serverVars, answers, clientVars, jobs, worker, remote, future, failures, struck>>

(* After the client: its worker no longer runs. *)
Disconnect ==
    /\ closed
    /\ worker = Idle
    /\ connection \in {"open", "broken"}
    /\ connection' = "closed"
    /\ requests' = <<>>
    /\ answers' = <<>>
    /\ UNCHANGED <<server, clientVars, jobs, worker, remote, future, failures, struck>>

-----------------------------------------------------------------------------
(* The user's calls of the client, composed into the user's steps. *)

(* begin_epoch *)
BeginClientEpoch(e) == e >= activeEpoch /\ activeEpoch' = e

CanSubmit(e) == ~closed /\ e = activeEpoch

(* submit: the new inference's number is Len(future) + 1. *)
Submitted(phase, ep, e, d) ==
    /\ Len(future) < MaxInferences
    /\ jobs' = Append(jobs, [phase |-> phase, episode |-> ep, epoch |-> e,
                             inference |-> Len(future) + 1, delay |-> d, ticket |-> 0])
    /\ future' = Append(future, Waiting)

(* close: queued jobs are cancelled, the running one is waited for. *)
CloseClient ==
    /\ ~closed
    /\ connection # "none"
    /\ closed' = TRUE
    /\ future' = [i \in DOMAIN future |->
                     IF \E k \in DOMAIN jobs : jobs[k].inference = i THEN Cancelled ELSE future[i]]
    /\ jobs' = <<>>
    /\ UNCHANGED <<serverVars, connection, twoPhase, answers, activeEpoch, worker, remote,
                   failures, struck>>

-----------------------------------------------------------------------------
(* The worker. *)

(* A thread-pool worker takes the next job; the first message of an EXPO    *)
(* inference is "begin" in a control segment the server does not know yet.  *)
TakeJob ==
    /\ worker = Idle
    /\ jobs # <<>>
    /\ LET job == Head(jobs) IN
       worker' = [step |-> "send", job |-> job,
                  op |-> IF job.phase = "prepare" /\ remote # <<job.episode, job.epoch>>
                         THEN "begin" ELSE job.phase]
    /\ jobs' = Tail(jobs)
    /\ UNCHANGED <<serverVars, connection, answers, clientVars, remote, future, failures, struck>>

Settle(outcome) ==
    /\ future' = [future EXCEPT ![worker.job.inference] = outcome]
    /\ worker' = Idle

(* _require_active_epoch; "begin" does not ask. *)
EpochHolds == worker.op = "begin" \/ worker.job.epoch = activeEpoch

Message ==
    [op |-> worker.op, episode |-> worker.job.episode, epoch |-> worker.job.epoch,
     inference |-> worker.job.inference, delay |-> worker.job.delay,
     prepared |-> IF worker.op = "finish" THEN worker.job.ticket ELSE worker.job.inference]

(* The observation is captured and encoded, and the message is sent. *)
Send ==
    /\ worker.step = "send"
    /\ EpochHolds
    /\ connection = "open"
    /\ requests' = Append(requests, Message)
    /\ worker' = [worker EXCEPT !.step = "receive"]
    /\ UNCHANGED <<server, connection, answers, clientVars, jobs, remote, future, failures, struck>>

(* The epoch is over, or the connection is gone. *)
SendRefused ==
    /\ worker.step = "send"
    /\ ~EpochHolds \/ connection # "open"
    /\ Settle(Failed)
    /\ UNCHANGED <<serverVars, connection, answers, clientVars, jobs, remote, failures, struck>>

(* capture raises ObservationUnavailableError. *)
NoObservation ==
    /\ worker.step = "send"
    /\ worker.op # "begin"
    /\ Strike(worker.job.episode)
    /\ Settle(Failed)
    /\ UNCHANGED <<serverVars, connection, answers, clientVars, jobs, remote>>

(* Mutant: the receive has no timeout; only a broken connection ends it. *)
ReceiveForever ==
    /\ worker.step = "receive"
    /\ answers = <<>>
    /\ connection # "open"
    /\ Settle(Failed)
    /\ struck' = struck \cup {worker.job.episode}
    /\ UNCHANGED <<serverVars, connection, answers, clientVars, jobs, remote, failures>>

(* recv(timeout): an answer that comes later stays on the connection. *)
ReceiveTimesOut ==
    /\ worker.step = "receive"
    /\ answers = <<>>
    /\ Settle(Failed)
    /\ struck' = struck \cup {worker.job.episode}
    /\ UNCHANGED <<serverVars, connection, answers, clientVars, jobs, remote, failures>>

(* policy_response_from_wire: what is no answer to this operation lacks its  *)
(* fields.                                                                   *)
Decoded(m) == m.op = worker.op

(* Mutant: the inference is not compared. *)
CorrelatedByEpisode(m) ==
    /\ Decoded(m)
    /\ m.episode = worker.job.episode
    /\ m.epoch = worker.job.epoch

(* _validate_response *)
Correlated(m) ==
    /\ Decoded(m)
    /\ m.episode = worker.job.episode
    /\ m.epoch = worker.job.epoch
    /\ m.inference = worker.job.inference

(* What the answer to each message must hold.  rpc compares the version     *)
(* only: the result of "begin" is not looked at, that of "prepare" by the   *)
(* fields it has and its delay, that of "finish" by its selected window.    *)
Acceptable(m) ==
    CASE worker.op = "begin" -> TRUE
      [] worker.op = "prepare" -> m.op = "prepare" /\ m.delay = worker.job.delay
      [] worker.op = "finish" -> Correlated(m) /\ m.delay = worker.job.delay
      [] OTHER -> Correlated(m)

(* The worker's next step after an acceptable answer. *)
Proceed(m) ==
    \/ /\ worker.op = "begin"
       /\ remote' = <<worker.job.episode, worker.job.epoch>>
       /\ worker' = [worker EXCEPT !.step = "send", !.op = "prepare"]
       /\ UNCHANGED future
    \/ /\ worker.op = "prepare" /\ worker.job.delay = 0
       /\ worker' = [step |-> "send", op |-> "finish",
                     job |-> [worker.job EXCEPT !.ticket = m.prepared]]
       /\ UNCHANGED <<remote, future>>
    \/ /\ worker.op = "prepare" /\ worker.job.delay # 0
       /\ Settle(Prepared(m.prepared))
       /\ UNCHANGED remote
    \/ /\ worker.op \notin {"begin", "prepare"}
       /\ Settle(Ticket(m.inference, m.prepared))
       /\ UNCHANGED remote

Receive ==
    /\ worker.step = "receive"
    /\ answers # <<>>
    /\ answers' = Tail(answers)
    /\ LET m == Head(answers) IN
       IF m.op # "error" /\ Acceptable(m) /\ EpochHolds
       THEN Proceed(m)
       ELSE Settle(Failed) /\ UNCHANGED remote
    /\ UNCHANGED <<serverVars, connection, clientVars, jobs, failures, struck>>

WorkerNext ==
    TakeJob \/ Send \/ SendRefused \/ NoObservation \/ ReceiveTimesOut \/ Receive

PathNext ==
    \/ Hashed \/ Loaded \/ WarmedUp \/ ServerDies \/ Answer \/ Refuse
    \/ Connect \/ Disconnect
    \/ WorkerNext

(* The worker's thread runs, and a receive waits no longer than its timeout.*)
WorkerFairness == WF_pathVars(TakeJob \/ Send \/ SendRefused \/ ReceiveTimesOut \/ Receive)

-----------------------------------------------------------------------------
(* A ticket the client hands out is the server's answer to that very        *)
(* inference, its actions selected among the candidates that inference      *)
(* prepared, whatever late answers the connection still holds.              *)
AnswersItsOwnRequest ==
    \A i \in DOMAIN future :
        future[i].state = "ticket" => future[i].answered = i /\ future[i].prepared = i

=============================================================================
