---------------------------- MODULE PolicyPathInv ----------------------------
(***************************************************************************)
(* The inductive invariant of the Policy path.  AnswersItsOwnRequest is    *)
(* not kept by the comparison of identifiers alone: "prepare" accepts the  *)
(* candidates of any inference with the same delay, so that a late answer  *)
(* can put another inference's candidates behind a ticket.  What keeps it  *)
(* is the one connection: who once took a late answer stays one answer     *)
(* behind (LagInv), and the "finish" that follows then meets an answer     *)
(* that is not its own.                                                    *)
(***************************************************************************)
EXTENDS PolicyPath

Phases == {"prepare", "finish", "infer"}
Ops == {"begin", "prepare", "finish", "infer"}
Jobs == [phase : Phases \cup {"none"}, episode : Nat, epoch : Nat, inference : Nat,
         delay : Nat, ticket : Nat]
Messages == [op : Ops \cup {"error"}, episode : Nat, epoch : Nat, inference : Nat,
             delay : Nat, prepared : Nat]
Futures == [state : {"waiting", "failed", "cancelled", "prepared", "ticket"},
            answered : Nat, prepared : Nat]
Pendings == [inference : Nat, bootstrap : BOOLEAN]
Commands == [inference : Nat, index : Int, final : BOOLEAN]

WorkerTypeOK ==
    worker \in [step : {"idle", "send", "receive"}, op : Ops \cup {"none"}, job : Jobs]

PathTypeOK ==
    /\ server \in {"hashing", "loading", "warming", "listening", "dead"}
    /\ connection \in {"none", "open", "broken", "closed"}
    /\ twoPhase \in BOOLEAN /\ closed \in BOOLEAN
    /\ requests \in Seq(Messages) /\ answers \in Seq(Messages)
    /\ jobs \in Seq(Jobs) /\ future \in Seq(Futures)
    /\ WorkerTypeOK
    /\ activeEpoch \in Nat /\ failures \in Nat
    /\ remote \in Nat \X Nat

ExpoTypeOK ==
    /\ epoch \in Nat /\ issued \in Nat
    /\ gateOpen \in BOOLEAN /\ finishing \in BOOLEAN /\ fault \in BOOLEAN
    /\ pending \in Pendings
    /\ queue \in Seq(Commands) /\ last \in Commands
    /\ executor \in [step : {"idle", "publish", "fail", "accept", "splice"},
                     finishing : BOOLEAN, pending : Pendings, epoch : Nat, last : Commands]
    /\ control \in {"human", "preparing", "policy", "closing", "cleared"}

ShadowTypeOK ==
    /\ session \in {"ready", "recording", "joining", "stopped", "closing", "over"}
    /\ episode \in 0..MaxEpisodes /\ thread \in 0..MaxEpisodes
    /\ shadowEpisode \in 0..MaxEpisodes
    /\ loop \in [1..MaxEpisodes -> [step : {"ended", "turn", "wait"}, inference : Nat]]
    /\ stop \in BOOLEAN
    /\ counted \in Seq([made : 1..MaxEpisodes, inference : Nat, ok : BOOLEAN])

TypeOK == PathTypeOK /\ ExpoTypeOK /\ ShadowTypeOK

-----------------------------------------------------------------------------
(* Before the transport is open nothing was asked. *)
UnconnectedInv ==
    connection = "none" =>
        /\ future = <<>> /\ jobs = <<>> /\ worker = Idle
        /\ ~gateOpen
        /\ \A ep \in 1..MaxEpisodes : loop[ep] = Ended

(* An inference that is waited for is in one place: a queued job or the     *)
(* worker's.                                                                *)
JobInv ==
    /\ \A k \in DOMAIN jobs :
          /\ jobs[k].inference \in DOMAIN future
          /\ future[jobs[k].inference] = Waiting
          /\ jobs[k].phase \in Phases
    /\ \A k, l \in DOMAIN jobs : k # l => jobs[k].inference # jobs[l].inference

Works == worker.step # "idle"

WorkerInv ==
    /\ ~Works => worker = Idle
    /\ Works =>
          /\ worker.job.inference \in DOMAIN future
          /\ future[worker.job.inference] = Waiting
          /\ \A k \in DOMAIN jobs : jobs[k].inference # worker.job.inference
          /\ worker.job.phase \in Phases
          /\ \/ worker.job.phase = worker.op
             \/ worker.job.phase = "prepare" /\ worker.op = "begin"
             \/ worker.job.phase = "prepare" /\ worker.op = "finish" /\ worker.job.delay = 0

(* What a message on the connection says; "finish" is sent once for an      *)
(* inference, and nothing follows it.                                       *)
Sound(m) ==
    /\ m.inference \in DOMAIN future
    /\ m.op \in {"prepare", "infer"} => m.prepared = m.inference
    /\ m.op = "finish" =>
          /\ future[m.inference].state # "prepared"
          /\ \A k \in DOMAIN jobs : jobs[k].inference # m.inference
          /\ Works /\ worker.job.inference = m.inference =>
                worker.op = "finish" /\ worker.step = "receive" /\ m.prepared = worker.job.ticket

WireInv ==
    /\ \A k \in DOMAIN requests : Sound(requests[k])
    /\ \A k \in DOMAIN answers : Sound(answers[k])

(* The worker's own message is the last on the connection. *)
LastInv ==
    worker.step = "receive" /\ connection = "open" =>
        IF requests # <<>> THEN requests[Len(requests)] = Message
        ELSE answers # <<>> /\ answers[Len(answers)] = Message

(* There is a late answer that comes before the one the worker waits for or *)
(* is going to wait for.                                                    *)
Behind ==
    connection = "open" =>
        Len(answers) + Len(requests) >= IF worker.step = "receive" THEN 2 ELSE 1

OwnFinish(m) == m.op = "finish" /\ m.inference = worker.job.inference

(* Who holds the candidates of another inference is behind. *)
LagInv ==
    /\ \A i \in DOMAIN future :
          future[i].state = "prepared" /\ future[i].prepared # i => Behind
    /\ \A k \in DOMAIN jobs :
          jobs[k].phase = "finish" /\ jobs[k].ticket # jobs[k].inference => Behind
    /\ Works /\ worker.op = "finish" /\ worker.job.ticket # worker.job.inference =>
          /\ Behind
          /\ worker.step = "receive" =>
                IF answers # <<>> THEN ~OwnFinish(answers[1])
                ELSE requests # <<>> => ~OwnFinish(requests[1])

-----------------------------------------------------------------------------
(* The gate is open only for a policy that owns the arms, and a control     *)
(* segment begins with nothing published and no window being prepared.      *)
ControlInv ==
    /\ gateOpen => control = "policy"
    /\ control \in {"cleared", "human", "preparing"} =>
          last = NoCommand /\ (pending = NoPending \/ pending.bootstrap)

(* The candidates of the next window are being prepared, or selected from. *)
NextWindow == pending.inference # 0 /\ ~pending.bootstrap

Selected(i) ==
    \/ future[i].state = "ticket"
    \/ \E k \in DOMAIN jobs : jobs[k].inference = i /\ jobs[k].phase = "finish"
    \/ Works /\ worker.job.inference = i /\ worker.job.phase = "finish"

(* A job of the next window prepares with the configured delay. *)
OfNextWindow(job) ==
    job.inference = pending.inference =>
        job.phase = "finish" \/ (job.phase = "prepare" /\ job.delay = Delay)

(* The next window is selected only when the one before is complete. *)
PendingInv ==
    /\ pending.inference # 0 => pending.inference \in DOMAIN future
    /\ pending.inference = 0 => pending = NoPending
    /\ NextWindow =>
          /\ \A k \in DOMAIN queue : queue[k].inference < pending.inference
          /\ last.inference < pending.inference
          /\ \A k \in DOMAIN jobs : OfNextWindow(jobs[k])
          /\ Works => OfNextWindow(worker.job)
          /\ Selected(pending.inference) => queue = <<>> /\ last.final

(* command may be published after before (FixedWindows). *)
Follows(command, before) ==
    \/ before = NoCommand /\ command.index = 0
    \/ command.inference = before.inference /\ command.index = before.index + 1
    \/ before.final /\ command.inference > before.inference /\ command.index = Delay

(* The queue is the rest of one window. *)
QueueInv ==
    /\ last.inference <= Len(future)
    /\ queue # <<>> => Len(queue) + issued = Steps /\ Follows(queue[1], last)
    /\ \A k \in DOMAIN queue :
          /\ queue[k].inference <= Len(future)
          /\ queue[k].final <=> k = Len(queue)
          /\ k > 1 => /\ queue[k].inference = queue[k - 1].inference
                      /\ queue[k].index = queue[k - 1].index + 1

(* The executor, on its way to the splice, holds an inference that came     *)
(* with its ticket.                                                         *)
SpliceInv ==
    executor.step = "splice" =>
        /\ executor.pending.inference \in DOMAIN future
        /\ ~executor.pending.bootstrap
        /\ future[executor.pending.inference].state = "ticket"

-----------------------------------------------------------------------------
(* No loop but that of the thread the Session knows runs. *)
ShadowInv ==
    /\ thread = shadowEpisode
    /\ \A ep \in 1..MaxEpisodes :
          /\ loop[ep].step # "ended" => thread = ep
          /\ loop[ep].step = "ended" => loop[ep] = Ended
    /\ session = "joining" => thread # 0
    /\ session \in {"ready", "stopped"} => thread = 0

(* The loop waits for its latest inference. *)
Waits == thread # 0 /\ loop[thread].step = "wait"

(* The first n inferences are done, and those counted are the last of them. *)
Attempted(n) ==
    /\ \A i \in DOMAIN future : i <= n => Done(i)
    /\ \A k \in DOMAIN counted : counted[k].inference = n - Len(counted) + k

(* The loop's attempts one after the other: what it asked for and has not   *)
(* counted is the one it waits for.                                         *)
AttemptInv ==
    /\ twoPhase => session = "ready"
    /\ ~twoPhase =>
          /\ Waits => loop[thread].inference = Len(future)
          /\ Attempted(IF Waits THEN Len(future) - 1 ELSE Len(future))

IInv ==
    /\ TypeOK
    /\ UnconnectedInv /\ JobInv /\ WorkerInv /\ WireInv /\ LastInv /\ LagInv
    /\ AnswersItsOwnRequest
    /\ ControlInv /\ PendingInv /\ QueueInv /\ SpliceInv
    /\ ShadowInv /\ AttemptInv

=============================================================================
