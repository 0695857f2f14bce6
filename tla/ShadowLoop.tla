------------------------------ MODULE ShadowLoop ------------------------------
(***************************************************************************)
(* ShadowInferenceLoop over the Policy path: the Session thread starts one *)
(* loop thread when an Episode's recording has begun, stops it before the  *)
(* recording ends and takes the loop's counters into the metadata; the     *)
(* loop asks for one inference after the other.  A hook that raises, as    *)
(* stop does when the thread outlives its timeout, ends the Session: the   *)
(* application's finally stops the loop again, and closes the client only  *)
(* if that returns.                                                        *)
(***************************************************************************)
EXTENDS PolicyTransport

CONSTANT MaxEpisodes \* bound: Episodes of one Session

ASSUME ShadowAssumption == MaxEpisodes \in Nat

VARIABLES
    session,       \* the Session thread's place in the Episode
    episode,       \* the Session's Episode
    thread,        \* ShadowInferenceLoop._thread: the Episode it was made for, 0 for None
    loop,          \* per Episode, its thread's step and the inference it waits for
    stop,          \* _stop is set
    shadowEpisode, \* _episode_id, 0 for None
    counted        \* the attempts behind _attempt_count and its companions

shadowVars == <<session, episode, thread, loop, stop, shadowEpisode, counted>>

Ended == [step |-> "ended", inference |-> 0]
Turn == [step |-> "turn", inference |-> 0]

ShadowInit ==
    /\ session = "ready"
    /\ episode = 0
    /\ thread = 0
    /\ loop = [ep \in 1..MaxEpisodes |-> Ended]
    /\ stop = FALSE
    /\ shadowEpisode = 0
    /\ counted = <<>>

-----------------------------------------------------------------------------
(* The Session thread: the Episode hooks. *)

(* run_episode_loop is left, from where it is: the finally's stop begins. *)
Leave == session' = "closing" /\ stop' = (stop \/ thread # 0)

(* recording_started: start raises while there is a thread. *)
StartLoop ==
    /\ session = "ready"
    /\ connection # "none"
    /\ episode < MaxEpisodes
    /\ episode' = episode + 1
    /\ IF thread # 0
       THEN Leave /\ UNCHANGED <<thread, loop, shadowEpisode, counted, activeEpoch>>
       ELSE /\ session' = "recording"
            /\ thread' = episode + 1
            /\ loop' = [loop EXCEPT ![episode + 1] = Turn]
            /\ stop' = FALSE
            /\ shadowEpisode' = episode + 1
            /\ counted' = <<>>
            /\ BeginClientEpoch(0)
    /\ UNCHANGED <<serverVars, connection, twoPhase, answers, closed, jobs, worker, remote,
                   future, failures, struck>>

(* recording_stopping: stop, up to its join. *)
StopLoop ==
    /\ session = "recording"
    /\ session' = IF thread = 0 THEN "stopped" ELSE "joining"
    /\ stop' = (stop \/ thread # 0)
    /\ UNCHANGED <<episode, thread, loop, shadowEpisode, counted, pathVars>>

(* The Session is over, run_once raises somewhere else, or a signal came.   *)
LeaveSession ==
    /\ session \in {"ready", "recording", "stopped"}
    /\ Leave
    /\ UNCHANGED <<episode, thread, loop, shadowEpisode, counted, pathVars>>

Joined ==
    /\ session = "joining"
    /\ loop[thread] = Ended
    /\ session' = "stopped"
    /\ thread' = 0
    /\ shadowEpisode' = 0
    /\ UNCHANGED <<episode, loop, stop, counted, pathVars>>

(* TimeoutError, or a signal: run_once raises the hook's error once the     *)
(* other components have stopped.  Out of the finally's own stop it leaves  *)
(* the client open.                                                         *)
JoinRaises ==
    /\ session \in {"joining", "closing"}
    /\ thread # 0
    /\ session' = IF session = "joining" THEN "closing" ELSE "over"
    /\ UNCHANGED <<episode, thread, loop, stop, shadowEpisode, counted, pathVars>>

(* metadata_context, and the next Episode. *)
Summarise ==
    /\ session = "stopped"
    /\ session' = "ready"
    /\ UNCHANGED <<episode, thread, loop, stop, shadowEpisode, counted, pathVars>>

(* The finally's policy.close. *)
EndSession ==
    /\ session = "closing"
    /\ thread # 0 => loop[thread] = Ended
    /\ CloseClient
    /\ session' = "over"
    /\ thread' = 0
    /\ shadowEpisode' = 0
    /\ UNCHANGED <<episode, loop, stop, counted>>

(* The transport is closed under the worker of a client that was not. *)
HangUp ==
    /\ session = "over"
    /\ ~closed
    /\ connection \in {"open", "broken"}
    /\ connection' = "closed"
    /\ requests' = <<>>
    /\ answers' = <<>>
    /\ UNCHANGED <<server, clientVars, jobs, worker, remote, future, failures, struck, shadowVars>>

-----------------------------------------------------------------------------
(* A loop thread: _run. *)

(* Mutant: a loop that was told to stop does not wait for its inference.   *)
LoopEndsAtOnce(ep) ==
    /\ loop[ep] # Ended
    /\ stop \/ shadowEpisode = 0 \/ ~CanSubmit(0)
    /\ loop' = [loop EXCEPT ![ep] = Ended]
    /\ UNCHANGED <<session, episode, thread, stop, shadowEpisode, counted, pathVars>>

(* It ends when _stop is set, and when submit raises. *)
LoopEnds(ep) ==
    /\ loop[ep] = Turn
    /\ stop \/ shadowEpisode = 0 \/ ~CanSubmit(0)
    /\ loop' = [loop EXCEPT ![ep] = Ended]
    /\ UNCHANGED <<session, episode, thread, stop, shadowEpisode, counted, pathVars>>

Ask(ep) ==
    /\ loop[ep] = Turn
    /\ ~stop /\ shadowEpisode # 0 /\ CanSubmit(0)
    /\ Submitted("infer", shadowEpisode, 0, 0)
    /\ loop' = [loop EXCEPT ![ep] = [step |-> "wait", inference |-> Len(future) + 1]]
    /\ UNCHANGED <<session, episode, thread, stop, shadowEpisode, counted, serverVars,
                   connection, clientVars, answers, worker, remote, failures, struck>>

(* _record_failure or _record_success, and the rest until the next period. *)
Record(ep) ==
    /\ loop[ep].step = "wait"
    /\ Done(loop[ep].inference)
    /\ counted' = Append(counted, [made |-> ep, inference |-> loop[ep].inference,
                                   ok |-> future[loop[ep].inference].state = "ticket"])
    /\ loop' = [loop EXCEPT ![ep] = Turn]
    /\ UNCHANGED <<session, episode, thread, stop, shadowEpisode, pathVars>>

HookNext ==
    \/ StartLoop \/ StopLoop \/ LeaveSession \/ Joined \/ JoinRaises \/ Summarise
    \/ EndSession \/ HangUp

LoopNext == \E ep \in 1..MaxEpisodes : LoopEnds(ep) \/ Ask(ep) \/ Record(ep)

(* A started thread runs. *)
LoopFairness ==
    \A ep \in 1..MaxEpisodes : WF_<<pathVars, shadowVars>>(LoopEnds(ep) \/ Record(ep))

-----------------------------------------------------------------------------
(* The summary that goes into an Episode's metadata leaves no attempt out:  *)
(* when stop has returned, nothing the loop asked for is still in flight,   *)
(* into the next Episode, and the attempts counted are the last ones asked  *)
(* for, up to the very last.                                                *)
SummaryIsComplete ==
    session = "stopped" =>
        /\ \A i \in DOMAIN future : Done(i)
        /\ \A k \in DOMAIN counted : counted[k].inference = Len(future) - Len(counted) + k

(* A loop that was told to stop ends, whatever the policy server does: its  *)
(* inference is answered, fails, times out or is cancelled.                 *)
StopIsObeyed ==
    \A ep \in 1..MaxEpisodes : (thread = ep /\ stop) ~> loop[ep] = Ended

=============================================================================
