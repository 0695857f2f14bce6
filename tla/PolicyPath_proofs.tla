-------------------------- MODULE PolicyPath_proofs --------------------------
(***************************************************************************)
(* What holds of the Policy path for every number of inferences, failures, *)
(* Episodes and control segments and every window.  The path sees its two  *)
(* users as the five moves of UserMove, so each part of the invariant that *)
(* is about the path alone is kept case by case over the path's actions    *)
(* and these moves; the parts about a user over the user's actions.        *)
(***************************************************************************)
EXTENDS PolicyPathInv, SequenceTheorems, TLAPS

-----------------------------------------------------------------------------
(* Sequences. *)

(* A function on 1..n is a sequence of length n.                           *)
LEMMA FunctionIsSeq ==
    ASSUME NEW S, NEW n \in Nat, NEW f \in [1..n -> S]
    PROVE  f \in Seq(S) /\ Len(f) = n /\ DOMAIN f = 1..n
<1>1. f \in Seq(S)
  BY SeqDef
<1>2. Len(f) \in Nat /\ DOMAIN f = 1..Len(f)
  BY <1>1, LenProperties
<1> QED
  BY <1>1, <1>2

(* Replacing an element.                                                   *)
LEMMA Replaced ==
    ASSUME NEW S, NEW s \in Seq(S), NEW i \in DOMAIN s, NEW x \in S
    PROVE  /\ [s EXCEPT ![i] = x] \in Seq(S)
           /\ DOMAIN [s EXCEPT ![i] = x] = DOMAIN s
           /\ Len([s EXCEPT ![i] = x]) = Len(s)
  BY LenProperties, ExceptSeq

(* Every element of a sequence that grew is old, or the new one.           *)
LEMMA Appended ==
    ASSUME NEW S, NEW s \in Seq(S), NEW x \in S
    PROVE  /\ Append(s, x) \in Seq(S)
           /\ Len(Append(s, x)) = Len(s) + 1
           /\ DOMAIN Append(s, x) = 1..Len(s) + 1
           /\ DOMAIN s = 1..Len(s)
           /\ \A k \in DOMAIN s : k \in DOMAIN Append(s, x) /\ Append(s, x)[k] = s[k]
           /\ \A k \in DOMAIN Append(s, x) :
                  k \in DOMAIN s \/ (k = Len(s) + 1 /\ Append(s, x)[k] = x)
  BY AppendProperties, LenProperties

(* Every element of a tail is one of the sequence.                         *)
LEMMA Tailed ==
    ASSUME NEW S, NEW s \in Seq(S), s # <<>>
    PROVE  /\ Head(s) = s[1] /\ s[1] \in S /\ 1 \in DOMAIN s
           /\ Tail(s) \in Seq(S)
           /\ Len(s) \in Nat \ {0} /\ Len(Tail(s)) = Len(s) - 1
           /\ \A k \in DOMAIN Tail(s) :
                  k \in 1..Len(s) - 1 /\ k + 1 \in DOMAIN s /\ Tail(s)[k] = s[k + 1]
<1>1. /\ Head(s) \in S /\ Tail(s) \in Seq(S) /\ Len(Tail(s)) = Len(s) - 1
      /\ \A i \in 1..Len(Tail(s)) : Tail(s)[i] = s[i + 1]
  BY HeadTailProperties
<1>2. /\ Len(s) \in Nat \ {0} /\ DOMAIN s = 1..Len(s)
      /\ DOMAIN Tail(s) = 1..Len(Tail(s))
  BY <1>1, LenProperties, EmptySeq
<1>3. Head(s) = s[1]
  OBVIOUS
<1> QED
  BY <1>1, <1>2, <1>3

-----------------------------------------------------------------------------
(* The moves of the path. *)

(* What no user's call touches. *)
beneath == <<server, requests, connection, twoPhase, answers, worker, remote, failures, struck>>

Submits ==
    \E phase \in {"prepare", "infer"}, ep \in Nat, e \in Nat, d \in Nat :
        /\ connection # "none"
        /\ jobs' = Append(jobs, [phase |-> phase, episode |-> ep, epoch |-> e,
                                 inference |-> Len(future) + 1, delay |-> d, ticket |-> 0])
        /\ future' = Append(future, Waiting)
        /\ UNCHANGED <<beneath, activeEpoch, closed>>

Selects ==
    \E i \in DOMAIN future, e \in Nat :
        /\ future[i].state = "prepared"
        /\ jobs' = Append(jobs, [phase |-> "finish", episode |-> 1, epoch |-> e,
                                 inference |-> i, delay |-> Delay,
                                 ticket |-> future[i].prepared])
        /\ future' = [future EXCEPT ![i] = Waiting]
        /\ UNCHANGED <<beneath, activeEpoch, closed>>

BeginsEpoch ==
    /\ activeEpoch' \in Nat
    /\ UNCHANGED <<beneath, jobs, future, closed>>

UserMove == UNCHANGED pathVars \/ Submits \/ Selects \/ BeginsEpoch \/ CloseClient

(* Receive, by what the worker makes of the answer. *)
Took ==
    /\ worker.step = "receive"
    /\ answers # <<>>
    /\ answers' = Tail(answers)
    /\ UNCHANGED <<serverVars, connection, clientVars, jobs, failures, struck>>

TookBegin ==
    /\ Took /\ worker.op = "begin"
    /\ remote' = <<worker.job.episode, worker.job.epoch>>
    /\ worker' = [worker EXCEPT !.step = "send", !.op = "prepare"]
    /\ UNCHANGED future

TookCandidates ==
    /\ Took /\ worker.op = "prepare" /\ answers[1].op = "prepare" /\ worker.job.delay = 0
    /\ worker' = [step |-> "send", op |-> "finish",
                  job |-> [worker.job EXCEPT !.ticket = answers[1].prepared]]
    /\ UNCHANGED <<remote, future>>

TookPrepared ==
    /\ Took /\ worker.op = "prepare" /\ answers[1].op = "prepare" /\ worker.job.delay # 0
    /\ Settle(Prepared(answers[1].prepared)) /\ UNCHANGED remote

TookTicket ==
    /\ Took /\ worker.op \in {"finish", "infer"} /\ answers[1].op = worker.op
    /\ answers[1].inference = worker.job.inference
    /\ Settle(Ticket(answers[1].inference, answers[1].prepared)) /\ UNCHANGED remote

(* An inference fails. *)
GivesUp ==
    /\ worker.step # "idle"
    /\ Settle(Failed)
    /\ failures' \in Nat
    /\ \/ UNCHANGED answers
       \/ answers # <<>> /\ answers' = Tail(answers) /\ worker.step = "receive"
    /\ UNCHANGED <<serverVars, connection, clientVars, jobs, remote>>

ServerStarts ==
    /\ server' \in {"loading", "warming", "listening"}
    /\ UNCHANGED <<connection, requests, answers, clientVars, jobs, worker, remote, future,
                   failures, struck>>

(* The client's own Disconnect, and the one under a client left open. *)
Hangs ==
    /\ connection \in {"open", "broken"}
    /\ connection' = "closed"
    /\ requests' = <<>>
    /\ answers' = <<>>
    /\ UNCHANGED <<server, clientVars, jobs, worker, remote, future, failures, struck>>

Plain ==
    \/ ServerStarts \/ ServerDies \/ Answer \/ Refuse \/ Connect \/ Hangs
    \/ TakeJob \/ Send \/ GivesUp
    \/ TookBegin \/ TookCandidates \/ TookPrepared \/ TookTicket
    \/ UNCHANGED pathVars \/ Submits \/ BeginsEpoch \/ CloseClient

PathMove == Plain \/ Selects

(* A receive is one of these.                                              *)
LEMMA ReceiveMoves ==
    ASSUME PathTypeOK, WorkerInv, Receive
    PROVE  GivesUp \/ TookBegin \/ TookCandidates \/ TookPrepared \/ TookTicket
<1> DEFINE m == Head(answers)
<1>1. m = answers[1]
  BY Tailed DEF Receive, PathTypeOK
<1>2. CASE ~(m.op # "error" /\ Acceptable(m) /\ EpochHolds)
  <2>1. Settle(Failed) /\ UNCHANGED remote
    BY <1>2 DEF Receive
  <2>2. answers # <<>> /\ answers' = Tail(answers) /\ worker.step = "receive"
    BY DEF Receive
  <2>3. failures' \in Nat
    BY DEF Receive, PathTypeOK
  <2> QED
    BY <2>1, <2>2, <2>3 DEF Receive, GivesUp
<1>3. CASE m.op # "error" /\ Acceptable(m) /\ EpochHolds
  <2>1. Took /\ Proceed(m)
    BY <1>3 DEF Receive, Took
  <2>2. CASE worker.op = "begin"
    BY <2>1, <2>2 DEF Proceed, TookBegin
  <2>3. CASE worker.op = "prepare"
    <3>1. m.op = "prepare"
      BY <1>3, <2>3 DEF Acceptable
    <3>2. CASE worker.job.delay = 0
      <4>1. worker' = [step |-> "send", op |-> "finish",
                        job |-> [worker.job EXCEPT !.ticket = m.prepared]]
            /\ UNCHANGED <<remote, future>>
        BY <2>1, <2>3, <3>2 DEF Proceed
      <4> QED
        BY <1>1, <2>1, <2>3, <3>1, <3>2, <4>1 DEF TookCandidates
    <3>3. CASE worker.job.delay # 0
      <4>1. Settle(Prepared(m.prepared)) /\ UNCHANGED remote
        BY <2>1, <2>3, <3>3 DEF Proceed
      <4> QED
        BY <1>1, <2>1, <2>3, <3>1, <3>3, <4>1 DEF TookPrepared
    <3> QED
      BY <3>2, <3>3
  <2>4. CASE worker.op \notin {"begin", "prepare"}
    <3>1. worker.op \in {"finish", "infer"}
      BY <2>1, <2>4 DEF Took, WorkerInv, Works, Phases
    <3>2. m.op = worker.op /\ m.inference = worker.job.inference
      BY <1>3, <3>1 DEF Acceptable, Correlated, Decoded
    <3>3. Settle(Ticket(m.inference, m.prepared)) /\ UNCHANGED remote
      BY <2>1, <3>1 DEF Proceed
    <3> QED
      BY <1>1, <2>1, <3>1, <3>2, <3>3 DEF TookTicket
  <2> QED
    BY <2>2, <2>3, <2>4
<1> QED
  BY <1>2, <1>3

(* The Session's and the executor's steps move the path so.                *)
LEMMA ExpoMoves ==
    ASSUME TypeOK, PendingInv, ControlInv, UnconnectedInv, SessionNext \/ ExecutorNext
    PROVE  UserMove
<1> USE DEF pathVars, beneath, serverVars, clientVars
<1>1. CASE Prepare
  <2>1. epoch \in Nat
    BY DEF TypeOK, ExpoTypeOK
  <2>2. Submits
    BY <1>1, <2>1 DEF Prepare, Submitted, Submits
  <2> QED
    BY <2>2 DEF UserMove
<1>2. CASE ClearFinishing
  <2>1. epoch \in Nat
    BY DEF TypeOK, ExpoTypeOK
  <2> QED
    BY <1>2, <2>1 DEF ClearFinishing, BeginClientEpoch, BeginsEpoch, UserMove
<1>3. CASE Publish
  <2>1. /\ epoch \in Nat /\ connection # "none"
        /\ Delay \in Nat
    BY <1>3, PathAssumption DEF Publish, UnconnectedInv, TypeOK, ExpoTypeOK
  <2>2. UNCHANGED <<serverVars, connection, clientVars, answers, worker, remote, failures, struck>>
    BY <1>3 DEF Publish
  <2>3. Prefetch \/ Select \/ UNCHANGED <<jobs, future>>
    BY <1>3 DEF Publish
  <2>4. CASE Prefetch
    <3>1. CASE Len(queue) - 1 = Delay /\ CanSubmit(epoch)
      <4>1. /\ jobs' = Append(jobs, [phase |-> "prepare", episode |-> 1, epoch |-> epoch,
                                     inference |-> Len(future) + 1, delay |-> Delay,
                                     ticket |-> 0])
            /\ future' = Append(future, Waiting)
        BY <2>4, <3>1 DEF Prefetch, Submitted
      <4>2. Submits
        BY <2>1, <2>2, <4>1 DEF Submits
      <4> QED
        BY <4>2 DEF UserMove
    <3>2. CASE ~(Len(queue) - 1 = Delay /\ CanSubmit(epoch))
      BY <2>2, <2>4, <3>2 DEF Prefetch, UserMove
    <3> QED
      BY <3>1, <3>2
  <2>5. CASE Select
    <3>1. CASE PendingDone /\ future[pending.inference].state = "prepared" /\ CanSubmit(epoch)
      <4>1. pending.inference \in DOMAIN future
        BY <3>1 DEF PendingDone, PendingInv
      <4>2. Selects
        BY <2>1, <2>2, <2>5, <3>1, <4>1 DEF Select, Selects
      <4> QED
        BY <4>2 DEF UserMove
    <3>2. CASE ~(PendingDone /\ future[pending.inference].state = "prepared" /\ CanSubmit(epoch))
      BY <2>2, <2>5, <3>2 DEF Select, UserMove
    <3> QED
      BY <3>1, <3>2
  <2>6. CASE UNCHANGED <<jobs, future>>
    BY <2>2, <2>6 DEF UserMove
  <2> QED
    BY <2>3, <2>4, <2>5, <2>6
<1>4. CASE ExpoEnds
  BY <1>4 DEF ExpoEnds, UserMove
<1>5. CASE PolicyReady
  BY <1>5 DEF PolicyReady, UserMove
<1>6. CASE CloseGate
  BY <1>6 DEF CloseGate, UserMove
<1>7. CASE ClearPending
  BY <1>7 DEF ClearPending, UserMove
<1>8. CASE Begin
  BY <1>8 DEF Begin, UserMove
<1>9. CASE DeadlineMissed
  BY <1>9 DEF DeadlineMissed, UserMove
<1>10. CASE Accept
  BY <1>10 DEF Accept, UserMove
<1>11. CASE RejectWindow
  BY <1>11 DEF RejectWindow, UserMove
<1>12. CASE Splice
  BY <1>12 DEF Splice, UserMove
<1>13. CASE NotDue
  BY <1>13 DEF NotDue, UserMove
<1>14. CASE Exhausted
  BY <1>14 DEF Exhausted, UserMove
<1>15. CASE Fail
  BY <1>15 DEF Fail, UserMove
<1> QED
  BY <1>1, <1>2, <1>3, <1>4, <1>5, <1>6, <1>7, <1>8, <1>9, <1>10, <1>11, <1>12,
     <1>13, <1>14, <1>15
  DEF SessionNext, ExecutorNext

(* The Session's and the loops' steps move the path so.                    *)
LEMMA ShadowMoves ==
    ASSUME TypeOK, UnconnectedInv, HookNext \/ LoopNext
    PROVE  Plain
<1> USE DEF pathVars, beneath, serverVars, clientVars
<1>1. CASE StartLoop
  <2>1. UNCHANGED pathVars \/ BeginsEpoch
    BY <1>1 DEF StartLoop, Leave, BeginClientEpoch, BeginsEpoch, TypeOK, PathTypeOK
  <2> QED
    BY <2>1 DEF Plain
<1>2. CASE EndSession
  BY <1>2 DEF EndSession, Plain
<1>3. CASE StopLoop \/ LeaveSession \/ Joined \/ JoinRaises \/ Summarise
  BY <1>3 DEF StopLoop, LeaveSession, Joined, JoinRaises, Summarise, Plain
<1>4. ASSUME NEW ep \in 1..MaxEpisodes, LoopEnds(ep) \/ Record(ep)
      PROVE  Plain
  BY <1>4 DEF LoopEnds, Record, Plain
<1>5. ASSUME NEW ep \in 1..MaxEpisodes, Ask(ep)
      PROVE  Plain
  <2>1. connection # "none"
    BY <1>5 DEF Ask, UnconnectedInv, Turn, Ended
  <2>2. shadowEpisode \in Nat
    BY ShadowAssumption DEF TypeOK, ShadowTypeOK
  <2>3. Submits
    BY <1>5, <2>1, <2>2 DEF Ask, Submitted, Submits
  <2> QED
    BY <2>3 DEF Plain
<1>6. CASE HangUp
  BY <1>6 DEF HangUp, Hangs, Plain
<1> QED
  BY <1>1, <1>2, <1>3, <1>4, <1>5, <1>6 DEF HookNext, LoopNext

(* A step of the path, or of the shadow loop, leaves the scheduler alone.  *)
LEMMA PlainMoves ==
    ASSUME TypeOK, UnconnectedInv, WorkerInv, PathNext \/ HookNext \/ LoopNext
    PROVE  Plain
<1>1. CASE PathNext
  <2>1. CASE Hashed \/ Loaded \/ WarmedUp
    BY <2>1 DEF Hashed, Loaded, WarmedUp, ServerStep, ServerStarts, Plain
  <2>2. CASE SendRefused \/ NoObservation \/ ReceiveTimesOut
    BY <2>2 DEF SendRefused, NoObservation, ReceiveTimesOut, Strike, GivesUp, Plain,
       TypeOK, PathTypeOK, clientVars, serverVars
  <2>3. CASE Receive
    BY <2>3, ReceiveMoves DEF Plain, TypeOK
  <2>4. CASE Disconnect
    BY <2>4 DEF Disconnect, Hangs, Plain
  <2> QED
    BY <1>1, <2>1, <2>2, <2>3, <2>4 DEF PathNext, WorkerNext, Plain
<1> QED
  BY <1>1, ShadowMoves

(* Every step is a move of the path.                                       *)
LEMMA Moves ==
    ASSUME TypeOK, UnconnectedInv, WorkerInv, PendingInv, ControlInv, [Next]_vars
    PROVE  PathMove
<1>1. CASE SessionNext \/ ExecutorNext
  BY <1>1, ExpoMoves DEF PathMove, Plain, UserMove
<1>2. CASE PathNext \/ HookNext \/ LoopNext
  BY <1>2, PlainMoves DEF PathMove
<1>3. CASE UNCHANGED vars
  BY <1>3 DEF vars, PathMove, Plain
<1> QED
  BY <1>1, <1>2, <1>3 DEF Next

-----------------------------------------------------------------------------
(* The types of the path. *)

(* The worker's message and the job it takes.                              *)
LEMMA MessageType ==
    ASSUME PathTypeOK, WorkerInv, Works
    PROVE  Message \in Messages /\ worker.op \in Ops
<1>1. worker.op \in Ops
  BY DEF WorkerInv, Works, PathTypeOK, WorkerTypeOK, Phases, Ops
<1> QED
  BY <1>1 DEF Message, Messages, PathTypeOK, WorkerTypeOK, Jobs

(* A closed client's cancelled inferences.                                 *)
LEMMA CancelledType ==
    ASSUME PathTypeOK, CloseClient
    PROVE  future' \in Seq(Futures) /\ DOMAIN future' = DOMAIN future /\ Len(future') = Len(future)
<1>1. DOMAIN future = 1..Len(future) /\ Len(future) \in Nat
      /\ \A i \in DOMAIN future : future[i] \in Futures
  BY LenProperties, ElementOfSeq DEF PathTypeOK
<1>2. future' \in [1..Len(future) -> Futures]
  BY <1>1 DEF CloseClient, Cancelled, Futures
<1> QED
  BY <1>1, <1>2, FunctionIsSeq

(* The path keeps its types.                                               *)
LEMMA PathTypeStep ==
    ASSUME PathTypeOK, JobInv, WorkerInv, PathMove
    PROVE  PathTypeOK'
<1> USE DEF serverVars, clientVars, beneath
<1>1. CASE ServerStarts
  <2> QED
    BY <1>1 DEF ServerStarts, PathTypeOK, WorkerTypeOK
<1>2. CASE ServerDies
  <2> QED
    BY <1>2, EmptySeq DEF ServerDies, Strike, PathTypeOK, WorkerTypeOK
<1>3. CASE Answer
  <2>1. Head(requests) \in Messages /\ Tail(requests) \in Seq(Messages)
    BY <1>3, HeadTailProperties DEF Answer, PathTypeOK
  <2>2. Append(answers, Head(requests)) \in Seq(Messages)
    BY <2>1, Appended DEF PathTypeOK
  <2> QED
    BY <1>3, <2>1, <2>2 DEF Answer, PathTypeOK, WorkerTypeOK
<1>4. CASE Refuse
  <2>1. Head(requests) \in Messages
    BY <1>4, HeadTailProperties DEF Refuse, PathTypeOK
  <2>2. [Head(requests) EXCEPT !.op = "error"] \in Messages
    BY <2>1 DEF Messages
  <2>3. Append(answers, [Head(requests) EXCEPT !.op = "error"]) \in Seq(Messages)
    BY <2>2, Appended DEF PathTypeOK
  <2> QED
    BY <1>4, <2>3, EmptySeq DEF Refuse, Strike, PathTypeOK, WorkerTypeOK
<1>5. CASE Connect
  <2> QED
    BY <1>5 DEF Connect, PathTypeOK, WorkerTypeOK
<1>6. CASE Hangs
  <2> QED
    BY <1>6, EmptySeq DEF Hangs, PathTypeOK, WorkerTypeOK
<1>7. CASE TakeJob
  <2>1. Head(jobs) \in Jobs /\ Tail(jobs) \in Seq(Jobs)
    BY <1>7, HeadTailProperties DEF TakeJob, PathTypeOK
  <2>2. WorkerTypeOK'
    <3>1. Head(jobs).phase \in Phases
      BY <1>7, Tailed DEF TakeJob, JobInv, PathTypeOK
    <3> QED
      BY <1>7, <2>1, <3>1 DEF TakeJob, WorkerTypeOK, Phases, Ops
  <2> QED
    BY <1>7, <2>1, <2>2 DEF TakeJob, PathTypeOK
<1>8. CASE Send
  <2>1. Append(requests, Message) \in Seq(Messages)
    BY <1>8, MessageType, Appended DEF Send, Works, PathTypeOK
  <2>2. WorkerTypeOK'
    BY <1>8 DEF Send, PathTypeOK, WorkerTypeOK
  <2> QED
    BY <1>8, <2>1, <2>2 DEF Send, PathTypeOK
<1>9. CASE GivesUp
  <2>1. worker.job.inference \in DOMAIN future
    BY <1>9 DEF GivesUp, WorkerInv, Works, Took
  <2>2. Failed \in Futures
    BY <1>9 DEF Futures, Failed
  <2>3. future' \in Seq(Futures)
    BY <1>9, <2>1, <2>2, Replaced DEF GivesUp, Settle, PathTypeOK
  <2>4. worker' = Idle
    BY <1>9 DEF GivesUp, Settle
  <2>5. WorkerTypeOK'
    BY <2>4 DEF WorkerTypeOK, Idle, NoJob, Jobs
  <2>6. answers' \in Seq(Messages)
    BY <1>9, HeadTailProperties DEF GivesUp, PathTypeOK
  <2> QED
    BY <1>9, <2>3, <2>5, <2>6 DEF GivesUp, PathTypeOK
<1>10. CASE TookBegin
  <2>1. answers' \in Seq(Messages)
    BY <1>10, HeadTailProperties DEF TookBegin, Took, PathTypeOK
  <2>2. WorkerTypeOK'
    BY <1>10 DEF TookBegin, PathTypeOK, WorkerTypeOK, Ops
  <2>3. remote' \in Nat \X Nat
    BY <1>10 DEF TookBegin, PathTypeOK, WorkerTypeOK, Jobs
  <2> QED
    BY <1>10, <2>1, <2>2, <2>3 DEF TookBegin, Took, PathTypeOK
<1>11. CASE TookCandidates
  <2>1. answers' \in Seq(Messages) /\ answers[1] \in Messages
    BY <1>11, Tailed DEF TookCandidates, Took, PathTypeOK
  <2>2. WorkerTypeOK'
    BY <1>11, <2>1 DEF TookCandidates, PathTypeOK, WorkerTypeOK, Ops, Messages, Jobs
  <2> QED
    BY <1>11, <2>1, <2>2 DEF TookCandidates, Took, PathTypeOK
<1>12. CASE TookPrepared
  <2>0. answers' \in Seq(Messages) /\ answers[1] \in Messages
    BY <1>12, Tailed DEF TookPrepared, Took, PathTypeOK
  <2>1. worker.job.inference \in DOMAIN future
    BY <1>12 DEF TookPrepared, WorkerInv, Works, Took
  <2>2. Prepared(answers[1].prepared) \in Futures
    BY <1>12, <2>0 DEF Futures, Messages, Prepared
  <2>3. future' \in Seq(Futures)
    BY <1>12, <2>1, <2>2, Replaced DEF TookPrepared, Settle, PathTypeOK
  <2>4. worker' = Idle
    BY <1>12 DEF TookPrepared, Settle
  <2>5. WorkerTypeOK'
    BY <2>4 DEF WorkerTypeOK, Idle, NoJob, Jobs
  <2> QED
    BY <1>12, <2>0, <2>3, <2>5 DEF TookPrepared, Took, PathTypeOK
<1>13. CASE TookTicket
  <2>0. answers' \in Seq(Messages) /\ answers[1] \in Messages
    BY <1>13, Tailed DEF TookTicket, Took, PathTypeOK
  <2>1. worker.job.inference \in DOMAIN future
    BY <1>13 DEF TookTicket, WorkerInv, Works, Took
  <2>2. Ticket(answers[1].inference, answers[1].prepared) \in Futures
    BY <1>13, <2>0 DEF Futures, Messages, Ticket
  <2>3. future' \in Seq(Futures)
    BY <1>13, <2>1, <2>2, Replaced DEF TookTicket, Settle, PathTypeOK
  <2>4. worker' = Idle
    BY <1>13 DEF TookTicket, Settle
  <2>5. WorkerTypeOK'
    BY <2>4 DEF WorkerTypeOK, Idle, NoJob, Jobs
  <2> QED
    BY <1>13, <2>0, <2>3, <2>5 DEF TookTicket, Took, PathTypeOK
<1>14. CASE UNCHANGED pathVars
  <2> QED
    BY <1>14 DEF pathVars, PathTypeOK, WorkerTypeOK
<1>15. CASE Submits
  <2>1. PICK phase \in {"prepare", "infer"}, ep \in Nat, e \in Nat, d \in Nat :
            jobs' = Append(jobs, [phase |-> phase, episode |-> ep, epoch |-> e,
                                 inference |-> Len(future) + 1, delay |-> d, ticket |-> 0])
    BY <1>15 DEF Submits
  <2>2. Len(future) \in Nat
    BY LenProperties DEF PathTypeOK
  <2>3. jobs' \in Seq(Jobs)
    BY <2>1, <2>2, Appended DEF PathTypeOK, Jobs, Phases
  <2>4. future' \in Seq(Futures)
    BY <1>15, Appended DEF Submits, PathTypeOK, Futures, Waiting
  <2> QED
    BY <1>15, <2>3, <2>4 DEF Submits, PathTypeOK, WorkerTypeOK
<1>16. CASE Selects
  <2>1. PICK i \in DOMAIN future, e \in Nat :
            /\ jobs' = Append(jobs, [phase |-> "finish", episode |-> 1, epoch |-> e,
                                     inference |-> i, delay |-> Delay,
                                     ticket |-> future[i].prepared])
            /\ future' = [future EXCEPT ![i] = Waiting]
    BY <1>16 DEF Selects
  <2>2. i \in Nat /\ future[i] \in Futures
    BY LenProperties, ElementOfSeq DEF PathTypeOK
  <2>3. jobs' \in Seq(Jobs)
    BY <2>1, <2>2, Appended, PathAssumption DEF PathTypeOK, Jobs, Phases, Futures
  <2>4. future' \in Seq(Futures)
    BY <2>1, Replaced DEF PathTypeOK, Futures, Waiting
  <2> QED
    BY <1>16, <2>3, <2>4 DEF Selects, PathTypeOK, WorkerTypeOK
<1>17. CASE BeginsEpoch
  <2> QED
    BY <1>17 DEF BeginsEpoch, PathTypeOK, WorkerTypeOK
<1>18. CASE CloseClient
  <2> QED
    BY <1>18, CancelledType, EmptySeq DEF CloseClient, PathTypeOK, WorkerTypeOK
<1> QED
  BY <1>1, <1>2, <1>3, <1>4, <1>5, <1>6, <1>7, <1>8, <1>9, <1>10, <1>11, <1>12,
     <1>13, <1>14, <1>15, <1>16, <1>17, <1>18
  DEF PathMove, Plain

-----------------------------------------------------------------------------
(* The path's own part of the invariant. *)

(* Queued inferences are distinct and waited for.                          *)
LEMMA JobStep ==
    ASSUME PathTypeOK, JobInv, WorkerInv, PathMove
    PROVE  JobInv'
<1> USE DEF serverVars, clientVars, beneath, JobInv
<1>t. /\ \A i \in DOMAIN future : i \in Nat /\ i <= Len(future) /\ i # 0
      /\ Len(future) \in Nat /\ DOMAIN future = 1..Len(future)
      /\ future \in Seq(Futures) /\ jobs \in Seq(Jobs)
  BY LenProperties DEF PathTypeOK
<1>1. CASE ServerStarts
  BY <1>1 DEF ServerStarts
<1>2. CASE ServerDies
  BY <1>2 DEF ServerDies
<1>3. CASE Answer
  BY <1>3 DEF Answer
<1>4. CASE Refuse
  BY <1>4 DEF Refuse
<1>5. CASE Connect
  BY <1>5 DEF Connect
<1>6. CASE Hangs
  BY <1>6 DEF Hangs
<1>7. CASE TakeJob
  <2>1. /\ worker = Idle /\ jobs # <<>> /\ jobs' = Tail(jobs)
        /\ worker'.step = "send" /\ worker'.job = jobs[1]
        /\ worker'.op = jobs[1].phase \/ (worker'.op = "begin" /\ jobs[1].phase = "prepare")
        /\ UNCHANGED <<future, requests, answers, connection>>
    BY <1>t, <1>7, Tailed DEF TakeJob
  <2>2. /\ 1 \in DOMAIN jobs
        /\ \A k \in DOMAIN jobs' :
              k \in Nat /\ k + 1 # 1 /\ k + 1 \in DOMAIN jobs /\ jobs'[k] = jobs[k + 1]
    BY <1>t, <2>1, Tailed
  <2> QED
    BY <2>1, <2>2
    DEF JobInv
<1>8. CASE Send
  BY <1>8 DEF Send
<1>9. CASE GivesUp
  <2>1. /\ worker.job.inference \in DOMAIN future
        /\ Works /\ worker' = Idle /\ jobs' = jobs
        /\ future' = [future EXCEPT ![worker.job.inference] = Failed]
    BY <1>9 DEF GivesUp, Took, WorkerInv, Works, Settle
  <2>2. Failed \in Futures
    BY <1>t, <2>1 DEF Futures, Failed
  <2>3. DOMAIN future' = DOMAIN future
    BY <1>t, <2>1, <2>2, Replaced
  <2> QED
    BY <1>t, <2>1, <2>2, <2>3
    DEF JobInv, WorkerInv
<1>10. CASE TookBegin
  BY <1>10 DEF TookBegin, Took
<1>11. CASE TookCandidates
  BY <1>11 DEF TookCandidates, Took
<1>12. CASE TookPrepared
  <2>1. /\ worker.job.inference \in DOMAIN future
        /\ Works /\ worker' = Idle /\ jobs' = jobs
        /\ future' = [future EXCEPT ![worker.job.inference] = Prepared(answers[1].prepared)]
    BY <1>12 DEF TookPrepared, Took, WorkerInv, Works, Settle
  <2>0. answers[1] \in Messages
    BY <1>12, Tailed DEF TookPrepared, Took, PathTypeOK
  <2>2. Prepared(answers[1].prepared) \in Futures
    BY <1>t, <2>1, <2>0 DEF Futures, Prepared, Messages
  <2>3. DOMAIN future' = DOMAIN future
    BY <1>t, <2>1, <2>2, Replaced
  <2> QED
    BY <1>t, <2>1, <2>2, <2>3
    DEF JobInv, WorkerInv
<1>13. CASE TookTicket
  <2>1. /\ worker.job.inference \in DOMAIN future
        /\ Works /\ worker' = Idle /\ jobs' = jobs
        /\ future' = [future EXCEPT ![worker.job.inference] = Ticket(answers[1].inference, answers[1].prepared)]
    BY <1>13 DEF TookTicket, Took, WorkerInv, Works, Settle
  <2>0. answers[1] \in Messages
    BY <1>13, Tailed DEF TookTicket, Took, PathTypeOK
  <2>2. Ticket(answers[1].inference, answers[1].prepared) \in Futures
    BY <1>t, <2>1, <2>0 DEF Futures, Ticket, Messages
  <2>3. DOMAIN future' = DOMAIN future
    BY <1>t, <2>1, <2>2, Replaced
  <2> QED
    BY <1>t, <2>1, <2>2, <2>3
    DEF JobInv, WorkerInv
<1>14. CASE UNCHANGED pathVars
  BY <1>14 DEF pathVars
<1>15. CASE Submits
  <2>1. PICK phase \in {"prepare", "infer"}, ep \in Nat, e \in Nat, d \in Nat :
            jobs' = Append(jobs, [phase |-> phase, episode |-> ep, epoch |-> e,
                                 inference |-> Len(future) + 1, delay |-> d, ticket |-> 0])
    BY <1>15 DEF Submits
  <2>2. /\ DOMAIN future' = 1..Len(future) + 1
        /\ \A k \in DOMAIN future : k \in DOMAIN future' /\ future'[k] = future[k]
        /\ future'[Len(future) + 1] = Waiting
    <3>1. future' = Append(future, Waiting) /\ Waiting \in Futures
      BY <1>15 DEF Submits, Waiting, Futures
    <3> QED
      BY <1>t, <3>1, Appended
  <2>3. /\ \A k \in DOMAIN jobs : k \in DOMAIN jobs' /\ jobs'[k] = jobs[k]
        /\ \A k \in DOMAIN jobs' :
              k \in DOMAIN jobs \/ (/\ k = Len(jobs) + 1
                                    /\ jobs'[k].inference = Len(future) + 1
                                    /\ jobs'[k].phase = phase)
    <3> DEFINE job == [phase |-> phase, episode |-> ep, epoch |-> e,
                       inference |-> Len(future) + 1, delay |-> d, ticket |-> 0]
    <3>1. job \in Jobs
      BY <1>t DEF Jobs, Phases
    <3>2. job.inference = Len(future) + 1 /\ job.phase = phase
      OBVIOUS
    <3> HIDE DEF job
    <3>3. jobs' = Append(jobs, job)
      BY <2>1 DEF job
    <3> QED
      BY <1>t, <3>1, <3>2, <3>3, Appended
  <2>4. Len(jobs) + 1 \notin DOMAIN jobs
    BY <1>t, LenProperties
  <2>5. \A k \in DOMAIN jobs : jobs[k].inference # Len(future) + 1
    BY <1>t DEF JobInv
  <2>6. \A k \in DOMAIN jobs' :
            /\ jobs'[k].inference \in DOMAIN future'
            /\ future'[jobs'[k].inference] = Waiting
            /\ jobs'[k].phase \in Phases
    BY <1>t, <2>1, <2>2, <2>3 DEF JobInv, Phases
  <2>7. \A k, l \in DOMAIN jobs' : k # l => jobs'[k].inference # jobs'[l].inference
    BY <2>3, <2>5 DEF JobInv
  <2> QED
    BY <2>6, <2>7
    DEF JobInv
<1>16. CASE Selects
  <2>1. PICK i \in DOMAIN future, e \in Nat :
            /\ future[i].state = "prepared"
            /\ jobs' = Append(jobs, [phase |-> "finish", episode |-> 1, epoch |-> e,
                                     inference |-> i, delay |-> Delay,
                                     ticket |-> future[i].prepared])
            /\ future' = [future EXCEPT ![i] = Waiting]
    BY <1>16 DEF Selects
  <2>2. /\ DOMAIN future' = DOMAIN future /\ future'[i] = Waiting
        /\ \A k \in DOMAIN future : k # i => future'[k] = future[k]
    BY <1>t, <2>1, Replaced DEF Waiting, Futures
  <2>3. /\ \A k \in DOMAIN jobs : k \in DOMAIN jobs' /\ jobs'[k] = jobs[k]
        /\ \A k \in DOMAIN jobs' :
              k \in DOMAIN jobs \/ (/\ k = Len(jobs) + 1 /\ jobs'[k].inference = i
                                    /\ jobs'[k].phase = "finish"
                                    /\ jobs'[k].ticket = future[i].prepared)
    <3> DEFINE job == [phase |-> "finish", episode |-> 1, epoch |-> e, inference |-> i,
                       delay |-> Delay, ticket |-> future[i].prepared]
    <3>0. future[i] \in Futures /\ i \in Nat
      BY <1>t, ElementOfSeq
    <3>1. job \in Jobs
      BY <1>t, <3>0, PathAssumption DEF Jobs, Phases, Futures
    <3>2. job.inference = i /\ job.phase = "finish" /\ job.ticket = future[i].prepared
      OBVIOUS
    <3> HIDE DEF job
    <3>3. jobs' = Append(jobs, job)
      BY <2>1 DEF job
    <3> QED
      BY <1>t, <3>1, <3>2, <3>3, Appended
  <2>4. Len(jobs) + 1 \notin DOMAIN jobs
    BY <1>t, LenProperties
  <2>5. \A k \in DOMAIN jobs : jobs[k].inference # i
    BY <2>1 DEF JobInv, Waiting
  <2> QED
    BY <1>t, <2>2, <2>3, <2>4, <2>5
    DEF JobInv, Phases
<1>17. CASE BeginsEpoch
  BY <1>17 DEF BeginsEpoch
<1>18. CASE CloseClient
  <2>1. DOMAIN future' = DOMAIN future
    BY <1>18, CancelledType
  <2>2. /\ \A i \in DOMAIN future :
              \/ future'[i] = future[i]
              \/ future'[i] = Cancelled /\ \E k \in DOMAIN jobs : jobs[k].inference = i
        /\ jobs' = <<>>
        /\ UNCHANGED <<worker, requests, answers, connection>>
    BY <1>18, <2>1 DEF CloseClient, serverVars
  <2> QED
    BY <2>2, EmptySeq
    DEF JobInv
<1> QED
  BY <1>1, <1>2, <1>3, <1>4, <1>5, <1>6, <1>7, <1>8, <1>9, <1>10, <1>11, <1>12,
     <1>13, <1>14, <1>15, <1>16, <1>17, <1>18
  DEF PathMove, Plain

(* The worker's inference is waited for, and in no other place.            *)
LEMMA WorkerStep ==
    ASSUME PathTypeOK, JobInv, WorkerInv, PathMove
    PROVE  WorkerInv'
<1> USE DEF serverVars, clientVars, beneath, WorkerInv, Works
<1>t. /\ \A i \in DOMAIN future : i \in Nat /\ i <= Len(future) /\ i # 0
      /\ Len(future) \in Nat /\ DOMAIN future = 1..Len(future)
      /\ future \in Seq(Futures) /\ jobs \in Seq(Jobs)
  BY LenProperties DEF PathTypeOK
<1>1. CASE ServerStarts
  BY <1>1 DEF ServerStarts
<1>2. CASE ServerDies
  BY <1>2 DEF ServerDies
<1>3. CASE Answer
  BY <1>3 DEF Answer
<1>4. CASE Refuse
  BY <1>4 DEF Refuse
<1>5. CASE Connect
  BY <1>5 DEF Connect
<1>6. CASE Hangs
  BY <1>6 DEF Hangs
<1>7. CASE TakeJob
  <2>1. /\ worker = Idle /\ jobs # <<>> /\ jobs' = Tail(jobs)
        /\ worker'.step = "send" /\ worker'.job = jobs[1]
        /\ worker'.op = jobs[1].phase \/ (worker'.op = "begin" /\ jobs[1].phase = "prepare")
        /\ UNCHANGED <<future, requests, answers, connection>>
    BY <1>t, <1>7, Tailed DEF TakeJob
  <2>2. /\ 1 \in DOMAIN jobs
        /\ \A k \in DOMAIN jobs' :
              k \in Nat /\ k + 1 # 1 /\ k + 1 \in DOMAIN jobs /\ jobs'[k] = jobs[k + 1]
    BY <1>t, <2>1, Tailed
  <2> QED
    BY <2>1, <2>2
    DEF JobInv, WorkerInv, Works
<1>8. CASE Send
  <2>1. /\ worker.step = "send" /\ worker'.step = "receive"
        /\ worker'.op = worker.op /\ worker'.job = worker.job /\ UNCHANGED <<future, jobs>>
    BY <1>8 DEF Send, PathTypeOK, WorkerTypeOK
  <2> QED
    BY <2>1
    DEF WorkerInv, Works
<1>9. CASE GivesUp
  <2>1. /\ worker.job.inference \in DOMAIN future
        /\ Works /\ worker' = Idle /\ jobs' = jobs
        /\ future' = [future EXCEPT ![worker.job.inference] = Failed]
    BY <1>9 DEF GivesUp, Took, WorkerInv, Works, Settle
  <2>2. Failed \in Futures
    BY <1>t, <2>1 DEF Futures, Failed
  <2>3. DOMAIN future' = DOMAIN future
    BY <1>t, <2>1, <2>2, Replaced
  <2> QED
    BY <2>1
    DEF WorkerInv, Works, Idle
<1>10. CASE TookBegin
  <2>1. /\ worker'.step = "send" /\ worker'.op = "prepare" /\ worker'.job = worker.job
        /\ UNCHANGED <<future, jobs>>
    BY <1>10 DEF TookBegin, Took, PathTypeOK, WorkerTypeOK
  <2> QED
    BY <1>10, <2>1
    DEF TookBegin, Took, WorkerInv, Works, Phases
<1>11. CASE TookCandidates
  <2>1. /\ worker'.step = "send" /\ worker'.op = "finish"
        /\ worker'.job.inference = worker.job.inference
        /\ worker'.job.phase = worker.job.phase /\ worker'.job.delay = worker.job.delay
        /\ UNCHANGED <<future, jobs>>
    BY <1>11 DEF TookCandidates, Took, PathTypeOK, WorkerTypeOK, Jobs
  <2> QED
    BY <1>11, <2>1
    DEF TookCandidates, Took, WorkerInv, Works
<1>12. CASE TookPrepared
  <2>1. /\ worker.job.inference \in DOMAIN future
        /\ Works /\ worker' = Idle /\ jobs' = jobs
        /\ future' = [future EXCEPT ![worker.job.inference] = Prepared(answers[1].prepared)]
    BY <1>12 DEF TookPrepared, Took, WorkerInv, Works, Settle
  <2>0. answers[1] \in Messages
    BY <1>12, Tailed DEF TookPrepared, Took, PathTypeOK
  <2>2. Prepared(answers[1].prepared) \in Futures
    BY <1>t, <2>1, <2>0 DEF Futures, Prepared, Messages
  <2>3. DOMAIN future' = DOMAIN future
    BY <1>t, <2>1, <2>2, Replaced
  <2> QED
    BY <2>1
    DEF WorkerInv, Works, Idle
<1>13. CASE TookTicket
  <2>1. /\ worker.job.inference \in DOMAIN future
        /\ Works /\ worker' = Idle /\ jobs' = jobs
        /\ future' = [future EXCEPT ![worker.job.inference] = Ticket(answers[1].inference, answers[1].prepared)]
    BY <1>13 DEF TookTicket, Took, WorkerInv, Works, Settle
  <2>0. answers[1] \in Messages
    BY <1>13, Tailed DEF TookTicket, Took, PathTypeOK
  <2>2. Ticket(answers[1].inference, answers[1].prepared) \in Futures
    BY <1>t, <2>1, <2>0 DEF Futures, Ticket, Messages
  <2>3. DOMAIN future' = DOMAIN future
    BY <1>t, <2>1, <2>2, Replaced
  <2> QED
    BY <2>1
    DEF WorkerInv, Works, Idle
<1>14. CASE UNCHANGED pathVars
  BY <1>14 DEF pathVars
<1>15. CASE Submits
  <2>1. PICK phase \in {"prepare", "infer"}, ep \in Nat, e \in Nat, d \in Nat :
            jobs' = Append(jobs, [phase |-> phase, episode |-> ep, epoch |-> e,
                                 inference |-> Len(future) + 1, delay |-> d, ticket |-> 0])
    BY <1>15 DEF Submits
  <2>2. /\ DOMAIN future' = 1..Len(future) + 1
        /\ \A k \in DOMAIN future : k \in DOMAIN future' /\ future'[k] = future[k]
        /\ future'[Len(future) + 1] = Waiting
    <3>1. future' = Append(future, Waiting) /\ Waiting \in Futures
      BY <1>15 DEF Submits, Waiting, Futures
    <3> QED
      BY <1>t, <3>1, Appended
  <2>3. /\ \A k \in DOMAIN jobs : k \in DOMAIN jobs' /\ jobs'[k] = jobs[k]
        /\ \A k \in DOMAIN jobs' :
              k \in DOMAIN jobs \/ (/\ k = Len(jobs) + 1
                                    /\ jobs'[k].inference = Len(future) + 1
                                    /\ jobs'[k].phase = phase)
    <3> DEFINE job == [phase |-> phase, episode |-> ep, epoch |-> e,
                       inference |-> Len(future) + 1, delay |-> d, ticket |-> 0]
    <3>1. job \in Jobs
      BY <1>t DEF Jobs, Phases
    <3>2. job.inference = Len(future) + 1 /\ job.phase = phase
      OBVIOUS
    <3> HIDE DEF job
    <3>3. jobs' = Append(jobs, job)
      BY <2>1 DEF job
    <3> QED
      BY <1>t, <3>1, <3>2, <3>3, Appended
  <2> QED
    BY <1>15, <1>t, <2>1, <2>2, <2>3
    DEF Submits, WorkerInv, Works
<1>16. CASE Selects
  <2>1. PICK i \in DOMAIN future, e \in Nat :
            /\ future[i].state = "prepared"
            /\ jobs' = Append(jobs, [phase |-> "finish", episode |-> 1, epoch |-> e,
                                     inference |-> i, delay |-> Delay,
                                     ticket |-> future[i].prepared])
            /\ future' = [future EXCEPT ![i] = Waiting]
    BY <1>16 DEF Selects
  <2>2. /\ DOMAIN future' = DOMAIN future /\ future'[i] = Waiting
        /\ \A k \in DOMAIN future : k # i => future'[k] = future[k]
    BY <1>t, <2>1, Replaced DEF Waiting, Futures
  <2>3. /\ \A k \in DOMAIN jobs : k \in DOMAIN jobs' /\ jobs'[k] = jobs[k]
        /\ \A k \in DOMAIN jobs' :
              k \in DOMAIN jobs \/ (/\ k = Len(jobs) + 1 /\ jobs'[k].inference = i
                                    /\ jobs'[k].phase = "finish"
                                    /\ jobs'[k].ticket = future[i].prepared)
    <3> DEFINE job == [phase |-> "finish", episode |-> 1, epoch |-> e, inference |-> i,
                       delay |-> Delay, ticket |-> future[i].prepared]
    <3>0. future[i] \in Futures /\ i \in Nat
      BY <1>t, ElementOfSeq
    <3>1. job \in Jobs
      BY <1>t, <3>0, PathAssumption DEF Jobs, Phases, Futures
    <3>2. job.inference = i /\ job.phase = "finish" /\ job.ticket = future[i].prepared
      OBVIOUS
    <3> HIDE DEF job
    <3>3. jobs' = Append(jobs, job)
      BY <2>1 DEF job
    <3> QED
      BY <1>t, <3>1, <3>2, <3>3, Appended
  <2>4. Works => worker.job.inference # i
    BY <2>1 DEF WorkerInv, Waiting
  <2> QED
    BY <1>16, <1>t, <2>2, <2>3, <2>4
    DEF Selects, WorkerInv, Works
<1>17. CASE BeginsEpoch
  BY <1>17 DEF BeginsEpoch
<1>18. CASE CloseClient
  <2>1. DOMAIN future' = DOMAIN future
    BY <1>18, CancelledType
  <2>2. /\ \A i \in DOMAIN future :
              \/ future'[i] = future[i]
              \/ future'[i] = Cancelled /\ \E k \in DOMAIN jobs : jobs[k].inference = i
        /\ jobs' = <<>>
        /\ UNCHANGED <<worker, requests, answers, connection>>
    BY <1>18, <2>1 DEF CloseClient, serverVars
  <2> QED
    BY <1>t, <2>1, <2>2, EmptySeq
    DEF WorkerInv, Works
<1> QED
  BY <1>1, <1>2, <1>3, <1>4, <1>5, <1>6, <1>7, <1>8, <1>9, <1>10, <1>11, <1>12,
     <1>13, <1>14, <1>15, <1>16, <1>17, <1>18
  DEF PathMove, Plain

(* What was true of a message stays true.                                  *)
LEMMA SoundStep ==
    ASSUME PathTypeOK, JobInv, WorkerInv, PathMove
    PROVE  \A m \in Messages : Sound(m) => Sound(m)'
<1> USE DEF serverVars, clientVars, beneath, Sound, Works
<1>t. /\ \A i \in DOMAIN future : i \in Nat /\ i <= Len(future) /\ i # 0
      /\ Len(future) \in Nat /\ DOMAIN future = 1..Len(future)
      /\ future \in Seq(Futures) /\ jobs \in Seq(Jobs)
  BY LenProperties DEF PathTypeOK
<1>1. CASE ServerStarts
  BY <1>1 DEF ServerStarts
<1>2. CASE ServerDies
  BY <1>2 DEF ServerDies
<1>3. CASE Answer
  BY <1>3 DEF Answer
<1>4. CASE Refuse
  BY <1>4 DEF Refuse
<1>5. CASE Connect
  BY <1>5 DEF Connect
<1>6. CASE Hangs
  BY <1>6 DEF Hangs
<1>7. CASE TakeJob
  <2>1. /\ worker = Idle /\ jobs # <<>> /\ jobs' = Tail(jobs)
        /\ worker'.step = "send" /\ worker'.job = jobs[1]
        /\ worker'.op = jobs[1].phase \/ (worker'.op = "begin" /\ jobs[1].phase = "prepare")
        /\ UNCHANGED <<future, requests, answers, connection>>
    BY <1>t, <1>7, Tailed DEF TakeJob
  <2>2. /\ 1 \in DOMAIN jobs
        /\ \A k \in DOMAIN jobs' :
              k \in Nat /\ k + 1 # 1 /\ k + 1 \in DOMAIN jobs /\ jobs'[k] = jobs[k + 1]
    BY <1>t, <2>1, Tailed
  <2> QED
    BY <2>1, <2>2
    DEF Sound, Works, WorkerInv
<1>8. CASE Send
  <2>1. /\ worker.step = "send" /\ worker'.step = "receive" /\ connection = "open"
        /\ worker'.op = worker.op /\ worker'.job = worker.job
        /\ UNCHANGED <<future, jobs, answers, connection>>
    BY <1>8 DEF Send, PathTypeOK, WorkerTypeOK
  <2>2. /\ requests' = Append(requests, Message)
        /\ Message \in Messages
    BY <1>8, <2>1, MessageType DEF Send, Works
  <2> QED
    BY <2>1
    DEF Sound, Works
<1>9. CASE GivesUp
  <2>1. /\ worker.job.inference \in DOMAIN future
        /\ Works /\ worker' = Idle /\ jobs' = jobs
        /\ future' = [future EXCEPT ![worker.job.inference] = Failed]
    BY <1>9 DEF GivesUp, Took, WorkerInv, Works, Settle
  <2>2. Failed \in Futures
    BY <1>t, <2>1 DEF Futures, Failed
  <2>3. DOMAIN future' = DOMAIN future
    BY <1>t, <2>1, <2>2, Replaced
  <2> QED
    BY <1>t, <2>1, <2>3
    DEF Sound, Works, Idle, Failed
<1>10. CASE TookBegin
  <2>1. /\ worker'.step = "send" /\ worker'.op = "prepare" /\ worker'.job = worker.job
        /\ worker.op = "begin" /\ worker.step = "receive"
        /\ UNCHANGED <<future, jobs>>
    BY <1>10 DEF TookBegin, Took, PathTypeOK, WorkerTypeOK
  <2> QED
    BY <2>1
    DEF Sound, Works
<1>11. CASE TookCandidates
  <2>1. /\ worker'.step = "send" /\ worker'.op = "finish"
        /\ worker.op = "prepare" /\ worker.step = "receive"
        /\ worker'.job.inference = worker.job.inference
        /\ UNCHANGED <<future, jobs>>
    BY <1>11 DEF TookCandidates, Took, PathTypeOK, WorkerTypeOK, Jobs
  <2> QED
    BY <2>1
    DEF Sound, Works
<1>12. CASE TookPrepared
  <2>1. /\ worker.job.inference \in DOMAIN future
        /\ Works /\ worker' = Idle /\ jobs' = jobs
        /\ future' = [future EXCEPT ![worker.job.inference] = Prepared(answers[1].prepared)]
    BY <1>12 DEF TookPrepared, Took, WorkerInv, Works, Settle
  <2>0. answers[1] \in Messages
    BY <1>12, Tailed DEF TookPrepared, Took, PathTypeOK
  <2>2. Prepared(answers[1].prepared) \in Futures
    BY <1>t, <2>1, <2>0 DEF Futures, Prepared, Messages
  <2>3. DOMAIN future' = DOMAIN future
    BY <1>t, <2>1, <2>2, Replaced
  <2> QED
    BY <1>12, <1>t, <2>1, <2>3
    DEF Sound, Works, Idle, TookPrepared, Took
<1>13. CASE TookTicket
  <2>1. /\ worker.job.inference \in DOMAIN future
        /\ Works /\ worker' = Idle /\ jobs' = jobs
        /\ future' = [future EXCEPT ![worker.job.inference] = Ticket(answers[1].inference, answers[1].prepared)]
    BY <1>13 DEF TookTicket, Took, WorkerInv, Works, Settle
  <2>0. answers[1] \in Messages
    BY <1>13, Tailed DEF TookTicket, Took, PathTypeOK
  <2>2. Ticket(answers[1].inference, answers[1].prepared) \in Futures
    BY <1>t, <2>1, <2>0 DEF Futures, Ticket, Messages
  <2>3. DOMAIN future' = DOMAIN future
    BY <1>t, <2>1, <2>2, Replaced
  <2> QED
    BY <1>t, <2>1, <2>3
    DEF Sound, Works, Idle, Ticket
<1>14. CASE UNCHANGED pathVars
  BY <1>14 DEF pathVars
<1>15. CASE Submits
  <2>1. PICK phase \in {"prepare", "infer"}, ep \in Nat, e \in Nat, d \in Nat :
            jobs' = Append(jobs, [phase |-> phase, episode |-> ep, epoch |-> e,
                                 inference |-> Len(future) + 1, delay |-> d, ticket |-> 0])
    BY <1>15 DEF Submits
  <2>2. /\ DOMAIN future' = 1..Len(future) + 1
        /\ \A k \in DOMAIN future : k \in DOMAIN future' /\ future'[k] = future[k]
        /\ future'[Len(future) + 1] = Waiting
    <3>1. future' = Append(future, Waiting) /\ Waiting \in Futures
      BY <1>15 DEF Submits, Waiting, Futures
    <3> QED
      BY <1>t, <3>1, Appended
  <2>3. /\ \A k \in DOMAIN jobs : k \in DOMAIN jobs' /\ jobs'[k] = jobs[k]
        /\ \A k \in DOMAIN jobs' :
              k \in DOMAIN jobs \/ (/\ k = Len(jobs) + 1
                                    /\ jobs'[k].inference = Len(future) + 1
                                    /\ jobs'[k].phase = phase)
    <3> DEFINE job == [phase |-> phase, episode |-> ep, epoch |-> e,
                       inference |-> Len(future) + 1, delay |-> d, ticket |-> 0]
    <3>1. job \in Jobs
      BY <1>t DEF Jobs, Phases
    <3>2. job.inference = Len(future) + 1 /\ job.phase = phase
      OBVIOUS
    <3> HIDE DEF job
    <3>3. jobs' = Append(jobs, job)
      BY <2>1 DEF job
    <3> QED
      BY <1>t, <3>1, <3>2, <3>3, Appended
  <2>4. worker' = worker
    BY <1>15 DEF Submits
  <2> QED
    BY <1>t, <2>2, <2>3, <2>4
    DEF Sound, Works
<1>16. CASE Selects
  <2>1. PICK i \in DOMAIN future, e \in Nat :
            /\ future[i].state = "prepared"
            /\ jobs' = Append(jobs, [phase |-> "finish", episode |-> 1, epoch |-> e,
                                     inference |-> i, delay |-> Delay,
                                     ticket |-> future[i].prepared])
            /\ future' = [future EXCEPT ![i] = Waiting]
    BY <1>16 DEF Selects
  <2>2. /\ DOMAIN future' = DOMAIN future /\ future'[i] = Waiting
        /\ \A k \in DOMAIN future : k # i => future'[k] = future[k]
    BY <1>t, <2>1, Replaced DEF Waiting, Futures
  <2>3. /\ \A k \in DOMAIN jobs : k \in DOMAIN jobs' /\ jobs'[k] = jobs[k]
        /\ \A k \in DOMAIN jobs' :
              k \in DOMAIN jobs \/ (/\ k = Len(jobs) + 1 /\ jobs'[k].inference = i
                                    /\ jobs'[k].phase = "finish"
                                    /\ jobs'[k].ticket = future[i].prepared)
    <3> DEFINE job == [phase |-> "finish", episode |-> 1, epoch |-> e, inference |-> i,
                       delay |-> Delay, ticket |-> future[i].prepared]
    <3>0. future[i] \in Futures /\ i \in Nat
      BY <1>t, ElementOfSeq
    <3>1. job \in Jobs
      BY <1>t, <3>0, PathAssumption DEF Jobs, Phases, Futures
    <3>2. job.inference = i /\ job.phase = "finish" /\ job.ticket = future[i].prepared
      OBVIOUS
    <3> HIDE DEF job
    <3>3. jobs' = Append(jobs, job)
      BY <2>1 DEF job
    <3> QED
      BY <1>t, <3>1, <3>2, <3>3, Appended
  <2>4. worker' = worker
    BY <1>16 DEF Selects
  <2>5. \A m \in Messages : Sound(m) /\ m.op = "finish" => m.inference # i
    BY <2>1 DEF Sound
  <2>6. ASSUME NEW m \in Messages, Sound(m)
        PROVE  Sound(m)'
    BY <1>t, <2>2, <2>3, <2>4, <2>5, <2>6 DEF Sound, Works
  <2> QED
    BY <2>6
<1>17. CASE BeginsEpoch
  BY <1>17 DEF BeginsEpoch
<1>18. CASE CloseClient
  <2>1. DOMAIN future' = DOMAIN future
    BY <1>18, CancelledType
  <2>2. /\ \A i \in DOMAIN future :
              \/ future'[i] = future[i]
              \/ future'[i] = Cancelled /\ \E k \in DOMAIN jobs : jobs[k].inference = i
        /\ jobs' = <<>>
        /\ UNCHANGED <<worker, requests, answers, connection>>
    BY <1>18, <2>1 DEF CloseClient, serverVars
  <2> QED
    BY <1>t, <2>1, <2>2, EmptySeq
    DEF Sound, Works, Cancelled
<1> QED
  BY <1>1, <1>2, <1>3, <1>4, <1>5, <1>6, <1>7, <1>8, <1>9, <1>10, <1>11, <1>12,
     <1>13, <1>14, <1>15, <1>16, <1>17, <1>18
  DEF PathMove, Plain

(* Every message on the connection is one that was there, or the last of   *)
(* the requests, or the last answer, which the server took from them.      *)
LEMMA WireMoves ==
    ASSUME PathTypeOK, JobInv, WorkerInv, PathMove
    PROVE  /\ \A k \in DOMAIN requests' :
                  \/ \E l \in DOMAIN requests : requests'[k] = requests[l]
                  \/ Works /\ worker.step = "send" /\ Send /\ requests'[k] = Message
           /\ \A k \in DOMAIN answers' :
                  \/ \E l \in DOMAIN answers : answers'[k] = answers[l]
                  \/ \E l \in DOMAIN requests :
                        \/ answers'[k] = requests[l]
                        \/ answers'[k] = [requests[l] EXCEPT !.op = "error"]
<1> USE DEF serverVars, clientVars, beneath
<1>t. /\ requests \in Seq(Messages) /\ answers \in Seq(Messages)
      /\ DOMAIN requests = 1..Len(requests) /\ DOMAIN answers = 1..Len(answers)
  BY LenProperties DEF PathTypeOK
<1>e. DOMAIN <<>> = {}
  OBVIOUS
<1>1. CASE ServerStarts
  BY <1>1 DEF ServerStarts
<1>2. CASE ServerDies
  BY <1>e, <1>2 DEF ServerDies
<1>3. CASE Answer
  <2>1. /\ requests # <<>> /\ requests' = Tail(requests)
        /\ answers' = Append(answers, requests[1]) /\ requests[1] \in Messages
        /\ 1 \in DOMAIN requests
    BY <1>t, <1>3, Tailed DEF Answer
  <2>2. \A k \in DOMAIN requests' : \E l \in DOMAIN requests : requests'[k] = requests[l]
    BY <1>t, <2>1, Tailed
  <2>3. \A k \in DOMAIN answers' :
            (\E l \in DOMAIN answers : answers'[k] = answers[l]) \/ answers'[k] = requests[1]
    BY <1>t, <2>1, Appended
  <2> QED
    BY <2>1, <2>2, <2>3
<1>4. CASE Refuse
  <2>1. /\ requests # <<>> /\ requests' = <<>>
        /\ answers' = Append(answers, [requests[1] EXCEPT !.op = "error"])
        /\ 1 \in DOMAIN requests /\ requests[1] \in Messages
    BY <1>t, <1>4, Tailed DEF Refuse
  <2>2. [requests[1] EXCEPT !.op = "error"] \in Messages
    BY <2>1 DEF Messages
  <2>3. \A k \in DOMAIN answers' :
            \/ \E l \in DOMAIN answers : answers'[k] = answers[l]
            \/ answers'[k] = [requests[1] EXCEPT !.op = "error"]
    <3> DEFINE m == [requests[1] EXCEPT !.op = "error"]
    <3> HIDE DEF m
    <3>1. answers' = Append(answers, m) /\ m \in Messages
      BY <2>1, <2>2 DEF m
    <3>2. \A k \in DOMAIN answers' :
              (\E l \in DOMAIN answers : answers'[k] = answers[l]) \/ answers'[k] = m
      BY <1>t, <3>1, Appended
    <3> QED
      BY <3>2 DEF m
  <2> QED
    BY <1>e, <2>1, <2>3
<1>5. CASE Connect
  BY <1>5 DEF Connect
<1>6. CASE Hangs
  BY <1>e, <1>6 DEF Hangs
<1>7. CASE TakeJob
  BY <1>7 DEF TakeJob
<1>8. CASE Send
  <2>1. /\ requests' = Append(requests, Message) /\ answers' = answers
        /\ worker.step = "send" /\ Works
    BY <1>8 DEF Send, Works
  <2>2. Message \in Messages
    BY <2>1, MessageType
  <2>3. \A k \in DOMAIN requests' :
            (\E l \in DOMAIN requests : requests'[k] = requests[l]) \/ requests'[k] = Message
    <3> HIDE DEF Message
    <3> QED
      BY <1>t, <2>1, <2>2, Appended
  <2> QED
    BY <1>8, <2>1, <2>3
<1>9. CASE GivesUp
  <2>1. CASE answers' = answers
    BY <1>9, <2>1 DEF GivesUp
  <2>2. CASE answers # <<>> /\ answers' = Tail(answers)
    <3>1. requests' = requests
      BY <1>9 DEF GivesUp
    <3>2. \A k \in DOMAIN answers' : \E l \in DOMAIN answers : answers'[k] = answers[l]
      BY <1>t, <2>2, Tailed
    <3> QED
      BY <3>1, <3>2
  <2> QED
    BY <1>9, <2>1, <2>2 DEF GivesUp
<1>10. CASE TookBegin
  <2>1. answers # <<>> /\ answers' = Tail(answers) /\ requests' = requests
    BY <1>10 DEF TookBegin, Took
  <2> QED
    BY <1>t, <2>1, Tailed
<1>11. CASE TookCandidates
  <2>1. answers # <<>> /\ answers' = Tail(answers) /\ requests' = requests
    BY <1>11 DEF TookCandidates, Took
  <2> QED
    BY <1>t, <2>1, Tailed
<1>12. CASE TookPrepared
  <2>1. answers # <<>> /\ answers' = Tail(answers) /\ requests' = requests
    BY <1>12 DEF TookPrepared, Took
  <2> QED
    BY <1>t, <2>1, Tailed
<1>13. CASE TookTicket
  <2>1. answers # <<>> /\ answers' = Tail(answers) /\ requests' = requests
    BY <1>13 DEF TookTicket, Took
  <2> QED
    BY <1>t, <2>1, Tailed
<1>14. CASE UNCHANGED pathVars
  BY <1>14 DEF pathVars
<1>15. CASE Submits
  BY <1>15 DEF Submits
<1>16. CASE Selects
  BY <1>16 DEF Selects
<1>17. CASE BeginsEpoch
  BY <1>17 DEF BeginsEpoch
<1>18. CASE CloseClient
  BY <1>18 DEF CloseClient
<1> QED
  BY <1>1, <1>2, <1>3, <1>4, <1>5, <1>6, <1>7, <1>8, <1>9, <1>10, <1>11, <1>12,
     <1>13, <1>14, <1>15, <1>16, <1>17, <1>18
  DEF PathMove, Plain

(* Every message on the connection stays sound.                            *)
LEMMA WireStep ==
    ASSUME PathTypeOK, JobInv, WorkerInv, WireInv, PathMove
    PROVE  WireInv'
<1>1. /\ \A k \in DOMAIN requests : requests[k] \in Messages
      /\ \A k \in DOMAIN answers : answers[k] \in Messages
  BY LenProperties, ElementOfSeq DEF PathTypeOK
<1>2. \A m \in Messages : Sound(m) => Sound(m)'
  BY SoundStep
<1>3. Works /\ worker.step = "send" /\ Send => Sound(Message)' /\ Message' = Message
  <2> SUFFICES ASSUME Works, worker.step = "send", Send PROVE Sound(Message)' /\ Message' = Message
    OBVIOUS
  <2> DEFINE m == Message
  <2>1. /\ worker'.step = "receive" /\ worker'.op = worker.op /\ worker'.job = worker.job
        /\ UNCHANGED <<future, jobs>>
    BY DEF Send, PathTypeOK, WorkerTypeOK
  <2>2. Message' = Message
    BY <2>1 DEF Message
  <2>3. /\ m.inference = worker.job.inference /\ m.op = worker.op
        /\ m.op # "finish" => m.prepared = m.inference
        /\ m.op = "finish" => m.prepared = worker.job.ticket
    BY DEF Message
  <2>4. /\ worker.job.inference \in DOMAIN future
        /\ future[worker.job.inference].state # "prepared"
        /\ \A k \in DOMAIN jobs : jobs[k].inference # worker.job.inference
    BY DEF WorkerInv, Waiting
  <2> HIDE DEF m
  <2>5. Message' = m
    BY <2>2 DEF m
  <2> QED
    BY <2>1, <2>2, <2>3, <2>4, <2>5 DEF Sound
<1>4. \A m \in Messages : Sound(m) => Sound([m EXCEPT !.op = "error"])
  BY DEF Sound, Messages
<1>5. \A m \in Messages : [m EXCEPT !.op = "error"] \in Messages
  BY DEF Messages
<1>6. ASSUME NEW k \in DOMAIN requests'
      PROVE  Sound(requests[k])'
  <2>1. CASE \E l \in DOMAIN requests : requests'[k] = requests[l]
    <3>1. PICK l \in DOMAIN requests : requests'[k] = requests[l]
      BY <2>1
    <3>2. requests[l] \in Messages /\ Sound(requests[l])
      BY <1>1 DEF WireInv
    <3> QED
      BY <1>2, <3>1, <3>2 DEF Sound
  <2>2. CASE Works /\ worker.step = "send" /\ Send /\ requests'[k] = Message
    <3>1. Sound(Message)' /\ Message' = Message
      BY <1>3, <2>2
    <3> QED
      BY <2>2, <3>1 DEF Sound
  <2> QED
    BY <2>1, <2>2, WireMoves
<1>7. ASSUME NEW k \in DOMAIN answers'
      PROVE  Sound(answers[k])'
  <2>1. PICK m \in Messages : Sound(m) /\ answers'[k] = m
    BY <1>1, <1>4, <1>5, WireMoves DEF WireInv
  <2> QED
    BY <1>2, <2>1 DEF Sound
<1> QED
  BY <1>6, <1>7 DEF WireInv

(* The worker's own message is the last on the connection.                 *)
LEMMA LastStep ==
    ASSUME PathTypeOK, UnconnectedInv, WorkerInv, LastInv, PathMove
    PROVE  LastInv'
<1> USE DEF serverVars, clientVars, beneath, LastInv
<1>t. /\ requests \in Seq(Messages) /\ answers \in Seq(Messages)
      /\ DOMAIN requests = 1..Len(requests) /\ DOMAIN answers = 1..Len(answers)
      /\ Len(requests) \in Nat /\ Len(answers) \in Nat
      /\ (requests # <<>> => Len(requests) # 0) /\ (answers # <<>> => Len(answers) # 0)
      /\ (requests = <<>> => Len(requests) = 0) /\ (answers = <<>> => Len(answers) = 0)
      /\ \A k \in DOMAIN requests : requests[k] \in Messages
      /\ \A k \in DOMAIN answers : answers[k] \in Messages
  BY LenProperties, EmptySeq, ElementOfSeq DEF PathTypeOK
<1>1. CASE ServerStarts
  <2>1. UNCHANGED <<worker, requests, answers, connection>>
    BY <1>1 DEF ServerStarts
  <2>2. Message' = Message
    BY <2>1 DEF Message
  <2> QED
    BY <2>1, <2>2 DEF LastInv
<1>2. CASE ServerDies
  BY <1>2 DEF ServerDies, Strike
<1>3. CASE Answer
  <2>1. /\ requests # <<>> /\ requests' = Tail(requests)
        /\ answers' = Append(answers, requests[1]) /\ requests[1] \in Messages
        /\ UNCHANGED <<worker, connection, future, jobs>>
    BY <1>t, <1>3, Tailed DEF Answer
  <2>2. /\ requests' \in Seq(Messages) /\ Len(requests') = Len(requests) - 1
        /\ \A k \in DOMAIN requests' : requests'[k] = requests[k + 1]
        /\ DOMAIN requests' = 1..Len(requests) - 1
        /\ (Len(requests') = 0 => requests' = <<>>)
    BY <1>t, <2>1, Tailed, LenProperties, EmptySeq
  <2>3. /\ Len(answers') = Len(answers) + 1 /\ answers' # <<>>
        /\ answers'[Len(answers) + 1] = requests[1]
        /\ (answers # <<>> => answers'[1] = answers[1])
    BY <1>t, <2>1, Appended, EmptySeq
  <2>4. Message' = Message
    BY <2>1 DEF Message
  <2>5. CASE Len(requests) = 1
    BY <1>t, <2>1, <2>2, <2>3, <2>4, <2>5 DEF LastInv
  <2>6. CASE Len(requests) # 1
    BY <1>t, <2>1, <2>2, <2>4, <2>6 DEF LastInv
  <2> QED
    BY <2>5, <2>6
<1>4. CASE Refuse
  BY <1>4 DEF Refuse, Strike
<1>5. CASE Connect
  <2> QED
    BY <1>5 DEF Connect, UnconnectedInv, LastInv, Idle
<1>6. CASE Hangs
  BY <1>6 DEF Hangs
<1>7. CASE TakeJob
  BY <1>7 DEF TakeJob
<1>8. CASE Send
  <2>1. /\ worker.step = "send" /\ worker'.step = "receive" /\ connection = "open"
        /\ worker'.op = worker.op /\ worker'.job = worker.job
        /\ UNCHANGED <<future, jobs, answers, connection>>
    BY <1>8 DEF Send, PathTypeOK, WorkerTypeOK
  <2>2. /\ requests' = Append(requests, Message) /\ Message \in Messages /\ Message' = Message
    BY <1>8, <2>1, MessageType DEF Send, Works, Message
  <2>3. /\ Len(requests') = Len(requests) + 1 /\ requests' # <<>>
        /\ requests'[Len(requests) + 1] = Message
        /\ (requests # <<>> => requests'[1] = requests[1])
    <3> HIDE DEF Message
    <3> QED
      BY <1>t, <2>2, Appended, EmptySeq
  <2> QED
    BY <1>t, <2>1, <2>2, <2>3 DEF LastInv
<1>9. CASE GivesUp
  <2> QED
    BY <1>9 DEF GivesUp, Settle, LastInv, Idle
<1>10. CASE TookBegin
  <2> QED
    BY <1>10 DEF TookBegin, LastInv, PathTypeOK, WorkerTypeOK
<1>11. CASE TookCandidates
  BY <1>11 DEF TookCandidates
<1>12. CASE TookPrepared
  <2> QED
    BY <1>12 DEF TookPrepared, Settle, LastInv, Idle
<1>13. CASE TookTicket
  <2> QED
    BY <1>13 DEF TookTicket, Settle, LastInv, Idle
<1>14. CASE UNCHANGED pathVars
  <2>1. UNCHANGED <<worker, requests, answers, connection>>
    BY <1>14 DEF pathVars
  <2>2. Message' = Message
    BY <2>1 DEF Message
  <2> QED
    BY <2>1, <2>2 DEF LastInv
<1>15. CASE Submits
  <2>1. UNCHANGED <<worker, requests, answers, connection>>
    BY <1>15 DEF Submits
  <2>2. Message' = Message
    BY <2>1 DEF Message
  <2> QED
    BY <2>1, <2>2 DEF LastInv
<1>16. CASE Selects
  <2>1. UNCHANGED <<worker, requests, answers, connection>>
    BY <1>16 DEF Selects
  <2>2. Message' = Message
    BY <2>1 DEF Message
  <2> QED
    BY <2>1, <2>2 DEF LastInv
<1>17. CASE BeginsEpoch
  <2>1. UNCHANGED <<worker, requests, answers, connection>>
    BY <1>17 DEF BeginsEpoch
  <2>2. Message' = Message
    BY <2>1 DEF Message
  <2> QED
    BY <2>1, <2>2 DEF LastInv
<1>18. CASE CloseClient
  <2>1. UNCHANGED <<worker, requests, answers, connection>>
    BY <1>18 DEF CloseClient
  <2>2. Message' = Message
    BY <2>1 DEF Message
  <2> QED
    BY <2>1, <2>2 DEF LastInv
<1> QED
  BY <1>1, <1>2, <1>3, <1>4, <1>5, <1>6, <1>7, <1>8, <1>9, <1>10, <1>11, <1>12,
     <1>13, <1>14, <1>15, <1>16, <1>17, <1>18
  DEF PathMove, Plain

(* Who is one answer behind stays so.                                      *)
LEMMA BehindStep ==
    ASSUME PathTypeOK, WorkerInv, connection # "none", Behind, PathMove
    PROVE  Behind'
<1> USE DEF serverVars, clientVars, beneath, Behind
<1>t. /\ requests \in Seq(Messages) /\ answers \in Seq(Messages)
      /\ DOMAIN requests = 1..Len(requests) /\ DOMAIN answers = 1..Len(answers)
      /\ Len(requests) \in Nat /\ Len(answers) \in Nat
      /\ (requests # <<>> => Len(requests) # 0) /\ (answers # <<>> => Len(answers) # 0)
      /\ (requests = <<>> => Len(requests) = 0) /\ (answers = <<>> => Len(answers) = 0)
      /\ \A k \in DOMAIN requests : requests[k] \in Messages
      /\ \A k \in DOMAIN answers : answers[k] \in Messages
  BY LenProperties, EmptySeq, ElementOfSeq DEF PathTypeOK
<1>1. CASE ServerStarts
  BY <1>1 DEF ServerStarts
<1>2. CASE ServerDies
  BY <1>2 DEF ServerDies, Strike
<1>3. CASE Answer
  <2>1. /\ requests # <<>> /\ requests' = Tail(requests)
        /\ answers' = Append(answers, requests[1]) /\ requests[1] \in Messages
        /\ UNCHANGED <<worker, connection, future, jobs>>
    BY <1>t, <1>3, Tailed DEF Answer
  <2>2. /\ requests' \in Seq(Messages) /\ Len(requests') = Len(requests) - 1
        /\ \A k \in DOMAIN requests' : requests'[k] = requests[k + 1]
        /\ DOMAIN requests' = 1..Len(requests) - 1
        /\ (Len(requests') = 0 => requests' = <<>>)
    BY <1>t, <2>1, Tailed, LenProperties, EmptySeq
  <2>3. /\ Len(answers') = Len(answers) + 1 /\ answers' # <<>>
        /\ answers'[Len(answers) + 1] = requests[1]
        /\ (answers # <<>> => answers'[1] = answers[1])
    BY <1>t, <2>1, Appended, EmptySeq
  <2> QED
    BY <1>t, <2>1, <2>2, <2>3 DEF Behind
<1>4. CASE Refuse
  BY <1>4 DEF Refuse, Strike
<1>5. CASE Connect
  BY <1>5 DEF Connect
<1>6. CASE Hangs
  BY <1>6 DEF Hangs
<1>7. CASE TakeJob
  BY <1>7 DEF TakeJob
<1>8. CASE Send
  <2>1. /\ worker.step = "send" /\ worker'.step = "receive" /\ connection = "open"
        /\ worker'.op = worker.op /\ worker'.job = worker.job
        /\ UNCHANGED <<future, jobs, answers, connection>>
    BY <1>8 DEF Send, PathTypeOK, WorkerTypeOK
  <2>2. /\ requests' = Append(requests, Message) /\ Message \in Messages /\ Message' = Message
    BY <1>8, <2>1, MessageType DEF Send, Works, Message
  <2>3. /\ Len(requests') = Len(requests) + 1 /\ requests' # <<>>
        /\ requests'[Len(requests) + 1] = Message
        /\ (requests # <<>> => requests'[1] = requests[1])
    <3> HIDE DEF Message
    <3> QED
      BY <1>t, <2>2, Appended, EmptySeq
  <2> QED
    BY <1>t, <2>1, <2>3 DEF Behind
<1>9. CASE GivesUp
  <2>1. /\ worker'.step = "idle" /\ requests' = requests /\ connection' = connection
    BY <1>9 DEF GivesUp, Settle, Idle
  <2>2. Len(answers') = Len(answers) \/ (Len(answers') = Len(answers) - 1 /\ worker.step = "receive")
    <3>1. CASE answers' = answers
      BY <3>1
    <3>2. CASE answers # <<>> /\ answers' = Tail(answers) /\ worker.step = "receive"
      BY <1>t, <3>2, Tailed
    <3> QED
      BY <1>9, <3>1, <3>2 DEF GivesUp
  <2>3. connection = "open" => Len(answers') + Len(requests') >= 1
    <3>1. CASE worker.step = "receive"
      <4>1. connection = "open" => Len(answers) + Len(requests) >= 2
        BY <3>1 DEF Behind
      <4>2. Len(requests') = Len(requests) /\ Len(answers) \in Nat /\ Len(requests) \in Nat
        BY <1>t, <2>1
      <4>3. Len(answers') = Len(answers) \/ Len(answers') = Len(answers) - 1
        BY <2>2
      <4> QED
        BY <4>1, <4>2, <4>3
    <3>2. CASE worker.step # "receive"
      BY <1>t, <2>1, <2>2, <3>2 DEF Behind
    <3> QED
      BY <3>1, <3>2
  <2> QED
    BY <2>1, <2>3 DEF Behind
<1>10. CASE TookBegin
  <2>1. /\ answers # <<>> /\ answers' = Tail(answers) /\ worker.step = "receive"
        /\ requests' = requests /\ connection' = connection
    BY <1>10 DEF TookBegin, Took
  <2>2. Len(answers') = Len(answers) - 1
    BY <1>t, <2>1, Tailed
  <2>3. worker'.step # "receive"
    BY <1>10 DEF TookBegin, Settle, Idle, PathTypeOK, WorkerTypeOK
  <2> QED
    BY <1>t, <2>1, <2>2, <2>3 DEF Behind
<1>11. CASE TookCandidates
  <2>1. /\ answers # <<>> /\ answers' = Tail(answers) /\ worker.step = "receive"
        /\ requests' = requests /\ connection' = connection
    BY <1>11 DEF TookCandidates, Took
  <2>2. Len(answers') = Len(answers) - 1
    BY <1>t, <2>1, Tailed
  <2>3. worker'.step # "receive"
    BY <1>11 DEF TookCandidates, Settle, Idle, PathTypeOK, WorkerTypeOK
  <2> QED
    BY <1>t, <2>1, <2>2, <2>3 DEF Behind
<1>12. CASE TookPrepared
  <2>1. /\ answers # <<>> /\ answers' = Tail(answers) /\ worker.step = "receive"
        /\ requests' = requests /\ connection' = connection
    BY <1>12 DEF TookPrepared, Took
  <2>2. Len(answers') = Len(answers) - 1
    BY <1>t, <2>1, Tailed
  <2>3. worker'.step # "receive"
    BY <1>12 DEF TookPrepared, Settle, Idle, PathTypeOK, WorkerTypeOK
  <2> QED
    BY <1>t, <2>1, <2>2, <2>3 DEF Behind
<1>13. CASE TookTicket
  <2>1. /\ answers # <<>> /\ answers' = Tail(answers) /\ worker.step = "receive"
        /\ requests' = requests /\ connection' = connection
    BY <1>13 DEF TookTicket, Took
  <2>2. Len(answers') = Len(answers) - 1
    BY <1>t, <2>1, Tailed
  <2>3. worker'.step # "receive"
    BY <1>13 DEF TookTicket, Settle, Idle, PathTypeOK, WorkerTypeOK
  <2> QED
    BY <1>t, <2>1, <2>2, <2>3 DEF Behind
<1>14. CASE UNCHANGED pathVars
  BY <1>14 DEF pathVars
<1>15. CASE Submits
  BY <1>15 DEF Submits
<1>16. CASE Selects
  BY <1>16 DEF Selects
<1>17. CASE BeginsEpoch
  BY <1>17 DEF BeginsEpoch
<1>18. CASE CloseClient
  BY <1>18 DEF CloseClient
<1> QED
  BY <1>1, <1>2, <1>3, <1>4, <1>5, <1>6, <1>7, <1>8, <1>9, <1>10, <1>11, <1>12,
     <1>13, <1>14, <1>15, <1>16, <1>17, <1>18
  DEF PathMove, Plain

(* Candidates of another inference were an answer to an earlier message.   *)
LEMMA LateCandidates ==
    ASSUME PathTypeOK, WireInv, LastInv, Took, worker.op = "prepare", answers[1].op = "prepare",
           answers[1].prepared # worker.job.inference, worker'.step # "receive"
    PROVE  Behind'
<1> USE DEF serverVars, clientVars
<1>t. /\ requests \in Seq(Messages) /\ answers \in Seq(Messages)
      /\ DOMAIN requests = 1..Len(requests) /\ DOMAIN answers = 1..Len(answers)
      /\ Len(requests) \in Nat /\ Len(answers) \in Nat
      /\ (requests # <<>> => Len(requests) # 0) /\ (answers # <<>> => Len(answers) # 0)
      /\ (requests = <<>> => Len(requests) = 0) /\ (answers = <<>> => Len(answers) = 0)
      /\ \A k \in DOMAIN requests : requests[k] \in Messages
      /\ \A k \in DOMAIN answers : answers[k] \in Messages
  BY LenProperties, EmptySeq, ElementOfSeq DEF PathTypeOK
<1>1. /\ Len(answers') = Len(answers) - 1 /\ UNCHANGED <<requests, connection>>
      /\ worker.step = "receive" /\ answers # <<>> /\ 1 \in DOMAIN answers
  BY <1>t, Tailed DEF Took
<1>2. answers[1] # Message
  BY <1>1 DEF WireInv, Sound, Message
<1> HIDE DEF Message
<1>3. connection = "open" => Len(answers) + Len(requests) >= 2
  BY <1>t, <1>1, <1>2 DEF LastInv
<1> QED
  BY <1>t, <1>1, <1>3 DEF Behind

(* A new inference with the candidates of another is behind.               *)
LEMMA LagFutures ==
    ASSUME PathTypeOK, UnconnectedInv, JobInv, WorkerInv, WireInv, LastInv, LagInv, PathMove
    PROVE  \A n \in DOMAIN future' :
              future'[n].state = "prepared" /\ future'[n].prepared # n => Behind'
<1> SUFFICES ASSUME NEW n \in DOMAIN future', future'[n].state = "prepared",
                    future'[n].prepared # n
             PROVE  Behind'
  OBVIOUS
<1> USE DEF serverVars, clientVars, beneath
<1>t. /\ \A i \in DOMAIN future : i \in Nat /\ i <= Len(future) /\ i # 0
      /\ Len(future) \in Nat /\ DOMAIN future = 1..Len(future)
      /\ future \in Seq(Futures) /\ jobs \in Seq(Jobs)
  BY LenProperties DEF PathTypeOK
<1>b. n \in DOMAIN future /\ future'[n] = future[n] => Behind'
  <2> SUFFICES ASSUME n \in DOMAIN future, future'[n] = future[n] PROVE Behind'
    OBVIOUS
  <2>1. connection # "none"
    BY <1>t, EmptySeq DEF UnconnectedInv
  <2> QED
    BY <2>1, BehindStep DEF LagInv
<1>1. CASE ServerStarts
  BY <1>b, <1>1 DEF ServerStarts
<1>2. CASE ServerDies
  BY <1>b, <1>2 DEF ServerDies, Strike
<1>3. CASE Answer
  BY <1>b, <1>3 DEF Answer
<1>4. CASE Refuse
  BY <1>b, <1>4 DEF Refuse, Strike
<1>5. CASE Connect
  BY <1>b, <1>5 DEF Connect
<1>6. CASE Hangs
  BY <1>b, <1>6 DEF Hangs
<1>7. CASE TakeJob
  BY <1>b, <1>7 DEF TakeJob
<1>8. CASE Send
  BY <1>b, <1>8 DEF Send
<1>9. CASE GivesUp
  <2>1. /\ worker.job.inference \in DOMAIN future
        /\ Works /\ worker' = Idle /\ jobs' = jobs
        /\ future' = [future EXCEPT ![worker.job.inference] = Failed]
    BY <1>9 DEF GivesUp, Took, WorkerInv, Works, Settle
  <2>2. Failed \in Futures
    BY <1>t, <2>1 DEF Futures, Failed
  <2>3. DOMAIN future' = DOMAIN future
    BY <1>t, <2>1, <2>2, Replaced
  <2>4. future'[worker.job.inference] = Failed
    BY <1>t, <2>1, <2>2, Replaced
  <2> QED
    BY <1>b, <1>t, <2>1, <2>2, <2>3, <2>4, Replaced DEF Failed
<1>10. CASE TookBegin
  BY <1>b, <1>10 DEF TookBegin, Took
<1>11. CASE TookCandidates
  BY <1>b, <1>11 DEF TookCandidates, Took
<1>12. CASE TookPrepared
  <2>1. /\ worker.job.inference \in DOMAIN future
        /\ Works /\ worker' = Idle /\ jobs' = jobs
        /\ future' = [future EXCEPT ![worker.job.inference] = Prepared(answers[1].prepared)]
    BY <1>12 DEF TookPrepared, Took, WorkerInv, Works, Settle
  <2>0. answers[1] \in Messages
    BY <1>12, Tailed DEF TookPrepared, Took, PathTypeOK
  <2>2. Prepared(answers[1].prepared) \in Futures
    BY <1>t, <2>1, <2>0 DEF Futures, Prepared, Messages
  <2>3. DOMAIN future' = DOMAIN future
    BY <1>t, <2>1, <2>2, Replaced
  <2>4. CASE n = worker.job.inference
    <3>1. answers[1].prepared # worker.job.inference
      BY <1>t, <2>1, <2>2, <2>4, Replaced DEF Prepared
    <3>2. worker'.step # "receive"
      BY <2>1 DEF Idle
    <3> QED
      BY <1>12, <3>1, <3>2, LateCandidates DEF TookPrepared
  <2>5. CASE n # worker.job.inference
    BY <1>b, <1>t, <2>1, <2>2, <2>3, <2>5, Replaced
  <2> QED
    BY <2>4, <2>5
<1>13. CASE TookTicket
  <2>1. /\ worker.job.inference \in DOMAIN future
        /\ Works /\ worker' = Idle /\ jobs' = jobs
        /\ future' = [future EXCEPT ![worker.job.inference] = Ticket(answers[1].inference, answers[1].prepared)]
    BY <1>13 DEF TookTicket, Took, WorkerInv, Works, Settle
  <2>0. answers[1] \in Messages
    BY <1>13, Tailed DEF TookTicket, Took, PathTypeOK
  <2>2. Ticket(answers[1].inference, answers[1].prepared) \in Futures
    BY <1>t, <2>1, <2>0 DEF Futures, Ticket, Messages
  <2>3. DOMAIN future' = DOMAIN future
    BY <1>t, <2>1, <2>2, Replaced
  <2>4. future'[worker.job.inference] = Ticket(answers[1].inference, answers[1].prepared)
    BY <1>t, <2>1, <2>2, Replaced
  <2> QED
    BY <1>b, <1>t, <2>1, <2>2, <2>3, <2>4, Replaced DEF Ticket
<1>14. CASE UNCHANGED pathVars
  BY <1>b, <1>14 DEF pathVars
<1>15. CASE Submits
  <2>1. PICK phase \in {"prepare", "infer"}, ep \in Nat, e \in Nat, d \in Nat :
            jobs' = Append(jobs, [phase |-> phase, episode |-> ep, epoch |-> e,
                                 inference |-> Len(future) + 1, delay |-> d, ticket |-> 0])
    BY <1>15 DEF Submits
  <2>2. /\ DOMAIN future' = 1..Len(future) + 1
        /\ \A k \in DOMAIN future : k \in DOMAIN future' /\ future'[k] = future[k]
        /\ future'[Len(future) + 1] = Waiting
    <3>1. future' = Append(future, Waiting) /\ Waiting \in Futures
      BY <1>15 DEF Submits, Waiting, Futures
    <3> QED
      BY <1>t, <3>1, Appended
  <2>3. /\ \A k \in DOMAIN jobs : k \in DOMAIN jobs' /\ jobs'[k] = jobs[k]
        /\ \A k \in DOMAIN jobs' :
              k \in DOMAIN jobs \/ (/\ k = Len(jobs) + 1
                                    /\ jobs'[k].inference = Len(future) + 1
                                    /\ jobs'[k].phase = phase)
    <3> DEFINE job == [phase |-> phase, episode |-> ep, epoch |-> e,
                       inference |-> Len(future) + 1, delay |-> d, ticket |-> 0]
    <3>1. job \in Jobs
      BY <1>t DEF Jobs, Phases
    <3>2. job.inference = Len(future) + 1 /\ job.phase = phase
      OBVIOUS
    <3> HIDE DEF job
    <3>3. jobs' = Append(jobs, job)
      BY <2>1 DEF job
    <3> QED
      BY <1>t, <3>1, <3>2, <3>3, Appended
  <2> QED
    BY <1>b, <1>t, <2>2 DEF Waiting
<1>16. CASE Selects
  <2>1. PICK i \in DOMAIN future, e \in Nat :
            /\ future[i].state = "prepared"
            /\ jobs' = Append(jobs, [phase |-> "finish", episode |-> 1, epoch |-> e,
                                     inference |-> i, delay |-> Delay,
                                     ticket |-> future[i].prepared])
            /\ future' = [future EXCEPT ![i] = Waiting]
    BY <1>16 DEF Selects
  <2>2. /\ DOMAIN future' = DOMAIN future /\ future'[i] = Waiting
        /\ \A k \in DOMAIN future : k # i => future'[k] = future[k]
    BY <1>t, <2>1, Replaced DEF Waiting, Futures
  <2>3. /\ \A k \in DOMAIN jobs : k \in DOMAIN jobs' /\ jobs'[k] = jobs[k]
        /\ \A k \in DOMAIN jobs' :
              k \in DOMAIN jobs \/ (/\ k = Len(jobs) + 1 /\ jobs'[k].inference = i
                                    /\ jobs'[k].phase = "finish"
                                    /\ jobs'[k].ticket = future[i].prepared)
    <3> DEFINE job == [phase |-> "finish", episode |-> 1, epoch |-> e, inference |-> i,
                       delay |-> Delay, ticket |-> future[i].prepared]
    <3>0. future[i] \in Futures /\ i \in Nat
      BY <1>t, ElementOfSeq
    <3>1. job \in Jobs
      BY <1>t, <3>0, PathAssumption DEF Jobs, Phases, Futures
    <3>2. job.inference = i /\ job.phase = "finish" /\ job.ticket = future[i].prepared
      OBVIOUS
    <3> HIDE DEF job
    <3>3. jobs' = Append(jobs, job)
      BY <2>1 DEF job
    <3> QED
      BY <1>t, <3>1, <3>2, <3>3, Appended
  <2> QED
    BY <1>b, <2>2 DEF Waiting
<1>17. CASE BeginsEpoch
  BY <1>b, <1>17 DEF BeginsEpoch
<1>18. CASE CloseClient
  <2>1. DOMAIN future' = DOMAIN future
    BY <1>18, CancelledType
  <2>2. /\ \A i \in DOMAIN future :
              \/ future'[i] = future[i]
              \/ future'[i] = Cancelled /\ \E k \in DOMAIN jobs : jobs[k].inference = i
        /\ jobs' = <<>>
        /\ UNCHANGED <<worker, requests, answers, connection>>
    BY <1>18, <2>1 DEF CloseClient, serverVars
  <2> QED
    BY <1>b, <2>1, <2>2 DEF Cancelled
<1> QED
  BY <1>1, <1>2, <1>3, <1>4, <1>5, <1>6, <1>7, <1>8, <1>9, <1>10, <1>11, <1>12,
     <1>13, <1>14, <1>15, <1>16, <1>17, <1>18
  DEF PathMove, Plain

(* A "finish" that is queued for another inference's candidates is behind. *)
LEMMA LagJobs ==
    ASSUME PathTypeOK, UnconnectedInv, JobInv, WorkerInv, LagInv, PathMove
    PROVE  \A n \in DOMAIN jobs' :
              jobs'[n].phase = "finish" /\ jobs'[n].ticket # jobs'[n].inference => Behind'
<1> SUFFICES ASSUME NEW n \in DOMAIN jobs', jobs'[n].phase = "finish",
                    jobs'[n].ticket # jobs'[n].inference
             PROVE  Behind'
  OBVIOUS
<1> USE DEF serverVars, clientVars, beneath
<1>t. /\ \A i \in DOMAIN future : i \in Nat /\ i <= Len(future) /\ i # 0
      /\ Len(future) \in Nat /\ DOMAIN future = 1..Len(future)
      /\ future \in Seq(Futures) /\ jobs \in Seq(Jobs)
  BY LenProperties DEF PathTypeOK
<1>b. (\E k \in DOMAIN jobs : jobs'[n] = jobs[k]) => Behind'
  <2> SUFFICES ASSUME NEW k \in DOMAIN jobs, jobs'[n] = jobs[k] PROVE Behind'
    OBVIOUS
  <2>1. connection # "none"
    BY <1>t, EmptySeq, LenProperties DEF UnconnectedInv
  <2> QED
    BY <2>1, BehindStep DEF LagInv
<1>e. DOMAIN <<>> = {}
  OBVIOUS
<1>1. CASE ServerStarts
  BY <1>b, <1>1 DEF ServerStarts
<1>2. CASE ServerDies
  BY <1>b, <1>2 DEF ServerDies, Strike
<1>3. CASE Answer
  BY <1>b, <1>3 DEF Answer
<1>4. CASE Refuse
  BY <1>b, <1>4 DEF Refuse, Strike
<1>5. CASE Connect
  BY <1>b, <1>5 DEF Connect
<1>6. CASE Hangs
  BY <1>b, <1>6 DEF Hangs
<1>7. CASE TakeJob
  <2>1. /\ worker = Idle /\ jobs # <<>> /\ jobs' = Tail(jobs)
        /\ worker'.step = "send" /\ worker'.job = jobs[1]
        /\ worker'.op = jobs[1].phase \/ (worker'.op = "begin" /\ jobs[1].phase = "prepare")
        /\ UNCHANGED <<future, requests, answers, connection>>
    BY <1>t, <1>7, Tailed DEF TakeJob
  <2>2. /\ 1 \in DOMAIN jobs
        /\ \A k \in DOMAIN jobs' :
              k \in Nat /\ k + 1 # 1 /\ k + 1 \in DOMAIN jobs /\ jobs'[k] = jobs[k + 1]
    BY <1>t, <2>1, Tailed
  <2> QED
    BY <1>b, <2>2
<1>8. CASE Send
  BY <1>b, <1>8 DEF Send
<1>9. CASE GivesUp
  BY <1>b, <1>9 DEF GivesUp
<1>10. CASE TookBegin
  BY <1>b, <1>10 DEF TookBegin, Took
<1>11. CASE TookCandidates
  BY <1>b, <1>11 DEF TookCandidates, Took
<1>12. CASE TookPrepared
  BY <1>b, <1>12 DEF TookPrepared, Took
<1>13. CASE TookTicket
  BY <1>b, <1>13 DEF TookTicket, Took
<1>14. CASE UNCHANGED pathVars
  BY <1>b, <1>14 DEF pathVars
<1>15. CASE Submits
  <2>1. PICK phase \in {"prepare", "infer"}, ep \in Nat, e \in Nat, d \in Nat :
            jobs' = Append(jobs, [phase |-> phase, episode |-> ep, epoch |-> e,
                                 inference |-> Len(future) + 1, delay |-> d, ticket |-> 0])
    BY <1>15 DEF Submits
  <2>2. /\ DOMAIN future' = 1..Len(future) + 1
        /\ \A k \in DOMAIN future : k \in DOMAIN future' /\ future'[k] = future[k]
        /\ future'[Len(future) + 1] = Waiting
    <3>1. future' = Append(future, Waiting) /\ Waiting \in Futures
      BY <1>15 DEF Submits, Waiting, Futures
    <3> QED
      BY <1>t, <3>1, Appended
  <2>3. /\ \A k \in DOMAIN jobs : k \in DOMAIN jobs' /\ jobs'[k] = jobs[k]
        /\ \A k \in DOMAIN jobs' :
              k \in DOMAIN jobs \/ (/\ k = Len(jobs) + 1
                                    /\ jobs'[k].inference = Len(future) + 1
                                    /\ jobs'[k].phase = phase)
    <3> DEFINE job == [phase |-> phase, episode |-> ep, epoch |-> e,
                       inference |-> Len(future) + 1, delay |-> d, ticket |-> 0]
    <3>1. job \in Jobs
      BY <1>t DEF Jobs, Phases
    <3>2. job.inference = Len(future) + 1 /\ job.phase = phase
      OBVIOUS
    <3> HIDE DEF job
    <3>3. jobs' = Append(jobs, job)
      BY <2>1 DEF job
    <3> QED
      BY <1>t, <3>1, <3>2, <3>3, Appended
  <2> QED
    BY <1>b, <2>1, <2>3
<1>16. CASE Selects
  <2>1. PICK i \in DOMAIN future, e \in Nat :
            /\ future[i].state = "prepared"
            /\ jobs' = Append(jobs, [phase |-> "finish", episode |-> 1, epoch |-> e,
                                     inference |-> i, delay |-> Delay,
                                     ticket |-> future[i].prepared])
            /\ future' = [future EXCEPT ![i] = Waiting]
    BY <1>16 DEF Selects
  <2>2. /\ DOMAIN future' = DOMAIN future /\ future'[i] = Waiting
        /\ \A k \in DOMAIN future : k # i => future'[k] = future[k]
    BY <1>t, <2>1, Replaced DEF Waiting, Futures
  <2>3. /\ \A k \in DOMAIN jobs : k \in DOMAIN jobs' /\ jobs'[k] = jobs[k]
        /\ \A k \in DOMAIN jobs' :
              k \in DOMAIN jobs \/ (/\ k = Len(jobs) + 1 /\ jobs'[k].inference = i
                                    /\ jobs'[k].phase = "finish"
                                    /\ jobs'[k].ticket = future[i].prepared)
    <3> DEFINE job == [phase |-> "finish", episode |-> 1, epoch |-> e, inference |-> i,
                       delay |-> Delay, ticket |-> future[i].prepared]
    <3>0. future[i] \in Futures /\ i \in Nat
      BY <1>t, ElementOfSeq
    <3>1. job \in Jobs
      BY <1>t, <3>0, PathAssumption DEF Jobs, Phases, Futures
    <3>2. job.inference = i /\ job.phase = "finish" /\ job.ticket = future[i].prepared
      OBVIOUS
    <3> HIDE DEF job
    <3>3. jobs' = Append(jobs, job)
      BY <2>1 DEF job
    <3> QED
      BY <1>t, <3>1, <3>2, <3>3, Appended
  <2>4. CASE n \in DOMAIN jobs
    BY <1>b, <2>3, <2>4
  <2>5. CASE n \notin DOMAIN jobs
    <3>1. future[i].prepared # i
      BY <2>3, <2>5
    <3>2. connection # "none"
      BY <1>t, EmptySeq DEF UnconnectedInv
    <3> QED
      BY <2>1, <3>1, <3>2, BehindStep DEF LagInv
  <2> QED
    BY <2>4, <2>5
<1>17. CASE BeginsEpoch
  BY <1>b, <1>17 DEF BeginsEpoch
<1>18. CASE CloseClient
  <2>1. DOMAIN future' = DOMAIN future
    BY <1>18, CancelledType
  <2>2. /\ \A i \in DOMAIN future :
              \/ future'[i] = future[i]
              \/ future'[i] = Cancelled /\ \E k \in DOMAIN jobs : jobs[k].inference = i
        /\ jobs' = <<>>
        /\ UNCHANGED <<worker, requests, answers, connection>>
    BY <1>18, <2>1 DEF CloseClient, serverVars
  <2> QED
    BY <1>e, <2>2
<1> QED
  BY <1>1, <1>2, <1>3, <1>4, <1>5, <1>6, <1>7, <1>8, <1>9, <1>10, <1>11, <1>12,
     <1>13, <1>14, <1>15, <1>16, <1>17, <1>18
  DEF PathMove, Plain

(* So is a worker on its way with one, and what it meets is not its own.   *)
LEMMA LagWorker ==
    ASSUME PathTypeOK, UnconnectedInv, JobInv, WorkerInv, WireInv, LastInv, LagInv, PathMove,
           Works', worker'.op = "finish", worker'.job.ticket # worker'.job.inference
    PROVE  /\ Behind'
           /\ worker'.step = "receive" =>
                 IF answers' # <<>> THEN ~OwnFinish(answers[1])'
                 ELSE requests' # <<>> => ~OwnFinish(requests[1])'
<1> USE DEF serverVars, clientVars, beneath
<1>f. /\ \A i \in DOMAIN future : i \in Nat /\ i <= Len(future) /\ i # 0
      /\ Len(future) \in Nat /\ DOMAIN future = 1..Len(future)
      /\ future \in Seq(Futures) /\ jobs \in Seq(Jobs)
  BY LenProperties DEF PathTypeOK
<1>t. /\ requests \in Seq(Messages) /\ answers \in Seq(Messages)
      /\ DOMAIN requests = 1..Len(requests) /\ DOMAIN answers = 1..Len(answers)
      /\ Len(requests) \in Nat /\ Len(answers) \in Nat
      /\ (requests # <<>> => Len(requests) # 0) /\ (answers # <<>> => Len(answers) # 0)
      /\ (requests = <<>> => Len(requests) = 0) /\ (answers = <<>> => Len(answers) = 0)
      /\ \A k \in DOMAIN requests : requests[k] \in Messages
      /\ \A k \in DOMAIN answers : answers[k] \in Messages
  BY LenProperties, EmptySeq, ElementOfSeq DEF PathTypeOK
<1>b. worker' = worker => Behind'
  <2> SUFFICES ASSUME worker' = worker PROVE Behind'
    OBVIOUS
  <2>1. connection # "none"
    BY DEF UnconnectedInv, Works, Idle
  <2>2. Behind
    BY DEF LagInv, Works
  <2> QED
    BY <2>1, <2>2, BehindStep
<1>h. worker' = worker => /\ Works /\ worker.op = "finish"
                         /\ worker.job.ticket # worker.job.inference
  BY DEF Works
<1>1. CASE ServerStarts
  <2>1. UNCHANGED <<worker, requests, answers>>
    BY <1>1 DEF ServerStarts
  <2> QED
    BY <1>b, <1>h, <2>1 DEF LagInv, OwnFinish
<1>2. CASE ServerDies
  <2>1. worker' = worker /\ answers' = answers /\ requests' = <<>>
    BY <1>2 DEF ServerDies
  <2> QED
    BY <1>b, <1>h, <2>1 DEF LagInv, OwnFinish
<1>3. CASE Answer
  <2>1. /\ requests # <<>> /\ requests' = Tail(requests)
        /\ answers' = Append(answers, requests[1]) /\ requests[1] \in Messages
        /\ UNCHANGED <<worker, connection, future, jobs>>
    BY <1>t, <1>3, Tailed DEF Answer
  <2>2. /\ requests' \in Seq(Messages) /\ Len(requests') = Len(requests) - 1
        /\ \A k \in DOMAIN requests' : requests'[k] = requests[k + 1]
        /\ DOMAIN requests' = 1..Len(requests) - 1
        /\ (Len(requests') = 0 => requests' = <<>>)
    BY <1>t, <2>1, Tailed, LenProperties, EmptySeq
  <2>3. /\ Len(answers') = Len(answers) + 1 /\ answers' # <<>>
        /\ answers'[Len(answers) + 1] = requests[1]
        /\ (answers # <<>> => answers'[1] = answers[1])
    BY <1>t, <2>1, Appended, EmptySeq
  <2>4. worker.step = "receive" => ~OwnFinish(answers[1])'
    <3>1. CASE answers # <<>>
      BY <1>h, <2>1, <2>3, <3>1 DEF LagInv, OwnFinish
    <3>2. CASE answers = <<>>
      BY <1>t, <1>h, <2>1, <2>3, <3>2 DEF LagInv, OwnFinish
    <3> QED
      BY <3>1, <3>2
  <2> QED
    BY <1>b, <2>1, <2>3, <2>4
<1>4. CASE Refuse
  <2>1. /\ requests # <<>> /\ requests' = <<>>
        /\ answers' = Append(answers, [requests[1] EXCEPT !.op = "error"])
        /\ requests[1] \in Messages /\ worker' = worker
    BY <1>t, <1>4, Tailed DEF Refuse
  <2>2. /\ [requests[1] EXCEPT !.op = "error"] \in Messages
        /\ [requests[1] EXCEPT !.op = "error"].op = "error"
    BY <2>1 DEF Messages
  <2>3. /\ answers' # <<>> /\ (answers # <<>> => answers'[1] = answers[1])
        /\ (answers = <<>> => answers'[1].op = "error")
    <3> DEFINE m == [requests[1] EXCEPT !.op = "error"]
    <3> HIDE DEF m
    <3>1. answers' = Append(answers, m) /\ m \in Messages /\ m.op = "error"
      BY <2>1, <2>2 DEF m
    <3> QED
      BY <1>t, <3>1, Appended, EmptySeq
  <2> QED
    BY <1>b, <1>h, <2>1, <2>3 DEF LagInv, OwnFinish
<1>5. CASE Connect
  <2> QED
    BY <1>5, <1>h DEF Connect, UnconnectedInv, Works, Idle
<1>6. CASE Hangs
  <2> QED
    BY <1>6, <1>h, EmptySeq DEF Hangs, Behind
<1>7. CASE TakeJob
  <2>1. /\ worker = Idle /\ jobs # <<>> /\ jobs' = Tail(jobs)
        /\ worker'.step = "send" /\ worker'.job = jobs[1]
        /\ worker'.op = jobs[1].phase \/ (worker'.op = "begin" /\ jobs[1].phase = "prepare")
        /\ UNCHANGED <<future, requests, answers, connection>>
    BY <1>f, <1>7, Tailed DEF TakeJob
  <2>2. /\ 1 \in DOMAIN jobs
        /\ \A k \in DOMAIN jobs' :
              k \in Nat /\ k + 1 # 1 /\ k + 1 \in DOMAIN jobs /\ jobs'[k] = jobs[k + 1]
    BY <1>f, <2>1, Tailed
  <2>3. jobs[1].phase = "finish" /\ jobs[1].ticket # jobs[1].inference
    BY <2>1
  <2>4. connection # "none"
    BY <1>f, <2>2, EmptySeq, LenProperties DEF UnconnectedInv
  <2>5. Behind'
    BY <2>2, <2>3, <2>4, BehindStep DEF LagInv
  <2> QED
    BY <2>1, <2>5
<1>8. CASE Send
  <2>1. /\ worker.step = "send" /\ worker'.step = "receive" /\ connection = "open"
        /\ worker'.op = worker.op /\ worker'.job = worker.job
        /\ UNCHANGED <<future, jobs, answers, connection>>
    BY <1>8 DEF Send, PathTypeOK, WorkerTypeOK
  <2>2. /\ requests' = Append(requests, Message) /\ Message \in Messages /\ Message' = Message
    BY <1>8, <2>1, MessageType DEF Send, Works, Message
  <2>3. /\ Len(requests') = Len(requests) + 1 /\ requests' # <<>>
        /\ requests'[Len(requests) + 1] = Message
        /\ (requests # <<>> => requests'[1] = requests[1])
    <3> HIDE DEF Message
    <3> QED
      BY <1>t, <2>2, Appended, EmptySeq
  <2>4. /\ Works /\ worker.op = "finish" /\ worker.job.ticket # worker.job.inference
    BY <2>1 DEF Works
  <2>5. Behind
    BY <2>4 DEF LagInv
  <2>6. Behind'
    BY <2>1, <2>5, BehindStep
  <2>7. /\ answers # <<>> => ~OwnFinish(answers[1])
        /\ requests # <<>> => ~OwnFinish(requests[1])
    BY <1>t, <2>1, <2>4 DEF WireInv, Sound, OwnFinish
  <2>8. answers = <<>> => requests # <<>>
    BY <1>t, <2>1, <2>5 DEF Behind
  <2> QED
    BY <2>1, <2>3, <2>6, <2>7, <2>8 DEF OwnFinish
<1>9. CASE GivesUp
  <2> QED
    BY <1>9 DEF GivesUp, Settle, Idle, Works
<1>10. CASE TookBegin
  <2> QED
    BY <1>10 DEF TookBegin, PathTypeOK, WorkerTypeOK
<1>11. CASE TookCandidates
  <2>1. /\ worker'.step = "send" /\ worker'.job.ticket = answers[1].prepared
        /\ worker'.job.inference = worker.job.inference
    BY <1>11 DEF TookCandidates, PathTypeOK, WorkerTypeOK, Jobs
  <2>2. Behind'
    BY <1>11, <2>1, LateCandidates DEF TookCandidates
  <2> QED
    BY <2>1, <2>2
<1>12. CASE TookPrepared
  <2> QED
    BY <1>12 DEF TookPrepared, Settle, Idle, Works
<1>13. CASE TookTicket
  <2> QED
    BY <1>13 DEF TookTicket, Settle, Idle, Works
<1>14. CASE UNCHANGED pathVars
  <2>1. UNCHANGED <<worker, requests, answers>>
    BY <1>14 DEF pathVars
  <2> QED
    BY <1>b, <1>h, <2>1 DEF LagInv, OwnFinish
<1>15. CASE Submits
  <2>1. UNCHANGED <<worker, requests, answers>>
    BY <1>15 DEF Submits
  <2> QED
    BY <1>b, <1>h, <2>1 DEF LagInv, OwnFinish
<1>16. CASE Selects
  <2>1. UNCHANGED <<worker, requests, answers>>
    BY <1>16 DEF Selects
  <2> QED
    BY <1>b, <1>h, <2>1 DEF LagInv, OwnFinish
<1>17. CASE BeginsEpoch
  <2>1. UNCHANGED <<worker, requests, answers>>
    BY <1>17 DEF BeginsEpoch
  <2> QED
    BY <1>b, <1>h, <2>1 DEF LagInv, OwnFinish
<1>18. CASE CloseClient
  <2>1. UNCHANGED <<worker, requests, answers>>
    BY <1>18 DEF CloseClient
  <2> QED
    BY <1>b, <1>h, <2>1 DEF LagInv, OwnFinish
<1> QED
  BY <1>1, <1>2, <1>3, <1>4, <1>5, <1>6, <1>7, <1>8, <1>9, <1>10, <1>11, <1>12,
     <1>13, <1>14, <1>15, <1>16, <1>17, <1>18
  DEF PathMove, Plain

(* Every step of the path keeps LagInv. *)
LEMMA LagStep ==
    ASSUME PathTypeOK, UnconnectedInv, JobInv, WorkerInv, WireInv, LastInv, LagInv, PathMove
    PROVE  LagInv'
<1>1. Works' /\ worker'.op = "finish" /\ worker'.job.ticket # worker'.job.inference =>
         /\ Behind'
         /\ worker'.step = "receive" =>
               IF answers' # <<>> THEN ~OwnFinish(answers[1])'
               ELSE requests' # <<>> => ~OwnFinish(requests[1])'
  BY LagWorker
<1> QED
  BY <1>1, LagFutures, LagJobs DEF LagInv

(* A ticket is the answer to its own inference.                            *)
LEMMA AnswersStep ==
    ASSUME PathTypeOK, JobInv, WorkerInv, WireInv, LagInv, AnswersItsOwnRequest, PathMove
    PROVE  AnswersItsOwnRequest'
<1> SUFFICES ASSUME NEW n \in DOMAIN future', future'[n].state = "ticket"
             PROVE  future'[n].answered = n /\ future'[n].prepared = n
  BY DEF AnswersItsOwnRequest
<1> USE DEF serverVars, clientVars, beneath
<1>t. /\ \A i \in DOMAIN future : i \in Nat /\ i <= Len(future) /\ i # 0
      /\ Len(future) \in Nat /\ DOMAIN future = 1..Len(future)
      /\ future \in Seq(Futures) /\ jobs \in Seq(Jobs)
  BY LenProperties DEF PathTypeOK
<1>b. n \in DOMAIN future /\ future'[n] = future[n] =>
         future'[n].answered = n /\ future'[n].prepared = n
  BY DEF AnswersItsOwnRequest
<1>1. CASE ServerStarts
  BY <1>b, <1>1 DEF ServerStarts
<1>2. CASE ServerDies
  BY <1>b, <1>2 DEF ServerDies, Strike
<1>3. CASE Answer
  BY <1>b, <1>3 DEF Answer
<1>4. CASE Refuse
  BY <1>b, <1>4 DEF Refuse, Strike
<1>5. CASE Connect
  BY <1>b, <1>5 DEF Connect
<1>6. CASE Hangs
  BY <1>b, <1>6 DEF Hangs
<1>7. CASE TakeJob
  BY <1>b, <1>7 DEF TakeJob
<1>8. CASE Send
  BY <1>b, <1>8 DEF Send
<1>9. CASE GivesUp
  <2>1. /\ worker.job.inference \in DOMAIN future
        /\ Works /\ worker' = Idle /\ jobs' = jobs
        /\ future' = [future EXCEPT ![worker.job.inference] = Failed]
    BY <1>9 DEF GivesUp, Took, WorkerInv, Works, Settle
  <2>2. Failed \in Futures
    BY <1>t, <2>1 DEF Futures, Failed
  <2>3. DOMAIN future' = DOMAIN future
    BY <1>t, <2>1, <2>2, Replaced
  <2>4. future'[worker.job.inference] = Failed
    BY <1>t, <2>1, <2>2, Replaced
  <2> QED
    BY <1>b, <1>t, <2>1, <2>2, <2>3, <2>4, Replaced DEF Failed
<1>10. CASE TookBegin
  BY <1>b, <1>10 DEF TookBegin, Took
<1>11. CASE TookCandidates
  BY <1>b, <1>11 DEF TookCandidates, Took
<1>12. CASE TookPrepared
  <2>1. /\ worker.job.inference \in DOMAIN future
        /\ Works /\ worker' = Idle /\ jobs' = jobs
        /\ future' = [future EXCEPT ![worker.job.inference] = Prepared(answers[1].prepared)]
    BY <1>12 DEF TookPrepared, Took, WorkerInv, Works, Settle
  <2>0. answers[1] \in Messages
    BY <1>12, Tailed DEF TookPrepared, Took, PathTypeOK
  <2>2. Prepared(answers[1].prepared) \in Futures
    BY <1>t, <2>1, <2>0 DEF Futures, Prepared, Messages
  <2>3. DOMAIN future' = DOMAIN future
    BY <1>t, <2>1, <2>2, Replaced
  <2>4. future'[worker.job.inference] = Prepared(answers[1].prepared)
    BY <1>t, <2>1, <2>2, Replaced
  <2> QED
    BY <1>b, <1>t, <2>1, <2>2, <2>3, <2>4, Replaced DEF Prepared
<1>13. CASE TookTicket
  <2>1. /\ worker.job.inference \in DOMAIN future
        /\ Works /\ worker' = Idle /\ jobs' = jobs
        /\ future' = [future EXCEPT ![worker.job.inference] = Ticket(answers[1].inference, answers[1].prepared)]
    BY <1>13 DEF TookTicket, Took, WorkerInv, Works, Settle
  <2>0. answers[1] \in Messages
    BY <1>13, Tailed DEF TookTicket, Took, PathTypeOK
  <2>2. Ticket(answers[1].inference, answers[1].prepared) \in Futures
    BY <1>t, <2>1, <2>0 DEF Futures, Ticket, Messages
  <2>3. DOMAIN future' = DOMAIN future
    BY <1>t, <2>1, <2>2, Replaced
  <2>4. /\ worker.op \in {"finish", "infer"} /\ answers[1].op = worker.op
        /\ answers[1].inference = worker.job.inference /\ answers # <<>>
        /\ worker.step = "receive"
    BY <1>13 DEF TookTicket, Took
  <2>5. 1 \in DOMAIN answers
    BY <2>4, Tailed DEF PathTypeOK
  <2>6. answers[1].prepared = worker.job.inference
    <3>1. CASE worker.op = "infer"
      BY <2>4, <2>5, <3>1 DEF WireInv, Sound
    <3>2. CASE worker.op = "finish"
      <4>1. answers[1].prepared = worker.job.ticket
        BY <2>1, <2>4, <2>5, <3>2 DEF WireInv, Sound
      <4>2. worker.job.ticket = worker.job.inference
        BY <2>1, <2>4, <3>2 DEF LagInv, OwnFinish
      <4> QED
        BY <4>1, <4>2
    <3> QED
      BY <2>4, <3>1, <3>2
  <2>7. CASE n = worker.job.inference
    <3>1. future'[n] = Ticket(answers[1].inference, answers[1].prepared)
      BY <1>t, <2>1, <2>2, <2>7, Replaced
    <3> QED
      BY <2>4, <2>6, <2>7, <3>1 DEF Ticket
  <2>8. CASE n # worker.job.inference
    BY <1>b, <1>t, <2>1, <2>2, <2>3, <2>8, Replaced
  <2> QED
    BY <2>7, <2>8
<1>14. CASE UNCHANGED pathVars
  BY <1>b, <1>14 DEF pathVars
<1>15. CASE Submits
  <2>1. PICK phase \in {"prepare", "infer"}, ep \in Nat, e \in Nat, d \in Nat :
            jobs' = Append(jobs, [phase |-> phase, episode |-> ep, epoch |-> e,
                                 inference |-> Len(future) + 1, delay |-> d, ticket |-> 0])
    BY <1>15 DEF Submits
  <2>2. /\ DOMAIN future' = 1..Len(future) + 1
        /\ \A k \in DOMAIN future : k \in DOMAIN future' /\ future'[k] = future[k]
        /\ future'[Len(future) + 1] = Waiting
    <3>1. future' = Append(future, Waiting) /\ Waiting \in Futures
      BY <1>15 DEF Submits, Waiting, Futures
    <3> QED
      BY <1>t, <3>1, Appended
  <2>3. /\ \A k \in DOMAIN jobs : k \in DOMAIN jobs' /\ jobs'[k] = jobs[k]
        /\ \A k \in DOMAIN jobs' :
              k \in DOMAIN jobs \/ (/\ k = Len(jobs) + 1
                                    /\ jobs'[k].inference = Len(future) + 1
                                    /\ jobs'[k].phase = phase)
    <3> DEFINE job == [phase |-> phase, episode |-> ep, epoch |-> e,
                       inference |-> Len(future) + 1, delay |-> d, ticket |-> 0]
    <3>1. job \in Jobs
      BY <1>t DEF Jobs, Phases
    <3>2. job.inference = Len(future) + 1 /\ job.phase = phase
      OBVIOUS
    <3> HIDE DEF job
    <3>3. jobs' = Append(jobs, job)
      BY <2>1 DEF job
    <3> QED
      BY <1>t, <3>1, <3>2, <3>3, Appended
  <2> QED
    BY <1>b, <1>t, <2>2 DEF Waiting
<1>16. CASE Selects
  <2>1. PICK i \in DOMAIN future, e \in Nat :
            /\ future[i].state = "prepared"
            /\ jobs' = Append(jobs, [phase |-> "finish", episode |-> 1, epoch |-> e,
                                     inference |-> i, delay |-> Delay,
                                     ticket |-> future[i].prepared])
            /\ future' = [future EXCEPT ![i] = Waiting]
    BY <1>16 DEF Selects
  <2>2. /\ DOMAIN future' = DOMAIN future /\ future'[i] = Waiting
        /\ \A k \in DOMAIN future : k # i => future'[k] = future[k]
    BY <1>t, <2>1, Replaced DEF Waiting, Futures
  <2>3. /\ \A k \in DOMAIN jobs : k \in DOMAIN jobs' /\ jobs'[k] = jobs[k]
        /\ \A k \in DOMAIN jobs' :
              k \in DOMAIN jobs \/ (/\ k = Len(jobs) + 1 /\ jobs'[k].inference = i
                                    /\ jobs'[k].phase = "finish"
                                    /\ jobs'[k].ticket = future[i].prepared)
    <3> DEFINE job == [phase |-> "finish", episode |-> 1, epoch |-> e, inference |-> i,
                       delay |-> Delay, ticket |-> future[i].prepared]
    <3>0. future[i] \in Futures /\ i \in Nat
      BY <1>t, ElementOfSeq
    <3>1. job \in Jobs
      BY <1>t, <3>0, PathAssumption DEF Jobs, Phases, Futures
    <3>2. job.inference = i /\ job.phase = "finish" /\ job.ticket = future[i].prepared
      OBVIOUS
    <3> HIDE DEF job
    <3>3. jobs' = Append(jobs, job)
      BY <2>1 DEF job
    <3> QED
      BY <1>t, <3>1, <3>2, <3>3, Appended
  <2> QED
    BY <1>b, <2>2 DEF Waiting
<1>17. CASE BeginsEpoch
  BY <1>b, <1>17 DEF BeginsEpoch
<1>18. CASE CloseClient
  <2>1. DOMAIN future' = DOMAIN future
    BY <1>18, CancelledType
  <2>2. /\ \A i \in DOMAIN future :
              \/ future'[i] = future[i]
              \/ future'[i] = Cancelled /\ \E k \in DOMAIN jobs : jobs[k].inference = i
        /\ jobs' = <<>>
        /\ UNCHANGED <<worker, requests, answers, connection>>
    BY <1>18, <2>1 DEF CloseClient, serverVars
  <2> QED
    BY <1>b, <2>1, <2>2 DEF Cancelled
<1> QED
  BY <1>1, <1>2, <1>3, <1>4, <1>5, <1>6, <1>7, <1>8, <1>9, <1>10, <1>11, <1>12,
     <1>13, <1>14, <1>15, <1>16, <1>17, <1>18
  DEF PathMove, Plain

(* Inferences are added, and a ticket stays.                               *)
LEMMA FutureGrows ==
    ASSUME PathTypeOK, JobInv, WorkerInv, PathMove
    PROVE  /\ DOMAIN future \subseteq DOMAIN future' /\ Len(future) <= Len(future')
           /\ Len(future) \in Nat /\ DOMAIN future = 1..Len(future)
           /\ \A i \in DOMAIN future : future[i].state = "ticket" => future'[i] = future[i]
<1> USE DEF serverVars, clientVars, beneath
<1>t. /\ \A i \in DOMAIN future : i \in Nat /\ i <= Len(future) /\ i # 0
      /\ Len(future) \in Nat /\ DOMAIN future = 1..Len(future)
      /\ future \in Seq(Futures) /\ jobs \in Seq(Jobs)
  BY LenProperties DEF PathTypeOK
<1>1. CASE ServerStarts
  BY <1>1 DEF ServerStarts
<1>2. CASE ServerDies
  BY <1>2 DEF ServerDies, Strike
<1>3. CASE Answer
  BY <1>3 DEF Answer
<1>4. CASE Refuse
  BY <1>4 DEF Refuse, Strike
<1>5. CASE Connect
  BY <1>5 DEF Connect
<1>6. CASE Hangs
  BY <1>6 DEF Hangs
<1>7. CASE TakeJob
  BY <1>7 DEF TakeJob
<1>8. CASE Send
  BY <1>8 DEF Send
<1>9. CASE GivesUp
  <2>1. /\ worker.job.inference \in DOMAIN future
        /\ Works /\ worker' = Idle /\ jobs' = jobs
        /\ future' = [future EXCEPT ![worker.job.inference] = Failed]
    BY <1>9 DEF GivesUp, Took, WorkerInv, Works, Settle
  <2>2. Failed \in Futures
    BY <1>t, <2>1 DEF Futures, Failed
  <2>3. DOMAIN future' = DOMAIN future
    BY <1>t, <2>1, <2>2, Replaced
  <2>4. /\ Len(future') = Len(future)
        /\ \A n \in DOMAIN future : n # worker.job.inference => future'[n] = future[n]
    BY <1>t, <2>1, <2>2, Replaced
  <2>5. future[worker.job.inference].state # "ticket"
    BY <2>1 DEF WorkerInv, Waiting
  <2> QED
    BY <1>t, <2>3, <2>4, <2>5
<1>10. CASE TookBegin
  BY <1>10 DEF TookBegin, Took
<1>11. CASE TookCandidates
  BY <1>11 DEF TookCandidates, Took
<1>12. CASE TookPrepared
  <2>1. /\ worker.job.inference \in DOMAIN future
        /\ Works /\ worker' = Idle /\ jobs' = jobs
        /\ future' = [future EXCEPT ![worker.job.inference] = Prepared(answers[1].prepared)]
    BY <1>12 DEF TookPrepared, Took, WorkerInv, Works, Settle
  <2>0. answers[1] \in Messages
    BY <1>12, Tailed DEF TookPrepared, Took, PathTypeOK
  <2>2. Prepared(answers[1].prepared) \in Futures
    BY <1>t, <2>1, <2>0 DEF Futures, Prepared, Messages
  <2>3. DOMAIN future' = DOMAIN future
    BY <1>t, <2>1, <2>2, Replaced
  <2>4. /\ Len(future') = Len(future)
        /\ \A n \in DOMAIN future : n # worker.job.inference => future'[n] = future[n]
    BY <1>t, <2>1, <2>2, Replaced
  <2>5. future[worker.job.inference].state # "ticket"
    BY <2>1 DEF WorkerInv, Waiting
  <2> QED
    BY <1>t, <2>3, <2>4, <2>5
<1>13. CASE TookTicket
  <2>1. /\ worker.job.inference \in DOMAIN future
        /\ Works /\ worker' = Idle /\ jobs' = jobs
        /\ future' = [future EXCEPT ![worker.job.inference] = Ticket(answers[1].inference, answers[1].prepared)]
    BY <1>13 DEF TookTicket, Took, WorkerInv, Works, Settle
  <2>0. answers[1] \in Messages
    BY <1>13, Tailed DEF TookTicket, Took, PathTypeOK
  <2>2. Ticket(answers[1].inference, answers[1].prepared) \in Futures
    BY <1>t, <2>1, <2>0 DEF Futures, Ticket, Messages
  <2>3. DOMAIN future' = DOMAIN future
    BY <1>t, <2>1, <2>2, Replaced
  <2>4. /\ Len(future') = Len(future)
        /\ \A n \in DOMAIN future : n # worker.job.inference => future'[n] = future[n]
    BY <1>t, <2>1, <2>2, Replaced
  <2>5. future[worker.job.inference].state # "ticket"
    BY <2>1 DEF WorkerInv, Waiting
  <2> QED
    BY <1>t, <2>3, <2>4, <2>5
<1>14. CASE UNCHANGED pathVars
  BY <1>14 DEF pathVars
<1>15. CASE Submits
  <2>1. PICK phase \in {"prepare", "infer"}, ep \in Nat, e \in Nat, d \in Nat :
            jobs' = Append(jobs, [phase |-> phase, episode |-> ep, epoch |-> e,
                                 inference |-> Len(future) + 1, delay |-> d, ticket |-> 0])
    BY <1>15 DEF Submits
  <2>2. /\ DOMAIN future' = 1..Len(future) + 1
        /\ \A k \in DOMAIN future : k \in DOMAIN future' /\ future'[k] = future[k]
        /\ future'[Len(future) + 1] = Waiting
    <3>1. future' = Append(future, Waiting) /\ Waiting \in Futures
      BY <1>15 DEF Submits, Waiting, Futures
    <3> QED
      BY <1>t, <3>1, Appended
  <2>3. /\ \A k \in DOMAIN jobs : k \in DOMAIN jobs' /\ jobs'[k] = jobs[k]
        /\ \A k \in DOMAIN jobs' :
              k \in DOMAIN jobs \/ (/\ k = Len(jobs) + 1
                                    /\ jobs'[k].inference = Len(future) + 1
                                    /\ jobs'[k].phase = phase)
    <3> DEFINE job == [phase |-> phase, episode |-> ep, epoch |-> e,
                       inference |-> Len(future) + 1, delay |-> d, ticket |-> 0]
    <3>1. job \in Jobs
      BY <1>t DEF Jobs, Phases
    <3>2. job.inference = Len(future) + 1 /\ job.phase = phase
      OBVIOUS
    <3> HIDE DEF job
    <3>3. jobs' = Append(jobs, job)
      BY <2>1 DEF job
    <3> QED
      BY <1>t, <3>1, <3>2, <3>3, Appended
  <2>4. Len(future') = Len(future) + 1
    BY <1>15, <1>t, Appended DEF Submits, Waiting, Futures
  <2> QED
    BY <1>t, <2>2, <2>4
<1>16. CASE Selects
  <2>1. PICK i \in DOMAIN future, e \in Nat :
            /\ future[i].state = "prepared"
            /\ jobs' = Append(jobs, [phase |-> "finish", episode |-> 1, epoch |-> e,
                                     inference |-> i, delay |-> Delay,
                                     ticket |-> future[i].prepared])
            /\ future' = [future EXCEPT ![i] = Waiting]
    BY <1>16 DEF Selects
  <2>2. /\ DOMAIN future' = DOMAIN future /\ future'[i] = Waiting
        /\ \A k \in DOMAIN future : k # i => future'[k] = future[k]
    BY <1>t, <2>1, Replaced DEF Waiting, Futures
  <2>3. /\ \A k \in DOMAIN jobs : k \in DOMAIN jobs' /\ jobs'[k] = jobs[k]
        /\ \A k \in DOMAIN jobs' :
              k \in DOMAIN jobs \/ (/\ k = Len(jobs) + 1 /\ jobs'[k].inference = i
                                    /\ jobs'[k].phase = "finish"
                                    /\ jobs'[k].ticket = future[i].prepared)
    <3> DEFINE job == [phase |-> "finish", episode |-> 1, epoch |-> e, inference |-> i,
                       delay |-> Delay, ticket |-> future[i].prepared]
    <3>0. future[i] \in Futures /\ i \in Nat
      BY <1>t, ElementOfSeq
    <3>1. job \in Jobs
      BY <1>t, <3>0, PathAssumption DEF Jobs, Phases, Futures
    <3>2. job.inference = i /\ job.phase = "finish" /\ job.ticket = future[i].prepared
      OBVIOUS
    <3> HIDE DEF job
    <3>3. jobs' = Append(jobs, job)
      BY <2>1 DEF job
    <3> QED
      BY <1>t, <3>1, <3>2, <3>3, Appended
  <2>4. Len(future') = Len(future)
    BY <1>t, <2>1, Replaced DEF Waiting, Futures
  <2> QED
    BY <1>t, <2>1, <2>2, <2>4
<1>17. CASE BeginsEpoch
  BY <1>17 DEF BeginsEpoch
<1>18. CASE CloseClient
  <2>1. DOMAIN future' = DOMAIN future
    BY <1>18, CancelledType
  <2>2. /\ \A i \in DOMAIN future :
              \/ future'[i] = future[i]
              \/ future'[i] = Cancelled /\ \E k \in DOMAIN jobs : jobs[k].inference = i
        /\ jobs' = <<>>
        /\ UNCHANGED <<worker, requests, answers, connection>>
    BY <1>18, <2>1 DEF CloseClient, serverVars
  <2>4. Len(future') = Len(future)
    BY <1>18, CancelledType
  <2>5. \A k \in DOMAIN jobs : future[jobs[k].inference].state # "ticket"
    BY DEF JobInv, Waiting
  <2> QED
    BY <1>t, <2>1, <2>2, <2>4, <2>5
<1> QED
  BY <1>1, <1>2, <1>3, <1>4, <1>5, <1>6, <1>7, <1>8, <1>9, <1>10, <1>11, <1>12,
     <1>13, <1>14, <1>15, <1>16, <1>17, <1>18
  DEF PathMove, Plain

-----------------------------------------------------------------------------
(* The scheduler's part of the invariant. *)

(* Under a move of the path alone, the next window keeps its jobs, and is   *)
(* not selected but by the scheduler.                                      *)
LEMMA PlainPending ==
    ASSUME PathTypeOK, JobInv, WorkerInv, PendingInv, NextWindow, UNCHANGED expoVars, Plain
    PROVE  /\ \A k \in DOMAIN jobs' : OfNextWindow(jobs[k])'
           /\ Works' => OfNextWindow(worker.job)'
           /\ Selected(pending.inference)' => Selected(pending.inference)
<1> USE DEF serverVars, clientVars, beneath
<1>t. /\ \A i \in DOMAIN future : i \in Nat /\ i <= Len(future) /\ i # 0
      /\ Len(future) \in Nat /\ DOMAIN future = 1..Len(future)
      /\ future \in Seq(Futures) /\ jobs \in Seq(Jobs)
  BY LenProperties DEF PathTypeOK
<1>p. /\ pending.inference \in DOMAIN future /\ pending' = pending
      /\ \A k \in DOMAIN jobs : OfNextWindow(jobs[k])
      /\ Works => OfNextWindow(worker.job)
  BY DEF PendingInv, NextWindow, expoVars
<1> USE DEF OfNextWindow, Selected
<1>1. CASE ServerStarts
  <2>1. UNCHANGED <<worker, jobs, future>>
    BY <1>1 DEF ServerStarts
  <2> QED
    BY <1>p, <2>1 DEF Works
<1>2. CASE ServerDies
  <2>1. UNCHANGED <<worker, jobs, future>>
    BY <1>2 DEF ServerDies
  <2> QED
    BY <1>p, <2>1 DEF Works
<1>3. CASE Answer
  <2>1. UNCHANGED <<worker, jobs, future>>
    BY <1>3 DEF Answer
  <2> QED
    BY <1>p, <2>1 DEF Works
<1>4. CASE Refuse
  <2>1. UNCHANGED <<worker, jobs, future>>
    BY <1>4 DEF Refuse
  <2> QED
    BY <1>p, <2>1 DEF Works
<1>5. CASE Connect
  <2>1. UNCHANGED <<worker, jobs, future>>
    BY <1>5 DEF Connect
  <2> QED
    BY <1>p, <2>1 DEF Works
<1>6. CASE Hangs
  <2>1. UNCHANGED <<worker, jobs, future>>
    BY <1>6 DEF Hangs
  <2> QED
    BY <1>p, <2>1 DEF Works
<1>7. CASE TakeJob
  <2>1. /\ worker = Idle /\ jobs # <<>> /\ jobs' = Tail(jobs)
        /\ worker'.step = "send" /\ worker'.job = jobs[1]
        /\ worker'.op = jobs[1].phase \/ (worker'.op = "begin" /\ jobs[1].phase = "prepare")
        /\ UNCHANGED <<future, requests, answers, connection>>
    BY <1>t, <1>7, Tailed DEF TakeJob
  <2>2. /\ 1 \in DOMAIN jobs
        /\ \A k \in DOMAIN jobs' :
              k \in Nat /\ k + 1 # 1 /\ k + 1 \in DOMAIN jobs /\ jobs'[k] = jobs[k + 1]
    BY <1>t, <2>1, Tailed
  <2> QED
    BY <1>p, <2>1, <2>2 DEF Works
<1>8. CASE Send
  <2>1. worker'.job = worker.job /\ Works /\ UNCHANGED <<future, jobs>>
    BY <1>8 DEF Send, Took, PathTypeOK, WorkerTypeOK, Works
  <2> QED
    BY <1>p, <2>1
<1>9. CASE GivesUp
  <2>1. /\ worker.job.inference \in DOMAIN future
        /\ Works /\ worker' = Idle /\ jobs' = jobs
        /\ future' = [future EXCEPT ![worker.job.inference] = Failed]
    BY <1>9 DEF GivesUp, Took, WorkerInv, Works, Settle
  <2>2. Failed \in Futures
    BY <1>t, <2>1 DEF Futures, Failed
  <2>3. DOMAIN future' = DOMAIN future
    BY <1>t, <2>1, <2>2, Replaced
  <2>4. ~Works'
    BY <2>1 DEF Works, Idle
  <2>5. future'[worker.job.inference] = Failed
    BY <1>t, <2>1, <2>2, Replaced
  <2>6. future'[pending.inference].state = "ticket" => future[pending.inference].state = "ticket"
    <3>1. CASE worker.job.inference = pending.inference
      BY <2>5, <3>1 DEF Failed
    <3>2. CASE worker.job.inference # pending.inference
      BY <1>p, <1>t, <2>1, <2>2, <3>2, Replaced
    <3> QED
      BY <3>1, <3>2
  <2> QED
    BY <1>p, <2>1, <2>4, <2>6
<1>10. CASE TookBegin
  <2>1. worker'.job = worker.job /\ Works /\ UNCHANGED <<future, jobs>>
    BY <1>10 DEF TookBegin, Took, PathTypeOK, WorkerTypeOK, Works
  <2> QED
    BY <1>p, <2>1
<1>11. CASE TookCandidates
  <2>1. /\ worker'.job.inference = worker.job.inference
        /\ worker'.job.phase = worker.job.phase /\ worker'.job.delay = worker.job.delay
        /\ Works /\ UNCHANGED <<future, jobs>>
    BY <1>11 DEF TookCandidates, Took, PathTypeOK, WorkerTypeOK, Jobs, Works
  <2> QED
    BY <1>p, <2>1
<1>12. CASE TookPrepared
  <2>1. /\ worker.job.inference \in DOMAIN future
        /\ Works /\ worker' = Idle /\ jobs' = jobs
        /\ future' = [future EXCEPT ![worker.job.inference] = Prepared(answers[1].prepared)]
    BY <1>12 DEF TookPrepared, Took, WorkerInv, Works, Settle
  <2>0. answers[1] \in Messages
    BY <1>12, Tailed DEF TookPrepared, Took, PathTypeOK
  <2>2. Prepared(answers[1].prepared) \in Futures
    BY <1>t, <2>1, <2>0 DEF Futures, Prepared, Messages
  <2>3. DOMAIN future' = DOMAIN future
    BY <1>t, <2>1, <2>2, Replaced
  <2>4. ~Works'
    BY <2>1 DEF Works, Idle
  <2>5. future'[worker.job.inference] = Prepared(answers[1].prepared)
    BY <1>t, <2>1, <2>2, Replaced
  <2>6. future'[pending.inference].state = "ticket" => future[pending.inference].state = "ticket"
    <3>1. CASE worker.job.inference = pending.inference
      BY <2>5, <3>1 DEF Prepared
    <3>2. CASE worker.job.inference # pending.inference
      BY <1>p, <1>t, <2>1, <2>2, <3>2, Replaced
    <3> QED
      BY <3>1, <3>2
  <2> QED
    BY <1>p, <2>1, <2>4, <2>6
<1>13. CASE TookTicket
  <2>1. /\ worker.job.inference \in DOMAIN future
        /\ Works /\ worker' = Idle /\ jobs' = jobs
        /\ future' = [future EXCEPT ![worker.job.inference] = Ticket(answers[1].inference, answers[1].prepared)]
    BY <1>13 DEF TookTicket, Took, WorkerInv, Works, Settle
  <2>0. answers[1] \in Messages
    BY <1>13, Tailed DEF TookTicket, Took, PathTypeOK
  <2>2. Ticket(answers[1].inference, answers[1].prepared) \in Futures
    BY <1>t, <2>1, <2>0 DEF Futures, Ticket, Messages
  <2>3. DOMAIN future' = DOMAIN future
    BY <1>t, <2>1, <2>2, Replaced
  <2>4. ~Works'
    BY <2>1 DEF Works, Idle
  <2>5. future'[worker.job.inference] = Ticket(answers[1].inference, answers[1].prepared)
    BY <1>t, <2>1, <2>2, Replaced
  <2>6. worker.job.inference = pending.inference => worker.job.phase = "finish"
    <3>1. worker.op \in {"finish", "infer"}
      BY <1>13 DEF TookTicket
    <3> QED
      BY <1>p, <2>1, <3>1, PathAssumption DEF WorkerInv
  <2>7. future'[pending.inference].state = "ticket" =>
            future[pending.inference].state = "ticket" \/ worker.job.inference = pending.inference
    BY <1>p, <1>t, <2>1, <2>2, Replaced
  <2> QED
    BY <1>p, <2>1, <2>4, <2>6, <2>7
<1>14. CASE UNCHANGED pathVars
  <2>1. UNCHANGED <<worker, jobs, future>>
    BY <1>14 DEF pathVars
  <2> QED
    BY <1>p, <2>1 DEF Works
<1>15. CASE Submits
  <2>1. PICK phase \in {"prepare", "infer"}, ep \in Nat, e \in Nat, d \in Nat :
            jobs' = Append(jobs, [phase |-> phase, episode |-> ep, epoch |-> e,
                                 inference |-> Len(future) + 1, delay |-> d, ticket |-> 0])
    BY <1>15 DEF Submits
  <2>2. /\ DOMAIN future' = 1..Len(future) + 1
        /\ \A k \in DOMAIN future : k \in DOMAIN future' /\ future'[k] = future[k]
        /\ future'[Len(future) + 1] = Waiting
    <3>1. future' = Append(future, Waiting) /\ Waiting \in Futures
      BY <1>15 DEF Submits, Waiting, Futures
    <3> QED
      BY <1>t, <3>1, Appended
  <2>3. /\ \A k \in DOMAIN jobs : k \in DOMAIN jobs' /\ jobs'[k] = jobs[k]
        /\ \A k \in DOMAIN jobs' :
              k \in DOMAIN jobs \/ (/\ k = Len(jobs) + 1
                                    /\ jobs'[k].inference = Len(future) + 1
                                    /\ jobs'[k].phase = phase)
    <3> DEFINE job == [phase |-> phase, episode |-> ep, epoch |-> e,
                       inference |-> Len(future) + 1, delay |-> d, ticket |-> 0]
    <3>1. job \in Jobs
      BY <1>t DEF Jobs, Phases
    <3>2. job.inference = Len(future) + 1 /\ job.phase = phase
      OBVIOUS
    <3> HIDE DEF job
    <3>3. jobs' = Append(jobs, job)
      BY <2>1 DEF job
    <3> QED
      BY <1>t, <3>1, <3>2, <3>3, Appended
  <2>4. worker' = worker
    BY <1>15 DEF Submits
  <2>5. pending.inference # Len(future) + 1
    BY <1>p, <1>t
  <2> QED
    BY <1>p, <2>2, <2>3, <2>4, <2>5 DEF Works
<1>16. CASE BeginsEpoch
  <2>1. UNCHANGED <<worker, jobs, future>>
    BY <1>16 DEF BeginsEpoch
  <2> QED
    BY <1>p, <2>1 DEF Works
<1>17. CASE CloseClient
  <2>1. DOMAIN future' = DOMAIN future
    BY <1>17, CancelledType
  <2>2. /\ \A i \in DOMAIN future :
              \/ future'[i] = future[i]
              \/ future'[i] = Cancelled /\ \E k \in DOMAIN jobs : jobs[k].inference = i
        /\ jobs' = <<>>
        /\ UNCHANGED <<worker, requests, answers, connection>>
    BY <1>17, <2>1 DEF CloseClient, serverVars
  <2>3. DOMAIN jobs' = {}
    BY <2>2
  <2> QED
    BY <1>p, <2>2, <2>3 DEF Works, Cancelled
<1> QED
  BY <1>1, <1>2, <1>3, <1>4, <1>5, <1>6, <1>7, <1>8, <1>9, <1>10, <1>11, <1>12,
     <1>13, <1>14, <1>15, <1>16, <1>17
  DEF Plain

(* A step is one of the scheduler's, or leaves the scheduler alone.         *)
Others == Plain /\ UNCHANGED expoVars

(* The steps that move the scheduler. *)
LEMMA SchedulerMoves ==
    ASSUME TypeOK, UnconnectedInv, WorkerInv, [Next]_vars
    PROVE  \/ Prepare \/ PolicyReady \/ CloseGate \/ ClearPending \/ ClearFinishing
           \/ ExecutorNext \/ Others
<1>1. CASE ExpoEnds
  BY <1>1 DEF ExpoEnds, Others, Plain
<1>2. CASE (PathNext \/ HookNext \/ LoopNext) /\ UNCHANGED expoVars
  BY <1>2, PlainMoves DEF Others
<1>3. CASE UNCHANGED vars
  BY <1>3 DEF vars, Others, Plain
<1> QED
  BY <1>1, <1>2, <1>3 DEF Next, SessionNext

(* What a window is made of.                                                *)
IsWindow(w, n, start) ==
    /\ w \in Seq(Commands) /\ Len(w) = Steps /\ DOMAIN w = 1..Steps
    /\ Steps \in Nat \ {0}
    /\ \A k \in 1..Steps : w[k].inference = n
    /\ \A k \in 1..Steps : w[k].index = start + k - 1
    /\ \A k \in 1..Steps : w[k].final <=> k = Steps

(* Window makes the window of its inference. *)
LEMMA WindowIs ==
    ASSUME NEW n \in Nat, NEW start \in Nat
    PROVE  IsWindow(Window(n, start), n, start)
<1>1. Steps \in Nat /\ Delay \in Nat \ {0} /\ Delay < Steps
  BY WindowAssumption, PathAssumption
<1>2. Window(n, start) \in [1..Steps -> Commands]
  BY <1>1 DEF Window, Commands
<1>3. /\ Window(n, start) \in Seq(Commands)
      /\ Len(Window(n, start)) = Steps /\ DOMAIN Window(n, start) = 1..Steps
  BY <1>1, <1>2, FunctionIsSeq
<1>4. \A k \in 1..Steps : Window(n, start)[k].inference = n
  BY <1>1 DEF Window
<1>5. \A k \in 1..Steps : Window(n, start)[k].index = start + k - 1
  BY <1>1 DEF Window
<1>6. \A k \in 1..Steps : Window(n, start)[k].final <=> k = Steps
  BY <1>1 DEF Window
<1>7. Steps \in Nat \ {0}
  BY <1>1
<1> QED
  BY <1>3, <1>4, <1>5, <1>6, <1>7 DEF IsWindow

(* The scheduler keeps its types.                                           *)
LEMMA ExpoTypeStep ==
    ASSUME TypeOK, UnconnectedInv, WorkerInv, PendingInv, [Next]_vars
    PROVE  ExpoTypeOK'
<1> USE DEF ExpoTypeOK
<1>t. ExpoTypeOK /\ PathTypeOK
  BY DEF TypeOK
<1>n. NoPending \in Pendings /\ NoCommand \in Commands /\ <<>> \in Seq(Commands)
  BY EmptySeq DEF NoPending, NoCommand, Pendings, Commands
<1>1. CASE Prepare
  <2>1. Len(future) + 1 \in Nat
    BY <1>t, LenProperties DEF PathTypeOK
  <2> QED
    BY <1>1, <1>t, <2>1 DEF Prepare, Pendings
<1>2. CASE PolicyReady
  <2>1. pending.inference \in Nat
    BY <1>t DEF Pendings
  <2>2. queue' \in Seq(Commands)
    BY <1>2, <2>1, WindowIs DEF PolicyReady, IsWindow
  <2> QED
    BY <1>2, <1>t, <1>n, <2>2 DEF PolicyReady
<1>3. CASE CloseGate
  BY <1>3, <1>t, <1>n DEF CloseGate
<1>4. CASE ClearPending
  <2>1. epoch' \in Nat
    BY <1>4, <1>t DEF ClearPending
  <2> QED
    BY <1>4, <1>t, <1>n, <2>1 DEF ClearPending
<1>5. CASE ClearFinishing
  BY <1>5, <1>t, <1>n DEF ClearFinishing, BeginClientEpoch
<1>6. CASE Begin
  BY <1>6, <1>t, <1>n DEF Begin
<1>7. CASE DeadlineMissed
  BY <1>7, <1>t, <1>n DEF DeadlineMissed, Goto
<1>8. CASE Accept
  BY <1>8, <1>t, <1>n DEF Accept
<1>9. CASE RejectWindow
  BY <1>9, <1>t, <1>n DEF RejectWindow, Goto
<1>10. CASE Splice
  <2>1. executor.pending.inference \in Nat
    BY <1>t DEF Pendings
  <2>2. Window(executor.pending.inference, Delay) \in Seq(Commands)
    BY <2>1, WindowIs, PathAssumption DEF IsWindow
  <2>3. Goto("publish") \/ Goto("fail")
    BY <1>10 DEF Splice
  <2>4. executor' \in [step : {"idle", "publish", "fail", "accept", "splice"},
                     finishing : BOOLEAN, pending : Pendings, epoch : Nat, last : Commands]
    BY <1>t, <2>3 DEF Goto
  <2>5. queue' \in Seq(Commands)
    BY <1>10, <1>t, <2>2 DEF Splice
  <2>6. /\ pending' \in Pendings /\ finishing' \in BOOLEAN
        /\ UNCHANGED <<epoch, gateOpen, last, fault, control>>
    BY <1>10, <1>t, <1>n DEF Splice
  <2>7. issued' \in Nat
    BY <1>10, <1>t DEF Splice
  <2> QED
    BY <1>t, <2>4, <2>5, <2>6, <2>7
<1>11. CASE NotDue
  BY <1>11, <1>t, <1>n DEF NotDue, Goto
<1>12. CASE Exhausted
  BY <1>12, <1>t, <1>n DEF Exhausted, Goto
<1>13. CASE Publish
  <2>1. Head(queue) \in Commands /\ Tail(queue) \in Seq(Commands)
    BY <1>13, <1>t, HeadTailProperties DEF Publish
  <2>2. Len(future) + 1 \in Nat
    BY <1>t, LenProperties DEF PathTypeOK
  <2>3. pending' \in Pendings /\ finishing' \in BOOLEAN
    <3>1. pending' = pending \/ pending' = [inference |-> Len(future) + 1, bootstrap |-> FALSE]
      BY <1>13 DEF Publish, Prefetch, Select
    <3>2. finishing' = finishing \/ finishing' = TRUE
      BY <1>13 DEF Publish, Prefetch, Select
    <3>3. pending' \in Pendings
      <4>1. CASE pending' = pending
        BY <1>t, <4>1
      <4>2. CASE pending' = [inference |-> Len(future) + 1, bootstrap |-> FALSE]
        <5> HIDE DEF ExpoTypeOK
        <5> QED
          BY <2>2, <4>2 DEF Pendings
      <4> QED
        BY <3>1, <4>1, <4>2
    <3>4. finishing' \in BOOLEAN
      BY <1>t, <3>2, Zenon
    <3> QED
      BY <3>3, <3>4
  <2>4. Goto("idle") \/ Goto("fail")
    BY <1>13 DEF Publish, Prefetch, Select
  <2>5. executor' \in [step : {"idle", "publish", "fail", "accept", "splice"},
                     finishing : BOOLEAN, pending : Pendings, epoch : Nat, last : Commands]
    BY <1>t, <2>4 DEF Goto
  <2> QED
    BY <1>13, <1>t, <2>1, <2>3, <2>5 DEF Publish
<1>14. CASE Fail
  BY <1>14, <1>t, <1>n DEF Fail, Resting
<1>15. CASE Others
  BY <1>15, <1>t DEF Others, expoVars
<1> QED
  BY <1>1, <1>2, <1>3, <1>4, <1>5, <1>6, <1>7, <1>8, <1>9, <1>10, <1>11, <1>12,
     <1>13, <1>14, <1>15, SchedulerMoves DEF ExecutorNext

(* The gate is open for the policy only, and a segment begins with nothing. *)
LEMMA ControlStep ==
    ASSUME TypeOK, UnconnectedInv, WorkerInv, ControlInv, [Next]_vars
    PROVE  ControlInv'
<1> USE DEF ControlInv
<1>1. CASE Prepare
  BY <1>1 DEF Prepare, Submitted
<1>2. CASE PolicyReady
  BY <1>2 DEF PolicyReady
<1>3. CASE CloseGate
  BY <1>3 DEF CloseGate
<1>4. CASE ClearPending
  BY <1>4 DEF ClearPending
<1>5. CASE ClearFinishing
  BY <1>5 DEF ClearFinishing, BeginClientEpoch
<1>6. CASE Begin
  BY <1>6 DEF Begin
<1>7. CASE DeadlineMissed
  BY <1>7 DEF DeadlineMissed
<1>8. CASE Accept
  BY <1>8 DEF Accept
<1>9. CASE RejectWindow
  BY <1>9 DEF RejectWindow
<1>10. CASE Splice
  BY <1>10 DEF Splice
<1>11. CASE NotDue
  BY <1>11 DEF NotDue
<1>12. CASE Exhausted
  BY <1>12 DEF Exhausted
<1>13. CASE Publish
  BY <1>13 DEF Publish, Prefetch, Select
<1>14. CASE Fail
  BY <1>14 DEF Fail
<1>15. CASE Others
  BY <1>15 DEF Others, expoVars
<1> QED
  BY <1>1, <1>2, <1>3, <1>4, <1>5, <1>6, <1>7, <1>8, <1>9, <1>10, <1>11, <1>12,
     <1>13, <1>14, <1>15, SchedulerMoves DEF ExecutorNext

(* What is published is the head of the queue.                              *)
LEMMA Published ==
    ASSUME ExpoTypeOK, QueueInv, Publish
    PROVE  /\ queue \in Seq(Commands) /\ queue # <<>> /\ Len(queue) \in Nat \ {0}
           /\ DOMAIN queue = 1..Len(queue)
           /\ queue[1] \in Commands /\ last' = queue[1] /\ 1 \in DOMAIN queue
           /\ queue' \in Seq(Commands) /\ Len(queue') = Len(queue) - 1
           /\ \A k \in DOMAIN queue' :
                  k \in 1..Len(queue) - 1 /\ k + 1 \in DOMAIN queue /\ queue'[k] = queue[k + 1]
           /\ issued \in Nat /\ Len(queue) + issued = Steps
<1>1. queue \in Seq(Commands) /\ queue # <<>> /\ queue' = Tail(queue) /\ last' = Head(queue)
  BY DEF Publish, ExpoTypeOK
<1>2. DOMAIN queue = 1..Len(queue)
  BY <1>1, LenProperties
<1> QED
  BY <1>1, <1>2, Tailed DEF QueueInv, ExpoTypeOK

(* The submission of the next window's candidates, and the selection.      *)
LEMMA PublishPending ==
    ASSUME TypeOK, JobInv, WorkerInv, PendingInv, QueueInv, Publish
    PROVE  PendingInv'
<1>t. /\ \A n \in DOMAIN future : n \in Nat /\ n <= Len(future) /\ n # 0
      /\ Len(future) \in Nat /\ DOMAIN future = 1..Len(future)
      /\ future \in Seq(Futures) /\ jobs \in Seq(Jobs)
      /\ queue \in Seq(Commands) /\ last \in Commands
  BY LenProperties DEF TypeOK, PathTypeOK, ExpoTypeOK
<1>g. PathTypeOK
  BY DEF TypeOK
<1>p. /\ queue # <<>> /\ Len(queue) \in Nat \ {0} /\ DOMAIN queue = 1..Len(queue)
      /\ last' = queue[1] /\ 1 \in DOMAIN queue /\ queue[1] \in Commands
      /\ queue' \in Seq(Commands) /\ Len(queue') = Len(queue) - 1
      /\ \A k \in DOMAIN queue' :
             k \in 1..Len(queue) - 1 /\ k + 1 \in DOMAIN queue /\ queue'[k] = queue[k + 1]
      /\ issued \in Nat /\ Len(queue) + issued = Steps
  BY Published DEF TypeOK
<1>w. worker' = worker
  BY DEF Publish
<1>q. (Works <=> Works') /\ (Works => worker.job.inference \in DOMAIN future)
  BY <1>w DEF Works, WorkerInv
<1>1. CASE UNCHANGED <<pending, jobs, future>>
  <2>1. NextWindow => ~Selected(pending.inference)
    BY <1>p DEF PendingInv
  <2>2. NextWindow => /\ \A k \in DOMAIN queue' : queue'[k].inference < pending.inference
                      /\ last'.inference < pending.inference
    BY <1>p DEF PendingInv
  <2> QED
    BY <1>1, <1>w, <1>q, <2>1, <2>2 DEF PendingInv, NextWindow, OfNextWindow, Selected
<1>2. CASE Prefetch /\ pending' = [inference |-> Len(future) + 1, bootstrap |-> FALSE]
                   /\ Submitted("prepare", 1, epoch, Delay)
  <2> DEFINE job == [phase |-> "prepare", episode |-> 1, epoch |-> epoch,
                     inference |-> Len(future) + 1, delay |-> Delay, ticket |-> 0]
  <2>1. job \in Jobs /\ job.phase = "prepare" /\ job.delay = Delay
        /\ job.inference = Len(future) + 1
    BY <1>t, PathAssumption DEF Jobs, Phases, TypeOK, ExpoTypeOK
  <2>2. jobs' = Append(jobs, job) /\ future' = Append(future, Waiting) /\ Waiting \in Futures
    BY <1>2 DEF Submitted, Waiting, Futures
  <2>3. pending'.inference = Len(future) + 1
    BY <1>2
  <2> HIDE DEF job
  <2>4. /\ Len(future) + 1 \in DOMAIN future' /\ future'[Len(future) + 1] = Waiting
    BY <1>t, <2>2, Appended
  <2>5. \A k \in DOMAIN jobs' :
           \/ k \in DOMAIN jobs /\ jobs'[k] = jobs[k]
           \/ jobs'[k] = job
    BY <1>t, <2>1, <2>2, Appended
  <2>6. \A k \in DOMAIN jobs : jobs[k].inference # Len(future) + 1
    BY <1>t DEF JobInv
  <2>7. Works => worker.job.inference # Len(future) + 1
    BY <1>t, <1>q
  <2>8. ~Selected(pending.inference)'
    BY <1>w, <1>q, <2>1, <2>3, <2>4, <2>5, <2>6, <2>7 DEF Selected, Waiting
  <2>9. /\ \A k \in DOMAIN jobs' : OfNextWindow(jobs[k])'
        /\ Works' => OfNextWindow(worker.job)'
    BY <1>w, <1>q, <2>1, <2>3, <2>5, <2>6, <2>7 DEF OfNextWindow
  <2>10. /\ \A k \in DOMAIN queue' : queue'[k].inference < Len(future) + 1
         /\ last'.inference < Len(future) + 1
    <3>1. \A k \in DOMAIN queue : queue[k] \in Commands
      BY <1>t, ElementOfSeq, <1>p
    <3>2. \A k \in DOMAIN queue : queue[k].inference < Len(future) + 1
      <4> SUFFICES ASSUME NEW k \in DOMAIN queue PROVE queue[k].inference < Len(future) + 1
        OBVIOUS
      <4>1. queue[k].inference \in Nat
        BY <3>1 DEF Commands
      <4>2. queue[k].inference <= Len(future)
        BY DEF QueueInv
      <4> QED
        BY <1>t, <4>1, <4>2
    <3>3. \A k \in DOMAIN queue' : k + 1 \in DOMAIN queue /\ queue'[k] = queue[k + 1]
      BY <1>p
    <3>4. 1 \in DOMAIN queue /\ last' = queue[1]
      BY <1>p
    <3> QED
      BY <3>2, <3>3, <3>4
  <2>11. Len(future) + 1 # 0
    BY <1>t
  <2> QED
    BY <2>3, <2>4, <2>8, <2>9, <2>10, <2>11 DEF PendingInv
<1>3. CASE /\ issued + 1 = Steps /\ PendingDone /\ pending' = pending
           /\ jobs' = Append(jobs, [phase |-> "finish", episode |-> 1, epoch |-> epoch,
                                   inference |-> pending.inference, delay |-> Delay,
                                   ticket |-> future[pending.inference].prepared])
           /\ future' = [future EXCEPT ![pending.inference] = Waiting]
  <2>1. pending.inference \in DOMAIN future
    BY <1>3 DEF PendingDone, PendingInv
  <2>2. future[pending.inference] \in Futures /\ Waiting \in Futures
    BY <1>t, <2>1, ElementOfSeq DEF Waiting, Futures
  <2>3. DOMAIN future' = DOMAIN future
    BY <1>3, <1>t, <2>1, <2>2, Replaced
  <2> DEFINE job == [phase |-> "finish", episode |-> 1, epoch |-> epoch,
                     inference |-> pending.inference, delay |-> Delay,
                     ticket |-> future[pending.inference].prepared]
  <2>4. job \in Jobs /\ job.phase = "finish"
    BY <1>t, <2>1, <2>2, PathAssumption DEF Jobs, Phases, Futures, TypeOK, ExpoTypeOK
  <2>5. jobs' = Append(jobs, job)
    BY <1>3
  <2> HIDE DEF job
  <2>6. \A k \in DOMAIN jobs' :
           \/ k \in DOMAIN jobs /\ jobs'[k] = jobs[k]
           \/ jobs'[k] = job
    BY <1>t, <2>4, <2>5, Appended
  <2>7. Len(queue) = 1 /\ queue' = <<>>
    BY <1>3, <1>p, EmptySeq
  <2>8. last'.final
    BY <1>p, <2>7 DEF QueueInv
  <2>9. NextWindow => last'.inference < pending.inference
    BY <1>p DEF PendingInv
  <2>10. NextWindow =>
           /\ \A k \in DOMAIN jobs' : OfNextWindow(jobs[k])'
           /\ Works' => OfNextWindow(worker.job)'
    BY <1>3, <1>w, <1>q, <2>4, <2>6 DEF OfNextWindow, PendingInv
  <2>11. DOMAIN queue' = {}
    BY <2>7
  <2> QED
    BY <1>3, <2>1, <2>3, <2>7, <2>8, <2>9, <2>10, <2>11 DEF PendingInv, NextWindow
<1>4. \/ UNCHANGED <<pending, jobs, future>>
      \/ Prefetch
      \/ issued + 1 = Steps /\ Select
  BY DEF Publish
<1>5. CASE Prefetch
  BY <1>1, <1>2, <1>5 DEF Prefetch
<1>6. CASE issued + 1 = Steps /\ Select
  BY <1>1, <1>3, <1>6 DEF Select
<1> QED
  BY <1>1, <1>4, <1>5, <1>6

(* The next window is prepared, and selected when the window before ended. *)
LEMMA PendingStep ==
    ASSUME TypeOK, UnconnectedInv, JobInv, WorkerInv, PendingInv, QueueInv, [Next]_vars
    PROVE  PendingInv'
<1>t. /\ \A n \in DOMAIN future : n \in Nat /\ n <= Len(future) /\ n # 0
      /\ Len(future) \in Nat /\ DOMAIN future = 1..Len(future)
      /\ future \in Seq(Futures) /\ jobs \in Seq(Jobs)
      /\ queue \in Seq(Commands) /\ last \in Commands
  BY LenProperties DEF TypeOK, PathTypeOK, ExpoTypeOK
<1>g. PathTypeOK
  BY DEF TypeOK
<1>1. CASE Prepare
  <2>1. pending' = [inference |-> Len(future) + 1, bootstrap |-> TRUE]
    BY <1>1 DEF Prepare
  <2>2. future' = Append(future, Waiting) /\ Waiting \in Futures
    BY <1>1 DEF Prepare, Submitted, Waiting, Futures
  <2>3. Len(future) + 1 \in DOMAIN future'
    BY <1>t, <2>2, Appended
  <2>4. Len(future) + 1 # 0
    BY <1>t
  <2> QED
    BY <2>1, <2>3, <2>4 DEF PendingInv, NextWindow
<1>2. CASE PolicyReady
  <2>1. pending' = NoPending
    BY <1>2 DEF PolicyReady
  <2> QED
    BY <2>1 DEF PendingInv, NextWindow, NoPending
<1>3. CASE CloseGate
  <2>1. UNCHANGED <<pending, queue, last, future, jobs, worker>>
    BY <1>3 DEF CloseGate, pathVars
  <2> QED
    BY <2>1 DEF PendingInv, NextWindow, OfNextWindow, Selected, Works
<1>4. CASE ClearPending
  <2>1. pending' = NoPending
    BY <1>4 DEF ClearPending
  <2> QED
    BY <2>1 DEF PendingInv, NextWindow, NoPending
<1>5. CASE ClearFinishing
  <2>1. UNCHANGED <<pending, queue, last, future, jobs, worker>>
    BY <1>5 DEF ClearFinishing
  <2> QED
    BY <2>1 DEF PendingInv, NextWindow, OfNextWindow, Selected, Works
<1>6. CASE Begin
  <2>1. UNCHANGED <<pending, queue, last, future, jobs, worker>>
    BY <1>6 DEF Begin, pathVars
  <2> QED
    BY <2>1 DEF PendingInv, NextWindow, OfNextWindow, Selected, Works
<1>7. CASE DeadlineMissed
  <2>1. UNCHANGED <<pending, queue, last, future, jobs, worker>>
    BY <1>7 DEF DeadlineMissed, pathVars
  <2> QED
    BY <2>1 DEF PendingInv, NextWindow, OfNextWindow, Selected, Works
<1>8. CASE Accept
  <2>1. UNCHANGED <<pending, queue, last, future, jobs, worker>>
    BY <1>8 DEF Accept, pathVars
  <2> QED
    BY <2>1 DEF PendingInv, NextWindow, OfNextWindow, Selected, Works
<1>9. CASE RejectWindow
  <2>1. pending' = NoPending
    BY <1>9 DEF RejectWindow
  <2> QED
    BY <2>1 DEF PendingInv, NextWindow, NoPending
<1>10. CASE Splice
  <2>1. pending' = NoPending \/ UNCHANGED <<pending, queue, last, future, jobs, worker>>
    BY <1>10 DEF Splice, pathVars
  <2>2. CASE pending' = NoPending
    BY <2>2 DEF PendingInv, NextWindow, NoPending
  <2>3. CASE UNCHANGED <<pending, queue, last, future, jobs, worker>>
    BY <2>3 DEF PendingInv, NextWindow, OfNextWindow, Selected, Works
  <2> QED
    BY <2>1, <2>2, <2>3
<1>11. CASE NotDue
  <2>1. UNCHANGED <<pending, queue, last, future, jobs, worker>>
    BY <1>11 DEF NotDue, pathVars
  <2> QED
    BY <2>1 DEF PendingInv, NextWindow, OfNextWindow, Selected, Works
<1>12. CASE Exhausted
  <2>1. UNCHANGED <<pending, queue, last, future, jobs, worker>>
    BY <1>12 DEF Exhausted, pathVars
  <2> QED
    BY <2>1 DEF PendingInv, NextWindow, OfNextWindow, Selected, Works
<1>13. CASE Publish
  <2> QED
    BY <1>13, PublishPending
<1>14. CASE Fail
  <2>1. pending' = NoPending \/ UNCHANGED <<pending, queue, last, future, jobs, worker>>
    BY <1>14 DEF Fail, pathVars
  <2>2. CASE pending' = NoPending
    BY <2>2 DEF PendingInv, NextWindow, NoPending
  <2>3. CASE UNCHANGED <<pending, queue, last, future, jobs, worker>>
    BY <2>3 DEF PendingInv, NextWindow, OfNextWindow, Selected, Works
  <2> QED
    BY <2>1, <2>2, <2>3
<1>15. CASE Others
  <2>1. UNCHANGED <<pending, queue, last>> /\ UNCHANGED expoVars /\ Plain
    BY <1>15 DEF Others, expoVars
  <2>2. pending.inference \in DOMAIN future => pending.inference \in DOMAIN future'
    BY <1>g, <2>1, FutureGrows DEF PathMove
  <2>3. CASE NextWindow
    <3>1. /\ \A k \in DOMAIN jobs' : OfNextWindow(jobs[k])'
          /\ Works' => OfNextWindow(worker.job)'
          /\ Selected(pending.inference)' => Selected(pending.inference)
      BY <1>g, <2>1, <2>3, PlainPending
    <3> QED
      BY <2>1, <2>2, <2>3, <3>1 DEF PendingInv
  <2>4. CASE ~NextWindow
    <3>1. ~NextWindow'
      BY <2>1, <2>4 DEF NextWindow
    <3> QED
      BY <2>1, <2>2, <3>1 DEF PendingInv
  <2> QED
    BY <2>3, <2>4
<1> QED
  BY <1>1, <1>2, <1>3, <1>4, <1>5, <1>6, <1>7, <1>8, <1>9, <1>10, <1>11, <1>12,
     <1>13, <1>14, <1>15, SchedulerMoves DEF ExecutorNext

(* A queue that nobody touches, and a window that is accepted.              *)
LEMMA KeptQueue ==
    ASSUME ExpoTypeOK, QueueInv, UNCHANGED <<queue, last, issued>>,
           Len(future) \in Nat, Len(future') \in Nat, Len(future) <= Len(future'),
           \A k \in DOMAIN queue : queue[k].inference \in Nat
    PROVE  QueueInv'
<1>1. last.inference \in Nat
  BY DEF ExpoTypeOK, Commands
<1>2. last'.inference <= Len(future')
  BY <1>1 DEF QueueInv
<1>3. \A k \in DOMAIN queue : queue[k].inference <= Len(future')
  BY DEF QueueInv
<1> QED
  BY <1>2, <1>3 DEF QueueInv, Follows

(* A new window that follows the last command keeps the queue in order. *)
LEMMA NewQueue ==
    ASSUME NEW n \in Nat, NEW start \in Nat, last \in Commands, QueueInv,
           Len(future) \in Nat, Len(future') \in Nat, Len(future) <= Len(future'),
           n <= Len(future), queue' = Window(n, start), issued' = 0, last' = last,
           Follows(Window(n, start)[1], last)
    PROVE  QueueInv'
<1>a. IsWindow(queue', n, start) /\ queue'[1] = Window(n, start)[1]
  BY WindowIs
<1>1. /\ Len(queue') = Steps /\ DOMAIN queue' = 1..Steps /\ Steps \in Nat \ {0}
      /\ \A k \in 1..Steps : queue'[k].inference = n
      /\ \A k \in 1..Steps : queue'[k].index = start + k - 1
      /\ \A k \in 1..Steps : queue'[k].final <=> k = Steps
  BY <1>a DEF IsWindow
<1>2. last'.inference <= Len(future')
  BY DEF QueueInv, Commands
<1>3. Len(queue') + issued' = Steps /\ Follows(queue[1], last)'
  BY <1>1, <1>a DEF Follows
<1>4. ASSUME NEW k \in DOMAIN queue'
      PROVE  /\ queue'[k].inference <= Len(future')
             /\ queue'[k].final <=> k = Len(queue')
             /\ k > 1 => /\ queue'[k].inference = queue'[k - 1].inference
                         /\ queue'[k].index = queue'[k - 1].index + 1
  <2>1. k \in 1..Steps /\ Steps \in Nat
    BY <1>1, <1>a
  <2>2. queue'[k].inference <= Len(future')
    BY <1>1, <2>1
  <2>3. queue'[k].final <=> k = Len(queue')
    BY <1>1, <2>1, Zenon
  <2>4. k > 1 => k - 1 \in 1..Steps
    BY <2>1
  <2>5. k > 1 => queue'[k].inference = queue'[k - 1].inference
    BY <1>1, <2>1, <2>4
  <2>6. k > 1 => queue'[k].index = queue'[k - 1].index + 1
    BY <1>1, <2>1, <2>4
  <2> QED
    BY <2>2, <2>3, <2>5, <2>6
<1> QED
  BY <1>2, <1>3, <1>4, Zenon DEF QueueInv

(* The queue stays the rest of one window.                                  *)
LEMMA QueueStep ==
    ASSUME TypeOK, UnconnectedInv, JobInv, WorkerInv, ControlInv, PendingInv, QueueInv, SpliceInv,
           [Next]_vars
    PROVE  QueueInv'
<1>t. /\ \A n \in DOMAIN future : n \in Nat /\ n <= Len(future) /\ n # 0
      /\ Len(future) \in Nat /\ DOMAIN future = 1..Len(future)
      /\ queue \in Seq(Commands) /\ last \in Commands
  BY LenProperties DEF TypeOK, PathTypeOK, ExpoTypeOK
<1>g. Len(future) <= Len(future') /\ Len(future') \in Nat
  <2>1. PathMove
    BY Moves
  <2>2. PathTypeOK' /\ Len(future) <= Len(future')
    BY <2>1, PathTypeStep, FutureGrows DEF TypeOK
  <2> QED
    BY <2>2, LenProperties DEF PathTypeOK
<1>q. \A k \in DOMAIN queue : queue[k].inference \in Nat
  <2>1. \A k \in DOMAIN queue : queue[k] \in Commands
    BY <1>t, LenProperties, ElementOfSeq
  <2> QED
    BY <2>1 DEF Commands
<1>1. CASE Prepare
  <2>1. UNCHANGED <<queue, last, issued>>
    BY <1>1 DEF Prepare
  <2> QED
    BY <1>t, <1>g, <1>q, <2>1, KeptQueue DEF TypeOK
<1>2. CASE PolicyReady
  <2>1. /\ queue' = Window(pending.inference, 0) /\ issued' = 0 /\ last' = last
        /\ last = NoCommand /\ pending.inference \in DOMAIN future
    BY <1>2 DEF PolicyReady, ControlInv, PendingInv, PendingDone
  <2>2. Follows(Window(pending.inference, 0)[1], last)
    <3>1. IsWindow(Window(pending.inference, 0), pending.inference, 0)
      BY <1>t, <2>1, WindowIs
    <3>2. Window(pending.inference, 0)[1].index = 0
      BY <3>1 DEF IsWindow
    <3> QED
      BY <2>1, <3>2 DEF Follows
  <2> QED
    BY <1>t, <1>g, <2>1, <2>2, NewQueue
<1>3. CASE CloseGate
  <2>1. UNCHANGED <<queue, last, issued>>
    BY <1>3 DEF CloseGate
  <2> QED
    BY <1>t, <1>g, <1>q, <2>1, KeptQueue DEF TypeOK
<1>4. CASE ClearPending
  <2>1. queue' = <<>> /\ last' = NoCommand
    BY <1>4 DEF ClearPending
  <2>2. last'.inference = 0 /\ DOMAIN queue' = {}
    BY <2>1 DEF NoCommand
  <2> QED
    BY <1>g, <2>1, <2>2 DEF QueueInv
<1>5. CASE ClearFinishing
  <2>1. UNCHANGED <<queue, last, issued>>
    BY <1>5 DEF ClearFinishing
  <2> QED
    BY <1>t, <1>g, <1>q, <2>1, KeptQueue DEF TypeOK
<1>6. CASE Begin
  <2>1. UNCHANGED <<queue, last, issued>>
    BY <1>6 DEF Begin
  <2> QED
    BY <1>t, <1>g, <1>q, <2>1, KeptQueue DEF TypeOK
<1>7. CASE DeadlineMissed
  <2>1. UNCHANGED <<queue, last, issued>>
    BY <1>7 DEF DeadlineMissed
  <2> QED
    BY <1>t, <1>g, <1>q, <2>1, KeptQueue DEF TypeOK
<1>8. CASE Accept
  <2>1. UNCHANGED <<queue, last, issued>>
    BY <1>8 DEF Accept
  <2> QED
    BY <1>t, <1>g, <1>q, <2>1, KeptQueue DEF TypeOK
<1>9. CASE RejectWindow
  <2>1. (queue' = <<>> /\ last' = last) \/ UNCHANGED <<queue, last, issued>>
    BY <1>9 DEF RejectWindow
  <2>2. CASE queue' = <<>> /\ last' = last
    <3>1. last.inference \in Nat /\ last.inference <= Len(future)
      BY <1>t DEF QueueInv, Commands
    <3> QED
      BY <1>t, <1>g, <2>2, <3>1 DEF QueueInv
  <2>3. CASE UNCHANGED <<queue, last, issued>>
    BY <1>t, <1>g, <1>q, <2>3, KeptQueue DEF TypeOK
  <2> QED
    BY <2>1, <2>2, <2>3
<1>10. CASE Splice
  <2>1. CASE UNCHANGED <<queue, last, issued>>
    BY <1>t, <1>g, <1>q, <2>1, KeptQueue DEF TypeOK
  <2>2. CASE /\ executor.pending = pending
             /\ queue' = Window(pending.inference, Delay) /\ issued' = 0 /\ last' = last
    <3>1. /\ pending.inference \in DOMAIN future /\ ~pending.bootstrap
          /\ future[pending.inference].state = "ticket"
      BY <1>10, <2>2 DEF Splice, SpliceInv
    <3>2. NextWindow /\ Selected(pending.inference)
      BY <1>t, <3>1 DEF NextWindow, Selected
    <3>3. last.final /\ last.inference < pending.inference
      BY <3>2 DEF PendingInv
    <3>4. /\ Window(pending.inference, Delay)[1].inference = pending.inference
          /\ Window(pending.inference, Delay)[1].index = Delay
      <4>1. IsWindow(Window(pending.inference, Delay), pending.inference, Delay)
        BY <1>t, <3>1, WindowIs, PathAssumption
      <4>2. Delay \in Nat
        BY PathAssumption
      <4> QED
        BY <4>1, <4>2 DEF IsWindow
    <3>5. pending.inference > last.inference
      BY <1>t, <3>1, <3>3 DEF Commands
    <3>6. Follows(Window(pending.inference, Delay)[1], last)
      BY <3>3, <3>4, <3>5 DEF Follows
    <3> QED
      BY <1>t, <1>g, <2>2, <3>1, <3>6, NewQueue, PathAssumption
  <2> QED
    BY <1>10, <2>1, <2>2 DEF Splice
<1>11. CASE NotDue
  <2>1. UNCHANGED <<queue, last, issued>>
    BY <1>11 DEF NotDue
  <2> QED
    BY <1>t, <1>g, <1>q, <2>1, KeptQueue DEF TypeOK
<1>12. CASE Exhausted
  <2>1. UNCHANGED <<queue, last, issued>>
    BY <1>12 DEF Exhausted
  <2> QED
    BY <1>t, <1>g, <1>q, <2>1, KeptQueue DEF TypeOK
<1>13. CASE Publish
  <2>1. /\ Len(queue) \in Nat \ {0} /\ DOMAIN queue = 1..Len(queue)
        /\ last' = queue[1] /\ 1 \in DOMAIN queue /\ queue' \in Seq(Commands)
        /\ Len(queue') = Len(queue) - 1
        /\ \A k \in DOMAIN queue' :
               k \in 1..Len(queue) - 1 /\ k + 1 \in DOMAIN queue /\ queue'[k] = queue[k + 1]
        /\ issued \in Nat /\ Len(queue) + issued = Steps /\ issued' = issued + 1
    BY <1>13, Published DEF TypeOK, Publish
  <2>2. last'.inference <= Len(future')
    BY <1>t, <1>g, <1>q, <2>1 DEF QueueInv
  <2>3. queue' # <<>> => Len(queue') + issued' = Steps /\ Follows(queue[1], last)'
    <3> SUFFICES ASSUME queue' # <<>>
                 PROVE  Len(queue') + issued' = Steps /\ Follows(queue[1], last)'
      OBVIOUS
    <3>1. 1 \in DOMAIN queue'
      BY <2>1, EmptySeq, LenProperties
    <3>2. 2 \in DOMAIN queue /\ queue'[1] = queue[2]
      BY <2>1, <3>1
    <3>3. queue[2].inference = queue[1].inference /\ queue[2].index = queue[1].index + 1
      BY <3>2 DEF QueueInv
    <3> QED
      BY <2>1, <3>2, <3>3 DEF Follows
  <2>4. ASSUME NEW k \in DOMAIN queue'
        PROVE  /\ queue'[k].inference <= Len(future')
               /\ queue'[k].final <=> k = Len(queue')
               /\ k > 1 => /\ queue'[k].inference = queue'[k - 1].inference
                           /\ queue'[k].index = queue'[k - 1].index + 1
    <3>1. k + 1 \in DOMAIN queue /\ queue'[k] = queue[k + 1] /\ k \in Nat
      BY <2>1
    <3>2. queue'[k].inference <= Len(future')
      BY <1>t, <1>g, <1>q, <3>1 DEF QueueInv
    <3>3. queue'[k].final <=> k = Len(queue')
      <4>1. queue[k + 1].final <=> k + 1 = Len(queue)
        BY <3>1 DEF QueueInv
      <4>2. k + 1 = Len(queue) <=> k = Len(queue')
        BY <2>1, <3>1
      <4> QED
        BY <3>1, <4>1, <4>2, Zenon
    <3>4. k > 1 => /\ queue'[k].inference = queue'[k - 1].inference
                   /\ queue'[k].index = queue'[k - 1].index + 1
      <4> SUFFICES ASSUME k > 1
                   PROVE  /\ queue'[k].inference = queue'[k - 1].inference
                          /\ queue'[k].index = queue'[k - 1].index + 1
        OBVIOUS
      <4>1. k - 1 \in DOMAIN queue'
        BY <2>1, <3>1, LenProperties
      <4>2. queue'[k - 1] = queue[k]
        BY <2>1, <3>1, <4>1
      <4>3. /\ queue[k + 1].inference = queue[k].inference
            /\ queue[k + 1].index = queue[k].index + 1
        BY <3>1 DEF QueueInv
      <4> QED
        BY <3>1, <4>2, <4>3
    <3> QED
      BY <3>2, <3>3, <3>4
  <2> QED
    BY <2>2, <2>3, <2>4 DEF QueueInv
<1>14. CASE Fail
  <2>1. (queue' = <<>> /\ last' = last) \/ UNCHANGED <<queue, last, issued>>
    BY <1>14 DEF Fail
  <2>2. CASE queue' = <<>> /\ last' = last
    <3>1. last.inference \in Nat /\ last.inference <= Len(future)
      BY <1>t DEF QueueInv, Commands
    <3> QED
      BY <1>t, <1>g, <2>2, <3>1 DEF QueueInv
  <2>3. CASE UNCHANGED <<queue, last, issued>>
    BY <1>t, <1>g, <1>q, <2>3, KeptQueue DEF TypeOK
  <2> QED
    BY <2>1, <2>2, <2>3
<1>15. CASE Others
  <2>1. UNCHANGED <<queue, last, issued>>
    BY <1>15 DEF Others, expoVars
  <2> QED
    BY <1>t, <1>g, <1>q, <2>1, KeptQueue DEF TypeOK
<1> QED
  BY <1>1, <1>2, <1>3, <1>4, <1>5, <1>6, <1>7, <1>8, <1>9, <1>10, <1>11, <1>12,
     <1>13, <1>14, <1>15, SchedulerMoves DEF ExecutorNext

(* The executor goes on to the splice with a ticket, and a ticket stays.   *)
LEMMA SpliceStep ==
    ASSUME TypeOK, UnconnectedInv, JobInv, WorkerInv, ControlInv, PendingInv, SpliceInv, [Next]_vars
    PROVE  SpliceInv'
<1>g. /\ DOMAIN future \subseteq DOMAIN future'
      /\ \A n \in DOMAIN future : future[n].state = "ticket" => future'[n] = future[n]
  BY Moves, FutureGrows DEF TypeOK
<1>t. ExpoTypeOK
  BY DEF TypeOK
<1>1. CASE Prepare
  BY <1>1, <1>g DEF Prepare, SpliceInv
<1>2. CASE PolicyReady
  BY <1>2, <1>g DEF PolicyReady, SpliceInv
<1>3. CASE CloseGate
  BY <1>3, <1>g DEF CloseGate, SpliceInv
<1>4. CASE ClearPending
  BY <1>4, <1>g DEF ClearPending, SpliceInv
<1>5. CASE ClearFinishing
  BY <1>5, <1>g DEF ClearFinishing, SpliceInv
<1>6. CASE Begin
  <2>1. executor'.step # "splice"
    BY <1>6, <1>t DEF Begin, Goto, Resting, ExpoTypeOK
  <2> QED
    BY <2>1 DEF SpliceInv
<1>7. CASE DeadlineMissed
  <2>1. executor'.step # "splice"
    BY <1>7, <1>t DEF DeadlineMissed, Goto, Resting, ExpoTypeOK
  <2> QED
    BY <2>1 DEF SpliceInv
<1>8. CASE Accept
  <2> SUFFICES ASSUME executor'.step = "splice" PROVE SpliceInv'
    BY DEF SpliceInv
  <2>1. executor'.pending = pending /\ PendingDone /\ ~pending.bootstrap
        /\ future[pending.inference].state = "ticket"
    BY <1>8, <1>t DEF Accept, ExpoTypeOK
  <2>2. pending.inference \in DOMAIN future
    BY <2>1 DEF PendingDone, PendingInv
  <2> QED
    BY <1>g, <2>1, <2>2 DEF SpliceInv
<1>9. CASE RejectWindow
  <2>1. executor'.step # "splice"
    BY <1>9, <1>t DEF RejectWindow, Goto, Resting, ExpoTypeOK
  <2> QED
    BY <2>1 DEF SpliceInv
<1>10. CASE Splice
  <2>1. executor'.step # "splice"
    BY <1>10, <1>t DEF Splice, Goto, Resting, ExpoTypeOK
  <2> QED
    BY <2>1 DEF SpliceInv
<1>11. CASE NotDue
  <2>1. executor'.step # "splice"
    BY <1>11, <1>t DEF NotDue, Goto, Resting, ExpoTypeOK
  <2> QED
    BY <2>1 DEF SpliceInv
<1>12. CASE Exhausted
  <2>1. executor'.step # "splice"
    BY <1>12, <1>t DEF Exhausted, Goto, Resting, ExpoTypeOK
  <2> QED
    BY <2>1 DEF SpliceInv
<1>13. CASE Publish
  <2>1. Goto("idle") \/ Goto("fail")
    BY <1>13 DEF Publish, Prefetch, Select
  <2>2. executor'.step # "splice"
    BY <1>t, <2>1 DEF Goto, ExpoTypeOK
  <2> QED
    BY <2>2 DEF SpliceInv
<1>14. CASE Fail
  <2>1. executor'.step # "splice"
    BY <1>14, <1>t DEF Fail, Goto, Resting, ExpoTypeOK
  <2> QED
    BY <2>1 DEF SpliceInv
<1>15. CASE Others
  BY <1>15, <1>g DEF Others, expoVars, SpliceInv
<1> QED
  BY <1>1, <1>2, <1>3, <1>4, <1>5, <1>6, <1>7, <1>8, <1>9, <1>10, <1>11, <1>12,
     <1>13, <1>14, <1>15, SchedulerMoves DEF ExecutorNext

-----------------------------------------------------------------------------
(* The shadow loop's part of the invariant. *)

(* The shadow loop keeps its types.                                         *)
LEMMA ShadowTypeStep ==
    ASSUME TypeOK, ShadowInv, [Next]_vars
    PROVE  ShadowTypeOK'
<1> DEFINE Entries == [made : 1..MaxEpisodes, inference : Nat, ok : BOOLEAN]
           Loops == [1..MaxEpisodes -> [step : {"ended", "turn", "wait"}, inference : Nat]]
<1> USE DEF ShadowTypeOK
<1>t. ShadowTypeOK
  BY DEF TypeOK
<1>l. (stop \/ thread # 0) \in BOOLEAN
  OBVIOUS
<1>1. CASE StartLoop
  <2>1. episode + 1 \in 1..MaxEpisodes
    BY <1>1, <1>t, ShadowAssumption DEF StartLoop
  <2>2. CASE thread # 0
    <3>1. session' = "closing" /\ stop' = (stop \/ thread # 0)
          /\ UNCHANGED <<thread, loop, shadowEpisode, counted>> /\ episode' = episode + 1
      BY <1>1, <2>2 DEF StartLoop, Leave
    <3>2. stop' \in BOOLEAN
      BY <3>1, <1>l, Zenon
    <3>3. episode' \in 0..MaxEpisodes
      BY <3>1, <2>1, ShadowAssumption
    <3> QED
      BY <1>t, <3>1, <3>2, <3>3
  <2>3. CASE thread = 0
    <3>1. /\ session' = "recording" /\ thread' = episode + 1 /\ stop' = FALSE
          /\ loop' = [loop EXCEPT ![episode + 1] = Turn]
          /\ shadowEpisode' = episode + 1 /\ counted' = <<>> /\ episode' = episode + 1
      BY <1>1, <2>3 DEF StartLoop
    <3>2. Turn \in [step : {"ended", "turn", "wait"}, inference : Nat]
      BY DEF Turn
    <3>3. counted' \in Seq(Entries)
      BY <3>1, EmptySeq
    <3>4. loop' \in Loops
      BY <1>t, <2>1, <3>1, <3>2
    <3>5. /\ thread' \in 0..MaxEpisodes /\ shadowEpisode' \in 0..MaxEpisodes
          /\ episode' \in 0..MaxEpisodes
      BY <2>1, <3>1, ShadowAssumption
    <3> QED
      BY <3>1, <3>3, <3>4, <3>5
  <2> QED
    BY <2>2, <2>3
<1>2. CASE StopLoop
  <2>1. stop' \in BOOLEAN
    BY <1>2, <1>l, Zenon DEF StopLoop
  <2> QED
    BY <1>2, <1>t, <2>1 DEF StopLoop
<1>3. CASE Joined
  BY <1>3, <1>t, ShadowAssumption DEF Joined
<1>4. CASE JoinRaises
  BY <1>4, <1>t, ShadowAssumption DEF JoinRaises
<1>5. CASE Summarise
  BY <1>5, <1>t, ShadowAssumption DEF Summarise
<1>6. CASE EndSession
  BY <1>6, <1>t, ShadowAssumption DEF EndSession
<1>7. ASSUME NEW ep \in 1..MaxEpisodes, LoopEnds(ep)
      PROVE  ShadowTypeOK'
  <2>1. Ended \in [step : {"ended", "turn", "wait"}, inference : Nat]
    BY DEF Ended
  <2> QED
    BY <1>7, <1>t, <2>1 DEF LoopEnds
<1>8. ASSUME NEW ep \in 1..MaxEpisodes, Ask(ep)
      PROVE  ShadowTypeOK'
  <2>1. Len(future) + 1 \in Nat
    BY LenProperties DEF TypeOK, PathTypeOK
  <2>2. [step |-> "wait", inference |-> Len(future) + 1]
           \in [step : {"ended", "turn", "wait"}, inference : Nat]
    BY <2>1
  <2> QED
    BY <1>8, <1>t, <2>2 DEF Ask
<1>9. ASSUME NEW ep \in 1..MaxEpisodes, Record(ep)
      PROVE  ShadowTypeOK'
  <2>1. Turn \in [step : {"ended", "turn", "wait"}, inference : Nat]
    BY DEF Turn
  <2>2. [made |-> ep, inference |-> loop[ep].inference,
         ok |-> future[loop[ep].inference].state = "ticket"] \in Entries
    BY <1>t
  <2>3. counted' \in Seq(Entries)
    BY <1>9, <1>t, <2>2, AppendProperties DEF Record
  <2>4. loop' \in Loops
    BY <1>9, <1>t, <2>1 DEF Record
  <2> QED
    BY <1>9, <1>t, <2>3, <2>4 DEF Record
<1>10. CASE LeaveSession
  <2>1. stop' \in BOOLEAN
    BY <1>10, <1>l, Zenon DEF LeaveSession, Leave
  <2> QED
    BY <1>10, <1>t, <2>1 DEF LeaveSession, Leave
<1>11. CASE HangUp \/ UNCHANGED shadowVars
  BY <1>11, <1>t DEF HangUp, shadowVars
<1> QED
  BY <1>1, <1>2, <1>3, <1>4, <1>5, <1>6, <1>7, <1>8, <1>9, <1>10, <1>11
  DEF Next, HookNext, LoopNext, vars

(* Only the loop the Session knows runs, and none between two Episodes.      *)
LEMMA ShadowStep ==
    ASSUME TypeOK, ShadowInv, [Next]_vars
    PROVE  ShadowInv'
<1> USE DEF ShadowInv
<1>t. ShadowTypeOK
  BY DEF TypeOK
<1>1. CASE StartLoop
  <2>1. episode + 1 \in 1..MaxEpisodes
    BY <1>1, <1>t, ShadowAssumption DEF StartLoop, ShadowTypeOK
  <2>2. CASE thread # 0
    BY <1>1, <2>2 DEF StartLoop, Leave
  <2>3. CASE thread = 0
    <3>1. /\ thread' = episode + 1 /\ shadowEpisode' = episode + 1 /\ session' = "recording"
          /\ loop' = [loop EXCEPT ![episode + 1] = Turn]
      BY <1>1, <2>3 DEF StartLoop
    <3>2. \A n \in 1..MaxEpisodes : loop[n].step = "ended" /\ loop[n] = Ended
      BY <2>3
    <3>3. \A n \in 1..MaxEpisodes :
             loop'[n] = IF n = episode + 1 THEN Turn ELSE Ended
      BY <1>t, <2>1, <3>1, <3>2 DEF ShadowTypeOK
    <3> QED
      BY <2>1, <3>1, <3>3 DEF Turn, Ended
  <2> QED
    BY <2>2, <2>3
<1>2. CASE StopLoop
  BY <1>2, <1>t DEF StopLoop, ShadowTypeOK, Ended
<1>3. CASE Joined
  BY <1>3, <1>t DEF Joined, ShadowTypeOK, Ended
<1>4. CASE JoinRaises
  BY <1>4, <1>t DEF JoinRaises, ShadowTypeOK, Ended
<1>5. CASE Summarise
  BY <1>5, <1>t DEF Summarise, ShadowTypeOK, Ended
<1>6. CASE EndSession
  BY <1>6, <1>t DEF EndSession, ShadowTypeOK, Ended
<1>7. ASSUME NEW ep \in 1..MaxEpisodes, LoopEnds(ep)
      PROVE  ShadowInv'
  <2>1. \A n \in 1..MaxEpisodes : loop'[n] = IF n = ep THEN Ended ELSE loop[n]
    BY <1>7, <1>t DEF LoopEnds, ShadowTypeOK
  <2> QED
    BY <1>7, <2>1 DEF LoopEnds, Ended
<1>8. ASSUME NEW ep \in 1..MaxEpisodes, Ask(ep)
      PROVE  ShadowInv'
  <2>1. \A n \in 1..MaxEpisodes :
           loop'[n] = IF n = ep THEN [step |-> "wait", inference |-> Len(future) + 1] ELSE loop[n]
    BY <1>8, <1>t DEF Ask, ShadowTypeOK
  <2>2. loop[ep].step # "ended"
    BY <1>8 DEF Ask, Turn
  <2> QED
    BY <1>8, <2>1, <2>2 DEF Ask
<1>9. ASSUME NEW ep \in 1..MaxEpisodes, Record(ep)
      PROVE  ShadowInv'
  <2>1. \A n \in 1..MaxEpisodes : loop'[n] = IF n = ep THEN Turn ELSE loop[n]
    BY <1>9, <1>t DEF Record, ShadowTypeOK
  <2>2. loop[ep].step # "ended"
    BY <1>9 DEF Record
  <2> QED
    BY <1>9, <2>1, <2>2 DEF Record, Turn
<1>10. CASE LeaveSession
  BY <1>10 DEF LeaveSession, Leave
<1>11. CASE HangUp \/ UNCHANGED shadowVars
  BY <1>11 DEF HangUp, shadowVars
<1> QED
  BY <1>1, <1>2, <1>3, <1>4, <1>5, <1>6, <1>7, <1>8, <1>9, <1>10, <1>11
  DEF Next, HookNext, LoopNext, vars

(* The path asks for no inference of its own, and keeps what is done.        *)
LEMMA PathSettles ==
    ASSUME TypeOK, UnconnectedInv, JobInv, WorkerInv, PathNext
    PROVE  /\ Len(future') = Len(future) /\ DOMAIN future' = DOMAIN future
           /\ \A i \in DOMAIN future : Done(i) => Done(i)'
<1> DEFINE Settled(x) == future' = [future EXCEPT ![worker.job.inference] = x] /\ Works
<1>1. future' = future \/ \E x : Settled(x)
  <2>1. CASE Receive
    <3>1. Works
      BY <2>1 DEF Receive, Works
    <3>2. CASE GivesUp
      BY <3>1, <3>2 DEF GivesUp, Settle
    <3>3. CASE TookBegin \/ TookCandidates
      BY <3>3 DEF TookBegin, TookCandidates
    <3>4. CASE TookPrepared
      BY <3>1, <3>4 DEF TookPrepared, Settle
    <3>5. CASE TookTicket
      BY <3>1, <3>5 DEF TookTicket, Settle
    <3> QED
      BY <2>1, <3>2, <3>3, <3>4, <3>5, ReceiveMoves DEF TypeOK
  <2>2. CASE SendRefused \/ NoObservation \/ ReceiveTimesOut
    <3>1. Settled(Failed)
      BY <2>2 DEF SendRefused, NoObservation, ReceiveTimesOut, Settle, Works
    <3> QED
      BY <3>1
  <2>3. CASE Hashed \/ Loaded \/ WarmedUp
    BY <2>3 DEF Hashed, Loaded, WarmedUp, ServerStep
  <2>4. CASE ServerDies \/ Answer \/ Refuse \/ Connect \/ Disconnect \/ TakeJob \/ Send
    BY <2>4 DEF ServerDies, Answer, Refuse, Connect, Disconnect, TakeJob, Send
  <2> QED
    BY <2>1, <2>2, <2>3, <2>4 DEF PathNext, WorkerNext
<1>2. DOMAIN future' = DOMAIN future
  BY <1>1
<1>3. future' \in Seq(Futures)
  <2>1. PathMove
    BY PlainMoves DEF PathMove
  <2> QED
    BY <2>1, PathTypeStep DEF TypeOK, PathTypeOK
<1>4. Len(future') = Len(future)
  <2>1. /\ DOMAIN future = 1..Len(future) /\ Len(future) \in Nat
        /\ DOMAIN future' = 1..Len(future') /\ Len(future') \in Nat
    BY <1>3, LenProperties DEF TypeOK, PathTypeOK
  <2> QED
    BY <1>2, <2>1
<1>5. ASSUME NEW i \in DOMAIN future, Done(i)
      PROVE  Done(i)'
  <2>1. CASE future' = future
    BY <1>5, <2>1 DEF Done
  <2>2. ASSUME NEW x, Settled(x)
        PROVE  Done(i)'
    <3>1. ~Done(worker.job.inference)
      BY <2>2 DEF WorkerInv, Done, Waiting
    <3>2. future'[i] = future[i]
      BY <1>5, <2>2, <3>1
    <3> QED
      BY <1>5, <3>2 DEF Done
  <2> QED
    BY <1>1, <2>1, <2>2
<1> QED
  BY <1>2, <1>4, <1>5

(* The attempts stay one after the other.                                    *)
LEMMA AttemptStep ==
    ASSUME TypeOK, UnconnectedInv, JobInv, WorkerInv, ControlInv, PendingInv, ShadowInv,
           AttemptInv, [Next]_vars
    PROVE  AttemptInv'
<1>m. twoPhase' = twoPhase
  <2>1. PathMove
    BY Moves
  <2>2. \/ UNCHANGED clientVars \/ UNCHANGED beneath \/ UNCHANGED pathVars
        \/ twoPhase' = twoPhase
    BY <2>1 DEF PathMove, Plain, ServerStarts, ServerDies, Answer, Refuse, Connect, Hangs, TakeJob,
       Send, GivesUp, TookBegin, TookCandidates, TookPrepared, TookTicket, Took, Submits, Selects,
       BeginsEpoch, CloseClient
  <2> QED
    BY <2>2 DEF clientVars, beneath, pathVars
<1>t. /\ future \in Seq(Futures) /\ DOMAIN future = 1..Len(future) /\ Len(future) \in Nat
      /\ ShadowTypeOK
  BY LenProperties DEF TypeOK, PathTypeOK
<1>c. Len(counted) \in Nat /\ DOMAIN counted = 1..Len(counted)
  BY <1>t, LenProperties DEF ShadowTypeOK
<1>1. CASE twoPhase
  <2>1. session' = session
    BY <1>1 DEF Next, vars, shadowVars
  <2> QED
    BY <1>1, <1>m, <2>1 DEF AttemptInv
<1> SUFFICES ASSUME ~twoPhase
             PROVE  /\ Waits' => loop'[thread'].inference = Len(future')
                    /\ Attempted(IF Waits THEN Len(future) - 1 ELSE Len(future))'
  BY <1>1, <1>m DEF AttemptInv
<1>a. /\ Waits => loop[thread].inference = Len(future)
      /\ Attempted(IF Waits THEN Len(future) - 1 ELSE Len(future))
  BY DEF AttemptInv
<1>2. ASSUME counted' = counted, Waits' <=> Waits, Waits => loop'[thread'] = loop[thread],
             Len(future') = Len(future), DOMAIN future' = DOMAIN future,
             \A i \in DOMAIN future : Done(i) => Done(i)'
      PROVE  /\ Waits' => loop'[thread'].inference = Len(future')
             /\ Attempted(IF Waits THEN Len(future) - 1 ELSE Len(future))'
  BY <1>2, <1>a DEF Attempted
<1>k. future' = future =>
         /\ Len(future') = Len(future) /\ DOMAIN future' = DOMAIN future
         /\ \A i \in DOMAIN future : Done(i) => Done(i)'
  BY DEF Done
<1>3. CASE PathNext /\ UNCHANGED shadowVars
  BY <1>2, <1>3, PathSettles DEF shadowVars, Waits
<1>4. CASE StartLoop
  <2>1. future' = future
    BY <1>4 DEF StartLoop
  <2>2. CASE thread # 0
    BY <1>2, <1>4, <1>k, <2>1, <2>2 DEF StartLoop, Leave, Waits
  <2>3. CASE thread = 0
    <3>1. episode + 1 \in 1..MaxEpisodes
      BY <1>4, <1>t, ShadowAssumption DEF StartLoop, ShadowTypeOK
    <3>2. thread' = episode + 1 /\ loop'[episode + 1] = Turn /\ counted' = <<>>
      BY <1>4, <1>t, <2>3, <3>1 DEF StartLoop, ShadowTypeOK
    <3>3. ~Waits' /\ ~Waits
      BY <2>3, <3>1, <3>2 DEF Waits, Turn
    <3>4. DOMAIN counted' = {}
      BY <3>2
    <3> QED
      BY <1>a, <2>1, <3>3, <3>4 DEF Attempted, Done
  <2> QED
    BY <2>2, <2>3
<1>5. CASE StopLoop \/ LeaveSession \/ JoinRaises \/ Summarise
  BY <1>2, <1>5, <1>k DEF StopLoop, LeaveSession, JoinRaises, Summarise, pathVars, Waits
<1>6. CASE HangUp
  BY <1>2, <1>6, <1>k DEF HangUp, shadowVars, Waits
<1>7. CASE Joined
  <2>1. ~Waits /\ ~Waits'
    BY <1>7 DEF Joined, Waits, Ended
  <2> QED
    BY <1>2, <1>7, <1>k, <2>1 DEF Joined, pathVars
<1>8. CASE EndSession
  <2>1. ~Waits /\ ~Waits'
    BY <1>8 DEF EndSession, Waits, Ended
  <2>2. Len(future') = Len(future) /\ DOMAIN future' = DOMAIN future
    BY <1>8, CancelledType DEF EndSession, TypeOK
  <2>3. \A i \in DOMAIN future : future'[i] \in {future[i], Cancelled}
    BY <1>8 DEF EndSession, CloseClient
  <2>4. \A i \in DOMAIN future : Done(i) => Done(i)'
    BY <2>3 DEF Done, Cancelled
  <2> QED
    BY <1>2, <1>8, <2>1, <2>2, <2>4 DEF EndSession
<1>9. ASSUME NEW ep \in 1..MaxEpisodes, LoopEnds(ep)
      PROVE  /\ Waits' => loop'[thread'].inference = Len(future')
             /\ Attempted(IF Waits THEN Len(future) - 1 ELSE Len(future))'
  <2>1. thread = ep /\ loop[ep] = Turn
    BY <1>9 DEF LoopEnds, ShadowInv, Turn
  <2>2. loop'[ep] = Ended
    BY <1>9, <1>t DEF LoopEnds, ShadowTypeOK
  <2>3. ~Waits /\ ~Waits'
    BY <1>9, <2>1, <2>2 DEF LoopEnds, Waits, Ended, Turn
  <2> QED
    BY <1>2, <1>9, <1>k, <2>3 DEF LoopEnds, pathVars
<1>10. ASSUME NEW ep \in 1..MaxEpisodes, Ask(ep)
       PROVE  /\ Waits' => loop'[thread'].inference = Len(future')
              /\ Attempted(IF Waits THEN Len(future) - 1 ELSE Len(future))'
  <2>1. thread = ep /\ loop[ep] = Turn /\ thread' = thread /\ counted' = counted
    BY <1>10 DEF Ask, ShadowInv, Turn
  <2>2. loop'[ep] = [step |-> "wait", inference |-> Len(future) + 1]
    BY <1>10, <1>t DEF Ask, ShadowTypeOK
  <2>3. ~Waits /\ Waits' /\ loop'[thread'].inference = Len(future) + 1
    BY <2>1, <2>2 DEF Waits, Turn
  <2>4. /\ Len(future') = Len(future) + 1 /\ DOMAIN future' = 1..Len(future) + 1
        /\ \A i \in DOMAIN future : future'[i] = future[i]
    <3>1. future' = Append(future, Waiting) /\ Waiting \in Futures
      BY <1>10 DEF Ask, Submitted, Waiting, Futures
    <3> QED
      BY <1>t, <3>1, Appended
  <2>5. Attempted(Len(future))
    BY <1>a, <2>3
  <2>6. \A i \in DOMAIN future' : i <= Len(future') - 1 => Done(i)'
    BY <1>t, <2>4, <2>5 DEF Attempted, Done
  <2> QED
    BY <1>t, <2>1, <2>3, <2>4, <2>5, <2>6 DEF Attempted
<1>11. ASSUME NEW ep \in 1..MaxEpisodes, Record(ep)
       PROVE  /\ Waits' => loop'[thread'].inference = Len(future')
              /\ Attempted(IF Waits THEN Len(future) - 1 ELSE Len(future))'
  <2>1. /\ thread = ep /\ loop[ep].step = "wait" /\ Done(loop[ep].inference)
        /\ thread' = thread /\ future' = future
    BY <1>11 DEF Record, ShadowInv, pathVars
  <2>2. loop'[ep] = Turn
    BY <1>11, <1>t DEF Record, ShadowTypeOK
  <2>3. Waits /\ ~Waits' /\ loop[ep].inference = Len(future)
    BY <1>a, <2>1, <2>2 DEF Waits, Turn
  <2>4. Attempted(Len(future) - 1)
    BY <1>a, <2>3
  <2>5. \A i \in DOMAIN future : Done(i)
    BY <1>t, <2>1, <2>3, <2>4 DEF Attempted
  <2>6. /\ Len(counted') = Len(counted) + 1 /\ DOMAIN counted' = 1..Len(counted) + 1
        /\ \A k \in DOMAIN counted : counted'[k] = counted[k]
        /\ counted'[Len(counted) + 1].inference = Len(future)
    <3> DEFINE Entries == [made : 1..MaxEpisodes, inference : Nat, ok : BOOLEAN]
               entry == [made |-> ep, inference |-> loop[ep].inference,
                         ok |-> future[loop[ep].inference].state = "ticket"]
    <3>1. entry \in Entries /\ entry.inference = Len(future)
      BY <1>t, <2>3
    <3>2. counted \in Seq(Entries)
      BY <1>t DEF ShadowTypeOK
    <3>3. counted' = Append(counted, entry)
      BY <1>11 DEF Record
    <3> HIDE DEF entry, Entries
    <3> QED
      BY <3>1, <3>2, <3>3, AppendProperties, LenProperties
  <2>7. \A k \in DOMAIN counted' :
           counted'[k].inference = Len(future) - Len(counted') + k
    BY <1>t, <1>c, <2>4, <2>6 DEF Attempted
  <2> QED
    BY <2>1, <2>3, <2>5, <2>7 DEF Attempted, Done
<1>12. CASE UNCHANGED vars
  BY <1>2, <1>12, <1>k DEF vars, pathVars, shadowVars, Waits
<1> QED
  BY <1>3, <1>4, <1>5, <1>6, <1>7, <1>8, <1>9, <1>10, <1>11, <1>12 DEF Next, HookNext, LoopNext

-----------------------------------------------------------------------------
(* Before the connection is there. *)

(* Nothing is asked before the connection is there.                        *)
LEMMA UnconnectedStep ==
    ASSUME TypeOK, UnconnectedInv, JobInv, WorkerInv, ControlInv, PendingInv, ShadowInv,
           [Next]_vars
    PROVE  UnconnectedInv'
<1> SUFFICES ASSUME connection' = "none"
             PROVE  /\ future' = <<>> /\ jobs' = <<>> /\ worker' = Idle
                    /\ ~gateOpen'
                    /\ \A ep \in 1..MaxEpisodes : loop'[ep] = Ended
  BY DEF UnconnectedInv
<1>1. PathMove
  BY Moves
<1>2. connection = "none"
  <2>1. CASE ServerStarts
    BY <2>1 DEF ServerStarts, Took, serverVars, beneath
  <2>2. CASE ServerDies
    BY <2>2 DEF ServerDies, Took, serverVars, beneath
  <2>3. CASE Answer
    BY <2>3 DEF Answer, Took, serverVars, beneath
  <2>4. CASE Refuse
    BY <2>4 DEF Refuse, Took, serverVars, beneath
  <2>5. CASE Connect
    BY <2>5 DEF Connect, Took, serverVars, beneath
  <2>6. CASE Hangs
    BY <2>6 DEF Hangs, Took, serverVars, beneath
  <2>7. CASE TakeJob
    BY <2>7 DEF TakeJob, Took, serverVars, beneath
  <2>8. CASE Send
    BY <2>8 DEF Send, Took, serverVars, beneath
  <2>9. CASE GivesUp
    BY <2>9 DEF GivesUp, Took, serverVars, beneath
  <2>10. CASE TookBegin
    BY <2>10 DEF TookBegin, Took, serverVars, beneath
  <2>11. CASE TookCandidates
    BY <2>11 DEF TookCandidates, Took, serverVars, beneath
  <2>12. CASE TookPrepared
    BY <2>12 DEF TookPrepared, Took, serverVars, beneath
  <2>13. CASE TookTicket
    BY <2>13 DEF TookTicket, Took, serverVars, beneath
  <2>14. CASE UNCHANGED pathVars
    BY <2>14 DEF pathVars, Took, serverVars, beneath
  <2>15. CASE Submits
    BY <2>15 DEF Submits, Took, serverVars, beneath
  <2>16. CASE Selects
    BY <2>16 DEF Selects, Took, serverVars, beneath
  <2>17. CASE BeginsEpoch
    BY <2>17 DEF BeginsEpoch, Took, serverVars, beneath
  <2>18. CASE CloseClient
    BY <2>18 DEF CloseClient, Took, serverVars, beneath
  <2> QED
    BY <1>1, <2>1, <2>2, <2>3, <2>4, <2>5, <2>6, <2>7, <2>8, <2>9, <2>10,
       <2>11, <2>12, <2>13, <2>14, <2>15, <2>16, <2>17, <2>18 DEF PathMove, Plain
<1>3. /\ future = <<>> /\ jobs = <<>> /\ worker = Idle /\ ~gateOpen
      /\ \A ep \in 1..MaxEpisodes : loop[ep] = Ended
  BY <1>2 DEF UnconnectedInv
<1>4. /\ DOMAIN future = {} /\ ~Works /\ Idle.step = "idle"
  BY <1>3 DEF Works, Idle
<1>5. future' = <<>> /\ jobs' = <<>> /\ worker' = Idle
  <2>1. CASE ServerStarts
    BY <1>3, <2>1 DEF ServerStarts, beneath
  <2>2. CASE ServerDies
    BY <1>3, <2>2 DEF ServerDies, beneath
  <2>3. CASE Answer
    BY <1>3, <2>3 DEF Answer, beneath
  <2>4. CASE Refuse
    BY <1>3, <2>4 DEF Refuse, beneath
  <2>5. CASE Connect
    BY <1>3, <2>5 DEF Connect, beneath
  <2>6. CASE Hangs
    BY <1>3, <2>6 DEF Hangs, beneath
  <2>7. CASE TakeJob
    BY <1>3, <1>4, <2>7 DEF TakeJob
  <2>8. CASE Send
    BY <1>3, <1>4, <2>8 DEF Send
  <2>9. CASE GivesUp
    BY <1>3, <1>4, <2>9 DEF GivesUp
  <2>10. CASE TookBegin
    BY <1>3, <1>4, <2>10 DEF TookBegin, Took
  <2>11. CASE TookCandidates
    BY <1>3, <1>4, <2>11 DEF TookCandidates, Took
  <2>12. CASE TookPrepared
    BY <1>3, <1>4, <2>12 DEF TookPrepared, Took
  <2>13. CASE TookTicket
    BY <1>3, <1>4, <2>13 DEF TookTicket, Took
  <2>14. CASE UNCHANGED pathVars
    BY <1>3, <2>14 DEF pathVars
  <2>15. CASE Submits
    BY <1>2, <1>4, <2>15 DEF Submits
  <2>16. CASE Selects
    BY <1>2, <1>4, <2>16 DEF Selects
  <2>17. CASE BeginsEpoch
    BY <1>3, <2>17 DEF BeginsEpoch, beneath
  <2>18. CASE CloseClient
    BY <1>2, <2>18 DEF CloseClient
  <2> QED
    BY <1>1, <2>1, <2>2, <2>3, <2>4, <2>5, <2>6, <2>7, <2>8, <2>9, <2>10,
       <2>11, <2>12, <2>13, <2>14, <2>15, <2>16, <2>17, <2>18 DEF PathMove, Plain
<1>6. ~PolicyReady
  BY <1>4 DEF PolicyReady, PendingDone, PendingInv
<1>7. ~gateOpen'
  <2>1. CASE Prepare
    BY <1>3, <2>1 DEF Prepare
  <2>2. CASE PolicyReady
    BY <1>6, <2>2
  <2>3. CASE CloseGate
    BY <1>3, <2>3 DEF CloseGate
  <2>4. CASE ClearPending
    BY <1>3, <2>4 DEF ClearPending
  <2>5. CASE ClearFinishing
    BY <1>3, <2>5 DEF ClearFinishing
  <2>6. CASE Begin
    BY <1>3, <2>6 DEF Begin
  <2>7. CASE DeadlineMissed
    BY <1>3, <2>7 DEF DeadlineMissed
  <2>8. CASE Accept
    BY <1>3, <2>8 DEF Accept
  <2>9. CASE RejectWindow
    BY <1>3, <2>9 DEF RejectWindow
  <2>10. CASE Splice
    BY <1>3, <2>10 DEF Splice
  <2>11. CASE NotDue
    BY <1>3, <2>11 DEF NotDue
  <2>12. CASE Exhausted
    BY <1>3, <2>12 DEF Exhausted
  <2>13. CASE Publish
    BY <1>3, <2>13 DEF Publish
  <2>14. CASE Fail
    BY <1>3, <2>14 DEF Fail
  <2>15. CASE Others
    BY <1>3, <2>15 DEF Others, expoVars
  <2> QED
    BY <2>1, <2>2, <2>3, <2>4, <2>5, <2>6, <2>7, <2>8, <2>9, <2>10, <2>11,
       <2>12, <2>13, <2>14, <2>15, SchedulerMoves DEF ExecutorNext
<1>8. ~StartLoop
  BY <1>2 DEF StartLoop
<1>9. \A ep \in 1..MaxEpisodes : ~LoopEnds(ep) /\ ~Ask(ep) /\ ~Record(ep)
  <2> SUFFICES ASSUME NEW ep \in 1..MaxEpisodes
               PROVE  ~LoopEnds(ep) /\ ~Ask(ep) /\ ~Record(ep)
    OBVIOUS
  <2>1. loop[ep] = Ended /\ Ended # Turn /\ Ended.step # "wait"
    BY <1>3 DEF Ended, Turn
  <2> QED
    BY <2>1 DEF LoopEnds, Ask, Record
<1>10. loop' = loop
  <2>1. CASE HookNext
    BY <1>8, <2>1 DEF HookNext, StopLoop, LeaveSession, Joined, JoinRaises, Summarise,
       EndSession, HangUp, shadowVars
  <2>2. ~LoopNext
    BY <1>9 DEF LoopNext
  <2>3. CASE UNCHANGED shadowVars
    BY <2>3 DEF shadowVars
  <2> QED
    BY <2>1, <2>2, <2>3 DEF Next, vars
<1> QED
  BY <1>3, <1>5, <1>7, <1>10

-----------------------------------------------------------------------------
(* The invariant holds. *)

(* At the start nothing is connected, asked, queued or counted.            *)
LEMMA InitInv == Init => IInv
<1> SUFFICES ASSUME Init PROVE IInv
  OBVIOUS
<1> USE DEF Init, PathInit, ExpoInit, ShadowInit
<1>0. /\ <<>> \in Seq(Messages) /\ <<>> \in Seq(Jobs) /\ <<>> \in Seq(Futures)
      /\ <<>> \in Seq(Commands) /\ <<>> \in Seq([made : 1..MaxEpisodes, inference : Nat, ok : BOOLEAN])
      /\ DOMAIN <<>> = {} /\ Len(<<>>) = 0
  BY EmptySeq
<1>1. PathTypeOK
  <2>1. WorkerTypeOK
    BY DEF WorkerTypeOK, Idle, NoJob, Jobs
  <2>2. /\ requests \in Seq(Messages) /\ answers \in Seq(Messages)
        /\ jobs \in Seq(Jobs) /\ future \in Seq(Futures)
    BY EmptySeq
  <2>3. remote \in Nat \X Nat
    BY DEF NoRemote
  <2> QED
    BY <2>1, <2>2, <2>3 DEF PathTypeOK
<1>2. ExpoTypeOK
  <2>1. NoPending \in Pendings
    BY DEF NoPending, Pendings
  <2>2. NoCommand \in Commands
    BY DEF NoCommand, Commands
  <2>3. Resting \in [step : {"idle", "publish", "fail", "accept", "splice"},
                    finishing : BOOLEAN, pending : Pendings, epoch : Nat, last : Commands]
    BY <2>1, <2>2 DEF Resting
  <2>4. queue \in Seq(Commands)
    BY EmptySeq
  <2> QED
    BY <2>1, <2>2, <2>3, <2>4 DEF ExpoTypeOK
<1>3. ShadowTypeOK
  <2>1. counted \in Seq([made : 1..MaxEpisodes, inference : Nat, ok : BOOLEAN])
    BY EmptySeq
  <2>2. loop \in [1..MaxEpisodes -> [step : {"ended", "turn", "wait"}, inference : Nat]]
    BY DEF Ended
  <2>3. 0 \in 0..MaxEpisodes
    BY ShadowAssumption
  <2>4. /\ session \in {"ready", "recording", "joining", "stopped", "closing", "over"}
        /\ stop \in BOOLEAN
        /\ episode = 0 /\ thread = 0 /\ shadowEpisode = 0
    OBVIOUS
  <2> HIDE DEF Init, PathInit, ExpoInit, ShadowInit
  <2> QED
    BY <2>1, <2>2, <2>3, <2>4 DEF ShadowTypeOK
<1>4. UnconnectedInv /\ JobInv /\ WorkerInv
  BY <1>0 DEF UnconnectedInv, JobInv, WorkerInv, Works, Idle
<1>5. WireInv /\ LastInv /\ LagInv /\ AnswersItsOwnRequest
  BY <1>0 DEF WireInv, LastInv, LagInv, AnswersItsOwnRequest, Works, Idle
<1>6. ControlInv /\ PendingInv /\ SpliceInv
  BY <1>0 DEF ControlInv, PendingInv, SpliceInv, NextWindow, NoPending, NoCommand, Resting
<1>7. QueueInv
  BY <1>0 DEF QueueInv, NoCommand
<1>8. ShadowInv /\ AttemptInv
  BY <1>0 DEF ShadowInv, AttemptInv, Attempted, Waits, Ended
<1> QED
  BY <1>1, <1>2, <1>3, <1>4, <1>5, <1>6, <1>7, <1>8 DEF IInv, TypeOK

(* The two phases, the worker, the late answers, the windows and the shadow *)
(* loop keep what IInv says of them.                                       *)
THEOREM Inductive == Spec => []IInv
<1>1. ASSUME IInv, [Next]_vars PROVE IInv'
  <2> USE <1>1
  <2>1. PathMove
    BY Moves DEF IInv
  <2>2. PathTypeOK' /\ ExpoTypeOK' /\ ShadowTypeOK'
    BY <2>1, PathTypeStep, ExpoTypeStep, ShadowTypeStep DEF IInv, TypeOK
  <2>3. UnconnectedInv' /\ JobInv' /\ WorkerInv'
    BY <2>1, UnconnectedStep, JobStep, WorkerStep DEF IInv, TypeOK
  <2>4. WireInv' /\ LastInv' /\ LagInv'
    BY <2>1, WireStep, LastStep, LagStep DEF IInv, TypeOK
  <2>5. AnswersItsOwnRequest'
    BY <2>1, AnswersStep DEF IInv, TypeOK
  <2>6. ControlInv' /\ PendingInv'
    BY ControlStep, PendingStep DEF IInv
  <2>7. QueueInv' /\ SpliceInv'
    BY QueueStep, SpliceStep DEF IInv
  <2>8. ShadowInv' /\ AttemptInv'
    BY ShadowStep, AttemptStep DEF IInv
  <2> QED
    BY <2>2, <2>3, <2>4, <2>5, <2>6, <2>7, <2>8 DEF IInv, TypeOK
<1> QED
  BY <1>1, InitInv, PTL DEF Spec

(* A ticket the client hands out is the server's answer to that very        *)
(* inference, selected among the candidates this inference prepared: who    *)
(* took a late answer stays one answer behind and cannot pass "finish".     *)
THEOREM EveryTicketIsItsOwn == Spec => []AnswersItsOwnRequest
<1>1. IInv => AnswersItsOwnRequest
  BY DEF IInv
<1> QED
  BY <1>1, Inductive, PTL

(* When stop has returned the loop's every attempt is counted, whatever the *)
(* stop met the loop in: none is in flight, and none is left out.          *)
THEOREM SummariesAreComplete == Spec => []SummaryIsComplete
<1>1. IInv => SummaryIsComplete
  <2> SUFFICES ASSUME IInv, session = "stopped"
               PROVE  /\ \A i \in DOMAIN future : Done(i)
                      /\ \A k \in DOMAIN counted :
                            counted[k].inference = Len(future) - Len(counted) + k
    BY DEF SummaryIsComplete
  <2>1. thread = 0 /\ ~twoPhase
    BY DEF IInv, ShadowInv, AttemptInv
  <2>2. Attempted(Len(future))
    BY <2>1 DEF IInv, AttemptInv, Waits
  <2>3. \A i \in DOMAIN future : i <= Len(future)
    BY LenProperties DEF IInv, TypeOK, PathTypeOK
  <2> QED
    BY <2>2, <2>3 DEF Attempted
<1> QED
  BY <1>1, Inductive, PTL

(* No early splice and no tail of the base chunk: the published commands    *)
(* are the consecutive rows of complete windows, for every Steps and Delay. *)
THEOREM WindowsAreFixed == Spec => FixedWindows
<1>1. ASSUME IInv, [Next]_vars, last' \notin {NoCommand, last}
      PROVE  Follows(last', last)
  <2>1. CASE Publish
    <3>1. last' = queue[1] /\ queue # <<>>
      BY <1>1, <2>1, Published DEF IInv, TypeOK
    <3> QED
      BY <1>1, <3>1 DEF IInv, QueueInv
  <2>2. CASE \/ Prepare \/ PolicyReady \/ CloseGate \/ ClearFinishing \/ Begin \/ DeadlineMissed
             \/ Accept \/ RejectWindow \/ Splice \/ NotDue \/ Exhausted \/ Fail
    BY <1>1, <2>2 DEF Prepare, PolicyReady, CloseGate, ClearFinishing, Begin, DeadlineMissed,
       Accept, RejectWindow, Splice, NotDue, Exhausted, Fail
  <2>3. CASE ClearPending
    BY <1>1, <2>3 DEF ClearPending
  <2>4. CASE Others
    BY <1>1, <2>4 DEF Others, expoVars
  <2> QED
    BY <1>1, <2>1, <2>2, <2>3, <2>4, SchedulerMoves DEF IInv, ExecutorNext
<1>2. IInv /\ [Next]_vars =>
        [ last' \notin {NoCommand, last} =>
            \/ last = NoCommand /\ last'.index = 0
            \/ last'.inference = last.inference /\ last'.index = last.index + 1
            \/ last.final /\ last'.inference > last.inference /\ last'.index = Delay ]_last
  BY <1>1 DEF Follows
<1> QED
  BY <1>2, Inductive, PTL DEF Spec, FixedWindows

==============================================================================
