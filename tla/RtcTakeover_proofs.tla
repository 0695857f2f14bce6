-------------------------- MODULE RtcTakeover_proofs --------------------------
(***************************************************************************)
(* What holds of RtcTakeover for every number of Episodes, takeovers,      *)
(* failures and arms and every rollout profile.  Four parts: facts about   *)
(* the scheduler's data; every step keeps IInv; the theorems that follow   *)
(* from IInv; and that RtcTakeover implements CommandLease.                *)
(***************************************************************************)
EXTENDS RtcTakeoverInv, TakeoverController_proofs, SequenceTheorems, WellFoundedInduction

(***************************************************************************)
(* The scheduler's data: what the delay estimator estimates, what a safe   *)
(* window holds, and that the operators on them keep their types.          *)
(***************************************************************************)

Less == {pair \in Nat \X Nat : pair[1] < pair[2]}

(* Every nonempty set of numbers up to n has a greatest element: the one    *)
(* whose distance from n is least.                                          *)
LEMMA GreatestExists ==
    ASSUME NEW n \in Nat, NEW S \in SUBSET (0..n), S # {}
    PROVE  \E x \in S : \A y \in S : x >= y
<1> DEFINE T == {n - s : s \in S}
<1>1. IsWellFoundedOn(Less, Nat)
  BY NatLessThanWellFounded DEF OpToRel, Less
<1>2. T \subseteq Nat
  OBVIOUS
<1>3. T # {}
  <2>1. PICK s \in S : TRUE
    OBVIOUS
  <2>2. n - s \in T
    OBVIOUS
  <2> QED
    BY <2>2
<1>4. PICK t \in T : \A u \in T : <<u, t>> \notin Less
  BY <1>1, <1>2, <1>3, WFMin
<1>5. \A u \in T : ~(u < t)
  BY <1>2, <1>4 DEF Less
<1>6. PICK s \in S : t = n - s
  OBVIOUS
<1>7. ASSUME NEW y \in S PROVE s >= y
  <2>1. ~(n - y < n - s)
    BY <1>5, <1>6
  <2>2. s \in Int /\ y \in Int
    OBVIOUS
  <2> QED
    BY <2>1, <2>2
<1> QED
  BY <1>6, <1>7

(* The estimator never asks for a prefix the policy was not trained for:    *)
(* the estimate is a delay in the trained range, whatever was observed.     *)
LEMMA EstimateInRange ==
    ASSUME delays \in Seq(0..(MaxDelay - 1))
    PROVE  Estimate \in 0..(MaxDelay - 1)
<1> DEFINE S == {delays[i] : i \in DOMAIN delays}
<1>1. CASE delays = <<>>
  BY <1>1, RolloutAssumption DEF Estimate
<1>2. CASE delays # <<>>
  <2>1. S \in SUBSET (0..(MaxDelay - 1))
    <3>1. \A i \in DOMAIN delays : delays[i] \in 0..(MaxDelay - 1)
      BY <1>2, EmptySeq, LenProperties
    <3> QED
      BY <3>1
  <2>2. S # {}
    <3>1. 1 \in DOMAIN delays
      BY <1>2, EmptySeq
    <3>2. delays[1] \in S
      BY <3>1
    <3> QED
      BY <3>2
  <2>3. MaxDelay - 1 \in Nat
    BY RolloutAssumption
  <2>4. \E x \in S : \A y \in S : x >= y
    BY <2>1, <2>2, <2>3, GreatestExists
  <2>5. Max(S) \in S
    BY <2>4 DEF Max
  <2> QED
    BY <1>2, <2>1, <2>5 DEF Estimate
<1> QED
  BY <1>1, <1>2

(* A safe window has at least one row.                                    *)
LEMMA SafeWindowPositive == SafeWindow \in Nat \ {0}
  BY RolloutAssumption DEF SafeWindow

(* The history keeps delays of the trained range. *)
LEMMA ObservedType ==
    ASSUME delays \in Seq(0..(MaxDelay - 1)), NEW delay \in 0..(MaxDelay - 1)
    PROVE  Observed(delay) \in Seq(0..(MaxDelay - 1))
<1>1. CASE Len(delays) = HistorySize
  <2>1. delays # <<>>
    BY <1>1, RolloutAssumption
  <2>2. Tail(delays) \in Seq(0..(MaxDelay - 1))
    BY <2>1
  <2> QED
    BY <1>1, <2>2 DEF Observed
<1>2. CASE Len(delays) # HistorySize
  BY <1>2 DEF Observed
<1> QED
  BY <1>1, <1>2

(* A safe window is as long as configured, and its rows are consecutive     *)
(* steps of the epoch the request was submitted for.                        *)
LEMMA WindowRows ==
    ASSUME NEW t \in Threads, snap \in [Threads -> Snapshots], WindowStart(t) \in Nat
    PROVE  /\ Window(t) \in Seq(Rows)
           /\ Len(Window(t)) = SafeWindow
           /\ DOMAIN Window(t) = 1..SafeWindow
           /\ \A i \in 1..SafeWindow :
                Window(t)[i] = [epoch |-> snap[t].pending.epoch,
                                step |-> snap[t].pending.base + WindowStart(t) + i - 1]
<1>1. SafeWindow \in Nat
  BY SafeWindowPositive
<1>2. snap[t].pending.epoch \in Nat /\ snap[t].pending.base \in Nat
  BY DEF Snapshots, Pendings
<1>3. \A i \in 1..SafeWindow :
        [epoch |-> snap[t].pending.epoch,
         step |-> snap[t].pending.base + WindowStart(t) + i - 1] \in Rows
  BY <1>1, <1>2 DEF Rows
<1>4. Window(t) \in [1..SafeWindow -> Rows]
  BY <1>3 DEF Window
<1> QED
  BY <1>1, <1>4 DEF Window

(* The absent request and the empty snapshot are of the types they stand in for. *)
LEMMA NothingIsTyped ==
    /\ NoPending \in Pendings
    /\ NoSnapshot \in Snapshots
  BY DEF NoPending, Pendings, NoSnapshot, Snapshots, NoCommand

(* Dropping the pending request counts at most one inference more.        *)
LEMMA AbandonType ==
    ASSUME backlog \in Nat, Abandon
    PROVE  backlog' \in Nat
  BY DEF Abandon

(* What _accept_pending copies is a snapshot. *)
LEMMA AcceptSnapshotType ==
    ASSUME RtcTypeOK, NEW t \in Threads, NEW phase, AcceptSnapshot(t, phase)
    PROVE  /\ snap' \in [Threads -> Snapshots]
           /\ snap' = [snap EXCEPT ![t] = snap'[t]]
           /\ snap'[t].pending = pending
           /\ UNCHANGED <<schedulerVars, raisedIn, policyVars>>
<1> DEFINE s == [pending |-> pending, epoch |-> gatewayEpoch, episode |-> gatewayEpisode,
                 issued |-> issued, last |-> lastPublished]
<1>1. s \in Snapshots
  BY DEF RtcTypeOK, Snapshots
<1>2. snap' = [snap EXCEPT ![t] = s]
  BY DEF AcceptSnapshot
<1>3. snap \in [Threads -> Snapshots]
  BY DEF RtcTypeOK
<1> QED
  BY <1>1, <1>2, <1>3 DEF AcceptSnapshot

(***************************************************************************)
(* Every step keeps IInv.  TypeOK first: that the delay history stays in   *)
(* the trained range needs SnapInv, since an accepted delay was validated. *)
(* Then each other part, which is kept by the Session thread (..Session),  *)
(* and by the executor thread and the policy worker (..Others), which      *)
(* leave the controller's variables alone (Quiet).  Each lemma assumes the *)
(* parts it needs.                                                         *)
(***************************************************************************)

(* The Session thread keeps the type of its variables. *)
LEMMA SessionTypeStep ==
    ASSUME SessionTypeOK, SessionThread
    PROVE  SessionTypeOK'
<1> USE BoundsAssumption DEF SessionTypeOK, States, Events, Steps, flowVars,
      authorityVars, timelineVars, armVars, countVars, envVars, Works, Fails,
      Signalled, Goto, Return, Escape, EnterFault, Faulting, Paths, StopEpisode, CallReturned,
      CallRaised, Closed
<1>a. UNCHANGED <<latch, lateEnable>> => ArmTypeOK'
  BY DEF ArmTypeOK
<1> USE <1>a
<1>1. CASE SessionStep
  BY <1>1, SessionStepTypes
<1>2. CASE SessionPrepare
  BY <1>2 DEF SessionPrepare
<1>3. CASE SessionPoll
  BY <1>3 DEF SessionPoll
<1>4. CASE SessionPollTimeout
  BY <1>4 DEF SessionPollTimeout
<1>5. CASE SessionSnapshot
  BY <1>5 DEF SessionSnapshot
<1>6. CASE SessionValidate
  BY <1>6 DEF SessionValidate
<1>7. CASE SessionInvalid
  BY <1>7 DEF SessionInvalid
<1>8. CASE SessionReject
  BY <1>8 DEF SessionReject
<1>9. CASE SessionSplice
  <2>1. ArmTypeOK'
    BY <1>9 DEF SessionSplice, EnableArms, ArmTypeOK
  <2> QED
    BY <1>9, <2>1 DEF SessionSplice
<1>10. CASE SessionEnableFails
  <2>1. PICK on \in SUBSET Arms, late \in SUBSET Arms : EnableArms(on, late)
    BY <1>10 DEF SessionEnableFails
  <2>2. ArmTypeOK'
    BY <2>1 DEF EnableArms, ArmTypeOK
  <2>3. failures' \in Nat /\ signals' \in Nat /\ UNCHANGED takeovers
    BY <1>10 DEF SessionEnableFails
  <2>4. pc' \in Steps /\ hook' \in {"none", "start", "wait", "stop"} /\ path' \in Paths
    BY <1>10 DEF SessionEnableFails
  <2>5. /\ interrupted' \in BOOLEAN
        /\ UNCHANGED <<state, controlEpoch, episode, safetyFailure, active, lastEvent,
                       episodes, firstEpoch, committed>>
    BY <1>10 DEF SessionEnableFails
  <2> QED
    BY <2>2, <2>3, <2>4, <2>5
<1>11. CASE SessionTakeFault
  BY <1>11 DEF SessionTakeFault, PollFault
<1>12. CASE SessionPollPolicy
  BY <1>12 DEF SessionPollPolicy, PollPolicy
<1>13. CASE SessionClose
  BY <1>13 DEF SessionClose, CloseRaised
<1>14. CASE SessionClear
  BY <1>14 DEF SessionClear
<1>15. CASE SessionBegin
  BY <1>15 DEF SessionBegin
<1>16. CASE SessionExit
  BY <1>16 DEF SessionExit
<1> QED
  BY <1>1, <1>2, <1>3, <1>4, <1>5, <1>6, <1>7, <1>8, <1>9, <1>10, <1>11,
     <1>12, <1>13, <1>14, <1>15, <1>16
  DEF SessionThread

(* It keeps the type of the variables of the scheduler. *)
LEMMA RtcTypeSession ==
    ASSUME TypeOK, SnapInv, SessionThread
    PROVE  RtcTypeOK'
<1> USE DEF TypeOK
<1>1. CASE UNCHANGED rtcVars
  BY <1>1 DEF RtcTypeOK, rtcVars, schedulerVars, threadVars, policyVars
<1>2. CASE SessionPrepare
  <2>1. CASE PreparePolicy(episode, controlEpoch)
    <3>1. pending' \in Pendings
      BY <2>1 DEF PreparePolicy, SessionTypeOK, RtcTypeOK, Pendings
    <3> QED
      BY <2>1, <3>1 DEF PreparePolicy, SessionTypeOK, RtcTypeOK, threadVars, policyVars
  <2>2. CASE UNCHANGED rtcVars
    BY <2>2, <1>1
  <2> QED
    BY <1>2, <2>1, <2>2 DEF SessionPrepare
<1>3. CASE SessionSnapshot
  <2>1. CASE AcceptSnapshot("session", "bootstrap") /\ UNCHANGED xpc
    <3>1. /\ snap' \in [Threads -> Snapshots]
          /\ UNCHANGED <<schedulerVars, raisedIn, policyVars>>
      BY <2>1, AcceptSnapshotType DEF Threads
    <3> QED
      BY <2>1, <3>1 DEF RtcTypeOK, schedulerVars, policyVars
  <2>2. CASE UNCHANGED rtcVars
    BY <2>2, <1>1
  <2> QED
    BY <1>3, <2>1, <2>2 DEF SessionSnapshot
<1>4. CASE SessionReject
  <2>1. snap["session"].epoch \in Nat
    BY DEF RtcTypeOK, Threads, Snapshots
  <2>2. <<>> \in Seq(Rows)
    OBVIOUS
  <2> QED
    BY <1>4, <2>1, <2>2, NothingIsTyped, AbandonType
    DEF SessionReject, RejectWindow, RtcTypeOK
<1>5. CASE SessionSplice
  <2>1. CASE Splice("session") /\ UNCHANGED xpc
    <3>1. snap["session"].pending.phase = "bootstrap"
      BY <1>5 DEF SnapInv, SessionSplice, Accepting
    <3>2. pending.phase = "bootstrap" /\ UNCHANGED delays
      BY <2>1, <3>1 DEF Splice, StillCurrent
    <3>3. Window("session") \in Seq(Rows)
      BY <3>1, WindowRows DEF WindowStart, Threads, RtcTypeOK
    <3>4. snap' \in [Threads -> Snapshots]
      BY <2>1, NothingIsTyped DEF Splice, RtcTypeOK
    <3> QED
      BY <2>1, <3>2, <3>3, <3>4, NothingIsTyped DEF Splice, RtcTypeOK, policyVars
  <2>2. CASE UNCHANGED rtcVars
    BY <2>2, <1>1
  <2> QED
    BY <1>5, <2>1, <2>2 DEF SessionSplice
<1>6. CASE TakeFault
  BY <1>6 DEF TakeFault, RtcTypeOK, threadVars, policyVars
<1>7. CASE SessionClose
  BY <1>7, <1>1 DEF SessionClose, CloseGate, RtcTypeOK, threadVars, policyVars
<1>8. CASE SessionClear
  <2>1. <<>> \in Seq(Rows) /\ <<>> \in Seq(0..(MaxDelay - 1))
    OBVIOUS
  <2> QED
    BY <1>8, <2>1, NothingIsTyped, AbandonType
    DEF SessionClear, ClearPending, SessionTypeOK, RtcTypeOK, threadVars
<1>9. CASE SessionBegin
  BY <1>9 DEF SessionBegin, BeginEpoch, SessionTypeOK, RtcTypeOK, schedulerVars, threadVars
<1> QED
  BY <1>1, <1>2, <1>3, <1>4, <1>5, <1>6, <1>7, <1>8, <1>9
  DEF SessionThread, SessionPoll, SessionPollTimeout, SessionValidate, SessionInvalid,
      SessionEnableFails, SessionTakeFault, SessionPollPolicy, SessionExit

(* So do the executor thread and the policy worker. *)
LEMMA RtcTypeOthers ==
    ASSUME TypeOK, SnapInv, ExecutorThread \/ PolicyWorker
    PROVE  RtcTypeOK'
<1> USE DEF TypeOK
<1>1. CASE ExecBegin
  BY <1>1 DEF ExecBegin, ExecGoto, RtcTypeOK, schedulerVars, policyVars
<1>2. CASE ExecSnapshot
  <2>1. CASE AcceptSnapshot("executor", "prefetch") /\ ExecGoto("validate")
    <3>1. /\ snap' \in [Threads -> Snapshots]
          /\ UNCHANGED <<schedulerVars, raisedIn, policyVars>>
      BY <2>1, AcceptSnapshotType DEF Threads
    <3> QED
      BY <2>1, <3>1 DEF ExecGoto, RtcTypeOK, schedulerVars, policyVars
  <2>2. CASE ExecRaise /\ raisedIn' = gatewayEpoch
    BY <2>2 DEF ExecRaise, ExecGoto, RtcTypeOK, schedulerVars, policyVars
  <2> QED
    BY <1>2, <2>1, <2>2 DEF ExecSnapshot
<1>3. snap["executor"].epoch \in Nat
  BY DEF RtcTypeOK, Threads, Snapshots
<1>4. CASE ExecValidate
  BY <1>3, <1>4 DEF ExecValidate, ExecRaise, ExecGoto, RtcTypeOK, schedulerVars, policyVars
<1>5. CASE ExecInvalid("fail") \/ ExecInvalid("reject")
  BY <1>3, <1>5 DEF ExecInvalid, ExecGoto, RtcTypeOK, schedulerVars, policyVars
<1>6. CASE ExecReject
  <2>1. <<>> \in Seq(Rows)
    OBVIOUS
  <2> QED
    BY <1>3, <1>6, <2>1, NothingIsTyped, AbandonType
    DEF ExecReject, RejectWindow, ExecGoto, RtcTypeOK
<1>7. CASE ExecSplice
  <2>1. CASE Splice("executor") /\ ExecGoto("publish")
    <3>1. snap["executor"].pending.phase = "prefetch" /\ WindowFits("executor")
      BY <1>7 DEF SnapInv, ExecSplice, Accepting
    <3>2. ActualDelay("executor") \in 0..(MaxDelay - 1)
      BY <3>1 DEF WindowFits
    <3>3. delays' \in Seq(0..(MaxDelay - 1))
      BY <2>1, <3>2, ObservedType DEF Splice, RtcTypeOK
    <3>4. Window("executor") \in Seq(Rows)
      BY <3>1, <3>2, WindowRows DEF WindowStart, Threads, RtcTypeOK
    <3>5. snap' \in [Threads -> Snapshots]
      BY <2>1, NothingIsTyped DEF Splice, RtcTypeOK
    <3> QED
      BY <2>1, <3>3, <3>4, <3>5, NothingIsTyped DEF Splice, ExecGoto, RtcTypeOK, policyVars
  <2>2. CASE ExecRaise /\ raisedIn' = snap["executor"].epoch
    BY <1>3, <2>2 DEF ExecRaise, ExecGoto, RtcTypeOK, schedulerVars, policyVars
  <2> QED
    BY <1>7, <2>1, <2>2 DEF ExecSplice
<1>8. CASE ExecNotDue \/ ExecWatchdog \/ ExecUnderrun \/ ExecStop
  BY <1>8 DEF ExecNotDue, ExecWatchdog, ExecUnderrun, ExecStop, ExecRaise, ExecGoto, RtcTypeOK,
              schedulerVars, policyVars
<1>9. CASE ExecPublishFails
  BY <1>9, HeadTailProperties DEF ExecPublishFails, ExecGoto, RtcTypeOK, policyVars
<1>10. CASE ExecPublish
  <2>1. Head(queue) \in Rows /\ Tail(queue) \in Seq(Rows)
    BY <1>10, HeadTailProperties DEF ExecPublish, RtcTypeOK
  <2>2. pending' \in Pendings
    <3>1. Estimate \in Nat
      BY EstimateInRange DEF RtcTypeOK
    <3>2. [phase |-> "prefetch", done |-> FALSE, epoch |-> gatewayEpoch,
           base |-> issued + 1, estimate |-> Estimate] \in Pendings
      BY <3>1 DEF RtcTypeOK, Pendings
    <3>3. pending \in Pendings
      BY DEF RtcTypeOK
    <3> QED
      BY <1>10, <3>2, <3>3 DEF ExecPublish
  <2> QED
    BY <1>10, <2>1, <2>2 DEF ExecPublish, ExecGoto, RtcTypeOK, policyVars
<1>11. CASE ExecFail
  <2>1. <<>> \in Seq(Rows)
    OBVIOUS
  <2>2. snap' \in [Threads -> Snapshots]
    BY <1>11, NothingIsTyped DEF ExecFail, RtcTypeOK
  <2> QED
    BY <1>11, <2>1, <2>2, NothingIsTyped, AbandonType DEF ExecFail, ExecGoto, RtcTypeOK
<1>12. CASE FinishAbandoned
  BY <1>12 DEF FinishAbandoned, RtcTypeOK, schedulerVars, threadVars
<1>13. CASE FinishPending
  <2>1. pending' \in Pendings
    BY <1>13 DEF FinishPending, RtcTypeOK, Pendings
  <2> QED
    BY <1>13, <2>1 DEF FinishPending, RtcTypeOK, threadVars, policyVars
<1> QED
  BY <1>1, <1>2, <1>4, <1>5, <1>6, <1>7, <1>8, <1>9, <1>10, <1>11, <1>12, <1>13
  DEF ExecutorThread, ExecutorLoop, ExecutorQuiet, ExecutorFails, PolicyWorker
(* The executor thread and the worker leave the Session thread's variables, *)
(* but for the count of failures.                                          *)
LEMMA SessionTypeOthers ==
    ASSUME SessionTypeOK, ExecutorThread \/ PolicyWorker
    PROVE  SessionTypeOK'
<1>1. UNCHANGED <<flowVars, authorityVars, takeovers, signals>> /\ failures' \in Nat
  BY DEF SessionTypeOK, ExecutorThread, ExecutorLoop, ExecutorQuiet, ExecutorFails, PolicyWorker,
         Fails, sessionVars, envVars
<1> QED
  BY <1>1 DEF SessionTypeOK, ArmTypeOK, flowVars, authorityVars, timelineVars, armVars, countVars

(* Every step keeps every variable's type.                                *)
LEMMA TypeStep ==
    ASSUME TypeOK, SnapInv, [Next]_vars
    PROVE  TypeOK'
<1>1. CASE SessionThread
  BY <1>1, SessionTypeStep, RtcTypeSession DEF TypeOK
<1>2. CASE ExecutorThread \/ PolicyWorker
  BY <1>2, SessionTypeOthers, RtcTypeOthers DEF TypeOK
<1>3. CASE UNCHANGED vars
  BY <1>3 DEF TypeOK, SessionTypeOK, ArmTypeOK, RtcTypeOK, vars, sessionVars, rtcVars, flowVars,
              authorityVars, timelineVars, armVars, countVars, envVars, schedulerVars,
              threadVars, policyVars
<1> QED
  BY <1>1, <1>2, <1>3 DEF Next, Ended

(* Where the Session thread is, and in which state of the controller. *)
LEMMA FlowInvSession ==
    ASSUME FlowInv, SessionThread
    PROVE  FlowInv'
<1> USE DEF FlowInv, Acquiring, Leaving, flowVars, authorityVars,
      timelineVars, armVars, countVars, envVars, Works, Fails, Signalled,
      Goto, Return, Escape, EnterFault, Faulting, Paths, StopEpisode, CallReturned, CallRaised,
      Closed
<1>1. CASE StartEpisode
  BY <1>1 DEF StartEpisode
<1>2. CASE StartBlocked
  BY <1>2 DEF StartBlocked
<1>3. CASE StartRefused
  BY <1>3 DEF StartRefused
<1>4. CASE EndSession
  BY <1>4 DEF EndSession
<1>5. CASE AnnouncePolicy
  BY <1>5 DEF AnnouncePolicy
<1>6. CASE PollSafetyFailure
  BY <1>6 DEF PollSafetyFailure
<1>7. CASE EndFaulted
  BY <1>7 DEF EndFaulted
<1>8. CASE EndEpisode
  BY <1>8 DEF EndEpisode
<1>9. CASE Takeover
  BY <1>9 DEF Takeover
<1>10. CASE Resume
  BY <1>10 DEF Resume
<1>11. CASE BumpEpoch
  BY <1>11 DEF BumpEpoch
<1>12. CASE Gravity
  BY <1>12 DEF Gravity
<1>13. CASE GravityRaises
  BY <1>13 DEF GravityRaises
<1>14. CASE ConcludeTakeover
  BY <1>14 DEF ConcludeTakeover
<1>15. CASE ConcludeStop
  BY <1>15 DEF ConcludeStop
<1>16. CASE ConcludeFault
  BY <1>16 DEF ConcludeFault
<1>17. CASE FinishEpisode
  BY <1>17 DEF FinishEpisode
<1>18. CASE CommitEpisode
  BY <1>18 DEF CommitEpisode
<1>19. CASE Interrupt
  BY <1>19 DEF Interrupt
<1>20. CASE InterruptGravity
  BY <1>20 DEF InterruptGravity
<1>21. CASE InterruptFaultCall
  BY <1>21 DEF InterruptFaultCall
<1>22. CASE (\E a \in Arms : EnableArrives(a))
  BY <1>22 DEF EnableArrives
<1>23. CASE SessionPrepare
  BY <1>23 DEF SessionPrepare, threadVars, policyVars, schedulerVars
<1>24. CASE SessionPoll
  BY <1>24 DEF SessionPoll, schedulerVars, threadVars, policyVars
<1>25. CASE SessionPollTimeout
  BY <1>25 DEF SessionPollTimeout, schedulerVars, threadVars, policyVars
<1>26. CASE SessionSnapshot
  BY <1>26 DEF SessionSnapshot, schedulerVars, policyVars, threadVars
<1>27. CASE SessionValidate
  BY <1>27 DEF SessionValidate, schedulerVars, threadVars, policyVars
<1>28. CASE SessionInvalid
  BY <1>28 DEF SessionInvalid, schedulerVars, threadVars, policyVars
<1>29. CASE SessionReject
  BY <1>29 DEF SessionReject
<1>30. CASE SessionSplice
  BY <1>30 DEF SessionSplice, policyVars, schedulerVars, threadVars
<1>31. CASE SessionEnableFails
  BY <1>31 DEF SessionEnableFails, schedulerVars, threadVars, policyVars
<1>32. CASE SessionTakeFault
  BY <1>32 DEF SessionTakeFault, PollFault, threadVars, policyVars
<1>33. CASE SessionPollPolicy
  BY <1>33 DEF SessionPollPolicy, PollPolicy, schedulerVars, threadVars,
      policyVars
<1>34. CASE SessionClose
  BY <1>34 DEF SessionClose, CloseRaised, threadVars, policyVars,
      schedulerVars
<1>35. CASE SessionClear
  BY <1>35 DEF SessionClear, threadVars
<1>36. CASE SessionBegin
  BY <1>36 DEF SessionBegin, schedulerVars, threadVars
<1>37. CASE SessionExit
  BY <1>37 DEF SessionExit, schedulerVars, threadVars, policyVars
<1> QED
  BY <1>1, <1>2, <1>3, <1>4, <1>5, <1>6, <1>7, <1>8, <1>9, <1>10, <1>11,
      <1>12, <1>13, <1>14, <1>15, <1>16, <1>17, <1>18, <1>19, <1>20, <1>21,
      <1>22, <1>23, <1>24, <1>25, <1>26, <1>27, <1>28, <1>29, <1>30, <1>31,
      <1>32, <1>33, <1>34, <1>35, <1>36, <1>37
  DEF SessionThread, SessionStep

(* Which event is the last one recorded. *)
LEMMA EventInvSession ==
    ASSUME FlowInv, EventInv, SessionThread
    PROVE  EventInv'
<1> USE DEF EventInv, FlowInv, Acquiring, Leaving, flowVars, authorityVars,
      timelineVars, armVars, countVars, envVars, Works, Fails, Signalled,
      Goto, Return, Escape, EnterFault, Faulting, Paths, StopEpisode, CallReturned, CallRaised,
      Closed
<1>1. CASE StartEpisode
  BY <1>1 DEF StartEpisode
<1>2. CASE StartBlocked
  BY <1>2 DEF StartBlocked
<1>3. CASE StartRefused
  BY <1>3 DEF StartRefused
<1>4. CASE EndSession
  BY <1>4 DEF EndSession
<1>5. CASE AnnouncePolicy
  BY <1>5 DEF AnnouncePolicy
<1>6. CASE PollSafetyFailure
  BY <1>6 DEF PollSafetyFailure
<1>7. CASE EndFaulted
  BY <1>7 DEF EndFaulted
<1>8. CASE EndEpisode
  BY <1>8 DEF EndEpisode
<1>9. CASE Takeover
  BY <1>9 DEF Takeover
<1>10. CASE Resume
  BY <1>10 DEF Resume
<1>11. CASE BumpEpoch
  BY <1>11 DEF BumpEpoch
<1>12. CASE Gravity
  BY <1>12 DEF Gravity
<1>13. CASE GravityRaises
  BY <1>13 DEF GravityRaises
<1>14. CASE ConcludeTakeover
  BY <1>14 DEF ConcludeTakeover
<1>15. CASE ConcludeStop
  BY <1>15 DEF ConcludeStop
<1>16. CASE ConcludeFault
  BY <1>16 DEF ConcludeFault
<1>17. CASE FinishEpisode
  BY <1>17 DEF FinishEpisode
<1>18. CASE CommitEpisode
  BY <1>18 DEF CommitEpisode
<1>19. CASE Interrupt
  BY <1>19 DEF Interrupt
<1>20. CASE InterruptGravity
  BY <1>20 DEF InterruptGravity
<1>21. CASE InterruptFaultCall
  BY <1>21 DEF InterruptFaultCall
<1>22. CASE (\E a \in Arms : EnableArrives(a))
  BY <1>22 DEF EnableArrives
<1>23. CASE SessionPrepare
  BY <1>23 DEF SessionPrepare, threadVars, policyVars, schedulerVars
<1>24. CASE SessionPoll
  BY <1>24 DEF SessionPoll, schedulerVars, threadVars, policyVars
<1>25. CASE SessionPollTimeout
  BY <1>25 DEF SessionPollTimeout, schedulerVars, threadVars, policyVars
<1>26. CASE SessionSnapshot
  BY <1>26 DEF SessionSnapshot, schedulerVars, policyVars, threadVars
<1>27. CASE SessionValidate
  BY <1>27 DEF SessionValidate, schedulerVars, threadVars, policyVars
<1>28. CASE SessionInvalid
  BY <1>28 DEF SessionInvalid, schedulerVars, threadVars, policyVars
<1>29. CASE SessionReject
  BY <1>29 DEF SessionReject
<1>30. CASE SessionSplice
  BY <1>30 DEF SessionSplice, policyVars, schedulerVars, threadVars
<1>31. CASE SessionEnableFails
  BY <1>31 DEF SessionEnableFails, schedulerVars, threadVars, policyVars
<1>32. CASE SessionTakeFault
  BY <1>32 DEF SessionTakeFault, PollFault, threadVars, policyVars
<1>33. CASE SessionPollPolicy
  BY <1>33 DEF SessionPollPolicy, PollPolicy, schedulerVars, threadVars,
      policyVars
<1>34. CASE SessionClose
  BY <1>34 DEF SessionClose, CloseRaised, threadVars, policyVars,
      schedulerVars
<1>35. CASE SessionClear
  BY <1>35 DEF SessionClear, threadVars
<1>36. CASE SessionBegin
  BY <1>36 DEF SessionBegin, schedulerVars, threadVars
<1>37. CASE SessionExit
  BY <1>37 DEF SessionExit, schedulerVars, threadVars, policyVars
<1> QED
  BY <1>1, <1>2, <1>3, <1>4, <1>5, <1>6, <1>7, <1>8, <1>9, <1>10, <1>11,
      <1>12, <1>13, <1>14, <1>15, <1>16, <1>17, <1>18, <1>19, <1>20, <1>21,
      <1>22, <1>23, <1>24, <1>25, <1>26, <1>27, <1>28, <1>29, <1>30, <1>31,
      <1>32, <1>33, <1>34, <1>35, <1>36, <1>37
  DEF SessionThread, SessionStep

(* The gateway's epoch never overtakes the controller's. *)
LEMMA EpochInvSession ==
    ASSUME TypeOK, EpochInv, SessionThread
    PROVE  EpochInv'
<1> USE DEF EpochInv, TypeOK, SessionTypeOK, RtcTypeOK, Accepting, flowVars,
      authorityVars, timelineVars, armVars, countVars, envVars, rtcVars,
      schedulerVars, threadVars, policyVars, Works, Fails, Signalled, Goto,
      Return, Escape, EnterFault, Faulting, Paths, StopEpisode, CallReturned, CallRaised,
      Closed, ExecGoto, ExecRaise
<1>1. CASE StartEpisode /\ UNCHANGED rtcVars
  BY <1>1 DEF StartEpisode
<1>2. CASE StartBlocked /\ UNCHANGED rtcVars
  BY <1>2 DEF StartBlocked
<1>3. CASE StartRefused /\ UNCHANGED rtcVars
  BY <1>3 DEF StartRefused
<1>4. CASE EndSession /\ UNCHANGED rtcVars
  BY <1>4 DEF EndSession
<1>5. CASE AnnouncePolicy /\ UNCHANGED rtcVars
  BY <1>5 DEF AnnouncePolicy
<1>6. CASE PollSafetyFailure /\ UNCHANGED rtcVars
  BY <1>6 DEF PollSafetyFailure
<1>7. CASE EndFaulted /\ UNCHANGED rtcVars
  BY <1>7 DEF EndFaulted
<1>8. CASE EndEpisode /\ UNCHANGED rtcVars
  BY <1>8 DEF EndEpisode
<1>9. CASE Takeover /\ UNCHANGED rtcVars
  BY <1>9 DEF Takeover
<1>10. CASE Resume /\ UNCHANGED rtcVars
  BY <1>10 DEF Resume
<1>11. CASE BumpEpoch /\ UNCHANGED rtcVars
  BY <1>11 DEF BumpEpoch
<1>12. CASE Gravity /\ UNCHANGED rtcVars
  BY <1>12 DEF Gravity
<1>13. CASE GravityRaises /\ UNCHANGED rtcVars
  BY <1>13 DEF GravityRaises
<1>14. CASE ConcludeTakeover /\ UNCHANGED rtcVars
  BY <1>14 DEF ConcludeTakeover
<1>15. CASE ConcludeStop /\ UNCHANGED rtcVars
  BY <1>15 DEF ConcludeStop
<1>16. CASE ConcludeFault /\ UNCHANGED rtcVars
  BY <1>16 DEF ConcludeFault
<1>17. CASE FinishEpisode /\ UNCHANGED rtcVars
  BY <1>17 DEF FinishEpisode
<1>18. CASE CommitEpisode /\ UNCHANGED rtcVars
  BY <1>18 DEF CommitEpisode
<1>19. CASE Interrupt /\ UNCHANGED rtcVars
  BY <1>19 DEF Interrupt
<1>20. CASE InterruptGravity /\ UNCHANGED rtcVars
  BY <1>20 DEF InterruptGravity
<1>21. CASE InterruptFaultCall /\ UNCHANGED rtcVars
  BY <1>21 DEF InterruptFaultCall
<1>22. CASE (\E a \in Arms : EnableArrives(a)) /\ UNCHANGED rtcVars
  BY <1>22 DEF EnableArrives
<1>23. CASE SessionPrepare
  BY <1>23 DEF SessionPrepare, CanPrepare, PreparePolicy, CanSubmit
<1>24. CASE SessionPoll
  BY <1>24 DEF SessionPoll, BootstrapLost
<1>25. CASE SessionPollTimeout
  BY <1>25 DEF SessionPollTimeout, BootstrapLost
<1>26. CASE SessionSnapshot
  BY <1>26 DEF SessionSnapshot, Acceptable, AcceptSnapshot
<1>27. CASE SessionValidate
  BY <1>27 DEF SessionValidate
<1>28. CASE SessionInvalid
  BY <1>28 DEF SessionInvalid
<1>29. CASE SessionReject
  BY <1>29 DEF SessionReject, RejectWindow, Abandon
<1>30. CASE SessionSplice
  BY <1>30 DEF SessionSplice, StillCurrent, EnableArms, Splice
<1>31. CASE SessionEnableFails
  BY <1>31 DEF SessionEnableFails, StillCurrent, EnableArms
<1>32. CASE SessionTakeFault
  BY <1>32 DEF SessionTakeFault, TakeFault, PollFault
<1>33. CASE SessionPollPolicy
  BY <1>33 DEF SessionPollPolicy, PollPolicy
<1>34. CASE SessionClose
  BY <1>34 DEF SessionClose, CloseGate, CloseRaised
<1>35. CASE SessionClear
  BY <1>35 DEF SessionClear, ClearPending, Abandon
<1>36. CASE SessionBegin
  BY <1>36 DEF SessionBegin, BeginEpoch
<1>37. CASE SessionExit
  BY <1>37 DEF SessionExit
<1> QED
  BY <1>1, <1>2, <1>3, <1>4, <1>5, <1>6, <1>7, <1>8, <1>9, <1>10, <1>11,
      <1>12, <1>13, <1>14, <1>15, <1>16, <1>17, <1>18, <1>19, <1>20, <1>21,
      <1>22, <1>23, <1>24, <1>25, <1>26, <1>27, <1>28, <1>29, <1>30, <1>31,
      <1>32, <1>33, <1>34, <1>35, <1>36, <1>37
  DEF SessionThread, SessionStep

(* The executor thread and the policy worker leave both epochs alone.     *)
LEMMA EpochInvOthers ==
    ASSUME TypeOK, EpochInv, ExecutorThread \/ PolicyWorker
    PROVE  EpochInv'
<1> USE DEF EpochInv, TypeOK, SessionTypeOK, RtcTypeOK, Accepting, flowVars,
      authorityVars, timelineVars, armVars, countVars, envVars, rtcVars,
      schedulerVars, threadVars, policyVars, Works, Fails, Signalled, Goto,
      Return, Escape, EnterFault, Faulting, Paths, StopEpisode, CallReturned, CallRaised,
      Closed, ExecGoto, ExecRaise
<1> DEFINE Quiet == UNCHANGED <<flowVars, authorityVars, signals>>
<1>1. CASE ExecBegin /\ Quiet
  BY <1>1 DEF ExecBegin
<1>2. CASE ExecSnapshot /\ Quiet
  BY <1>2 DEF ExecSnapshot, Acceptable, AcceptSnapshot
<1>3. CASE ExecValidate /\ Quiet
  BY <1>3 DEF ExecValidate
<1>4. CASE (ExecInvalid("fail") \/ ExecInvalid("reject")) /\ Quiet
  BY <1>4 DEF ExecInvalid
<1>5. CASE ExecReject /\ Quiet
  BY <1>5 DEF ExecReject, RejectWindow, Abandon
<1>6. CASE ExecSplice /\ Quiet
  BY <1>6 DEF ExecSplice, StillCurrent, Splice
<1>7. CASE ExecNotDue /\ Quiet
  BY <1>7 DEF ExecNotDue
<1>8. CASE ExecWatchdog /\ Quiet
  BY <1>8 DEF ExecWatchdog
<1>9. CASE ExecPublishFails /\ Quiet
  BY <1>9 DEF ExecPublishFails
<1>10. CASE ExecPublish /\ Quiet
  BY <1>10 DEF ExecPublish
<1>11. CASE ExecUnderrun /\ Quiet
  BY <1>11 DEF ExecUnderrun
<1>12. CASE ExecFail /\ Quiet
  BY <1>12 DEF ExecFail, Abandon
<1>13. CASE ExecStop /\ Quiet
  BY <1>13 DEF ExecStop
<1>14. CASE FinishAbandoned /\ Quiet
  BY <1>14 DEF FinishAbandoned
<1>15. CASE FinishPending /\ Quiet
  BY <1>15 DEF FinishPending
<1> QED
  BY <1>1, <1>2, <1>3, <1>4, <1>5, <1>6, <1>7, <1>8, <1>9, <1>10, <1>11,
      <1>12, <1>13, <1>14, <1>15
  DEF ExecutorThread, ExecutorLoop, ExecutorQuiet, ExecutorFails,
      PolicyWorker, sessionVars

(* The gate is opened by a bootstrap splice that has just unlocked both arms*)
(* and is closed before the controller locks them or hands them over.       *)
LEMMA GateInvSession ==
    ASSUME TypeOK, FlowInv, SnapInv, EpochInv, GateInv, HumanInv, SessionThread
    PROVE  GateInv'
<1> USE BoundsAssumption DEF GateInv, LeftBehind, TypeOK, SessionTypeOK, RtcTypeOK,
      EpochInv, FlowInv, SnapInv, Acquiring, Accepting, Leaving, flowVars,
      authorityVars, timelineVars, armVars, countVars, envVars, rtcVars,
      schedulerVars, threadVars, policyVars, Works, Fails, Signalled, Goto,
      Return, Escape, EnterFault, Faulting, Paths, StopEpisode, CallReturned, CallRaised,
      Closed, ExecGoto, ExecRaise
<1>1. CASE StartEpisode /\ UNCHANGED rtcVars
  BY <1>1 DEF StartEpisode
<1>2. CASE StartBlocked /\ UNCHANGED rtcVars
  BY <1>2 DEF StartBlocked
<1>3. CASE StartRefused /\ UNCHANGED rtcVars
  BY <1>3 DEF StartRefused
<1>4. CASE EndSession /\ UNCHANGED rtcVars
  BY <1>4 DEF EndSession
<1>5. CASE AnnouncePolicy /\ UNCHANGED rtcVars
  BY <1>5 DEF AnnouncePolicy
<1>6. CASE PollSafetyFailure /\ UNCHANGED rtcVars
  BY <1>6 DEF PollSafetyFailure
<1>7. CASE EndFaulted /\ UNCHANGED rtcVars
  BY <1>7 DEF EndFaulted
<1>8. CASE EndEpisode /\ UNCHANGED rtcVars
  BY <1>8 DEF EndEpisode
<1>9. CASE Takeover /\ UNCHANGED rtcVars
  BY <1>9 DEF Takeover
<1>10. CASE Resume /\ UNCHANGED rtcVars
  BY <1>10 DEF Resume
<1>11. CASE BumpEpoch /\ UNCHANGED rtcVars
  BY <1>11 DEF BumpEpoch
<1>12. CASE Gravity /\ UNCHANGED rtcVars
  BY <1>12 DEF Gravity
<1>13. CASE GravityRaises /\ UNCHANGED rtcVars
  BY <1>13 DEF GravityRaises
<1>14. CASE ConcludeTakeover /\ UNCHANGED rtcVars
  BY <1>14 DEF ConcludeTakeover, HumanInv
<1>15. CASE ConcludeStop /\ UNCHANGED rtcVars
  BY <1>15 DEF ConcludeStop
<1>16. CASE ConcludeFault /\ UNCHANGED rtcVars
  BY <1>16 DEF ConcludeFault
<1>17. CASE FinishEpisode /\ UNCHANGED rtcVars
  BY <1>17 DEF FinishEpisode
<1>18. CASE CommitEpisode /\ UNCHANGED rtcVars
  BY <1>18 DEF CommitEpisode
<1>19. CASE Interrupt /\ UNCHANGED rtcVars
  BY <1>19 DEF Interrupt
<1>20. CASE InterruptGravity /\ UNCHANGED rtcVars
  BY <1>20 DEF InterruptGravity
<1>21. CASE InterruptFaultCall /\ UNCHANGED rtcVars
  BY <1>21 DEF InterruptFaultCall
<1>22. CASE (\E a \in Arms : EnableArrives(a)) /\ UNCHANGED rtcVars
  BY <1>22 DEF EnableArrives
<1>23. CASE SessionPrepare
  BY <1>23 DEF SessionPrepare, CanPrepare, PreparePolicy, CanSubmit
<1>24. CASE SessionPoll
  BY <1>24 DEF SessionPoll, BootstrapLost
<1>25. CASE SessionPollTimeout
  BY <1>25 DEF SessionPollTimeout, BootstrapLost
<1>26. CASE SessionSnapshot
  BY <1>26 DEF SessionSnapshot, Acceptable, AcceptSnapshot
<1>27. CASE SessionValidate
  BY <1>27 DEF SessionValidate
<1>28. CASE SessionInvalid
  BY <1>28 DEF SessionInvalid
<1>29. CASE SessionReject
  BY <1>29 DEF SessionReject, RejectWindow, Abandon
<1>30. CASE SessionSplice
  BY <1>30 DEF SessionSplice, StillCurrent, EnableArms, Splice
<1>31. CASE SessionEnableFails
  BY <1>31 DEF SessionEnableFails, StillCurrent, EnableArms
<1>32. CASE SessionTakeFault
  BY <1>32 DEF SessionTakeFault, TakeFault, PollFault
<1>33. CASE SessionPollPolicy
  BY <1>33 DEF SessionPollPolicy, PollPolicy
<1>34. CASE SessionClose
  BY <1>34 DEF SessionClose, CloseGate, CloseRaised
<1>35. CASE SessionClear
  BY <1>35 DEF SessionClear, ClearPending, Abandon
<1>36. CASE SessionBegin
  BY <1>36 DEF SessionBegin, BeginEpoch
<1>37. CASE SessionExit
  BY <1>37 DEF SessionExit
<1> QED
  BY <1>1, <1>2, <1>3, <1>4, <1>5, <1>6, <1>7, <1>8, <1>9, <1>10, <1>11,
      <1>12, <1>13, <1>14, <1>15, <1>16, <1>17, <1>18, <1>19, <1>20, <1>21,
      <1>22, <1>23, <1>24, <1>25, <1>26, <1>27, <1>28, <1>29, <1>30, <1>31,
      <1>32, <1>33, <1>34, <1>35, <1>36, <1>37
  DEF SessionThread, SessionStep

(* The executor thread and the policy worker never open the gate or touch the arms. *)
LEMMA GateInvOthers ==
    ASSUME TypeOK, FlowInv, SnapInv, EpochInv, GateInv, ExecutorThread \/ PolicyWorker
    PROVE  GateInv'
<1> USE BoundsAssumption DEF GateInv, LeftBehind, TypeOK, SessionTypeOK, RtcTypeOK,
      EpochInv, FlowInv, SnapInv, Acquiring, Accepting, Leaving, flowVars,
      authorityVars, timelineVars, armVars, countVars, envVars, rtcVars,
      schedulerVars, threadVars, policyVars, Works, Fails, Signalled, Goto,
      Return, Escape, EnterFault, Faulting, Paths, StopEpisode, CallReturned, CallRaised,
      Closed, ExecGoto, ExecRaise
<1> DEFINE Quiet == UNCHANGED <<flowVars, authorityVars, signals>>
<1>1. CASE ExecBegin /\ Quiet
  BY <1>1 DEF ExecBegin
<1>2. CASE ExecSnapshot /\ Quiet
  BY <1>2 DEF ExecSnapshot, Acceptable, AcceptSnapshot
<1>3. CASE ExecValidate /\ Quiet
  BY <1>3 DEF ExecValidate
<1>4. CASE (ExecInvalid("fail") \/ ExecInvalid("reject")) /\ Quiet
  BY <1>4 DEF ExecInvalid
<1>5. CASE ExecReject /\ Quiet
  BY <1>5 DEF ExecReject, RejectWindow, Abandon
<1>6. CASE ExecSplice /\ Quiet
  BY <1>6 DEF ExecSplice, StillCurrent, Splice
<1>7. CASE ExecNotDue /\ Quiet
  BY <1>7 DEF ExecNotDue
<1>8. CASE ExecWatchdog /\ Quiet
  BY <1>8 DEF ExecWatchdog
<1>9. CASE ExecPublishFails /\ Quiet
  BY <1>9 DEF ExecPublishFails
<1>10. CASE ExecPublish /\ Quiet
  BY <1>10 DEF ExecPublish
<1>11. CASE ExecUnderrun /\ Quiet
  BY <1>11 DEF ExecUnderrun
<1>12. CASE ExecFail /\ Quiet
  BY <1>12 DEF ExecFail, Abandon
<1>13. CASE ExecStop /\ Quiet
  BY <1>13 DEF ExecStop
<1>14. CASE FinishAbandoned /\ Quiet
  BY <1>14 DEF FinishAbandoned
<1>15. CASE FinishPending /\ Quiet
  BY <1>15 DEF FinishPending
<1> QED
  BY <1>1, <1>2, <1>3, <1>4, <1>5, <1>6, <1>7, <1>8, <1>9, <1>10, <1>11,
      <1>12, <1>13, <1>14, <1>15
  DEF ExecutorThread, ExecutorLoop, ExecutorQuiet, ExecutorFails,
      PolicyWorker, sessionVars

(* clear_pending empties the gateway before the human gets the arms. *)
LEMMA HumanInvSession ==
    ASSUME TypeOK, FlowInv, SnapInv, EpochInv, GateInv, HumanInv, SessionThread
    PROVE  HumanInv'
<1> USE DEF HumanInv, TypeOK, SessionTypeOK, RtcTypeOK, NoPending, FlowInv,
      GateInv, SnapInv, Acquiring, Accepting, Leaving, flowVars,
      authorityVars, timelineVars, armVars, countVars, envVars, rtcVars,
      schedulerVars, threadVars, policyVars, Works, Fails, Signalled, Goto,
      Return, Escape, EnterFault, Faulting, Paths, StopEpisode, CallReturned, CallRaised,
      Closed, ExecGoto, ExecRaise
<1>1. CASE StartEpisode /\ UNCHANGED rtcVars
  BY <1>1 DEF StartEpisode
<1>2. CASE StartBlocked /\ UNCHANGED rtcVars
  BY <1>2 DEF StartBlocked
<1>3. CASE StartRefused /\ UNCHANGED rtcVars
  BY <1>3 DEF StartRefused
<1>4. CASE EndSession /\ UNCHANGED rtcVars
  BY <1>4 DEF EndSession
<1>5. CASE AnnouncePolicy /\ UNCHANGED rtcVars
  BY <1>5 DEF AnnouncePolicy
<1>6. CASE PollSafetyFailure /\ UNCHANGED rtcVars
  BY <1>6 DEF PollSafetyFailure
<1>7. CASE EndFaulted /\ UNCHANGED rtcVars
  BY <1>7 DEF EndFaulted
<1>8. CASE EndEpisode /\ UNCHANGED rtcVars
  BY <1>8 DEF EndEpisode
<1>9. CASE Takeover /\ UNCHANGED rtcVars
  BY <1>9 DEF Takeover
<1>10. CASE Resume /\ UNCHANGED rtcVars
  BY <1>10 DEF Resume
<1>11. CASE BumpEpoch /\ UNCHANGED rtcVars
  BY <1>11 DEF BumpEpoch
<1>12. CASE Gravity /\ UNCHANGED rtcVars
  BY <1>12 DEF Gravity
<1>13. CASE GravityRaises /\ UNCHANGED rtcVars
  BY <1>13 DEF GravityRaises
<1>14. CASE ConcludeTakeover /\ UNCHANGED rtcVars
  BY <1>14 DEF ConcludeTakeover
<1>15. CASE ConcludeStop /\ UNCHANGED rtcVars
  BY <1>15 DEF ConcludeStop
<1>16. CASE ConcludeFault /\ UNCHANGED rtcVars
  BY <1>16 DEF ConcludeFault
<1>17. CASE FinishEpisode /\ UNCHANGED rtcVars
  BY <1>17 DEF FinishEpisode
<1>18. CASE CommitEpisode /\ UNCHANGED rtcVars
  BY <1>18 DEF CommitEpisode
<1>19. CASE Interrupt /\ UNCHANGED rtcVars
  BY <1>19 DEF Interrupt
<1>20. CASE InterruptGravity /\ UNCHANGED rtcVars
  BY <1>20 DEF InterruptGravity
<1>21. CASE InterruptFaultCall /\ UNCHANGED rtcVars
  BY <1>21 DEF InterruptFaultCall
<1>22. CASE (\E a \in Arms : EnableArrives(a)) /\ UNCHANGED rtcVars
  BY <1>22 DEF EnableArrives
<1>23. CASE SessionPrepare
  BY <1>23 DEF SessionPrepare, CanPrepare, PreparePolicy, CanSubmit
<1>24. CASE SessionPoll
  BY <1>24 DEF SessionPoll, BootstrapLost
<1>25. CASE SessionPollTimeout
  BY <1>25 DEF SessionPollTimeout, BootstrapLost
<1>26. CASE SessionSnapshot
  BY <1>26 DEF SessionSnapshot, Acceptable, AcceptSnapshot
<1>27. CASE SessionValidate
  BY <1>27 DEF SessionValidate
<1>28. CASE SessionInvalid
  BY <1>28 DEF SessionInvalid
<1>29. CASE SessionReject
  BY <1>29 DEF SessionReject, RejectWindow, Abandon
<1>30. CASE SessionSplice
  BY <1>30 DEF SessionSplice, StillCurrent, EnableArms, Splice
<1>31. CASE SessionEnableFails
  BY <1>31 DEF SessionEnableFails, StillCurrent, EnableArms
<1>32. CASE SessionTakeFault
  BY <1>32 DEF SessionTakeFault, TakeFault, PollFault
<1>33. CASE SessionPollPolicy
  BY <1>33 DEF SessionPollPolicy, PollPolicy
<1>34. CASE SessionClose
  BY <1>34 DEF SessionClose, CloseGate, CloseRaised
<1>35. CASE SessionClear
  BY <1>35 DEF SessionClear, ClearPending, Abandon
<1>36. CASE SessionBegin
  BY <1>36 DEF SessionBegin, BeginEpoch
<1>37. CASE SessionExit
  BY <1>37 DEF SessionExit
<1> QED
  BY <1>1, <1>2, <1>3, <1>4, <1>5, <1>6, <1>7, <1>8, <1>9, <1>10, <1>11,
      <1>12, <1>13, <1>14, <1>15, <1>16, <1>17, <1>18, <1>19, <1>20, <1>21,
      <1>22, <1>23, <1>24, <1>25, <1>26, <1>27, <1>28, <1>29, <1>30, <1>31,
      <1>32, <1>33, <1>34, <1>35, <1>36, <1>37
  DEF SessionThread, SessionStep

(* The executor thread submits and queues only behind an open gate, which a human *)
(* segment excludes.                                                      *)
LEMMA HumanInvOthers ==
    ASSUME TypeOK, FlowInv, SnapInv, EpochInv, GateInv, HumanInv, ExecutorThread \/ PolicyWorker
    PROVE  HumanInv'
<1> USE DEF HumanInv, TypeOK, SessionTypeOK, RtcTypeOK, NoPending, FlowInv,
      GateInv, SnapInv, Acquiring, Accepting, Leaving, flowVars,
      authorityVars, timelineVars, armVars, countVars, envVars, rtcVars,
      schedulerVars, threadVars, policyVars, Works, Fails, Signalled, Goto,
      Return, Escape, EnterFault, Faulting, Paths, StopEpisode, CallReturned, CallRaised,
      Closed, ExecGoto, ExecRaise
<1> DEFINE Quiet == UNCHANGED <<flowVars, authorityVars, signals>>
<1>1. CASE ExecBegin /\ Quiet
  BY <1>1 DEF ExecBegin
<1>2. CASE ExecSnapshot /\ Quiet
  BY <1>2 DEF ExecSnapshot, Acceptable, AcceptSnapshot
<1>3. CASE ExecValidate /\ Quiet
  BY <1>3 DEF ExecValidate
<1>4. CASE (ExecInvalid("fail") \/ ExecInvalid("reject")) /\ Quiet
  BY <1>4 DEF ExecInvalid
<1>5. CASE ExecReject /\ Quiet
  BY <1>5 DEF ExecReject, RejectWindow, Abandon
<1>6. CASE ExecSplice /\ Quiet
  BY <1>6 DEF ExecSplice, StillCurrent, Splice
<1>7. CASE ExecNotDue /\ Quiet
  BY <1>7 DEF ExecNotDue
<1>8. CASE ExecWatchdog /\ Quiet
  BY <1>8 DEF ExecWatchdog
<1>9. CASE ExecPublishFails /\ Quiet
  BY <1>9 DEF ExecPublishFails
<1>10. CASE ExecPublish /\ Quiet
  BY <1>10 DEF ExecPublish
<1>11. CASE ExecUnderrun /\ Quiet
  BY <1>11 DEF ExecUnderrun
<1>12. CASE ExecFail /\ Quiet
  BY <1>12 DEF ExecFail, Abandon
<1>13. CASE ExecStop /\ Quiet
  BY <1>13 DEF ExecStop
<1>14. CASE FinishAbandoned /\ Quiet
  BY <1>14 DEF FinishAbandoned
<1>15. CASE FinishPending /\ Quiet
  BY <1>15 DEF FinishPending
<1> QED
  BY <1>1, <1>2, <1>3, <1>4, <1>5, <1>6, <1>7, <1>8, <1>9, <1>10, <1>11,
      <1>12, <1>13, <1>14, <1>15
  DEF ExecutorThread, ExecutorLoop, ExecutorQuiet, ExecutorFails,
      PolicyWorker, sessionVars

(* Compensation precedes every way out of policy control. *)
LEMMA LockInvSession ==
    ASSUME TypeOK, FlowInv, LockInv, SessionThread
    PROVE  LockInv'
<1> USE DEF LockInv, TypeOK, SessionTypeOK, RtcTypeOK, FlowInv, Locked,
      Acquiring, Accepting, Leaving, flowVars, authorityVars, timelineVars,
      armVars, countVars, envVars, rtcVars, schedulerVars, threadVars,
      policyVars, Works, Fails, Signalled, Goto, Return, Escape, EnterFault, Faulting,
      Paths, StopEpisode, CallReturned, CallRaised, Closed, ExecGoto, ExecRaise
<1>1. CASE StartEpisode /\ UNCHANGED rtcVars
  BY <1>1 DEF StartEpisode
<1>2. CASE StartBlocked /\ UNCHANGED rtcVars
  BY <1>2 DEF StartBlocked
<1>3. CASE StartRefused /\ UNCHANGED rtcVars
  BY <1>3 DEF StartRefused
<1>4. CASE EndSession /\ UNCHANGED rtcVars
  BY <1>4 DEF EndSession
<1>5. CASE AnnouncePolicy /\ UNCHANGED rtcVars
  BY <1>5 DEF AnnouncePolicy
<1>6. CASE PollSafetyFailure /\ UNCHANGED rtcVars
  BY <1>6 DEF PollSafetyFailure
<1>7. CASE EndFaulted /\ UNCHANGED rtcVars
  BY <1>7 DEF EndFaulted
<1>8. CASE EndEpisode /\ UNCHANGED rtcVars
  BY <1>8 DEF EndEpisode
<1>9. CASE Takeover /\ UNCHANGED rtcVars
  BY <1>9 DEF Takeover
<1>10. CASE Resume /\ UNCHANGED rtcVars
  BY <1>10 DEF Resume
<1>11. CASE BumpEpoch /\ UNCHANGED rtcVars
  BY <1>11 DEF BumpEpoch
<1>12. CASE Gravity /\ UNCHANGED rtcVars
  BY <1>12 DEF Gravity
<1>13. CASE GravityRaises /\ UNCHANGED rtcVars
  BY <1>13 DEF GravityRaises
<1>14. CASE ConcludeTakeover /\ UNCHANGED rtcVars
  BY <1>14 DEF ConcludeTakeover
<1>15. CASE ConcludeStop /\ UNCHANGED rtcVars
  BY <1>15 DEF ConcludeStop
<1>16. CASE ConcludeFault /\ UNCHANGED rtcVars
  BY <1>16 DEF ConcludeFault
<1>17. CASE FinishEpisode /\ UNCHANGED rtcVars
  BY <1>17 DEF FinishEpisode
<1>18. CASE CommitEpisode /\ UNCHANGED rtcVars
  BY <1>18 DEF CommitEpisode
<1>19. CASE Interrupt /\ UNCHANGED rtcVars
  BY <1>19 DEF Interrupt
<1>20. CASE InterruptGravity /\ UNCHANGED rtcVars
  BY <1>20 DEF InterruptGravity
<1>21. CASE InterruptFaultCall /\ UNCHANGED rtcVars
  BY <1>21 DEF InterruptFaultCall
<1>22. CASE (\E a \in Arms : EnableArrives(a)) /\ UNCHANGED rtcVars
  BY <1>22 DEF EnableArrives
<1>23. CASE SessionPrepare
  BY <1>23 DEF SessionPrepare, CanPrepare, PreparePolicy, CanSubmit
<1>24. CASE SessionPoll
  BY <1>24 DEF SessionPoll, BootstrapLost
<1>25. CASE SessionPollTimeout
  BY <1>25 DEF SessionPollTimeout, BootstrapLost
<1>26. CASE SessionSnapshot
  BY <1>26 DEF SessionSnapshot, Acceptable, AcceptSnapshot
<1>27. CASE SessionValidate
  BY <1>27 DEF SessionValidate
<1>28. CASE SessionInvalid
  BY <1>28 DEF SessionInvalid
<1>29. CASE SessionReject
  BY <1>29 DEF SessionReject, RejectWindow, Abandon
<1>30. CASE SessionSplice
  BY <1>30 DEF SessionSplice, StillCurrent, EnableArms, Splice
<1>31. CASE SessionEnableFails
  BY <1>31 DEF SessionEnableFails, StillCurrent, EnableArms
<1>32. CASE SessionTakeFault
  BY <1>32 DEF SessionTakeFault, TakeFault, PollFault
<1>33. CASE SessionPollPolicy
  BY <1>33 DEF SessionPollPolicy, PollPolicy
<1>34. CASE SessionClose
  BY <1>34 DEF SessionClose, CloseGate, CloseRaised
<1>35. CASE SessionClear
  BY <1>35 DEF SessionClear, ClearPending, Abandon
<1>36. CASE SessionBegin
  BY <1>36 DEF SessionBegin, BeginEpoch
<1>37. CASE SessionExit
  BY <1>37 DEF SessionExit
<1> QED
  BY <1>1, <1>2, <1>3, <1>4, <1>5, <1>6, <1>7, <1>8, <1>9, <1>10, <1>11,
      <1>12, <1>13, <1>14, <1>15, <1>16, <1>17, <1>18, <1>19, <1>20, <1>21,
      <1>22, <1>23, <1>24, <1>25, <1>26, <1>27, <1>28, <1>29, <1>30, <1>31,
      <1>32, <1>33, <1>34, <1>35, <1>36, <1>37
  DEF SessionThread, SessionStep

(* A new lease needs a new epoch. *)
LEMMA RevokeInvSession ==
    ASSUME TypeOK, FlowInv, EpochInv, GateInv, RevokeInv, SessionThread
    PROVE  RevokeInv'
<1> USE DEF RevokeInv, TypeOK, SessionTypeOK, RtcTypeOK, EpochInv, FlowInv,
      GateInv, Acquiring, Accepting, Leaving, flowVars, authorityVars,
      timelineVars, armVars, countVars, envVars, rtcVars, schedulerVars,
      threadVars, policyVars, Works, Fails, Signalled, Goto, Return, Escape,
      EnterFault, Faulting, Paths, StopEpisode, CallReturned, CallRaised, Closed, ExecGoto,
      ExecRaise
<1>1. CASE StartEpisode /\ UNCHANGED rtcVars
  BY <1>1 DEF StartEpisode
<1>2. CASE StartBlocked /\ UNCHANGED rtcVars
  BY <1>2 DEF StartBlocked
<1>3. CASE StartRefused /\ UNCHANGED rtcVars
  BY <1>3 DEF StartRefused
<1>4. CASE EndSession /\ UNCHANGED rtcVars
  BY <1>4 DEF EndSession
<1>5. CASE AnnouncePolicy /\ UNCHANGED rtcVars
  BY <1>5 DEF AnnouncePolicy
<1>6. CASE PollSafetyFailure /\ UNCHANGED rtcVars
  BY <1>6 DEF PollSafetyFailure
<1>7. CASE EndFaulted /\ UNCHANGED rtcVars
  BY <1>7 DEF EndFaulted
<1>8. CASE EndEpisode /\ UNCHANGED rtcVars
  BY <1>8 DEF EndEpisode
<1>9. CASE Takeover /\ UNCHANGED rtcVars
  BY <1>9 DEF Takeover
<1>10. CASE Resume /\ UNCHANGED rtcVars
  BY <1>10 DEF Resume
<1>11. CASE BumpEpoch /\ UNCHANGED rtcVars
  BY <1>11 DEF BumpEpoch
<1>12. CASE Gravity /\ UNCHANGED rtcVars
  BY <1>12 DEF Gravity
<1>13. CASE GravityRaises /\ UNCHANGED rtcVars
  BY <1>13 DEF GravityRaises
<1>14. CASE ConcludeTakeover /\ UNCHANGED rtcVars
  BY <1>14 DEF ConcludeTakeover
<1>15. CASE ConcludeStop /\ UNCHANGED rtcVars
  BY <1>15 DEF ConcludeStop
<1>16. CASE ConcludeFault /\ UNCHANGED rtcVars
  BY <1>16 DEF ConcludeFault
<1>17. CASE FinishEpisode /\ UNCHANGED rtcVars
  BY <1>17 DEF FinishEpisode
<1>18. CASE CommitEpisode /\ UNCHANGED rtcVars
  BY <1>18 DEF CommitEpisode
<1>19. CASE Interrupt /\ UNCHANGED rtcVars
  BY <1>19 DEF Interrupt
<1>20. CASE InterruptGravity /\ UNCHANGED rtcVars
  BY <1>20 DEF InterruptGravity
<1>21. CASE InterruptFaultCall /\ UNCHANGED rtcVars
  BY <1>21 DEF InterruptFaultCall
<1>22. CASE (\E a \in Arms : EnableArrives(a)) /\ UNCHANGED rtcVars
  BY <1>22 DEF EnableArrives
<1>23. CASE SessionPrepare
  BY <1>23 DEF SessionPrepare, CanPrepare, PreparePolicy, CanSubmit
<1>24. CASE SessionPoll
  BY <1>24 DEF SessionPoll, BootstrapLost
<1>25. CASE SessionPollTimeout
  BY <1>25 DEF SessionPollTimeout, BootstrapLost
<1>26. CASE SessionSnapshot
  BY <1>26 DEF SessionSnapshot, Acceptable, AcceptSnapshot
<1>27. CASE SessionValidate
  BY <1>27 DEF SessionValidate
<1>28. CASE SessionInvalid
  BY <1>28 DEF SessionInvalid
<1>29. CASE SessionReject
  BY <1>29 DEF SessionReject, RejectWindow, Abandon
<1>30. CASE SessionSplice
  BY <1>30 DEF SessionSplice, StillCurrent, EnableArms, Splice
<1>31. CASE SessionEnableFails
  BY <1>31 DEF SessionEnableFails, StillCurrent, EnableArms
<1>32. CASE SessionTakeFault
  BY <1>32 DEF SessionTakeFault, TakeFault, PollFault
<1>33. CASE SessionPollPolicy
  BY <1>33 DEF SessionPollPolicy, PollPolicy
<1>34. CASE SessionClose
  BY <1>34 DEF SessionClose, CloseGate, CloseRaised
<1>35. CASE SessionClear
  BY <1>35 DEF SessionClear, ClearPending, Abandon
<1>36. CASE SessionBegin
  BY <1>36 DEF SessionBegin, BeginEpoch
<1>37. CASE SessionExit
  BY <1>37 DEF SessionExit
<1> QED
  BY <1>1, <1>2, <1>3, <1>4, <1>5, <1>6, <1>7, <1>8, <1>9, <1>10, <1>11,
      <1>12, <1>13, <1>14, <1>15, <1>16, <1>17, <1>18, <1>19, <1>20, <1>21,
      <1>22, <1>23, <1>24, <1>25, <1>26, <1>27, <1>28, <1>29, <1>30, <1>31,
      <1>32, <1>33, <1>34, <1>35, <1>36, <1>37
  DEF SessionThread, SessionStep

(* The executor thread opens no gate: an epoch that lost its lease stays without. *)
LEMMA RevokeInvOthers ==
    ASSUME TypeOK, FlowInv, EpochInv, GateInv, RevokeInv, ExecutorThread \/ PolicyWorker
    PROVE  RevokeInv'
<1> USE DEF RevokeInv, TypeOK, SessionTypeOK, RtcTypeOK, EpochInv, FlowInv,
      GateInv, LeftBehind, Acquiring, Accepting, Leaving, flowVars, authorityVars,
      timelineVars, armVars, countVars, envVars, rtcVars, schedulerVars,
      threadVars, policyVars, Works, Fails, Signalled, Goto, Return, Escape,
      EnterFault, Faulting, Paths, StopEpisode, CallReturned, CallRaised, Closed, ExecGoto,
      ExecRaise
<1> DEFINE Quiet == UNCHANGED <<flowVars, authorityVars, signals>>
<1>1. CASE ExecBegin /\ Quiet
  BY <1>1 DEF ExecBegin
<1>2. CASE ExecSnapshot /\ Quiet
  BY <1>2 DEF ExecSnapshot, Acceptable, AcceptSnapshot
<1>3. CASE ExecValidate /\ Quiet
  BY <1>3 DEF ExecValidate
<1>4. CASE (ExecInvalid("fail") \/ ExecInvalid("reject")) /\ Quiet
  BY <1>4 DEF ExecInvalid
<1>5. CASE ExecReject /\ Quiet
  BY <1>5 DEF ExecReject, RejectWindow, Abandon
<1>6. CASE ExecSplice /\ Quiet
  BY <1>6 DEF ExecSplice, StillCurrent, Splice
<1>7. CASE ExecNotDue /\ Quiet
  BY <1>7 DEF ExecNotDue
<1>8. CASE ExecWatchdog /\ Quiet
  BY <1>8 DEF ExecWatchdog
<1>9. CASE ExecPublishFails /\ Quiet
  BY <1>9 DEF ExecPublishFails
<1>10. CASE ExecPublish /\ Quiet
  BY <1>10 DEF ExecPublish
<1>11. CASE ExecUnderrun /\ Quiet
  BY <1>11 DEF ExecUnderrun
<1>12. CASE ExecFail /\ Quiet
  BY <1>12 DEF ExecFail, Abandon
<1>13. CASE ExecStop /\ Quiet
  BY <1>13 DEF ExecStop
<1>14. CASE FinishAbandoned /\ Quiet
  BY <1>14 DEF FinishAbandoned
<1>15. CASE FinishPending /\ Quiet
  BY <1>15 DEF FinishPending
<1> QED
  BY <1>1, <1>2, <1>3, <1>4, <1>5, <1>6, <1>7, <1>8, <1>9, <1>10, <1>11,
      <1>12, <1>13, <1>14, <1>15
  DEF ExecutorThread, ExecutorLoop, ExecutorQuiet, ExecutorFails,
      PolicyWorker, sessionVars

(* What a thread validated is what it splices. *)
LEMMA SnapInvSession ==
    ASSUME TypeOK, SnapInv, SessionThread
    PROVE  SnapInv'
<1> USE DEF SnapInv, TypeOK, SessionTypeOK, RtcTypeOK, Accepting, Threads,
      WindowFits, WindowStart, ActualDelay, SafeWindow, flowVars,
      authorityVars, timelineVars, armVars, countVars, envVars, rtcVars,
      schedulerVars, threadVars, policyVars, Works, Fails, Signalled, Goto,
      Return, Escape, EnterFault, Faulting, Paths, StopEpisode, CallReturned, CallRaised,
      Closed, ExecGoto, ExecRaise
<1>1. CASE StartEpisode /\ UNCHANGED rtcVars
  BY <1>1 DEF StartEpisode
<1>2. CASE StartBlocked /\ UNCHANGED rtcVars
  BY <1>2 DEF StartBlocked
<1>3. CASE StartRefused /\ UNCHANGED rtcVars
  BY <1>3 DEF StartRefused
<1>4. CASE EndSession /\ UNCHANGED rtcVars
  BY <1>4 DEF EndSession
<1>5. CASE AnnouncePolicy /\ UNCHANGED rtcVars
  BY <1>5 DEF AnnouncePolicy
<1>6. CASE PollSafetyFailure /\ UNCHANGED rtcVars
  BY <1>6 DEF PollSafetyFailure
<1>7. CASE EndFaulted /\ UNCHANGED rtcVars
  BY <1>7 DEF EndFaulted
<1>8. CASE EndEpisode /\ UNCHANGED rtcVars
  BY <1>8 DEF EndEpisode
<1>9. CASE Takeover /\ UNCHANGED rtcVars
  BY <1>9 DEF Takeover
<1>10. CASE Resume /\ UNCHANGED rtcVars
  BY <1>10 DEF Resume
<1>11. CASE BumpEpoch /\ UNCHANGED rtcVars
  BY <1>11 DEF BumpEpoch
<1>12. CASE Gravity /\ UNCHANGED rtcVars
  BY <1>12 DEF Gravity
<1>13. CASE GravityRaises /\ UNCHANGED rtcVars
  BY <1>13 DEF GravityRaises
<1>14. CASE ConcludeTakeover /\ UNCHANGED rtcVars
  BY <1>14 DEF ConcludeTakeover
<1>15. CASE ConcludeStop /\ UNCHANGED rtcVars
  BY <1>15 DEF ConcludeStop
<1>16. CASE ConcludeFault /\ UNCHANGED rtcVars
  BY <1>16 DEF ConcludeFault
<1>17. CASE FinishEpisode /\ UNCHANGED rtcVars
  BY <1>17 DEF FinishEpisode
<1>18. CASE CommitEpisode /\ UNCHANGED rtcVars
  BY <1>18 DEF CommitEpisode
<1>19. CASE Interrupt /\ UNCHANGED rtcVars
  BY <1>19 DEF Interrupt
<1>20. CASE InterruptGravity /\ UNCHANGED rtcVars
  BY <1>20 DEF InterruptGravity
<1>21. CASE InterruptFaultCall /\ UNCHANGED rtcVars
  BY <1>21 DEF InterruptFaultCall
<1>22. CASE (\E a \in Arms : EnableArrives(a)) /\ UNCHANGED rtcVars
  BY <1>22 DEF EnableArrives
<1>23. CASE SessionPrepare
  BY <1>23 DEF SessionPrepare, CanPrepare, PreparePolicy, CanSubmit
<1>24. CASE SessionPoll
  BY <1>24 DEF SessionPoll, BootstrapLost
<1>25. CASE SessionPollTimeout
  BY <1>25 DEF SessionPollTimeout, BootstrapLost
<1>26. CASE SessionSnapshot
  <2>1. CASE AcceptSnapshot("session", "bootstrap") /\ UNCHANGED xpc /\ pc' = "validate"
    <3>1. /\ snap' = [snap EXCEPT !["session"] = snap'["session"]]
          /\ snap'["session"].pending = pending
          /\ pending.phase = "bootstrap"
      BY <2>1, AcceptSnapshotType DEF AcceptSnapshot, Acceptable
    <3>2. snap'["executor"] = snap["executor"]
      BY <3>1
    <3> QED
      BY <2>1, <3>1, <3>2
  <2>2. CASE UNCHANGED snap /\ pc' \notin Accepting /\ UNCHANGED xpc
    BY <2>2
  <2> QED
    BY <1>26, <2>1, <2>2 DEF SessionSnapshot
<1>27. CASE SessionValidate
  BY <1>27 DEF SessionValidate
<1>28. CASE SessionInvalid
  BY <1>28 DEF SessionInvalid
<1>29. CASE SessionReject
  BY <1>29 DEF SessionReject, RejectWindow, Abandon
<1>30. CASE SessionSplice
  BY <1>30 DEF SessionSplice, StillCurrent, EnableArms, Splice, NoSnapshot
<1>31. CASE SessionEnableFails
  BY <1>31 DEF SessionEnableFails, StillCurrent, EnableArms
<1>32. CASE SessionTakeFault
  BY <1>32 DEF SessionTakeFault, TakeFault, PollFault
<1>33. CASE SessionPollPolicy
  BY <1>33 DEF SessionPollPolicy, PollPolicy
<1>34. CASE SessionClose
  BY <1>34 DEF SessionClose, CloseGate, CloseRaised
<1>35. CASE SessionClear
  BY <1>35 DEF SessionClear, ClearPending, Abandon
<1>36. CASE SessionBegin
  BY <1>36 DEF SessionBegin, BeginEpoch
<1>37. CASE SessionExit
  BY <1>37 DEF SessionExit
<1> QED
  BY <1>1, <1>2, <1>3, <1>4, <1>5, <1>6, <1>7, <1>8, <1>9, <1>10, <1>11,
      <1>12, <1>13, <1>14, <1>15, <1>16, <1>17, <1>18, <1>19, <1>20, <1>21,
      <1>22, <1>23, <1>24, <1>25, <1>26, <1>27, <1>28, <1>29, <1>30, <1>31,
      <1>32, <1>33, <1>34, <1>35, <1>36, <1>37
  DEF SessionThread, SessionStep

(* What the executor thread copied stays what it copied until it splices or fails. *)
LEMMA SnapInvOthers ==
    ASSUME TypeOK, SnapInv, ExecutorThread \/ PolicyWorker
    PROVE  SnapInv'
<1> USE DEF SnapInv, TypeOK, SessionTypeOK, RtcTypeOK, Accepting, Threads,
      WindowFits, WindowStart, ActualDelay, SafeWindow, flowVars,
      authorityVars, timelineVars, armVars, countVars, envVars, rtcVars,
      schedulerVars, threadVars, policyVars, Works, Fails, Signalled, Goto,
      Return, Escape, EnterFault, Faulting, Paths, StopEpisode, CallReturned, CallRaised,
      Closed, ExecGoto, ExecRaise
<1> DEFINE Quiet == UNCHANGED <<flowVars, authorityVars, signals>>
<1>1. CASE ExecBegin /\ Quiet
  BY <1>1 DEF ExecBegin
<1>2. CASE ExecSnapshot /\ Quiet
  <2>1. CASE AcceptSnapshot("executor", "prefetch") /\ UNCHANGED pc /\ xpc' = "validate"
    <3>1. /\ snap' = [snap EXCEPT !["executor"] = snap'["executor"]]
          /\ snap'["executor"].pending = pending
          /\ pending.phase = "prefetch"
      BY <2>1, AcceptSnapshotType DEF AcceptSnapshot, Acceptable
    <3>2. snap'["session"] = snap["session"]
      BY <3>1
    <3> QED
      BY <2>1, <3>1, <3>2
  <2>2. CASE UNCHANGED snap /\ xpc' \notin Accepting /\ UNCHANGED pc
    BY <2>2
  <2> QED
    BY <1>2, <2>1, <2>2 DEF ExecSnapshot
<1>3. CASE ExecValidate /\ Quiet
  BY <1>3 DEF ExecValidate
<1>4. CASE (ExecInvalid("fail") \/ ExecInvalid("reject")) /\ Quiet
  BY <1>4 DEF ExecInvalid
<1>5. CASE ExecReject /\ Quiet
  BY <1>5 DEF ExecReject, RejectWindow, Abandon
<1>6. CASE ExecSplice /\ Quiet
  BY <1>6 DEF ExecSplice, StillCurrent, Splice, NoSnapshot
<1>7. CASE ExecNotDue /\ Quiet
  BY <1>7 DEF ExecNotDue
<1>8. CASE ExecWatchdog /\ Quiet
  BY <1>8 DEF ExecWatchdog
<1>9. CASE ExecPublishFails /\ Quiet
  BY <1>9 DEF ExecPublishFails
<1>10. CASE ExecPublish /\ Quiet
  BY <1>10 DEF ExecPublish
<1>11. CASE ExecUnderrun /\ Quiet
  BY <1>11 DEF ExecUnderrun
<1>12. CASE ExecFail /\ Quiet
  BY <1>12 DEF ExecFail, Abandon, NoSnapshot
<1>13. CASE ExecStop /\ Quiet
  BY <1>13 DEF ExecStop
<1>14. CASE FinishAbandoned /\ Quiet
  BY <1>14 DEF FinishAbandoned
<1>15. CASE FinishPending /\ Quiet
  BY <1>15 DEF FinishPending
<1> QED
  BY <1>1, <1>2, <1>3, <1>4, <1>5, <1>6, <1>7, <1>8, <1>9, <1>10, <1>11,
      <1>12, <1>13, <1>14, <1>15
  DEF ExecutorThread, ExecutorLoop, ExecutorQuiet, ExecutorFails,
      PolicyWorker, sessionVars

(* A splice makes the queue the plan of the next SafeWindow steps: the rows *)
(* before the actual delay were sent while the response was computed.       *)
LEMMA SplicedPlan ==
    ASSUME TypeOK, PlanInv, NEW t \in Threads, Splice(t), WindowFits(t),
           pending.phase # "none"
    PROVE  /\ \A i \in DOMAIN queue' : queue'[i] = [epoch |-> gatewayEpoch, step |-> issued + i - 1]
           /\ Len(queue') = SafeWindow
           /\ pending' = NoPending /\ sinceSplice' = 0
           /\ UNCHANGED <<gatewayEpoch, issued>>
<1>1. snap[t].pending = pending /\ snap[t].issued = issued
  BY DEF Splice, StillCurrent
<1>2. pending.phase \in {"bootstrap", "prefetch"} /\ pending.base \in Nat /\ issued \in Nat
  BY DEF TypeOK, RtcTypeOK, Pendings
<1>3. pending.epoch = gatewayEpoch
  BY DEF PlanInv
<1>4. WindowStart(t) \in Nat /\ pending.base + WindowStart(t) = issued
  <2>1. CASE pending.phase = "bootstrap"
    BY <1>1, <1>2, <2>1 DEF PlanInv, WindowStart
  <2>2. CASE pending.phase = "prefetch"
    BY <1>1, <1>2, <2>2 DEF WindowFits, WindowStart, ActualDelay
  <2> QED
    BY <1>2, <2>1, <2>2
<1>5. /\ Len(Window(t)) = SafeWindow
      /\ DOMAIN Window(t) = 1..SafeWindow
      /\ \A i \in 1..SafeWindow :
           Window(t)[i] = [epoch |-> gatewayEpoch, step |-> pending.base + WindowStart(t) + i - 1]
  BY <1>1, <1>3, <1>4, WindowRows DEF TypeOK, RtcTypeOK
<1>6. SafeWindow \in Nat
  BY SafeWindowPositive
<1>7. \A i \in 1..SafeWindow : Window(t)[i] = [epoch |-> gatewayEpoch, step |-> issued + i - 1]
  BY <1>4, <1>5
<1> QED
  BY <1>5, <1>7 DEF Splice


(* The Session thread replaces the whole plan or drops it.                *)
LEMMA PlanInvSession ==
    ASSUME TypeOK, SnapInv, GateInv, PlanInv, SessionThread
    PROVE  PlanInv'
<1>a. SafeWindow' = SafeWindow /\ SafeWindow \in Nat /\ PrefetchAfter \in Nat \ {0}
  BY RolloutAssumption, SafeWindowPositive DEF SafeWindow
<1>1. CASE UNCHANGED rtcVars
  BY <1>a, <1>1 DEF PlanInv, QueueIsThePlan, WindowAccounting, rtcVars,
      schedulerVars, threadVars
<1>2. CASE SessionPrepare
  <2>1. CASE UNCHANGED rtcVars
    BY <1>1, <2>1
  <2>2. CASE PreparePolicy(episode, controlEpoch)
    <3>1. ~gateOpen' /\ gatewayEpoch' = gatewayEpoch /\ issued' = issued
      BY <2>2 DEF PreparePolicy, CanPrepare
    <3>2. pending'.phase # "none" => pending'.epoch = gatewayEpoch
      BY <2>2 DEF PreparePolicy, CanPrepare
    <3>3. pending'.phase = "bootstrap" => pending'.base = issued
      BY <2>2 DEF PreparePolicy, CanPrepare
    <3> QED
      BY <3>1, <3>2, <3>3 DEF PlanInv, QueueIsThePlan, WindowAccounting
  <2> QED
    BY <1>2, <2>1, <2>2 DEF SessionPrepare
<1>3. CASE SessionSnapshot
  BY <1>a, <1>3 DEF PlanInv, QueueIsThePlan, WindowAccounting,
      SessionSnapshot, Acceptable, AcceptSnapshot, rtcVars, schedulerVars,
      threadVars
<1>4. CASE SessionReject
  BY <1>a, <1>4 DEF PlanInv, QueueIsThePlan, WindowAccounting, NoPending,
      SessionReject, RejectWindow
<1>5. CASE SessionSplice
  <2>1. CASE Splice("session") /\ UNCHANGED xpc
    <3>1. WindowFits("session") /\ pending.phase # "none"
      BY <1>5, <2>1 DEF SessionSplice, SnapInv, Accepting, Splice, StillCurrent
    <3>2. PrefetchAfter \in Nat \ {0} /\ SafeWindow \in Nat
      BY RolloutAssumption, SafeWindowPositive
    <3> QED
      BY <2>1, <3>1, <3>2, SplicedPlan
      DEF PlanInv, QueueIsThePlan, WindowAccounting, Threads, NoPending, SafeWindow
  <2>2. CASE UNCHANGED rtcVars
    BY <2>2
       DEF PlanInv, QueueIsThePlan, WindowAccounting, SafeWindow, rtcVars,
           schedulerVars, threadVars
  <2> QED
    BY <1>5, <2>1, <2>2 DEF SessionSplice
<1>6. CASE SessionTakeFault
  BY <1>a, <1>6 DEF PlanInv, QueueIsThePlan, WindowAccounting,
      SessionTakeFault, TakeFault, threadVars, policyVars
<1>7. CASE SessionClose
  BY <1>a, <1>7 DEF PlanInv, QueueIsThePlan, WindowAccounting, SessionClose,
      CloseGate, rtcVars, schedulerVars, threadVars
<1>8. CASE SessionClear
  BY <1>a, <1>8 DEF PlanInv, QueueIsThePlan, WindowAccounting, NoPending,
      SessionClear, ClearPending, threadVars
<1>9. CASE SessionBegin
  BY <1>a, <1>9 DEF PlanInv, QueueIsThePlan, WindowAccounting, SessionBegin,
      BeginEpoch, schedulerVars, threadVars
<1> QED
  BY <1>1, <1>2, <1>3, <1>4, <1>5, <1>6, <1>7, <1>8, <1>9
  DEF SessionThread, SessionPoll, SessionPollTimeout, SessionValidate,
      SessionInvalid, SessionEnableFails, SessionTakeFault, SessionPollPolicy,
      SessionExit

(* The executor thread consumes the plan from the front and splices at the boundary. *)
LEMMA PlanInvOthers ==
    ASSUME TypeOK, SnapInv, GateInv, PlanInv, ExecutorThread \/ PolicyWorker
    PROVE  PlanInv'
<1>a. SafeWindow' = SafeWindow /\ SafeWindow \in Nat /\ PrefetchAfter \in Nat \ {0}
  BY RolloutAssumption, SafeWindowPositive DEF SafeWindow
<1>1. CASE ExecBegin
  BY <1>a, <1>1 DEF PlanInv, QueueIsThePlan, WindowAccounting, ExecBegin,
      ExecGoto, schedulerVars, policyVars
<1>2. CASE ExecSnapshot
  BY <1>a, <1>2 DEF PlanInv, QueueIsThePlan, WindowAccounting, ExecSnapshot,
      Acceptable, AcceptSnapshot, ExecGoto, ExecRaise, schedulerVars,
      policyVars
<1>3. CASE ExecValidate
  BY <1>a, <1>3 DEF PlanInv, QueueIsThePlan, WindowAccounting, ExecValidate,
      WindowFits, ExecGoto, schedulerVars, policyVars, ExecRaise, ActualDelay,
      WindowStart
<1>4. CASE (ExecInvalid("fail") \/ ExecInvalid("reject"))
  BY <1>a, <1>4 DEF PlanInv, QueueIsThePlan, WindowAccounting, ExecInvalid,
      ExecGoto, schedulerVars, policyVars
<1>5. CASE ExecReject
  BY <1>a, <1>5 DEF PlanInv, QueueIsThePlan, WindowAccounting, NoPending,
      ExecReject, RejectWindow, ExecGoto
<1>6. CASE ExecSplice
  <2>1. CASE Splice("executor") /\ ExecGoto("publish")
    <3>1. WindowFits("executor") /\ pending.phase # "none"
      BY <1>6, <2>1 DEF ExecSplice, SnapInv, Accepting, Splice, StillCurrent
    <3>2. PrefetchAfter \in Nat \ {0} /\ SafeWindow \in Nat
      BY RolloutAssumption, SafeWindowPositive
    <3> QED
      BY <2>1, <3>1, <3>2, SplicedPlan
      DEF PlanInv, QueueIsThePlan, WindowAccounting, Threads, NoPending, SafeWindow
  <2>2. CASE ExecRaise
    BY <2>2
       DEF ExecRaise, ExecGoto, PlanInv, QueueIsThePlan, WindowAccounting,
           SafeWindow, schedulerVars
  <2> QED
    BY <1>6, <2>1, <2>2 DEF ExecSplice
<1>7. CASE ExecNotDue
  BY <1>a, <1>7 DEF PlanInv, QueueIsThePlan, WindowAccounting, ExecNotDue,
      ExecGoto, schedulerVars, policyVars
<1>8. CASE ExecWatchdog
  BY <1>a, <1>8 DEF PlanInv, QueueIsThePlan, WindowAccounting, ExecWatchdog,
      ExecRaise, ExecGoto, schedulerVars, policyVars
<1>9. CASE ExecPublishFails
  BY <1>a, <1>9 DEF PlanInv, QueueIsThePlan, WindowAccounting,
      ExecPublishFails, ExecGoto, policyVars
<1>10. CASE ExecPublish
  <2>1. /\ xpc = "publish" /\ gateOpen /\ queue # <<>> /\ queue \in Seq(Rows)
        /\ queue' = Tail(queue) /\ issued' = issued + 1 /\ sinceSplice' = sinceSplice + 1
        /\ UNCHANGED <<gatewayEpoch, gateOpen>>
    BY <1>10 DEF ExecPublish, TypeOK, RtcTypeOK
  <2>2. issued \in Nat /\ sinceSplice \in Nat /\ PrefetchAfter \in Nat \ {0} /\ SafeWindow \in Nat
    BY RolloutAssumption, SafeWindowPositive DEF TypeOK, RtcTypeOK
  <2>3. \A i \in DOMAIN queue' :
          queue'[i] = [epoch |-> gatewayEpoch, step |-> issued' + i - 1]
    <3>1. \A i \in DOMAIN queue : queue[i] = [epoch |-> gatewayEpoch, step |-> issued + i - 1]
      BY <2>1 DEF PlanInv, QueueIsThePlan
    <3>2. ASSUME NEW i \in DOMAIN queue'
          PROVE  i \in Nat /\ i + 1 \in DOMAIN queue /\ queue'[i] = queue[i + 1]
      BY <2>1, HeadTailProperties
    <3> QED
      BY <2>1, <2>2, <3>1, <3>2
  <2>4. Len(queue') = Len(queue) - 1 /\ Len(queue) \in Nat
    BY <2>1, HeadTailProperties
  <2>5. \/ /\ sinceSplice + 1 = PrefetchAfter /\ pending.phase = "none"
           /\ \/ xpc' = "fail" /\ UNCHANGED pending
              \/ pending' = [phase |-> "prefetch", done |-> FALSE, epoch |-> gatewayEpoch,
                             base |-> issued + 1, estimate |-> Estimate]
        \/ /\ ~(sinceSplice + 1 = PrefetchAfter /\ pending.phase = "none")
           /\ UNCHANGED pending
    BY <1>10 DEF ExecPublish, ExecGoto
  <2>6. pending.phase \in {"none", "bootstrap", "prefetch"} /\ pending.base \in Nat
    BY DEF TypeOK, RtcTypeOK, Pendings
  <2>7. /\ Len(queue) + sinceSplice = SafeWindow
        /\ pending.phase = "prefetch" => issued - pending.base = sinceSplice - PrefetchAfter
        /\ pending.phase = "none" => sinceSplice < PrefetchAfter
        /\ pending.phase # "none" => pending.epoch = gatewayEpoch
        /\ pending.phase # "bootstrap"
    BY <2>1 DEF PlanInv, WindowAccounting
  <2>8. /\ pending'.phase # "none" => pending'.epoch = gatewayEpoch'
        /\ pending'.phase # "bootstrap"
    BY <2>1, <2>5, <2>7
  <2>9. xpc' # "fail" => /\ pending'.phase = "prefetch" => issued' - pending'.base = sinceSplice' - PrefetchAfter
                         /\ pending'.phase = "none" => sinceSplice' < PrefetchAfter
    <3>1. CASE sinceSplice + 1 = PrefetchAfter /\ pending.phase = "none" /\ xpc' # "fail"
      <4>1. pending'.phase = "prefetch" /\ pending'.base = issued + 1
        BY <2>5, <3>1
      <4> QED
        BY <2>1, <2>2, <3>1, <4>1
    <3>2. CASE ~(sinceSplice + 1 = PrefetchAfter /\ pending.phase = "none")
      <4>1. pending' = pending /\ issued' = issued + 1 /\ sinceSplice' = sinceSplice + 1
        BY <2>1, <2>5, <3>2
      <4>2. pending.phase = "prefetch" => issued + 1 - pending.base = sinceSplice + 1 - PrefetchAfter
        BY <2>2, <2>6, <2>7
      <4>3. pending.phase = "none" => sinceSplice + 1 < PrefetchAfter
        BY <2>2, <2>7, <3>2
      <4>4. pending'.phase = "prefetch" => issued' - pending'.base = sinceSplice' - PrefetchAfter
        BY <2>2, <2>6, <4>1, <4>2
      <4>5. pending'.phase = "none" => sinceSplice' < PrefetchAfter
        BY <4>1, <4>3
      <4> QED
        BY <4>4, <4>5
    <3> QED
      BY <3>1, <3>2
  <2>10. Len(queue') + sinceSplice' = SafeWindow'
    BY <2>1, <2>2, <2>4, <2>7 DEF SafeWindow
  <2> QED
    BY <2>1, <2>3, <2>8, <2>9, <2>10 DEF PlanInv, QueueIsThePlan, WindowAccounting
<1>11. CASE ExecUnderrun
  BY <1>a, <1>11 DEF PlanInv, QueueIsThePlan, WindowAccounting, ExecUnderrun,
      ExecRaise, ExecGoto, schedulerVars, policyVars
<1>12. CASE ExecFail
  BY <1>a, <1>12 DEF PlanInv, QueueIsThePlan, WindowAccounting, NoPending,
      ExecFail, ExecGoto
<1>13. CASE ExecStop
  BY <1>a, <1>13 DEF PlanInv, QueueIsThePlan, WindowAccounting, ExecStop,
      ExecGoto, schedulerVars, policyVars
<1>14. CASE FinishAbandoned
  BY <1>a, <1>14 DEF PlanInv, QueueIsThePlan, WindowAccounting,
      FinishAbandoned, schedulerVars, threadVars
<1>15. CASE FinishPending
  BY <1>a, <1>15 DEF PlanInv, QueueIsThePlan, WindowAccounting, TypeOK,
      RtcTypeOK, Pendings, FinishPending, threadVars, policyVars
<1> QED
  BY <1>1, <1>2, <1>3, <1>4, <1>5, <1>6, <1>7, <1>8, <1>9, <1>10, <1>11,
      <1>12, <1>13, <1>14, <1>15
  DEF ExecutorThread, ExecutorLoop, ExecutorQuiet, ExecutorFails, PolicyWorker

(***************************************************************************)
(* The theorems.                                                           *)
(***************************************************************************)

(* The initial states satisfy the inductive invariant.                    *)
LEMMA InitInv == Init => IInv
<1> SUFFICES ASSUME Init PROVE IInv
  OBVIOUS
<1>1. SessionTypeOK
  <2>1. ArmTypeOK
    BY DEF ArmTypeOK, Init, SessionInit
  <2>2. /\ pc \in Steps /\ hook \in {"none", "start", "wait", "stop"}
        /\ path \in Paths
        /\ state \in States
    BY DEF Init, SessionInit, Steps, States, Paths
  <2>3. /\ active \in {"none", "model", "human"} /\ lastEvent \in Events
        /\ safetyFailure \in BOOLEAN /\ interrupted \in BOOLEAN
    BY DEF Init, SessionInit, Events
  <2>4. /\ controlEpoch \in Nat /\ episode \in Nat /\ episodes \in Nat /\ firstEpoch \in Nat
        /\ committed \in Nat /\ takeovers \in Nat /\ failures \in Nat /\ signals \in Nat
    BY DEF Init, SessionInit
  <2> QED
    BY <2>1, <2>2, <2>3, <2>4 DEF SessionTypeOK
<1> USE DEF Init, SessionInit, RtcInit
<1>2. TypeOK
  <2>2. /\ queue \in Seq(Rows) /\ delays \in Seq(0..(MaxDelay - 1))
        /\ pending \in Pendings
        /\ snap \in [Threads -> Snapshots]
    BY NothingIsTyped
  <2>3. RtcTypeOK
    BY <2>2 DEF RtcTypeOK
  <2> QED
    BY <1>1, <2>3 DEF TypeOK
<1>3. FlowInv /\ EventInv /\ SnapInv /\ EpochInv /\ GateInv /\ HumanInv /\ RevokeInv
  BY
     DEF FlowInv, EventInv, SnapInv, EpochInv, GateInv, HumanInv, RevokeInv, Acquiring,
         Accepting, Leaving
<1>4. LockInv
  BY DEF LockInv, Locked, Leaving
<1>5. PlanInv
  BY DEF PlanInv, QueueIsThePlan, WindowAccounting, NoPending
<1> QED
  BY <1>2, <1>3, <1>4, <1>5 DEF IInv

(* A stuttering step keeps it.                                            *)
LEMMA StutterInv ==
    ASSUME IInv, UNCHANGED vars
    PROVE  IInv'
<1> USE DEF vars, sessionVars, rtcVars, flowVars, authorityVars, timelineVars, armVars, countVars,
            envVars, schedulerVars, threadVars, policyVars
<1>1. TypeOK'
  BY TypeStep DEF IInv
<1>2. FlowInv' /\ EventInv' /\ EpochInv' /\ GateInv' /\ HumanInv' /\ RevokeInv'
  BY
     DEF IInv, FlowInv, EventInv, EpochInv, GateInv, LeftBehind, Faulting, HumanInv, RevokeInv,
         Acquiring, Accepting, Leaving
<1>3. SnapInv'
  BY DEF IInv, SnapInv, Accepting, WindowFits, WindowStart, ActualDelay, SafeWindow
<1>4. LockInv'
  BY DEF IInv, LockInv, Locked, Faulting, Leaving
<1>5. PlanInv'
  BY DEF IInv, PlanInv, QueueIsThePlan, WindowAccounting, SafeWindow
<1> QED
  BY <1>1, <1>2, <1>3, <1>4, <1>5 DEF IInv

(* Every step keeps it: by thread, from the lemmas of RtcTakeoverInv_proofs. *)
LEMMA StepInv == IInv /\ [Next]_vars => IInv'
<1> SUFFICES ASSUME IInv, [Next]_vars PROVE IInv'
  OBVIOUS
<1> USE DEF IInv
<1>1. TypeOK'
  BY TypeStep
<1>2. CASE SessionThread
  BY <1>1, <1>2, FlowInvSession, EventInvSession, SnapInvSession, EpochInvSession,
     GateInvSession, HumanInvSession, LockInvSession, PlanInvSession, RevokeInvSession
<1>3. CASE ExecutorThread \/ PolicyWorker
  <2>1. UNCHANGED <<flowVars, authorityVars>>
    BY <1>3
       DEF ExecutorThread, ExecutorLoop, ExecutorQuiet, ExecutorFails, PolicyWorker,
           sessionVars
  <2>2. FlowInv' /\ EventInv' /\ LockInv'
    BY <2>1
       DEF FlowInv, EventInv, LockInv, Locked, Faulting, Acquiring, Leaving, flowVars,
           authorityVars, timelineVars,
                armVars
  <2> QED
    BY <1>1, <1>3, <2>2, SnapInvOthers, EpochInvOthers, GateInvOthers, HumanInvOthers,
       PlanInvOthers, RevokeInvOthers
<1>4. CASE UNCHANGED vars
  BY <1>4, StutterInv
<1> QED
  BY <1>2, <1>3, <1>4 DEF Next, Ended

(* Whatever the interleaving of the Session thread, the executor thread and *)
(* the policy worker, IInv holds.                                           *)
THEOREM Inductive == Spec => []IInv
  BY InitInv, StepInv, PTL DEF Spec

(* The variables keep their types; in particular the delay history only ever*)
(* holds delays the checkpoint was trained for.                             *)
THEOREM TypeCorrect == Spec => []TypeOK
<1>1. IInv => TypeOK
  BY DEF IInv
<1> QED
  BY <1>1, Inductive, PTL

(* No command lease exists under a human, whatever signals came.  Under a   *)
(* held fault and between Episodes the only one is of an epoch the          *)
(* controller has left, after two signals at least.                         *)
THEOREM HumanIsAlone == Spec => []NoLeaseWithoutPolicy
<1>1. IInv => NoLeaseWithoutPolicy
  BY DEF IInv, NoLeaseWithoutPolicy, GateInv, HumanInv, Leaving, FlowInv, Acquiring
<1> QED
  BY <1>1, Inductive, PTL

(* The gate is open only while both arms accept policy commands, late       *)
(* enable requests or not, or is left behind by two signals.                *)
THEOREM PairedLease == Spec => []LeaseCoversBothArms
<1>1. IInv => LeaseCoversBothArms
  BY DEF IInv, LeaseCoversBothArms, GateInv
<1> QED
  BY <1>1, Inductive, PTL

(* If no enable request outlives its timeout, the arms are locked whenever  *)
(* the policy has lost them.                                                *)
THEOREM ArmsAreLocked ==
    ASSUME ~LateEnable
    PROVE  Spec => []UnlockedOnlyForPolicy
<1>1. IInv => UnlockedOnlyForPolicy
  BY DEF IInv, UnlockedOnlyForPolicy, FlowInv, LockInv, Locked, Leaving
<1> QED
  BY <1>1, Inductive, PTL

(* An Episode is committed only with both arms locked, if no enable request *)
(* outlives its timeout, and with no lease that two signals have not left   *)
(* behind.                                                                  *)
THEOREM CommitsAreCompensated ==
    ASSUME ~LateEnable
    PROVE  Spec => []CommitIsCompensated
<1>1. IInv => CommitIsCompensated
  BY DEF IInv, CommitIsCompensated, FlowInv, LockInv, GateInv, Locked, Leaving
<1> QED
  BY <1>1, Inductive, PTL

(* Across every splice the queue is the gapless continuation of what was    *)
(* sent.                                                                    *)
THEOREM QueueIsExact == Spec => []QueueIsThePlan
<1>1. IInv => QueueIsThePlan
  BY DEF IInv, PlanInv
<1> QED
  BY <1>1, Inductive, PTL

(* While the gate is open exactly one safe window is out: what the queue    *)
(* still holds and what was sent since the splice add up to it.             *)
THEOREM WindowAddsUp == Spec => []WindowAccounting
<1>1. IInv => WindowAccounting
  BY DEF IInv, PlanInv
<1> QED
  BY <1>1, Inductive, PTL

(* At the prefetch boundary the queue always covers the estimated delay, for*)
(* every history of observed delays: the check in _submit_locked cannot     *)
(* fail.                                                                    *)
THEOREM PrefixNeverShort == Spec => []PrefixIsAvailable
<1>1. ASSUME IInv PROVE PrefixIsAvailable
  <2>1. delays \in Seq(0..(MaxDelay - 1)) /\ Len(queue) \in Nat /\ sinceSplice \in Nat
    BY <1>1, LenProperties DEF IInv, TypeOK, RtcTypeOK
  <2>2. Estimate \in 0..(MaxDelay - 1)
    BY <2>1, EstimateInRange
  <2>3. gateOpen /\ xpc # "fail" => Len(queue) + sinceSplice = PrefetchAfter + MaxDelay - 1
    BY <1>1 DEF IInv, PlanInv, WindowAccounting, SafeWindow
  <2> QED
    BY <2>1, <2>2, <2>3, RolloutAssumption DEF PrefixIsAvailable
<1> QED
  BY <1>1, Inductive, PTL

(* A command counts as sent only when the executor publishes it: then it is *)
(* the planned row, and the lease is in force.                              *)
LEMMA OnlyPublishSends ==
    ASSUME TypeOK, [Next]_vars, issued' > issued
    PROVE  ExecPublish /\ UNCHANGED sessionVars
<1> USE DEF rtcVars, schedulerVars, threadVars, policyVars
<1>1. issued \in Nat
  BY DEF TypeOK, RtcTypeOK
<1>2. ~SessionThread
  <2>1. ASSUME SessionThread PROVE issued' = issued \/ issued' = 0
    BY <2>1 DEF SessionThread, SessionPrepare, PreparePolicy, SessionPoll, SessionPollTimeout,
       SessionSnapshot, AcceptSnapshot, SessionValidate, SessionInvalid, SessionReject,
       RejectWindow, SessionSplice, Splice, SessionEnableFails, SessionTakeFault, TakeFault,
       SessionPollPolicy, SessionClose, CloseGate, SessionClear, ClearPending, SessionBegin,
       BeginEpoch, SessionExit
  <2> QED
    BY <1>1, <2>1
<1>3. ~PolicyWorker /\ ~ExecutorLoop /\ ~ExecutorFails /\ ~UNCHANGED vars
  BY <1>1 DEF PolicyWorker, FinishAbandoned, FinishPending, ExecutorLoop, ExecBegin, ExecStop,
     ExecutorFails, ExecInvalid, ExecWatchdog, ExecPublishFails, ExecRaise, vars
<1>4. CASE ExecutorQuiet
  BY <1>1, <1>4 DEF ExecutorQuiet, ExecSnapshot, AcceptSnapshot, ExecRaise, ExecValidate,
     ExecReject, RejectWindow, ExecSplice, Splice, ExecNotDue, ExecUnderrun, ExecFail
<1> QED
  BY <1>2, <1>3, <1>4 DEF Next, Ended, ExecutorThread

(* Every command sent is the row planned for this step of the gateway's     *)
(* epoch.  Unless _fault swallowed a signal, that epoch is the controller's *)
(* and the controller is in a state of the policy.                          *)
THEOREM OnlyThePlanIsSent == Spec => SendsThePlan
<1> DEFINE Planned ==
      issued' > issued =>
         /\ lastPublished' = [epoch |-> gatewayEpoch, step |-> issued]
         /\ \/ /\ gatewayEpoch = controlEpoch
               /\ state \in {"RESUME_PENDING", "MODEL_CONTROL", "HANDOVER_PENDING"}
            \/ pc = "clear" /\ Faulting /\ signals > 0
            \/ LeftBehind
<1>1. ASSUME IInv, [Next]_vars PROVE Planned
  <2> SUFFICES ASSUME issued' > issued PROVE Planned
    OBVIOUS
  <2>1. ExecPublish
    BY <1>1, OnlyPublishSends DEF IInv
  <2>2. lastPublished' = queue[1] /\ 1 \in DOMAIN queue
    BY <1>1, <2>1, HeadTailProperties DEF ExecPublish, IInv, TypeOK, RtcTypeOK
  <2>3. queue[1] = [epoch |-> gatewayEpoch, step |-> issued + 1 - 1] /\ issued \in Nat
    BY <1>1, <2>1, <2>2 DEF IInv, TypeOK, RtcTypeOK, PlanInv, QueueIsThePlan, ExecPublish
  <2>4. lastPublished' = [epoch |-> gatewayEpoch, step |-> issued]
    BY <2>2, <2>3
  <2> QED
    BY <1>1, <2>1, <2>4 DEF IInv, GateInv, ExecPublish
<1> QED
  BY <1>1, Inductive, PTL DEF Spec, SendsThePlan

(* A recorded event is followed by one the handover protocol allows, and    *)
(* FAULT_HOLD by none of this Episode.                                      *)
LEMMA EventStep ==
    ASSUME TypeOK, FlowInv, EventInv, SessionThread
    PROVE  \/ UNCHANGED lastEvent
           \/ lastEvent' \in Protocol[lastEvent]
           \/ lastEvent' = "NONE" /\ episodes' = episodes + 1
<1> USE DEF timelineVars, authorityVars, CallReturned, CallRaised, Closed
<1>1. CASE SessionStep
  <2>1. CASE StartEpisode
    BY <2>1 DEF StartEpisode
  <2>2. CASE AnnouncePolicy
    BY <2>2 DEF AnnouncePolicy, EventInv, Protocol
  <2>3. CASE Takeover
    BY <2>3 DEF Takeover, EventInv, Protocol
  <2>4. CASE Resume
    BY <2>4 DEF Resume, EventInv, Protocol
  <2>5. CASE ConcludeTakeover
    BY <2>5 DEF ConcludeTakeover, EventInv, Protocol
  <2>6. CASE ConcludeFault
    <3>1. lastEvent # "FAULT_HOLD"
      BY <2>6 DEF ConcludeFault, FlowInv, EventInv, Leaving
    <3>2. lastEvent \in Events /\ lastEvent # "FAULT_HOLD" => "FAULT_HOLD" \in Protocol[lastEvent]
      BY DEF Events, Protocol
    <3> QED
      BY <2>6, <3>1, <3>2 DEF ConcludeFault, TypeOK, SessionTypeOK
  <2>7. CASE UNCHANGED lastEvent
    BY <2>7
  <2> QED
    BY <1>1, <2>1, <2>2, <2>3, <2>4, <2>5, <2>6, <2>7
    DEF SessionStep, StartBlocked, StartRefused, EndSession, PollSafetyFailure, EndFaulted,
        EndEpisode, BumpEpoch, Gravity, GravityRaises, ConcludeStop, FinishEpisode, CommitEpisode,
        Interrupt, InterruptGravity, InterruptFaultCall, EnableArrives
<1>2. CASE ~SessionStep
  BY <1>2 DEF SessionThread, SessionPrepare, SessionPoll, SessionPollTimeout, SessionSnapshot,
     SessionValidate, SessionInvalid, SessionReject, SessionSplice, SessionEnableFails,
     SessionTakeFault, PollFault, SessionPollPolicy, PollPolicy, SessionClose, CloseRaised,
     SessionClear, SessionBegin, SessionExit
<1> QED
  BY <1>1, <1>2

(* The recorded authority events follow the handover protocol.            *)
THEOREM EventsAreOrdered == Spec => EventsFollowProtocol
<1> DEFINE Ordered ==
      lastEvent' # lastEvent =>
         \/ lastEvent' \in Protocol[lastEvent]
         \/ lastEvent' = "NONE" /\ episodes' = episodes + 1
<1>1. ASSUME IInv, [Next]_vars PROVE Ordered
  <2>1. CASE SessionThread
    BY <1>1, <2>1, EventStep DEF IInv
  <2>2. CASE ~SessionThread
    BY <1>1, <2>2 DEF Next, Ended, ExecutorThread, ExecutorLoop, ExecutorQuiet, ExecutorFails,
       PolicyWorker, vars, sessionVars, authorityVars, timelineVars
  <2> QED
    BY <2>1, <2>2
<1> QED
  BY <1>1, Inductive, PTL DEF Spec, EventsFollowProtocol

-----------------------------------------------------------------------------
(* RtcTakeover implements CommandLease: each of its steps grants, uses,    *)
(* revokes or renews the lease of an epoch, opens or closes the human      *)
(* segment, or does nothing the lease can see.                             *)

(* What CommandLease sees of the authority timeline. *)
Human == active = "human"

(* A step it does not see in the gateway. *)
Unseen == UNCHANGED <<gatewayEpoch, gateOpen, revoked, issued>>

(* The initial states map to the initial states of the lease.             *)
LEMMA InitLease == Init => Lease!Init
  BY DEF Init, SessionInit, RtcInit, Lease!Init

(* A step that leaves the gateway's part of the lease opens or closes the   *)
(* human segment, or stutters.                                              *)
LEMMA UnseenStep ==
    ASSUME Unseen, Human' /\ ~Human => ~gateOpen
    PROVE  [Lease!Next]_Lease!vars
<1>1. CASE Human'
  BY <1>1 DEF Unseen, Human, Lease!Next, Lease!HumanBegins, Lease!vars
<1>2. CASE ~Human'
  BY <1>2 DEF Unseen, Human, Lease!Next, Lease!HumanEnds, Lease!vars
<1> QED
  BY <1>1, <1>2

(* The lease is revoked at most. *)
LEMMA RevokeStep ==
    ASSUME UNCHANGED <<gatewayEpoch, issued, active>>, gateOpen' = FALSE,
           revoked' = TRUE \/ revoked' = (revoked \/ gateOpen),
           gateOpen \in BOOLEAN, revoked \in BOOLEAN
    PROVE  [Lease!Next]_Lease!vars
<1>1. CASE revoked' = TRUE
  BY <1>1 DEF Lease!Next, Lease!Revoke, Lease!vars
<1>2. CASE revoked' = FALSE
  BY <1>2 DEF Lease!vars
<1> QED
  BY <1>1, <1>2

(* A step of the Session thread maps to a step of the lease or a stutter. *)
LEMMA SessionLease ==
    ASSUME IInv, SessionThread
    PROVE  [Lease!Next]_Lease!vars
<1> USE DEF rtcVars, schedulerVars, threadVars, policyVars
<1>1. CASE SessionStep /\ UNCHANGED rtcVars
  <2>1. Human' => Human \/ ConcludeTakeover
    BY <1>1 DEF Human, SessionStep, StartEpisode, StartBlocked, StartRefused, EndSession,
       AnnouncePolicy, PollSafetyFailure, EndFaulted, EndEpisode, Takeover, Resume, BumpEpoch,
       Gravity, GravityRaises, ConcludeStop, ConcludeFault, FinishEpisode, CommitEpisode,
       Interrupt, InterruptGravity, InterruptFaultCall, EnableArrives, Closed, authorityVars,
       timelineVars
  <2>2. ConcludeTakeover => ~gateOpen
    BY DEF ConcludeTakeover, IInv, HumanInv
  <2> QED
    BY <1>1, <2>1, <2>2, UnseenStep DEF Unseen
<1>2. CASE SessionSplice
  <2>1. CASE Splice("session") /\ UNCHANGED <<active, xpc>>
    <3>1. pc = "splice" /\ pending.phase = "bootstrap"
      BY <1>2, <2>1 DEF SessionSplice, Splice, StillCurrent, IInv, SnapInv, Accepting
    <3>2. ~gateOpen /\ ~revoked /\ ~Human
      BY <3>1 DEF IInv, PlanInv, RevokeInv, EpochInv, FlowInv, Acquiring, Accepting, Leaving, Human,
                  TypeOK, SessionTypeOK, RtcTypeOK
    <3>3. gateOpen' = TRUE /\ UNCHANGED <<gatewayEpoch, issued, active>>
      BY <2>1, <3>1 DEF Splice
    <3> QED
      BY <3>2, <3>3 DEF Lease!Next, Lease!Grant, Lease!vars, Human
  <2>2. CASE UNCHANGED <<rtcVars, active>>
    BY <2>2, UnseenStep DEF Unseen, Human
  <2> QED
    BY <1>2, <2>1, <2>2 DEF SessionSplice, timelineVars
<1>3. CASE SessionReject
  BY <1>3, RevokeStep DEF SessionReject, RejectWindow, CallRaised, authorityVars, timelineVars,
     IInv, TypeOK, RtcTypeOK
<1>4. CASE SessionClose
  <2>1. CASE CloseGate(controlEpoch) /\ UNCHANGED active
    BY <2>1, RevokeStep DEF CloseGate, IInv, TypeOK, RtcTypeOK
  <2>2. CASE UNCHANGED <<rtcVars, active>>
    BY <2>2, UnseenStep DEF Unseen, Human
  <2> QED
    BY <1>4, <2>1, <2>2 DEF SessionClose, Closed, CloseRaised, authorityVars, timelineVars
<1>5. CASE SessionClear
  <2>1. gatewayEpoch < controlEpoch /\ controlEpoch \in Nat /\ gatewayEpoch \in Nat
    BY <1>5 DEF SessionClear, ClearPending, Closed, Goto, IInv, EpochInv, TypeOK, SessionTypeOK,
       RtcTypeOK
  <2>2. gatewayEpoch' = controlEpoch /\ gateOpen' = FALSE /\ issued' = 0 /\ UNCHANGED active
    BY <1>5 DEF SessionClear, ClearPending, Closed, authorityVars, timelineVars
  <2>3. revoked' = (revoked /\ controlEpoch = gatewayEpoch)
    BY <1>5 DEF SessionClear, ClearPending
  <2>4. revoked' = FALSE
    <3>1. ~(controlEpoch = gatewayEpoch)
      BY <2>1
    <3> QED
      BY <2>3, <3>1, Zenon
  <2> QED
    BY <2>1, <2>2, <2>4 DEF Lease!Next, Lease!Advance
<1>6. CASE SessionPrepare \/ SessionPoll \/ SessionPollTimeout \/ SessionSnapshot
           \/ SessionValidate \/ SessionInvalid \/ SessionEnableFails \/ SessionTakeFault
           \/ SessionPollPolicy \/ SessionBegin \/ SessionExit
  <2>1. Unseen /\ UNCHANGED active
    BY <1>6 DEF Unseen, SessionPrepare, PreparePolicy, SessionPoll, SessionPollTimeout,
       SessionSnapshot, AcceptSnapshot, SessionValidate, SessionInvalid, SessionEnableFails,
       SessionTakeFault, TakeFault, PollFault, SessionPollPolicy, PollPolicy, SessionBegin,
       BeginEpoch, SessionExit, CallReturned, CallRaised, Closed, authorityVars, timelineVars
  <2> QED
    BY <2>1, UnseenStep DEF Human
<1> QED
  BY <1>1, <1>2, <1>3, <1>4, <1>5, <1>6 DEF SessionThread

(* So does a step of the executor thread or of the policy worker: Send, Revoke *)
(* or a stutter.                                                          *)
LEMMA OthersLease ==
    ASSUME IInv, ExecutorThread \/ PolicyWorker
    PROVE  [Lease!Next]_Lease!vars
<1> USE DEF schedulerVars, threadVars, policyVars
<1>1. UNCHANGED active
  BY DEF ExecutorThread, ExecutorLoop, ExecutorQuiet, ExecutorFails, PolicyWorker, sessionVars,
         authorityVars, timelineVars
<1>2. gateOpen \in BOOLEAN /\ revoked \in BOOLEAN /\ issued \in Nat
  BY DEF IInv, TypeOK, RtcTypeOK
<1>3. CASE ExecPublish
  BY <1>1, <1>2, <1>3 DEF ExecPublish, Lease!Next, Lease!Send, Lease!vars
<1>4. CASE ExecReject
  BY <1>1, <1>2, <1>4, RevokeStep DEF ExecReject, RejectWindow
<1>5. CASE ExecFail
  <2>1. CASE ~gateOpen /\ UNCHANGED <<gateOpen, revoked>>
    BY <1>1, <1>5, <2>1, UnseenStep DEF ExecFail, Unseen, Human
  <2>2. CASE gateOpen' = FALSE /\ revoked' = (revoked \/ gateOpen)
    BY <1>1, <1>2, <1>5, <2>2, RevokeStep DEF ExecFail
  <2> QED
    BY <1>5, <2>1, <2>2 DEF ExecFail
<1>6. CASE ExecSplice
  <2>1. Unseen
    BY <1>6 DEF ExecSplice, Splice, StillCurrent, ExecRaise, Unseen, IInv, SnapInv, Accepting
  <2> QED
    BY <1>1, <2>1, UnseenStep DEF Human
<1>7. CASE ~ExecPublish /\ ~ExecReject /\ ~ExecFail /\ ~ExecSplice
  <2>1. Unseen
    BY <1>7 DEF Unseen, ExecutorThread, ExecutorLoop, ExecutorQuiet, ExecutorFails, PolicyWorker,
       ExecBegin, ExecStop, ExecSnapshot, AcceptSnapshot, ExecRaise, ExecValidate, ExecNotDue,
       ExecUnderrun, ExecInvalid, ExecWatchdog, ExecPublishFails, FinishAbandoned, FinishPending
  <2> QED
    BY <1>1, <2>1, UnseenStep DEF Human
<1> QED
  BY <1>3, <1>4, <1>5, <1>6, <1>7

(* The scheduler's gate keeps the lease's promise: granted once per epoch,  *)
(* used only while granted, never used again once revoked, and never in     *)
(* force while the timeline counts the time as the human's.                 *)
THEOREM GateIsALease == Spec => ImplementsLease
<1>1. IInv /\ [Next]_vars => [Lease!Next]_Lease!vars
  <2> SUFFICES ASSUME IInv, [Next]_vars PROVE [Lease!Next]_Lease!vars
    OBVIOUS
  <2>1. CASE UNCHANGED vars
    BY <2>1 DEF vars, rtcVars, schedulerVars, sessionVars, authorityVars, timelineVars, Lease!vars
  <2> QED
    BY <2>1, SessionLease, OthersLease DEF Next, Ended
<1> QED
  BY <1>1, InitLease, Inductive, PTL DEF Spec, ImplementsLease, Lease!Spec
===============================================================================
