------------------------ MODULE SequentialTakeover_proofs ------------------------
(***************************************************************************)
(* What holds of SequentialTakeover for every number of Episodes,          *)
(* takeovers, failures, arms and commands per chunk.  Each part of IInv is *)
(* kept by the Session thread (..Session), and by the executor thread and  *)
(* the policy worker (..Others), which leave the controller's variables    *)
(* alone but for the arms (Quiet).  Each lemma assumes the parts it needs. *)
(***************************************************************************)
EXTENDS SequentialTakeoverInv, TakeoverController_proofs, SequenceTheorems

(* Activation appends a chunk, all of it of the epoch its request was for.  *)
LEMMA ActivateQueue ==
    ASSUME queue \in Seq(Nat), NEW t \in Threads, ticket[t].request \in Nat, ActivateLease(t)
    PROVE  /\ queue' \in Seq(Nat)
           /\ \A i \in DOMAIN queue' :
                \/ i \in DOMAIN queue /\ queue'[i] = queue[i]
                \/ queue'[i] = ticket[t].request
<1> DEFINE chunk == [i \in 1..ExecutionSteps |-> ticket[t].request]
<1>1. chunk \in Seq(Nat) /\ Len(chunk) = ExecutionSteps
  BY ExecutionAssumption
<1>2. queue' = queue \o chunk
  BY DEF ActivateLease
<1> HIDE DEF chunk
<1>3. /\ queue \o chunk \in Seq(Nat)
      /\ Len(queue \o chunk) = Len(queue) + Len(chunk)
      /\ \A i \in 1..(Len(queue) + Len(chunk)) :
           (queue \o chunk)[i] = IF i <= Len(queue) THEN queue[i] ELSE chunk[i - Len(queue)]
  BY <1>1, ConcatProperties
<1>4. \A i \in 1..ExecutionSteps : chunk[i] = ticket[t].request
  BY DEF chunk
<1>5. Len(queue) \in Nat /\ ExecutionSteps \in Nat /\ DOMAIN queue = 1..Len(queue)
      /\ DOMAIN (queue \o chunk) = 1..(Len(queue) + ExecutionSteps)
  BY <1>1, <1>3, ExecutionAssumption, LenProperties
<1>6. ASSUME NEW i \in DOMAIN queue'
      PROVE  \/ i \in DOMAIN queue /\ queue'[i] = queue[i]
             \/ queue'[i] = ticket[t].request
  <2>1. i \in 1..(Len(queue) + ExecutionSteps)
    BY <1>2, <1>5, <1>6
  <2>2. CASE i <= Len(queue)
    BY <1>1, <1>2, <1>3, <1>5, <2>1, <2>2
  <2>3. CASE ~(i <= Len(queue))
    <3>1. i - Len(queue) \in 1..ExecutionSteps
      BY <1>5, <2>1, <2>3
    <3> QED
      BY <1>1, <1>2, <1>3, <1>4, <2>1, <2>3, <3>1
  <2> QED
    BY <2>2, <2>3
<1> QED
  BY <1>2, <1>3, <1>6

(* What is left of the queue after a command was taken was in it before.   *)
LEMMA PublishQueue ==
    ASSUME queue \in Seq(Nat), queue # <<>>
    PROVE  /\ Tail(queue) \in Seq(Nat)
           /\ \A i \in DOMAIN Tail(queue) : i + 1 \in DOMAIN queue /\ Tail(queue)[i] = queue[i + 1]
  BY HeadTailProperties

(* The absent ticket has the type of a ticket. *)
LEMMA NoTicketType == NoTicket \in Tickets
  BY DEF NoTicket, Tickets

(* Taking a ticket and giving it up keep both threads' tickets typed.      *)
LEMMA TicketType ==
    ASSUME GatewayTypeOK, NEW t \in Threads, NEW ep \in Nat, NEW e \in Nat
    PROVE  /\ [ticket EXCEPT ![t] = NoTicket] \in [Threads -> Tickets]
           /\ [ticket EXCEPT ![t] = [epoch |-> e, request |-> pendingEpoch, episode |-> ep,
                                     enable |-> ~gateOpen]] \in [Threads -> Tickets]
           /\ ticket[t] \in Tickets
<1>1. NoTicket \in Tickets
  BY NoTicketType
<1>2. [epoch |-> e, request |-> pendingEpoch, episode |-> ep, enable |-> ~gateOpen] \in Tickets
  BY DEF GatewayTypeOK, Tickets
<1> QED
  BY <1>1, <1>2 DEF GatewayTypeOK

(* The Session thread keeps the type of the controller's variables.        *)
LEMMA SessionTypeSession ==
    ASSUME SessionTypeOK, SessionThread
    PROVE  SessionTypeOK'
<1> USE DEF SessionTypeOK, Steps, flowVars, authorityVars, timelineVars,
      armVars, countVars, envVars, Works, Fails, Signalled, Goto, Return,
      Escape, EnterFault, Faulting, Paths, StopEpisode, CallReturned, CallRaised, Closed
<1>a. UNCHANGED <<latch, lateEnable>> => ArmTypeOK'
  BY DEF ArmTypeOK
<1> USE <1>a
<1>1. CASE SessionStep
  BY <1>1, SessionStepTypes
<1>2. CASE SessionPrepare
  BY <1>2 DEF SessionPrepare
<1>3. CASE SessionPoll
  BY <1>3 DEF SessionPoll
<1>4. CASE SessionValidate
  BY <1>4 DEF SessionValidate
<1>5. CASE SessionInvalid
  BY <1>5 DEF SessionInvalid
<1>6. CASE SessionActivate
  <2>1. ArmTypeOK'
    BY <1>6, EnableArmsType DEF SessionActivate
  <2> QED
    BY <1>6, <2>1 DEF SessionActivate
<1>7. CASE SessionEnableFails
  <2>1. ArmTypeOK'
    BY <1>7, EnableArmsType DEF SessionEnableFails
  <2>2. failures' \in Nat /\ signals' \in Nat /\ UNCHANGED takeovers
    BY <1>7, BoundsAssumption DEF SessionEnableFails
  <2>3. pc' \in Steps /\ hook' \in {"none", "start", "wait", "stop"} /\ path' \in Paths
    BY <1>7 DEF SessionEnableFails
  <2>4. /\ interrupted' \in BOOLEAN
        /\ UNCHANGED <<state, controlEpoch, episode, safetyFailure, active, lastEvent,
                       episodes, firstEpoch, committed>>
    BY <1>7 DEF SessionEnableFails
  <2> QED
    BY <2>1, <2>2, <2>3, <2>4
<1>8. CASE SessionTakeFault
  BY <1>8 DEF SessionTakeFault, PollFault
<1>9. CASE SessionPollPolicy
  BY <1>9 DEF SessionPollPolicy, PollPolicy
<1>10. CASE SessionClose
  BY <1>10 DEF SessionClose, CloseRaised
<1>11. CASE SessionClear
  BY <1>11 DEF SessionClear
<1>12. CASE SessionBegin
  BY <1>12 DEF SessionBegin
<1>13. CASE SessionExit
  BY <1>13 DEF SessionExit
<1> QED
  BY <1>1, <1>2, <1>3, <1>4, <1>5, <1>6, <1>7, <1>8, <1>9, <1>10, <1>11, <1>12,
     <1>13
  DEF SessionThread

(* It keeps the type of the gateway's variables.                          *)
LEMMA GatewayTypeSession ==
    ASSUME TypeOK, SessionThread
    PROVE  GatewayTypeOK'
<1> USE DEF TypeOK
<1>x. UNCHANGED executorVars => ExecutorTypeOK'
  BY DEF GatewayTypeOK, ExecutorTypeOK, executorVars
<1> USE <1>x
<1>1. CASE UNCHANGED seqVars
  BY <1>1 DEF GatewayTypeOK, seqVars, gatewayVars, observers, policyVars
<1>2. CASE SessionPrepare
  BY <1>1, <1>2 DEF SessionPrepare, PreparePolicy, GatewayTypeOK, SessionTypeOK, executorVars,
                    observers, policyVars
<1>3. CASE SessionPoll
  <2>1. CASE TakePending("session", episode, controlEpoch) /\ UNCHANGED executorVars
    <3>1. ticket' \in [Threads -> Tickets]
      BY <2>1, TicketType DEF TakePending, SessionTypeOK, Threads
    <3> QED
      BY <2>1, <3>1, <1>x DEF TakePending, GatewayTypeOK, observers, policyVars
  <2> QED
    BY <1>1, <1>3, <2>1 DEF SessionPoll
<1>4. CASE SessionActivate
  <2>1. CASE ActivateLease("session") /\ UNCHANGED executorVars
    <3>1. ticket["session"].request \in Nat /\ [ticket EXCEPT !["session"] = NoTicket] \in [Threads -> Tickets]
      BY TicketType DEF GatewayTypeOK, Threads, Tickets
    <3>2. queue' \in Seq(Nat)
      BY <2>1, <3>1, ActivateQueue DEF GatewayTypeOK, Threads
    <3> QED
      BY <2>1, <3>1, <3>2 DEF ActivateLease, GatewayTypeOK, executorVars, observers, policyVars
  <2> QED
    BY <1>1, <1>4, <2>1 DEF SessionActivate
<1>5. CASE TakeFault
  BY <1>5 DEF TakeFault, GatewayTypeOK, executorVars, observers, policyVars
<1>6. CASE SessionClose
  BY <1>1, <1>6 DEF SessionClose, CloseGate, GatewayTypeOK, executorVars, policyVars
<1>7. CASE SessionClear
  <2>1. controlEpoch \in Nat /\ ClearPending(controlEpoch)
    BY <1>7 DEF SessionClear, SessionTypeOK
  <2>2. /\ revoked' \in BOOLEAN /\ backlog' \in Nat /\ queue' \in Seq(Nat)
        /\ gatewayEpoch' \in Nat /\ lastSent' \in Nat
    BY <2>1 DEF ClearPending, GatewayTypeOK
  <2> QED
    BY <2>1, <2>2, <1>x DEF ClearPending, GatewayTypeOK
<1>8. CASE SessionBegin
  BY <1>8 DEF SessionBegin, BeginEpoch, GatewayTypeOK, SessionTypeOK, gatewayVars, observers,
              executorVars
<1> QED
  BY <1>1, <1>2, <1>3, <1>4, <1>5, <1>6, <1>7, <1>8
  DEF SessionThread, SessionValidate, SessionInvalid, SessionEnableFails, SessionTakeFault,
      SessionPollPolicy, SessionExit

(* The executor thread and the worker keep the types.                     *)
LEMMA ExecutorTypeOthers ==
    ASSUME GatewayTypeOK, ExecutorThread \/ PolicyWorker
    PROVE  ExecutorTypeOK'
<1> DEFINE XSteps == {"idle", "epoch", "episode", "pending", "ready", "validate", "activate",
              "count", "request", "publish", "fail", "failgate", "failclose", "latch", "stopped"}
<1>t. ExecutorTypeOK
  BY DEF GatewayTypeOK
<1>a. \A step \in XSteps : ExecGoto(step) => ExecutorTypeOK'
  BY <1>t DEF ExecGoto, ExecutorTypeOK
<1>b. ASSUME ResetSchedule PROVE ExecutorTypeOK'
  BY <1>b DEF ResetSchedule, ExecutorTypeOK
<1>c. ASSUME NEW w \in BOOLEAN, StepReturns(w) PROVE ExecutorTypeOK'
  BY <1>t, <1>c DEF StepReturns, ExecutorTypeOK
<1>w. waiting \in BOOLEAN
  BY <1>t DEF ExecutorTypeOK
<1> USE <1>t, <1>w, <1>a, <1>b, <1>c
<1>1. CASE ExecGate
  BY <1>1 DEF ExecGate
<1>2. CASE ExecStop
  BY <1>2 DEF ExecStop
<1>3. CASE ExecReadEpoch
  BY <1>3 DEF ExecReadEpoch, ExecutorTypeOK, GatewayTypeOK
<1>4. CASE ExecReadEpisode
  <2>1. waiting' \in BOOLEAN
    <3>1. waiting' = (waiting /\ activeEpoch = xEpoch)
      BY <1>4 DEF ExecReadEpisode
    <3> QED
      BY <3>1, Zenon
  <2> QED
    BY <1>4, <2>1 DEF ExecReadEpisode, ExecutorTypeOK, GatewayTypeOK
<1>5. CASE ExecReadPending
  BY <1>5 DEF ExecReadPending
<1>6. CASE ExecPolicyReady
  BY <1>6 DEF ExecPolicyReady
<1>7. CASE ExecValidate
  BY <1>7 DEF ExecValidate
<1>8. CASE ExecActivate
  BY <1>8 DEF ExecActivate
<1>9. CASE ExecCount
  BY <1>9 DEF ExecCount
<1>10. CASE ExecRequest
  BY <1>10 DEF ExecRequest
<1>11. CASE ExecNotDue
  BY <1>11 DEF ExecNotDue
<1>12. CASE ExecPublish
  BY <1>12 DEF ExecPublish
<1>13. CASE ExecPublishFails
  BY <1>13 DEF ExecPublishFails
<1>14. CASE ExecPolicyTimeout \/ ExecInvalid \/ ExecWatchdog
  BY <1>14 DEF ExecPolicyTimeout, ExecInvalid, ExecWatchdog
<1>15. CASE ExecFailCheck \/ ExecFailGate
  BY <1>15 DEF ExecFailCheck, ExecFailGate
<1>16. CASE ExecFailClose
  BY <1>16 DEF ExecFailClose
<1>17. CASE ExecLatch
  BY <1>17 DEF ExecLatch
<1>18. CASE FinishAbandoned \/ FinishPending
  BY <1>18 DEF FinishAbandoned, FinishPending, ExecutorTypeOK, executorVars
<1>19. CASE ExecutorEnableFails
  BY <1>19 DEF ExecutorEnableFails
<1> QED
  BY <1>1, <1>2, <1>3, <1>4, <1>5, <1>6, <1>7, <1>8, <1>9, <1>10, <1>11, <1>12,
     <1>13, <1>14, <1>15, <1>16, <1>17, <1>18, <1>19
  DEF ExecutorThread, ExecutorLoop, ExecutorQuiet, ExecutorActivate,
      ExecutorFails, PolicyWorker

(* The executor and the worker keep the gateway's types, ... *)
LEMMA GatewayTypeOthers ==
    ASSUME GatewayTypeOK, ExecutorThread \/ PolicyWorker
    PROVE  GatewayTypeOK'
<1>x. ExecutorTypeOK'
  BY ExecutorTypeOthers
<1> USE <1>x
<1>1. CASE Untouched
  BY <1>1 DEF Untouched, GatewayTypeOK, gatewayVars, observers, policyVars
<1>2. CASE ExecPolicyReady
  <2>1. CASE TakePending("executor", xEpisode, xEpoch)
    <3>1. ticket' \in [Threads -> Tickets]
      BY <2>1, TicketType DEF TakePending, GatewayTypeOK, ExecutorTypeOK, Threads
    <3> QED
      BY <2>1, <3>1 DEF TakePending, GatewayTypeOK, observers, policyVars
  <2> QED
    BY <1>1, <1>2, <2>1 DEF ExecPolicyReady
<1>3. CASE ExecActivate
  <2>1. CASE ActivateLease("executor")
    <3>1. ticket["executor"].request \in Nat /\ ticket' \in [Threads -> Tickets]
      BY <2>1, TicketType DEF ActivateLease, GatewayTypeOK, ExecutorTypeOK, Threads, Tickets
    <3>2. queue' \in Seq(Nat)
      BY <2>1, <3>1, ActivateQueue DEF GatewayTypeOK, Threads
    <3> QED
      BY <2>1, <3>1, <3>2 DEF ActivateLease, GatewayTypeOK, observers, policyVars
  <2> QED
    BY <1>1, <1>3, <2>1 DEF ExecActivate
<1>4. CASE ExecRequest
  <2>1. CASE PreparePolicy(xEpisode, xEpoch)
    BY <2>1 DEF PreparePolicy, GatewayTypeOK, ExecutorTypeOK, observers, policyVars
  <2> QED
    BY <1>1, <1>4, <2>1 DEF ExecRequest
<1>5. CASE ExecPublish \/ ExecPublishFails
  <2>1. CASE ~LeaseIsClosed(xEpoch)
    <3>1. Head(queue) \in Nat /\ Tail(queue) \in Seq(Nat)
      BY <2>1, HeadTailProperties DEF LeaseIsClosed, GatewayTypeOK
    <3>2. CASE ExecPublish
      <4>1. queue' \in Seq(Nat) /\ lastSent' \in Nat /\ issued' \in Nat
        <5>1. issued' = issued + 1 /\ queue' = Tail(queue) /\ lastSent' = Head(queue)
          BY <2>1, <3>2 DEF ExecPublish
        <5>2. issued \in Nat
          BY DEF GatewayTypeOK
        <5> QED
          BY <3>1, <5>1, <5>2
      <4> QED
        BY <2>1, <3>2, <4>1 DEF ExecPublish, GatewayTypeOK, policyVars
    <3>3. CASE ExecPublishFails
      BY <2>1, <3>1, <3>3 DEF ExecPublishFails, GatewayTypeOK, observers, policyVars
    <3> QED
      BY <1>5, <3>2, <3>3
  <2> QED
    BY <1>1, <1>5, <2>1 DEF ExecPublish, ExecPublishFails
<1>6. CASE ExecFailClose
  <2>1. CASE CloseGate(xEpoch)
    BY <2>1 DEF CloseGate, GatewayTypeOK, policyVars
  <2> QED
    BY <1>1, <1>6, <2>1 DEF ExecFailClose
<1>7. CASE ExecLatch
  <2>1. ticket' \in [Threads -> Tickets] /\ <<>> \in Seq(Nat)
    BY <1>7, NoTicketType DEF ExecLatch, GatewayTypeOK, Threads
  <2>2. revoked' \in BOOLEAN
    <3>1. revoked' = (revoked \/ gateOpen)
      BY <1>7 DEF ExecLatch
    <3> QED
      BY <3>1, Zenon
  <2>3. fault' \in Nat \cup {-1}
    BY <1>7 DEF ExecLatch, GatewayTypeOK, ExecutorTypeOK
  <2> QED
    BY <1>7, <2>1, <2>2, <2>3 DEF ExecLatch, GatewayTypeOK, policyVars
<1>8. CASE FinishAbandoned
  BY <1>8 DEF FinishAbandoned, GatewayTypeOK, gatewayVars, observers
<1>9. CASE FinishPending
  BY <1>9 DEF FinishPending, GatewayTypeOK, observers, policyVars
<1> QED
  BY <1>1, <1>2, <1>3, <1>4, <1>5, <1>6, <1>7, <1>8, <1>9
  DEF ExecutorThread, ExecutorLoop, ExecGate, ExecStop, ExecutorQuiet, ExecReadEpoch,
      ExecReadEpisode, ExecReadPending, ExecValidate, ExecCount, ExecNotDue, ExecFailCheck,
      ExecFailGate, ExecutorActivate, ExecutorEnableFails, ExecutorFails, ExecPolicyTimeout, ExecInvalid, ExecWatchdog,
      PolicyWorker

(* They leave the Session thread's variables, but for the arms and the     *)
(* count of failures.                                                      *)
LEMMA Quietly ==
    ASSUME SessionTypeOK, ExecutorThread \/ PolicyWorker
    PROVE  /\ SessionTypeOK'
           /\ UNCHANGED <<flowVars, state, controlEpoch, episode, safetyFailure, timelineVars,
                          countVars, takeovers, signals>>
<1>1. CASE ExecutorActivate \/ ExecutorEnableFails
  <2>1. ArmTypeOK'
    BY <1>1, EnableArmsType
       DEF ExecutorActivate, ExecutorEnableFails, SessionTypeOK, ArmTypeOK, armVars
  <2> QED
    BY <1>1, <2>1
       DEF ExecutorActivate, ExecutorEnableFails, SessionTypeOK, flowVars, timelineVars, countVars,
           envVars, Works, Fails
<1>2. CASE ~ExecutorActivate /\ ~ExecutorEnableFails
  BY <1>2 DEF ExecutorThread, ExecutorLoop, ExecutorQuiet, ExecutorFails, PolicyWorker, Fails,
              sessionVars, authorityVars, SessionTypeOK, ArmTypeOK, flowVars, timelineVars, armVars,
              countVars, envVars
<1> QED
  BY <1>1, <1>2

(* Every step keeps every variable's type.                                *)
LEMMA TypeStep == TypeOK /\ [Next]_vars => TypeOK'
<1> SUFFICES ASSUME TypeOK, [Next]_vars PROVE TypeOK'
  OBVIOUS
<1>1. CASE SessionThread
  BY <1>1, SessionTypeSession, GatewayTypeSession DEF TypeOK
<1>2. CASE ExecutorThread \/ PolicyWorker
  BY <1>2, Quietly, GatewayTypeOthers DEF TypeOK
<1>3. CASE UNCHANGED vars
  BY <1>3
     DEF TypeOK, SessionTypeOK, ArmTypeOK, GatewayTypeOK, ExecutorTypeOK, vars,
         sessionVars, seqVars, flowVars,
              authorityVars, timelineVars, armVars, countVars, envVars, gatewayVars, observers,
              executorVars, policyVars
<1> QED
  BY <1>1, <1>2, <1>3 DEF Next, Ended

(* Where the Session thread is, and in which state of the controller.      *)
LEMMA FlowInvSession ==
    ASSUME FlowInv, SessionThread
    PROVE  FlowInv'
<1> USE DEF FlowInv, Acquiring, Leaving, flowVars, authorityVars, timelineVars,
      armVars, countVars, envVars, Works, Fails, Signalled, Goto, Return,
      Escape, EnterFault, Faulting, Paths, StopEpisode, CallReturned, CallRaised, Closed
<1>1. CASE StartEpisode
  BY <1>1 DEF StartEpisode
<1>2. CASE StartBlocked
  BY <1>2 DEF StartBlocked
<1>3. CASE StartRefused
  BY <1>3 DEF StartRefused
<1>4. CASE EndSession
  BY <1>4 DEF EndSession
<1>5. CASE AnnouncePolicy
  BY <1>5 DEF AnnouncePolicy
<1>6. CASE PollSafetyFailure
  BY <1>6 DEF PollSafetyFailure
<1>7. CASE EndFaulted
  BY <1>7 DEF EndFaulted
<1>8. CASE EndEpisode
  BY <1>8 DEF EndEpisode
<1>9. CASE Takeover
  BY <1>9 DEF Takeover
<1>10. CASE Resume
  BY <1>10 DEF Resume
<1>11. CASE BumpEpoch
  BY <1>11 DEF BumpEpoch
<1>12. CASE Gravity
  BY <1>12 DEF Gravity
<1>13. CASE GravityRaises
  BY <1>13 DEF GravityRaises
<1>14. CASE ConcludeTakeover
  BY <1>14 DEF ConcludeTakeover
<1>15. CASE ConcludeStop
  BY <1>15 DEF ConcludeStop
<1>16. CASE ConcludeFault
  BY <1>16 DEF ConcludeFault
<1>17. CASE FinishEpisode
  BY <1>17 DEF FinishEpisode
<1>18. CASE CommitEpisode
  BY <1>18 DEF CommitEpisode
<1>19. CASE Interrupt
  BY <1>19 DEF Interrupt
<1>20. CASE InterruptGravity
  BY <1>20 DEF InterruptGravity
<1>21. CASE InterruptFaultCall
  BY <1>21 DEF InterruptFaultCall
<1>22. CASE (\E a \in Arms : EnableArrives(a))
  BY <1>22 DEF EnableArrives
<1>23. CASE SessionPrepare
  BY <1>23 DEF SessionPrepare
<1>24. CASE SessionPoll
  BY <1>24 DEF SessionPoll
<1>25. CASE SessionValidate
  BY <1>25 DEF SessionValidate
<1>26. CASE SessionInvalid
  BY <1>26 DEF SessionInvalid
<1>27. CASE SessionActivate
  BY <1>27 DEF SessionActivate, LeaseIsStale
<1>28. CASE SessionEnableFails
  BY <1>28 DEF SessionEnableFails, LeaseIsStale
<1>29. CASE SessionTakeFault
  BY <1>29 DEF SessionTakeFault, PollFault
<1>30. CASE SessionPollPolicy
  BY <1>30 DEF SessionPollPolicy, PollPolicy
<1>31. CASE SessionClose
  BY <1>31 DEF SessionClose, CloseRaised
<1>32. CASE SessionClear
  BY <1>32 DEF SessionClear
<1>33. CASE SessionBegin
  BY <1>33 DEF SessionBegin
<1>34. CASE SessionExit
  BY <1>34 DEF SessionExit
<1> QED
  BY <1>1, <1>2, <1>3, <1>4, <1>5, <1>6, <1>7, <1>8, <1>9, <1>10, <1>11, <1>12,
     <1>13, <1>14, <1>15, <1>16, <1>17, <1>18, <1>19, <1>20, <1>21, <1>22,
     <1>23, <1>24, <1>25, <1>26, <1>27, <1>28, <1>29, <1>30, <1>31, <1>32,
     <1>33, <1>34
  DEF SessionThread, SessionStep

(* A step without the gateway does not enter the steps of the lease, and    *)
(* advances the epoch by one when it is to be cleared.                      *)
LEMMA StepKeepsTheEpoch ==
    ASSUME SessionTypeOK, FlowInv, SessionStep
    PROVE  /\ controlEpoch' \in {controlEpoch, controlEpoch + 1}
           /\ pc' = "clear" => controlEpoch' > controlEpoch \/ UNCHANGED <<pc, controlEpoch>>
           /\ pc' \in {"validate", "splice"} => UNCHANGED <<pc, controlEpoch, signals>>
           /\ signals' \in {signals, signals + 1}
<1> USE DEF SessionTypeOK, FlowInv, Leaving, flowVars, authorityVars,
      timelineVars, armVars, countVars, envVars, Works, Fails, Signalled, Goto,
      Return, Escape, EnterFault, Faulting, Paths, StopEpisode, CallReturned, CallRaised, Closed
<1>1. CASE StartEpisode
  BY <1>1 DEF StartEpisode
<1>2. CASE StartBlocked
  BY <1>2 DEF StartBlocked
<1>3. CASE StartRefused
  BY <1>3 DEF StartRefused
<1>4. CASE EndSession
  BY <1>4 DEF EndSession
<1>5. CASE AnnouncePolicy
  BY <1>5 DEF AnnouncePolicy
<1>6. CASE PollSafetyFailure
  BY <1>6 DEF PollSafetyFailure
<1>7. CASE EndFaulted
  BY <1>7 DEF EndFaulted
<1>8. CASE EndEpisode
  BY <1>8 DEF EndEpisode
<1>9. CASE Takeover
  BY <1>9 DEF Takeover
<1>10. CASE Resume
  BY <1>10 DEF Resume
<1>11. CASE BumpEpoch
  BY <1>11 DEF BumpEpoch
<1>12. CASE Gravity
  BY <1>12 DEF Gravity
<1>13. CASE GravityRaises
  BY <1>13 DEF GravityRaises
<1>14. CASE ConcludeTakeover
  BY <1>14 DEF ConcludeTakeover
<1>15. CASE ConcludeStop
  BY <1>15 DEF ConcludeStop
<1>16. CASE ConcludeFault
  BY <1>16 DEF ConcludeFault
<1>17. CASE FinishEpisode
  BY <1>17 DEF FinishEpisode
<1>18. CASE CommitEpisode
  BY <1>18 DEF CommitEpisode
<1>19. CASE Interrupt
  BY <1>19 DEF Interrupt
<1>20. CASE InterruptGravity
  BY <1>20 DEF InterruptGravity
<1>21. CASE InterruptFaultCall
  BY <1>21 DEF InterruptFaultCall
<1>22. CASE (\E a \in Arms : EnableArrives(a))
  BY <1>22 DEF EnableArrives
<1> QED
  BY <1>1, <1>2, <1>3, <1>4, <1>5, <1>6, <1>7, <1>8, <1>9, <1>10, <1>11, <1>12,
     <1>13, <1>14, <1>15, <1>16, <1>17, <1>18, <1>19, <1>20, <1>21, <1>22
  DEF SessionStep

(* Tickets.                                                               *)
LEMMA TicketInvSession ==
    ASSUME TypeOK, FlowInv, TicketInv, LiveInv, SessionThread
    PROVE  TicketInv'
<1> USE DEF TypeOK, TicketInv
<1>1. CASE SessionStep /\ UNCHANGED seqVars
  BY <1>1, StepKeepsTheEpoch DEF seqVars, executorVars
<1>2. CASE SessionPrepare
  BY <1>2
    DEF SessionPrepare, CanPrepare, PreparePolicy, CanSubmit, SessionTypeOK,
        FlowInv, gatewayVars, observers, executorVars, policyVars, seqVars,
        flowVars, authorityVars, timelineVars, armVars, countVars, envVars,
        Works, Fails, Signalled, Goto, Return, Escape, EnterFault, Faulting, Paths, StopEpisode,
        CallReturned, CallRaised, Closed
<1>3. CASE SessionPoll
  <2>1. controlEpoch = gatewayEpoch => ~gateOpen
    BY <1>3 DEF SessionPoll, LiveInv, Live, LeftBehind, Leaving, GatewayTypeOK
  <2>2. pc' # "splice" /\ UNCHANGED <<controlEpoch, signals, xpc>>
    BY <1>3 DEF SessionPoll, CallReturned, CallRaised, EnterFault, Return, Goto, authorityVars,
       Works, envVars, seqVars, executorVars
  <2>3. CASE pc' = "validate"
    <3>1. TakePending("session", episode, controlEpoch)
      BY <1>3, <2>3 DEF SessionPoll, CallReturned, CallRaised, EnterFault, Return, Goto
    <3>2. ticket' = [ticket EXCEPT !["session"] = [epoch |-> controlEpoch, request |-> pendingEpoch,
                                                   episode |-> episode, enable |-> ~gateOpen]]
      BY <3>1 DEF TakePending
    <3>3. /\ ticket'["session"].epoch = controlEpoch
          /\ ticket'["session"].enable = ~gateOpen
          /\ ticket'["executor"] = ticket["executor"]
      BY <3>2 DEF GatewayTypeOK, Threads
    <3>4. controlEpoch = gatewayEpoch
      BY <1>3, <2>3 DEF SessionPoll, NotPrepared, CallRaised, EnterFault
    <3> QED
      BY <2>1, <2>2, <2>3, <3>3, <3>4
  <2>4. CASE pc' # "validate"
    <3>1. ticket'["executor"] = ticket["executor"]
      BY <1>3 DEF SessionPoll, TakePending, seqVars, GatewayTypeOK, Threads
    <3> QED
      BY <2>2, <2>4, <3>1
  <2> QED
    BY <2>3, <2>4
<1>4. CASE SessionValidate
  BY <1>4
    DEF SessionValidate, SessionTypeOK, FlowInv, gatewayVars, observers,
        executorVars, policyVars, seqVars, flowVars, authorityVars,
        timelineVars, armVars, countVars, envVars, Works, Fails, Signalled,
        Goto, Return, Escape, EnterFault, Faulting, Paths, StopEpisode, CallReturned,
        CallRaised, Closed
<1>5. CASE SessionInvalid
  BY <1>5
    DEF SessionInvalid, SessionTypeOK, FlowInv, gatewayVars, observers,
        executorVars, policyVars, seqVars, flowVars, authorityVars,
        timelineVars, armVars, countVars, envVars, Works, Fails, Signalled,
        Goto, Return, Escape, EnterFault, Faulting, Paths, StopEpisode, CallReturned,
        CallRaised, Closed
<1>6. CASE SessionActivate
  <2>1. pc' \in {"close", "announce"} /\ UNCHANGED xpc
    BY <1>6 DEF SessionActivate, EnterFault, Goto, seqVars, executorVars
  <2>2. ticket'["executor"] = ticket["executor"]
    BY <1>6 DEF SessionActivate, ActivateLease, seqVars, GatewayTypeOK, Threads
  <2> QED
    BY <2>1, <2>2
<1>7. CASE SessionEnableFails
  BY <1>7
    DEF SessionEnableFails, LeaseIsStale, SessionTypeOK, FlowInv, gatewayVars,
        observers, executorVars, policyVars, seqVars, flowVars, authorityVars,
        timelineVars, armVars, countVars, envVars, Works, Fails, Signalled,
        Goto, Return, Escape, EnterFault, Faulting, Paths, StopEpisode, CallReturned,
        CallRaised, Closed
<1>8. CASE SessionTakeFault
  BY <1>8
    DEF SessionTakeFault, TakeFault, PollFault, SessionTypeOK, FlowInv,
        gatewayVars, observers, executorVars, policyVars, seqVars, flowVars,
        authorityVars, timelineVars, armVars, countVars, envVars, Works, Fails,
        Signalled, Goto, Return, Escape, EnterFault, Faulting, Paths, StopEpisode, CallReturned,
        CallRaised, Closed
<1>9. CASE SessionPollPolicy
  BY <1>9
    DEF SessionPollPolicy, PollPolicy, SessionTypeOK, FlowInv, gatewayVars,
        observers, executorVars, policyVars, seqVars, flowVars, authorityVars,
        timelineVars, armVars, countVars, envVars, Works, Fails, Signalled,
        Goto, Return, Escape, EnterFault, Faulting, Paths, StopEpisode, CallReturned,
        CallRaised, Closed
<1>10. CASE SessionClose
  BY <1>10
    DEF SessionClose, CloseGate, CloseRaised, SessionTypeOK, FlowInv,
        gatewayVars, observers, executorVars, policyVars, seqVars, flowVars,
        authorityVars, timelineVars, armVars, countVars, envVars, Works, Fails,
        Signalled, Goto, Return, Escape, EnterFault, Faulting, Paths, StopEpisode, CallReturned,
        CallRaised, Closed
<1>11. CASE SessionClear
  BY <1>11
    DEF SessionClear, ClearPending, SessionTypeOK, FlowInv, gatewayVars,
        observers, executorVars, policyVars, seqVars, flowVars, authorityVars,
        timelineVars, armVars, countVars, envVars, Works, Fails, Signalled,
        Goto, Return, Escape, EnterFault, Faulting, Paths, StopEpisode, CallReturned,
        CallRaised, Closed
<1>12. CASE SessionBegin
  BY <1>12
    DEF SessionBegin, BeginEpoch, SessionTypeOK, FlowInv, gatewayVars,
        observers, executorVars, policyVars, seqVars, flowVars, authorityVars,
        timelineVars, armVars, countVars, envVars, Works, Fails, Signalled,
        Goto, Return, Escape, EnterFault, Faulting, Paths, StopEpisode, CallReturned,
        CallRaised, Closed
<1>13. CASE SessionExit
  BY <1>13
    DEF SessionExit, SessionTypeOK, FlowInv, gatewayVars, observers,
        executorVars, policyVars, seqVars, flowVars, authorityVars,
        timelineVars, armVars, countVars, envVars, Works, Fails, Signalled,
        Goto, Return, Escape, EnterFault, Faulting, Paths, StopEpisode, CallReturned,
        CallRaised, Closed
<1> QED
  BY <1>1, <1>2, <1>3, <1>4, <1>5, <1>6, <1>7, <1>8, <1>9, <1>10, <1>11, <1>12, <1>13
  DEF SessionThread

(* The gateway's epoch never overtakes the controller's.                   *)
LEMMA EpochInvSession ==
    ASSUME TypeOK, FlowInv, EpochInv, SessionThread
    PROVE  EpochInv'
<1> USE DEF EpochInv, gatewayVars, observers, executorVars, policyVars,
      seqVars, flowVars, authorityVars, timelineVars, armVars, countVars,
      envVars, Works, Fails, Signalled, Goto, Return, Escape, EnterFault, Faulting,
      Paths, StopEpisode, CallReturned, CallRaised, Closed
<1>t. /\ controlEpoch \in Nat /\ gatewayEpoch \in Nat /\ activeEpoch \in Int /\ xEpoch \in Nat
      /\ ticket \in [Threads -> Tickets]
      /\ \A t \in Threads : ticket[t].epoch \in Nat
  BY DEF TypeOK, SessionTypeOK, GatewayTypeOK, ExecutorTypeOK, Tickets
<1> USE <1>t
<1>1. CASE SessionStep /\ UNCHANGED seqVars
  BY <1>1, StepKeepsTheEpoch DEF TypeOK
<1>2. CASE SessionPrepare
  BY <1>2 DEF SessionPrepare, CanPrepare, PreparePolicy, CanSubmit
<1>3. CASE SessionPoll
  <2>1. CASE TakePending("session", episode, controlEpoch)
    <3>1. controlEpoch = gatewayEpoch /\ UNCHANGED <<gatewayEpoch, controlEpoch, executorVars>> /\ pc' # "clear"
      BY <1>3, <2>1 DEF SessionPoll, NotPrepared, TakePending
    <3>2. \A t \in Threads : ticket'[t].epoch = ticket[t].epoch \/ ticket'[t].epoch = controlEpoch
      BY <2>1 DEF TakePending
    <3> QED
      BY <3>1, <3>2
  <2> QED
    BY <1>3, <2>1 DEF SessionPoll
<1>4. CASE SessionValidate
  BY <1>4 DEF SessionValidate
<1>5. CASE SessionInvalid
  BY <1>5 DEF SessionInvalid
<1>6. CASE SessionActivate
  <2>1. CASE ActivateLease("session")
    <3>1. \A t \in Threads : ticket'[t].epoch = ticket[t].epoch \/ ticket'[t].epoch = 0
      BY <2>1 DEF ActivateLease, NoTicket
    <3> QED
      BY <1>6, <2>1, <3>1 DEF SessionActivate, ActivateLease
  <2> QED
    BY <1>6, <2>1 DEF SessionActivate
<1>7. CASE SessionEnableFails
  BY <1>7 DEF SessionEnableFails, LeaseIsStale, EnableArms
<1>8. CASE SessionTakeFault
  BY <1>8 DEF SessionTakeFault, TakeFault, PollFault
<1>9. CASE SessionPollPolicy
  BY <1>9 DEF SessionPollPolicy, PollPolicy
<1>10. CASE SessionClose
  BY <1>10 DEF SessionClose, CloseGate, CloseRaised
<1>11. CASE SessionClear
  BY <1>11 DEF SessionClear, ClearPending
<1>12. CASE SessionBegin
  BY <1>12 DEF SessionBegin, BeginEpoch
<1>13. CASE SessionExit
  BY <1>13 DEF SessionExit
<1> QED
  BY <1>1, <1>2, <1>3, <1>4, <1>5, <1>6, <1>7, <1>8, <1>9, <1>10, <1>11, <1>12,
     <1>13
  DEF SessionThread

(* The queue.                                                              *)
LEMMA QueueInvSession ==
    ASSUME TypeOK, TicketInv, QueueInv, SessionThread
    PROVE  QueueInv'
<1> USE DEF QueueInv, TypeOK, gatewayVars, observers, executorVars, policyVars,
      seqVars
<1>1. CASE UNCHANGED seqVars
  BY <1>1
<1>2. CASE SessionPrepare
  BY <1>2 DEF SessionPrepare, CanPrepare, PreparePolicy, CanSubmit
<1>3. CASE SessionPoll
  BY <1>3 DEF SessionPoll, NotPrepared, TakePending
<1>4. CASE SessionActivate
  <2>1. CASE ActivateLease("session")
    <3>1. ticket["session"].request \in Nat
      BY TicketType DEF GatewayTypeOK, Threads, Tickets
    <3>2. ticket["session"].request = gatewayEpoch /\ UNCHANGED gatewayEpoch
      BY <1>4, <2>1 DEF SessionActivate, ActivateLease, LeaseIsStale, TicketInv
    <3> QED
      BY <2>1, <3>1, <3>2, ActivateQueue DEF GatewayTypeOK, Threads
  <2> QED
    BY <1>4, <2>1 DEF SessionActivate
<1>5. CASE SessionTakeFault
  BY <1>5 DEF SessionTakeFault, TakeFault, PollFault
<1>6. CASE SessionClose
  BY <1>6 DEF SessionClose, CloseGate, CloseRaised
<1>7. CASE SessionClear
  BY <1>7 DEF SessionClear, ClearPending
<1>8. CASE SessionBegin
  BY <1>8 DEF SessionBegin, BeginEpoch
<1> QED
  BY <1>1, <1>2, <1>3, <1>4, <1>5, <1>6, <1>7, <1>8
  DEF SessionThread, SessionValidate, SessionInvalid, SessionEnableFails,
      SessionPollPolicy, SessionExit

(* The executor thread's ticket is its own: what the Session thread takes   *)
(* and gives up does not bring it nearer to a lease.                        *)
LEMMA PollKeepsLive ==
    ASSUME TypeOK, SessionPoll
    PROVE  (Live' <=> Live) /\ UNCHANGED <<queue, xpc, waiting>>
<1>1. ticket'["executor"] = ticket["executor"]
  BY DEF SessionPoll, TakePending, seqVars, TypeOK, GatewayTypeOK, Threads
<1> QED
  BY <1>1 DEF SessionPoll, TakePending, Live, InFlight, seqVars, gatewayVars, executorVars

(* Closing the gate makes nothing live.                                   *)
LEMMA CloseKeepsDead ==
    ASSUME SessionClose
    PROVE  (Live' => Live) /\ UNCHANGED <<queue, xpc, waiting>>
  BY DEF SessionClose, CloseGate, Live, InFlight, seqVars, gatewayVars, executorVars

(* A later epoch ends what was live, for the executor knows no later one.  *)
LEMMA ClearKills ==
    ASSUME TypeOK, EpochInv, SessionClear
    PROVE  ~Live' /\ queue' = <<>> /\ UNCHANGED <<xpc, waiting>>
<1>1. /\ gatewayEpoch' = controlEpoch /\ gatewayEpoch < controlEpoch
      /\ ~gateOpen' /\ queue' = <<>> /\ UNCHANGED <<ticket, executorVars>>
  BY DEF SessionClear, ClearPending, EpochInv
<1>2. /\ controlEpoch \in Nat /\ gatewayEpoch \in Nat /\ activeEpoch \in Int
      /\ xEpoch \in Nat /\ ticket["executor"].epoch \in Nat
      /\ activeEpoch <= gatewayEpoch /\ xEpoch <= gatewayEpoch
      /\ ticket["executor"].epoch <= gatewayEpoch
  BY DEF TypeOK, SessionTypeOK, GatewayTypeOK, ExecutorTypeOK, EpochInv, Threads, Tickets
<1> QED
  BY <1>1, <1>2 DEF Live, InFlight, executorVars

(* Only clear_pending changes the gateway's epoch.                         *)
LEMMA OnlyClearMoves ==
    ASSUME SessionThread, ~SessionClear
    PROVE  gatewayEpoch' = gatewayEpoch
  BY DEF SessionThread, SessionPrepare, PreparePolicy, SessionPoll, TakePending,
         SessionValidate, SessionInvalid, SessionActivate, ActivateLease, SessionEnableFails,
         SessionTakeFault, TakeFault, SessionPollPolicy, SessionClose, CloseGate,
         SessionBegin, BeginEpoch, SessionExit, seqVars, gatewayVars

(* What a signal left behind stays behind until clear_pending.             *)
LEMMA LeftBehindStays ==
    ASSUME TypeOK, FlowInv, SessionThread, ~SessionClear, LeftBehind
    PROVE  LeftBehind'
<1>1. gatewayEpoch' = gatewayEpoch
  BY OnlyClearMoves
<1>2. controlEpoch' \in {controlEpoch, controlEpoch + 1} /\ signals' \in {signals, signals + 1}
  <2>1. CASE SessionStep
    BY <2>1, StepKeepsTheEpoch DEF TypeOK
  <2>2. CASE ~SessionStep
    BY <2>2 DEF SessionThread, SessionPrepare, SessionPoll, SessionValidate, SessionInvalid,
       SessionActivate, SessionEnableFails, SessionTakeFault, PollFault, SessionPollPolicy,
       PollPolicy, SessionClose, SessionBegin, SessionExit, CallReturned, CallRaised, CloseRaised,
       Closed, authorityVars, countVars, envVars, Works, Fails, Signalled
  <2> QED
    BY <2>1, <2>2
<1>3. controlEpoch \in Nat /\ gatewayEpoch \in Nat /\ signals \in Nat
  BY DEF TypeOK, SessionTypeOK, GatewayTypeOK
<1> QED
  BY <1>1, <1>2, <1>3 DEF LeftBehind

(* A live epoch: only a lease makes one, and the arms were asked then.     *)
LEMMA LiveInvSession ==
    ASSUME TypeOK, FlowInv, TicketInv, EpochInv, LiveInv, SessionThread
    PROVE  LiveInv'
<1> USE DEF LiveInv, FlowInv, Acquiring, Leaving, TypeOK, SessionTypeOK,
      ArmTypeOK, flowVars, authorityVars, timelineVars, armVars, countVars,
      envVars, Works, Fails, Signalled, Goto, Return, Escape, EnterFault, Faulting,
      Paths, StopEpisode, CallReturned, CallRaised, Closed
<1>a. UNCHANGED seqVars => (Live' <=> Live) /\ UNCHANGED <<queue, xpc, waiting>>
  BY DEF Live, InFlight, seqVars, gatewayVars, executorVars
<1>b. UNCHANGED <<gateOpen, gatewayEpoch, ticket, executorVars>> => (Live' <=> Live) /\ UNCHANGED <<xpc, waiting>>
  BY DEF Live, InFlight, executorVars
<1>l. ~SessionClear => (LeftBehind => LeftBehind')
  BY LeftBehindStays
<1>s. pc = "clear" /\ UNCHANGED seqVars /\ Signalled /\ UNCHANGED controlEpoch => LeftBehind'
  BY DEF LeftBehind, EpochInv, GatewayTypeOK, seqVars, gatewayVars
<1>g. ~SessionClear => gatewayEpoch' = gatewayEpoch
  BY OnlyClearMoves
<1>c. SessionClear => pc = "clear"
  BY DEF SessionClear
<1> USE <1>a, <1>b, <1>l, <1>s, <1>g, <1>c
<1>1. CASE StartEpisode /\ UNCHANGED seqVars
  BY <1>1 DEF StartEpisode, SessionClear, seqVars, gatewayVars
<1>2. CASE StartBlocked /\ UNCHANGED seqVars
  BY <1>2 DEF StartBlocked, SessionClear, seqVars, gatewayVars
<1>3. CASE StartRefused /\ UNCHANGED seqVars
  BY <1>3 DEF StartRefused, SessionClear, seqVars, gatewayVars
<1>4. CASE EndSession /\ UNCHANGED seqVars
  BY <1>4 DEF EndSession, SessionClear, seqVars, gatewayVars
<1>5. CASE AnnouncePolicy /\ UNCHANGED seqVars
  BY <1>5 DEF AnnouncePolicy, SessionClear, seqVars, gatewayVars
<1>6. CASE PollSafetyFailure /\ UNCHANGED seqVars
  BY <1>6 DEF PollSafetyFailure, SessionClear, seqVars, gatewayVars
<1>7. CASE EndFaulted /\ UNCHANGED seqVars
  BY <1>7 DEF EndFaulted, SessionClear, seqVars, gatewayVars
<1>8. CASE EndEpisode /\ UNCHANGED seqVars
  BY <1>8 DEF EndEpisode, SessionClear, seqVars, gatewayVars
<1>9. CASE Takeover /\ UNCHANGED seqVars
  BY <1>9 DEF Takeover, SessionClear, seqVars, gatewayVars
<1>10. CASE Resume /\ UNCHANGED seqVars
  BY <1>10 DEF Resume, SessionClear, seqVars, gatewayVars
<1>11. CASE BumpEpoch /\ UNCHANGED seqVars
  BY <1>11 DEF BumpEpoch, SessionClear, seqVars, gatewayVars
<1>12. CASE Gravity /\ UNCHANGED seqVars
  BY <1>12 DEF Gravity, SessionClear, seqVars, gatewayVars
<1>13. CASE GravityRaises /\ UNCHANGED seqVars
  BY <1>13 DEF GravityRaises, SessionClear, seqVars, gatewayVars
<1>14. CASE ConcludeTakeover /\ UNCHANGED seqVars
  BY <1>14 DEF ConcludeTakeover, SessionClear, seqVars, gatewayVars
<1>15. CASE ConcludeStop /\ UNCHANGED seqVars
  BY <1>15 DEF ConcludeStop, SessionClear, seqVars, gatewayVars
<1>16. CASE ConcludeFault /\ UNCHANGED seqVars
  BY <1>16 DEF ConcludeFault, SessionClear, seqVars, gatewayVars
<1>17. CASE FinishEpisode /\ UNCHANGED seqVars
  BY <1>17 DEF FinishEpisode, SessionClear, seqVars, gatewayVars
<1>18. CASE CommitEpisode /\ UNCHANGED seqVars
  BY <1>18 DEF CommitEpisode, SessionClear, seqVars, gatewayVars
<1>19. CASE Interrupt /\ UNCHANGED seqVars
  BY <1>19 DEF Interrupt, SessionClear, seqVars, gatewayVars
<1>20. CASE InterruptGravity /\ UNCHANGED seqVars
  BY <1>20 DEF InterruptGravity, SessionClear, seqVars, gatewayVars
<1>21. CASE InterruptFaultCall /\ UNCHANGED seqVars
  BY <1>21 DEF InterruptFaultCall, SessionClear, seqVars, gatewayVars
<1>22. CASE (\E a \in Arms : EnableArrives(a)) /\ UNCHANGED seqVars
  BY <1>22 DEF EnableArrives, SessionClear, seqVars, gatewayVars
<1>23. CASE SessionPrepare
  BY <1>23 DEF SessionPrepare, PreparePolicy
<1>24. CASE SessionPoll
  BY <1>24, PollKeepsLive DEF SessionPoll
<1>25. CASE SessionValidate
  BY <1>25 DEF SessionValidate
<1>26. CASE SessionInvalid
  BY <1>26 DEF SessionInvalid
<1>27. CASE SessionActivate
  <2>1. CASE LeaseIsStale("session")
    BY <1>27, <2>1 DEF SessionActivate
  <2>2. CASE ~LeaseIsStale("session")
    <3>1. /\ pc' = "announce"
          /\ UNCHANGED <<state, active, xpc, waiting>>
          /\ state = "RESUME_PENDING" /\ active = "none"
      BY <1>27, <2>2 DEF SessionActivate, executorVars
    <3>2. \A a \in Arms : latch'[a] = "policy"
      BY <1>27, <2>2 DEF SessionActivate, TicketInv, EnableArms
    <3>3. gatewayEpoch' = controlEpoch'
      BY <1>27, <2>2 DEF SessionActivate, ActivateLease, LeaseIsStale, TicketInv
    <3> QED
      BY <3>1, <3>2, <3>3
  <2> QED
    BY <2>1, <2>2
<1>28. CASE SessionEnableFails
  BY <1>28 DEF SessionEnableFails
<1>29. CASE SessionTakeFault
  BY <1>29 DEF SessionTakeFault, TakeFault, PollFault
<1>30. CASE SessionPollPolicy
  BY <1>30 DEF SessionPollPolicy, PollPolicy
<1>31. CASE SessionClose
  BY <1>31, CloseKeepsDead DEF SessionClose, CloseRaised
<1>32. CASE SessionClear
  BY <1>32, ClearKills DEF SessionClear
<1>33. CASE SessionBegin
  BY <1>33 DEF SessionBegin, BeginEpoch, gatewayVars
<1>34. CASE SessionExit
  BY <1>34 DEF SessionExit
<1> QED
  BY <1>1, <1>2, <1>3, <1>4, <1>5, <1>6, <1>7, <1>8, <1>9, <1>10, <1>11, <1>12,
     <1>13, <1>14, <1>15, <1>16, <1>17, <1>18, <1>19, <1>20, <1>21, <1>22,
     <1>23, <1>24, <1>25, <1>26, <1>27, <1>28, <1>29, <1>30, <1>31, <1>32,
     <1>33, <1>34
  DEF SessionThread, SessionStep

(* The human never gets a live epoch.                                      *)
LEMMA HumanInvSession ==
    ASSUME TypeOK, FlowInv, EpochInv, HumanInv, SessionThread
    PROVE  HumanInv'
<1> USE DEF HumanInv, FlowInv, Acquiring, Leaving, flowVars, authorityVars,
      timelineVars, armVars, countVars, envVars, Works, Fails, Signalled, Goto,
      Return, Escape, EnterFault, Faulting, Paths, StopEpisode, CallReturned, CallRaised, Closed
<1>a. UNCHANGED seqVars => (Live' <=> Live) /\ UNCHANGED <<queue, xpc, waiting>>
  BY DEF Live, InFlight, seqVars, gatewayVars, executorVars
<1>b. UNCHANGED <<gateOpen, gatewayEpoch, ticket, executorVars>> => (Live' <=> Live) /\ UNCHANGED <<xpc, waiting>>
  BY DEF Live, InFlight, executorVars
<1> USE <1>a, <1>b
<1>1. CASE StartEpisode /\ UNCHANGED seqVars
  BY <1>1 DEF StartEpisode
<1>2. CASE StartBlocked /\ UNCHANGED seqVars
  BY <1>2 DEF StartBlocked
<1>3. CASE StartRefused /\ UNCHANGED seqVars
  BY <1>3 DEF StartRefused
<1>4. CASE EndSession /\ UNCHANGED seqVars
  BY <1>4 DEF EndSession
<1>5. CASE AnnouncePolicy /\ UNCHANGED seqVars
  BY <1>5 DEF AnnouncePolicy
<1>6. CASE PollSafetyFailure /\ UNCHANGED seqVars
  BY <1>6 DEF PollSafetyFailure
<1>7. CASE EndFaulted /\ UNCHANGED seqVars
  BY <1>7 DEF EndFaulted
<1>8. CASE EndEpisode /\ UNCHANGED seqVars
  BY <1>8 DEF EndEpisode
<1>9. CASE Takeover /\ UNCHANGED seqVars
  BY <1>9 DEF Takeover
<1>10. CASE Resume /\ UNCHANGED seqVars
  BY <1>10 DEF Resume
<1>11. CASE BumpEpoch /\ UNCHANGED seqVars
  BY <1>11 DEF BumpEpoch
<1>12. CASE Gravity /\ UNCHANGED seqVars
  BY <1>12 DEF Gravity
<1>13. CASE GravityRaises /\ UNCHANGED seqVars
  BY <1>13 DEF GravityRaises
<1>14. CASE ConcludeTakeover /\ UNCHANGED seqVars
  BY <1>14 DEF ConcludeTakeover
<1>15. CASE ConcludeStop /\ UNCHANGED seqVars
  BY <1>15 DEF ConcludeStop
<1>16. CASE ConcludeFault /\ UNCHANGED seqVars
  BY <1>16 DEF ConcludeFault
<1>17. CASE FinishEpisode /\ UNCHANGED seqVars
  BY <1>17 DEF FinishEpisode
<1>18. CASE CommitEpisode /\ UNCHANGED seqVars
  BY <1>18 DEF CommitEpisode
<1>19. CASE Interrupt /\ UNCHANGED seqVars
  BY <1>19 DEF Interrupt
<1>20. CASE InterruptGravity /\ UNCHANGED seqVars
  BY <1>20 DEF InterruptGravity
<1>21. CASE InterruptFaultCall /\ UNCHANGED seqVars
  BY <1>21 DEF InterruptFaultCall
<1>22. CASE (\E a \in Arms : EnableArrives(a)) /\ UNCHANGED seqVars
  BY <1>22 DEF EnableArrives
<1>23. CASE SessionPrepare
  BY <1>23 DEF SessionPrepare, PreparePolicy
<1>24. CASE SessionPoll
  BY <1>24, PollKeepsLive DEF SessionPoll
<1>25. CASE SessionValidate
  BY <1>25 DEF SessionValidate
<1>26. CASE SessionInvalid
  BY <1>26 DEF SessionInvalid
<1>27. CASE SessionActivate
  BY <1>27 DEF SessionActivate
<1>28. CASE SessionEnableFails
  BY <1>28 DEF SessionEnableFails
<1>29. CASE SessionTakeFault
  BY <1>29 DEF SessionTakeFault, TakeFault, PollFault
<1>30. CASE SessionPollPolicy
  BY <1>30 DEF SessionPollPolicy, PollPolicy
<1>31. CASE SessionClose
  BY <1>31, CloseKeepsDead DEF SessionClose, CloseRaised
<1>32. CASE SessionClear
  BY <1>32, ClearKills DEF SessionClear
<1>33. CASE SessionBegin
  BY <1>33 DEF SessionBegin, BeginEpoch, gatewayVars
<1>34. CASE SessionExit
  BY <1>34 DEF SessionExit
<1> QED
  BY <1>1, <1>2, <1>3, <1>4, <1>5, <1>6, <1>7, <1>8, <1>9, <1>10, <1>11, <1>12,
     <1>13, <1>14, <1>15, <1>16, <1>17, <1>18, <1>19, <1>20, <1>21, <1>22,
     <1>23, <1>24, <1>25, <1>26, <1>27, <1>28, <1>29, <1>30, <1>31, <1>32,
     <1>33, <1>34
  DEF SessionThread, SessionStep

(* The arms.                                                               *)
LEMMA LockInvSession ==
    ASSUME TypeOK, FlowInv, LockInv, SessionThread
    PROVE  LockInv'
<1> USE DEF LockInv, FlowInv, Locked, Acquiring, Leaving, TypeOK,
      SessionTypeOK, flowVars, authorityVars, timelineVars, armVars, countVars,
      envVars, Works, Fails, Signalled, Goto, Return, Escape, EnterFault, Faulting,
      Paths, StopEpisode, CallReturned, CallRaised, Closed
<1>l. ~SessionClear => (LeftBehind => LeftBehind')
  BY LeftBehindStays
<1> USE <1>l
<1>1. CASE StartEpisode
  BY <1>1 DEF StartEpisode, SessionClear
<1>2. CASE StartBlocked
  BY <1>2 DEF StartBlocked, SessionClear
<1>3. CASE StartRefused
  BY <1>3 DEF StartRefused, SessionClear
<1>4. CASE EndSession
  BY <1>4 DEF EndSession, SessionClear
<1>5. CASE AnnouncePolicy
  BY <1>5 DEF AnnouncePolicy, SessionClear
<1>6. CASE PollSafetyFailure
  BY <1>6 DEF PollSafetyFailure, SessionClear
<1>7. CASE EndFaulted
  BY <1>7 DEF EndFaulted, SessionClear
<1>8. CASE EndEpisode
  BY <1>8 DEF EndEpisode, SessionClear
<1>9. CASE Takeover
  BY <1>9 DEF Takeover, SessionClear
<1>10. CASE Resume
  BY <1>10 DEF Resume, SessionClear
<1>11. CASE BumpEpoch
  BY <1>11 DEF BumpEpoch, SessionClear
<1>12. CASE Gravity
  BY <1>12 DEF Gravity, SessionClear
<1>13. CASE GravityRaises
  BY <1>13 DEF GravityRaises, SessionClear
<1>14. CASE ConcludeTakeover
  BY <1>14 DEF ConcludeTakeover, SessionClear
<1>15. CASE ConcludeStop
  BY <1>15 DEF ConcludeStop, SessionClear
<1>16. CASE ConcludeFault
  BY <1>16 DEF ConcludeFault, SessionClear
<1>17. CASE FinishEpisode
  BY <1>17 DEF FinishEpisode, SessionClear
<1>18. CASE CommitEpisode
  BY <1>18 DEF CommitEpisode, SessionClear
<1>19. CASE Interrupt
  BY <1>19 DEF Interrupt, SessionClear
<1>20. CASE InterruptGravity
  BY <1>20 DEF InterruptGravity, SessionClear
<1>21. CASE InterruptFaultCall
  BY <1>21 DEF InterruptFaultCall, SessionClear
<1>22. CASE (\E a \in Arms : EnableArrives(a))
  BY <1>22 DEF EnableArrives, SessionClear
<1>23. CASE SessionPrepare
  BY <1>23 DEF SessionPrepare, SessionClear
<1>24. CASE SessionPoll
  BY <1>24 DEF SessionPoll, SessionClear
<1>25. CASE SessionValidate
  BY <1>25 DEF SessionValidate, SessionClear
<1>26. CASE SessionInvalid
  BY <1>26 DEF SessionInvalid, SessionClear
<1>27. CASE SessionActivate
  BY <1>27 DEF SessionActivate, LeaseIsStale, EnableArms, SessionClear
<1>28. CASE SessionEnableFails
  BY <1>28 DEF SessionEnableFails, LeaseIsStale, EnableArms, SessionClear
<1>29. CASE SessionTakeFault
  BY <1>29 DEF SessionTakeFault, PollFault, SessionClear
<1>30. CASE SessionPollPolicy
  BY <1>30 DEF SessionPollPolicy, PollPolicy, SessionClear
<1>31. CASE SessionClose
  BY <1>31 DEF SessionClose, CloseRaised, SessionClear
<1>32. CASE SessionClear
  BY <1>32 DEF SessionClear
<1>33. CASE SessionBegin
  BY <1>33 DEF SessionBegin, SessionClear
<1>34. CASE SessionExit
  BY <1>34 DEF SessionExit, SessionClear
<1> QED
  BY <1>1, <1>2, <1>3, <1>4, <1>5, <1>6, <1>7, <1>8, <1>9, <1>10, <1>11, <1>12,
     <1>13, <1>14, <1>15, <1>16, <1>17, <1>18, <1>19, <1>20, <1>21, <1>22,
     <1>23, <1>24, <1>25, <1>26, <1>27, <1>28, <1>29, <1>30, <1>31, <1>32,
     <1>33, <1>34
  DEF SessionThread, SessionStep

-----------------------------------------------------------------------------
(* The executor thread and the policy worker. *)

(* The executor thread validates before it activates.                      *)
LEMMA TicketInvOthers ==
    ASSUME TypeOK, TicketInv, ExecutorThread \/ PolicyWorker
    PROVE  TicketInv'
<1> USE DEF TicketInv, TypeOK, GatewayTypeOK, Threads, flowVars, gatewayVars,
      observers, executorVars, policyVars, seqVars, ExecGoto, ResetSchedule,
      StepReturns, Untouched
<1>q. UNCHANGED <<flowVars, state, controlEpoch, episode, safetyFailure, timelineVars, countVars, signals>>
  BY Quietly DEF TypeOK
<1> USE <1>q
<1>1. CASE ExecGate
  BY <1>1 DEF ExecGate
<1>2. CASE ExecStop
  BY <1>2 DEF ExecStop
<1>3. CASE ExecReadEpoch
  BY <1>3 DEF ExecReadEpoch
<1>4. CASE ExecReadEpisode
  BY <1>4 DEF ExecReadEpisode
<1>5. CASE ExecReadPending
  BY <1>5 DEF ExecReadPending
<1>6. CASE ExecPolicyReady
  <2>1. ticket'["session"] = ticket["session"] /\ xpc' # "activate"
    BY <1>6 DEF ExecPolicyReady, TakePending
  <2> QED
    BY <2>1
<1>7. CASE ExecValidate
  BY <1>7 DEF ExecValidate
<1>8. CASE ExecActivate
  <2>1. ticket'["session"] = ticket["session"] /\ xpc' # "activate"
    BY <1>8 DEF ExecActivate, ActivateLease
  <2> QED
    BY <2>1
<1>9. CASE ExecCount
  BY <1>9 DEF ExecCount
<1>10. CASE ExecRequest
  BY <1>10 DEF ExecRequest, CanPrepare, PreparePolicy, CanSubmit
<1>11. CASE ExecNotDue
  BY <1>11 DEF ExecNotDue
<1>12. CASE ExecPublish
  BY <1>12 DEF ExecPublish, LeaseIsClosed
<1>13. CASE ExecPublishFails
  BY <1>13 DEF ExecPublishFails, LeaseIsClosed
<1>14. CASE ExecPolicyTimeout \/ ExecInvalid \/ ExecWatchdog
  BY <1>14 DEF ExecPolicyTimeout, ExecInvalid, ExecWatchdog
<1>15. CASE ExecFailCheck \/ ExecFailGate
  BY <1>15 DEF ExecFailCheck, ExecFailGate
<1>16. CASE ExecFailClose
  BY <1>16 DEF ExecFailClose, CloseGate
<1>17. CASE ExecLatch
  <2>1. ticket'["session"] = ticket["session"] /\ xpc' # "activate"
    BY <1>17 DEF ExecLatch
  <2> QED
    BY <2>1
<1>18. CASE FinishAbandoned \/ FinishPending
  BY <1>18 DEF FinishAbandoned, FinishPending
<1>19. CASE ExecutorEnableFails
  BY <1>19 DEF ExecutorEnableFails
<1> QED
  BY <1>1, <1>2, <1>3, <1>4, <1>5, <1>6, <1>7, <1>8, <1>9, <1>10, <1>11, <1>12,
     <1>13, <1>14, <1>15, <1>16, <1>17, <1>18, <1>19
  DEF ExecutorThread, ExecutorLoop, ExecutorQuiet, ExecutorActivate,
      ExecutorFails, PolicyWorker

(* It reads no epoch but the gateway's.                                    *)
LEMMA EpochInvOthers ==
    ASSUME TypeOK, EpochInv, ExecutorThread \/ PolicyWorker
    PROVE  EpochInv'
<1> USE DEF EpochInv, flowVars, gatewayVars, observers, executorVars,
      policyVars, seqVars, ExecGoto, ResetSchedule, StepReturns, Untouched
<1>q. UNCHANGED <<flowVars, state, controlEpoch, episode, safetyFailure, timelineVars, countVars, signals>>
  BY Quietly DEF TypeOK
<1>t. /\ controlEpoch \in Nat /\ gatewayEpoch \in Nat /\ activeEpoch \in Int /\ xEpoch \in Nat
      /\ ticket \in [Threads -> Tickets]
      /\ \A t \in Threads : ticket[t].epoch \in Nat
  BY DEF TypeOK, SessionTypeOK, GatewayTypeOK, ExecutorTypeOK, Tickets
<1> USE <1>t
<1> USE <1>q
<1>1. CASE ExecGate
  BY <1>1 DEF ExecGate
<1>2. CASE ExecStop
  BY <1>2 DEF ExecStop
<1>3. CASE ExecReadEpoch
  BY <1>3 DEF ExecReadEpoch
<1>4. CASE ExecReadEpisode
  BY <1>4 DEF ExecReadEpisode
<1>5. CASE ExecReadPending
  BY <1>5 DEF ExecReadPending
<1>6. CASE ExecPolicyReady
  <2>1. CASE TakePending("executor", xEpisode, xEpoch)
    <3>1. \A t \in Threads : ticket'[t].epoch = ticket[t].epoch \/ ticket'[t].epoch = xEpoch
      BY <2>1 DEF TakePending
    <3> QED
      BY <1>6, <2>1, <3>1 DEF ExecPolicyReady, TakePending
  <2> QED
    BY <1>6, <2>1 DEF ExecPolicyReady
<1>7. CASE ExecValidate
  BY <1>7 DEF ExecValidate
<1>8. CASE ExecActivate
  <2>1. CASE ActivateLease("executor")
    <3>1. \A t \in Threads : ticket'[t].epoch = ticket[t].epoch \/ ticket'[t].epoch = 0
      BY <2>1 DEF ActivateLease, NoTicket
    <3> QED
      BY <1>8, <2>1, <3>1 DEF ExecActivate, ActivateLease
  <2> QED
    BY <1>8, <2>1 DEF ExecActivate
<1>9. CASE ExecCount
  BY <1>9 DEF ExecCount
<1>10. CASE ExecRequest
  BY <1>10 DEF ExecRequest, CanPrepare, PreparePolicy, CanSubmit
<1>11. CASE ExecNotDue
  BY <1>11 DEF ExecNotDue
<1>12. CASE ExecPublish
  BY <1>12 DEF ExecPublish, LeaseIsClosed
<1>13. CASE ExecPublishFails
  BY <1>13 DEF ExecPublishFails, LeaseIsClosed
<1>14. CASE ExecPolicyTimeout \/ ExecInvalid \/ ExecWatchdog
  BY <1>14 DEF ExecPolicyTimeout, ExecInvalid, ExecWatchdog
<1>15. CASE ExecFailCheck \/ ExecFailGate
  BY <1>15 DEF ExecFailCheck, ExecFailGate
<1>16. CASE ExecFailClose
  BY <1>16 DEF ExecFailClose, CloseGate
<1>17. CASE ExecLatch
  <2>1. \A t \in Threads : ticket'[t].epoch = ticket[t].epoch \/ ticket'[t].epoch = 0
    BY <1>17 DEF ExecLatch, NoTicket
  <2> QED
    BY <1>17, <2>1 DEF ExecLatch
<1>18. CASE FinishAbandoned \/ FinishPending
  BY <1>18 DEF FinishAbandoned, FinishPending
<1>19. CASE ExecutorEnableFails
  BY <1>19 DEF ExecutorEnableFails
<1> QED
  BY <1>1, <1>2, <1>3, <1>4, <1>5, <1>6, <1>7, <1>8, <1>9, <1>10, <1>11, <1>12,
     <1>13, <1>14, <1>15, <1>16, <1>17, <1>18, <1>19
  DEF ExecutorThread, ExecutorLoop, ExecutorQuiet, ExecutorActivate,
      ExecutorFails, PolicyWorker

(* The queue, whichever thread accepted the response.                      *)
LEMMA QueueInvOthers ==
    ASSUME TypeOK, TicketInv, QueueInv, ExecutorThread \/ PolicyWorker
    PROVE  QueueInv'
<1> USE DEF QueueInv, TypeOK, GatewayTypeOK, gatewayVars, observers,
      executorVars, policyVars, seqVars, ExecGoto, ResetSchedule, StepReturns,
      Untouched
<1>1. CASE ExecGate
  BY <1>1 DEF ExecGate
<1>2. CASE ExecStop
  BY <1>2 DEF ExecStop
<1>3. CASE ExecReadEpoch
  BY <1>3 DEF ExecReadEpoch
<1>4. CASE ExecReadEpisode
  BY <1>4 DEF ExecReadEpisode
<1>5. CASE ExecReadPending
  BY <1>5 DEF ExecReadPending
<1>6. CASE ExecPolicyReady
  BY <1>6 DEF ExecPolicyReady, NotPrepared, TakePending
<1>7. CASE ExecValidate
  BY <1>7 DEF ExecValidate
<1>8. CASE ExecActivate
  <2>1. CASE ActivateLease("executor")
    <3>1. ticket["executor"].request \in Nat
      BY TicketType DEF Threads, Tickets
    <3>2. ticket["executor"].request = gatewayEpoch /\ UNCHANGED gatewayEpoch
      BY <1>8, <2>1 DEF ExecActivate, ActivateLease, LeaseIsStale, TicketInv
    <3> QED
      BY <2>1, <3>1, <3>2, ActivateQueue DEF Threads
  <2> QED
    BY <1>8, <2>1 DEF ExecActivate
<1>9. CASE ExecCount
  BY <1>9 DEF ExecCount
<1>10. CASE ExecRequest
  BY <1>10 DEF ExecRequest, CanPrepare, PreparePolicy, CanSubmit
<1>11. CASE ExecNotDue
  BY <1>11 DEF ExecNotDue
<1>12. CASE ExecPublish
  BY <1>12, PublishQueue DEF ExecPublish, LeaseIsClosed
<1>13. CASE ExecPublishFails
  BY <1>13, PublishQueue DEF ExecPublishFails, LeaseIsClosed
<1>14. CASE ExecPolicyTimeout \/ ExecInvalid \/ ExecWatchdog
  BY <1>14 DEF ExecPolicyTimeout, ExecInvalid, ExecWatchdog
<1>15. CASE ExecFailCheck \/ ExecFailGate
  BY <1>15 DEF ExecFailCheck, ExecFailGate
<1>16. CASE ExecFailClose
  BY <1>16 DEF ExecFailClose, CloseGate
<1>17. CASE ExecLatch
  BY <1>17 DEF ExecLatch
<1>18. CASE FinishAbandoned \/ FinishPending
  BY <1>18 DEF FinishAbandoned, FinishPending
<1>19. CASE ExecutorEnableFails
  BY <1>19 DEF ExecutorEnableFails
<1> QED
  BY <1>1, <1>2, <1>3, <1>4, <1>5, <1>6, <1>7, <1>8, <1>9, <1>10, <1>11, <1>12,
     <1>13, <1>14, <1>15, <1>16, <1>17, <1>18, <1>19
  DEF ExecutorThread, ExecutorLoop, ExecutorQuiet, ExecutorActivate,
      ExecutorFails, PolicyWorker

(* The executor and the worker keep the gateway's epoch.                   *)
LEMMA OthersKeepTheEpoch ==
    ASSUME ExecutorThread \/ PolicyWorker
    PROVE  gatewayEpoch' = gatewayEpoch
<1>1. CASE Untouched
  BY <1>1 DEF Untouched, gatewayVars
<1> QED
  BY <1>1 DEF ExecutorThread, ExecutorLoop, ExecGate, ExecStop, ExecutorActivate, ExecActivate,
     ActivateLease, ExecutorEnableFails, ExecutorFails, ExecPolicyTimeout, ExecInvalid,
     ExecWatchdog, ExecPublishFails, ExecutorQuiet, ExecReadEpoch, ExecReadEpisode,
     ExecReadPending, ExecPolicyReady, TakePending, ExecValidate, ExecCount, ExecRequest,
     PreparePolicy, ExecNotDue, ExecPublish, ExecFailCheck, ExecFailGate, ExecFailClose, CloseGate,
     ExecLatch, PolicyWorker, FinishAbandoned, FinishPending, gatewayVars

(* No step of the executor thread makes an epoch live that was not, and     *)
(* when its queue is empty and its epoch dead it stays empty.              *)
LEMMA DeadStaysDead ==
    ASSUME TypeOK, xpc = "ready" => waiting, ExecutorThread \/ PolicyWorker
    PROVE  /\ Live' => Live
           /\ ~Live /\ queue = <<>> => queue' = <<>>
           /\ xpc' = "ready" => waiting'
<1> USE DEF TypeOK, GatewayTypeOK, Live, InFlight, Threads, gatewayVars,
      observers, executorVars, policyVars, seqVars, ExecGoto, ResetSchedule,
      StepReturns, Untouched
<1>1. CASE ExecGate
  BY <1>1 DEF ExecGate
<1>2. CASE ExecStop
  BY <1>2 DEF ExecStop
<1>3. CASE ExecReadEpoch
  BY <1>3 DEF ExecReadEpoch
<1>4. CASE ExecReadEpisode
  BY <1>4 DEF ExecReadEpisode
<1>5. CASE ExecReadPending
  BY <1>5 DEF ExecReadPending
<1>6. CASE ExecPolicyReady
  BY <1>6 DEF ExecPolicyReady, NotPrepared, TakePending
<1>7. CASE ExecValidate
  BY <1>7 DEF ExecValidate
<1>8. CASE ExecActivate
  BY <1>8 DEF ExecActivate, LeaseIsStale, ActivateLease
<1>9. CASE ExecCount
  BY <1>9 DEF ExecCount
<1>10. CASE ExecRequest
  BY <1>10 DEF ExecRequest, CanPrepare, PreparePolicy, CanSubmit
<1>11. CASE ExecNotDue
  BY <1>11 DEF ExecNotDue
<1>12. CASE ExecPublish
  BY <1>12 DEF ExecPublish, LeaseIsClosed
<1>13. CASE ExecPublishFails
  BY <1>13 DEF ExecPublishFails, LeaseIsClosed
<1>14. CASE ExecPolicyTimeout \/ ExecInvalid \/ ExecWatchdog
  BY <1>14 DEF ExecPolicyTimeout, ExecInvalid, ExecWatchdog
<1>15. CASE ExecFailCheck \/ ExecFailGate
  BY <1>15 DEF ExecFailCheck, ExecFailGate
<1>16. CASE ExecFailClose
  BY <1>16 DEF ExecFailClose, CloseGate
<1>17. CASE ExecLatch
  BY <1>17 DEF ExecLatch
<1>18. CASE FinishAbandoned \/ FinishPending
  BY <1>18 DEF FinishAbandoned, FinishPending
<1>19. CASE ExecutorEnableFails
  BY <1>19 DEF ExecutorEnableFails
<1> QED
  BY <1>1, <1>2, <1>3, <1>4, <1>5, <1>6, <1>7, <1>8, <1>9, <1>10, <1>11, <1>12,
     <1>13, <1>14, <1>15, <1>16, <1>17, <1>18, <1>19
  DEF ExecutorThread, ExecutorLoop, ExecutorQuiet, ExecutorActivate,
      ExecutorFails, PolicyWorker

(* ... what a live policy implies, ... *)
LEMMA LiveInvOthers ==
    ASSUME TypeOK, LiveInv, ExecutorThread \/ PolicyWorker
    PROVE  LiveInv'
<1>q. UNCHANGED <<flowVars, state, controlEpoch, episode, safetyFailure, timelineVars, countVars, signals>>
  BY Quietly DEF TypeOK
<1>1. /\ Live' => Live
      /\ xpc' = "ready" => waiting'
  BY DeadStaysDead DEF LiveInv
<1>2. (\A a \in Arms : latch[a] = "policy") => \A a \in Arms : latch'[a] = "policy"
  BY DEF ExecutorThread, ExecutorLoop, ExecutorQuiet, ExecutorActivate, ExecutorEnableFails,
         ExecutorFails, PolicyWorker,
         sessionVars, authorityVars, armVars, EnableArms
<1>3. gatewayEpoch' = gatewayEpoch
  BY OthersKeepTheEpoch
<1> QED
  BY <1>q, <1>1, <1>2, <1>3 DEF LiveInv, LeftBehind, Leaving, flowVars, timelineVars

(* ... and what a human in control implies. *)
LEMMA HumanInvOthers ==
    ASSUME TypeOK, LiveInv, HumanInv, ExecutorThread \/ PolicyWorker
    PROVE  HumanInv'
<1>q. UNCHANGED <<flowVars, state, controlEpoch, episode, safetyFailure, timelineVars, countVars, signals>>
  BY Quietly DEF TypeOK
<1>1. /\ Live' => Live
      /\ ~Live /\ queue = <<>> => queue' = <<>>
  BY DeadStaysDead DEF LiveInv
<1> QED
  BY <1>q, <1>1 DEF HumanInv, flowVars, timelineVars

(* It enables the arms only in a live epoch, when none is known as locked. *)
LEMMA LockInvOthers ==
    ASSUME TypeOK, LiveInv, LockInv, ExecutorThread \/ PolicyWorker
    PROVE  LockInv'
<1>q. UNCHANGED <<flowVars, state, controlEpoch, episode, safetyFailure, timelineVars, countVars, signals>>
  BY Quietly DEF TypeOK
<1>l. LeftBehind' <=> LeftBehind
  BY <1>q, OthersKeepTheEpoch DEF LeftBehind
<1>1. CASE (ExecutorActivate \/ ExecutorEnableFails) /\ ~UNCHANGED armVars
  <2>1. Live /\ (~LateEnable => UNCHANGED lateEnable)
    BY <1>1 DEF ExecutorActivate, ExecutorEnableFails, ExecActivate, LeaseIsStale, EnableArms, Live,
                InFlight
  <2> QED
    BY <1>q, <1>l, <2>1 DEF LiveInv, LockInv, Leaving, flowVars
<1>2. CASE UNCHANGED armVars
  BY <1>q, <1>l, <1>2 DEF LockInv, Locked, Faulting, flowVars, armVars
<1> QED
  BY <1>1, <1>2 DEF ExecutorThread, ExecutorLoop, ExecutorQuiet, ExecutorFails, PolicyWorker,
                    sessionVars, authorityVars

-----------------------------------------------------------------------------
(* The inductive invariant. *)

(* The initial states satisfy it.                                         *)
LEMMA InitInv == Init => IInv
<1> SUFFICES ASSUME Init PROVE IInv
  OBVIOUS
<1>1. SessionTypeOK
  <2>1. ArmTypeOK
    BY DEF Init, SessionInit, ArmTypeOK
  <2>2. /\ pc \in Steps /\ hook \in {"none", "start", "wait", "stop"}
        /\ path \in Paths
        /\ state \in States
    BY DEF Init, SessionInit, Steps, States, Paths
  <2>3. /\ active \in {"none", "model", "human"} /\ lastEvent \in Events
        /\ safetyFailure \in BOOLEAN /\ interrupted \in BOOLEAN
    BY DEF Init, SessionInit, Events
  <2>4. /\ controlEpoch \in Nat /\ episode \in Nat /\ episodes \in Nat /\ firstEpoch \in Nat
        /\ committed \in Nat /\ takeovers \in Nat /\ failures \in Nat /\ signals \in Nat
    BY DEF Init, SessionInit
  <2> QED
    BY <2>1, <2>2, <2>3, <2>4 DEF SessionTypeOK
<1> USE DEF Init, GatewayInit
<1>2. GatewayTypeOK
  <2>1. ticket \in [Threads -> Tickets]
    BY DEF NoTicket, Tickets
  <2>2. queue \in Seq(Nat)
    OBVIOUS
  <2> QED
    BY <2>1, <2>2 DEF GatewayTypeOK, ExecutorTypeOK
<1> USE DEF SessionInit
<1>3. FlowInv /\ TicketInv /\ QueueInv /\ HumanInv /\ LiveInv
  BY DEF FlowInv, TicketInv, QueueInv, HumanInv, LiveInv, Live, InFlight, Acquiring, Leaving
<1>4. EpochInv
  BY DEF EpochInv, NoTicket
<1>5. LockInv
  BY DEF LockInv
<1> QED
  BY <1>1, <1>2, <1>3, <1>4, <1>5 DEF IInv, TypeOK

(* A stuttering step keeps it.                                            *)
LEMMA StutterInv ==
    ASSUME IInv, UNCHANGED vars
    PROVE  IInv'
<1> USE DEF vars, sessionVars, seqVars, flowVars, authorityVars, timelineVars, armVars, countVars,
            envVars, gatewayVars, observers, executorVars, policyVars
<1>1. TypeOK'
  BY TypeStep DEF IInv
<1>2. FlowInv' /\ TicketInv' /\ EpochInv' /\ QueueInv'
  BY DEF IInv, FlowInv, TicketInv, EpochInv, QueueInv, Acquiring, Leaving
<1>3. LiveInv' /\ HumanInv'
  BY DEF IInv, LiveInv, HumanInv, Live, InFlight, LeftBehind, Leaving
<1>4. LockInv'
  BY DEF IInv, LockInv, Locked, LeftBehind, Faulting
<1> QED
  BY <1>1, <1>2, <1>3, <1>4 DEF IInv

(* Every step keeps it: by thread.                                        *)
LEMMA StepInv == IInv /\ [Next]_vars => IInv'
<1> SUFFICES ASSUME IInv, [Next]_vars PROVE IInv'
  OBVIOUS
<1> USE DEF IInv
<1>1. TypeOK'
  BY TypeStep
<1>2. CASE SessionThread
  BY <1>1, <1>2, FlowInvSession, TicketInvSession, EpochInvSession, QueueInvSession,
     LiveInvSession, HumanInvSession, LockInvSession
<1>3. CASE ExecutorThread \/ PolicyWorker
  <2>1. FlowInv'
    BY <1>3, Quietly DEF TypeOK, FlowInv, Acquiring, Leaving, flowVars, timelineVars
  <2> QED
    BY <1>1, <1>3, <2>1, TicketInvOthers, EpochInvOthers, QueueInvOthers, LiveInvOthers,
       HumanInvOthers, LockInvOthers
<1>4. CASE UNCHANGED vars
  BY <1>4, StutterInv
<1> QED
  BY <1>2, <1>3, <1>4 DEF Next, Ended

(* Whatever the interleaving of the Session thread, the executor thread and *)
(* the policy worker, IInv holds.                                           *)
THEOREM Inductive == Spec => []IInv
  BY InitInv, StepInv, PTL DEF Spec

(* No command lease exists under a human, although the executor thread may  *)
(* reopen a gate that was closed, whatever signals and failures came; none  *)
(* under a held fault or between Episodes either, unless a signal that      *)
(* _fault swallowed left the gateway in an epoch that is over.              *)
THEOREM HumanIsAlone == Spec => []NoLeaseWithoutPolicy
<1>1. IInv => NoLeaseWithoutPolicy
  BY DEF IInv, NoLeaseWithoutPolicy, LiveInv, HumanInv, Live
<1> QED
  BY <1>1, Inductive, PTL

(* The gate is open only while both arms accept policy commands, whichever  *)
(* thread opened it, although either thread's enable requests may fail on   *)
(* one arm, and late enable requests or not; unless a signal left the       *)
(* gateway in an epoch that is over.                                        *)
THEOREM PairedLease == Spec => []LeaseCoversBothArms
<1>1. IInv => LeaseCoversBothArms
  BY DEF IInv, LeaseCoversBothArms, LiveInv, Live
<1> QED
  BY <1>1, Inductive, PTL

(* An Episode is committed only with the gate closed and both arms locked,  *)
(* if no enable request outlives its timeout, and unless a signal left the  *)
(* gateway in an epoch that is over.                                        *)
THEOREM CommitsAreCompensated ==
    ASSUME ~LateEnable
    PROVE  Spec => []CommitIsCompensated
<1>1. IInv => CommitIsCompensated
  BY DEF IInv, CommitIsCompensated, FlowInv, LiveInv, Live, Leaving, LockInv, Locked
<1> QED
  BY <1>1, Inductive, PTL

(* A command counts as sent only when the executor publishes it.           *)
LEMMA OnlyPublishSends ==
    ASSUME TypeOK, [Next]_vars, issued' > issued
    PROVE  ExecPublish
<1> USE DEF seqVars, gatewayVars, observers, executorVars, policyVars
<1>1. issued \in Nat
  BY DEF TypeOK, GatewayTypeOK
<1>2. ~SessionThread
  <2>1. ASSUME SessionThread PROVE issued' = issued \/ issued' = 0
    BY <2>1 DEF SessionThread, SessionPrepare, PreparePolicy, SessionPoll, TakePending,
       SessionValidate, SessionInvalid, SessionActivate, ActivateLease, SessionEnableFails,
       SessionTakeFault, TakeFault, SessionPollPolicy, SessionClose, CloseGate, SessionClear,
       ClearPending, SessionBegin, BeginEpoch, SessionExit
  <2> QED
    BY <1>1, <2>1
<1>3. ~PolicyWorker /\ ~UNCHANGED vars
  BY <1>1 DEF PolicyWorker, FinishAbandoned, FinishPending, vars
<1>4. ~Untouched
  BY <1>1 DEF Untouched
<1>5. ~PreparePolicy(xEpisode, xEpoch) /\ ~TakePending("executor", xEpisode, xEpoch)
      /\ ~ActivateLease("executor") /\ ~CloseGate(xEpoch) /\ ~ExecLatch
      /\ ~(issued' = issued)
  BY <1>1 DEF PreparePolicy, TakePending, ActivateLease, CloseGate, ExecLatch
<1>6. ExecutorThread => ExecPublish
  BY <1>4, <1>5
     DEF ExecutorThread, ExecutorLoop, ExecGate, ExecStop, ExecutorActivate,
         ExecutorEnableFails, ExecActivate,
     ExecutorFails, ExecPolicyTimeout, ExecInvalid, ExecWatchdog, ExecPublishFails, ExecutorQuiet,
     ExecReadEpoch, ExecReadEpisode, ExecReadPending, ExecPolicyReady, ExecValidate, ExecCount,
     ExecRequest, ExecNotDue, ExecFailCheck, ExecFailGate, ExecFailClose
<1> QED
  BY <1>2, <1>3, <1>6 DEF Next, Ended

(* Every command is sent in the epoch its chunk was inferred for.          *)
THEOREM NothingOfAnOldEpochIsSent == Spec => SendsItsOwnEpoch
<1>1. ASSUME IInv, [Next]_vars PROVE issued' > issued => lastSent' = gatewayEpoch
  <2> SUFFICES ASSUME issued' > issued PROVE lastSent' = gatewayEpoch
    OBVIOUS
  <2>1. ExecPublish
    BY <1>1, OnlyPublishSends DEF IInv
  <2>2. queue # <<>> /\ lastSent' = Head(queue) /\ queue \in Seq(Nat)
    BY <1>1, <2>1
       DEF ExecPublish, ExecGoto, Untouched, observers, LeaseIsClosed, IInv, TypeOK,
           GatewayTypeOK
  <2>3. 1 \in DOMAIN queue /\ Head(queue) = queue[1]
    BY <2>2, HeadTailProperties
  <2> QED
    BY <1>1, <2>2, <2>3 DEF IInv, QueueInv
<1> QED
  BY <1>1, Inductive, PTL DEF Spec, SendsItsOwnEpoch
=============================================================================
