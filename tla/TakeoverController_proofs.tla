----------------------- MODULE TakeoverController_proofs -----------------------
(***************************************************************************)
(* The Session thread's steps that involve no gateway keep the type of its *)
(* variables: shared by the proofs about RtcTakeover and                   *)
(* SequentialTakeover.                                                     *)
(***************************************************************************)
EXTENDS TakeoverController, TLAPS

(* Episodes, handovers, faults, signals and late arms: one CASE each. *)
LEMMA SessionStepTypes ==
    ASSUME SessionTypeOK, SessionStep
    PROVE  SessionTypeOK'
<1> USE BoundsAssumption DEF SessionTypeOK, States, Events, Steps, flowVars,
      authorityVars, timelineVars, armVars, countVars, envVars, Works, Fails,
      Signalled, Goto, Return, Escape, EnterFault, Faulting, Paths, StopEpisode, CallReturned,
      CallRaised, Closed
<1>a. UNCHANGED <<latch, lateEnable>> => ArmTypeOK'
  BY DEF ArmTypeOK
<1> USE <1>a
<1>1. CASE StartEpisode
  <2>1. ArmTypeOK'
    BY <1>1 DEF StartEpisode, ArmTypeOK
  <2>2. /\ episodes' \in Nat /\ episode' \in Nat
        /\ firstEpoch' = controlEpoch
        /\ UNCHANGED <<controlEpoch, interrupted, committed, takeovers, failures, signals>>
    BY <1>1 DEF StartEpisode
  <2>3. /\ safetyFailure' = FALSE /\ lastEvent' = "NONE" /\ active' = "none"
        /\ state' = "RESUME_PENDING" /\ pc' = "prepare" /\ hook' = "start" /\ path' = "try"
    BY <1>1 DEF StartEpisode
  <2> QED
    BY <2>1, <2>2, <2>3
<1>2. CASE StartBlocked
  <2>1. ArmTypeOK'
    BY <1>2 DEF StartBlocked, ArmTypeOK
  <2> QED
    BY <1>2, <2>1 DEF StartBlocked
<1>3. CASE StartRefused
  BY <1>3 DEF StartRefused
<1>4. CASE EndSession
  BY <1>4 DEF EndSession
<1>5. CASE AnnouncePolicy
  BY <1>5 DEF AnnouncePolicy
<1>6. CASE PollSafetyFailure
  BY <1>6 DEF PollSafetyFailure
<1>7. CASE EndFaulted
  BY <1>7 DEF EndFaulted
<1>8. CASE EndEpisode
  BY <1>8 DEF EndEpisode
<1>9. CASE Takeover
  BY <1>9 DEF Takeover
<1>10. CASE Resume
  BY <1>10 DEF Resume
<1>11. CASE BumpEpoch
  BY <1>11 DEF BumpEpoch
<1>12. CASE Gravity
  <2>1. ArmTypeOK'
    BY <1>12 DEF Gravity, ArmTypeOK
  <2> QED
    BY <1>12, <2>1 DEF Gravity
<1>13. CASE GravityRaises
  <2>1. ArmTypeOK'
    <3>1. PICK off \in SUBSET Arms :
            latch' = [a \in Arms |-> IF a \in off THEN "locked" ELSE latch[a]]
      BY <1>13 DEF GravityRaises
    <3>2. lateEnable' = lateEnable
      BY <1>13 DEF GravityRaises
    <3> QED
      BY <3>1, <3>2 DEF ArmTypeOK
  <2>2. failures' \in Nat /\ UNCHANGED <<takeovers, signals>>
    BY <1>13 DEF GravityRaises
  <2>3. pc' \in Steps /\ hook' \in {"none", "start", "wait", "stop"} /\ path' \in Paths
    BY <1>13 DEF GravityRaises
  <2>4. /\ safetyFailure' \in BOOLEAN /\ interrupted' \in BOOLEAN
        /\ UNCHANGED <<state, controlEpoch, episode, active, lastEvent, episodes, firstEpoch, committed>>
    BY <1>13 DEF GravityRaises
  <2> QED
    BY <2>1, <2>2, <2>3, <2>4
<1>14. CASE ConcludeTakeover
  BY <1>14 DEF ConcludeTakeover
<1>15. CASE ConcludeStop
  BY <1>15 DEF ConcludeStop
<1>16. CASE ConcludeFault
  BY <1>16 DEF ConcludeFault
<1>17. CASE FinishEpisode
  BY <1>17 DEF FinishEpisode
<1>18. CASE CommitEpisode
  BY <1>18 DEF CommitEpisode
<1>19. CASE Interrupt
  BY <1>19 DEF Interrupt
<1>20. CASE InterruptGravity
  <2>1. ArmTypeOK'
    <3>1. PICK off \in SUBSET Arms :
            latch' = [a \in Arms |-> IF a \in off THEN "locked" ELSE latch[a]]
      BY <1>20 DEF InterruptGravity
    <3>2. lateEnable' = lateEnable
      BY <1>20 DEF InterruptGravity
    <3> QED
      BY <3>1, <3>2 DEF ArmTypeOK
  <2>2. signals' \in Nat /\ UNCHANGED <<takeovers, failures>>
    BY <1>20 DEF InterruptGravity
  <2>3. pc' \in Steps /\ hook' \in {"none", "start", "wait", "stop"} /\ path' \in Paths
    BY <1>20 DEF InterruptGravity
  <2>4. /\ safetyFailure' \in BOOLEAN /\ interrupted' \in BOOLEAN
        /\ UNCHANGED <<state, controlEpoch, episode, active, lastEvent, episodes, firstEpoch, committed>>
    BY <1>20 DEF InterruptGravity
  <2> QED
    BY <2>1, <2>2, <2>3, <2>4
<1>21. CASE InterruptFaultCall
  BY <1>21 DEF InterruptFaultCall
<1>22. CASE \E a \in Arms : EnableArrives(a)
  <2>1. ArmTypeOK'
    BY <1>22 DEF EnableArrives, ArmTypeOK
  <2> QED
    BY <1>22, <2>1 DEF EnableArrives
<1> QED
  BY <1>1, <1>2, <1>3, <1>4, <1>5, <1>6, <1>7, <1>8, <1>9, <1>10, <1>11,
     <1>12, <1>13, <1>14, <1>15, <1>16, <1>17, <1>18, <1>19, <1>20, <1>21, <1>22
  DEF SessionStep

(* enable_policy_control leaves every arm in one of its two states. *)
LEMMA EnableArmsType ==
    ASSUME ArmTypeOK, NEW on \in SUBSET Arms, NEW late \in SUBSET Arms, EnableArms(on, late)
    PROVE  ArmTypeOK'
  BY DEF EnableArms, ArmTypeOK
=============================================================================
