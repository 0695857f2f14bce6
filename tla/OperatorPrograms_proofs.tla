------------------------ MODULE OperatorPrograms_proofs ------------------------
(***************************************************************************)
(* The two programs an operator runs by hand.                              *)
(*                                                                         *)
(* Of InferCollection, for any number of Episodes, presses, commands,      *)
(* failures and signals: InferInv, kept part by part by every action, and  *)
(* the theorems that follow from it.                                       *)
(*                                                                         *)
(* Of CalibrationRun, for every route, any number of programs, failures    *)
(* and exceptions, and any arms: CalibrationInv, kept by every step, and   *)
(* from it HandsAreSafe, ObservationShowsItsPose and DiskIsWhole.          *)
(***************************************************************************)
EXTENDS InferCollectionInv, CalibrationRunInv, SequenceTheorems, TLAPS

-----------------------------------------------------------------------------
(* infer collection *)

(* What wait returns is one of four events. *)
LEMMA HeardType == Heard \in {"none", "right", "left", "conflict"}
  BY Zenon DEF Heard

(* The stage a press is made in. *)
LEMMA StageType ==
    /\ Stage \in {"ready", "running", "between"}
    /\ pc = "idle" /\ ~active => Stage = "ready"
    /\ pc # "idle" /\ active /\ runningArmed => Stage = "running"
<1>1. CASE pc = "idle" /\ ~active
  BY <1>1, Zenon DEF Stage
<1>2. CASE pc # "idle" /\ active /\ runningArmed
  BY <1>2, Zenon DEF Stage
<1>3. Stage \in {"ready", "running", "between"}
  BY Zenon DEF Stage
<1> QED
  BY <1>1, <1>2, <1>3

(* A report that wait takes leaves the buffer with what was behind it.     *)
LEMMA WaitReports ==
    ASSUME reports \in [Pedals -> Seq(Presses)], Wait
    PROVE  /\ reports' \in [Pedals -> Seq(Presses)]
           /\ Reports' \subseteq Reports
           /\ HeardPresses \subseteq Reports
<1>1. ASSUME NEW p \in Pedals, reports[p] # <<>>
      PROVE  /\ Head(reports[p]) \in {reports[p][i] : i \in DOMAIN reports[p]}
             /\ Tail(reports[p]) \in Seq(Presses)
             /\ \A i \in DOMAIN Tail(reports[p]) :
                   /\ i + 1 \in DOMAIN reports[p]
                   /\ Tail(reports[p])[i] = reports[p][i + 1]
  BY <1>1
<1>2. reports' \in [Pedals -> Seq(Presses)]
  BY <1>1 DEF Wait, Readable
<1>3. ASSUME NEW p \in Pedals, NEW i \in DOMAIN reports'[p]
      PROVE  reports'[p][i] \in {reports[p][j] : j \in DOMAIN reports[p]}
  <2>1. CASE reports[p] = <<>>
    BY <1>3, <2>1 DEF Wait, Readable
  <2>2. CASE reports[p] # <<>>
    BY <1>1, <1>3, <2>2 DEF Wait, Readable
  <2> QED
    BY <2>1, <2>2
<1>4. Reports' \subseteq Reports
  BY <1>3 DEF Reports
<1>5. HeardPresses \subseteq Reports
  BY <1>1 DEF HeardPresses, Readable, Reports
<1> QED
  BY <1>2, <1>4, <1>5

(* A press is appended to the buffer of its pedal. *)
LEMMA PressReports ==
    ASSUME reports \in [Pedals -> Seq(Presses)], NEW p \in Pedals, NEW made \in Presses,
           Press(p, made)
    PROVE  /\ reports' \in [Pedals -> Seq(Presses)]
           /\ Reports' \subseteq Reports \cup {made}
<1>1. reports' \in [Pedals -> Seq(Presses)]
  BY DEF Press
<1>2. ASSUME NEW q \in Pedals, NEW i \in DOMAIN reports'[q]
      PROVE  reports'[q][i] \in {made} \cup {reports[q][j] : j \in DOMAIN reports[q]}
  <2>1. CASE q # p
    BY <1>2, <2>1 DEF Press
  <2>2. CASE q = p
    <3>1. reports'[p] = Append(reports[p], made)
      BY DEF Press
    <3>2. CASE i = Len(reports[p]) + 1
      BY <2>2, <3>1, <3>2
    <3>3. CASE i \in 1..Len(reports[p])
      BY <2>2, <3>1, <3>3
    <3> QED
      BY <1>2, <2>2, <3>1, <3>2, <3>3
  <2> QED
    BY <2>1, <2>2
<1>3. Reports' \subseteq Reports \cup {made}
  BY <1>2 DEF Reports
<1> QED
  BY <1>1, <1>3

(* arm leaves nothing in the buffers. *)
LEMMA ArmReports ==
    ASSUME Arm
    PROVE  reports' \in [Pedals -> Seq(Presses)] /\ Reports' = {}
<1>1. \A p \in Pedals : reports'[p] = <<>>
  BY DEF Arm
<1>2. reports' \in [Pedals -> Seq(Presses)]
  BY DEF Arm
<1>3. Reports' = {}
  BY <1>1 DEF Reports
<1> QED
  BY <1>2, <1>3

(* Closing empties the buffers as well.                                    *)
LEMMA CloseReports ==
    ASSUME ClosePedals
    PROVE  reports' \in [Pedals -> Seq(Presses)]
<1>1. <<>> \in Seq(Presses)
  OBVIOUS
<1> QED
  BY <1>1 DEF ClosePedals

(* Type correctness of every step.                                         *)
LEMMA TypeStep ==
    ASSUME InferInv, [Next]_vars
    PROVE  InferTypeOK'
<1> USE DEF InferInv, InferTypeOK, Steps, Operated, Episodes, controllerVars, episodeVars,
    schedulerVars, commandVars, resultVars, envVars, pedalVars, healthVars, Works, Fails,
    Signalled
<1>1. CASE Ready
  <2>1. reports' \in [Pedals -> Seq(Presses)]
    BY <1>1, ArmReports DEF Ready
  <2>2. pc' \in Steps /\ runningArmed' \in BOOLEAN
    BY <1>1 DEF Ready, Go
  <2>3. UNCHANGED <<recorded, active, ready, stopError, episodeVars, schedulerVars,
                    commandVars, resultVars>>
    BY <1>1 DEF Ready
  <2> QED
    BY <2>1, <2>2, <2>3
<1>2. CASE WaitForStart
  <2>1. reports' \in [Pedals -> Seq(Presses)]
    BY <1>2, WaitReports DEF WaitForStart, Disarm
  <2>2. pc' \in Steps
    BY <1>2 DEF WaitForStart
  <2>3. UNCHANGED <<recorded, controllerVars, episode, event, outcome, schedulerVars,
                    commandVars, resultVars>>
    BY <1>2 DEF WaitForStart
  <2> QED
    BY <2>1, <2>2, <2>3
<1>3. CASE LastEpisode
  BY <1>3 DEF LastEpisode, Go
<1>4. CASE Home
  BY <1>4, InferAssumption DEF Home, Begins, BeginRefused, Go, StartMonitor, Disarm, ActiveInv
<1>5. CASE HomeUnrecorded
  BY <1>5, InferAssumption
     DEF HomeUnrecorded, Begins, BeginRefused, Go, StartMonitor, Disarm, ActiveInv
<1>6. CASE StartEpisode
  BY <1>6 DEF StartEpisode, Go, StartCommands
<1>7. CASE ArmRunning
  <2>1. reports' \in [Pedals -> Seq(Presses)]
    BY <1>7, ArmReports DEF ArmRunning
  <2>2. pc' \in Steps /\ outcome' \in {outcome, "blocked"} /\ runningArmed' \in BOOLEAN
    BY <1>7 DEF ArmRunning, End
  <2>3. UNCHANGED <<recorded, active, ready, stopError, episode, event, schedulerVars,
                    commandVars, resultVars>>
    BY <1>7 DEF ArmRunning
  <2> QED
    BY <2>1, <2>2, <2>3
<1>8. CASE CheckStreams
  BY <1>8 DEF CheckStreams, End
<1>9. CASE Poll
  <2>1. pc' \in Steps /\ ready' \in BOOLEAN /\ outcome' \in {outcome, "blocked"}
    BY <1>9 DEF Poll, End
  <2>2. gateOpen' \in {gateOpen, TRUE}
    BY <1>9, Zenon DEF Poll
  <2>3. UNCHANGED <<recorded, active, stopError, runningArmed, episode, event, interrupted,
                    startedBy, labelledBy, executor, commandVars, resultVars, pedalVars>>
    BY <1>9 DEF Poll
  <2>4. /\ reports' \in [Pedals -> Seq(Presses)]
        /\ commandCount' \in Nat /\ sent' \in [Episodes -> Nat] /\ logged' \in [Episodes -> Nat]
        /\ result' \in [Episodes -> {"none", "blocked", "success", "fail", "aborted"}]
        /\ count' \in [Episodes -> Nat] /\ failure' \in BOOLEAN
    BY <2>3
  <2>5. /\ recorded' \in BOOLEAN /\ episode' \in 0..MaxEpisodes /\ active' \in BOOLEAN
        /\ stopError' \in BOOLEAN /\ runningArmed' \in BOOLEAN
        /\ event' \in {"none", "right", "left", "conflict"}
    BY <2>3
  <2>6. /\ gateOpen' \in BOOLEAN
        /\ outcome' \in {"none", "blocked", "success", "fail", "aborted"}
    BY <2>1, <2>2
  <2> QED
    BY <2>1, <2>4, <2>5, <2>6
<1>10. CASE PolicyReady
  <2>1. pc' \in Steps /\ outcome' \in {outcome, "blocked"}
    BY <1>10 DEF PolicyReady, Go, End
  <2>2. ready' \in BOOLEAN
    BY <1>10, Zenon DEF PolicyReady
  <2>3. UNCHANGED <<recorded, active, stopError, runningArmed, episode, event, schedulerVars,
                    commandVars, resultVars, pedalVars>>
    BY <1>10 DEF PolicyReady
  <2> QED
    BY <2>1, <2>2, <2>3
<1>11. CASE Discard
  <2>1. reports' \in [Pedals -> Seq(Presses)]
    BY <1>11, WaitReports DEF Discard
  <2>2. pc' \in Steps /\ outcome' \in {outcome, "blocked"}
    BY <1>11 DEF Discard, Go, End
  <2>3. UNCHANGED <<recorded, controllerVars, episode, event, schedulerVars, commandVars,
                    resultVars>>
    BY <1>11 DEF Discard
  <2> QED
    BY <2>1, <2>2, <2>3
<1>12. CASE ListenForLabel
  <2>1. reports' \in [Pedals -> Seq(Presses)]
    BY <1>12, ArmReports DEF ListenForLabel
  <2>2. pc' \in Steps /\ outcome' \in {outcome, "blocked"}
    BY <1>12 DEF ListenForLabel, Go, End
  <2>3. runningArmed' \in BOOLEAN
    BY <1>12, Zenon DEF ListenForLabel
  <2>4. UNCHANGED <<recorded, active, ready, stopError, episode, event, schedulerVars,
                    commandVars, resultVars>>
    BY <1>12 DEF ListenForLabel
  <2> QED
    BY <2>1, <2>2, <2>3, <2>4
<1>13. CASE Announce
  BY <1>13 DEF Announce, Go
<1>14. CASE HearLabel
  <2>1. CASE Wait
    <3>1. reports' \in [Pedals -> Seq(Presses)]
      BY <2>1, WaitReports
    <3> QED
      BY <1>14, <3>1, HeardType DEF HearLabel, End
  <2>2. CASE UNCHANGED pedalVars
    BY <1>14, <2>2, HeardType DEF HearLabel, End
  <2> QED
    BY <1>14, <2>1, <2>2 DEF HearLabel
<1>15. CASE PollAgain
  BY <1>15 DEF PollAgain, End
<1>16. CASE CloseGate
  BY <1>16 DEF CloseGate, Go
<1>17. CASE Close
  BY <1>17 DEF Close, End
<1>18. CASE Verdict
  <2>1. Label[event] \in {"success", "fail", "aborted"}
    BY <1>18 DEF Verdict, EventInv, Label
  <2> QED
    BY <1>18, <2>1 DEF Verdict, End
<1>19. CASE StopEpisode
  BY <1>19 DEF StopEpisode, Disarm, CloseIfActive, StopMonitor
<1>20. CASE CleanUp
  <2>1. pc' \in Steps /\ active' \in BOOLEAN /\ ready' \in BOOLEAN /\ gateOpen' \in BOOLEAN
    BY <1>20 DEF CleanUp, CloseIfActive
  <2>2. UNCHANGED <<recorded, stopError, runningArmed, episodeVars, commandVars, resultVars,
                    reports>>
    BY <1>20 DEF CleanUp, Disarm
  <2> QED
    BY <2>1, <2>2
<1>21. CASE Commit
  BY <1>21 DEF Commit, Go
<1>22. CASE Leave
  <2>1. reports' \in [Pedals -> Seq(Presses)]
    BY <1>22, CloseReports DEF Leave
  <2> QED
    BY <1>22, <2>1 DEF Leave, Go, CloseIfActive, ClosePedals
<1>23. CASE Publish
  <2>1. episode \in Episodes
    BY <1>23 DEF Publish, GateInv, ActiveInv, Episodes
  <2>2. CASE PublishWorks
    BY <1>23, <2>1, <2>2 DEF Publish, PublishWorks, Sent, Logged, ExecutorOnly
  <2>3. CASE PublishFails
    <3>1. commandCount' \in Nat /\ sent' \in [Episodes -> Nat] /\ failure' \in BOOLEAN
      BY <2>1, <2>3 DEF PublishFails, Sent
    <3>2. UNCHANGED <<recorded, pc, controllerVars, episodeVars, resultVars, pedalVars, gateOpen,
                      logged>>
      BY <1>23, <2>3 DEF Publish, PublishFails, ExecutorOnly
    <3> QED
      BY <3>1, <3>2
  <2> QED
    BY <1>23, <2>2, <2>3 DEF Publish
<1>24. CASE ExecutorRaises
  BY <1>24 DEF ExecutorRaises, ExecutorOnly
<1>25. CASE Prefetch
  BY <1>25 DEF Prefetch, ExecutorOnly
<1>26. CASE Accept
  BY <1>26 DEF Accept, ExecutorOnly
<1>27. CASE Accepted
  <2>1. gateOpen' \in BOOLEAN
    BY <1>27, Zenon DEF Accepted
  <2>2. UNCHANGED <<commandVars, recorded, pc, controllerVars, episodeVars, resultVars, pedalVars>>
    BY <1>27 DEF Accepted, ExecutorOnly
  <2> QED
    BY <2>1, <2>2
<1>28. CASE Fail
  <2>1. gateOpen' \in BOOLEAN
    BY <1>28, Zenon DEF Fail
  <2>2. UNCHANGED <<commandVars, recorded, pc, controllerVars, episodeVars, resultVars, pedalVars>>
    BY <1>28 DEF Fail, ExecutorOnly
  <2> QED
    BY <2>1, <2>2
<1>29. CASE InferenceDone
  BY <1>29 DEF InferenceDone, ExecutorOnly
<1>30. CASE Pressed
  <2>1. PICK p \in Pedals : Press(p, [episode |-> episode, stage |-> Stage])
    BY <1>30 DEF Pressed
  <2>2. [episode |-> episode, stage |-> Stage] \in Presses
    BY StageType DEF Presses
  <2>3. reports' \in [Pedals -> Seq(Presses)]
    BY <2>1, <2>2, PressReports
  <2> QED
    BY <1>30, <2>3 DEF Pressed
<1>31. CASE Settled
  BY <1>31 DEF Settled, SettlePedal
<1>32. CASE Telemetry
  BY <1>32 DEF Telemetry, TelemetryStops, Sample
<1>33. CASE InterruptEpisode
  BY <1>33 DEF InterruptEpisode, End
<1>34. CASE InterruptSession
  BY <1>34 DEF InterruptSession
<1>35. CASE UNCHANGED vars
  BY <1>35 DEF vars
<1> QED
  BY <1>1, <1>2, <1>3, <1>4, <1>5, <1>6, <1>7, <1>8, <1>9, <1>10, <1>11, <1>12, <1>13,
     <1>14, <1>15, <1>16, <1>17, <1>18, <1>19, <1>20, <1>21, <1>22, <1>23, <1>24, <1>25,
     <1>26, <1>27, <1>28, <1>29, <1>30, <1>31, <1>32, <1>33, <1>34,
     <1>35 DEF Next, SessionThread, Executor

(* Where the controller is active.                                         *)
LEMMA ActiveStep ==
    ASSUME InferInv, [Next]_vars
    PROVE  ActiveInv'
<1> USE DEF InferInv, InferTypeOK, Steps, Operated, Episodes, ActiveInv, controllerVars,
    episodeVars, schedulerVars, commandVars, resultVars, envVars, pedalVars, healthVars,
    Works, Fails, Signalled
<1>1. CASE Ready
  BY <1>1 DEF Ready, Go, Arm
<1>2. CASE WaitForStart
  BY <1>2 DEF WaitForStart, Wait, Disarm
<1>3. CASE LastEpisode
  BY <1>3 DEF LastEpisode, Go
<1>4. CASE Home
  BY <1>4 DEF Home, Begins, BeginRefused, Go, StartMonitor, Disarm
<1>5. CASE HomeUnrecorded
  BY <1>5 DEF HomeUnrecorded, Begins, BeginRefused, Go, StartMonitor, Disarm
<1>6. CASE StartEpisode
  BY <1>6 DEF StartEpisode, Go, StartCommands
<1>7. CASE ArmRunning
  BY <1>7 DEF ArmRunning, Go, End, Arm
<1>8. CASE CheckStreams
  BY <1>8 DEF CheckStreams, End
<1>9. CASE Poll
  BY <1>9 DEF Poll, End
<1>10. CASE PolicyReady
  BY <1>10 DEF PolicyReady, Go, End
<1>11. CASE Discard
  BY <1>11 DEF Discard, Go, End, Wait
<1>12. CASE ListenForLabel
  BY <1>12 DEF ListenForLabel, Go, End, Arm
<1>13. CASE Announce
  BY <1>13 DEF Announce, Go
<1>14. CASE HearLabel
  BY <1>14 DEF HearLabel, End, Wait
<1>15. CASE PollAgain
  BY <1>15 DEF PollAgain, End
<1>16. CASE CloseGate
  BY <1>16 DEF CloseGate, Go
<1>17. CASE Close
  BY <1>17 DEF Close, End
<1>18. CASE Verdict
  BY <1>18 DEF Verdict, End
<1>19. CASE StopEpisode
  BY <1>19 DEF StopEpisode, Disarm, CloseIfActive, StopMonitor
<1>20. CASE CleanUp
  BY <1>20 DEF CleanUp, Disarm, CloseIfActive, StopMonitor
<1>21. CASE Commit
  BY <1>21 DEF Commit, Go
<1>22. CASE Leave
  BY <1>22 DEF Leave, Go, CloseIfActive, ClosePedals
<1>23. CASE Publish
  BY <1>23 DEF Publish, ExecutorOnly, PublishWorks, PublishFails, Sent, Logged
<1>24. CASE ExecutorRaises
  BY <1>24 DEF ExecutorRaises, ExecutorOnly
<1>25. CASE Prefetch
  BY <1>25 DEF Prefetch, ExecutorOnly
<1>26. CASE Accept
  BY <1>26 DEF Accept, ExecutorOnly
<1>27. CASE Accepted
  BY <1>27 DEF Accepted, ExecutorOnly
<1>28. CASE Fail
  BY <1>28 DEF Fail, ExecutorOnly
<1>29. CASE InferenceDone
  BY <1>29 DEF InferenceDone, ExecutorOnly
<1>30. CASE Pressed
  BY <1>30 DEF Pressed, Press
<1>31. CASE Settled
  BY <1>31 DEF Settled, SettlePedal
<1>32. CASE Telemetry
  BY <1>32 DEF Telemetry, TelemetryStops, Sample
<1>33. CASE InterruptEpisode
  BY <1>33 DEF InterruptEpisode, End
<1>34. CASE InterruptSession
  BY <1>34 DEF InterruptSession
<1>35. CASE UNCHANGED vars
  BY <1>35 DEF vars
<1> QED
  BY <1>1, <1>2, <1>3, <1>4, <1>5, <1>6, <1>7, <1>8, <1>9, <1>10, <1>11, <1>12, <1>13,
     <1>14, <1>15, <1>16, <1>17, <1>18, <1>19, <1>20, <1>21, <1>22, <1>23, <1>24, <1>25,
     <1>26, <1>27, <1>28, <1>29, <1>30, <1>31, <1>32, <1>33, <1>34,
     <1>35 DEF Next, SessionThread, Executor

(* Where the gate is open.                                                 *)
LEMMA GateStep ==
    ASSUME InferInv, [Next]_vars
    PROVE  GateInv'
<1> USE DEF InferInv, InferTypeOK, Steps, Operated, ActiveInv, GateInv, controllerVars,
    episodeVars, schedulerVars, commandVars, resultVars, envVars, pedalVars, healthVars,
    Works, Fails, Signalled
<1>1. CASE Ready
  BY <1>1 DEF Ready, Go, Arm
<1>2. CASE WaitForStart
  BY <1>2 DEF WaitForStart, Wait, Disarm
<1>3. CASE LastEpisode
  BY <1>3 DEF LastEpisode, Go
<1>4. CASE Home
  BY <1>4 DEF Home, Begins, BeginRefused, Go, StartMonitor, Disarm
<1>5. CASE HomeUnrecorded
  BY <1>5 DEF HomeUnrecorded, Begins, BeginRefused, Go, StartMonitor, Disarm
<1>6. CASE StartEpisode
  BY <1>6 DEF StartEpisode, Go, StartCommands
<1>7. CASE ArmRunning
  BY <1>7 DEF ArmRunning, Go, End, Arm
<1>8. CASE CheckStreams
  BY <1>8 DEF CheckStreams, End
<1>9. CASE Poll
  BY <1>9 DEF Poll, End
<1>10. CASE PolicyReady
  BY <1>10 DEF PolicyReady, Go, End
<1>11. CASE Discard
  BY <1>11 DEF Discard, Go, End, Wait
<1>12. CASE ListenForLabel
  BY <1>12 DEF ListenForLabel, Go, End, Arm
<1>13. CASE Announce
  BY <1>13 DEF Announce, Go
<1>14. CASE HearLabel
  BY <1>14 DEF HearLabel, End, Wait
<1>15. CASE PollAgain
  BY <1>15 DEF PollAgain, End
<1>16. CASE CloseGate
  BY <1>16 DEF CloseGate, Go
<1>17. CASE Close
  BY <1>17 DEF Close, End
<1>18. CASE Verdict
  BY <1>18 DEF Verdict, End
<1>19. CASE StopEpisode
  BY <1>19 DEF StopEpisode, Disarm, CloseIfActive, StopMonitor
<1>20. CASE CleanUp
  BY <1>20 DEF CleanUp, Disarm, CloseIfActive, StopMonitor
<1>21. CASE Commit
  BY <1>21 DEF Commit, Go
<1>22. CASE Leave
  BY <1>22 DEF Leave, Go, CloseIfActive, ClosePedals
<1>23. CASE Publish
  BY <1>23 DEF Publish, ExecutorOnly, PublishWorks, PublishFails, Sent, Logged
<1>24. CASE ExecutorRaises
  BY <1>24 DEF ExecutorRaises, ExecutorOnly
<1>25. CASE Prefetch
  BY <1>25 DEF Prefetch, ExecutorOnly
<1>26. CASE Accept
  BY <1>26 DEF Accept, ExecutorOnly
<1>27. CASE Accepted
  BY <1>27 DEF Accepted, ExecutorOnly
<1>28. CASE Fail
  BY <1>28 DEF Fail, ExecutorOnly
<1>29. CASE InferenceDone
  BY <1>29 DEF InferenceDone, ExecutorOnly
<1>30. CASE Pressed
  BY <1>30 DEF Pressed, Press
<1>31. CASE Settled
  BY <1>31 DEF Settled, SettlePedal
<1>32. CASE Telemetry
  BY <1>32 DEF Telemetry, TelemetryStops, Sample
<1>33. CASE InterruptEpisode
  BY <1>33 DEF InterruptEpisode, End
<1>34. CASE InterruptSession
  BY <1>34 DEF InterruptSession
<1>35. CASE UNCHANGED vars
  BY <1>35 DEF vars
<1> QED
  BY <1>1, <1>2, <1>3, <1>4, <1>5, <1>6, <1>7, <1>8, <1>9, <1>10, <1>11, <1>12, <1>13,
     <1>14, <1>15, <1>16, <1>17, <1>18, <1>19, <1>20, <1>21, <1>22, <1>23, <1>24, <1>25,
     <1>26, <1>27, <1>28, <1>29, <1>30, <1>31, <1>32, <1>33, <1>34,
     <1>35 DEF Next, SessionThread, Executor

(* A label is given for an event.                                          *)
LEMMA EventStep ==
    ASSUME InferInv, [Next]_vars
    PROVE  EventInv'
<1> USE DEF InferInv, InferTypeOK, Steps, Operated, EventInv, controllerVars, episodeVars,
    schedulerVars, commandVars, resultVars, envVars, pedalVars, healthVars, Works, Fails,
    Signalled
<1>1. CASE Ready
  BY <1>1 DEF Ready, Go, Arm
<1>2. CASE WaitForStart
  BY <1>2 DEF WaitForStart, Wait, Disarm
<1>3. CASE LastEpisode
  BY <1>3 DEF LastEpisode, Go
<1>4. CASE Home
  BY <1>4 DEF Home, Begins, BeginRefused, Go, StartMonitor, Disarm
<1>5. CASE HomeUnrecorded
  BY <1>5 DEF HomeUnrecorded, Begins, BeginRefused, Go, StartMonitor, Disarm
<1>6. CASE StartEpisode
  BY <1>6 DEF StartEpisode, Go, StartCommands
<1>7. CASE ArmRunning
  BY <1>7 DEF ArmRunning, Go, End, Arm
<1>8. CASE CheckStreams
  BY <1>8 DEF CheckStreams, End
<1>9. CASE Poll
  BY <1>9 DEF Poll, End
<1>10. CASE PolicyReady
  BY <1>10 DEF PolicyReady, Go, End
<1>11. CASE Discard
  BY <1>11 DEF Discard, Go, End, Wait
<1>12. CASE ListenForLabel
  BY <1>12 DEF ListenForLabel, Go, End, Arm
<1>13. CASE Announce
  BY <1>13 DEF Announce, Go
<1>14. CASE HearLabel
  BY <1>14 DEF HearLabel, End, Wait
<1>15. CASE PollAgain
  BY <1>15 DEF PollAgain, End
<1>16. CASE CloseGate
  BY <1>16 DEF CloseGate, Go
<1>17. CASE Close
  BY <1>17 DEF Close, End
<1>18. CASE Verdict
  BY <1>18 DEF Verdict, End
<1>19. CASE StopEpisode
  BY <1>19 DEF StopEpisode, Disarm, CloseIfActive, StopMonitor
<1>20. CASE CleanUp
  BY <1>20 DEF CleanUp, Disarm, CloseIfActive, StopMonitor
<1>21. CASE Commit
  BY <1>21 DEF Commit, Go
<1>22. CASE Leave
  BY <1>22 DEF Leave, Go, CloseIfActive, ClosePedals
<1>23. CASE Publish
  BY <1>23 DEF Publish, ExecutorOnly, PublishWorks, PublishFails, Sent, Logged
<1>24. CASE ExecutorRaises
  BY <1>24 DEF ExecutorRaises, ExecutorOnly
<1>25. CASE Prefetch
  BY <1>25 DEF Prefetch, ExecutorOnly
<1>26. CASE Accept
  BY <1>26 DEF Accept, ExecutorOnly
<1>27. CASE Accepted
  BY <1>27 DEF Accepted, ExecutorOnly
<1>28. CASE Fail
  BY <1>28 DEF Fail, ExecutorOnly
<1>29. CASE InferenceDone
  BY <1>29 DEF InferenceDone, ExecutorOnly
<1>30. CASE Pressed
  BY <1>30 DEF Pressed, Press
<1>31. CASE Settled
  BY <1>31 DEF Settled, SettlePedal
<1>32. CASE Telemetry
  BY <1>32 DEF Telemetry, TelemetryStops, Sample
<1>33. CASE InterruptEpisode
  BY <1>33 DEF InterruptEpisode, End
<1>34. CASE InterruptSession
  BY <1>34 DEF InterruptSession
<1>35. CASE UNCHANGED vars
  BY <1>35 DEF vars
<1> QED
  BY <1>1, <1>2, <1>3, <1>4, <1>5, <1>6, <1>7, <1>8, <1>9, <1>10, <1>11, <1>12, <1>13,
     <1>14, <1>15, <1>16, <1>17, <1>18, <1>19, <1>20, <1>21, <1>22, <1>23, <1>24, <1>25,
     <1>26, <1>27, <1>28, <1>29, <1>30, <1>31, <1>32, <1>33, <1>34,
     <1>35 DEF Next, SessionThread, Executor

(* Where the running trigger is armed.                                     *)
LEMMA ReadyStep ==
    ASSUME InferInv, [Next]_vars
    PROVE  ReadyInv'
<1> USE DEF InferInv, InferTypeOK, Steps, Operated, ActiveInv, ReadyInv, controllerVars,
    episodeVars, schedulerVars, commandVars, resultVars, envVars, pedalVars, healthVars,
    Works, Fails, Signalled
<1>1. CASE Ready
  BY <1>1 DEF Ready, Go, Arm
<1>2. CASE WaitForStart
  BY <1>2 DEF WaitForStart, Wait, Disarm
<1>3. CASE LastEpisode
  BY <1>3 DEF LastEpisode, Go
<1>4. CASE Home
  BY <1>4 DEF Home, Begins, BeginRefused, Go, StartMonitor, Disarm
<1>5. CASE HomeUnrecorded
  BY <1>5 DEF HomeUnrecorded, Begins, BeginRefused, Go, StartMonitor, Disarm
<1>6. CASE StartEpisode
  BY <1>6 DEF StartEpisode, Go, StartCommands
<1>7. CASE ArmRunning
  BY <1>7 DEF ArmRunning, Go, End, Arm
<1>8. CASE CheckStreams
  BY <1>8 DEF CheckStreams, End
<1>9. CASE Poll
  BY <1>9 DEF Poll, End
<1>10. CASE PolicyReady
  BY <1>10 DEF PolicyReady, Go, End
<1>11. CASE Discard
  BY <1>11 DEF Discard, Go, End, Wait
<1>12. CASE ListenForLabel
  BY <1>12 DEF ListenForLabel, Go, End, Arm
<1>13. CASE Announce
  BY <1>13 DEF Announce, Go
<1>14. CASE HearLabel
  BY <1>14 DEF HearLabel, End, Wait
<1>15. CASE PollAgain
  BY <1>15 DEF PollAgain, End
<1>16. CASE CloseGate
  BY <1>16 DEF CloseGate, Go
<1>17. CASE Close
  BY <1>17 DEF Close, End
<1>18. CASE Verdict
  BY <1>18 DEF Verdict, End
<1>19. CASE StopEpisode
  BY <1>19 DEF StopEpisode, Disarm, CloseIfActive, StopMonitor
<1>20. CASE CleanUp
  BY <1>20 DEF CleanUp, Disarm, CloseIfActive, StopMonitor
<1>21. CASE Commit
  BY <1>21 DEF Commit, Go
<1>22. CASE Leave
  BY <1>22 DEF Leave, Go, CloseIfActive, ClosePedals
<1>23. CASE Publish
  BY <1>23 DEF Publish, ExecutorOnly, PublishWorks, PublishFails, Sent, Logged
<1>24. CASE ExecutorRaises
  BY <1>24 DEF ExecutorRaises, ExecutorOnly
<1>25. CASE Prefetch
  BY <1>25 DEF Prefetch, ExecutorOnly
<1>26. CASE Accept
  BY <1>26 DEF Accept, ExecutorOnly
<1>27. CASE Accepted
  BY <1>27 DEF Accepted, ExecutorOnly
<1>28. CASE Fail
  BY <1>28 DEF Fail, ExecutorOnly
<1>29. CASE InferenceDone
  BY <1>29 DEF InferenceDone, ExecutorOnly
<1>30. CASE Pressed
  BY <1>30 DEF Pressed, Press
<1>31. CASE Settled
  BY <1>31 DEF Settled, SettlePedal
<1>32. CASE Telemetry
  BY <1>32 DEF Telemetry, TelemetryStops, Sample
<1>33. CASE InterruptEpisode
  BY <1>33 DEF InterruptEpisode, End
<1>34. CASE InterruptSession
  BY <1>34 DEF InterruptSession
<1>35. CASE UNCHANGED vars
  BY <1>35 DEF vars
<1> QED
  BY <1>1, <1>2, <1>3, <1>4, <1>5, <1>6, <1>7, <1>8, <1>9, <1>10, <1>11, <1>12, <1>13,
     <1>14, <1>15, <1>16, <1>17, <1>18, <1>19, <1>20, <1>21, <1>22, <1>23, <1>24, <1>25,
     <1>26, <1>27, <1>28, <1>29, <1>30, <1>31, <1>32, <1>33, <1>34,
     <1>35 DEF Next, SessionThread, Executor

(* What is buffered while a press means something.                         *)
LEMMA BufferStep ==
    ASSUME InferInv, [Next]_vars
    PROVE  BufferInv'
<1> USE DEF InferInv, InferTypeOK, Steps, Operated, ActiveInv, GateInv, ReadyInv, BufferInv,
    controllerVars, episodeVars, schedulerVars, commandVars, resultVars, envVars, pedalVars,
    healthVars, Works, Fails, Signalled
<1>1. CASE Ready
  <2>1. CASE Arm
    <3>1. Reports' = {}
      BY <2>1, ArmReports
    <3> QED
      BY <1>1, <3>1 DEF Ready, Go
  <2>2. CASE pc' = "leaving"
    BY <1>1, <2>2 DEF Ready
  <2> QED
    BY <1>1, <2>1, <2>2 DEF Ready, Go
<1>2. CASE WaitForStart
  <2>1. Reports' \subseteq Reports
    <3>1. CASE Wait
      BY <3>1, WaitReports
    <3>2. CASE Disarm
      BY <3>2 DEF Disarm, Reports
    <3> QED
      BY <1>2, <3>1, <3>2 DEF WaitForStart
  <2> QED
    BY <1>2, <2>1 DEF WaitForStart
<1>3. CASE LastEpisode
  <2>1. UNCHANGED reports
    BY <1>3 DEF LastEpisode, Go
  <2>2. Reports' = Reports
    BY <2>1 DEF Reports
  <2> QED
    BY <1>3, <2>2 DEF LastEpisode, Go
<1>4. CASE Home
  <2>1. UNCHANGED reports
    BY <1>4 DEF Home, Begins, BeginRefused, Go, StartMonitor, Disarm
  <2>2. Reports' = Reports
    BY <2>1 DEF Reports
  <2> QED
    BY <1>4, <2>2 DEF Home, Begins, BeginRefused, Go, StartMonitor, Disarm
<1>5. CASE HomeUnrecorded
  <2>1. UNCHANGED reports
    BY <1>5 DEF HomeUnrecorded, Begins, BeginRefused, Go, StartMonitor, Disarm
  <2>2. Reports' = Reports
    BY <2>1 DEF Reports
  <2> QED
    BY <1>5, <2>2 DEF HomeUnrecorded, Begins, BeginRefused, Go, StartMonitor, Disarm
<1>6. CASE StartEpisode
  <2>1. UNCHANGED reports
    BY <1>6 DEF StartEpisode, Go, StartCommands
  <2>2. Reports' = Reports
    BY <2>1 DEF Reports
  <2> QED
    BY <1>6, <2>2 DEF StartEpisode, Go, StartCommands
<1>7. CASE ArmRunning
  <2>1. ~runningArmed' /\ pc' # "idle"
    BY <1>7 DEF ArmRunning, End
  <2> QED
    BY <2>1
<1>8. CASE CheckStreams
  <2>1. UNCHANGED reports
    BY <1>8 DEF CheckStreams, End
  <2>2. Reports' = Reports
    BY <2>1 DEF Reports
  <2> QED
    BY <1>8, <2>2 DEF CheckStreams, End
<1>9. CASE Poll
  <2>1. UNCHANGED reports
    BY <1>9 DEF Poll, End
  <2>2. Reports' = Reports
    BY <2>1 DEF Reports
  <2> QED
    BY <1>9, <2>2 DEF Poll, End
<1>10. CASE PolicyReady
  <2>1. UNCHANGED reports
    BY <1>10 DEF PolicyReady, Go, End
  <2>2. Reports' = Reports
    BY <2>1 DEF Reports
  <2> QED
    BY <1>10, <2>2 DEF PolicyReady, Go, End
<1>11. CASE Discard
  <2>1. Reports' \subseteq Reports
    <3>1. CASE Wait
      BY <3>1, WaitReports
    <3>2. CASE UNCHANGED pedalVars
      BY <3>2 DEF Reports
    <3> QED
      BY <1>11, <3>1, <3>2 DEF Discard
  <2> QED
    BY <1>11, <2>1 DEF Discard, Go, End
<1>12. CASE ListenForLabel
  <2>1. CASE Arm
    BY <1>12, <2>1, ArmReports DEF ListenForLabel, Go, End
  <2>2. CASE UNCHANGED <<runningArmed, pedalVars>>
    <3>1. Reports' = Reports
      BY <2>2 DEF Reports
    <3> QED
      BY <1>12, <2>2, <3>1 DEF ListenForLabel, Go, End
  <2> QED
    BY <1>12, <2>1, <2>2 DEF ListenForLabel
<1>13. CASE Announce
  <2>1. UNCHANGED reports
    BY <1>13 DEF Announce, Go
  <2>2. Reports' = Reports
    BY <2>1 DEF Reports
  <2> QED
    BY <1>13, <2>2 DEF Announce, Go
<1>14. CASE HearLabel
  <2>1. Reports' \subseteq Reports
    <3>1. CASE Wait
      BY <3>1, WaitReports
    <3>2. CASE UNCHANGED pedalVars
      BY <3>2 DEF Reports
    <3> QED
      BY <1>14, <3>1, <3>2 DEF HearLabel
  <2> QED
    BY <1>14, <2>1 DEF HearLabel, End
<1>15. CASE PollAgain
  <2>1. UNCHANGED reports
    BY <1>15 DEF PollAgain, End
  <2>2. Reports' = Reports
    BY <2>1 DEF Reports
  <2> QED
    BY <1>15, <2>2 DEF PollAgain, End
<1>16. CASE CloseGate
  <2>1. UNCHANGED reports
    BY <1>16 DEF CloseGate, Go
  <2>2. Reports' = Reports
    BY <2>1 DEF Reports
  <2> QED
    BY <1>16, <2>2 DEF CloseGate, Go
<1>17. CASE Close
  <2>1. UNCHANGED reports
    BY <1>17 DEF Close, End
  <2>2. Reports' = Reports
    BY <2>1 DEF Reports
  <2> QED
    BY <1>17, <2>2 DEF Close, End
<1>18. CASE Verdict
  <2>1. UNCHANGED reports
    BY <1>18 DEF Verdict, End
  <2>2. Reports' = Reports
    BY <2>1 DEF Reports
  <2> QED
    BY <1>18, <2>2 DEF Verdict, End
<1>19. CASE StopEpisode
  <2>1. UNCHANGED reports
    BY <1>19 DEF StopEpisode, Disarm, CloseIfActive, StopMonitor
  <2>2. Reports' = Reports
    BY <2>1 DEF Reports
  <2> QED
    BY <1>19, <2>2 DEF StopEpisode, Disarm, CloseIfActive, StopMonitor
<1>20. CASE CleanUp
  <2>1. UNCHANGED reports
    BY <1>20 DEF CleanUp, Disarm, CloseIfActive, StopMonitor
  <2>2. Reports' = Reports
    BY <2>1 DEF Reports
  <2> QED
    BY <1>20, <2>2 DEF CleanUp, Disarm, CloseIfActive, StopMonitor
<1>21. CASE Commit
  <2>1. UNCHANGED reports
    BY <1>21 DEF Commit, Go
  <2>2. Reports' = Reports
    BY <2>1 DEF Reports
  <2> QED
    BY <1>21, <2>2 DEF Commit, Go
<1>22. CASE Leave
  <2>1. pc' = "over" /\ active' = FALSE
    BY <1>22 DEF Leave, Go, CloseIfActive
  <2> QED
    BY <2>1
<1>23. CASE Publish
  <2>1. UNCHANGED reports
    BY <1>23 DEF Publish, ExecutorOnly, PublishWorks, PublishFails, Sent, Logged
  <2>2. Reports' = Reports
    BY <2>1 DEF Reports
  <2> QED
    BY <1>23, <2>2 DEF Publish, ExecutorOnly, PublishWorks, PublishFails, Sent, Logged
<1>24. CASE ExecutorRaises
  <2>1. UNCHANGED reports
    BY <1>24 DEF ExecutorRaises, ExecutorOnly
  <2>2. Reports' = Reports
    BY <2>1 DEF Reports
  <2> QED
    BY <1>24, <2>2 DEF ExecutorRaises, ExecutorOnly
<1>25. CASE Prefetch
  <2>1. UNCHANGED reports
    BY <1>25 DEF Prefetch, ExecutorOnly
  <2>2. Reports' = Reports
    BY <2>1 DEF Reports
  <2> QED
    BY <1>25, <2>2 DEF Prefetch, ExecutorOnly
<1>26. CASE Accept
  <2>1. UNCHANGED reports
    BY <1>26 DEF Accept, ExecutorOnly
  <2>2. Reports' = Reports
    BY <2>1 DEF Reports
  <2> QED
    BY <1>26, <2>2 DEF Accept, ExecutorOnly
<1>27. CASE Accepted
  <2>1. UNCHANGED reports
    BY <1>27 DEF Accepted, ExecutorOnly
  <2>2. Reports' = Reports
    BY <2>1 DEF Reports
  <2> QED
    BY <1>27, <2>2 DEF Accepted, ExecutorOnly
<1>28. CASE Fail
  <2>1. UNCHANGED reports
    BY <1>28 DEF Fail, ExecutorOnly
  <2>2. Reports' = Reports
    BY <2>1 DEF Reports
  <2> QED
    BY <1>28, <2>2 DEF Fail, ExecutorOnly
<1>29. CASE InferenceDone
  <2>1. UNCHANGED reports
    BY <1>29 DEF InferenceDone, ExecutorOnly
  <2>2. Reports' = Reports
    BY <2>1 DEF Reports
  <2> QED
    BY <1>29, <2>2 DEF InferenceDone, ExecutorOnly
<1>30. CASE Pressed
  <2>1. PICK p \in Pedals : Press(p, [episode |-> episode, stage |-> Stage])
    BY <1>30 DEF Pressed
  <2>2. [episode |-> episode, stage |-> Stage] \in Presses
    BY StageType DEF Presses
  <2>3. Reports' \subseteq Reports \cup {[episode |-> episode, stage |-> Stage]}
    BY <2>1, <2>2, PressReports
  <2>4. UNCHANGED <<pc, episode, active, runningArmed>>
    BY <1>30 DEF Pressed
  <2>5. CASE pc = "idle"
    BY <2>3, <2>4, <2>5, StageType
  <2>6. CASE pc # "idle"
    BY <2>3, <2>4, <2>6, StageType
  <2> QED
    BY <2>5, <2>6
<1>31. CASE Settled
  <2>1. UNCHANGED reports
    BY <1>31 DEF Settled, SettlePedal
  <2>2. Reports' = Reports
    BY <2>1 DEF Reports
  <2> QED
    BY <1>31, <2>2 DEF Settled, SettlePedal
<1>32. CASE Telemetry
  <2>1. UNCHANGED reports
    BY <1>32 DEF Telemetry, TelemetryStops, Sample
  <2>2. Reports' = Reports
    BY <2>1 DEF Reports
  <2> QED
    BY <1>32, <2>2 DEF Telemetry, TelemetryStops, Sample
<1>33. CASE InterruptEpisode
  <2>1. UNCHANGED reports
    BY <1>33 DEF InterruptEpisode, End
  <2>2. Reports' = Reports
    BY <2>1 DEF Reports
  <2> QED
    BY <1>33, <2>2 DEF InterruptEpisode, End
<1>34. CASE InterruptSession
  <2>1. UNCHANGED reports
    BY <1>34 DEF InterruptSession
  <2>2. Reports' = Reports
    BY <2>1 DEF Reports
  <2> QED
    BY <1>34, <2>2 DEF InterruptSession
<1>35. CASE UNCHANGED vars
  BY <1>35 DEF vars, Reports
<1> QED
  BY <1>1, <1>2, <1>3, <1>4, <1>5, <1>6, <1>7, <1>8, <1>9, <1>10, <1>11, <1>12, <1>13,
     <1>14, <1>15, <1>16, <1>17, <1>18, <1>19, <1>20, <1>21, <1>22, <1>23, <1>24, <1>25,
     <1>26, <1>27, <1>28, <1>29, <1>30, <1>31, <1>32, <1>33, <1>34,
     <1>35 DEF Next, SessionThread, Executor

(* What starts an Episode.                                                 *)
LEMMA StartedStep ==
    ASSUME InferInv, [Next]_vars
    PROVE  StartedInv'
<1> USE DEF InferInv, InferTypeOK, Steps, Operated, StartedInv, controllerVars, episodeVars,
    schedulerVars, commandVars, resultVars, envVars, pedalVars, healthVars, Works, Fails,
    Signalled
<1>1. CASE Ready
  BY <1>1 DEF Ready, Go, Arm
<1>2. CASE WaitForStart
  BY <1>2, WaitReports DEF WaitForStart, BufferInv
<1>3. CASE LastEpisode
  BY <1>3 DEF LastEpisode, Go
<1>4. CASE Home
  BY <1>4 DEF Home, Begins, BeginRefused, Go, StartMonitor, Disarm
<1>5. CASE HomeUnrecorded
  <2>1. CASE Begins("start")
    <3>1. pc = "home" /\ pc' = "start" /\ episode' - 1 = episode
      BY <2>1 DEF Begins, Go
    <3> QED
      BY <1>5, <3>1 DEF HomeUnrecorded
  <2>2. CASE BeginRefused("leaving")
    BY <2>2 DEF BeginRefused, Go
  <2> QED
    BY <1>5, <2>1, <2>2 DEF HomeUnrecorded
<1>6. CASE StartEpisode
  BY <1>6 DEF StartEpisode, Go, StartCommands
<1>7. CASE ArmRunning
  BY <1>7 DEF ArmRunning, Go, End, Arm
<1>8. CASE CheckStreams
  BY <1>8 DEF CheckStreams, End
<1>9. CASE Poll
  BY <1>9 DEF Poll, End
<1>10. CASE PolicyReady
  BY <1>10 DEF PolicyReady, Go, End
<1>11. CASE Discard
  BY <1>11 DEF Discard, Go, End, Wait
<1>12. CASE ListenForLabel
  BY <1>12 DEF ListenForLabel, Go, End, Arm
<1>13. CASE Announce
  BY <1>13 DEF Announce, Go
<1>14. CASE HearLabel
  BY <1>14 DEF HearLabel, End, Wait
<1>15. CASE PollAgain
  BY <1>15 DEF PollAgain, End
<1>16. CASE CloseGate
  BY <1>16 DEF CloseGate, Go
<1>17. CASE Close
  BY <1>17 DEF Close, End
<1>18. CASE Verdict
  BY <1>18 DEF Verdict, End
<1>19. CASE StopEpisode
  BY <1>19 DEF StopEpisode, Disarm, CloseIfActive, StopMonitor
<1>20. CASE CleanUp
  BY <1>20 DEF CleanUp, Disarm, CloseIfActive, StopMonitor
<1>21. CASE Commit
  BY <1>21 DEF Commit, Go
<1>22. CASE Leave
  BY <1>22 DEF Leave, Go, CloseIfActive, ClosePedals
<1>23. CASE Publish
  BY <1>23 DEF Publish, ExecutorOnly, PublishWorks, PublishFails, Sent, Logged
<1>24. CASE ExecutorRaises
  BY <1>24 DEF ExecutorRaises, ExecutorOnly
<1>25. CASE Prefetch
  BY <1>25 DEF Prefetch, ExecutorOnly
<1>26. CASE Accept
  BY <1>26 DEF Accept, ExecutorOnly
<1>27. CASE Accepted
  BY <1>27 DEF Accepted, ExecutorOnly
<1>28. CASE Fail
  BY <1>28 DEF Fail, ExecutorOnly
<1>29. CASE InferenceDone
  BY <1>29 DEF InferenceDone, ExecutorOnly
<1>30. CASE Pressed
  BY <1>30 DEF Pressed, Press
<1>31. CASE Settled
  BY <1>31 DEF Settled, SettlePedal
<1>32. CASE Telemetry
  BY <1>32 DEF Telemetry, TelemetryStops, Sample
<1>33. CASE InterruptEpisode
  BY <1>33 DEF InterruptEpisode, End
<1>34. CASE InterruptSession
  BY <1>34 DEF InterruptSession
<1>35. CASE UNCHANGED vars
  BY <1>35 DEF vars
<1> QED
  BY <1>1, <1>2, <1>3, <1>4, <1>5, <1>6, <1>7, <1>8, <1>9, <1>10, <1>11, <1>12, <1>13,
     <1>14, <1>15, <1>16, <1>17, <1>18, <1>19, <1>20, <1>21, <1>22, <1>23, <1>24, <1>25,
     <1>26, <1>27, <1>28, <1>29, <1>30, <1>31, <1>32, <1>33, <1>34,
     <1>35 DEF Next, SessionThread, Executor

(* What labels an Episode.                                                 *)
LEMMA LabelledStep ==
    ASSUME InferInv, [Next]_vars
    PROVE  LabelledInv'
<1> USE DEF InferInv, InferTypeOK, Steps, Operated, LabelledInv, controllerVars,
    episodeVars, schedulerVars, commandVars, resultVars, envVars, pedalVars, healthVars,
    Works, Fails, Signalled
<1>1. CASE Ready
  BY <1>1 DEF Ready, Go, Arm
<1>2. CASE WaitForStart
  BY <1>2 DEF WaitForStart, Wait, Disarm
<1>3. CASE LastEpisode
  BY <1>3 DEF LastEpisode, Go
<1>4. CASE Home
  BY <1>4 DEF Home, Begins, BeginRefused, Go, StartMonitor, Disarm
<1>5. CASE HomeUnrecorded
  BY <1>5 DEF HomeUnrecorded, Begins, BeginRefused, Go, StartMonitor, Disarm
<1>6. CASE StartEpisode
  BY <1>6 DEF StartEpisode, Go, StartCommands
<1>7. CASE ArmRunning
  BY <1>7 DEF ArmRunning, Go, End, Arm
<1>8. CASE CheckStreams
  BY <1>8 DEF CheckStreams, End
<1>9. CASE Poll
  BY <1>9 DEF Poll, End
<1>10. CASE PolicyReady
  BY <1>10 DEF PolicyReady, Go, End
<1>11. CASE Discard
  BY <1>11 DEF Discard, Go, End, Wait
<1>12. CASE ListenForLabel
  BY <1>12 DEF ListenForLabel, Go, End, Arm
<1>13. CASE Announce
  BY <1>13 DEF Announce, Go
<1>14. CASE HearLabel
  <2>1. HeardPresses \subseteq Reports \/ UNCHANGED labelledBy \/ labelledBy' = {}
    BY <1>14, WaitReports DEF HearLabel
  <2>2. Reports \subseteq {[episode |-> episode, stage |-> "running"]}
    BY <1>14 DEF HearLabel, End, BufferInv, ReadyInv, ActiveInv
  <2> QED
    BY <1>14, <2>1, <2>2, WaitReports DEF HearLabel, End
<1>15. CASE PollAgain
  BY <1>15 DEF PollAgain, End
<1>16. CASE CloseGate
  BY <1>16 DEF CloseGate, Go
<1>17. CASE Close
  BY <1>17 DEF Close, End
<1>18. CASE Verdict
  BY <1>18 DEF Verdict, End
<1>19. CASE StopEpisode
  BY <1>19 DEF StopEpisode, Disarm, CloseIfActive, StopMonitor
<1>20. CASE CleanUp
  BY <1>20 DEF CleanUp, Disarm, CloseIfActive, StopMonitor
<1>21. CASE Commit
  BY <1>21 DEF Commit, Go
<1>22. CASE Leave
  BY <1>22 DEF Leave, Go, CloseIfActive, ClosePedals
<1>23. CASE Publish
  BY <1>23 DEF Publish, ExecutorOnly, PublishWorks, PublishFails, Sent, Logged
<1>24. CASE ExecutorRaises
  BY <1>24 DEF ExecutorRaises, ExecutorOnly
<1>25. CASE Prefetch
  BY <1>25 DEF Prefetch, ExecutorOnly
<1>26. CASE Accept
  BY <1>26 DEF Accept, ExecutorOnly
<1>27. CASE Accepted
  BY <1>27 DEF Accepted, ExecutorOnly
<1>28. CASE Fail
  BY <1>28 DEF Fail, ExecutorOnly
<1>29. CASE InferenceDone
  BY <1>29 DEF InferenceDone, ExecutorOnly
<1>30. CASE Pressed
  BY <1>30 DEF Pressed, Press
<1>31. CASE Settled
  BY <1>31 DEF Settled, SettlePedal
<1>32. CASE Telemetry
  BY <1>32 DEF Telemetry, TelemetryStops, Sample
<1>33. CASE InterruptEpisode
  BY <1>33 DEF InterruptEpisode, End
<1>34. CASE InterruptSession
  BY <1>34 DEF InterruptSession
<1>35. CASE UNCHANGED vars
  BY <1>35 DEF vars
<1> QED
  BY <1>1, <1>2, <1>3, <1>4, <1>5, <1>6, <1>7, <1>8, <1>9, <1>10, <1>11, <1>12, <1>13,
     <1>14, <1>15, <1>16, <1>17, <1>18, <1>19, <1>20, <1>21, <1>22, <1>23, <1>24, <1>25,
     <1>26, <1>27, <1>28, <1>29, <1>30, <1>31, <1>32, <1>33, <1>34,
     <1>35 DEF Next, SessionThread, Executor

(* Of an Episode that was not begun nothing was sent.                      *)
LEMMA FreshStep ==
    ASSUME InferInv, [Next]_vars
    PROVE  FreshInv'
<1> USE DEF InferInv, InferTypeOK, Steps, Operated, Episodes, ActiveInv, GateInv, FreshInv,
    Whole, controllerVars, episodeVars, schedulerVars, commandVars, resultVars, envVars,
    pedalVars, healthVars, Works, Fails, Signalled
<1>1. CASE Ready
  BY <1>1 DEF Ready, Go, Arm
<1>2. CASE WaitForStart
  BY <1>2 DEF WaitForStart, Wait, Disarm
<1>3. CASE LastEpisode
  BY <1>3 DEF LastEpisode, Go
<1>4. CASE Home
  <2>1. UNCHANGED <<commandVars, result>>
    BY <1>4 DEF Home
  <2>2. episode' \in {episode, episode + 1} /\ (pc' = "start" => episode' = episode + 1)
    BY <1>4 DEF Home, Begins, BeginRefused, Go
  <2> QED
    BY <1>4, <2>1, <2>2 DEF Home
<1>5. CASE HomeUnrecorded
  <2>1. UNCHANGED <<commandVars, result>>
    BY <1>5 DEF HomeUnrecorded
  <2>2. episode' \in {episode, episode + 1} /\ (pc' = "start" => episode' = episode + 1)
    BY <1>5 DEF HomeUnrecorded, Begins, BeginRefused, Go
  <2> QED
    BY <1>5, <2>1, <2>2 DEF HomeUnrecorded
<1>6. CASE StartEpisode
  BY <1>6 DEF StartEpisode, Go, StartCommands
<1>7. CASE ArmRunning
  BY <1>7 DEF ArmRunning, Go, End, Arm
<1>8. CASE CheckStreams
  BY <1>8 DEF CheckStreams, End
<1>9. CASE Poll
  BY <1>9 DEF Poll, End
<1>10. CASE PolicyReady
  BY <1>10 DEF PolicyReady, Go, End
<1>11. CASE Discard
  BY <1>11 DEF Discard, Go, End, Wait
<1>12. CASE ListenForLabel
  BY <1>12 DEF ListenForLabel, Go, End, Arm
<1>13. CASE Announce
  BY <1>13 DEF Announce, Go
<1>14. CASE HearLabel
  BY <1>14 DEF HearLabel, End, Wait
<1>15. CASE PollAgain
  BY <1>15 DEF PollAgain, End
<1>16. CASE CloseGate
  BY <1>16 DEF CloseGate, Go
<1>17. CASE Close
  BY <1>17 DEF Close, End
<1>18. CASE Verdict
  BY <1>18 DEF Verdict, End
<1>19. CASE StopEpisode
  BY <1>19 DEF StopEpisode, Disarm, CloseIfActive, StopMonitor
<1>20. CASE CleanUp
  BY <1>20 DEF CleanUp, Disarm, CloseIfActive, StopMonitor
<1>21. CASE Commit
  <2>1. pc' # "start" /\ UNCHANGED <<episode, sent, logged, torn>>
    BY <1>21 DEF Commit, Go
  <2>2. \A e \in Episodes \ {episode} : result'[e] = result[e]
    BY <1>21 DEF Commit
  <2> QED
    BY <2>1, <2>2
<1>22. CASE Leave
  BY <1>22 DEF Leave, Go, CloseIfActive, ClosePedals
<1>23. CASE Publish
  <2>1. episode \in Episodes /\ pc # "start"
    BY <1>23 DEF Publish
  <2>2. UNCHANGED <<pc, episode, result>>
    BY <1>23 DEF Publish, ExecutorOnly
  <2>3. \A e \in Episodes \ {episode} : sent'[e] = sent[e] /\ logged'[e] = logged[e]
    BY <1>23 DEF Publish, PublishWorks, PublishFails, Sent, Logged
  <2>4. torn' \subseteq torn \cup {episode}
    BY <1>23 DEF Publish, PublishWorks, PublishFails
  <2> QED
    BY <2>1, <2>2, <2>3, <2>4
<1>24. CASE ExecutorRaises
  BY <1>24 DEF ExecutorRaises, ExecutorOnly
<1>25. CASE Prefetch
  BY <1>25 DEF Prefetch, ExecutorOnly
<1>26. CASE Accept
  BY <1>26 DEF Accept, ExecutorOnly
<1>27. CASE Accepted
  BY <1>27 DEF Accepted, ExecutorOnly
<1>28. CASE Fail
  BY <1>28 DEF Fail, ExecutorOnly
<1>29. CASE InferenceDone
  BY <1>29 DEF InferenceDone, ExecutorOnly
<1>30. CASE Pressed
  BY <1>30 DEF Pressed, Press
<1>31. CASE Settled
  BY <1>31 DEF Settled, SettlePedal
<1>32. CASE Telemetry
  BY <1>32 DEF Telemetry, TelemetryStops, Sample
<1>33. CASE InterruptEpisode
  BY <1>33 DEF InterruptEpisode, End
<1>34. CASE InterruptSession
  BY <1>34 DEF InterruptSession
<1>35. CASE UNCHANGED vars
  BY <1>35 DEF vars
<1> QED
  BY <1>1, <1>2, <1>3, <1>4, <1>5, <1>6, <1>7, <1>8, <1>9, <1>10, <1>11, <1>12, <1>13,
     <1>14, <1>15, <1>16, <1>17, <1>18, <1>19, <1>20, <1>21, <1>22, <1>23, <1>24, <1>25,
     <1>26, <1>27, <1>28, <1>29, <1>30, <1>31, <1>32, <1>33, <1>34,
     <1>35 DEF Next, SessionThread, Executor

(* RecordedControl knows what was sent, and whether it failed.             *)
LEMMA CountStep ==
    ASSUME InferInv, [Next]_vars
    PROVE  CountInv'
<1> USE DEF InferInv, InferTypeOK, Steps, Operated, Episodes, ActiveInv, GateInv, FreshInv,
    CountInv, Whole, controllerVars, episodeVars, schedulerVars, commandVars, resultVars,
    envVars, pedalVars, healthVars, Works, Fails, Signalled
<1>1. CASE Ready
  BY <1>1 DEF Ready, Go, Arm
<1>2. CASE WaitForStart
  BY <1>2 DEF WaitForStart, Wait, Disarm
<1>3. CASE LastEpisode
  BY <1>3 DEF LastEpisode, Go
<1>4. CASE Home
  BY <1>4 DEF Home, Begins, BeginRefused, Go, StartMonitor, Disarm
<1>5. CASE HomeUnrecorded
  BY <1>5 DEF HomeUnrecorded, Begins, BeginRefused, Go, StartMonitor, Disarm
<1>6. CASE StartEpisode
  BY <1>6 DEF StartEpisode, Go, StartCommands
<1>7. CASE ArmRunning
  BY <1>7 DEF ArmRunning, Go, End, Arm
<1>8. CASE CheckStreams
  BY <1>8 DEF CheckStreams, End
<1>9. CASE Poll
  BY <1>9 DEF Poll, End
<1>10. CASE PolicyReady
  BY <1>10 DEF PolicyReady, Go, End
<1>11. CASE Discard
  BY <1>11 DEF Discard, Go, End, Wait
<1>12. CASE ListenForLabel
  BY <1>12 DEF ListenForLabel, Go, End, Arm
<1>13. CASE Announce
  BY <1>13 DEF Announce, Go
<1>14. CASE HearLabel
  BY <1>14 DEF HearLabel, End, Wait
<1>15. CASE PollAgain
  BY <1>15 DEF PollAgain, End
<1>16. CASE CloseGate
  BY <1>16 DEF CloseGate, Go
<1>17. CASE Close
  BY <1>17 DEF Close, End
<1>18. CASE Verdict
  BY <1>18 DEF Verdict, End
<1>19. CASE StopEpisode
  BY <1>19 DEF StopEpisode, Disarm, CloseIfActive, StopMonitor
<1>20. CASE CleanUp
  BY <1>20 DEF CleanUp, Disarm, CloseIfActive, StopMonitor
<1>21. CASE Commit
  <2>1. pc' \in {"leaving", "ready"}
    BY <1>21 DEF Commit, Go
  <2> QED
    BY <2>1
<1>22. CASE Leave
  BY <1>22 DEF Leave, Go, CloseIfActive, ClosePedals
<1>23. CASE Publish
  <2>1. /\ episode \in Episodes
        /\ pc \notin {"ready", "idle", "home", "start", "close", "verdict", "commit", "over"}
    BY <1>23 DEF Publish
  <2>2. CASE PublishWorks
    BY <1>23, <2>1, <2>2 DEF Publish, PublishWorks, Sent, Logged, ExecutorOnly
  <2>3. CASE PublishFails
    <3>1. failure' /\ UNCHANGED <<pc, episode, result>>
      BY <1>23, <2>3 DEF Publish, PublishFails, ExecutorOnly
    <3>2. CASE UNCHANGED <<commandCount, sent>>
      BY <3>1, <3>2
    <3>3. CASE Sent
      BY <2>1, <3>1, <3>3 DEF Sent
    <3> QED
      BY <2>3, <3>2, <3>3 DEF PublishFails
  <2> QED
    BY <1>23, <2>2, <2>3 DEF Publish
<1>24. CASE ExecutorRaises
  BY <1>24 DEF ExecutorRaises, ExecutorOnly
<1>25. CASE Prefetch
  BY <1>25 DEF Prefetch, ExecutorOnly
<1>26. CASE Accept
  BY <1>26 DEF Accept, ExecutorOnly
<1>27. CASE Accepted
  BY <1>27 DEF Accepted, ExecutorOnly
<1>28. CASE Fail
  BY <1>28 DEF Fail, ExecutorOnly
<1>29. CASE InferenceDone
  BY <1>29 DEF InferenceDone, ExecutorOnly
<1>30. CASE Pressed
  BY <1>30 DEF Pressed, Press
<1>31. CASE Settled
  BY <1>31 DEF Settled, SettlePedal
<1>32. CASE Telemetry
  BY <1>32 DEF Telemetry, TelemetryStops, Sample
<1>33. CASE InterruptEpisode
  BY <1>33 DEF InterruptEpisode, End
<1>34. CASE InterruptSession
  BY <1>34 DEF InterruptSession
<1>35. CASE UNCHANGED vars
  BY <1>35 DEF vars
<1> QED
  BY <1>1, <1>2, <1>3, <1>4, <1>5, <1>6, <1>7, <1>8, <1>9, <1>10, <1>11, <1>12, <1>13,
     <1>14, <1>15, <1>16, <1>17, <1>18, <1>19, <1>20, <1>21, <1>22, <1>23, <1>24, <1>25,
     <1>26, <1>27, <1>28, <1>29, <1>30, <1>31, <1>32, <1>33, <1>34,
     <1>35 DEF Next, SessionThread, Executor

(* Once the label is given nothing is sent any more.                       *)
LEMMA VerdictStep ==
    ASSUME InferInv, [Next]_vars
    PROVE  VerdictInv'
<1> USE DEF InferInv, InferTypeOK, Steps, Operated, Episodes, ActiveInv, GateInv, CountInv,
    VerdictInv, Disturbed, Whole, controllerVars, episodeVars, schedulerVars, commandVars,
    resultVars, envVars, pedalVars, healthVars, Works, Fails, Signalled
<1>1. CASE Ready
  BY <1>1 DEF Ready, Go, Arm
<1>2. CASE WaitForStart
  BY <1>2 DEF WaitForStart, Wait, Disarm
<1>3. CASE LastEpisode
  BY <1>3 DEF LastEpisode, Go
<1>4. CASE Home
  BY <1>4 DEF Home, Begins, BeginRefused, Go, StartMonitor, Disarm
<1>5. CASE HomeUnrecorded
  BY <1>5 DEF HomeUnrecorded, Begins, BeginRefused, Go, StartMonitor, Disarm
<1>6. CASE StartEpisode
  BY <1>6 DEF StartEpisode, Go, StartCommands
<1>7. CASE ArmRunning
  BY <1>7 DEF ArmRunning, Go, End, Arm
<1>8. CASE CheckStreams
  BY <1>8 DEF CheckStreams, End
<1>9. CASE Poll
  BY <1>9 DEF Poll, End
<1>10. CASE PolicyReady
  BY <1>10 DEF PolicyReady, Go, End
<1>11. CASE Discard
  BY <1>11 DEF Discard, Go, End, Wait
<1>12. CASE ListenForLabel
  BY <1>12 DEF ListenForLabel, Go, End, Arm
<1>13. CASE Announce
  BY <1>13 DEF Announce, Go
<1>14. CASE HearLabel
  BY <1>14 DEF HearLabel, End, Wait
<1>15. CASE PollAgain
  BY <1>15 DEF PollAgain, End
<1>16. CASE CloseGate
  BY <1>16 DEF CloseGate, Go
<1>17. CASE Close
  BY <1>17 DEF Close, End
<1>18. CASE Verdict
  BY <1>18 DEF Verdict, End
<1>19. CASE StopEpisode
  BY <1>19 DEF StopEpisode, Disarm, CloseIfActive, StopMonitor
<1>20. CASE CleanUp
  BY <1>20 DEF CleanUp, Disarm, CloseIfActive, StopMonitor
<1>21. CASE Commit
  BY <1>21 DEF Commit, Go
<1>22. CASE Leave
  BY <1>22 DEF Leave, Go, CloseIfActive, ClosePedals
<1>23. CASE Publish
  <2>1. /\ episode \in Episodes
        /\ pc \notin {"ready", "idle", "home", "start", "close", "verdict", "commit", "over"}
    BY <1>23 DEF Publish
  <2>2. CASE PublishWorks
    BY <1>23, <2>1, <2>2 DEF Publish, PublishWorks, Sent, Logged, ExecutorOnly
  <2>3. CASE PublishFails
    BY <1>23, <2>1, <2>3 DEF Publish, PublishFails, Sent, ExecutorOnly
  <2> QED
    BY <1>23, <2>2, <2>3 DEF Publish
<1>24. CASE ExecutorRaises
  BY <1>24 DEF ExecutorRaises, ExecutorOnly
<1>25. CASE Prefetch
  BY <1>25 DEF Prefetch, ExecutorOnly
<1>26. CASE Accept
  BY <1>26 DEF Accept, ExecutorOnly
<1>27. CASE Accepted
  BY <1>27 DEF Accepted, ExecutorOnly
<1>28. CASE Fail
  BY <1>28 DEF Fail, ExecutorOnly
<1>29. CASE InferenceDone
  BY <1>29 DEF InferenceDone, ExecutorOnly
<1>30. CASE Pressed
  BY <1>30 DEF Pressed, Press
<1>31. CASE Settled
  BY <1>31 DEF Settled, SettlePedal
<1>32. CASE Telemetry
  BY <1>32 DEF Telemetry, TelemetryStops, Sample
<1>33. CASE InterruptEpisode
  BY <1>33 DEF InterruptEpisode, End
<1>34. CASE InterruptSession
  BY <1>34 DEF InterruptSession
<1>35. CASE UNCHANGED vars
  BY <1>35 DEF vars
<1> QED
  BY <1>1, <1>2, <1>3, <1>4, <1>5, <1>6, <1>7, <1>8, <1>9, <1>10, <1>11, <1>12, <1>13,
     <1>14, <1>15, <1>16, <1>17, <1>18, <1>19, <1>20, <1>21, <1>22, <1>23, <1>24, <1>25,
     <1>26, <1>27, <1>28, <1>29, <1>30, <1>31, <1>32, <1>33, <1>34,
     <1>35 DEF Next, SessionThread, Executor

(* A committed Episode is over.                                            *)
LEMMA ResultStep ==
    ASSUME InferInv, [Next]_vars
    PROVE  ResultInv'
<1> USE DEF InferInv, InferTypeOK, Steps, Operated, Episodes, ActiveInv, GateInv, FreshInv,
    CountInv, VerdictInv, ResultInv, Whole, controllerVars, episodeVars, schedulerVars,
    commandVars, resultVars, envVars, pedalVars, healthVars, Works, Fails, Signalled
<1>1. CASE Ready
  BY <1>1 DEF Ready, Go, Arm
<1>2. CASE WaitForStart
  BY <1>2 DEF WaitForStart, Wait, Disarm
<1>3. CASE LastEpisode
  BY <1>3 DEF LastEpisode, Go
<1>4. CASE Home
  BY <1>4 DEF Home, Begins, BeginRefused, Go, StartMonitor, Disarm
<1>5. CASE HomeUnrecorded
  BY <1>5 DEF HomeUnrecorded, Begins, BeginRefused, Go, StartMonitor, Disarm
<1>6. CASE StartEpisode
  BY <1>6 DEF StartEpisode, Go, StartCommands
<1>7. CASE ArmRunning
  BY <1>7 DEF ArmRunning, Go, End, Arm
<1>8. CASE CheckStreams
  BY <1>8 DEF CheckStreams, End
<1>9. CASE Poll
  BY <1>9 DEF Poll, End
<1>10. CASE PolicyReady
  BY <1>10 DEF PolicyReady, Go, End
<1>11. CASE Discard
  BY <1>11 DEF Discard, Go, End, Wait
<1>12. CASE ListenForLabel
  BY <1>12 DEF ListenForLabel, Go, End, Arm
<1>13. CASE Announce
  BY <1>13 DEF Announce, Go
<1>14. CASE HearLabel
  BY <1>14 DEF HearLabel, End, Wait
<1>15. CASE PollAgain
  BY <1>15 DEF PollAgain, End
<1>16. CASE CloseGate
  BY <1>16 DEF CloseGate, Go
<1>17. CASE Close
  BY <1>17 DEF Close, End
<1>18. CASE Verdict
  BY <1>18 DEF Verdict, End
<1>19. CASE StopEpisode
  BY <1>19 DEF StopEpisode, Disarm, CloseIfActive, StopMonitor
<1>20. CASE CleanUp
  BY <1>20 DEF CleanUp, Disarm, CloseIfActive, StopMonitor
<1>21. CASE Commit
  BY <1>21 DEF Commit, Go
<1>22. CASE Leave
  BY <1>22 DEF Leave, Go, CloseIfActive, ClosePedals
<1>23. CASE Publish
  <2>1. /\ episode \in Episodes
        /\ pc \notin {"ready", "idle", "home", "start", "close", "verdict", "commit", "over"}
    BY <1>23 DEF Publish
  <2>2. CASE PublishWorks
    BY <1>23, <2>1, <2>2 DEF Publish, PublishWorks, Sent, Logged, ExecutorOnly
  <2>3. CASE PublishFails
    BY <1>23, <2>1, <2>3 DEF Publish, PublishFails, Sent, ExecutorOnly
  <2> QED
    BY <1>23, <2>2, <2>3 DEF Publish
<1>24. CASE ExecutorRaises
  BY <1>24 DEF ExecutorRaises, ExecutorOnly
<1>25. CASE Prefetch
  BY <1>25 DEF Prefetch, ExecutorOnly
<1>26. CASE Accept
  BY <1>26 DEF Accept, ExecutorOnly
<1>27. CASE Accepted
  BY <1>27 DEF Accepted, ExecutorOnly
<1>28. CASE Fail
  BY <1>28 DEF Fail, ExecutorOnly
<1>29. CASE InferenceDone
  BY <1>29 DEF InferenceDone, ExecutorOnly
<1>30. CASE Pressed
  BY <1>30 DEF Pressed, Press
<1>31. CASE Settled
  BY <1>31 DEF Settled, SettlePedal
<1>32. CASE Telemetry
  BY <1>32 DEF Telemetry, TelemetryStops, Sample
<1>33. CASE InterruptEpisode
  BY <1>33 DEF InterruptEpisode, End
<1>34. CASE InterruptSession
  BY <1>34 DEF InterruptSession
<1>35. CASE UNCHANGED vars
  BY <1>35 DEF vars
<1> QED
  BY <1>1, <1>2, <1>3, <1>4, <1>5, <1>6, <1>7, <1>8, <1>9, <1>10, <1>11, <1>12, <1>13,
     <1>14, <1>15, <1>16, <1>17, <1>18, <1>19, <1>20, <1>21, <1>22, <1>23, <1>24, <1>25,
     <1>26, <1>27, <1>28, <1>29, <1>30, <1>31, <1>32, <1>33, <1>34,
     <1>35 DEF Next, SessionThread, Executor

(* The invariant holds initially ... *)
LEMMA InferInitInvariant == Init => InferInv
<1> SUFFICES ASSUME Init PROVE InferInv
  OBVIOUS
<1> USE InferAssumption DEF Init, PedalInit, HealthInit
<1>1. InferTypeOK
  <2>1. reports \in [Pedals -> Seq(Presses)]
    OBVIOUS
  <2>2. /\ sent \in [Episodes -> Nat] /\ logged \in [Episodes -> Nat]
        /\ count \in [Episodes -> Nat]
        /\ result \in [Episodes -> {"none", "blocked", "success", "fail", "aborted"}]
    OBVIOUS
  <2>3. pc \in Steps /\ episode \in 0..MaxEpisodes /\ commandCount \in Nat
    BY DEF Steps
  <2>4. /\ recorded \in BOOLEAN /\ active \in BOOLEAN /\ ready \in BOOLEAN
        /\ stopError \in BOOLEAN /\ runningArmed \in BOOLEAN
        /\ gateOpen \in BOOLEAN /\ failure \in BOOLEAN
    BY Zenon
  <2> QED
    BY <2>1, <2>2, <2>3, <2>4 DEF InferTypeOK
<1>2. Reports = {}
  BY DEF Reports
<1>3. ActiveInv /\ GateInv /\ ReadyInv /\ EventInv
  BY DEF ActiveInv, GateInv, ReadyInv, EventInv, Operated
<1>4. BufferInv /\ StartedInv /\ LabelledInv
  BY <1>2 DEF BufferInv, StartedInv, LabelledInv
<1>5. FreshInv /\ CountInv /\ VerdictInv /\ ResultInv
  BY DEF FreshInv, CountInv, VerdictInv, ResultInv, Whole, Episodes, Operated
<1> QED
  BY <1>1, <1>3, <1>4, <1>5 DEF InferInv

(* ... and is kept by every step: InferInv is an invariant of the infer    *)
(* collection for any number of Episodes, presses, commands and failures.  *)
THEOREM InferInductive == Spec => []InferInv
<1>1. InferInv /\ [Next]_vars => InferInv'
  BY TypeStep, ActiveStep, GateStep, ReadyStep, EventStep, BufferStep, StartedStep,
     LabelledStep, FreshStep, CountStep, VerdictStep, ResultStep DEF InferInv
<1> QED
  BY InferInitInvariant, <1>1, PTL DEF Spec

(* What starts an Episode was pressed after READY, what labels it after    *)
(* the trigger was armed anew for the running policy of that Episode,      *)
(* whatever the kernel had buffered (InferRecordTrigger.wait,              *)
(* PedalTrigger.arm).                                                      *)
THEOREM LabelsAreDeliberate == Spec => []LabelIsDeliberate
<1>1. InferInv => LabelIsDeliberate
  BY DEF InferInv, StartedInv, LabelledInv, LabelIsDeliberate
<1> QED
  BY <1>1, InferInductive, PTL

(* An Episode that is a success had every command sent to both arms and    *)
(* its record published, and its metadata counts them, also when the       *)
(* Episode before it was blocked by a fault (RecordedControl.publish,      *)
(* InferController.label).                                                 *)
THEOREM SuccessesAreUndisturbed == Spec => []SuccessIsUndisturbed
<1>1. InferInv => SuccessIsUndisturbed
  BY DEF InferInv, ResultInv, Whole, SuccessIsUndisturbed
<1> QED
  BY <1>1, InferInductive, PTL

-----------------------------------------------------------------------------
(* calibration *)

(* The exceptions of the main thread, whatever raises them. *)
Raising == Running /\ Raise

(* What the devices, the motion thread and the operator's hands do. *)
Beside == CameraStep \/ ArmStep \/ DeviceFault

(* Where an exception goes. *)
LEMMA HandlerIs ==
    /\ at \in Opening => Handler = "release"
    /\ at \in Replaying /\ motion = "none" => Handler = "save"
    /\ at \in Replaying /\ motion # "none" => Handler = "stop"
    /\ at \in Stopping => Handler = "trace"
    /\ at \in Closing => Handler = "release"
    /\ at \in Teaching \cup {"create", "trace", "save", "point"} => Handler = "board"
<1>1. at \in Opening => Handler = "release"
  BY DEF Opening, Handler, Replaying, Stopping
<1>2. at \in Replaying /\ motion = "none" => Handler = "save"
  BY DEF Handler, Replaying, Stopping
<1>3. at \in Replaying /\ motion # "none" => Handler = "stop"
  BY DEF Handler, Replaying, Stopping
<1>4. at \in Stopping => Handler = "trace"
  BY DEF Handler, Replaying, Stopping
<1>5. at \in Closing => Handler = "release"
  BY DEF Handler, Replaying, Stopping, Closing
<1>6. at \in Teaching \cup {"create", "trace", "save", "point"} => Handler = "board"
  BY DEF Handler, Replaying, Stopping, Teaching
<1> QED
  BY <1>1, <1>2, <1>3, <1>4, <1>5, <1>6

(* Where a call of the arms returns to. *)
LEMMA AfterCallIs ==
    /\ at = "enter" => AfterCall = IF stage = "teach" THEN "archive" ELSE "create"
    /\ at = "teach" => AfterCall = "poll"
    /\ at = "enable" => AfterCall = "make"
    /\ at = "hold" => AfterCall = "trace"
    /\ at = "park" => AfterCall = "hands"
  BY DEF AfterCall

(* What a served request makes of an arm. *)
LEMMA ModeAfterIs ==
    ASSUME NEW m, NEW ok \in BOOLEAN
    PROVE  /\ ModeAfter(m, "gravity_compensation", ok) = "gravity"
           /\ ModeAfter(m, "enable_policy_control", TRUE) = "policy"
           /\ ModeAfter(m, "enable_policy_control", FALSE) = Frozen(m, FALSE)
           /\ ModeAfter(m, "calibration_hold", ok) = Frozen(m, ok)
  BY DEF ModeAfter

(* The service each call of the main thread asks for. *)
LEMMA CallsAre ==
    /\ DOMAIN Calls = {"enter", "teach", "enable", "hold", "park"}
    /\ Calls["enter"] = "gravity_compensation"
    /\ Calls["teach"] = "gravity_compensation"
    /\ Calls["enable"] = "enable_policy_control"
    /\ Calls["hold"] = "calibration_hold"
    /\ Calls["park"] = "gravity_compensation"
  BY DEF Calls

(* A step is one of the main thread, an exception, the end of the process,  *)
(* or one beside them.                                                      *)
LEMMA StepCases ==
    ASSUME StageInv, CalibrationNext
    PROVE  \/ \E s \in {"teach", "record"} : StartProgram(s)
           \/ StartSystem
           \/ StartCamera
           \/ CameraOpens
           \/ StartNodes
           \/ OpenArms
           \/ ArchiveRoute
           \/ NewRoute
           \/ LookAtArms
           \/ NoKey
           \/ DeleteLast
           \/ PressSave
           \/ CloseWindow
           \/ SaveEvidence
           \/ SaveRoute
           \/ Conclude
           \/ CreateRun
           \/ Preflight
           \/ MakeThread
           \/ StartThread
           \/ StartMove
           \/ Look
           \/ KeepWaiting
           \/ Arrive
           \/ OpenWindow
           \/ CaptureGoesOn
           \/ CaptureEnds
           \/ SaveObservation
           \/ SaveResult
           \/ NextMove
           \/ Split
           \/ Digest
           \/ Finalize
           \/ Stop
           \/ Join
           \/ SaveTrace
           \/ SaveRun
           \/ Point
           \/ BoardTaken
           \/ Parked
           \/ Release
           \/ Gone
           \/ AskArms
           \/ ArmsAnswer
           \/ Raising
           \/ Beside
<1>1. CASE Enter
  BY <1>1 DEF Enter
<1>2. CASE Teach
  <2>1. CASE LookAtArmsRaises
    BY <2>1 DEF LookAtArmsRaises, Complain, Raising, Running
  <2> QED
    BY <1>2, <2>1 DEF Teach
<1>3. CASE Record
  <2>1. CASE NoFeedback \/ MoveRaises \/ LookRaises \/ ArmMoved \/ MotionHasFailed \/ JoinRaises
    BY <2>1 DEF NoFeedback, MoveRaises, LookRaises, ArmMoved, MotionHasFailed, JoinRaises,
         Complain, Raising, Running
  <2> QED
    BY <1>3, <2>1 DEF Record
<1>4. CASE EndCalibration
  BY <1>4 DEF EndCalibration, Exit
<1>5. CASE ArmsRefuse
  BY <1>5, CallsAre DEF ArmsRefuse, Complain, Raising, Running, StageInv
<1>6. CASE Break \/ Kill
  BY <1>6 DEF Break, Kill, Raising
<1> QED
  BY <1>1, <1>2, <1>3, <1>4, <1>5, <1>6 DEF CalibrationNext, Beside

(* A route has a first move. *)
LEMMA RouteFacts ==
    /\ Len(Route) \in Nat /\ 1 \in 1..Len(Route)
    /\ MaxPrograms \in Nat
<1>1. Route \in Seq({"start", "via", "capture"}) /\ Route # <<>>
  BY CalibrationAssumption
<1>2. Len(Route) \in Nat /\ Len(Route) # 0
  BY <1>1
<1> QED
  BY <1>2, CalibrationAssumption

(* What is beside the main thread changes neither its variables nor files. *)
LEMMA BesideKeeps ==
    ASSUME Beside
    PROVE  UNCHANGED <<progVars, captureVars, runVars, routeVars>>
  BY DEF Beside, CameraStep, ArmStep, DeviceFault

(* What run.json says of the run keeps up with the moves.                  *)
LEMMA RunStep ==
    ASSUME CalibrationInv, [CalibrationNext]_calibrationVars
    PROVE  RunInv'
<1> USE RouteFacts DEF CalibrationInv, CalibrationTypeOK, ProgramTypeOK, FilesTypeOK,
    CaptureTypeOK, RunTypeOK,
     RouteTypeOK, Runs, RunInv, Complete, NoRun, Opening, Teaching, Looping, Recording,
     Closing, Stops, Commanding, captureVars, runVars, routeVars, armVars, motionVars,
     poseVars, cameraVars, bounds
<1>1. CASE StartSystem \/ StartCamera \/ CameraOpens \/ StartNodes \/ OpenArms
          \/ ArchiveRoute
  BY <1>1 DEF StartSystem, Went, Unmoved, StartCamera, CameraOpens, Plain, StartNodes,
       OpenArms, ArchiveRoute
<1>2. CASE NewRoute \/ LookAtArms \/ NoKey \/ DeleteLast \/ PressSave \/ CloseWindow
  BY <1>2 DEF NewRoute, Plain, Went, Unmoved, LookAtArms, NoKey, Keyed, DeleteLast,
       PressSave, CloseWindow
<1>3. CASE SaveEvidence \/ SaveRoute \/ Conclude \/ Preflight \/ MakeThread
          \/ StartThread
  BY <1>3 DEF SaveEvidence, Plain, Went, Unmoved, SaveRoute, Conclude, Preflight,
       MakeControl, MakeThread, StartThread
<1>4. CASE StartMove \/ Look \/ KeepWaiting \/ Arrive \/ OpenWindow \/ CaptureGoesOn
  BY <1>4 DEF StartMove, Plain, Went, MayMove, Move, Before, Look, Unmoved, KeepWaiting,
       Sampled, Arrive, AtGoal, OpenWindow, CaptureGoesOn
<1>5. CASE SaveObservation \/ Split \/ Digest \/ Finalize \/ Stop \/ Join \/ SaveTrace
          \/ BoardTaken
  BY <1>5 DEF SaveObservation, Plain, Went, Unmoved, Split, Digest, Finalize, Written, Stop,
       Join,
       SaveTrace, BoardTaken
<1>6. CASE Parked \/ Release
  BY <1>6 DEF Parked, Plain, Went, Unmoved, Release
<1>7. CASE \E s \in {"teach", "record"} : StartProgram(s)
  BY <1>7 DEF StartProgram
<1>8. CASE Raising
  <2>1. /\ at' = Handler /\ raised' = TRUE
        /\ run' = IF at \in Stopping THEN [run EXCEPT !.status = "failed"] ELSE run
    BY <1>8 DEF Raising, Raise
  <2>2. UNCHANGED <<program, disk, evidence, pointer, routeVars>> /\ step' = 1
    BY <1>8 DEF Raising, Raise
  <2>3. at' \in {"release", "save", "stop", "trace", "board"}
    BY <1>8, HandlerIs, <2>1
       DEF Raising, Running, StageInv, CalibrationTypeOK, ProgramTypeOK, Opening,
         Teaching, Recording, Looping, Stops, Closing, Replaying, Stopping
  <2> QED
    BY <2>1, <2>2, <2>3 DEF routeVars
<1>9. CASE Gone
  BY <1>9 DEF Gone
<1>10. CASE Beside
  BY <1>10, BesideKeeps DEF progVars, captureVars, runVars, routeVars
<1>11. CASE AskArms
  BY <1>11 DEF AskArms
<1>12. CASE ArmsAnswer
  <2>1. at' = AfterCall /\ waits /\ at \in DOMAIN Calls
    BY <1>12 DEF ArmsAnswer, Went, StageInv
  <2>2. UNCHANGED <<stage, program, raised, alarmed, captureVars, runVars, routeVars>>
    BY <1>12 DEF ArmsAnswer, Went
  <2> QED
    BY <2>1, <2>2, AfterCallIs, CallsAre DEF captureVars, runVars, routeVars
<1>13. CASE SaveResult
  BY <1>13 DEF SaveResult, Plain, Went, Unmoved, Saved
<1>14. CASE NextMove
  BY <1>14 DEF NextMove, Plain, Went, Unmoved
<1>15. CASE CreateRun
  BY <1>15 DEF CreateRun, Plain, Went, Unmoved, Saved, Written
<1>16. CASE SaveRun
  BY <1>16 DEF SaveRun, Plain, Went, Unmoved, Saved
<1>17. CASE Point
  BY <1>17 DEF Point, Plain, Went, Unmoved
<1>18. CASE CaptureEnds
  BY <1>18 DEF CaptureEnds, Sampled, Plain, Went, AtGoal
<1>19. CASE UNCHANGED calibrationVars
  BY <1>19 DEF calibrationVars, armVars, motionVars, poseVars, progVars, cameraVars,
       captureVars, runVars, routeVars, bounds
<1> QED
  BY <1>1, <1>2, <1>3, <1>4, <1>5, <1>6, <1>7, <1>8, <1>9, <1>10, <1>11, <1>12, <1>13,
       <1>14, <1>15, <1>16, <1>17, <1>18, <1>19, StepCases

(* The run that latest-runs names is complete and not the one being        *)
(* written.                                                                *)
LEMMA PointerStep ==
    ASSUME CalibrationInv, [CalibrationNext]_calibrationVars
    PROVE  PointerInv'
<1> USE RouteFacts DEF CalibrationInv, CalibrationTypeOK, ProgramTypeOK, FilesTypeOK,
    CaptureTypeOK, RunTypeOK,
     RouteTypeOK, Runs, RunInv, PointerInv, Complete, NoRun, Opening, Teaching, Looping,
     Recording, Closing, Stops, Commanding, captureVars, runVars, routeVars, armVars,
     motionVars, poseVars, cameraVars, bounds
<1>1. CASE StartSystem \/ StartCamera \/ CameraOpens \/ StartNodes \/ OpenArms
          \/ ArchiveRoute
  BY <1>1 DEF StartSystem, Went, Unmoved, StartCamera, CameraOpens, Plain, StartNodes,
       OpenArms, ArchiveRoute
<1>2. CASE NewRoute \/ LookAtArms \/ NoKey \/ DeleteLast \/ PressSave \/ CloseWindow
  BY <1>2 DEF NewRoute, Plain, Went, Unmoved, LookAtArms, NoKey, Keyed, DeleteLast,
       PressSave, CloseWindow
<1>3. CASE SaveEvidence \/ SaveRoute \/ Conclude \/ Preflight \/ MakeThread
          \/ StartThread
  BY <1>3 DEF SaveEvidence, Plain, Went, Unmoved, SaveRoute, Conclude, Preflight,
       MakeControl, MakeThread, StartThread
<1>4. CASE StartMove \/ Look \/ KeepWaiting \/ Arrive \/ OpenWindow \/ CaptureGoesOn
  BY <1>4 DEF StartMove, Plain, Went, MayMove, Move, Before, Look, Unmoved, KeepWaiting,
       Sampled, Arrive, AtGoal, OpenWindow, CaptureGoesOn
<1>5. CASE CaptureEnds \/ SaveObservation \/ NextMove \/ Split \/ Digest \/ Finalize
          \/ Stop \/ Join
  BY <1>5 DEF CaptureEnds, Sampled, Plain, Went, AtGoal, SaveObservation, Unmoved,
       NextMove, Split, Digest, Finalize, Written, Stop, Join
<1>6. CASE SaveTrace \/ BoardTaken \/ Parked \/ Release
  BY <1>6 DEF SaveTrace, Plain, Went, Unmoved, BoardTaken, Parked, Release
<1>7. CASE \E s \in {"teach", "record"} : StartProgram(s)
  BY <1>7 DEF StartProgram
<1>8. CASE Raising
  <2>1. /\ at' = Handler /\ raised' = TRUE
        /\ run' = IF at \in Stopping THEN [run EXCEPT !.status = "failed"] ELSE run
    BY <1>8 DEF Raising, Raise
  <2>2. UNCHANGED <<program, disk, evidence, pointer, routeVars>> /\ step' = 1
    BY <1>8 DEF Raising, Raise
  <2>3. at' \in {"release", "save", "stop", "trace", "board"}
    BY <1>8, HandlerIs, <2>1
       DEF Raising, Running, StageInv, CalibrationTypeOK, ProgramTypeOK, Opening,
         Teaching, Recording, Looping, Stops, Closing, Replaying, Stopping
  <2>4. at' \in Recording => at \in Recording
    BY <1>8, HandlerIs, <2>1 DEF Raising, Running, StageInv, Replaying, Stopping
  <2> QED
    BY <2>1, <2>2, <2>3, <2>4 DEF routeVars
<1>9. CASE Gone
  BY <1>9 DEF Gone
<1>10. CASE Beside
  BY <1>10, BesideKeeps DEF progVars, captureVars, runVars, routeVars
<1>11. CASE AskArms
  BY <1>11 DEF AskArms
<1>12. CASE ArmsAnswer
  <2>1. at' = AfterCall /\ waits /\ at \in DOMAIN Calls
    BY <1>12 DEF ArmsAnswer, Went, StageInv
  <2>2. UNCHANGED <<stage, program, raised, alarmed, captureVars, runVars, routeVars>>
    BY <1>12 DEF ArmsAnswer, Went
  <2> QED
    BY <2>1, <2>2, AfterCallIs, CallsAre DEF captureVars, runVars, routeVars
<1>13. CASE CreateRun
  BY <1>13 DEF CreateRun, Plain, Went, Unmoved, Saved, Written
<1>14. CASE SaveResult
  BY <1>14 DEF SaveResult, Plain, Went, Unmoved, Saved
<1>15. CASE SaveRun
  BY <1>15 DEF SaveRun, Plain, Went, Unmoved, Saved
<1>16. CASE Point
  BY <1>16 DEF Point, Plain, Went, Unmoved
<1>17. CASE UNCHANGED calibrationVars
  BY <1>17 DEF calibrationVars, armVars, motionVars, poseVars, progVars, cameraVars,
       captureVars, runVars, routeVars, bounds
<1> QED
  BY <1>1, <1>2, <1>3, <1>4, <1>5, <1>6, <1>7, <1>8, <1>9, <1>10, <1>11, <1>12, <1>13,
       <1>14, <1>15, <1>16, <1>17, StepCases

(* Digests and rewritten observations keep together. *)
LEMMA SplitStep ==
    ASSUME CalibrationInv, [CalibrationNext]_calibrationVars
    PROVE  SplitInv'
<1> USE RouteFacts DEF CalibrationInv, CalibrationTypeOK, ProgramTypeOK, FilesTypeOK,
    CaptureTypeOK, RunTypeOK,
     RouteTypeOK, Runs, PointerInv, SplitInv, Sampling, NoRun, Opening, Teaching, Looping,
     Recording, Closing, Stops, Commanding, captureVars, runVars, routeVars, armVars,
     motionVars, poseVars, cameraVars, bounds
<1>1. CASE StartSystem \/ StartCamera \/ CameraOpens \/ StartNodes \/ OpenArms
          \/ ArchiveRoute
  BY <1>1 DEF StartSystem, Went, Unmoved, StartCamera, CameraOpens, Plain, StartNodes,
       OpenArms, ArchiveRoute
<1>2. CASE NewRoute \/ LookAtArms \/ NoKey \/ DeleteLast \/ PressSave \/ CloseWindow
  BY <1>2 DEF NewRoute, Plain, Went, Unmoved, LookAtArms, NoKey, Keyed, DeleteLast,
       PressSave, CloseWindow
<1>3. CASE SaveEvidence \/ SaveRoute \/ Conclude \/ Preflight \/ MakeThread
          \/ StartThread
  BY <1>3 DEF SaveEvidence, Plain, Went, Unmoved, SaveRoute, Conclude, Preflight,
       MakeControl, MakeThread, StartThread
<1>4. CASE StartMove \/ Look \/ KeepWaiting \/ Arrive \/ OpenWindow \/ CaptureGoesOn
  BY <1>4 DEF StartMove, Plain, Went, MayMove, Move, Before, Look, Unmoved, KeepWaiting,
       Sampled, Arrive, AtGoal, OpenWindow, CaptureGoesOn
<1>5. CASE CaptureEnds \/ SaveObservation \/ NextMove \/ Finalize \/ Stop \/ Join
  BY <1>5 DEF CaptureEnds, Sampled, Plain, Went, AtGoal, SaveObservation, Unmoved,
       NextMove, Finalize, Written, Stop, Join
<1>6. CASE SaveTrace \/ BoardTaken \/ Parked \/ Release
  BY <1>6 DEF SaveTrace, Plain, Went, Unmoved, BoardTaken, Parked, Release
<1>7. CASE \E s \in {"teach", "record"} : StartProgram(s)
  BY <1>7 DEF StartProgram
<1>8. CASE Raising
  <2>1. /\ at' = Handler /\ raised' = TRUE
        /\ run' = IF at \in Stopping THEN [run EXCEPT !.status = "failed"] ELSE run
    BY <1>8 DEF Raising, Raise
  <2>2. UNCHANGED <<program, disk, split, pointer>>
    BY <1>8 DEF Raising, Raise
  <2>3. at' \in {"release", "save", "stop", "trace", "board"}
    BY <1>8, HandlerIs, <2>1
       DEF Raising, Running, StageInv, CalibrationTypeOK, ProgramTypeOK, Opening,
         Teaching, Recording, Looping, Stops, Closing, Replaying, Stopping
  <2>4. at' \notin Opening \cup Sampling \cup {"point"}
    BY <2>3
  <2> QED
    BY <2>1, <2>2, <2>4
<1>9. CASE Gone
  BY <1>9 DEF Gone
<1>10. CASE Beside
  BY <1>10, BesideKeeps DEF progVars, captureVars, runVars, routeVars
<1>11. CASE AskArms
  BY <1>11 DEF AskArms
<1>12. CASE ArmsAnswer
  <2>1. at' = AfterCall /\ waits /\ at \in DOMAIN Calls
    BY <1>12 DEF ArmsAnswer, Went, StageInv
  <2>2. UNCHANGED <<stage, program, raised, alarmed, captureVars, runVars, routeVars>>
    BY <1>12 DEF ArmsAnswer, Went
  <2> QED
    BY <2>1, <2>2, AfterCallIs, CallsAre DEF captureVars, runVars, routeVars
<1>13. CASE CreateRun
  BY <1>13 DEF CreateRun, Plain, Went, Unmoved, Saved, Written
<1>14. CASE SaveResult
  BY <1>14 DEF SaveResult, Plain, Went, Unmoved, Saved
<1>15. CASE SaveRun
  BY <1>15 DEF SaveRun, Plain, Went, Unmoved, Saved
<1>16. CASE Point
  <2>1. at = "point" /\ at' = "board" /\ pointer' = program
    BY <1>16 DEF Point, Plain, Went
  <2>2. UNCHANGED <<program, run, disk, split>>
    BY <1>16 DEF Point, Plain, Went
  <2>3. disk[program] = run /\ run.hashed = split[program]
    BY <2>1 DEF RunInv
  <2> QED
    BY <2>1, <2>2, <2>3
<1>17. CASE Split
  <2>1. at = "finalize" /\ at' = "digest" /\ UNCHANGED <<program, run, disk, pointer>>
    BY <1>17 DEF Split, Plain, Went
  <2>2. \A n \in (0..MaxPrograms) \ {program} : split'[n] = split[n]
    BY <1>17 DEF Split
  <2>3. pointer \in (0..MaxPrograms) \ {program}
    BY <2>1
  <2>4. split'[pointer] = split[pointer]
    BY <2>2, <2>3
  <2>5. \A n \in 0..MaxPrograms : n > program => split'[n] = {}
    BY <2>2
  <2>6. at' \notin Opening \cup Sampling \cup Stops \cup {"finalize"}
    BY <2>1
  <2> QED
    BY <2>1, <2>4, <2>5, <2>6
<1>18. CASE Digest
  <2>1. at = "digest" /\ at' = "finalize" /\ UNCHANGED <<program, disk, split, pointer>>
    BY <1>18 DEF Digest, Plain, Went
  <2>2. run'.hashed = split[program]
    BY <1>18 DEF Digest
  <2> QED
    BY <2>1, <2>2
<1>19. CASE UNCHANGED calibrationVars
  BY <1>19 DEF calibrationVars, armVars, motionVars, poseVars, progVars, cameraVars,
       captureVars, runVars, routeVars, bounds
<1> QED
  BY <1>1, <1>2, <1>3, <1>4, <1>5, <1>6, <1>7, <1>8, <1>9, <1>10, <1>11, <1>12, <1>13,
       <1>14, <1>15, <1>16, <1>17, <1>18, <1>19, StepCases

(* Evidence is never lost. *)
LEMMA EvidenceStep ==
    ASSUME CalibrationInv, [CalibrationNext]_calibrationVars
    PROVE  EvidenceInv'
<1> USE RouteFacts DEF CalibrationInv, CalibrationTypeOK, ProgramTypeOK, FilesTypeOK,
    CaptureTypeOK, RunTypeOK, RouteTypeOK, EvidenceInv
<1> DEFINE Kept == UNCHANGED <<program, evidence, disk>> /\ run'.observations = run.observations
<1>0. Kept => EvidenceInv'
  BY DEF Evidenced
<1>1. CASE StartSystem \/ StartCamera \/ CameraOpens \/ StartNodes \/ OpenArms
          \/ ArchiveRoute
  <2>1. Kept
    BY <1>1 DEF StartSystem, Went, Unmoved, StartCamera, CameraOpens, Plain, StartNodes,
         OpenArms, ArchiveRoute, runVars, captureVars, Runs
  <2> QED
    BY <2>1, <1>0
<1>2. CASE NewRoute \/ LookAtArms \/ NoKey \/ DeleteLast \/ PressSave \/ CloseWindow
  <2>1. Kept
    BY <1>2 DEF NewRoute, Plain, Went, Unmoved, LookAtArms, NoKey, Keyed, DeleteLast,
         PressSave, CloseWindow, runVars, captureVars, Runs
  <2> QED
    BY <2>1, <1>0
<1>3. CASE SaveEvidence \/ SaveRoute \/ Conclude \/ Preflight \/ MakeThread
          \/ StartThread
  <2>1. Kept
    BY <1>3 DEF SaveEvidence, Plain, Went, Unmoved, SaveRoute, Conclude, Preflight,
         MakeControl, MakeThread, StartThread, runVars, captureVars, Runs
  <2> QED
    BY <2>1, <1>0
<1>4. CASE StartMove \/ Look \/ KeepWaiting \/ Arrive \/ OpenWindow \/ CaptureGoesOn
  <2>1. Kept
    BY <1>4 DEF StartMove, Plain, Went, MayMove, Move, Before, Look, Unmoved, KeepWaiting,
         Sampled, Arrive, AtGoal, OpenWindow, CaptureGoesOn, runVars, captureVars, Runs
  <2> QED
    BY <2>1, <1>0
<1>5. CASE CaptureEnds \/ NextMove \/ Split \/ Digest \/ Finalize \/ Stop \/ Join \/ SaveTrace
  <2>1. Kept
    BY <1>5 DEF CaptureEnds, Sampled, Plain, Went, AtGoal, NextMove, Unmoved, Split, Digest,
       Finalize,
         Written, Stop, Join, SaveTrace, runVars, captureVars, Runs
  <2> QED
    BY <2>1, <1>0
<1>6. CASE Point \/ BoardTaken \/ Parked \/ Release
  <2>1. Kept
    BY <1>6 DEF Point, Plain, Went, Unmoved, BoardTaken, Parked, Release, runVars,
         captureVars, Runs
  <2> QED
    BY <2>1, <1>0
<1>7. CASE Gone
  <2>1. Kept
    BY <1>7 DEF Gone, runVars
  <2> QED
    BY <2>1, <1>0
<1>8. CASE AskArms
  <2>1. Kept
    BY <1>8 DEF AskArms, runVars, progVars
  <2> QED
    BY <2>1, <1>0
<1>9. CASE ArmsAnswer
  <2>1. Kept
    BY <1>9 DEF ArmsAnswer, Went, runVars
  <2> QED
    BY <2>1, <1>0
<1>10. CASE Raising
  <2>1. Kept
    BY <1>10 DEF Raising, Raise, Runs
  <2> QED
    BY <2>1, <1>0
<1>11. CASE Beside
  <2>1. Kept
    BY <1>11, BesideKeeps DEF progVars, runVars
  <2> QED
    BY <2>1, <1>0
<1>12. CASE \E s \in {"teach", "record"} : StartProgram(s)
  <2>1. run'.observations = {} /\ UNCHANGED <<evidence, disk>>
    BY <1>12 DEF StartProgram, NoRun
  <2> QED
    BY <2>1 DEF Evidenced
<1>13. CASE SaveObservation
  <2>1. run'.observations = run.observations \cup {step} /\ UNCHANGED <<disk, program>>
    BY <1>13 DEF SaveObservation, Plain, Went, Runs
  <2>2. \E e \in evidence' : e.run = program /\ e.step = step
    <3> DEFINE e == [run |-> program, step |-> step, image |-> best.image.pose,
                     actual |-> best.actual]
    <3>1. e \in evidence' /\ e.run = program /\ e.step = step
      BY <1>13 DEF SaveObservation
    <3> QED
      BY <3>1
  <2>3. evidence \subseteq evidence'
    BY <1>13 DEF SaveObservation
  <2>4. Evidenced(run, program)'
    BY <2>1, <2>2, <2>3 DEF Evidenced
  <2>5. \A n \in 0..MaxPrograms : Evidenced(disk[n], n)'
    BY <2>1, <2>3 DEF Evidenced
  <2> QED
    BY <2>1, <2>4, <2>5
<1>14. CASE CreateRun
  <2>1. /\ run'.observations = run.observations /\ UNCHANGED <<evidence, program>>
        /\ disk' = [disk EXCEPT ![program] = run']
    BY <1>14 DEF CreateRun, Saved, Written, Plain, Went, Runs
  <2>2. Evidenced(run', program)
    BY <2>1 DEF Evidenced
  <2>3. \A n \in 0..MaxPrograms : disk'[n] = IF n = program THEN run' ELSE disk[n]
    BY <2>1
  <2>4. \A n \in 0..MaxPrograms : Evidenced(disk'[n], n)
    BY <2>2, <2>3
  <2> QED
    BY <2>1, <2>2, <2>4 DEF Evidenced
<1>15. CASE SaveResult
  <2>1. /\ run'.observations = run.observations /\ UNCHANGED <<evidence, program>>
        /\ disk' = [disk EXCEPT ![program] = run']
    BY <1>15 DEF SaveResult, Saved, Plain, Went, Runs
  <2>2. Evidenced(run', program)
    BY <2>1 DEF Evidenced
  <2>3. \A n \in 0..MaxPrograms : disk'[n] = IF n = program THEN run' ELSE disk[n]
    BY <2>1
  <2>4. \A n \in 0..MaxPrograms : Evidenced(disk'[n], n)
    BY <2>2, <2>3
  <2> QED
    BY <2>1, <2>2, <2>4 DEF Evidenced
<1>16. CASE SaveRun
  <2>1. /\ run'.observations = run.observations /\ UNCHANGED <<evidence, program>>
        /\ disk' = [disk EXCEPT ![program] = run']
    BY <1>16 DEF SaveRun, Saved, Plain, Went, Runs
  <2>2. Evidenced(run', program)
    BY <2>1 DEF Evidenced
  <2>3. \A n \in 0..MaxPrograms : disk'[n] = IF n = program THEN run' ELSE disk[n]
    BY <2>1
  <2>4. \A n \in 0..MaxPrograms : Evidenced(disk'[n], n)
    BY <2>2, <2>3
  <2> QED
    BY <2>1, <2>2, <2>4 DEF Evidenced
<1>17. CASE UNCHANGED calibrationVars
  <2>1. Kept
    BY <1>17 DEF calibrationVars, progVars, runVars
  <2> QED
    BY <2>1, <1>0
<1> QED
  BY <1>1, <1>2, <1>3, <1>4, <1>5, <1>6, <1>7, <1>8, <1>9, <1>10, <1>11, <1>12, <1>13,
       <1>14, <1>15, <1>16, <1>17, StepCases

(* The first elements of a sequence are the elements of its prefix. *)
LEMMA PrefixOf ==
    ASSUME NEW S, NEW p \in Seq(S), NEW n \in 0..Len(p)
    PROVE  \A i \in DOMAIN SubSeq(p, 1, n) : i \in DOMAIN p /\ SubSeq(p, 1, n)[i] = p[i]
<1>1. \A i \in 1..n : p[i] \in S
  OBVIOUS
<1>2. 1 \in Int /\ n \in Int
  OBVIOUS
<1>3. /\ SubSeq(p, 1, n) \in Seq(S)
      /\ Len(SubSeq(p, 1, n)) = IF 1 <= n THEN n - 1 + 1 ELSE 0
      /\ \A i \in 1..(n - 1 + 1) : SubSeq(p, 1, n)[i] = p[1 + i - 1]
  BY <1>1, <1>2, SubSeqProperties
<1> QED
  BY <1>3

(* The route on disk names only poses with evidence, and a finished one is *)
(* never lost.                                                             *)
LEMMA RouteStep ==
    ASSUME CalibrationInv, [CalibrationNext]_calibrationVars
    PROVE  RouteInv'
<1> USE DEF CalibrationInv, CalibrationTypeOK, FilesTypeOK, CaptureTypeOK, RunTypeOK,
    RouteTypeOK, Routes,
     RouteInv, Drafting
<1> DEFINE Kept == /\ UNCHANGED <<route, file, history, shown, finished>>
                   /\ at' \in Drafting => at \in Drafting
                   /\ at' \in {"store", "draft"} => at' = at /\ chosen' = chosen
<1>0. Kept => RouteInv'
  BY DEF Shown
<1>1. CASE StartSystem \/ StartCamera \/ CameraOpens \/ StartNodes \/ OpenArms
          \/ LookAtArms
  <2>1. Kept
    BY <1>1 DEF StartSystem, Went, Unmoved, StartCamera, CameraOpens, Plain, StartNodes,
         OpenArms, LookAtArms, routeVars
  <2> QED
    BY <2>1, <1>0
<1>2. CASE NoKey \/ CloseWindow \/ CreateRun \/ Preflight \/ MakeThread \/ StartThread
  <2>1. Kept
    BY <1>2 DEF NoKey, Keyed, Plain, Went, Unmoved, CloseWindow, CreateRun, Saved, Written,
         Preflight, MakeControl, MakeThread, StartThread, routeVars
  <2> QED
    BY <2>1, <1>0
<1>3. CASE StartMove \/ Look \/ KeepWaiting \/ Arrive \/ OpenWindow \/ CaptureGoesOn
  <2>1. Kept
    BY <1>3 DEF StartMove, Plain, Went, MayMove, Move, Before, Look, Unmoved, KeepWaiting,
         Sampled, Arrive, AtGoal, OpenWindow, CaptureGoesOn, routeVars
  <2> QED
    BY <2>1, <1>0
<1>4. CASE CaptureEnds \/ SaveObservation \/ SaveResult \/ NextMove \/ Split \/ Digest
          \/ Finalize \/ Stop
  <2>1. Kept
    BY <1>4 DEF CaptureEnds, Sampled, Plain, Went, AtGoal, SaveObservation, Unmoved,
         SaveResult, Saved, NextMove, Split, Digest, Finalize, Written, Stop, routeVars
  <2> QED
    BY <2>1, <1>0
<1>5. CASE Join \/ SaveTrace \/ SaveRun \/ Point \/ BoardTaken \/ Parked
  <2>1. Kept
    BY <1>5 DEF Join, Plain, Went, SaveTrace, Unmoved, SaveRun, Saved, Point, BoardTaken,
         Parked, routeVars
  <2> QED
    BY <2>1, <1>0
<1>6. CASE Release
  <2>1. Kept
    BY <1>6 DEF Release, Went, routeVars
  <2> QED
    BY <2>1, <1>0
<1>7. CASE \E s \in {"teach", "record"} : StartProgram(s)
  <2>1. route' = NoRoute /\ UNCHANGED <<file, history, shown, finished>> /\ at' = "system"
    BY <1>7 DEF StartProgram
  <2>2. Shown(route)'
    BY <2>1 DEF Shown, NoRoute
  <2>3. Shown(file)'
    BY <2>1 DEF Shown
  <2> QED
    BY <2>1, <2>2, <2>3
<1>8. CASE ArchiveRoute
  <2>1. UNCHANGED <<route, file, shown, finished>> /\ history' = history \cup {file} /\ at' = "draft"
    BY <1>8 DEF ArchiveRoute, Plain, Went
  <2>2. Shown(route)' /\ Shown(file)'
    BY <2>1 DEF Shown
  <2> QED
    BY <2>1, <2>2
<1>9. CASE NewRoute
  <2>1. /\ UNCHANGED <<history, shown, finished>> /\ at' = "teach" /\ file' = route' /\ at = "draft"
        /\ route' = [NoRoute EXCEPT !.id = program]
    BY <1>9 DEF NewRoute, Plain, Went
  <2>2. route'.points = <<>> /\ route'.draft
    BY <2>1 DEF NoRoute
  <2>3. Shown(route)' /\ Shown(file)'
    BY <2>1, <2>2 DEF Shown
  <2> QED
    BY <2>1, <2>2, <2>3
<1>10. CASE DeleteLast
  <2>1. /\ UNCHANGED <<history, shown, finished>> /\ at' = "poll" /\ file' = route' /\ at = "key"
        /\ route' = [route EXCEPT !.points = SubSeq(@, 1, Len(@) - 1)]
    BY <1>10 DEF DeleteLast, Keyed, Plain, Went
  <2>2. /\ route'.points = SubSeq(route.points, 1, Len(route.points) - 1)
        /\ route'.draft = route.draft /\ route'.id = route.id
    BY <2>1
  <2>3. route.points # <<>>
    BY <1>10 DEF DeleteLast
  <2>4. \A i \in DOMAIN route'.points : i \in DOMAIN route.points /\ route'.points[i] = route.points[i]
    <3> DEFINE n == Len(route.points) - 1
    <3>1. route.points \in Seq(Nat) /\ n \in 0..Len(route.points)
      BY <2>3
    <3> HIDE DEF n
    <3>2. \A i \in DOMAIN SubSeq(route.points, 1, n) :
             i \in DOMAIN route.points /\ SubSeq(route.points, 1, n)[i] = route.points[i]
      BY ONLY <3>1, PrefixOf
    <3>3. route'.points = SubSeq(route.points, 1, n)
      BY <2>2 DEF n
    <3> QED
      BY <3>2, <3>3
  <2>5. Shown(route)' /\ Shown(file)'
    BY <2>1, <2>2, <2>4 DEF Shown
  <2> QED
    BY <2>1, <2>2, <2>5
<1>11. CASE PressSave
  <2>1. UNCHANGED <<route, file, history, shown, finished>> /\ at = "key" /\ at' = "shoot"
    BY <1>11 DEF PressSave, Keyed, Plain, Went
  <2>2. Shown(route)' /\ Shown(file)'
    BY <2>1 DEF Shown
  <2> QED
    BY <2>1, <2>2
<1>12. CASE SaveEvidence
  <2>1. /\ UNCHANGED <<route, chosen, file, history, finished>> /\ at = "shoot" /\ at' = "store"
        /\ shown' = shown \cup {<<route.id, chosen>>}
    BY <1>12 DEF SaveEvidence, Plain, Went
  <2>2. Shown(route)' /\ Shown(file)'
    BY <2>1 DEF Shown
  <2> QED
    BY <2>1, <2>2
<1>13. CASE SaveRoute
  <2>1. /\ UNCHANGED <<history, shown, finished>> /\ at' = "poll" /\ file' = route' /\ at = "store"
        /\ route' = [route EXCEPT !.points = Append(@, chosen)]
    BY <1>13 DEF SaveRoute, Plain, Went
  <2>2. /\ route'.points = Append(route.points, chosen)
        /\ route'.draft = route.draft /\ route'.id = route.id
    BY <2>1
  <2>4. \A i \in DOMAIN route'.points :
           route'.points[i] = chosen \/ (i \in DOMAIN route.points /\ route'.points[i] = route.points[i])
    BY <2>2
  <2>5. Shown(route)' /\ Shown(file)'
    BY <2>1, <2>2, <2>4 DEF Shown
  <2> QED
    BY <2>1, <2>2, <2>5
<1>14. CASE Conclude
  <2>1. /\ UNCHANGED <<route, history, shown>> /\ at' = "board" /\ at = "conclude"
    BY <1>14 DEF Conclude, Plain, Went
  <2>2. \E invalid \in BOOLEAN : file' = [route EXCEPT !.draft = invalid]
    BY <1>14 DEF Conclude
  <2>3. file'.points = route.points /\ file'.id = route.id
    BY <2>2
  <2>4. Shown(route)' /\ Shown(file)'
    BY <2>1, <2>3 DEF Shown
  <2>5. finished' = IF file'.draft THEN finished ELSE finished \cup {file'}
    BY <1>14 DEF Conclude
  <2> QED
    BY <2>1, <2>4, <2>5
<1>15. CASE Raising
  <2>1. Kept
    <3>1. at' \in {"release", "save", "stop", "trace", "board"}
      BY <1>15, HandlerIs
         DEF Raising, Raise, Running, StageInv, CalibrationTypeOK, ProgramTypeOK,
             Opening,
           Teaching, Recording, Looping, Stops, Closing, Replaying, Stopping
    <3> QED
      BY <1>15, <3>1 DEF Raising, Raise, routeVars, runVars
  <2> QED
    BY <2>1, <1>0
<1>16. CASE Gone
  <2>1. Kept
    BY <1>16 DEF Gone, routeVars, runVars, captureVars
  <2> QED
    BY <2>1, <1>0
<1>17. CASE Beside
  <2>1. Kept
    BY <1>17, BesideKeeps DEF progVars, captureVars, runVars, routeVars
  <2> QED
    BY <2>1, <1>0
<1>18. CASE AskArms
  <2>1. Kept
    BY <1>18 DEF AskArms, routeVars, runVars, captureVars, cameraVars
  <2> QED
    BY <2>1, <1>0
<1>19. CASE ArmsAnswer
  <2>1. Kept
    <3>1. at' = AfterCall /\ waits /\ at \in DOMAIN Calls
      BY <1>19 DEF ArmsAnswer, Went, StageInv
    <3> QED
      BY <1>19, <3>1, AfterCallIs, CallsAre
         DEF ArmsAnswer, Went, routeVars, runVars, captureVars, cameraVars,
             Unmoved,
         armVars, motionVars, poseVars
  <2> QED
    BY <2>1, <1>0
<1>20. CASE UNCHANGED calibrationVars
  <2>1. Kept
    BY <1>20 DEF calibrationVars, armVars, motionVars, poseVars, progVars, cameraVars,
         captureVars, runVars, routeVars
  <2> QED
    BY <2>1, <1>0
<1> QED
  BY <1>1, <1>2, <1>3, <1>4, <1>5, <1>6, <1>7, <1>8, <1>9, <1>10, <1>11, <1>12, <1>13,
       <1>14, <1>15, <1>16, <1>17, <1>18, <1>19, <1>20, StepCases

(* What happens beside the main thread is one of these, ... *)
LEMMA BesideCases ==
    ASSUME Beside
    PROVE  \/ CameraStep
           \/ \E a \in Side, s \in Service : Serve(a, s)
           \/ Tick
           \/ Leaves
           \/ AskHold
           \/ HoldReturns
           \/ HoldTimesOut
           \/ TickFails
           \/ PublishTargets
           \/ SegmentEnds
           \/ FeedbackReturns
           \/ FeedbackGap
           \/ FeedbackBreaks
           \/ \E a \in Side : Watchdog(a)
           \/ stage = "teach" /\ \E p \in Nat : Hand(p)
           \/ Bump
           \/ CameraDies
           \/ \E a \in Side : NodeDies(a)
<1>1. CASE CameraStep
  BY <1>1
<1>2. CASE ArmStep
  <2>1. CASE MotionSteps
    BY <2>1 DEF MotionSteps
  <2>2. CASE stage = "teach" /\ \E p \in TeachPoses \cup {Elsewhere} : Hand(p)
    BY <2>2, CalibrationAssumption DEF Elsewhere
  <2> QED
    BY <1>2, <2>1, <2>2 DEF ArmStep
<1>3. CASE DeviceFault
  BY <1>3 DEF DeviceFault
<1> QED
  BY <1>1, <1>2, <1>3 DEF Beside

(* ... and only the camera writes into its slot. *)
LEMMA SlotKeeps ==
    ASSUME Beside
    PROVE  CameraStep \/ slot' = slot
<1>1. CASE ArmStep
  BY <1>1 DEF ArmStep, cameraVars
<1>2. CASE DeviceFault
  BY <1>2 DEF DeviceFault, cameraVars, CameraDies, NodeDies
<1> QED
  BY <1>1, <1>2 DEF Beside

(* Beside the main thread the arms leave the goal of an open window only   *)
(* when they are pushed.                                                   *)
LEMMA WindowBeside ==
    ASSUME CalibrationInv, Beside
    PROVE  WindowInv'
<1> USE DEF CalibrationInv, StageInv, WindowInv, Teaching, Recording, Looping, Elsewhere
<1>1. CASE CameraStep
  <2>1. UNCHANGED <<at, open, step, goal, frame, elapsed, bumped, pose>>
    BY <1>1, BesideKeeps DEF CameraStep, Unmoved, progVars, captureVars, motionVars, poseVars
  <2>2. slot'.pose = pose /\ slot'.after = open
    BY <1>1 DEF CameraStep, Expose
  <2> QED
    BY <2>1, <2>2
<1>2. SUFFICES ASSUME slot' = slot PROVE WindowInv'
  BY <1>1, SlotKeeps
<1>3. CASE \E a \in Side, s \in Service : Serve(a, s)
  BY <1>3, BesideKeeps, <1>2 DEF Serve, progVars, captureVars, armVars, motionVars,
       poseVars
<1>4. CASE Tick
  BY <1>4, BesideKeeps, <1>2 DEF Tick, Halt, progVars, captureVars, armVars, motionVars,
       poseVars
<1>5. CASE Leaves
  BY <1>5, BesideKeeps, <1>2 DEF Leaves, Halt, progVars, captureVars, armVars, motionVars,
       poseVars
<1>6. CASE AskHold
  BY <1>6, BesideKeeps, <1>2 DEF AskHold, Ask, progVars, captureVars, armVars, motionVars,
       poseVars
<1>7. CASE HoldReturns
  BY <1>7, BesideKeeps, <1>2 DEF HoldReturns, Halt, progVars, captureVars, armVars,
       motionVars, poseVars
<1>8. CASE HoldTimesOut
  BY <1>8, BesideKeeps, <1>2 DEF HoldTimesOut, Abandon, Disown, progVars, captureVars,
       armVars, motionVars, poseVars
<1>9. CASE TickFails
  BY <1>9, BesideKeeps, <1>2 DEF TickFails, Streaming, progVars, captureVars, armVars,
       motionVars, poseVars
<1>10. CASE SegmentEnds
  BY <1>10, BesideKeeps, <1>2 DEF SegmentEnds, progVars, captureVars, armVars, motionVars,
       poseVars
<1>11. CASE FeedbackReturns
  BY <1>11, BesideKeeps, <1>2 DEF FeedbackReturns, progVars, captureVars, armVars,
       motionVars, poseVars
<1>12. CASE FeedbackGap
  BY <1>12, BesideKeeps, <1>2 DEF FeedbackGap, progVars, captureVars, armVars, motionVars,
       poseVars
<1>13. CASE FeedbackBreaks
  BY <1>13, BesideKeeps, <1>2 DEF FeedbackBreaks, progVars, captureVars, armVars,
       motionVars, poseVars
<1>14. CASE \E a \in Side : Watchdog(a)
  BY <1>14, BesideKeeps, <1>2 DEF Watchdog, progVars, captureVars, armVars, motionVars,
       poseVars
<1>15. CASE stage = "teach" /\ \E p \in Nat : Hand(p)
  BY <1>15, BesideKeeps, <1>2 DEF Hand, progVars, captureVars, armVars, motionVars,
       poseVars
<1>16. CASE Bump
  BY <1>16, BesideKeeps, <1>2 DEF Bump, progVars, captureVars, armVars, motionVars,
       poseVars
<1>17. CASE CameraDies
  BY <1>17, BesideKeeps, <1>2 DEF CameraDies, Unmoved, progVars, captureVars, armVars,
       motionVars, poseVars
<1>18. CASE \E a \in Side : NodeDies(a)
  BY <1>18, BesideKeeps, <1>2 DEF NodeDies, progVars, captureVars, armVars, motionVars,
       poseVars
<1>19. CASE PublishTargets
  <2>1. /\ UNCHANGED <<at, open, step, goal, frame, elapsed, bumped>> /\ slot' = slot
        /\ pose' \in Driven
    BY <1>19, <1>2, BesideKeeps DEF PublishTargets, progVars, captureVars,
         motionVars, armVars
  <2>2. elapsed => pose' = pose \/ (~bumped /\ pose' = goal)
    BY <2>1 DEF Driven
  <2> QED
    BY <2>1, <2>2
<1> QED
  BY <1>1, <1>3, <1>4, <1>5, <1>6, <1>7, <1>8, <1>9, <1>10, <1>11, <1>12, <1>13, <1>14,
       <1>15, <1>16, <1>17, <1>18, <1>19, BesideCases

(* What the open window and its images are worth.                          *)
LEMMA WindowStep ==
    ASSUME CalibrationInv, [CalibrationNext]_calibrationVars
    PROVE  WindowInv'
<1> USE DEF CalibrationInv, StageInv, WindowInv, CalibrationTypeOK, FilesTypeOK,
    CaptureTypeOK, RunTypeOK,
     RouteTypeOK, ProgramTypeOK, NoImage, NoBest, Elsewhere, Images, armVars, motionVars,
     poseVars, cameraVars, captureVars
<1>1. CASE StartSystem \/ StartCamera \/ CameraOpens \/ StartNodes \/ OpenArms
          \/ ArchiveRoute
  BY <1>1 DEF StartSystem, Went, Unmoved, StartCamera, CameraOpens, Plain, StartNodes,
       OpenArms, ArchiveRoute
<1>2. CASE NewRoute \/ LookAtArms \/ NoKey \/ DeleteLast \/ PressSave \/ CloseWindow
  BY <1>2 DEF NewRoute, Plain, Went, Unmoved, LookAtArms, NoKey, Keyed, DeleteLast,
       PressSave, CloseWindow
<1>3. CASE SaveEvidence \/ SaveRoute \/ Conclude \/ CreateRun \/ Preflight
          \/ MakeThread
  BY <1>3 DEF SaveEvidence, Plain, Went, Unmoved, SaveRoute, Conclude, CreateRun, Saved,
       Written, Preflight, MakeControl, MakeThread
<1>4. CASE StartThread \/ Arrive \/ SaveObservation \/ SaveResult \/ NextMove
          \/ Split \/ Digest \/ Finalize
  BY <1>4 DEF StartThread, Plain, Went, Arrive, Sampled, AtGoal, SaveObservation, Unmoved,
       SaveResult, Saved, NextMove, Split, Digest, Finalize, Written
<1>5. CASE Stop \/ Join \/ SaveTrace \/ SaveRun \/ Point \/ BoardTaken
  BY <1>5 DEF Stop, Plain, Went, Join, SaveTrace, Unmoved, SaveRun, Saved, Point,
       BoardTaken
<1>6. CASE Parked
  BY <1>6 DEF Parked, Plain, Went, Unmoved
<1>7. CASE \E s \in {"teach", "record"} : StartProgram(s)
  BY <1>7 DEF StartProgram
<1>8. CASE Raising
  <2>1. at' \in {"release", "save", "stop", "trace", "board"}
    BY <1>8, HandlerIs
       DEF Raising, Raise, Running, StageInv, CalibrationTypeOK, ProgramTypeOK,
           Opening,
         Teaching, Recording, Looping, Stops, Closing, Replaying, Stopping
  <2>2. open' = FALSE
    BY <1>8 DEF Raising, Raise, routeVars
  <2> QED
    BY <2>1, <2>2
<1>9. CASE Gone
  BY <1>9 DEF Gone
<1>10. CASE Beside
  BY <1>10, WindowBeside
<1>11. CASE AskArms
  BY <1>11, CallsAre DEF AskArms
<1>12. CASE ArmsAnswer
  <2>1. at' = AfterCall /\ at \in DOMAIN Calls
    BY <1>12 DEF ArmsAnswer, Went, StageInv
  <2>2. at' \in {"archive", "create", "poll", "make", "trace", "hands"}
    BY <2>1, AfterCallIs, CallsAre
  <2>3. open' = open
    BY <1>12, <2>1, <2>2, CallsAre DEF ArmsAnswer, Went, Unmoved, captureVars
  <2> QED
    BY <2>1, <2>2, <2>3, CallsAre
<1>13. CASE StartMove
  BY <1>13 DEF StartMove, Plain, Went, MayMove, Move, Before
<1>14. CASE Look
  BY <1>14 DEF Look, Plain, Went, Unmoved
<1>15. CASE KeepWaiting
  BY <1>15 DEF KeepWaiting, Sampled, Plain, Went
<1>16. CASE OpenWindow
  BY <1>16 DEF OpenWindow, Sampled, Plain, Went, AtGoal
<1>17. CASE CaptureGoesOn
  BY <1>17 DEF CaptureGoesOn, Sampled, Plain, Went, AtGoal
<1>18. CASE CaptureEnds
  BY <1>18 DEF CaptureEnds, Sampled, Plain, Went, AtGoal
<1>19. CASE Release
  BY <1>19 DEF Release, Went
<1>20. CASE UNCHANGED calibrationVars
  BY <1>20 DEF calibrationVars, armVars, motionVars, poseVars, progVars, cameraVars,
       captureVars, runVars, routeVars, bounds
<1> QED
  BY <1>1, <1>2, <1>3, <1>4, <1>5, <1>6, <1>7, <1>8, <1>9, <1>10, <1>11, <1>12, <1>13,
       <1>14, <1>15, <1>16, <1>17, <1>18, <1>19, <1>20, StepCases

(* The image that is kept shows the pose of the move, and so did the arms. *)
LEMMA BestStep ==
    ASSUME CalibrationInv, [CalibrationNext]_calibrationVars
    PROVE  BestInv'
<1> USE DEF CalibrationInv, StageInv, WindowInv, CalibrationTypeOK, FilesTypeOK,
    CaptureTypeOK, RunTypeOK,
     RouteTypeOK, ProgramTypeOK, NoImage, NoBest, Elsewhere, Images, armVars, motionVars,
     poseVars, cameraVars, captureVars, BestInv
<1>1. CASE StartSystem \/ StartCamera \/ CameraOpens \/ StartNodes \/ OpenArms
          \/ ArchiveRoute
  BY <1>1 DEF StartSystem, Went, Unmoved, StartCamera, CameraOpens, Plain, StartNodes,
       OpenArms, ArchiveRoute
<1>2. CASE NewRoute \/ LookAtArms \/ NoKey \/ DeleteLast \/ PressSave \/ CloseWindow
  BY <1>2 DEF NewRoute, Plain, Went, Unmoved, LookAtArms, NoKey, Keyed, DeleteLast,
       PressSave, CloseWindow
<1>3. CASE SaveEvidence \/ SaveRoute \/ Conclude \/ CreateRun \/ Preflight
          \/ MakeThread
  BY <1>3 DEF SaveEvidence, Plain, Went, Unmoved, SaveRoute, Conclude, CreateRun, Saved,
       Written, Preflight, MakeControl, MakeThread
<1>4. CASE StartThread \/ Arrive \/ SaveObservation \/ SaveResult \/ NextMove
          \/ Split \/ Digest \/ Finalize
  BY <1>4 DEF StartThread, Plain, Went, Arrive, Sampled, AtGoal, SaveObservation, Unmoved,
       SaveResult, Saved, NextMove, Split, Digest, Finalize, Written
<1>5. CASE Stop \/ Join \/ SaveTrace \/ SaveRun \/ Point \/ BoardTaken
  BY <1>5 DEF Stop, Plain, Went, Join, SaveTrace, Unmoved, SaveRun, Saved, Point,
       BoardTaken
<1>6. CASE Parked
  BY <1>6 DEF Parked, Plain, Went, Unmoved
<1>7. CASE \E s \in {"teach", "record"} : StartProgram(s)
  BY <1>7 DEF StartProgram
<1>8. CASE Raising
  <2>1. at' \in {"release", "save", "stop", "trace", "board"}
    BY <1>8, HandlerIs
       DEF Raising, Raise, Running, StageInv, CalibrationTypeOK, ProgramTypeOK,
           Opening,
         Teaching, Recording, Looping, Stops, Closing, Replaying, Stopping
  <2>2. best' = NoBest
    BY <1>8 DEF Raising, Raise, routeVars
  <2> QED
    BY <2>1, <2>2
<1>9. CASE Gone
  BY <1>9 DEF Gone
<1>10. CASE Beside
  BY <1>10, BesideKeeps DEF progVars, captureVars
<1>11. CASE AskArms
  BY <1>11, CallsAre DEF AskArms
<1>12. CASE ArmsAnswer
  <2>1. at' = AfterCall /\ at \in DOMAIN Calls
    BY <1>12 DEF ArmsAnswer, Went, StageInv
  <2>2. at' \in {"archive", "create", "poll", "make", "trace", "hands"}
    BY <2>1, AfterCallIs, CallsAre
  <2>3. TRUE
    BY <1>12 DEF ArmsAnswer, Went, Unmoved, captureVars
  <2> QED
    BY <2>1, <2>2, <2>3, CallsAre
<1>13. CASE StartMove
  BY <1>13 DEF StartMove, Plain, Went, MayMove, Move, Before
<1>14. CASE Look
  BY <1>14 DEF Look, Plain, Went, Unmoved
<1>15. CASE KeepWaiting
  BY <1>15 DEF KeepWaiting, Sampled, Plain, Went
<1>16. CASE OpenWindow
  BY <1>16 DEF OpenWindow, Sampled, Plain, Went, AtGoal
<1>17. CASE CaptureGoesOn
  <2>1. best' \in Choices /\ at' = "look" /\ at = "judge" /\ step' = step
    BY <1>17 DEF CaptureGoesOn, Sampled, Plain, Went
  <2>2. open /\ pose = goal /\ goal = step /\ step # 0
    BY <1>17 DEF CaptureGoesOn, Sampled, Plain, Went, AtGoal
  <2>3. Within(frame) => frame.pose = step
    BY <2>1, <2>2 DEF Within
  <2> QED
    BY <2>1, <2>2, <2>3 DEF Choices
<1>18. CASE CaptureEnds
  <2>1. /\ best' \in Choices /\ at' \in {"note", "result"} /\ at = "judge" /\ step' = step
        /\ (at' = "note") = best'.image.is
    BY <1>18 DEF CaptureEnds, Sampled, Plain, Went
  <2>2. open /\ pose = goal /\ goal = step /\ step # 0
    BY <1>18 DEF CaptureEnds, Sampled, Plain, Went, AtGoal
  <2>3. Within(frame) => frame.pose = step
    BY <2>1, <2>2 DEF Within
  <2> QED
    BY <2>1, <2>2, <2>3 DEF Choices
<1>19. CASE Release
  BY <1>19 DEF Release, Went
<1>20. CASE UNCHANGED calibrationVars
  BY <1>20 DEF calibrationVars, armVars, motionVars, poseVars, progVars, cameraVars,
       captureVars, runVars, routeVars, bounds
<1> QED
  BY <1>1, <1>2, <1>3, <1>4, <1>5, <1>6, <1>7, <1>8, <1>9, <1>10, <1>11, <1>12, <1>13,
       <1>14, <1>15, <1>16, <1>17, <1>18, <1>19, <1>20, StepCases

(* An observation is of the move it is filed under.                        *)
LEMMA ObservationStep ==
    ASSUME CalibrationInv, [CalibrationNext]_calibrationVars
    PROVE  ObservationShowsItsPose'
<1> USE DEF CalibrationInv, ObservationShowsItsPose
<1> DEFINE Kept == UNCHANGED evidence
<1>0. Kept => ObservationShowsItsPose'
  OBVIOUS
<1>1. CASE StartSystem \/ StartCamera \/ CameraOpens \/ StartNodes \/ OpenArms
          \/ ArchiveRoute
  <2>1. Kept
    BY <1>1 DEF StartSystem, Went, Unmoved, StartCamera, CameraOpens, Plain, StartNodes,
         OpenArms, ArchiveRoute, runVars
  <2> QED
    BY <2>1, <1>0
<1>2. CASE NewRoute \/ LookAtArms \/ NoKey \/ DeleteLast \/ PressSave \/ CloseWindow
  <2>1. Kept
    BY <1>2 DEF NewRoute, Plain, Went, Unmoved, LookAtArms, NoKey, Keyed, DeleteLast,
         PressSave, CloseWindow, runVars
  <2> QED
    BY <2>1, <1>0
<1>3. CASE SaveEvidence \/ SaveRoute \/ Conclude \/ CreateRun \/ Preflight
          \/ MakeThread
  <2>1. Kept
    BY <1>3 DEF SaveEvidence, Plain, Went, Unmoved, SaveRoute, Conclude, CreateRun, Saved,
         Written, Preflight, MakeControl, MakeThread, runVars
  <2> QED
    BY <2>1, <1>0
<1>4. CASE StartThread \/ StartMove \/ Look \/ KeepWaiting \/ Arrive \/ OpenWindow
  <2>1. Kept
    BY <1>4 DEF StartThread, Plain, Went, StartMove, MayMove, Move, Before, Look, Unmoved,
         KeepWaiting, Sampled, Arrive, AtGoal, OpenWindow, runVars
  <2> QED
    BY <2>1, <1>0
<1>5. CASE CaptureGoesOn \/ CaptureEnds \/ SaveResult \/ NextMove \/ Split \/ Digest
          \/ Finalize \/ Stop
  <2>1. Kept
    BY <1>5 DEF CaptureGoesOn, Sampled, Plain, Went, AtGoal, CaptureEnds, SaveResult,
         Unmoved, Saved, NextMove, Split, Digest, Finalize, Written, Stop, runVars
  <2> QED
    BY <2>1, <1>0
<1>6. CASE Join \/ SaveTrace \/ SaveRun \/ Point \/ BoardTaken \/ Parked
  <2>1. Kept
    BY <1>6 DEF Join, Plain, Went, SaveTrace, Unmoved, SaveRun, Saved, Point, BoardTaken,
         Parked, runVars
  <2> QED
    BY <2>1, <1>0
<1>7. CASE Release
  <2>1. Kept
    BY <1>7 DEF Release, Went, runVars
  <2> QED
    BY <2>1, <1>0
<1>8. CASE SaveObservation
  BY <1>8 DEF SaveObservation, Plain, Went, BestInv
<1>9. CASE \E s \in {"teach", "record"} : StartProgram(s)
  <2>1. Kept
    BY <1>9 DEF StartProgram, routeVars, runVars
  <2> QED
    BY <2>1, <1>0
<1>10. CASE Raising
  <2>1. Kept
    <3>1. at' \in {"release", "save", "stop", "trace", "board"}
      BY <1>10, HandlerIs
         DEF Raising, Raise, Running, StageInv, CalibrationTypeOK, ProgramTypeOK,
             Opening,
           Teaching, Recording, Looping, Stops, Closing, Replaying, Stopping
    <3> QED
      BY <1>10, <3>1 DEF Raising, Raise, routeVars, runVars
  <2> QED
    BY <2>1, <1>0
<1>11. CASE Gone
  <2>1. Kept
    BY <1>11 DEF Gone, routeVars, runVars, captureVars
  <2> QED
    BY <2>1, <1>0
<1>12. CASE Beside
  <2>1. Kept
    BY <1>12, BesideKeeps DEF progVars, captureVars, runVars, routeVars
  <2> QED
    BY <2>1, <1>0
<1>13. CASE AskArms
  <2>1. Kept
    BY <1>13 DEF AskArms, routeVars, runVars, captureVars, cameraVars
  <2> QED
    BY <2>1, <1>0
<1>14. CASE ArmsAnswer
  <2>1. Kept
    <3>1. at' = AfterCall /\ waits /\ at \in DOMAIN Calls
      BY <1>14 DEF ArmsAnswer, Went, StageInv
    <3> QED
      BY <1>14, <3>1, AfterCallIs, CallsAre
         DEF ArmsAnswer, Went, routeVars, runVars, captureVars, cameraVars,
             Unmoved,
         armVars, motionVars, poseVars
  <2> QED
    BY <2>1, <1>0
<1>15. CASE UNCHANGED calibrationVars
  <2>1. Kept
    BY <1>15 DEF calibrationVars, armVars, motionVars, poseVars, progVars, cameraVars,
         captureVars, runVars, routeVars
  <2> QED
    BY <2>1, <1>0
<1> QED
  BY <1>1, <1>2, <1>3, <1>4, <1>5, <1>6, <1>7, <1>8, <1>9, <1>10, <1>11, <1>12, <1>13,
       <1>14, <1>15, StepCases

(* The type of what the capture works on.                                  *)
LEMMA CaptureTypeStep ==
    ASSUME CalibrationInv, [CalibrationNext]_calibrationVars
    PROVE  CaptureTypeOK'
<1> USE RouteFacts DEF CalibrationInv, CalibrationTypeOK, FilesTypeOK, CaptureTypeOK
<1> DEFINE Kept == UNCHANGED <<slot, frame, open, best, step>>
<1>0. Kept => CaptureTypeOK'
  OBVIOUS
<1>i. NoImage \in Images /\ NoBest \in [image : Images, actual : Nat]
  BY DEF NoImage, NoBest, Images, Elsewhere
<1>1. CASE StartSystem \/ StartCamera \/ CameraOpens \/ StartNodes \/ OpenArms
          \/ ArchiveRoute
  <2>1. Kept
    BY <1>1 DEF StartSystem, Went, Unmoved, StartCamera, CameraOpens, Plain, StartNodes,
         OpenArms, ArchiveRoute, cameraVars, captureVars
  <2> QED
    BY <2>1, <1>0
<1>2. CASE NewRoute \/ LookAtArms \/ NoKey \/ DeleteLast \/ PressSave \/ CloseWindow
  <2>1. Kept
    BY <1>2 DEF NewRoute, Plain, Went, Unmoved, LookAtArms, NoKey, Keyed, DeleteLast,
         PressSave, CloseWindow, cameraVars, captureVars
  <2> QED
    BY <2>1, <1>0
<1>3. CASE SaveEvidence \/ SaveRoute \/ Conclude \/ CreateRun \/ Preflight
          \/ MakeThread
  <2>1. Kept
    BY <1>3 DEF SaveEvidence, Plain, Went, Unmoved, SaveRoute, Conclude, CreateRun, Saved,
         Written, Preflight, MakeControl, MakeThread, cameraVars, captureVars
  <2> QED
    BY <2>1, <1>0
<1>4. CASE StartThread \/ SaveResult \/ Stop \/ Join \/ SaveTrace \/ SaveRun
  <2>1. Kept
    BY <1>4 DEF StartThread, Plain, Went, SaveResult, Unmoved, Saved, Stop, Join,
         SaveTrace, SaveRun, cameraVars, captureVars
  <2> QED
    BY <2>1, <1>0
<1>5. CASE Point \/ BoardTaken \/ Parked
  <2>1. Kept
    BY <1>5 DEF Point, Plain, Went, Unmoved, BoardTaken, Parked, cameraVars, captureVars
  <2> QED
    BY <2>1, <1>0
<1>6. CASE \E s \in {"teach", "record"} : StartProgram(s)
  <2>1. frame' = NoImage /\ best' = NoBest /\ open' = FALSE /\ step' = 1 /\ slot' = slot
    BY <1>6 DEF StartProgram, cameraVars
  <2> QED
    BY <2>1, <1>i
<1>7. CASE Raising
  <2>1. frame' = NoImage /\ best' = NoBest /\ open' = FALSE /\ step' = 1 /\ slot' = NoImage
    BY <1>7 DEF Raising, Raise
  <2> QED
    BY <2>1, <1>i
<1>8. CASE Gone
  <2>1. UNCHANGED <<frame, open, best, step>> /\ slot' = NoImage
    BY <1>8 DEF Gone, captureVars
  <2> QED
    BY <2>1, <1>i
<1>9. CASE Release
  <2>1. UNCHANGED <<frame, open, best, step>> /\ (slot' = NoImage \/ slot' = slot)
    BY <1>9 DEF Release, captureVars, cameraVars
  <2> QED
    BY <2>1, <1>i
<1>10. CASE StartMove
  <2>1. /\ frame' = NoImage /\ best' = NoBest /\ open' = FALSE /\ step' = step
        /\ slot' = [slot EXCEPT !.after = FALSE]
    BY <1>10 DEF StartMove, Before
  <2>2. slot' \in Images
    BY <2>1 DEF Images
  <2> QED
    BY <2>1, <2>2, <1>i
<1>11. CASE Look
  <2>1. UNCHANGED <<slot, open, best, step>> /\ frame' = slot
    BY <1>11 DEF Look, cameraVars
  <2> QED
    BY <2>1
<1>12. CASE KeepWaiting
  <2>1. /\ UNCHANGED <<slot, open, best, step>> /\ frame' = NoImage
    BY <1>12 DEF KeepWaiting, Sampled, Plain, Went, cameraVars
  <2> QED
    BY <2>1, <1>i
<1>13. CASE Arrive
  <2>1. /\ UNCHANGED <<slot, open, best, step>> /\ frame' = NoImage
    BY <1>13 DEF Arrive, Sampled, Plain, Went, cameraVars
  <2> QED
    BY <2>1, <1>i
<1>14. CASE OpenWindow
  <2>1. /\ UNCHANGED <<slot, best, step>> /\ open' = TRUE /\ frame' = NoImage
    BY <1>14 DEF OpenWindow, Sampled, Plain, Went, cameraVars
  <2> QED
    BY <2>1, <1>i
<1>15. CASE CaptureGoesOn
  <2>1. /\ UNCHANGED <<slot, step>> /\ frame' = NoImage /\ best' \in Choices /\ open' \in BOOLEAN
    BY <1>15 DEF CaptureGoesOn, Sampled, Plain, Went, cameraVars
  <2>2. best' \in [image : Images, actual : Nat]
    BY <2>1 DEF Choices, CalibrationTypeOK, ArmsTypeOK
  <2> QED
    BY <2>1, <2>2, <1>i
<1>16. CASE CaptureEnds
  <2>1. /\ UNCHANGED <<slot, step>> /\ frame' = NoImage /\ best' \in Choices /\ open' \in BOOLEAN
    BY <1>16 DEF CaptureEnds, Sampled, Plain, Went, cameraVars
  <2>2. best' \in [image : Images, actual : Nat]
    BY <2>1 DEF Choices, CalibrationTypeOK, ArmsTypeOK
  <2> QED
    BY <2>1, <2>2, <1>i
<1>17. CASE SaveObservation
  <2>1. UNCHANGED <<slot, frame, open, step>> /\ best' = NoBest
    BY <1>17 DEF SaveObservation, cameraVars
  <2> QED
    BY <2>1, <1>i
<1>18. CASE NextMove
  <2>1. /\ UNCHANGED <<slot, frame, open, best>>
        /\ step' = IF step = Len(Route) THEN step ELSE step + 1
    BY <1>18 DEF NextMove, cameraVars
  <2> QED
    BY <2>1
<1>19. CASE Finalize
  <2>1. UNCHANGED <<slot, frame, open, best>> /\ step' = 1
    BY <1>19 DEF Finalize, cameraVars
  <2> QED
    BY <2>1
<1>20. CASE Beside
  <2>1. UNCHANGED captureVars
    BY <1>20, BesideKeeps
  <2>2. slot' \in Images
    <3>1. CASE CameraStep
      <4>1. slot' = [pose |-> pose, after |-> open, is |-> TRUE]
        BY <3>1 DEF CameraStep, Expose
      <4> QED
        BY <4>1 DEF ArmsTypeOK, Images
    <3> QED
      BY <1>20, <3>1, SlotKeeps
  <2> QED
    BY <2>1, <2>2 DEF captureVars
<1>21. CASE AskArms
  <2>1. Kept
    BY <1>21 DEF AskArms, routeVars, runVars, captureVars, cameraVars
  <2> QED
    BY <2>1, <1>0
<1>22. CASE ArmsAnswer
  <2>1. Kept
    <3>1. at' = AfterCall /\ waits /\ at \in DOMAIN Calls
      BY <1>22 DEF ArmsAnswer, Went, StageInv
    <3> QED
      BY <1>22, <3>1, AfterCallIs, CallsAre
         DEF ArmsAnswer, Went, routeVars, runVars, captureVars, cameraVars,
             Unmoved,
         armVars, motionVars, poseVars
  <2> QED
    BY <2>1, <1>0
<1>23. CASE Split \/ Digest
  <2>1. UNCHANGED captureVars /\ UNCHANGED slot
    BY <1>23 DEF Split, Digest, cameraVars
  <2> QED
    BY <2>1 DEF captureVars
<1>24. CASE UNCHANGED calibrationVars
  <2>1. Kept
    BY <1>24 DEF calibrationVars, armVars, motionVars, poseVars, progVars, cameraVars,
         captureVars, runVars, routeVars
  <2> QED
    BY <2>1, <1>0
<1> QED
  BY <1>1, <1>2, <1>3, <1>4, <1>5, <1>6, <1>7, <1>8, <1>9, <1>10, <1>11, <1>12, <1>13,
       <1>14, <1>15, <1>16, <1>17, <1>18, <1>19, <1>20, <1>21, <1>22, <1>23, <1>24, StepCases

(* The type of the runs and their evidence.                                *)
LEMMA RunTypeStep ==
    ASSUME CalibrationInv, [CalibrationNext]_calibrationVars
    PROVE  RunTypeOK'
<1> USE RouteFacts DEF CalibrationInv, CalibrationTypeOK, FilesTypeOK, RunTypeOK, ProgramTypeOK
<1> DEFINE Kept == UNCHANGED <<run, disk, evidence, split, pointer, program>>
<1>0. Kept => RunTypeOK'
  OBVIOUS
<1>1. CASE StartSystem \/ StartCamera \/ CameraOpens \/ StartNodes \/ OpenArms
          \/ ArchiveRoute
  <2>1. Kept
    BY <1>1 DEF StartSystem, Went, Unmoved, StartCamera, CameraOpens, Plain, StartNodes,
         OpenArms, ArchiveRoute, runVars
  <2> QED
    BY <2>1, <1>0
<1>2. CASE NewRoute \/ LookAtArms \/ NoKey \/ DeleteLast \/ PressSave \/ CloseWindow
  <2>1. Kept
    BY <1>2 DEF NewRoute, Plain, Went, Unmoved, LookAtArms, NoKey, Keyed, DeleteLast,
         PressSave, CloseWindow, runVars
  <2> QED
    BY <2>1, <1>0
<1>3. CASE SaveEvidence \/ SaveRoute \/ Conclude \/ Preflight \/ MakeThread
          \/ StartThread
  <2>1. Kept
    BY <1>3 DEF SaveEvidence, Plain, Went, Unmoved, SaveRoute, Conclude, Preflight,
         MakeControl, MakeThread, StartThread, runVars
  <2> QED
    BY <2>1, <1>0
<1>4. CASE StartMove \/ Look \/ KeepWaiting \/ Arrive \/ OpenWindow \/ CaptureGoesOn
  <2>1. Kept
    BY <1>4 DEF StartMove, Plain, Went, MayMove, Move, Before, Look, Unmoved, KeepWaiting,
         Sampled, Arrive, AtGoal, OpenWindow, CaptureGoesOn, runVars
  <2> QED
    BY <2>1, <1>0
<1>5. CASE CaptureEnds \/ NextMove \/ Stop \/ Join \/ SaveTrace \/ BoardTaken
  <2>1. Kept
    BY <1>5 DEF CaptureEnds, Sampled, Plain, Went, AtGoal, NextMove, Unmoved, Stop, Join,
         SaveTrace, BoardTaken, runVars
  <2> QED
    BY <2>1, <1>0
<1>6. CASE Parked \/ Release
  <2>1. Kept
    BY <1>6 DEF Parked, Plain, Went, Unmoved, Release, runVars
  <2> QED
    BY <2>1, <1>0
<1>7. CASE \E s \in {"teach", "record"} : StartProgram(s)
  <2>1. UNCHANGED <<disk, evidence, split, pointer>> /\ program' = program + 1 /\ run' = NoRun
    BY <1>7 DEF StartProgram
  <2>2. run' \in Runs
    BY <2>1 DEF NoRun, Runs
  <2> QED
    BY <2>1, <2>2
<1>8. CASE Raising
  <2>1. UNCHANGED <<disk, evidence, split, pointer, program>>
    BY <1>8 DEF Raising, Raise
  <2>2. run' = run \/ run' = [run EXCEPT !.status = "failed"]
    BY <1>8 DEF Raising, Raise
  <2>3. run' \in Runs
    BY <2>2 DEF Runs
  <2> QED
    BY <2>1, <2>3
<1>9. CASE CreateRun
  <2>1. UNCHANGED <<evidence, split, pointer, program>>
    BY <1>9 DEF CreateRun, Plain, Went
  <2>2. run' = [run EXCEPT !.status = "partial"]
    BY <1>9 DEF CreateRun, Saved, Written
  <2>3. run' \in Runs
    BY <2>2 DEF Runs
  <2>4. disk' = [disk EXCEPT ![program] = run']
    BY <1>9 DEF CreateRun, Saved, Written
  <2> QED
    BY <2>1, <2>3, <2>4
<1>10. CASE SaveResult
  <2>1. UNCHANGED <<evidence, split, pointer, program>>
    BY <1>10 DEF SaveResult, Plain, Went
  <2>2. run' = [run EXCEPT !.results = @ + 1]
    BY <1>10 DEF SaveResult, Saved, Written
  <2>3. run' \in Runs
    <3>1. run.results + 1 \in Nat
      BY DEF Runs
    <3> QED
      BY <2>2, <3>1 DEF Runs
  <2>4. disk' = [disk EXCEPT ![program] = run']
    BY <1>10 DEF SaveResult, Saved, Written
  <2> QED
    BY <2>1, <2>3, <2>4
<1>11. CASE SaveRun
  <2>1. UNCHANGED <<evidence, split, pointer, program>>
    BY <1>11 DEF SaveRun, Plain, Went
  <2>2. run' = run
    BY <1>11 DEF SaveRun, Saved, Written
  <2>3. run' \in Runs
    BY <2>2 DEF Runs
  <2>4. disk' = [disk EXCEPT ![program] = run']
    BY <1>11 DEF SaveRun, Saved, Written
  <2> QED
    BY <2>1, <2>3, <2>4
<1>12. CASE Finalize
  <2>1. UNCHANGED <<disk, evidence, split, pointer, program>>
    BY <1>12 DEF Finalize, Plain, Went
  <2>2. run' = [run EXCEPT !.status = "completed"]
    BY <1>12 DEF Finalize, Written
  <2>3. run' \in Runs
    BY <2>2 DEF Runs
  <2> QED
    BY <2>1, <2>3
<1>13. CASE SaveObservation
  <2> DEFINE e == [run |-> program, step |-> step, image |-> best.image.pose,
                   actual |-> best.actual]
  <2>1. e \in Observations /\ step \in Nat
    BY DEF Observations, CaptureTypeOK, Images
  <2>2. /\ UNCHANGED <<disk, split, pointer, program>>
        /\ evidence' = evidence \cup {e}
        /\ run' = [run EXCEPT !.observations = @ \cup {step}]
    BY <1>13 DEF SaveObservation, Plain, Went
  <2>3. run' \in Runs
    BY <2>1, <2>2 DEF Runs
  <2> HIDE DEF e
  <2> QED
    BY <2>1, <2>2, <2>3
<1>14. CASE Point
  <2>1. UNCHANGED <<run, disk, evidence, split, program>> /\ pointer' = program
    BY <1>14 DEF Point, Plain, Went
  <2> QED
    BY <2>1
<1>15. CASE Gone
  <2>1. Kept
    BY <1>15 DEF Gone, routeVars, runVars, captureVars
  <2> QED
    BY <2>1, <1>0
<1>16. CASE Beside
  <2>1. Kept
    BY <1>16, BesideKeeps DEF progVars, captureVars, runVars, routeVars
  <2> QED
    BY <2>1, <1>0
<1>17. CASE AskArms
  <2>1. Kept
    BY <1>17 DEF AskArms, routeVars, runVars, captureVars, cameraVars
  <2> QED
    BY <2>1, <1>0
<1>18. CASE ArmsAnswer
  <2>1. Kept
    <3>1. at' = AfterCall /\ waits /\ at \in DOMAIN Calls
      BY <1>18 DEF ArmsAnswer, Went, StageInv
    <3> QED
      BY <1>18, <3>1, AfterCallIs, CallsAre
         DEF ArmsAnswer, Went, routeVars, runVars, captureVars, cameraVars,
             Unmoved,
         armVars, motionVars, poseVars
  <2> QED
    BY <2>1, <1>0
<1>19. CASE Split
  <2>1. PICK k \in Nat : split' = [split EXCEPT ![program] = @ \cup {k}]
    BY <1>19 DEF Split, Unsplit, Runs
  <2>2. UNCHANGED <<run, disk, evidence, pointer, program>>
    BY <1>19 DEF Split, Plain, Went
  <2> QED
    BY <2>1, <2>2
<1>20. CASE Digest
  <2>1. UNCHANGED <<disk, evidence, split, pointer, program>>
    BY <1>20 DEF Digest, Plain, Went
  <2>2. run' = [run EXCEPT !.hashed = split[program]]
    BY <1>20 DEF Digest
  <2>3. run' \in Runs
    BY <2>2 DEF Runs
  <2> QED
    BY <2>1, <2>3
<1>21. CASE UNCHANGED calibrationVars
  <2>1. Kept
    BY <1>21 DEF calibrationVars, armVars, motionVars, poseVars, progVars, cameraVars,
         captureVars, runVars, routeVars
  <2> QED
    BY <2>1, <1>0
<1> QED
  BY <1>1, <1>2, <1>3, <1>4, <1>5, <1>6, <1>7, <1>8, <1>9, <1>10, <1>11, <1>12, <1>13,
       <1>14, <1>15, <1>16, <1>17, <1>18, <1>19, <1>20, <1>21, StepCases

(* The type of the route and of the pose that is chosen.                   *)
LEMMA RouteTypeStep ==
    ASSUME CalibrationInv, [CalibrationNext]_calibrationVars
    PROVE  RouteTypeOK'
<1> USE DEF CalibrationInv, CalibrationTypeOK, FilesTypeOK, RouteTypeOK
<1> DEFINE Kept == UNCHANGED <<route, file, chosen>>
<1>0. Kept => RouteTypeOK'
  OBVIOUS
<1>1. CASE StartSystem \/ StartCamera \/ CameraOpens \/ StartNodes \/ OpenArms
          \/ ArchiveRoute
  <2>1. Kept
    BY <1>1 DEF StartSystem, Went, Unmoved, StartCamera, CameraOpens, Plain, StartNodes,
         OpenArms, ArchiveRoute, routeVars
  <2> QED
    BY <2>1, <1>0
<1>2. CASE NoKey \/ PressSave \/ CloseWindow \/ SaveEvidence \/ CreateRun \/ Preflight
  <2>1. Kept
    BY <1>2 DEF NoKey, Keyed, Plain, Went, Unmoved, PressSave, CloseWindow, SaveEvidence,
         CreateRun, Saved, Written, Preflight, MakeControl, routeVars
  <2> QED
    BY <2>1, <1>0
<1>3. CASE MakeThread \/ StartThread \/ StartMove \/ Look \/ KeepWaiting \/ Arrive
  <2>1. Kept
    BY <1>3 DEF MakeThread, Plain, Went, StartThread, StartMove, MayMove, Move, Before,
         Look, Unmoved, KeepWaiting, Sampled, Arrive, AtGoal, routeVars
  <2> QED
    BY <2>1, <1>0
<1>4. CASE OpenWindow \/ CaptureGoesOn \/ CaptureEnds \/ SaveObservation \/ SaveResult
          \/ NextMove
  <2>1. Kept
    BY <1>4 DEF OpenWindow, Sampled, Plain, Went, AtGoal, CaptureGoesOn, CaptureEnds,
         SaveObservation, Unmoved, SaveResult, Saved, NextMove, routeVars
  <2> QED
    BY <2>1, <1>0
<1>5. CASE Split \/ Digest \/ Finalize \/ Stop \/ Join \/ SaveTrace \/ SaveRun \/ Point
  <2>1. Kept
    BY <1>5 DEF Split, Digest, Finalize, Plain, Went, Unmoved, Written, Stop, Join,
       SaveTrace, SaveRun,
         Saved, Point, routeVars
  <2> QED
    BY <2>1, <1>0
<1>6. CASE BoardTaken \/ Parked \/ Release
  <2>1. Kept
    BY <1>6 DEF BoardTaken, Plain, Went, Unmoved, Parked, Release, routeVars
  <2> QED
    BY <2>1, <1>0
<1>7. CASE \E s \in {"teach", "record"} : StartProgram(s)
  <2>1. route' = NoRoute /\ chosen' = Elsewhere /\ file' = file
    BY <1>7 DEF StartProgram
  <2> QED
    BY <2>1 DEF NoRoute, Routes, Elsewhere
<1>8. CASE NewRoute
  <2>1. route' = [NoRoute EXCEPT !.id = program] /\ file' = route' /\ chosen' = chosen
    BY <1>8 DEF NewRoute
  <2>2. route' = [id |-> program, points |-> <<>>, draft |-> TRUE]
    BY <2>1 DEF NoRoute
  <2>3. program \in Nat
    BY RouteFacts DEF ProgramTypeOK
  <2>4. route' \in Routes
    BY <2>2, <2>3 DEF Routes
  <2> QED
    BY <2>1, <2>4
<1>9. CASE LookAtArms
  <2>1. UNCHANGED <<route, file>> /\ chosen' \in {Elsewhere, pose}
    BY <1>9 DEF LookAtArms
  <2> QED
    BY <2>1 DEF Elsewhere, ArmsTypeOK
<1>10. CASE DeleteLast
  <2>1. /\ file' = route' /\ chosen' = chosen
        /\ route' = [route EXCEPT !.points = SubSeq(@, 1, Len(@) - 1)]
    BY <1>10 DEF DeleteLast, Keyed
  <2>2. SubSeq(route.points, 1, Len(route.points) - 1) \in Seq(Nat)
    <3>1. route.points \in Seq(Nat) /\ Len(route.points) - 1 \in Int /\ 1 \in Int
      BY DEF Routes
    <3> DEFINE p == route.points
               n == Len(p) - 1
    <3>2. \A i \in 1..n : p[i] \in Nat
      BY <3>1
    <3> HIDE DEF p, n
    <3>3. n \in Int
      BY <3>1 DEF p, n
    <3>4. SubSeq(p, 1, n) \in Seq(Nat)
      BY ONLY <3>2, <3>3, 1 \in Int, SubSeqProperties
    <3> QED
      BY <3>4 DEF p, n
  <2>3. route' \in Routes
    BY <2>1, <2>2 DEF Routes
  <2> QED
    BY <2>1, <2>3
<1>11. CASE SaveRoute
  <2>1. /\ file' = route' /\ chosen' = Elsewhere
        /\ route' = [route EXCEPT !.points = Append(@, chosen)]
    BY <1>11 DEF SaveRoute
  <2>2. Append(route.points, chosen) \in Seq(Nat)
    BY DEF Routes
  <2>3. route' \in Routes
    BY <2>1, <2>2 DEF Routes
  <2> QED
    BY <2>1, <2>3 DEF Elsewhere
<1>12. CASE Conclude
  <2>1. UNCHANGED <<route, chosen>> /\ \E invalid \in BOOLEAN : file' = [route EXCEPT !.draft = invalid]
    BY <1>12 DEF Conclude
  <2> QED
    BY <2>1 DEF Routes
<1>13. CASE Raising
  <2>1. Kept
    <3>1. at' \in {"release", "save", "stop", "trace", "board"}
      BY <1>13, HandlerIs
         DEF Raising, Raise, Running, StageInv, CalibrationTypeOK, ProgramTypeOK,
             Opening,
           Teaching, Recording, Looping, Stops, Closing, Replaying, Stopping
    <3> QED
      BY <1>13, <3>1 DEF Raising, Raise, routeVars, runVars
  <2> QED
    BY <2>1, <1>0
<1>14. CASE Gone
  <2>1. Kept
    BY <1>14 DEF Gone, routeVars, runVars, captureVars
  <2> QED
    BY <2>1, <1>0
<1>15. CASE Beside
  <2>1. Kept
    BY <1>15, BesideKeeps DEF progVars, captureVars, runVars, routeVars
  <2> QED
    BY <2>1, <1>0
<1>16. CASE AskArms
  <2>1. Kept
    BY <1>16 DEF AskArms, routeVars, runVars, captureVars, cameraVars
  <2> QED
    BY <2>1, <1>0
<1>17. CASE ArmsAnswer
  <2>1. Kept
    <3>1. at' = AfterCall /\ waits /\ at \in DOMAIN Calls
      BY <1>17 DEF ArmsAnswer, Went, StageInv
    <3> QED
      BY <1>17, <3>1, AfterCallIs, CallsAre
         DEF ArmsAnswer, Went, routeVars, runVars, captureVars, cameraVars,
             Unmoved,
         armVars, motionVars, poseVars
  <2> QED
    BY <2>1, <1>0
<1>18. CASE UNCHANGED calibrationVars
  <2>1. Kept
    BY <1>18 DEF calibrationVars, armVars, motionVars, poseVars, progVars, cameraVars,
         captureVars, runVars, routeVars
  <2> QED
    BY <2>1, <1>0
<1> QED
  BY <1>1, <1>2, <1>3, <1>4, <1>5, <1>6, <1>7, <1>8, <1>9, <1>10, <1>11, <1>12, <1>13,
       <1>14, <1>15, <1>16, <1>17, <1>18, StepCases

(* The type of where a program is.                                         *)
LEMMA ProgramTypeStep ==
    ASSUME CalibrationInv, [CalibrationNext]_calibrationVars
    PROVE  ProgramTypeOK'
<1> USE RouteFacts, CallsAre, AfterCallIs DEF CalibrationInv, CalibrationTypeOK,
    ProgramTypeOK, Opening,
     Teaching, Looping, Recording, Closing, Stops, Commanding, cameraVars
<1>1. CASE CameraOpens \/ ArchiveRoute \/ NewRoute \/ LookAtArms \/ NoKey \/ DeleteLast
  BY <1>1 DEF CameraOpens, Plain, Went, Unmoved, ArchiveRoute, NewRoute, LookAtArms, NoKey,
       Keyed, DeleteLast
<1>2. CASE PressSave \/ CloseWindow \/ SaveEvidence \/ SaveRoute \/ Conclude
          \/ CreateRun
  BY <1>2 DEF PressSave, Keyed, Plain, Went, Unmoved, CloseWindow, SaveEvidence, SaveRoute,
       Conclude, CreateRun, Saved, Written
<1>3. CASE Preflight \/ MakeThread \/ StartThread \/ StartMove \/ Look \/ KeepWaiting
  BY <1>3 DEF Preflight, Plain, Went, MakeControl, MakeThread, StartThread, StartMove,
       MayMove, Move, Before, Look, Unmoved, KeepWaiting, Sampled
<1>4. CASE Arrive \/ OpenWindow \/ CaptureGoesOn \/ CaptureEnds \/ SaveObservation
          \/ SaveResult
  BY <1>4 DEF Arrive, Sampled, Plain, Went, AtGoal, OpenWindow, CaptureGoesOn, CaptureEnds,
       SaveObservation, Unmoved, SaveResult, Saved
<1>5. CASE NextMove \/ Split \/ Digest \/ Finalize \/ Stop \/ Join \/ SaveTrace \/ SaveRun
  BY <1>5 DEF NextMove, Plain, Went, Unmoved, Split, Digest, Finalize, Written, Stop, Join,
       SaveTrace,
       SaveRun, Saved
<1>6. CASE Point \/ BoardTaken \/ Parked
  BY <1>6 DEF Point, Plain, Went, Unmoved, BoardTaken, Parked
<1>7. CASE \E s \in {"teach", "record"} : StartProgram(s)
  <2>1. /\ program' = program + 1 /\ program < MaxPrograms /\ at' = "system"
        /\ stage' \in {"teach", "record"}
    BY <1>7 DEF StartProgram
  <2>2. raised' \in BOOLEAN /\ alarmed' \in BOOLEAN /\ UNCHANGED <<waits, held, camera>>
    BY <1>7 DEF StartProgram
  <2> QED
    BY <2>1, <2>2
<1>8. CASE Raising
  <2>1. at' \in {"release", "save", "stop", "trace", "board"}
    BY <1>8, HandlerIs DEF Raising, Raise, Running, StageInv, Replaying, Stopping
  <2>2. /\ UNCHANGED <<stage, program, camera>> /\ raised' = TRUE /\ waits' = FALSE
        /\ alarmed' \in BOOLEAN /\ held' = (IF at = "release" THEN Tail(held) ELSE held)
        /\ at = "release" => held # <<>>
    BY <1>8 DEF Raising, Raise, Running
  <2>3. held' \in Seq({"system", "camera", "nodes", "arms"})
    BY <2>2
  <2> QED
    BY <2>1, <2>2, <2>3
<1>9. CASE Gone
  <2>1. /\ at' = "gone" /\ waits' = FALSE /\ held' = <<>> /\ camera' = "off"
        /\ UNCHANGED <<stage, program, raised, alarmed>>
    BY <1>9 DEF Gone
  <2>2. waits' \in BOOLEAN
    BY <2>1, Zenon
  <2>3. held' \in Seq({"system", "camera", "nodes", "arms"})
    BY <2>1
  <2> QED
    BY <2>1, <2>2, <2>3
<1>10. CASE Beside
  <2>1. UNCHANGED progVars
    BY <1>10, BesideKeeps
  <2>2. camera' \in {"off", "live", "dead"}
    BY <1>10 DEF Beside, CameraStep, Expose, ArmStep, DeviceFault, CameraDies, NodeDies
  <2> QED
    BY <2>1, <2>2 DEF progVars
<1>11. CASE AskArms
  BY <1>11 DEF AskArms
<1>12. CASE ArmsAnswer
  <2>1. at' = AfterCall /\ at \in DOMAIN Calls
    BY <1>12 DEF ArmsAnswer, Went, StageInv
  <2>2. at' \in {"archive", "create", "poll", "make", "trace", "hands"}
    BY <2>1
  <2> QED
    BY <1>12, <2>2 DEF ArmsAnswer, Went
<1>13. CASE Release
  BY <1>13 DEF Release, Went
<1>14. CASE StartCamera
  <2>1. held' = <<"camera">> \o held /\ held \in Seq({"system", "camera", "nodes", "arms"})
    BY <1>14 DEF StartCamera, Went
  <2>2. held' \in Seq({"system", "camera", "nodes", "arms"})
    BY <2>1
  <2> QED
    BY <1>14, <2>2 DEF StartCamera, Went
<1>15. CASE StartNodes
  <2>1. held' = <<"nodes">> \o held /\ held \in Seq({"system", "camera", "nodes", "arms"})
    BY <1>15 DEF StartNodes, Went
  <2>2. held' \in Seq({"system", "camera", "nodes", "arms"})
    BY <2>1
  <2> QED
    BY <1>15, <2>2 DEF StartNodes, Went
<1>16. CASE OpenArms
  <2>1. held' = <<"arms">> \o held /\ held \in Seq({"system", "camera", "nodes", "arms"})
    BY <1>16 DEF OpenArms, Went
  <2>2. held' \in Seq({"system", "camera", "nodes", "arms"})
    BY <2>1
  <2> QED
    BY <1>16, <2>2 DEF OpenArms, Went
<1>17. CASE StartSystem
  BY <1>17 DEF StartSystem, Went, Unmoved
<1>18. CASE UNCHANGED calibrationVars
  BY <1>18 DEF calibrationVars, armVars, motionVars, poseVars, progVars, cameraVars,
       captureVars, runVars, routeVars, bounds
<1> QED
  BY <1>1, <1>2, <1>3, <1>4, <1>5, <1>6, <1>7, <1>8, <1>9, <1>10, <1>11, <1>12, <1>13,
       <1>14, <1>15, <1>16, <1>17, <1>18, StepCases

(* The requests on their way are a queue per arm and service. *)
Requests == Seq(Caller \cup {"nobody"})

(* What asking both arms for a service does. *)
LEMMA AskFacts ==
    ASSUME ArmsTypeOK, NEW c \in Caller, NEW s \in Service, Ask(c, s)
    PROVE  /\ asked' \in [Side \X Service -> Requests]
           /\ \A a \in Side : asked'[<<a, s>>] = Append(asked[<<a, s>>], c)
           /\ \A a \in Side : \A t \in Service \ {s} : asked'[<<a, t>>] = asked[<<a, t>>]
           /\ done' \in [Caller -> SUBSET Side] /\ done'[c] = {}
           /\ \A d \in Caller \ {c} : done'[d] = done[d]
           /\ refused' = refused \ {c} /\ UNCHANGED <<mode, feedback>>
<1>1. asked' = [o \in Side \X Service |-> IF o[2] = s THEN Append(asked[o], c) ELSE asked[o]]
  BY DEF Ask
<1>2. \A o \in Side \X Service : asked[o] \in Requests /\ Append(asked[o], c) \in Requests
  <2>1. TAKE o \in Side \X Service
  <2>2. asked[o] \in Seq(Caller \cup {"nobody"})
    BY DEF ArmsTypeOK
  <2> QED
    BY <2>2 DEF Requests
<1>3. asked' \in [Side \X Service -> Requests]
  BY <1>1, <1>2
<1>4. \A a \in Side : \A t \in Service : <<a, t>> \in Side \X Service /\ <<a, t>>[2] = t
  OBVIOUS
<1>5. \A a \in Side : \A t \in Service :
         asked'[<<a, t>>] = IF t = s THEN Append(asked[<<a, t>>], c) ELSE asked[<<a, t>>]
  BY <1>1, <1>4
<1>6. /\ done' \in [Caller -> SUBSET Side] /\ done'[c] = {}
      /\ \A d \in Caller \ {c} : done'[d] = done[d]
  BY DEF Ask, ArmsTypeOK
<1> QED
  BY <1>3, <1>5, <1>6 DEF Ask

(* What giving up does: the places in the queues stay. *)
LEMMA DisownFacts ==
    ASSUME ArmsTypeOK, NEW c \in Caller, Disown(c)
    PROVE  /\ asked' \in [Side \X Service -> Requests]
           /\ \A o \in Side \X Service :
                 /\ DOMAIN asked'[o] = DOMAIN asked[o] /\ Len(asked'[o]) = Len(asked[o])
                 /\ \A i \in DOMAIN asked[o] :
                       asked'[o][i] = IF asked[o][i] = c THEN "nobody" ELSE asked[o][i]
                 /\ asked[o] = <<>> => asked'[o] = <<>>
                 /\ asked[o] # <<>> => asked'[o] # <<>>
                 /\ c # "main" /\ asked[o] = <<"main">> => asked'[o] = <<"main">>
<1> DEFINE Left(o) == [i \in DOMAIN asked[o] |-> IF asked[o][i] = c THEN "nobody" ELSE asked[o][i]]
<1>1. asked' = [o \in Side \X Service |-> Left(o)]
  BY DEF Disown
<1>2. ASSUME NEW o \in Side \X Service
      PROVE  /\ Left(o) \in Requests
             /\ DOMAIN Left(o) = DOMAIN asked[o] /\ Len(Left(o)) = Len(asked[o])
             /\ \A i \in DOMAIN asked[o] :
                   Left(o)[i] = IF asked[o][i] = c THEN "nobody" ELSE asked[o][i]
  <2>1. asked[o] \in Seq(Caller \cup {"nobody"})
    BY DEF ArmsTypeOK
  <2>2. DOMAIN asked[o] = 1..Len(asked[o]) /\ Len(asked[o]) \in Nat
    BY <2>1
  <2>3. \A i \in 1..Len(asked[o]) : asked[o][i] \in Caller \cup {"nobody"}
    BY <2>1
  <2>4. Left(o) \in [1..Len(asked[o]) -> Caller \cup {"nobody"}]
    BY <2>2, <2>3
  <2>5. Left(o) \in Requests
    BY <2>2, <2>4, SeqDef DEF Requests
  <2>6. DOMAIN Left(o) = DOMAIN asked[o] /\ Len(Left(o)) = Len(asked[o])
    BY <2>2, <2>4, <2>5 DEF Requests
  <2> QED
    BY <2>5, <2>6
<1>3. \A o \in Side \X Service : asked'[o] = Left(o)
  BY <1>1
<1>4. asked' \in [Side \X Service -> Requests]
  BY <1>1, <1>2
<1>5. ASSUME NEW o \in Side \X Service
      PROVE  /\ asked[o] = <<>> => asked'[o] = <<>>
             /\ asked[o] # <<>> => asked'[o] # <<>>
             /\ c # "main" /\ asked[o] = <<"main">> => asked'[o] = <<"main">>
  <2>1. asked'[o] \in Requests /\ asked[o] \in Requests
    BY <1>4 DEF ArmsTypeOK, Requests
  <2>2. Len(asked'[o]) = Len(asked[o])
    BY <1>2, <1>3
  <2>3. asked[o] = <<>> => asked'[o] = <<>>
    BY <2>1, <2>2 DEF Requests
  <2>4. asked[o] # <<>> => asked'[o] # <<>>
    BY <2>1, <2>2 DEF Requests
  <2>5. ASSUME c # "main", asked[o] = <<"main">> PROVE asked'[o] = <<"main">>
    <3>1. asked'[o][1] = "main" /\ Len(asked'[o]) = 1
      BY <1>2, <1>3, <2>2, <2>5
    <3> QED
      BY <2>1, <3>1 DEF Requests
  <2> QED
    BY <2>3, <2>4, <2>5
<1> HIDE DEF Left
<1> QED
  BY <1>2, <1>3, <1>4, <1>5

(* What a controller does with a request. *)
LEMMA ServeFacts ==
    ASSUME ArmsTypeOK, NEW a \in Side, NEW s \in Service, Serve(a, s)
    PROVE  LET queue == asked[<<a, s>>] IN
           /\ queue \in Requests /\ queue # <<>> /\ Len(queue) \in Nat \ {0}
           /\ Head(queue) = queue[1] /\ Head(queue) \in Caller \cup {"nobody"}
           /\ \E ok \in BOOLEAN :
                 /\ ok \/ s # "gravity_compensation"
                 /\ mode' = [mode EXCEPT ![a] = ModeAfter(@, s, ok)]
                 /\ refused' = IF ok THEN refused ELSE refused \cup ({Head(queue)} \cap Caller)
           /\ asked' \in [Side \X Service -> Requests] /\ asked'[<<a, s>>] = Tail(queue)
           /\ \A b \in Side : \A t \in Service : <<b, t>> # <<a, s>> => asked'[<<b, t>>] = asked[<<b, t>>]
           /\ \A c \in Caller : done'[c] = IF c = Head(queue) THEN done[c] \cup {a} ELSE done[c]
           /\ done' \in [Caller -> SUBSET Side]
<1> DEFINE queue == asked[<<a, s>>]
<1>1. queue \in Requests /\ queue # <<>>
  BY DEF Serve, ArmsTypeOK, Requests
<1>2. Tail(queue) \in Requests /\ Len(queue) \in Nat \ {0}
  BY <1>1 DEF Requests
<1>3. Head(queue) = queue[1] /\ Head(queue) \in Caller \cup {"nobody"}
  BY <1>1, <1>2 DEF Requests
<1>4. asked \in [Side \X Service -> Requests]
  BY DEF ArmsTypeOK, Requests
<1>5. asked' = [asked EXCEPT ![<<a, s>>] = Tail(queue)]
  BY DEF Serve
<1>6. /\ asked' \in [Side \X Service -> Requests] /\ asked'[<<a, s>>] = Tail(queue)
      /\ \A b \in Side : \A t \in Service : <<b, t>> # <<a, s>> => asked'[<<b, t>>] = asked[<<b, t>>]
  BY <1>2, <1>4, <1>5
<1>7. done' = [c \in Caller |-> IF c = Head(queue) THEN done[c] \cup {a} ELSE done[c]]
  BY DEF Serve
<1>8. done' \in [Caller -> SUBSET Side]
  BY <1>7 DEF ArmsTypeOK
<1>9. \A c \in Caller : done'[c] = IF c = Head(queue) THEN done[c] \cup {a} ELSE done[c]
  BY <1>7
<1>10. \E ok \in BOOLEAN :
          /\ ok \/ s # "gravity_compensation"
          /\ mode' = [mode EXCEPT ![a] = ModeAfter(@, s, ok)]
          /\ refused' = IF ok THEN refused ELSE refused \cup ({Head(queue)} \cap Caller)
  BY DEF Serve
<1> QED
  BY <1>1, <1>2, <1>3, <1>6, <1>8, <1>9, <1>10

(* The type of the arms and the motion thread, beside the main thread ...  *)
LEMMA ArmsTypeBeside ==
    ASSUME CalibrationInv, Beside
    PROVE  ArmsTypeOK'
<1> USE DEF CalibrationInv, CalibrationTypeOK, ArmsTypeOK
<1>1. CASE CameraStep
  BY <1>1 DEF CameraStep, Unmoved, armVars, motionVars, poseVars
<1>2. CASE CameraDies
  BY <1>2 DEF CameraDies, Unmoved, armVars, motionVars, poseVars
<1>3. CASE \E a \in Side, s \in Service : Serve(a, s)
  <2>1. PICK a \in Side, s \in Service : Serve(a, s)
    BY <1>3
  <2>2. UNCHANGED <<feedback, motionVars, poseVars>>
    BY <2>1 DEF Serve
  <2>3. asked' \in [Side \X Service -> Requests] /\ done' \in [Caller -> SUBSET Side]
    BY <2>1, ServeFacts, Zenon
  <2>4. PICK ok \in BOOLEAN :
           /\ ok \/ s # "gravity_compensation"
           /\ mode' = [mode EXCEPT ![a] = ModeAfter(@, s, ok)]
           /\ refused' = IF ok THEN refused ELSE refused \cup ({Head(asked[<<a, s>>])} \cap Caller)
    BY <2>1, ServeFacts, Zenon
  <2>5. ModeAfter(mode[a], s, ok) \in {"gravity", "policy", "hold", mode[a]}
    <3>1. CASE s = "gravity_compensation"
      BY <3>1, ModeAfterIs
    <3>4. ModeAfter(mode[a], "calibration_hold", ok) = Frozen(mode[a], ok)
      BY ModeAfterIs
    <3>2. CASE s = "enable_policy_control"
      <4>1. CASE ok = TRUE
        BY <3>2, <4>1, ModeAfterIs
      <4>2. CASE ok = FALSE
        BY <3>2, <4>2, ModeAfterIs DEF Frozen
      <4> QED
        BY <4>1, <4>2
    <3>3. CASE s = "calibration_hold"
      BY <3>3, <3>4 DEF Frozen
    <3> QED
      BY <3>1, <3>2, <3>3 DEF Service
  <2>6. mode' \in [Side -> {"off", "gravity", "policy", "hold"}]
    BY <2>4, <2>5
  <2>7. refused' \subseteq Caller
    BY <2>4
  <2> QED
    BY <2>2, <2>3, <2>6, <2>7 DEF Requests, motionVars, poseVars
<1>4. CASE Tick
  <2>1. motion' = "checked"
    BY <1>4 DEF Tick, Halt
  <2>2. UNCHANGED <<mode, asked, done, refused, feedback, stopping, error, goal, elapsed, pose, bumped>>
    BY <1>4 DEF Tick, Halt, armVars, motionVars, poseVars
  <2> QED
    BY <2>1, <2>2
<1>5. CASE Leaves
  <2>1. motion' = "ended"
    BY <1>5 DEF Leaves, Halt
  <2>2. UNCHANGED <<mode, asked, done, refused, feedback, stopping, error, goal, elapsed, pose, bumped>>
    BY <1>5 DEF Leaves, Halt, armVars, motionVars, poseVars
  <2> QED
    BY <2>1, <2>2
<1>6. CASE HoldReturns
  <2>1. motion' = "ended"
    BY <1>6 DEF HoldReturns, Halt
  <2>2. UNCHANGED <<mode, asked, done, refused, feedback, stopping, error, goal, elapsed, pose, bumped>>
    BY <1>6 DEF HoldReturns, Halt, armVars, motionVars, poseVars
  <2> QED
    BY <2>1, <2>2
<1>7. CASE AskHold
  <2>1. Ask("motion", "calibration_hold") /\ motion' = "holding"
    BY <1>7 DEF AskHold
  <2>2. UNCHANGED <<stopping, error, goal, elapsed, poseVars>>
    BY <1>7 DEF AskHold
  <2>3. asked' \in [Side \X Service -> Requests] /\ done' \in [Caller -> SUBSET Side]
    BY <2>1, AskFacts DEF Service, Caller
  <2>4. refused' \subseteq Caller /\ UNCHANGED <<mode, feedback>>
    BY <2>1 DEF Ask
  <2> QED
    BY <2>1, <2>2, <2>3, <2>4 DEF Requests, poseVars
<1>8. CASE HoldTimesOut
  <2>1. Disown("motion") /\ UNCHANGED <<mode, done, refused, feedback>> /\ motion' = "ended"
    BY <1>8 DEF HoldTimesOut, Abandon
  <2>2. UNCHANGED <<stopping, error, goal, elapsed, poseVars>>
    BY <1>8 DEF HoldTimesOut
  <2>3. asked' \in [Side \X Service -> Requests]
    BY <2>1, DisownFacts DEF Caller
  <2> QED
    BY <2>1, <2>2, <2>3 DEF Requests, poseVars
<1>9. CASE TickFails
  <2>1. motion' = "failing" /\ error' \in BOOLEAN
    BY <1>9 DEF TickFails, Streaming
  <2>2. UNCHANGED <<mode, asked, done, refused, feedback, stopping, goal, elapsed, pose, bumped>>
    BY <1>9 DEF TickFails, Streaming, armVars, motionVars, poseVars
  <2> QED
    BY <2>1, <2>2
<1>10. CASE PublishTargets
  <2>1. /\ pose' \in Driven /\ motion' = "running"
        /\ UNCHANGED <<armVars, stopping, error, goal, elapsed, bumped>>
    BY <1>10 DEF PublishTargets
  <2>2. Driven \subseteq Nat
    BY DEF Driven, Elsewhere
  <2> QED
    BY <2>1, <2>2 DEF armVars
<1>11. CASE SegmentEnds
  <2>1. elapsed' \in BOOLEAN
    BY <1>11 DEF SegmentEnds
  <2>2. UNCHANGED <<mode, asked, done, refused, feedback, motion, stopping, error, goal, pose, bumped>>
    BY <1>11 DEF SegmentEnds, armVars, motionVars, poseVars
  <2> QED
    BY <2>1, <2>2
<1>12. CASE FeedbackReturns
  <2>1. feedback' \in {"fresh", "stale", "broken"}
    BY <1>12 DEF FeedbackReturns
  <2>2. UNCHANGED <<mode, asked, done, refused, motionVars, poseVars>>
    BY <1>12 DEF FeedbackReturns, armVars, motionVars, poseVars
  <2> QED
    BY <2>1, <2>2 DEF motionVars, poseVars
<1>13. CASE Bump
  <2>1. pose' = Elsewhere /\ bumped' \in BOOLEAN
    BY <1>13 DEF Bump
  <2>2. UNCHANGED <<armVars, motionVars>>
    BY <1>13 DEF Bump, armVars, motionVars, poseVars
  <2> QED
    BY <2>1, <2>2 DEF armVars, motionVars, Elsewhere
<1>14. CASE stage = "teach" /\ \E p \in Nat : Hand(p)
  <2>1. pose' \in Nat /\ UNCHANGED <<armVars, motionVars, bumped>>
    BY <1>14 DEF Hand
  <2> QED
    BY <2>1 DEF armVars, motionVars
<1>15. CASE \E a \in Side : Watchdog(a)
  <2>1. mode' \in [Side -> {"off", "gravity", "policy", "hold"}]
    BY <1>15 DEF Watchdog
  <2>2. UNCHANGED <<asked, done, refused, feedback, motionVars, poseVars>>
    BY <1>15 DEF Watchdog
  <2> QED
    BY <2>1, <2>2 DEF motionVars, poseVars
<1>16. CASE FeedbackGap
  <2>1. feedback' \in {"fresh", "stale", "broken"}
    BY <1>16 DEF FeedbackGap
  <2>2. UNCHANGED <<mode, asked, done, refused, motionVars, poseVars>>
    BY <1>16 DEF FeedbackGap, armVars, motionVars, poseVars
  <2> QED
    BY <2>1, <2>2 DEF motionVars, poseVars
<1>17. CASE FeedbackBreaks
  <2>1. feedback' \in {"fresh", "stale", "broken"}
    BY <1>17 DEF FeedbackBreaks
  <2>2. UNCHANGED <<mode, asked, done, refused, motionVars, poseVars>>
    BY <1>17 DEF FeedbackBreaks, armVars, motionVars, poseVars
  <2> QED
    BY <2>1, <2>2 DEF motionVars, poseVars
<1>18. CASE \E a \in Side : NodeDies(a)
  <2>1. mode' \in [Side -> {"off", "gravity", "policy", "hold"}]
    BY <1>18 DEF NodeDies
  <2>2. UNCHANGED <<asked, done, refused, feedback, motionVars, poseVars>>
    BY <1>18 DEF NodeDies
  <2> QED
    BY <2>1, <2>2 DEF motionVars, poseVars
<1> QED
  BY <1>1, <1>2, <1>3, <1>4, <1>5, <1>6, <1>7, <1>8, <1>9, <1>10, <1>11, <1>12, <1>13,
       <1>14, <1>15, <1>16, <1>17, <1>18, BesideCases

(* ... and in every step.                                                  *)
LEMMA ArmsTypeStep ==
    ASSUME CalibrationInv, [CalibrationNext]_calibrationVars
    PROVE  ArmsTypeOK'
<1> USE DEF CalibrationInv, CalibrationTypeOK, ArmsTypeOK
<1> DEFINE Kept == UNCHANGED <<armVars, motionVars, poseVars>>
<1>0. Kept => ArmsTypeOK'
  BY DEF armVars, motionVars, poseVars
<1>1. CASE StartSystem \/ StartCamera \/ CameraOpens \/ OpenArms \/ ArchiveRoute
          \/ NewRoute
  <2>1. Kept
    BY <1>1 DEF StartSystem, Went, Unmoved, StartCamera, CameraOpens, Plain, OpenArms,
         ArchiveRoute, NewRoute
  <2> QED
    BY <2>1, <1>0
<1>2. CASE LookAtArms \/ NoKey \/ DeleteLast \/ PressSave \/ CloseWindow
          \/ SaveEvidence
  <2>1. Kept
    BY <1>2 DEF LookAtArms, Plain, Went, Unmoved, NoKey, Keyed, DeleteLast, PressSave,
         CloseWindow, SaveEvidence
  <2> QED
    BY <2>1, <1>0
<1>3. CASE SaveRoute \/ Conclude \/ CreateRun \/ Look \/ SaveObservation \/ SaveResult
  <2>1. Kept
    BY <1>3 DEF SaveRoute, Plain, Went, Unmoved, Conclude, CreateRun, Saved, Written, Look,
         SaveObservation, SaveResult
  <2> QED
    BY <2>1, <1>0
<1>4. CASE NextMove \/ Split \/ Digest \/ Finalize \/ SaveTrace \/ SaveRun \/ Point
          \/ BoardTaken
  <2>1. Kept
    BY <1>4 DEF NextMove, Plain, Went, Unmoved, Split, Digest, Finalize, Written, SaveTrace,
       SaveRun,
         Saved, Point, BoardTaken
  <2> QED
    BY <2>1, <1>0
<1>5. CASE Parked
  <2>1. Kept
    BY <1>5 DEF Parked, Plain, Went, Unmoved
  <2> QED
    BY <2>1, <1>0
<1>6. CASE KeepWaiting
  <2>1. bumped' = FALSE
    BY <1>6 DEF KeepWaiting, Sampled, Plain, Went
  <2>2. UNCHANGED <<mode, asked, done, refused, feedback, motion, stopping, error, goal, elapsed, pose>>
    BY <1>6 DEF KeepWaiting, Sampled, Plain, Went, armVars, motionVars, poseVars
  <2> QED
    BY <2>1, <2>2
<1>7. CASE Arrive
  <2>1. bumped' = FALSE
    BY <1>7 DEF Arrive, Sampled, Plain, Went, AtGoal
  <2>2. UNCHANGED <<mode, asked, done, refused, feedback, motion, stopping, error, goal, elapsed, pose>>
    BY <1>7 DEF Arrive, Sampled, Plain, Went, AtGoal, armVars, motionVars, poseVars
  <2> QED
    BY <2>1, <2>2
<1>8. CASE OpenWindow
  <2>1. bumped' = FALSE
    BY <1>8 DEF OpenWindow, Sampled, Plain, Went, AtGoal
  <2>2. UNCHANGED <<mode, asked, done, refused, feedback, motion, stopping, error, goal, elapsed, pose>>
    BY <1>8 DEF OpenWindow, Sampled, Plain, Went, AtGoal, armVars, motionVars, poseVars
  <2> QED
    BY <2>1, <2>2
<1>9. CASE CaptureGoesOn
  <2>1. bumped' = FALSE
    BY <1>9 DEF CaptureGoesOn, Sampled, Plain, Went, AtGoal
  <2>2. UNCHANGED <<mode, asked, done, refused, feedback, motion, stopping, error, goal, elapsed, pose>>
    BY <1>9 DEF CaptureGoesOn, Sampled, Plain, Went, AtGoal, armVars, motionVars, poseVars
  <2> QED
    BY <2>1, <2>2
<1>10. CASE CaptureEnds
  <2>1. bumped' = FALSE
    BY <1>10 DEF CaptureEnds, Sampled, Plain, Went, AtGoal
  <2>2. UNCHANGED <<mode, asked, done, refused, feedback, motion, stopping, error, goal, elapsed, pose>>
    BY <1>10 DEF CaptureEnds, Sampled, Plain, Went, AtGoal, armVars, motionVars, poseVars
  <2> QED
    BY <2>1, <2>2
<1>11. CASE StartNodes
  <2>1. mode' \in [Side -> {"off", "gravity", "policy", "hold"}]
    BY <1>11 DEF StartNodes, armVars
  <2>2. UNCHANGED <<asked, done, refused, feedback, motionVars, poseVars>>
    BY <1>11 DEF StartNodes, armVars
  <2> QED
    BY <2>1, <2>2 DEF motionVars, poseVars
<1>12. CASE Release
  <2>1. mode' \in [Side -> {"off", "gravity", "policy", "hold"}]
    BY <1>12 DEF Release, armVars
  <2>2. UNCHANGED <<asked, done, refused, feedback, motionVars, poseVars>>
    BY <1>12 DEF Release, armVars
  <2> QED
    BY <2>1, <2>2 DEF motionVars, poseVars
<1>13. CASE Gone
  <2>1. /\ mode' = [a \in Side |-> "off"] /\ asked' = [o \in Side \X Service |-> <<>>]
        /\ done' = [c \in Caller |-> {}] /\ refused' = {} /\ feedback' = "fresh"
        /\ motion' = "none" /\ goal' = Elsewhere /\ pose' = Elsewhere
    BY <1>13 DEF Gone
  <2>2. stopping' \in BOOLEAN /\ error' \in BOOLEAN /\ elapsed' \in BOOLEAN /\ bumped' \in BOOLEAN
    BY <1>13 DEF Gone
  <2> QED
    BY <2>1, <2>2 DEF Elsewhere
<1>14. CASE AskArms
  <2>1. Ask("main", Calls[at]) /\ at \in DOMAIN Calls /\ UNCHANGED <<motionVars, poseVars>>
    BY <1>14 DEF AskArms
  <2>2. Calls[at] \in Service /\ "main" \in Caller
    BY <2>1, CallsAre DEF Service, Caller
  <2>3. asked' \in [Side \X Service -> Requests] /\ done' \in [Caller -> SUBSET Side]
    BY <2>1, <2>2, AskFacts
  <2>4. refused' \subseteq Caller /\ UNCHANGED <<mode, feedback>>
    BY <2>1 DEF Ask
  <2> QED
    BY <2>1, <2>3, <2>4 DEF Requests, motionVars, poseVars
<1>15. CASE Raising
  <2>1. UNCHANGED <<motionVars, poseVars>>
    BY <1>15 DEF Raising, Raise
  <2>2. CASE waits
    <3>1. Disown("main") /\ UNCHANGED <<mode, done, refused, feedback>>
      BY <1>15, <2>2 DEF Raising, Raise, Abandon
    <3>2. asked' \in [Side \X Service -> Requests]
      BY <3>1, DisownFacts DEF Caller
    <3> QED
      BY <2>1, <3>1, <3>2 DEF Requests, motionVars, poseVars
  <2>3. CASE ~waits
    BY <1>15, <2>1, <2>3 DEF Raising, Raise, armVars, motionVars, poseVars
  <2> QED
    BY <2>2, <2>3 DEF CalibrationTypeOK, ProgramTypeOK
<1>16. CASE ArmsAnswer
  <2>1. Kept
    BY <1>16 DEF ArmsAnswer, Unmoved
  <2> QED
    BY <2>1, <1>0
<1>17. CASE Preflight
  <2>1. /\ motion' = "new" /\ goal' = pose
        /\ stopping' \in BOOLEAN /\ error' \in BOOLEAN /\ elapsed' \in BOOLEAN
    BY <1>17 DEF Preflight, MakeControl
  <2>2. UNCHANGED <<armVars, poseVars>>
    BY <1>17 DEF Preflight
  <2> QED
    BY <2>1, <2>2 DEF armVars, poseVars
<1>18. CASE MakeThread
  <2>1. motion' = "made"
    BY <1>18 DEF MakeThread, Plain, Went
  <2>2. UNCHANGED <<mode, asked, done, refused, feedback, stopping, error, goal, elapsed, pose, bumped>>
    BY <1>18 DEF MakeThread, Plain, Went, armVars, motionVars, poseVars
  <2> QED
    BY <2>1, <2>2
<1>19. CASE StartThread
  <2>1. motion' = "running"
    BY <1>19 DEF StartThread, Plain, Went
  <2>2. UNCHANGED <<mode, asked, done, refused, feedback, stopping, error, goal, elapsed, pose, bumped>>
    BY <1>19 DEF StartThread, Plain, Went, armVars, motionVars, poseVars
  <2> QED
    BY <2>1, <2>2
<1>20. CASE StartMove
  <2>1. goal' = step /\ elapsed' \in BOOLEAN
    BY <1>20 DEF StartMove, Move
  <2>3. step \in Nat
    BY RouteFacts DEF CalibrationTypeOK, FilesTypeOK, CaptureTypeOK
  <2>2. UNCHANGED <<armVars, motion, stopping, error, poseVars>>
    BY <1>20 DEF StartMove, Move
  <2> QED
    BY <2>1, <2>2, <2>3 DEF armVars, poseVars
<1>21. CASE Stop
  <2>1. stopping' \in BOOLEAN
    BY <1>21 DEF Stop, Plain, Went
  <2>2. UNCHANGED <<mode, asked, done, refused, feedback, motion, error, goal, elapsed, pose, bumped>>
    BY <1>21 DEF Stop, Plain, Went, armVars, motionVars, poseVars
  <2> QED
    BY <2>1, <2>2
<1>22. CASE Join
  <2>1. goal' = Elsewhere /\ elapsed' \in BOOLEAN /\ error' \in BOOLEAN
    BY <1>22 DEF Join, Plain, Went
  <2>2. UNCHANGED <<mode, asked, done, refused, feedback, motion, stopping, pose, bumped>>
    BY <1>22 DEF Join, Plain, Went, armVars, motionVars, poseVars
  <2> QED
    BY <2>1, <2>2 DEF Elsewhere
<1>23. CASE Beside
  BY <1>23, ArmsTypeBeside
<1>24. CASE \E s \in {"teach", "record"} : StartProgram(s)
  <2>1. Kept
    BY <1>24 DEF StartProgram, routeVars, runVars
  <2> QED
    BY <2>1, <1>0
<1>25. CASE UNCHANGED calibrationVars
  <2>1. Kept
    BY <1>25 DEF calibrationVars, armVars, motionVars, poseVars, progVars, cameraVars,
         captureVars, runVars, routeVars
  <2> QED
    BY <2>1, <1>0
<1> QED
  BY <1>1, <1>2, <1>3, <1>4, <1>5, <1>6, <1>7, <1>8, <1>9, <1>10, <1>11, <1>12, <1>13,
       <1>14, <1>15, <1>16, <1>17, <1>18, <1>19, <1>20, <1>21, <1>22, <1>23, <1>24, <1>25,
       StepCases

(* The motion thread runs between its start and its end ...                *)
LEMMA StageBeside ==
    ASSUME CalibrationInv, Beside
    PROVE  StageInv'
<1> USE DEF CalibrationInv, StageInv, Opening, Teaching, Looping, Recording, Closing, Stops,
     Commanding
<1>1. CASE \E a \in Side, s \in Service : Serve(a, s)
  BY <1>1, BesideKeeps DEF Serve, progVars, motionVars
<1>2. CASE Tick
  BY <1>2, BesideKeeps DEF Tick, Halt, progVars, motionVars
<1>3. CASE Leaves
  BY <1>3, BesideKeeps DEF Leaves, Halt, progVars, motionVars
<1>4. CASE AskHold
  BY <1>4, BesideKeeps DEF AskHold, Ask, progVars, motionVars
<1>5. CASE HoldReturns
  BY <1>5, BesideKeeps DEF HoldReturns, Halt, progVars, motionVars
<1>6. CASE HoldTimesOut
  BY <1>6, BesideKeeps DEF HoldTimesOut, Abandon, Disown, progVars, motionVars
<1>7. CASE TickFails
  BY <1>7, BesideKeeps DEF TickFails, Streaming, progVars, motionVars
<1>8. CASE PublishTargets
  BY <1>8, BesideKeeps DEF PublishTargets, progVars, motionVars
<1>9. CASE SegmentEnds
  BY <1>9, BesideKeeps DEF SegmentEnds, progVars, motionVars
<1>10. CASE FeedbackReturns
  BY <1>10, BesideKeeps DEF FeedbackReturns, progVars, motionVars
<1>11. CASE FeedbackGap
  BY <1>11, BesideKeeps DEF FeedbackGap, progVars, motionVars
<1>12. CASE FeedbackBreaks
  BY <1>12, BesideKeeps DEF FeedbackBreaks, progVars, motionVars
<1>13. CASE \E a \in Side : Watchdog(a)
  BY <1>13, BesideKeeps DEF Watchdog, progVars, motionVars
<1>14. CASE stage = "teach" /\ \E p \in Nat : Hand(p)
  BY <1>14, BesideKeeps DEF Hand, progVars, motionVars
<1>15. CASE Bump
  BY <1>15, BesideKeeps DEF Bump, progVars, motionVars
<1>16. CASE \E a \in Side : NodeDies(a)
  BY <1>16, BesideKeeps DEF NodeDies, progVars, motionVars
<1>17. CASE CameraStep
  BY <1>17, BesideKeeps DEF CameraStep, Unmoved, motionVars, progVars
<1>18. CASE CameraDies
  BY <1>18, BesideKeeps DEF CameraDies, Unmoved, motionVars, progVars
<1> QED
  BY <1>1, <1>2, <1>3, <1>4, <1>5, <1>6, <1>7, <1>8, <1>9, <1>10, <1>11, <1>12, <1>13,
       <1>14, <1>15, <1>16, <1>17, <1>18, BesideCases

(* ... which is what the main thread makes of it.                          *)
LEMMA StageStep ==
    ASSUME CalibrationInv, [CalibrationNext]_calibrationVars
    PROVE  StageInv'
<1> USE CallsAre DEF CalibrationInv, CalibrationTypeOK, ProgramTypeOK, StageInv, Opening,
    Teaching, Looping,
     Recording, Closing, Stops, Commanding, motionVars
<1>1. CASE StartSystem \/ StartCamera \/ CameraOpens \/ StartNodes \/ OpenArms
          \/ ArchiveRoute
  BY <1>1 DEF StartSystem, Went, Unmoved, StartCamera, CameraOpens, Plain, StartNodes,
       OpenArms, ArchiveRoute
<1>2. CASE NewRoute \/ LookAtArms \/ NoKey \/ DeleteLast \/ PressSave \/ CloseWindow
  BY <1>2 DEF NewRoute, Plain, Went, Unmoved, LookAtArms, NoKey, Keyed, DeleteLast,
       PressSave, CloseWindow
<1>3. CASE SaveEvidence \/ SaveRoute \/ Conclude \/ CreateRun \/ Preflight
          \/ MakeThread
  BY <1>3 DEF SaveEvidence, Plain, Went, Unmoved, SaveRoute, Conclude, CreateRun, Saved,
       Written, Preflight, MakeControl, MakeThread
<1>4. CASE StartThread \/ StartMove \/ Look \/ KeepWaiting \/ Arrive \/ OpenWindow
  BY <1>4 DEF StartThread, Plain, Went, StartMove, MayMove, Move, Before, Look, Unmoved,
       KeepWaiting, Sampled, Arrive, AtGoal, OpenWindow
<1>5. CASE CaptureGoesOn \/ SaveObservation \/ SaveResult \/ Split \/ Digest \/ Finalize
          \/ Stop \/ Join
  BY <1>5 DEF CaptureGoesOn, Sampled, Plain, Went, AtGoal, SaveObservation, Unmoved,
       SaveResult, Saved, Split, Digest, Finalize, Written, Stop, Join
<1>6. CASE SaveTrace \/ Point \/ BoardTaken \/ Parked
  BY <1>6 DEF SaveTrace, Plain, Went, Unmoved, Point, BoardTaken, Parked
<1>7. CASE \E s \in {"teach", "record"} : StartProgram(s)
  BY <1>7 DEF StartProgram
<1>8. CASE Raising
  <2>1. at' = Handler /\ UNCHANGED <<stage, motion>> /\ waits' = FALSE
        /\ alarmed' = (alarmed \/ waits \/ at \in Stopping)
    BY <1>8 DEF Raising, Raise
  <2>2. at' \in {"release", "save", "stop", "trace", "board"}
    BY <1>8, HandlerIs, <2>1 DEF Raising, Running, Replaying, Stopping
  <2>3. at' \in {"stop", "trace", "save"} => at \in Recording
    BY <1>8, HandlerIs, <2>1 DEF Raising, Running, Replaying, Stopping
  <2>4. at' = "stop" => motion # "none"
    BY <1>8, HandlerIs, <2>1 DEF Raising, Running, Replaying, Stopping
  <2>5. at' \in {"trace", "save", "board", "release"} => alarmed' \/ motion \in {"none", "new", "ended"}
    BY <1>8, HandlerIs, <2>1 DEF Raising, Running, Replaying, Stopping
  <2> QED
    BY <2>1, <2>2, <2>3, <2>4, <2>5
<1>9. CASE Gone
  BY <1>9 DEF Gone
<1>10. CASE Beside
  BY <1>10, StageBeside
<1>11. CASE AskArms
  BY <1>11 DEF AskArms
<1>12. CASE ArmsAnswer
  <2>1. at' = AfterCall /\ at \in DOMAIN Calls /\ UNCHANGED <<stage, motion, alarmed>> /\ waits' = FALSE
    BY <1>12 DEF ArmsAnswer, Went, Unmoved
  <2> QED
    BY <2>1, AfterCallIs
<1>13. CASE Release
  BY <1>13 DEF Release, Went
<1>14. CASE CaptureEnds
  BY <1>14 DEF CaptureEnds, Sampled, Plain, Went, AtGoal
<1>15. CASE NextMove
  BY <1>15 DEF NextMove, Plain, Went, Unmoved
<1>16. CASE SaveRun
  BY <1>16 DEF SaveRun, Plain, Went, Unmoved, Saved
<1>17. CASE UNCHANGED calibrationVars
  BY <1>17 DEF calibrationVars, armVars, motionVars, poseVars, progVars, cameraVars,
       captureVars, runVars, routeVars, bounds
<1> QED
  BY <1>1, <1>2, <1>3, <1>4, <1>5, <1>6, <1>7, <1>8, <1>9, <1>10, <1>11, <1>12, <1>13,
       <1>14, <1>15, <1>16, <1>17, StepCases

(* A call of the main thread is outstanding only where it is made. *)
LEMMA OutstandingIs ==
    ASSUME StageInv, NEW a
    PROVE  /\ \A s : Outstanding(a, s) => waits /\ at \in DOMAIN Calls /\ Calls[at] = s
           /\ Outstanding(a, "calibration_hold") => at = "hold"
           /\ Outstanding(a, "enable_policy_control") => at = "enable"
           /\ \A s : \A t : Outstanding(a, s) /\ Outstanding(a, t) => s = t
  BY CallsAre DEF Outstanding, StageInv

(* The requests of the main thread are served, and nobody else makes such  *)
(* ones.                                                                   *)
LEMMA CallBeside ==
    ASSUME CalibrationInv, Beside
    PROVE  CallInv'
<1> USE DEF CalibrationInv, CalibrationTypeOK
<1>0. UNCHANGED <<at, waits, alarmed, asked, done>> => CallInv'
  <2> SUFFICES ASSUME UNCHANGED <<at, waits, alarmed, asked, done>> PROVE CallInv'
    OBVIOUS
  <2>1. \A a, s : Outstanding(a, s)' <=> Outstanding(a, s)
    BY DEF Outstanding
  <2> QED
    BY <2>1 DEF CallInv
<1>1. CASE CameraStep
  <2>1. UNCHANGED <<at, waits, alarmed, asked, done>>
    BY <1>1, BesideKeeps DEF CameraStep, Expose, Unmoved, progVars, armVars
  <2> QED
    BY <2>1, <1>0
<1>2. CASE \E a \in Side, s \in Service : Serve(a, s)
  <2>1. PICK a \in Side, s \in Service : Serve(a, s)
    BY <1>2
  <2> DEFINE queue == asked[<<a, s>>]
  <2>2. UNCHANGED <<at, waits, alarmed>>
    BY <1>2, BesideKeeps DEF progVars
  <2>3. /\ queue \in Requests /\ queue # <<>> /\ Len(queue) \in Nat \ {0}
        /\ Head(queue) = queue[1] /\ asked'[<<a, s>>] = Tail(queue)
        /\ \A b \in Side : \A t \in Service : <<b, t>> # <<a, s>> => asked'[<<b, t>>] = asked[<<b, t>>]
        /\ done'["main"] = IF "main" = Head(queue) THEN done["main"] \cup {a} ELSE done["main"]
    BY <2>1, ServeFacts DEF Caller
  <2> SUFFICES ASSUME ~alarmed, NEW b \in Side, NEW t \in Service \ {"calibration_hold"}
               PROVE  asked'[<<b, t>>] = IF Outstanding(b, t)' THEN <<"main">> ELSE <<>>
    BY <2>2 DEF CallInv
  <2>4. /\ asked[<<b, t>>] = IF Outstanding(b, t) THEN <<"main">> ELSE <<>>
        /\ s # "calibration_hold" => queue = IF Outstanding(a, s) THEN <<"main">> ELSE <<>>
    BY DEF CallInv
  <2>5. Head(queue) = "main" => Outstanding(a, s)
    <3>1. CASE s = "calibration_hold"
      <4>1. 1 \in DOMAIN queue
        BY <2>3 DEF Requests
      <4>2. \A i \in DOMAIN asked[<<a, "calibration_hold">>] :
               asked[<<a, "calibration_hold">>][i] = "main" => Outstanding(a, "calibration_hold")
        BY DEF HoldInv, HoldQueue
      <4> QED
        BY <2>3, <3>1, <4>1, <4>2
    <3>2. CASE s # "calibration_hold"
      BY <2>3, <2>4, <3>2
    <3> QED
      BY <3>1, <3>2
  <2>6. CASE b = a /\ t = s
    <3>1. Outstanding(a, s) /\ queue = <<"main">>
      BY <2>3, <2>4, <2>6
    <3>2. Head(queue) = "main" /\ Tail(queue) = <<>>
      BY <3>1
    <3>3. ~Outstanding(a, s)'
      BY <2>3, <3>2 DEF Outstanding
    <3> QED
      BY <2>3, <2>6, <3>2, <3>3
  <2>7. CASE ~(b = a /\ t = s)
    <3>1. asked'[<<b, t>>] = asked[<<b, t>>]
      BY <2>3, <2>7
    <3>2. Outstanding(b, t)' <=> Outstanding(b, t)
      <4>1. CASE Head(queue) = "main" /\ b = a
        <5>1. Outstanding(a, s) /\ t # s
          BY <2>5, <2>7, <4>1
        <5>2. ~Outstanding(b, t)
          BY <4>1, <5>1, OutstandingIs
        <5>3. ~Outstanding(b, t)'
          BY <2>2, <2>3, <4>1 DEF Outstanding
        <5> QED
          BY <5>2, <5>3
      <4>2. CASE ~(Head(queue) = "main" /\ b = a)
        <5>1. b \in done'["main"] <=> b \in done["main"]
          BY <2>3, <4>2
        <5> QED
          BY <2>2, <5>1 DEF Outstanding
      <4> QED
        BY <4>1, <4>2
    <3> QED
      BY <2>4, <3>1, <3>2
  <2> QED
    BY <2>6, <2>7
<1>3. CASE Tick
  <2>1. UNCHANGED <<at, waits, alarmed, asked, done>>
    BY <1>3, BesideKeeps DEF Tick, Halt, progVars, armVars
  <2> QED
    BY <2>1, <1>0
<1>4. CASE Leaves
  <2>1. UNCHANGED <<at, waits, alarmed, asked, done>>
    BY <1>4, BesideKeeps DEF Leaves, Halt, progVars, armVars
  <2> QED
    BY <2>1, <1>0
<1>5. CASE AskHold
  <2>0. UNCHANGED <<at, waits, alarmed>>
    BY <1>5, BesideKeeps DEF progVars
  <2>1. /\ \A a \in Side : \A t \in Service \ {"calibration_hold"} : asked'[<<a, t>>] = asked[<<a, t>>]
        /\ done'["main"] = done["main"]
    BY <1>5, AskFacts DEF AskHold, Service, Caller
  <2>2. \A a, s : Outstanding(a, s)' <=> Outstanding(a, s)
    BY <2>0, <2>1 DEF Outstanding
  <2> QED
    BY <2>0, <2>1, <2>2 DEF CallInv
<1>6. CASE HoldReturns
  <2>1. UNCHANGED <<at, waits, alarmed, asked, done>>
    BY <1>6, BesideKeeps DEF HoldReturns, Halt, progVars, armVars
  <2> QED
    BY <2>1, <1>0
<1>7. CASE HoldTimesOut
  <2>0. UNCHANGED <<at, waits, alarmed>>
    BY <1>7, BesideKeeps DEF progVars
  <2>1. Disown("motion") /\ done' = done
    BY <1>7 DEF HoldTimesOut, Abandon
  <2>2. \A a \in Side : \A t \in Service :
           /\ asked[<<a, t>>] = <<>> => asked'[<<a, t>>] = <<>>
           /\ asked[<<a, t>>] = <<"main">> => asked'[<<a, t>>] = <<"main">>
    BY <2>1, DisownFacts DEF Caller
  <2>3. \A a, s : Outstanding(a, s)' <=> Outstanding(a, s)
    BY <2>0, <2>1 DEF Outstanding
  <2> QED
    BY <2>0, <2>2, <2>3 DEF CallInv
<1>8. CASE TickFails
  <2>1. UNCHANGED <<at, waits, alarmed, asked, done>>
    BY <1>8, BesideKeeps DEF TickFails, Streaming, progVars, armVars
  <2> QED
    BY <2>1, <1>0
<1>9. CASE PublishTargets
  <2>1. UNCHANGED <<at, waits, alarmed, asked, done>>
    BY <1>9, BesideKeeps DEF PublishTargets, progVars, armVars
  <2> QED
    BY <2>1, <1>0
<1>10. CASE SegmentEnds
  <2>1. UNCHANGED <<at, waits, alarmed, asked, done>>
    BY <1>10, BesideKeeps DEF SegmentEnds, progVars, armVars
  <2> QED
    BY <2>1, <1>0
<1>11. CASE FeedbackReturns
  <2>1. UNCHANGED <<at, waits, alarmed, asked, done>>
    BY <1>11, BesideKeeps DEF FeedbackReturns, progVars, armVars
  <2> QED
    BY <2>1, <1>0
<1>12. CASE FeedbackGap
  <2>1. UNCHANGED <<at, waits, alarmed, asked, done>>
    BY <1>12, BesideKeeps DEF FeedbackGap, progVars, armVars
  <2> QED
    BY <2>1, <1>0
<1>13. CASE FeedbackBreaks
  <2>1. UNCHANGED <<at, waits, alarmed, asked, done>>
    BY <1>13, BesideKeeps DEF FeedbackBreaks, progVars, armVars
  <2> QED
    BY <2>1, <1>0
<1>14. CASE \E a \in Side : Watchdog(a)
  <2>1. UNCHANGED <<at, waits, alarmed, asked, done>>
    BY <1>14, BesideKeeps DEF Watchdog, progVars, armVars
  <2> QED
    BY <2>1, <1>0
<1>15. CASE stage = "teach" /\ \E p \in Nat : Hand(p)
  <2>1. UNCHANGED <<at, waits, alarmed, asked, done>>
    BY <1>15, BesideKeeps DEF Hand, progVars, armVars
  <2> QED
    BY <2>1, <1>0
<1>16. CASE Bump
  <2>1. UNCHANGED <<at, waits, alarmed, asked, done>>
    BY <1>16, BesideKeeps DEF Bump, progVars, armVars
  <2> QED
    BY <2>1, <1>0
<1>17. CASE CameraDies
  <2>1. UNCHANGED <<at, waits, alarmed, asked, done>>
    BY <1>17, BesideKeeps DEF CameraDies, Unmoved, progVars, armVars
  <2> QED
    BY <2>1, <1>0
<1>18. CASE \E a \in Side : NodeDies(a)
  <2>1. UNCHANGED <<at, waits, alarmed, asked, done>>
    BY <1>18, BesideKeeps DEF NodeDies, progVars, armVars
  <2> QED
    BY <2>1, <1>0
<1> QED
  BY <1>1, <1>2, <1>3, <1>4, <1>5, <1>6, <1>7, <1>8, <1>9, <1>10, <1>11, <1>12, <1>13,
       <1>14, <1>15, <1>16, <1>17, <1>18, BesideCases

(* Whatever the main thread asks for, it waits for, or reports.            *)
LEMMA CallStep ==
    ASSUME CalibrationInv, [CalibrationNext]_calibrationVars
    PROVE  CallInv'
<1> USE CallsAre DEF CalibrationInv, StageInv
<1> DEFINE Kept == UNCHANGED <<asked, alarmed>> /\ ~waits /\ ~waits'
<1>0. Kept => CallInv'
  <2> SUFFICES ASSUME Kept PROVE CallInv'
    OBVIOUS
  <2>1. \A a, s : ~Outstanding(a, s) /\ ~Outstanding(a, s)'
    BY DEF Outstanding
  <2> QED
    BY <2>1 DEF CallInv
<1>1. CASE StartSystem \/ StartCamera \/ CameraOpens \/ StartNodes \/ OpenArms
          \/ ArchiveRoute
  <2>1. Kept
    BY <1>1 DEF StartSystem, Went, Unmoved, StartCamera, CameraOpens, Plain, StartNodes,
         OpenArms, ArchiveRoute, armVars
  <2> QED
    BY <2>1, <1>0
<1>2. CASE NewRoute \/ LookAtArms \/ NoKey \/ DeleteLast \/ PressSave \/ CloseWindow
  <2>1. Kept
    BY <1>2 DEF NewRoute, Plain, Went, Unmoved, LookAtArms, NoKey, Keyed, DeleteLast,
         PressSave, CloseWindow, armVars
  <2> QED
    BY <2>1, <1>0
<1>3. CASE SaveEvidence \/ SaveRoute \/ Conclude \/ CreateRun \/ Preflight
          \/ MakeThread
  <2>1. Kept
    BY <1>3 DEF SaveEvidence, Plain, Went, Unmoved, SaveRoute, Conclude, CreateRun, Saved,
         Written, Preflight, MakeControl, MakeThread, armVars
  <2> QED
    BY <2>1, <1>0
<1>4. CASE StartThread \/ StartMove \/ Look \/ KeepWaiting \/ Arrive \/ OpenWindow
  <2>1. Kept
    BY <1>4 DEF StartThread, Plain, Went, StartMove, MayMove, Move, Before, Look, Unmoved,
         KeepWaiting, Sampled, Arrive, AtGoal, OpenWindow, armVars
  <2> QED
    BY <2>1, <1>0
<1>5. CASE CaptureGoesOn \/ CaptureEnds \/ SaveObservation \/ SaveResult \/ NextMove
          \/ Split \/ Digest \/ Finalize
  <2>1. Kept
    BY <1>5 DEF CaptureGoesOn, Sampled, Plain, Went, AtGoal, CaptureEnds, SaveObservation,
         Unmoved, SaveResult, Saved, NextMove, Split, Digest, Finalize, Written, armVars
  <2> QED
    BY <2>1, <1>0
<1>6. CASE Stop \/ Join \/ SaveTrace \/ SaveRun \/ Point \/ BoardTaken
  <2>1. Kept
    BY <1>6 DEF Stop, Plain, Went, Join, SaveTrace, Unmoved, SaveRun, Saved, Point,
         BoardTaken, armVars
  <2> QED
    BY <2>1, <1>0
<1>7. CASE Parked
  <2>1. Kept
    BY <1>7 DEF Parked, Plain, Went, Unmoved, armVars
  <2> QED
    BY <2>1, <1>0
<1>8. CASE Beside
  BY <1>8, CallBeside
<1>9. CASE \E s \in {"teach", "record"} : StartProgram(s)
  <2>1. at \in {"idle", "gone"} /\ UNCHANGED <<waits, asked>>
    BY <1>9 DEF StartProgram, armVars
  <2>2. \A a, s : ~Outstanding(a, s)'
    BY <2>1 DEF Outstanding, IdleInv
  <2> QED
    BY <2>1, <2>2 DEF CallInv, IdleInv
<1>10. CASE Gone
  <2>1. /\ asked' = [o \in Side \X Service |-> <<>>] /\ mode' = [a \in Side |-> "off"]
        /\ waits' = FALSE /\ at' = "gone"
    BY <1>10 DEF Gone
  <2>2. \A a \in Side : \A s \in Service : asked'[<<a, s>>] = <<>>
    <3>1. \A a \in Side : \A s \in Service : <<a, s>> \in Side \X Service
      OBVIOUS
    <3> QED
      BY <2>1, <3>1
  <2>3. \A a \in Side : mode'[a] = "off"
    BY <2>1
  <2>4. \A a, s : ~Outstanding(a, s)'
    BY <2>1 DEF Outstanding
  <2> QED
    BY <2>2, <2>4 DEF CallInv
<1>11. CASE AskArms
  <2>1. /\ Ask("main", Calls[at]) /\ at \in DOMAIN Calls /\ ~waits /\ waits' = TRUE
        /\ UNCHANGED <<at, alarmed, motion>>
    BY <1>11 DEF AskArms, motionVars
  <2>2. Calls[at] \in Service /\ "main" \in Caller
    BY <2>1, CallsAre DEF Service, Caller
  <2>3. /\ \A a \in Side : asked'[<<a, Calls[at]>>] = Append(asked[<<a, Calls[at]>>], "main")
        /\ \A a \in Side : \A t \in Service \ {Calls[at]} : asked'[<<a, t>>] = asked[<<a, t>>]
        /\ done'["main"] = {} /\ refused' = refused \ {"main"} /\ mode' = mode
    BY <2>1, <2>2, AskFacts DEF CalibrationTypeOK
  <2>4. \A a, s : ~Outstanding(a, s)
    BY <2>1 DEF Outstanding
  <2>5. \A a, s : Outstanding(a, s)' <=> Calls[at] = s
    BY <2>1, <2>3 DEF Outstanding
  <2> SUFFICES ASSUME ~alarmed, NEW a \in Side, NEW s \in Service \ {"calibration_hold"}
               PROVE  asked'[<<a, s>>] = IF Outstanding(a, s)' THEN <<"main">> ELSE <<>>
    BY <2>1 DEF CallInv
  <2>7. asked[<<a, s>>] = <<>>
    BY <2>4 DEF CallInv
  <2>8. Append(<<>>, "main") = <<"main">>
    OBVIOUS
  <2> QED
    BY <2>3, <2>5, <2>7, <2>8
<1>12. CASE ArmsAnswer
  <2>1. /\ at' = AfterCall /\ at \in DOMAIN Calls /\ waits /\ waits' = FALSE
        /\ done["main"] = Side /\ "main" \notin refused /\ UNCHANGED <<alarmed, armVars, motionVars>>
    BY <1>12 DEF ArmsAnswer, Went, Unmoved, Answered, StageInv
  <2>2. \A a \in Side : \A s : ~Outstanding(a, s) /\ ~Outstanding(a, s)'
    BY <2>1 DEF Outstanding
  <2> QED
    BY <2>1, <2>2 DEF CallInv, armVars
<1>13. CASE Raising
  <2>1. alarmed' = (alarmed \/ waits \/ at \in Stopping) /\ waits' = FALSE /\ at' = Handler
    BY <1>13 DEF Raising, Raise
  <2> SUFFICES ASSUME ~alarmed, ~waits, at \notin Stopping PROVE CallInv'
    BY <2>1 DEF CallInv
  <2>2. UNCHANGED armVars
    BY <1>13 DEF Raising, Raise
  <2>3. \A a, s : ~Outstanding(a, s) /\ ~Outstanding(a, s)'
    BY <2>1 DEF Outstanding
  <2> QED
    BY <2>2, <2>3 DEF CallInv, armVars
<1>14. CASE Release
  <2>1. Kept
    BY <1>14 DEF Release, Went, armVars
  <2> QED
    BY <2>1, <1>0
<1>15. CASE UNCHANGED calibrationVars
  <2>1. UNCHANGED <<at, waits, alarmed, asked, done>>
    BY <1>15 DEF calibrationVars, armVars, progVars
  <2>2. \A a, s : Outstanding(a, s)' <=> Outstanding(a, s)
    BY <2>1 DEF Outstanding
  <2> QED
    BY <2>1, <2>2 DEF CallInv
<1> QED
  BY <1>1, <1>2, <1>3, <1>4, <1>5, <1>6, <1>7, <1>8, <1>9, <1>10, <1>11, <1>12, <1>13,
       <1>14, <1>15, StepCases

(* A hold that the motion thread gave up stays ahead of that of the main   *)
(* thread ...                                                              *)
LEMMA HoldBeside ==
    ASSUME CalibrationInv, Beside
    PROVE  HoldInv'
<1> USE DEF CalibrationInv, CalibrationTypeOK
<1>0. UNCHANGED <<at, waits, alarmed, asked, done>> => HoldInv'
  <2> SUFFICES ASSUME UNCHANGED <<at, waits, alarmed, asked, done>> PROVE HoldInv'
    OBVIOUS
  <2>1. \A a, s : Outstanding(a, s)' <=> Outstanding(a, s)
    BY DEF Outstanding
  <2> QED
    BY <2>1 DEF HoldInv, HoldQueue
<1>1. CASE CameraStep
  <2>1. UNCHANGED <<at, waits, alarmed, asked, done>>
    BY <1>1, BesideKeeps DEF CameraStep, Expose, Unmoved, progVars, armVars
  <2> QED
    BY <2>1, <1>0
<1>2. CASE \E a \in Side, s \in Service : Serve(a, s)
  <2>1. PICK a \in Side, s \in Service : Serve(a, s)
    BY <1>2
  <2> DEFINE queue == asked[<<a, s>>]
  <2>2. UNCHANGED <<at, waits, alarmed>>
    BY <1>2, BesideKeeps DEF progVars
  <2>3. /\ queue \in Requests /\ queue # <<>> /\ Len(queue) \in Nat \ {0}
        /\ Head(queue) = queue[1] /\ asked'[<<a, s>>] = Tail(queue)
        /\ \A b \in Side : \A t \in Service : <<b, t>> # <<a, s>> => asked'[<<b, t>>] = asked[<<b, t>>]
        /\ done'["main"] = IF "main" = Head(queue) THEN done["main"] \cup {a} ELSE done["main"]
    BY <2>1, ServeFacts DEF Caller
  <2> SUFFICES ASSUME ~alarmed, NEW b \in Side PROVE HoldQueue(b)'
    BY <2>2 DEF HoldInv
  <2> DEFINE old == asked[<<b, "calibration_hold">>]
             new == asked'[<<b, "calibration_hold">>]
  <2>4. HoldQueue(b) /\ HoldQueue(a)
    BY DEF HoldInv
  <2>5. CASE s # "calibration_hold"
    <3>1. new = old
      BY <2>3, <2>5 DEF Service
    <3>2. Head(queue) = "main" => Outstanding(a, s)
      BY <2>3, <2>5 DEF CallInv
    <3>3. Head(queue) = "main" => at # "hold"
      BY <3>2, <2>5, CallsAre DEF Outstanding
    <3>4. at = "hold" => done'["main"] = done["main"]
      BY <2>3, <3>3
    <3>5. Outstanding(b, "calibration_hold")' <=> Outstanding(b, "calibration_hold")
      BY <2>2, <3>4, CallsAre DEF Outstanding, StageInv
    <3> QED
      BY <2>2, <2>4, <3>1, <3>4, <3>5 DEF HoldQueue
  <2>6. CASE s = "calibration_hold" /\ b # a
    <3>1. new = old
      BY <2>3, <2>6 DEF Service
    <3>2. b \in done'["main"] <=> b \in done["main"]
      BY <2>3, <2>6
    <3>3. Outstanding(b, "calibration_hold")' <=> Outstanding(b, "calibration_hold")
      BY <2>2, <3>2 DEF Outstanding
    <3> QED
      BY <2>2, <2>4, <3>1, <3>2, <3>3 DEF HoldQueue
  <2>7. CASE s = "calibration_hold" /\ b = a
    <3>1. old = queue /\ new = Tail(queue)
      BY <2>3, <2>7
    <3>2. /\ new \in Requests /\ Len(new) \in Nat /\ Len(new) = Len(queue) - 1
          /\ DOMAIN new = 1..Len(new) /\ \A i \in 1..Len(new) : new[i] = queue[i + 1]
          /\ DOMAIN queue = 1..Len(queue)
      BY <2>3, <3>1 DEF Requests
    <3>3. at \in Commanding
      BY <2>3, <2>4, <3>1 DEF HoldQueue
    <3>4. CASE Head(queue) = "main"
      <4>5. 1 \in DOMAIN old /\ old[1] = "main"
        BY <2>3, <3>1, <3>2, <3>4
      <4>1. Len(queue) = 1
        BY <2>4, <3>1, <4>5 DEF HoldQueue
      <4>2. new = <<>>
        BY <3>2, <4>1 DEF Requests
      <4>3. ~Outstanding(b, "calibration_hold")'
        BY <2>3, <2>7, <3>4 DEF Outstanding
      <4>4. DOMAIN new = {}
        BY <3>2, <4>1
      <4> QED
        BY <4>2, <4>3, <4>4 DEF HoldQueue
    <3>5. CASE Head(queue) # "main"
      <4>1. done'["main"] = done["main"]
        BY <2>3, <3>5
      <4>2. Outstanding(b, "calibration_hold")' <=> Outstanding(b, "calibration_hold")
        BY <2>2, <4>1 DEF Outstanding
      <4>3. \A i \in DOMAIN new : new[i] = "main" =>
               i = Len(new) /\ Outstanding(b, "calibration_hold")
        <5>1. TAKE i \in DOMAIN new
        <5>2. i + 1 \in DOMAIN queue /\ new[i] = queue[i + 1]
          <6>1. i \in 1..Len(new) /\ new[i] = queue[i + 1]
            BY <3>2
          <6>2. Len(queue) \in Nat /\ Len(new) \in Nat /\ Len(new) = Len(queue) - 1
            BY <2>3, <3>2 DEF Requests
          <6>3. i + 1 \in 1..Len(queue)
            BY <6>1, <6>2
          <6> QED
            BY <3>2, <6>1, <6>3
        <5>3. queue[i + 1] = "main" => i + 1 = Len(queue) /\ Outstanding(b, "calibration_hold")
          BY <2>4, <3>1, <5>2 DEF HoldQueue
        <5> QED
          BY <3>2, <5>2, <5>3
      <4>4. Outstanding(b, "calibration_hold") => new # <<>> /\ new[Len(new)] = "main"
        <5> SUFFICES ASSUME Outstanding(b, "calibration_hold") PROVE new # <<>> /\ new[Len(new)] = "main"
          OBVIOUS
        <5>1. queue[Len(queue)] = "main"
          BY <2>4, <3>1 DEF HoldQueue
        <5>2. Len(queue) # 1
          BY <2>3, <3>5, <5>1
        <5>7. Len(new) = Len(queue) - 1 /\ Len(queue) \in Nat \ {0} /\ Len(queue) # 1
          BY <2>3, <3>2, <5>2
        <5> DEFINE m == Len(new)
                   n == Len(queue)
        <5>8. m = n - 1 /\ n \in Nat \ {0} /\ n # 1
          BY <5>7
        <5> HIDE DEF m, n
        <5>9. m \in 1..m
          BY <5>8
        <5>5. Len(new) \in 1..Len(new)
          BY <5>9 DEF m
        <5>6. new = <<>> => Len(new) = 0
          OBVIOUS
        <5>3. Len(new) \in 1..Len(new) /\ new # <<>>
          BY <5>5, <5>6
        <5>4. new[Len(new)] = queue[Len(new) + 1] /\ Len(new) + 1 = Len(queue)
          BY <2>3, <3>2, <5>3
        <5> QED
          BY <5>1, <5>3, <5>4
      <4>5. at = "hold" /\ waits => b \notin done["main"]
        BY <2>3, <2>4, <3>1 DEF HoldQueue
      <4> QED
        BY <2>2, <3>3, <4>1, <4>2, <4>3, <4>4, <4>5 DEF HoldQueue
    <3> QED
      BY <3>4, <3>5
  <2> QED
    BY <2>5, <2>6, <2>7 DEF Service
<1>3. CASE Tick
  <2>1. UNCHANGED <<at, waits, alarmed, asked, done>>
    BY <1>3, BesideKeeps DEF Tick, Halt, progVars, armVars
  <2> QED
    BY <2>1, <1>0
<1>4. CASE Leaves
  <2>1. UNCHANGED <<at, waits, alarmed, asked, done>>
    BY <1>4, BesideKeeps DEF Leaves, Halt, progVars, armVars
  <2> QED
    BY <2>1, <1>0
<1>5. CASE AskHold
  <2>0. UNCHANGED <<at, waits, alarmed>>
    BY <1>5, BesideKeeps DEF progVars
  <2> SUFFICES ASSUME ~alarmed, NEW b \in Side PROVE HoldQueue(b)'
    BY <2>0 DEF HoldInv
  <2> DEFINE old == asked[<<b, "calibration_hold">>]
             new == asked'[<<b, "calibration_hold">>]
  <2>1. /\ new = Append(old, "motion") /\ done'["main"] = done["main"] /\ motion = "failing"
    BY <1>5, AskFacts DEF AskHold, Service, Caller
  <2>2. HoldQueue(b) /\ old \in Requests
    BY DEF HoldInv, ArmsTypeOK, Service, Requests
  <2>3. at \in Commanding \ {"hold"}
    BY <2>1
       DEF StageInv, ProgramTypeOK, Opening, Teaching, Recording, Looping, Closing,
           Stops, Commanding
  <2>4. ~Outstanding(b, "calibration_hold") /\ ~Outstanding(b, "calibration_hold")'
    BY <2>0, <2>3, CallsAre DEF Outstanding, StageInv
  <2>5. \A i \in DOMAIN new : new[i] # "main"
    <3>1. \A i \in DOMAIN old : old[i] # "main"
      BY <2>2, <2>4 DEF HoldQueue
    <3>2. \A i \in DOMAIN new : new[i] = "motion" \/ (i \in DOMAIN old /\ new[i] = old[i])
      BY <2>1, <2>2 DEF Requests
    <3> QED
      BY <3>1, <3>2
  <2> QED
    BY <2>0, <2>3, <2>4, <2>5 DEF HoldQueue
<1>6. CASE HoldReturns
  <2>1. UNCHANGED <<at, waits, alarmed, asked, done>>
    BY <1>6, BesideKeeps DEF HoldReturns, Halt, progVars, armVars
  <2> QED
    BY <2>1, <1>0
<1>7. CASE HoldTimesOut
  <2>0. UNCHANGED <<at, waits, alarmed>>
    BY <1>7, BesideKeeps DEF progVars
  <2> SUFFICES ASSUME ~alarmed, NEW b \in Side PROVE HoldQueue(b)'
    BY <2>0 DEF HoldInv
  <2> DEFINE old == asked[<<b, "calibration_hold">>]
             new == asked'[<<b, "calibration_hold">>]
  <2>1. Disown("motion") /\ done' = done
    BY <1>7 DEF HoldTimesOut, Abandon
  <2>2. /\ DOMAIN new = DOMAIN old /\ Len(new) = Len(old)
        /\ \A i \in DOMAIN old : new[i] = IF old[i] = "motion" THEN "nobody" ELSE old[i]
        /\ old = <<>> => new = <<>>
        /\ old # <<>> => new # <<>>
    BY <2>1, DisownFacts DEF Caller, Service
  <2>3. HoldQueue(b) /\ old \in Requests
    BY DEF HoldInv, ArmsTypeOK, Service, Requests
  <2>4. Outstanding(b, "calibration_hold")' <=> Outstanding(b, "calibration_hold")
    BY <2>0, <2>1 DEF Outstanding
  <2>5. old # <<>> => Len(old) \in DOMAIN old
    BY <2>3 DEF Requests
  <2>6. \A i \in DOMAIN old : new[i] = "main" <=> old[i] = "main"
    BY <2>2
  <2> HIDE DEF old, new
  <2>7. Outstanding(b, "calibration_hold") => new # <<>> /\ new[Len(new)] = "main"
    BY <2>2, <2>3, <2>5, <2>6 DEF HoldQueue, old
  <2>8. \A i \in DOMAIN new : new[i] = "main" => i = Len(new) /\ Outstanding(b, "calibration_hold")
    BY <2>2, <2>3, <2>6 DEF HoldQueue, old
  <2> QED
    BY <2>0, <2>1, <2>2, <2>3, <2>4, <2>7, <2>8 DEF HoldQueue, old, new
<1>8. CASE TickFails
  <2>1. UNCHANGED <<at, waits, alarmed, asked, done>>
    BY <1>8, BesideKeeps DEF TickFails, Streaming, progVars, armVars
  <2> QED
    BY <2>1, <1>0
<1>9. CASE PublishTargets
  <2>1. UNCHANGED <<at, waits, alarmed, asked, done>>
    BY <1>9, BesideKeeps DEF PublishTargets, progVars, armVars
  <2> QED
    BY <2>1, <1>0
<1>10. CASE SegmentEnds
  <2>1. UNCHANGED <<at, waits, alarmed, asked, done>>
    BY <1>10, BesideKeeps DEF SegmentEnds, progVars, armVars
  <2> QED
    BY <2>1, <1>0
<1>11. CASE FeedbackReturns
  <2>1. UNCHANGED <<at, waits, alarmed, asked, done>>
    BY <1>11, BesideKeeps DEF FeedbackReturns, progVars, armVars
  <2> QED
    BY <2>1, <1>0
<1>12. CASE FeedbackGap
  <2>1. UNCHANGED <<at, waits, alarmed, asked, done>>
    BY <1>12, BesideKeeps DEF FeedbackGap, progVars, armVars
  <2> QED
    BY <2>1, <1>0
<1>13. CASE FeedbackBreaks
  <2>1. UNCHANGED <<at, waits, alarmed, asked, done>>
    BY <1>13, BesideKeeps DEF FeedbackBreaks, progVars, armVars
  <2> QED
    BY <2>1, <1>0
<1>14. CASE \E a \in Side : Watchdog(a)
  <2>1. UNCHANGED <<at, waits, alarmed, asked, done>>
    BY <1>14, BesideKeeps DEF Watchdog, progVars, armVars
  <2> QED
    BY <2>1, <1>0
<1>15. CASE stage = "teach" /\ \E p \in Nat : Hand(p)
  <2>1. UNCHANGED <<at, waits, alarmed, asked, done>>
    BY <1>15, BesideKeeps DEF Hand, progVars, armVars
  <2> QED
    BY <2>1, <1>0
<1>16. CASE Bump
  <2>1. UNCHANGED <<at, waits, alarmed, asked, done>>
    BY <1>16, BesideKeeps DEF Bump, progVars, armVars
  <2> QED
    BY <2>1, <1>0
<1>17. CASE CameraDies
  <2>1. UNCHANGED <<at, waits, alarmed, asked, done>>
    BY <1>17, BesideKeeps DEF CameraDies, Unmoved, progVars, armVars
  <2> QED
    BY <2>1, <1>0
<1>18. CASE \E a \in Side : NodeDies(a)
  <2>1. UNCHANGED <<at, waits, alarmed, asked, done>>
    BY <1>18, BesideKeeps DEF NodeDies, progVars, armVars
  <2> QED
    BY <2>1, <1>0
<1> QED
  BY <1>1, <1>2, <1>3, <1>4, <1>5, <1>6, <1>7, <1>8, <1>9, <1>10, <1>11, <1>12, <1>13,
       <1>14, <1>15, <1>16, <1>17, <1>18, BesideCases

(* ... which so answers for both, before the arms are asked anything else. *)
LEMMA HoldStep ==
    ASSUME CalibrationInv, [CalibrationNext]_calibrationVars
    PROVE  HoldInv'
<1> USE CallsAre DEF CalibrationInv, StageInv, CalibrationTypeOK
<1> DEFINE Kept == UNCHANGED <<asked, alarmed>> /\ ~waits /\ ~waits' /\ (at' \notin Commanding => at \notin Commanding)
<1>0. Kept => HoldInv'
  <2> SUFFICES ASSUME Kept PROVE HoldInv'
    OBVIOUS
  <2>1. \A a, s : ~Outstanding(a, s) /\ ~Outstanding(a, s)'
    BY DEF Outstanding
  <2> QED
    BY <2>1 DEF HoldInv, HoldQueue
<1>1. CASE StartSystem \/ StartCamera \/ CameraOpens \/ StartNodes \/ OpenArms
          \/ ArchiveRoute
  <2>1. Kept
    BY <1>1 DEF StartSystem, Went, Unmoved, StartCamera, CameraOpens, Plain, StartNodes,
         OpenArms, ArchiveRoute, armVars, Commanding, Looping
  <2> QED
    BY <2>1, <1>0
<1>2. CASE NewRoute \/ LookAtArms \/ NoKey \/ DeleteLast \/ PressSave \/ CloseWindow
  <2>1. Kept
    BY <1>2 DEF NewRoute, Plain, Went, Unmoved, LookAtArms, NoKey, Keyed, DeleteLast,
         PressSave, CloseWindow, armVars, Commanding, Looping
  <2> QED
    BY <2>1, <1>0
<1>3. CASE SaveEvidence \/ SaveRoute \/ Conclude \/ CreateRun \/ Preflight
          \/ MakeThread
  <2>1. Kept
    BY <1>3 DEF SaveEvidence, Plain, Went, Unmoved, SaveRoute, Conclude, CreateRun, Saved,
         Written, Preflight, MakeControl, MakeThread, armVars, Commanding, Looping
  <2> QED
    BY <2>1, <1>0
<1>4. CASE StartThread \/ StartMove \/ Look \/ KeepWaiting \/ Arrive \/ OpenWindow
  <2>1. Kept
    BY <1>4 DEF StartThread, Plain, Went, StartMove, MayMove, Move, Before, Look, Unmoved,
         KeepWaiting, Sampled, Arrive, AtGoal, OpenWindow, armVars, Commanding, Looping
  <2> QED
    BY <2>1, <1>0
<1>5. CASE CaptureGoesOn \/ CaptureEnds \/ SaveObservation \/ SaveResult \/ NextMove
          \/ Split \/ Digest \/ Finalize
  <2>1. Kept
    BY <1>5 DEF CaptureGoesOn, Sampled, Plain, Went, AtGoal, CaptureEnds, SaveObservation,
         Unmoved, SaveResult, Saved, NextMove, Split, Digest, Finalize, Written, armVars,
       Commanding,
         Looping
  <2> QED
    BY <2>1, <1>0
<1>6. CASE Stop \/ Join \/ SaveTrace \/ SaveRun \/ Point \/ BoardTaken
  <2>1. Kept
    BY <1>6 DEF Stop, Plain, Went, Join, SaveTrace, Unmoved, SaveRun, Saved, Point,
         BoardTaken, armVars, Commanding, Looping
  <2> QED
    BY <2>1, <1>0
<1>7. CASE Parked
  <2>1. Kept
    BY <1>7 DEF Parked, Plain, Went, Unmoved, armVars, Commanding, Looping
  <2> QED
    BY <2>1, <1>0
<1>8. CASE Beside
  BY <1>8, HoldBeside
<1>9. CASE \E s \in {"teach", "record"} : StartProgram(s)
  <2>1. at \in {"idle", "gone"} /\ UNCHANGED <<waits, asked>>
    BY <1>9 DEF StartProgram, armVars
  <2>2. \A a, s : ~Outstanding(a, s)'
    BY <2>1 DEF Outstanding, IdleInv
  <2>3. \A a \in Side : asked'[<<a, "calibration_hold">>] = <<>>
    BY <2>1 DEF IdleInv, Service
  <2>4. DOMAIN <<>> = {}
    OBVIOUS
  <2> QED
    BY <2>2, <2>3, <2>4 DEF HoldInv, HoldQueue
<1>10. CASE Gone
  <2>1. /\ asked' = [o \in Side \X Service |-> <<>>] /\ mode' = [a \in Side |-> "off"]
        /\ waits' = FALSE /\ at' = "gone"
    BY <1>10 DEF Gone
  <2>2. \A a \in Side : \A s \in Service : asked'[<<a, s>>] = <<>>
    <3>1. \A a \in Side : \A s \in Service : <<a, s>> \in Side \X Service
      OBVIOUS
    <3> QED
      BY <2>1, <3>1
  <2>3. \A a \in Side : mode'[a] = "off"
    BY <2>1
  <2>4. \A a, s : ~Outstanding(a, s)'
    BY <2>1 DEF Outstanding
  <2>5. \A a \in Side : asked'[<<a, "calibration_hold">>] = <<>>
    BY <2>2 DEF Service
  <2>6. DOMAIN <<>> = {}
    OBVIOUS
  <2> QED
    BY <2>4, <2>5, <2>6 DEF HoldInv, HoldQueue
<1>11. CASE AskArms
  <2>1. /\ Ask("main", Calls[at]) /\ at \in DOMAIN Calls /\ ~waits /\ waits' = TRUE
        /\ UNCHANGED <<at, alarmed, motion>>
    BY <1>11 DEF AskArms, motionVars
  <2>2. Calls[at] \in Service /\ "main" \in Caller
    BY <2>1, CallsAre DEF Service, Caller
  <2>3. /\ \A a \in Side : asked'[<<a, Calls[at]>>] = Append(asked[<<a, Calls[at]>>], "main")
        /\ \A a \in Side : \A t \in Service \ {Calls[at]} : asked'[<<a, t>>] = asked[<<a, t>>]
        /\ done'["main"] = {} /\ refused' = refused \ {"main"} /\ mode' = mode
    BY <2>1, <2>2, AskFacts DEF CalibrationTypeOK
  <2>4. \A a, s : ~Outstanding(a, s)
    BY <2>1 DEF Outstanding
  <2>5. \A a, s : Outstanding(a, s)' <=> Calls[at] = s
    BY <2>1, <2>3 DEF Outstanding
  <2> SUFFICES ASSUME ~alarmed, NEW b \in Side PROVE HoldQueue(b)'
    BY <2>1 DEF HoldInv
  <2> DEFINE old == asked[<<b, "calibration_hold">>]
             new == asked'[<<b, "calibration_hold">>]
  <2>6. HoldQueue(b) /\ old \in Requests
    BY <2>1 DEF HoldInv, ArmsTypeOK, Service, Requests
  <2>7. CASE at = "hold"
    <3>1. new = Append(old, "main")
      BY <2>3, <2>7
    <3>2. /\ new # <<>> /\ new[Len(new)] = "main" /\ Len(new) = Len(old) + 1
          /\ \A i \in DOMAIN new : i = Len(new) \/ (i \in DOMAIN old /\ new[i] = old[i])
      BY <2>6, <3>1 DEF Requests
    <3>3. \A i \in DOMAIN old : old[i] # "main"
      BY <2>4, <2>6 DEF HoldQueue
    <3>4. Outstanding(b, "calibration_hold")'
      BY <2>5, <2>7
    <3>5. at' \in Commanding
      BY <2>1, <2>7 DEF Commanding
    <3> HIDE DEF old, new
    <3> QED
      BY <2>3, <3>2, <3>3, <3>4, <3>5 DEF HoldQueue, new
  <2>8. CASE at # "hold"
    <3>1. Calls[at] # "calibration_hold" /\ new = old
      BY <2>1, <2>2, <2>3, <2>8 DEF Service
    <3> QED
      BY <2>1, <2>4, <2>5, <2>6, <2>8, <3>1 DEF HoldQueue
  <2> QED
    BY <2>7, <2>8
<1>12. CASE ArmsAnswer
  <2>1. /\ at' = AfterCall /\ at \in DOMAIN Calls /\ waits /\ waits' = FALSE
        /\ done["main"] = Side /\ "main" \notin refused /\ UNCHANGED <<alarmed, armVars, motionVars>>
    BY <1>12 DEF ArmsAnswer, Went, Unmoved, Answered, StageInv
  <2>2. \A a \in Side : \A s : ~Outstanding(a, s) /\ ~Outstanding(a, s)'
    BY <2>1 DEF Outstanding
  <2> SUFFICES ASSUME ~alarmed, NEW b \in Side PROVE HoldQueue(b)'
    BY <2>1 DEF HoldInv
  <2>3. asked' = asked /\ HoldQueue(b)
    BY <2>1 DEF armVars, HoldInv
  <2>4. at' \notin Commanding => asked[<<b, "calibration_hold">>] = <<>>
    <3>1. CASE at = "hold"
      BY <2>1, <2>3, <3>1 DEF HoldQueue
    <3>2. CASE at # "hold"
      <4>1. at \in Commanding => at' \in Commanding
        BY <2>1, <3>2, AfterCallIs DEF Commanding, Looping
      <4> QED
        BY <2>3, <4>1 DEF HoldQueue
    <3> QED
      BY <3>1, <3>2
  <2> QED
    BY <2>1, <2>2, <2>3, <2>4 DEF HoldQueue
<1>13. CASE Raising
  <2>1. alarmed' = (alarmed \/ waits \/ at \in Stopping) /\ waits' = FALSE /\ at' = Handler
    BY <1>13 DEF Raising, Raise
  <2> SUFFICES ASSUME ~alarmed, ~waits, at \notin Stopping PROVE HoldInv'
    BY <2>1 DEF HoldInv
  <2>2. UNCHANGED armVars
    BY <1>13 DEF Raising, Raise
  <2>3. \A a, s : ~Outstanding(a, s) /\ ~Outstanding(a, s)'
    BY <2>1 DEF Outstanding
  <2>4. at \in Commanding => at' \in Commanding
    BY <1>13, <2>1, HandlerIs DEF Raising, Running, Commanding, Looping, Replaying, Stopping
  <2> QED
    BY <2>1, <2>2, <2>3, <2>4 DEF HoldInv, HoldQueue, armVars
<1>14. CASE Release
  <2>1. Kept
    BY <1>14 DEF Release, Went, armVars
  <2> QED
    BY <2>1, <1>0
<1>15. CASE UNCHANGED calibrationVars
  <2>1. UNCHANGED <<at, waits, alarmed, asked, done>>
    BY <1>15 DEF calibrationVars, armVars, progVars
  <2>2. \A a, s : Outstanding(a, s)' <=> Outstanding(a, s)
    BY <2>1 DEF Outstanding
  <2> QED
    BY <2>1, <2>2 DEF HoldInv, HoldQueue
<1> QED
  BY <1>1, <1>2, <1>3, <1>4, <1>5, <1>6, <1>7, <1>8, <1>9, <1>10, <1>11, <1>12, <1>13,
       <1>14, <1>15, StepCases

(* Nothing is on its way between two programs, so nothing moves ...        *)
LEMMA IdleBeside ==
    ASSUME CalibrationInv, Beside
    PROVE  IdleInv'
<1> USE DEF CalibrationInv, StageInv
<1>0. UNCHANGED <<at, waits, asked, mode>> => IdleInv'
  BY DEF IdleInv
<1>1. CASE CameraStep
  <2>1. UNCHANGED <<at, waits, asked, mode>>
    BY <1>1, BesideKeeps DEF CameraStep, Expose, Unmoved, progVars, armVars
  <2> QED
    BY <2>1, <1>0
<1>2. CASE \E a \in Side, s \in Service : Serve(a, s)
  <2>1. PICK a \in Side, s \in Service : Serve(a, s)
    BY <1>2
  <2>2. asked[<<a, s>>] # <<>> /\ at' = at
    BY <1>2, <2>1, BesideKeeps DEF Serve, progVars
  <2> QED
    BY <2>2 DEF IdleInv
<1>3. CASE Tick
  <2>1. UNCHANGED <<at, waits, asked, mode>>
    BY <1>3, BesideKeeps DEF Tick, Halt, progVars, armVars
  <2> QED
    BY <2>1, <1>0
<1>4. CASE Leaves
  <2>1. UNCHANGED <<at, waits, asked, mode>>
    BY <1>4, BesideKeeps DEF Leaves, Halt, progVars, armVars
  <2> QED
    BY <2>1, <1>0
<1>5. CASE AskHold
  <2>1. motion # "none" /\ at' = at
    BY <1>5, BesideKeeps DEF AskHold, progVars
  <2> QED
    BY <2>1 DEF IdleInv
<1>6. CASE HoldReturns
  <2>1. UNCHANGED <<at, waits, asked, mode>>
    BY <1>6, BesideKeeps DEF HoldReturns, Halt, progVars, armVars
  <2> QED
    BY <2>1, <1>0
<1>7. CASE HoldTimesOut
  <2>1. motion # "none" /\ at' = at
    BY <1>7, BesideKeeps DEF HoldTimesOut, progVars
  <2> QED
    BY <2>1 DEF IdleInv
<1>8. CASE TickFails
  <2>1. UNCHANGED <<at, waits, asked, mode>>
    BY <1>8, BesideKeeps DEF TickFails, Streaming, progVars, armVars
  <2> QED
    BY <2>1, <1>0
<1>9. CASE PublishTargets
  <2>1. UNCHANGED <<at, waits, asked, mode>>
    BY <1>9, BesideKeeps DEF PublishTargets, progVars, armVars
  <2> QED
    BY <2>1, <1>0
<1>10. CASE SegmentEnds
  <2>1. UNCHANGED <<at, waits, asked, mode>>
    BY <1>10, BesideKeeps DEF SegmentEnds, progVars, armVars
  <2> QED
    BY <2>1, <1>0
<1>11. CASE FeedbackReturns
  <2>1. UNCHANGED <<at, waits, asked, mode>>
    BY <1>11, BesideKeeps DEF FeedbackReturns, progVars, armVars
  <2> QED
    BY <2>1, <1>0
<1>12. CASE FeedbackGap
  <2>1. UNCHANGED <<at, waits, asked, mode>>
    BY <1>12, BesideKeeps DEF FeedbackGap, progVars, armVars
  <2> QED
    BY <2>1, <1>0
<1>13. CASE FeedbackBreaks
  <2>1. UNCHANGED <<at, waits, asked, mode>>
    BY <1>13, BesideKeeps DEF FeedbackBreaks, progVars, armVars
  <2> QED
    BY <2>1, <1>0
<1>14. CASE \E a \in Side : Watchdog(a)
  <2>1. PICK a \in Side : Watchdog(a)
    BY <1>14
  <2>2. mode[a] = "policy" /\ at' = at
    BY <2>1, BesideKeeps DEF Watchdog, progVars
  <2> QED
    BY <2>2 DEF IdleInv
<1>15. CASE stage = "teach" /\ \E p \in Nat : Hand(p)
  <2>1. UNCHANGED <<at, waits, asked, mode>>
    BY <1>15, BesideKeeps DEF Hand, progVars, armVars
  <2> QED
    BY <2>1, <1>0
<1>16. CASE Bump
  <2>1. UNCHANGED <<at, waits, asked, mode>>
    BY <1>16, BesideKeeps DEF Bump, progVars, armVars
  <2> QED
    BY <2>1, <1>0
<1>17. CASE CameraDies
  <2>1. UNCHANGED <<at, waits, asked, mode>>
    BY <1>17, BesideKeeps DEF CameraDies, Unmoved, progVars, armVars
  <2> QED
    BY <2>1, <1>0
<1>18. CASE \E a \in Side : NodeDies(a)
  <2>1. PICK a \in Side : NodeDies(a)
    BY <1>18
  <2>2. mode[a] # "off" /\ at' = at
    BY <2>1, BesideKeeps DEF NodeDies, progVars
  <2> QED
    BY <2>2 DEF IdleInv
<1> QED
  BY <1>1, <1>2, <1>3, <1>4, <1>5, <1>6, <1>7, <1>8, <1>9, <1>10, <1>11, <1>12, <1>13,
       <1>14, <1>15, <1>16, <1>17, <1>18, BesideCases

(* ... and so at the end of every program.                                 *)
LEMMA IdleStep ==
    ASSUME CalibrationInv, [CalibrationNext]_calibrationVars
    PROVE  IdleInv'
<1> USE CallsAre DEF CalibrationInv, StageInv
<1> DEFINE Kept == at' \notin {"idle", "gone"}
<1>0. Kept => IdleInv'
  BY DEF IdleInv
<1>1. CASE StartSystem \/ StartCamera \/ CameraOpens \/ StartNodes \/ OpenArms
          \/ ArchiveRoute
  <2>1. Kept
    BY <1>1 DEF StartSystem, Went, Unmoved, StartCamera, CameraOpens, Plain, StartNodes,
         OpenArms, ArchiveRoute
  <2> QED
    BY <2>1, <1>0
<1>2. CASE NewRoute \/ LookAtArms \/ NoKey \/ DeleteLast \/ PressSave \/ CloseWindow
  <2>1. Kept
    BY <1>2 DEF NewRoute, Plain, Went, Unmoved, LookAtArms, NoKey, Keyed, DeleteLast,
         PressSave, CloseWindow
  <2> QED
    BY <2>1, <1>0
<1>3. CASE SaveEvidence \/ SaveRoute \/ Conclude \/ CreateRun \/ Preflight
          \/ MakeThread
  <2>1. Kept
    BY <1>3 DEF SaveEvidence, Plain, Went, Unmoved, SaveRoute, Conclude, CreateRun, Saved,
         Written, Preflight, MakeControl, MakeThread
  <2> QED
    BY <2>1, <1>0
<1>4. CASE StartThread \/ StartMove \/ Look \/ KeepWaiting \/ Arrive \/ OpenWindow
  <2>1. Kept
    BY <1>4 DEF StartThread, Plain, Went, StartMove, MayMove, Move, Before, Look, Unmoved,
         KeepWaiting, Sampled, Arrive, AtGoal, OpenWindow
  <2> QED
    BY <2>1, <1>0
<1>5. CASE CaptureGoesOn \/ CaptureEnds \/ SaveObservation \/ SaveResult \/ NextMove
          \/ Split \/ Digest \/ Finalize
  <2>1. Kept
    BY <1>5 DEF CaptureGoesOn, Sampled, Plain, Went, AtGoal, CaptureEnds, SaveObservation,
         Unmoved, SaveResult, Saved, NextMove, Split, Digest, Finalize, Written
  <2> QED
    BY <2>1, <1>0
<1>6. CASE Stop \/ Join \/ SaveTrace \/ SaveRun \/ Point \/ BoardTaken
  <2>1. Kept
    BY <1>6 DEF Stop, Plain, Went, Join, SaveTrace, Unmoved, SaveRun, Saved, Point,
         BoardTaken
  <2> QED
    BY <2>1, <1>0
<1>7. CASE Parked \/ Release
  <2>1. Kept
    BY <1>7 DEF Parked, Plain, Went, Unmoved, Release
  <2> QED
    BY <2>1, <1>0
<1>8. CASE Beside
  BY <1>8, IdleBeside
<1>9. CASE Gone
  <2>1. /\ asked' = [o \in Side \X Service |-> <<>>] /\ mode' = [a \in Side |-> "off"]
        /\ waits' = FALSE /\ at' = "gone"
    BY <1>9 DEF Gone
  <2>2. \A a \in Side : \A s \in Service : asked'[<<a, s>>] = <<>>
    <3>1. \A a \in Side : \A s \in Service : <<a, s>> \in Side \X Service
      OBVIOUS
    <3> QED
      BY <2>1, <3>1
  <2>3. \A a \in Side : mode'[a] = "off"
    BY <2>1
  <2> QED
    BY <2>1, <2>2, <2>3 DEF IdleInv
<1>10. CASE AskArms
  <2>1. Kept
    BY <1>10 DEF AskArms
  <2> QED
    BY <2>1, <1>0
<1>11. CASE \E s \in {"teach", "record"} : StartProgram(s)
  <2>1. Kept
    BY <1>11 DEF StartProgram, routeVars, runVars
  <2> QED
    BY <2>1, <1>0
<1>12. CASE Raising
  <2>1. Kept
    <3>1. at' \in {"release", "save", "stop", "trace", "board"}
      BY <1>12, HandlerIs
         DEF Raising, Raise, Running, StageInv, CalibrationTypeOK, ProgramTypeOK,
             Opening,
           Teaching, Recording, Looping, Stops, Closing, Replaying, Stopping
    <3> QED
      BY <1>12, <3>1 DEF Raising, Raise, routeVars, runVars
  <2> QED
    BY <2>1, <1>0
<1>13. CASE ArmsAnswer
  <2>1. Kept
    <3>1. at' = AfterCall /\ waits /\ at \in DOMAIN Calls
      BY <1>13 DEF ArmsAnswer, Went, StageInv
    <3> QED
      BY <1>13, <3>1, AfterCallIs, CallsAre
         DEF ArmsAnswer, Went, routeVars, runVars, captureVars, cameraVars,
             Unmoved,
         armVars, motionVars, poseVars
  <2> QED
    BY <2>1, <1>0
<1>14. CASE UNCHANGED calibrationVars
  <2>1. UNCHANGED <<at, waits, asked, mode>>
    BY <1>14 DEF calibrationVars, armVars, progVars
  <2> QED
    BY <2>1 DEF IdleInv
<1> QED
  BY <1>1, <1>2, <1>3, <1>4, <1>5, <1>6, <1>7, <1>8, <1>9, <1>10, <1>11, <1>12, <1>13,
       <1>14, StepCases

(* What an arm does of itself never enables it, and never ends its gravity *)
(* compensation ...                                                        *)
LEMMA ModeBeside ==
    ASSUME CalibrationInv, Beside
    PROVE  ModeInv'
<1> USE DEF CalibrationInv, CalibrationTypeOK
<1>0. UNCHANGED <<at, waits, alarmed, mode, done, refused>> => ModeInv'
  BY DEF ModeInv
<1>1. CASE CameraStep
  <2>1. UNCHANGED <<at, waits, alarmed, mode, done, refused>>
    BY <1>1, BesideKeeps DEF CameraStep, Expose, Unmoved, progVars, armVars
  <2> QED
    BY <2>1, <1>0
<1>2. CASE \E a \in Side, s \in Service : Serve(a, s)
  <2>1. PICK a \in Side, s \in Service : Serve(a, s)
    BY <1>2
  <2> DEFINE queue == asked[<<a, s>>]
  <2>2. UNCHANGED <<at, waits, alarmed>>
    BY <1>2, BesideKeeps DEF progVars
  <2>3. /\ queue \in Requests /\ queue # <<>> /\ Len(queue) \in Nat \ {0}
        /\ Head(queue) = queue[1] /\ asked'[<<a, s>>] = Tail(queue)
        /\ \A b \in Side : \A t \in Service : <<b, t>> # <<a, s>> => asked'[<<b, t>>] = asked[<<b, t>>]
        /\ done'["main"] = IF "main" = Head(queue) THEN done["main"] \cup {a} ELSE done["main"]
    BY <2>1, ServeFacts DEF Caller
  <2> SUFFICES ASSUME ~alarmed, NEW b \in Side
               PROVE  /\ at \notin Commanding => mode'[b] # "policy"
                      /\ at = "hold" /\ waits /\ b \in done'["main"] /\ "main" \notin refused'
                            => mode'[b] # "policy"
                      /\ at = "park" /\ waits /\ b \in done'["main"] => mode'[b] \in {"gravity", "off"}
                      /\ at = "hands" => mode'[b] \in {"gravity", "off"}
    BY <2>2 DEF ModeInv
  <2>4. PICK ok \in BOOLEAN :
           /\ ok \/ s # "gravity_compensation"
           /\ mode' = [mode EXCEPT ![a] = ModeAfter(@, s, ok)]
           /\ refused' = IF ok THEN refused ELSE refused \cup ({Head(asked[<<a, s>>])} \cap Caller)
    BY <2>1, ServeFacts, Zenon
  <2>5. mode'[b] = IF b = a THEN ModeAfter(mode[a], s, ok) ELSE mode[b]
    BY <2>4 DEF ArmsTypeOK
  <2>6. refused \subseteq refused'
    BY <2>4
  <2>7. CASE b # a
    BY <2>3, <2>5, <2>6, <2>7 DEF ModeInv
  <2>8. CASE b = a /\ s = "gravity_compensation"
    <3>1. mode'[b] = "gravity"
      BY <2>5, <2>8, ModeAfterIs
    <3> QED
      BY <3>1
  <2>9. CASE b = a /\ s = "enable_policy_control"
    <3>1. Outstanding(a, s)
      BY <2>3, <2>9 DEF CallInv
    <3>2. at = "enable"
      BY <2>9, <3>1, OutstandingIs
    <3> QED
      BY <3>2 DEF Commanding
  <2>10. CASE b = a /\ s = "calibration_hold"
    <3>1. mode'[b] = Frozen(mode[a], ok)
      BY <2>5, <2>10, ModeAfterIs
    <3>2. mode'[b] # "policy"
      BY <3>1 DEF Frozen
    <3>3. at \in Commanding
      BY <2>3, <2>10 DEF HoldInv, HoldQueue
    <3> QED
      BY <3>2, <3>3 DEF Commanding, Looping
  <2> QED
    BY <2>7, <2>8, <2>9, <2>10 DEF Service
<1>3. CASE Tick
  <2>1. UNCHANGED <<at, waits, alarmed, mode, done, refused>>
    BY <1>3, BesideKeeps DEF Tick, Halt, progVars, armVars
  <2> QED
    BY <2>1, <1>0
<1>4. CASE Leaves
  <2>1. UNCHANGED <<at, waits, alarmed, mode, done, refused>>
    BY <1>4, BesideKeeps DEF Leaves, Halt, progVars, armVars
  <2> QED
    BY <2>1, <1>0
<1>5. CASE AskHold
  <2>1. UNCHANGED <<at, waits, alarmed>>
    BY <1>5, BesideKeeps DEF progVars
  <2>2. UNCHANGED mode /\ refused' = refused \ {"motion"} /\ done'["main"] = done["main"]
    BY <1>5, AskFacts DEF AskHold, Service, Caller
  <2> QED
    BY <2>1, <2>2 DEF ModeInv
<1>6. CASE HoldReturns
  <2>1. UNCHANGED <<at, waits, alarmed, mode, done, refused>>
    BY <1>6, BesideKeeps DEF HoldReturns, Halt, progVars, armVars
  <2> QED
    BY <2>1, <1>0
<1>7. CASE HoldTimesOut
  <2>1. UNCHANGED <<at, waits, alarmed, mode, done, refused>>
    BY <1>7, BesideKeeps DEF HoldTimesOut, Abandon, progVars
  <2> QED
    BY <2>1, <1>0
<1>8. CASE TickFails
  <2>1. UNCHANGED <<at, waits, alarmed, mode, done, refused>>
    BY <1>8, BesideKeeps DEF TickFails, Streaming, progVars, armVars
  <2> QED
    BY <2>1, <1>0
<1>9. CASE PublishTargets
  <2>1. UNCHANGED <<at, waits, alarmed, mode, done, refused>>
    BY <1>9, BesideKeeps DEF PublishTargets, progVars, armVars
  <2> QED
    BY <2>1, <1>0
<1>10. CASE SegmentEnds
  <2>1. UNCHANGED <<at, waits, alarmed, mode, done, refused>>
    BY <1>10, BesideKeeps DEF SegmentEnds, progVars, armVars
  <2> QED
    BY <2>1, <1>0
<1>11. CASE FeedbackReturns
  <2>1. UNCHANGED <<at, waits, alarmed, mode, done, refused>>
    BY <1>11, BesideKeeps DEF FeedbackReturns, progVars, armVars
  <2> QED
    BY <2>1, <1>0
<1>12. CASE FeedbackGap
  <2>1. UNCHANGED <<at, waits, alarmed, mode, done, refused>>
    BY <1>12, BesideKeeps DEF FeedbackGap, progVars, armVars
  <2> QED
    BY <2>1, <1>0
<1>13. CASE FeedbackBreaks
  <2>1. UNCHANGED <<at, waits, alarmed, mode, done, refused>>
    BY <1>13, BesideKeeps DEF FeedbackBreaks, progVars, armVars
  <2> QED
    BY <2>1, <1>0
<1>14. CASE \E a \in Side : Watchdog(a)
  <2>1. UNCHANGED <<at, waits, alarmed, done, refused>>
    BY <1>14, BesideKeeps DEF Watchdog, progVars
  <2>2. PICK a \in Side : mode[a] = "policy" /\ mode' = [mode EXCEPT ![a] = "hold"]
    BY <1>14 DEF Watchdog
  <2>3. \A b \in Side : mode'[b] = IF b = a THEN "hold" ELSE mode[b]
    BY <2>2 DEF ArmsTypeOK
  <2> QED
    BY <2>1, <2>2, <2>3 DEF ModeInv, Commanding, Looping
<1>15. CASE stage = "teach" /\ \E p \in Nat : Hand(p)
  <2>1. UNCHANGED <<at, waits, alarmed, mode, done, refused>>
    BY <1>15, BesideKeeps DEF Hand, progVars, armVars
  <2> QED
    BY <2>1, <1>0
<1>16. CASE Bump
  <2>1. UNCHANGED <<at, waits, alarmed, mode, done, refused>>
    BY <1>16, BesideKeeps DEF Bump, progVars, armVars
  <2> QED
    BY <2>1, <1>0
<1>17. CASE CameraDies
  <2>1. UNCHANGED <<at, waits, alarmed, mode, done, refused>>
    BY <1>17, BesideKeeps DEF CameraDies, Unmoved, progVars, armVars
  <2> QED
    BY <2>1, <1>0
<1>18. CASE \E a \in Side : NodeDies(a)
  <2>1. UNCHANGED <<at, waits, alarmed, done, refused>>
    BY <1>18, BesideKeeps DEF NodeDies, progVars
  <2>2. PICK a \in Side : mode[a] # "off" /\ mode' = [mode EXCEPT ![a] = "off"]
    BY <1>18 DEF NodeDies
  <2>3. \A b \in Side : mode'[b] = IF b = a THEN "off" ELSE mode[b]
    BY <2>2 DEF ArmsTypeOK
  <2> QED
    BY <2>1, <2>2, <2>3 DEF ModeInv, Commanding, Looping
<1> QED
  BY <1>1, <1>2, <1>3, <1>4, <1>5, <1>6, <1>7, <1>8, <1>9, <1>10, <1>11, <1>12, <1>13,
       <1>14, <1>15, <1>16, <1>17, <1>18, BesideCases

(* ... and the main thread goes on only when both arms have answered.      *)
LEMMA ModeStep ==
    ASSUME CalibrationInv, [CalibrationNext]_calibrationVars
    PROVE  ModeInv'
<1> USE CallsAre DEF CalibrationInv, StageInv, CalibrationTypeOK
<1> DEFINE Kept == UNCHANGED <<mode, alarmed>> /\ ~waits' /\ at' # "hands" /\ (at' \notin Commanding => at \notin Commanding)
<1>0. Kept => ModeInv'
  BY DEF ModeInv
<1>1. CASE StartSystem \/ StartCamera \/ CameraOpens \/ OpenArms \/ ArchiveRoute
          \/ NewRoute
  <2>1. Kept
    BY <1>1 DEF StartSystem, Went, Unmoved, StartCamera, CameraOpens, Plain, OpenArms,
         ArchiveRoute, NewRoute, armVars, Commanding, Looping
  <2> QED
    BY <2>1, <1>0
<1>2. CASE LookAtArms \/ NoKey \/ DeleteLast \/ PressSave \/ CloseWindow
          \/ SaveEvidence
  <2>1. Kept
    BY <1>2 DEF LookAtArms, Plain, Went, Unmoved, NoKey, Keyed, DeleteLast, PressSave,
         CloseWindow, SaveEvidence, armVars, Commanding, Looping
  <2> QED
    BY <2>1, <1>0
<1>3. CASE SaveRoute \/ Conclude \/ CreateRun \/ Preflight \/ MakeThread \/ StartThread
  <2>1. Kept
    BY <1>3 DEF SaveRoute, Plain, Went, Unmoved, Conclude, CreateRun, Saved, Written,
         Preflight, MakeControl, MakeThread, StartThread, armVars, Commanding, Looping
  <2> QED
    BY <2>1, <1>0
<1>4. CASE StartMove \/ Look \/ KeepWaiting \/ Arrive \/ OpenWindow \/ CaptureGoesOn
  <2>1. Kept
    BY <1>4 DEF StartMove, Plain, Went, MayMove, Move, Before, Look, Unmoved, KeepWaiting,
         Sampled, Arrive, AtGoal, OpenWindow, CaptureGoesOn, armVars, Commanding, Looping
  <2> QED
    BY <2>1, <1>0
<1>5. CASE CaptureEnds \/ SaveObservation \/ SaveResult \/ NextMove \/ Split \/ Digest
          \/ Finalize \/ Stop
  <2>1. Kept
    BY <1>5 DEF CaptureEnds, Sampled, Plain, Went, AtGoal, SaveObservation, Unmoved,
         SaveResult, Saved, NextMove, Split, Digest, Finalize, Written, Stop, armVars,
       Commanding,
         Looping
  <2> QED
    BY <2>1, <1>0
<1>6. CASE Join \/ SaveTrace \/ SaveRun \/ Point \/ BoardTaken \/ Parked
  <2>1. Kept
    BY <1>6 DEF Join, Plain, Went, SaveTrace, Unmoved, SaveRun, Saved, Point, BoardTaken,
         Parked, armVars, Commanding, Looping
  <2> QED
    BY <2>1, <1>0
<1>7. CASE Beside
  BY <1>7, ModeBeside
<1>8. CASE \E s \in {"teach", "record"} : StartProgram(s)
  <2>1. at \in {"idle", "gone"} /\ UNCHANGED <<waits, mode>> /\ at' = "system"
    BY <1>8 DEF StartProgram, armVars
  <2> QED
    BY <2>1 DEF ModeInv, IdleInv
<1>9. CASE Gone
  <2>1. /\ asked' = [o \in Side \X Service |-> <<>>] /\ mode' = [a \in Side |-> "off"]
        /\ waits' = FALSE /\ at' = "gone"
    BY <1>9 DEF Gone
  <2>2. \A a \in Side : \A s \in Service : asked'[<<a, s>>] = <<>>
    <3>1. \A a \in Side : \A s \in Service : <<a, s>> \in Side \X Service
      OBVIOUS
    <3> QED
      BY <2>1, <3>1
  <2>3. \A a \in Side : mode'[a] = "off"
    BY <2>1
  <2> QED
    BY <2>1, <2>3 DEF ModeInv
<1>10. CASE StartNodes
  <2>1. mode' = [a \in Side |-> "gravity"] /\ at' = "arms"
    BY <1>10 DEF StartNodes, Went
  <2> QED
    BY <2>1 DEF ModeInv
<1>11. CASE Release
  <2>1. at' = "release" /\ at = "release" /\ alarmed' = alarmed
    BY <1>11 DEF Release, Went
  <2>2. mode' = mode \/ mode' = [a \in Side |-> "off"]
    BY <1>11 DEF Release, armVars
  <2>3. CASE mode' = mode
    BY <2>1, <2>3 DEF ModeInv
  <2>4. CASE mode' = [a \in Side |-> "off"]
    BY <2>1, <2>4 DEF ModeInv
  <2> QED
    BY <2>2, <2>3, <2>4
<1>12. CASE AskArms
  <2>1. /\ Ask("main", Calls[at]) /\ at \in DOMAIN Calls /\ ~waits /\ waits' = TRUE
        /\ UNCHANGED <<at, alarmed, motion>>
    BY <1>12 DEF AskArms, motionVars
  <2>2. Calls[at] \in Service /\ "main" \in Caller
    BY <2>1, CallsAre DEF Service, Caller
  <2>3. /\ \A a \in Side : asked'[<<a, Calls[at]>>] = Append(asked[<<a, Calls[at]>>], "main")
        /\ \A a \in Side : \A t \in Service \ {Calls[at]} : asked'[<<a, t>>] = asked[<<a, t>>]
        /\ done'["main"] = {} /\ refused' = refused \ {"main"} /\ mode' = mode
    BY <2>1, <2>2, AskFacts DEF CalibrationTypeOK
  <2>4. \A a, s : ~Outstanding(a, s)
    BY <2>1 DEF Outstanding
  <2>5. \A a, s : Outstanding(a, s)' <=> Calls[at] = s
    BY <2>1, <2>3 DEF Outstanding
  <2> QED
    BY <2>1, <2>3 DEF ModeInv
<1>13. CASE ArmsAnswer
  <2>1. /\ at' = AfterCall /\ at \in DOMAIN Calls /\ waits /\ waits' = FALSE
        /\ done["main"] = Side /\ "main" \notin refused /\ UNCHANGED <<alarmed, armVars, motionVars>>
    BY <1>13 DEF ArmsAnswer, Went, Unmoved, Answered, StageInv
  <2>2. \A a \in Side : \A s : ~Outstanding(a, s) /\ ~Outstanding(a, s)'
    BY <2>1 DEF Outstanding
  <2>3. mode' = mode
    BY <2>1 DEF armVars
  <2>4. ASSUME ~alarmed, NEW a \in Side, at' \notin Commanding PROVE mode[a] # "policy"
    <3>1. CASE at = "hold"
      BY <2>1, <2>4, <3>1 DEF ModeInv
    <3>2. CASE at # "hold"
      <4>1. at \in Commanding => at' \in Commanding
        BY <2>1, <3>2, AfterCallIs DEF Commanding, Looping
      <4> QED
        BY <2>4, <4>1 DEF ModeInv
    <3> QED
      BY <3>1, <3>2
  <2>5. ASSUME ~alarmed, NEW a \in Side, at' = "hands" PROVE mode[a] \in {"gravity", "off"}
    <3>1. at = "park"
      BY <2>1, <2>5, AfterCallIs
    <3> QED
      BY <2>1, <2>5, <3>1 DEF ModeInv
  <2> QED
    BY <2>1, <2>3, <2>4, <2>5 DEF ModeInv
<1>14. CASE Raising
  <2>1. alarmed' = (alarmed \/ waits \/ at \in Stopping) /\ waits' = FALSE /\ at' = Handler
    BY <1>14 DEF Raising, Raise
  <2> SUFFICES ASSUME ~alarmed, ~waits, at \notin Stopping PROVE ModeInv'
    BY <2>1 DEF ModeInv
  <2>2. UNCHANGED armVars
    BY <1>14 DEF Raising, Raise
  <2>4. at \in Commanding => at' \in Commanding
    BY <1>14, <2>1, HandlerIs DEF Raising, Running, Commanding, Looping, Replaying, Stopping
  <2>5. at' # "hands"
    BY <1>14, <2>1, HandlerIs
       DEF Raising, Running, CalibrationTypeOK, ProgramTypeOK, Opening, Teaching,
         Recording, Looping, Stops, Closing, Replaying, Stopping
  <2> QED
    BY <2>1, <2>2, <2>4, <2>5 DEF ModeInv, armVars
<1>15. CASE UNCHANGED calibrationVars
  <2>1. UNCHANGED <<at, waits, alarmed, mode, done, refused>>
    BY <1>15 DEF calibrationVars, armVars, progVars
  <2> QED
    BY <2>1 DEF ModeInv
<1> QED
  BY <1>1, <1>2, <1>3, <1>4, <1>5, <1>6, <1>7, <1>8, <1>9, <1>10, <1>11, <1>12, <1>13,
       <1>14, <1>15, StepCases

(* The station before the first program: no hardware, a finished route and *)
(* a complete run of it.                                                   *)
LEMMA CalibrationInitInvariant == CalibrationInit => CalibrationInv
<1> SUFFICES ASSUME CalibrationInit PROVE CalibrationInv
  OBVIOUS
<1> USE RouteFacts DEF CalibrationInit
<1>1. ArmsTypeOK
  <2>1. /\ mode \in [Side -> {"off", "gravity", "policy", "hold"}]
        /\ asked \in [Side \X Service -> Seq(Caller \cup {"nobody"})]
        /\ done \in [Caller -> SUBSET Side] /\ refused \subseteq Caller
    <3>1. <<>> \in Seq(Caller \cup {"nobody"})
      OBVIOUS
    <3> QED
      BY <3>1 DEF ArmsInit
  <2>2. stopping \in BOOLEAN /\ error \in BOOLEAN /\ elapsed \in BOOLEAN /\ bumped \in BOOLEAN
    BY DEF ArmsInit
  <2>3. goal \in Nat /\ pose \in Nat /\ motion = "none" /\ feedback = "fresh"
    BY DEF ArmsInit, Elsewhere
  <2> QED
    BY <2>1, <2>2, <2>3 DEF ArmsTypeOK
<1>2. ProgramTypeOK
  <2>1. waits \in BOOLEAN /\ raised \in BOOLEAN /\ alarmed \in BOOLEAN
    OBVIOUS
  <2>2. held \in Seq({"system", "camera", "nodes", "arms"})
    OBVIOUS
  <2> QED
    BY <2>1, <2>2 DEF ProgramTypeOK
<1>3. CaptureTypeOK
  <2>1. NoImage \in Images /\ NoBest \in [image : Images, actual : Nat]
    BY DEF NoImage, NoBest, Images, Elsewhere
  <2>2. open \in BOOLEAN
    OBVIOUS
  <2> QED
    BY <2>1, <2>2 DEF CaptureTypeOK
<1>4. RunTypeOK
  <2>1. NoRun \in Runs /\ EarlierRun \in Runs
    BY DEF NoRun, EarlierRun, Runs
  <2>2. \A n \in 0..MaxPrograms : disk[n] \in Runs
    BY <2>1
  <2>3. disk \in [0..MaxPrograms -> Runs]
    BY <2>2
  <2>4. split \in [0..MaxPrograms -> SUBSET Nat]
    OBVIOUS
  <2> QED
    BY <2>1, <2>3, <2>4 DEF RunTypeOK
<1>5. RouteTypeOK
  <2>1. NoRoute = [id |-> 0, points |-> <<>>, draft |-> TRUE]
    BY DEF NoRoute
  <2>2. NoRoute \in Routes
    BY <2>1 DEF Routes
  <2>4. EarlierRoute \in Routes
    BY ONLY <2>2 DEF EarlierRoute, Routes
  <2>3. NoRoute \in Routes /\ EarlierRoute \in Routes
    BY <2>2, <2>4
  <2> QED
    BY <2>3 DEF RouteTypeOK, Elsewhere
<1>6. StageInv
  BY DEF StageInv, ArmsInit, Opening, Teaching, Recording, Looping, Stops, Closing
<1>7. IdleInv
  <2>1. \A a \in Side : \A s \in Service : <<a, s>> \in Side \X Service
    OBVIOUS
  <2> QED
    BY <2>1 DEF IdleInv, ArmsInit
<1>8. \A a, s : ~Outstanding(a, s)
  BY DEF Outstanding
<1>9. CallInv /\ HoldInv
  <2>1. \A a \in Side : \A s \in Service : asked[<<a, s>>] = <<>>
    BY <1>7 DEF IdleInv
  <2>2. DOMAIN <<>> = {}
    OBVIOUS
  <2>3. \A a \in Side : asked[<<a, "calibration_hold">>] = <<>>
    BY <2>1 DEF Service
  <2> QED
    BY <1>8, <2>1, <2>2, <2>3 DEF CallInv, HoldInv, HoldQueue
<1>10. ModeInv
  BY <1>7 DEF ModeInv, IdleInv
<1>11. WindowInv /\ BestInv /\ ObservationShowsItsPose
  BY DEF WindowInv, BestInv, ObservationShowsItsPose
<1>12. RunInv
  BY DEF RunInv, Opening
<1>13. PointerInv
  <2>1. disk[0] = EarlierRun
    OBVIOUS
  <2> QED
    BY <2>1 DEF PointerInv, Complete, EarlierRun, NoRun, Opening, Teaching, Recording, Looping, Stops
<1>14. EvidenceInv
  <2>1. NoRun.observations = {} /\ EarlierRun.observations = {}
    BY DEF NoRun, EarlierRun
  <2>2. run = NoRun /\ \A n \in 0..MaxPrograms : disk[n] \in {NoRun, EarlierRun}
    OBVIOUS
  <2> QED
    BY <2>1, <2>2 DEF EvidenceInv, Evidenced
<1>15. RouteInv
  <2>1. NoRoute.points = <<>> /\ EarlierRoute.points = <<>> /\ ~EarlierRoute.draft
    BY DEF NoRoute, EarlierRoute
  <2>2. DOMAIN <<>> = {}
    OBVIOUS
  <2> QED
    BY <2>1, <2>2 DEF RouteInv, Shown, Drafting
<1>16. SplitInv
  <2>1. NoRun.hashed = {} /\ EarlierRun.hashed = {}
    BY DEF NoRun, EarlierRun
  <2>2. run = NoRun /\ disk[pointer] = EarlierRun /\ \A n \in 0..MaxPrograms : split[n] = {}
    OBVIOUS
  <2>3. pointer \in 0..MaxPrograms /\ at = "idle"
    OBVIOUS
  <2> QED
    BY <2>1, <2>2, <2>3 DEF SplitInv, Stops
<1> QED
  BY <1>1, <1>2, <1>3, <1>4, <1>5, <1>6, <1>7, <1>9, <1>10, <1>11, <1>12, <1>13, <1>14,
     <1>15, <1>16 DEF CalibrationInv, CalibrationTypeOK, FilesTypeOK

(* CalibrationInv is an invariant of calibration for every route, number of *)
(* programs, failures and exceptions, and any arms.                        *)
THEOREM CalibrationInductive == CalibrationSpec => []CalibrationInv
<1>1. CalibrationInv /\ [CalibrationNext]_calibrationVars => CalibrationInv'
  <2> SUFFICES ASSUME CalibrationInv, [CalibrationNext]_calibrationVars PROVE CalibrationInv'
    OBVIOUS
  <2>1. CalibrationTypeOK'
    BY ArmsTypeStep, ProgramTypeStep, CaptureTypeStep, RunTypeStep, RouteTypeStep
       DEF CalibrationTypeOK, FilesTypeOK
  <2>2. StageInv' /\ CallInv' /\ HoldInv' /\ IdleInv' /\ ModeInv'
    BY StageStep, CallStep, HoldStep, IdleStep, ModeStep
  <2>3. WindowInv' /\ BestInv' /\ ObservationShowsItsPose'
    BY WindowStep, BestStep, ObservationStep
  <2>4. RunInv' /\ PointerInv' /\ EvidenceInv' /\ SplitInv' /\ RouteInv'
    BY RunStep, PointerStep, EvidenceStep, SplitStep, RouteStep
  <2> QED
    BY <2>1, <2>2, <2>3, <2>4 DEF CalibrationInv
<1> QED
  BY CalibrationInitInvariant, <1>1, PTL DEF CalibrationSpec

(* Nobody is asked to touch an arm that takes commands, or to hold one     *)
(* that is not in gravity compensation, unless a call to the arms was left *)
(* with its requests on their way, or the stop raised                      *)
(* (ReplayControl.stop, park).                                             *)
THEOREM HandsStaySafe == CalibrationSpec => []HandsAreSafe
<1>1. CalibrationInv => HandsAreSafe
  BY DEF CalibrationInv, ModeInv, HandsAreSafe, Commanding, Looping
<1> QED
  BY <1>1, CalibrationInductive, PTL

(* Every observation shows the pose it is filed under (capture_pose).      *)
THEOREM ObservationsShowTheirPose == CalibrationSpec => []ObservationShowsItsPose
<1>1. CalibrationInv => ObservationShowsItsPose
  BY DEF CalibrationInv
<1> QED
  BY <1>1, CalibrationInductive, PTL

(* What is on disk is whole after every exception and every kill            *)
(* (record_route, finalize_samples, teach).                                       *)
THEOREM DiskStaysWhole == CalibrationSpec => []DiskIsWhole
<1>1. CalibrationInv => DiskIsWhole
  BY DEF CalibrationInv, PointerInv, Complete, EvidenceInv, Evidenced, SplitInv, RouteInv,
        Shown, DiskIsWhole
<1> QED
  BY <1>1, CalibrationInductive, PTL
================================================================================
