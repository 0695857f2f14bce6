------------------------- MODULE EpisodeRuntime_proofs -------------------------
(***************************************************************************)
(* What holds of EpisodeRuntime for every number of Episodes, processes,   *)
(* failures, signals and kills: the inductive invariant, part by part with *)
(* one CASE per action, the theorems that follow from it, and that every   *)
(* step is one of EpisodeArchive or changes nothing of it.                 *)
(***************************************************************************)
EXTENDS EpisodeRuntimeInv, TLAPS

(* The budgets are counted in numbers.                                     *)
LEMMA BudgetType ==
    ASSUME TypeOK, [Next]_vars
    PROVE  ({sessions, failures, signals, crashes} \subseteq Nat)'
<1> USE DEF TypeOK, Works, Fails, Signalled, envVars
<1>1. CASE Check
  BY <1>1 DEF Check
<1>2. CASE Prepare
  BY <1>2 DEF Prepare
<1>3. CASE Start
  BY <1>3 DEF Start
<1>4. CASE Starting
  BY <1>4 DEF Starting
<1>5. CASE StartingFails
  BY <1>5 DEF StartingFails
<1>6. CASE ProbeFails
  BY <1>6 DEF ProbeFails
<1>7. CASE Abandon
  BY <1>7 DEF Abandon
<1>8. CASE AbandonJoin
  BY <1>8 DEF AbandonJoin
<1>9. CASE StartMonitor
  BY <1>9 DEF StartMonitor
<1>10. CASE Announce
  BY <1>10 DEF Announce
<1>11. CASE StartedHook
  BY <1>11 DEF StartedHook
<1>12. CASE Finalizing
  BY <1>12 DEF Finalizing
<1>13. CASE StoppingHook
  BY <1>13 DEF StoppingHook
<1>14. CASE Stop
  BY <1>14 DEF Stop
<1>15. CASE Join
  BY <1>15 DEF Join
<1>16. CASE Unlink
  BY <1>16 DEF Unlink
<1>17. CASE Move
  BY <1>17 DEF Move
<1>18. CASE Rmdir
  BY <1>18 DEF Rmdir
<1>19. CASE Audit
  BY <1>19 DEF Audit
<1>20. CASE Compressing
  BY <1>20 DEF Compressing, NotCompressed
<1>21. CASE Verify
  BY <1>21 DEF Verify
<1>22. CASE Replace
  BY <1>22 DEF Replace
<1>23. CASE WriteMetadata
  BY <1>23 DEF WriteMetadata
<1>24. CASE Commit
  BY <1>24 DEF Commit
<1>25. CASE Exit
  BY <1>25 DEF Exit, Dies
<1>26. CASE RecorderThread
  BY <1>26 DEF RecorderThread
<1>27. CASE Activate
  BY <1>27 DEF Activate
<1>28. CASE EndByOperator
  BY <1>28 DEF EndByOperator
<1>29. CASE EndByFailure
  BY <1>29 DEF EndByFailure
<1>30. CASE EndBySignal
  BY <1>30 DEF EndBySignal
<1>31. CASE InterruptLeaves
  BY <1>31 DEF InterruptLeaves
<1>32. CASE InterruptClears
  BY <1>32 DEF InterruptClears
<1>33. CASE InterruptStops
  BY <1>33 DEF InterruptStops
<1>34. CASE InterruptCollected
  BY <1>34 DEF InterruptCollected
<1>35. CASE InterruptExit
  BY <1>35 DEF InterruptExit, Dies
<1>36. CASE Crash
  BY <1>36 DEF Crash, Dies
<1>37. CASE Restart
  BY <1>37 DEF Restart
<1>38. CASE UNCHANGED vars
  BY <1>38 DEF vars
<1> QED
  BY <1>1, <1>2, <1>3, <1>4, <1>5, <1>6, <1>7, <1>8, <1>9, <1>10, <1>11, <1>12,
     <1>13, <1>14, <1>15, <1>16, <1>17, <1>18, <1>19, <1>20, <1>21, <1>22,
     <1>23, <1>24, <1>25, <1>26, <1>27, <1>28, <1>29, <1>30, <1>31, <1>32,
     <1>33, <1>34, <1>35, <1>36, <1>37, <1>38
  DEF Next, MainThread, Operator, Interrupts, Ended

(* The main thread's variables.                                            *)
LEMMA LoopType ==
    ASSUME TypeOK, FreshInv, [Next]_vars
    PROVE  /\ pc' \in Steps /\ raising' \in BOOLEAN /\ current' \in 0..MaxEpisodes
           /\ outcome' \in Outcomes /\ interrupted' \in BOOLEAN
<1> USE DEF Steps, Outcomes, TypeOK, Go, RaiseAndStop, loopVars
<1>1. CASE Check
  BY <1>1 DEF Check
<1>2. CASE Prepare
  <2>1. current' \in 0..MaxEpisodes
    BY <1>2, EpisodesAssumption DEF Prepare, FreshInv
  <2> QED
    BY <1>2, <2>1 DEF Prepare
<1>3. CASE Start
  BY <1>3 DEF Start
<1>4. CASE Starting
  BY <1>4 DEF Starting
<1>5. CASE StartingFails
  BY <1>5 DEF StartingFails
<1>6. CASE ProbeFails
  BY <1>6 DEF ProbeFails
<1>7. CASE Abandon
  BY <1>7 DEF Abandon
<1>8. CASE AbandonJoin
  BY <1>8 DEF AbandonJoin
<1>9. CASE StartMonitor
  BY <1>9 DEF StartMonitor
<1>10. CASE Announce
  BY <1>10 DEF Announce
<1>11. CASE StartedHook
  BY <1>11 DEF StartedHook
<1>12. CASE Finalizing
  BY <1>12 DEF Finalizing
<1>13. CASE StoppingHook
  BY <1>13 DEF StoppingHook
<1>14. CASE Stop
  BY <1>14 DEF Stop
<1>15. CASE Join
  BY <1>15 DEF Join
<1>16. CASE Unlink
  BY <1>16 DEF Unlink
<1>17. CASE Move
  BY <1>17 DEF Move
<1>18. CASE Rmdir
  BY <1>18 DEF Rmdir
<1>19. CASE Audit
  BY <1>19 DEF Audit
<1>20. CASE Compressing
  BY <1>20 DEF Compressing, NotCompressed
<1>21. CASE Verify
  BY <1>21 DEF Verify
<1>22. CASE Replace
  BY <1>22 DEF Replace
<1>23. CASE WriteMetadata
  BY <1>23 DEF WriteMetadata
<1>24. CASE Commit
  BY <1>24 DEF Commit
<1>25. CASE Exit
  BY <1>25 DEF Exit, Dies
<1>26. CASE RecorderThread
  BY <1>26 DEF RecorderThread
<1>27. CASE Activate
  BY <1>27 DEF Activate
<1>28. CASE EndByOperator
  BY <1>28 DEF EndByOperator, EndRecording
<1>29. CASE EndByFailure
  BY <1>29 DEF EndByFailure, EndRecording
<1>30. CASE EndBySignal
  BY <1>30 DEF EndBySignal, EndRecording
<1>31. CASE InterruptLeaves
  BY <1>31 DEF InterruptLeaves
<1>32. CASE InterruptClears
  BY <1>32 DEF InterruptClears
<1>33. CASE InterruptStops
  BY <1>33 DEF InterruptStops
<1>34. CASE InterruptCollected
  BY <1>34 DEF InterruptCollected
<1>35. CASE InterruptExit
  BY <1>35 DEF InterruptExit, Dies
<1>36. CASE Crash
  BY <1>36 DEF Crash, Dies
<1>37. CASE Restart
  BY <1>37 DEF Restart
<1>38. CASE UNCHANGED vars
  BY <1>38 DEF vars
<1> QED
  BY <1>1, <1>2, <1>3, <1>4, <1>5, <1>6, <1>7, <1>8, <1>9, <1>10, <1>11, <1>12,
     <1>13, <1>14, <1>15, <1>16, <1>17, <1>18, <1>19, <1>20, <1>21, <1>22,
     <1>23, <1>24, <1>25, <1>26, <1>27, <1>28, <1>29, <1>30, <1>31, <1>32,
     <1>33, <1>34, <1>35, <1>36, <1>37, <1>38
  DEF Next, MainThread, Operator, Interrupts, Ended

(* The recorder's variables.                                              *)
LEMMA ThreadType ==
    ASSUME TypeOK, [Next]_vars
    PROVE  /\ thread' \in ThreadStates /\ released' \in BOOLEAN /\ stopError' \in BOOLEAN
           /\ recorder' \in BOOLEAN /\ writer' \in BOOLEAN
<1> USE DEF ThreadStates, BackendTypeOK, TypeOK, Go, RaiseAndStop, backendVars,
      threadVars, Alive
<1>1. CASE Check
  BY <1>1 DEF Check
<1>2. CASE Prepare
  BY <1>2 DEF Prepare
<1>3. CASE Start
  BY <1>3 DEF Start, StartRecorder, CanStart, OpenWriter
<1>4. CASE Starting
  BY <1>4 DEF Starting
<1>5. CASE StartingFails
  BY <1>5 DEF StartingFails
<1>6. CASE ProbeFails
  BY <1>6 DEF ProbeFails
<1>7. CASE Abandon
  BY <1>7 DEF Abandon, StopRecorder, StopRecorderRaises
<1>8. CASE AbandonJoin
  BY <1>8 DEF AbandonJoin, Cleared
<1>9. CASE StartMonitor
  BY <1>9 DEF StartMonitor
<1>10. CASE Announce
  BY <1>10 DEF Announce
<1>11. CASE StartedHook
  BY <1>11 DEF StartedHook
<1>12. CASE Finalizing
  BY <1>12 DEF Finalizing
<1>13. CASE StoppingHook
  BY <1>13 DEF StoppingHook
<1>14. CASE Stop
  BY <1>14 DEF Stop, StopRecorder, StopRecorderRaises
<1>15. CASE Join
  BY <1>15 DEF Join, Cleared
<1>16. CASE Unlink
  BY <1>16 DEF Unlink, UnlinkMetadata, Cleared
<1>17. CASE Move
  BY <1>17 DEF Move, MoveMcap, Cleared
<1>18. CASE Rmdir
  BY <1>18 DEF Rmdir, RemoveBag, Cleared
<1>19. CASE Audit
  BY <1>19 DEF Audit
<1>20. CASE Compressing
  BY <1>20 DEF Compressing
<1>21. CASE Verify
  BY <1>21 DEF Verify
<1>22. CASE Replace
  BY <1>22 DEF Replace
<1>23. CASE WriteMetadata
  BY <1>23 DEF WriteMetadata
<1>24. CASE Commit
  BY <1>24 DEF Commit
<1>25. CASE Exit
  BY <1>25 DEF Exit, Dies, LoseBackend
<1>26. CASE RecorderThread
  BY <1>26 DEF RecorderThread, RecorderEnters, RecorderEnds, RecorderFails
<1>27. CASE Activate
  BY <1>27 DEF Activate
<1>28. CASE EndByOperator
  BY <1>28 DEF EndByOperator, EndRecording
<1>29. CASE EndByFailure
  BY <1>29 DEF EndByFailure, EndRecording
<1>30. CASE EndBySignal
  BY <1>30 DEF EndBySignal, EndRecording
<1>31. CASE InterruptLeaves
  BY <1>31 DEF InterruptLeaves
<1>32. CASE InterruptClears
  BY <1>32 DEF InterruptClears, Cleared
<1>33. CASE InterruptStops
  BY <1>33 DEF InterruptStops
<1>34. CASE InterruptCollected
  BY <1>34 DEF InterruptCollected, StopRecorderRaises
<1>35. CASE InterruptExit
  BY <1>35 DEF InterruptExit, Dies, LoseBackend
<1>36. CASE Crash
  BY <1>36 DEF Crash, Dies, LoseBackend
<1>37. CASE Restart
  BY <1>37 DEF Restart
<1>38. CASE UNCHANGED vars
  BY <1>38 DEF vars
<1> QED
  BY <1>1, <1>2, <1>3, <1>4, <1>5, <1>6, <1>7, <1>8, <1>9, <1>10, <1>11, <1>12,
     <1>13, <1>14, <1>15, <1>16, <1>17, <1>18, <1>19, <1>20, <1>21, <1>22,
     <1>23, <1>24, <1>25, <1>26, <1>27, <1>28, <1>29, <1>30, <1>31, <1>32,
     <1>33, <1>34, <1>35, <1>36, <1>37, <1>38
  DEF Next, MainThread, Operator, Interrupts, Ended

(* The disk.                                                              *)
LEMMA DiskType ==
    ASSUME TypeOK, PartialInv, CleanInv, [Next]_vars
    PROVE  /\ bag' \in [Episodes -> BagStates] /\ mcap' \in [Episodes -> {"none", "raw", "zstd"}]
           /\ place' \in [Episodes -> {"none", "partial"} \cup Outcomes]
           /\ tmp' \in [Episodes -> {"none", "torn", "whole"}]
           /\ meta' \in [Episodes -> {"none", "torn"} \cup Outcomes]
<1> USE DEF BagStates, Outcomes, Go, RaiseAndStop, loopVars, backendVars,
      threadVars, Alive
<1>t. /\ current \in 0..MaxEpisodes /\ MaxEpisodes \in Nat
      /\ bag \in [Episodes -> BagStates] /\ mcap \in [Episodes -> {"none", "raw", "zstd"}]
      /\ place \in [Episodes -> {"none", "partial"} \cup Outcomes]
      /\ tmp \in [Episodes -> {"none", "torn", "whole"}]
      /\ meta \in [Episodes -> {"none", "torn"} \cup Outcomes]
  BY EpisodesAssumption DEF TypeOK, BackendTypeOK
<1>o. outcome \in Outcomes
  BY DEF TypeOK
<1> USE <1>t, <1>o
<1>1. CASE Check
  BY <1>1 DEF Check
<1>2. CASE Prepare
  BY <1>2 DEF Prepare
<1>3. CASE Start
  BY <1>3 DEF Start, StartRecorder, CanStart, OpenWriter
<1>4. CASE Starting
  BY <1>4 DEF Starting
<1>5. CASE StartingFails
  BY <1>5 DEF StartingFails
<1>6. CASE ProbeFails
  BY <1>6 DEF ProbeFails
<1>7. CASE Abandon
  BY <1>7 DEF Abandon, StopRecorder, StopRecorderRaises
<1>8. CASE AbandonJoin
  BY <1>8 DEF AbandonJoin, Cleared
<1>9. CASE StartMonitor
  BY <1>9 DEF StartMonitor
<1>10. CASE Announce
  BY <1>10 DEF Announce
<1>11. CASE StartedHook
  BY <1>11 DEF StartedHook
<1>12. CASE Finalizing
  BY <1>12 DEF Finalizing
<1>13. CASE StoppingHook
  BY <1>13 DEF StoppingHook
<1>14. CASE Stop
  BY <1>14 DEF Stop, StopRecorder, StopRecorderRaises
<1>15. CASE Join
  BY <1>15 DEF Join, Cleared
<1>16. CASE Unlink
  BY <1>16 DEF Unlink, UnlinkMetadata, Cleared
<1>17. CASE Move
  BY <1>17 DEF Move, MoveMcap, Cleared
<1>18. CASE Rmdir
  BY <1>18 DEF Rmdir, RemoveBag, Cleared
<1>19. CASE Audit
  BY <1>19 DEF Audit
<1>20. CASE Compressing
  BY <1>20 DEF Compressing, TmpBecomes, NotCompressed
<1>21. CASE Verify
  BY <1>21 DEF Verify, Equivalent
<1>22. CASE Replace
  BY <1>22 DEF Replace, TmpBecomes
<1>23. CASE WriteMetadata
  BY <1>23 DEF WriteMetadata, MetaBecomes
<1>24. CASE Commit
  BY <1>24 DEF Commit
<1>25. CASE Exit
  BY <1>25 DEF Exit, Dies, LoseBackend
<1>26. CASE RecorderThread
  BY <1>26 DEF RecorderThread, RecorderEnters, RecorderEnds, RecorderFails
<1>27. CASE Activate
  BY <1>27 DEF Activate
<1>28. CASE EndByOperator
  BY <1>28 DEF EndByOperator, EndRecording
<1>29. CASE EndByFailure
  BY <1>29 DEF EndByFailure, EndRecording
<1>30. CASE EndBySignal
  BY <1>30 DEF EndBySignal, EndRecording
<1>31. CASE InterruptLeaves
  BY <1>31 DEF InterruptLeaves
<1>32. CASE InterruptClears
  BY <1>32 DEF InterruptClears, Cleared
<1>33. CASE InterruptStops
  BY <1>33 DEF InterruptStops
<1>34. CASE InterruptCollected
  BY <1>34 DEF InterruptCollected, StopRecorderRaises
<1>35. CASE InterruptExit
  BY <1>35 DEF InterruptExit, Dies, LoseBackend
<1>36. CASE Crash
  BY <1>36 DEF Crash, Dies, LoseBackend
<1>37. CASE Restart
  BY <1>37 DEF Restart
<1>38. CASE UNCHANGED vars
  BY <1>38 DEF vars
<1> QED
  BY <1>1, <1>2, <1>3, <1>4, <1>5, <1>6, <1>7, <1>8, <1>9, <1>10, <1>11, <1>12,
     <1>13, <1>14, <1>15, <1>16, <1>17, <1>18, <1>19, <1>20, <1>21, <1>22,
     <1>23, <1>24, <1>25, <1>26, <1>27, <1>28, <1>29, <1>30, <1>31, <1>32,
     <1>33, <1>34, <1>35, <1>36, <1>37, <1>38
  DEF Next, MainThread, Operator, Interrupts, Ended

(* Every step keeps every variable's type.                                *)
LEMMA TypeStep ==
    ASSUME TypeOK, PartialInv, CleanInv, FreshInv, [Next]_vars
    PROVE  TypeOK'
  BY BudgetType, LoopType, ThreadType, DiskType DEF TypeOK, BackendTypeOK

(* The recorder is gone before READY and after finalization.               *)
LEMMA CleanStep ==
    ASSUME CleanInv, [Next]_vars
    PROVE  CleanInv'
<1> USE DEF CleanInv, Finalized, CanStart, Go, RaiseAndStop, loopVars,
      backendVars, threadVars, Alive
<1>1. CASE Check
  BY <1>1 DEF Check
<1>2. CASE Prepare
  BY <1>2 DEF Prepare
<1>3. CASE Start
  BY <1>3 DEF Start, StartRecorder, CanStart, OpenWriter
<1>4. CASE Starting
  BY <1>4 DEF Starting
<1>5. CASE StartingFails
  BY <1>5 DEF StartingFails
<1>6. CASE ProbeFails
  BY <1>6 DEF ProbeFails
<1>7. CASE Abandon
  BY <1>7 DEF Abandon, StopRecorder, StopRecorderRaises
<1>8. CASE AbandonJoin
  BY <1>8 DEF AbandonJoin, Cleared
<1>9. CASE StartMonitor
  BY <1>9 DEF StartMonitor
<1>10. CASE Announce
  BY <1>10 DEF Announce
<1>11. CASE StartedHook
  BY <1>11 DEF StartedHook
<1>12. CASE Finalizing
  BY <1>12 DEF Finalizing
<1>13. CASE StoppingHook
  BY <1>13 DEF StoppingHook
<1>14. CASE Stop
  BY <1>14 DEF Stop, StopRecorder, StopRecorderRaises
<1>15. CASE Join
  BY <1>15 DEF Join, Cleared
<1>16. CASE Unlink
  BY <1>16 DEF Unlink, UnlinkMetadata, Cleared
<1>17. CASE Move
  BY <1>17 DEF Move, MoveMcap, Cleared
<1>18. CASE Rmdir
  BY <1>18 DEF Rmdir, RemoveBag, Cleared
<1>19. CASE Audit
  BY <1>19 DEF Audit
<1>20. CASE Compressing
  BY <1>20 DEF Compressing, TmpBecomes, NotCompressed
<1>21. CASE Verify
  BY <1>21 DEF Verify, Equivalent
<1>22. CASE Replace
  BY <1>22 DEF Replace, TmpBecomes
<1>23. CASE WriteMetadata
  BY <1>23 DEF WriteMetadata, MetaBecomes
<1>24. CASE Commit
  BY <1>24 DEF Commit, CommitRefused
<1>25. CASE Exit
  BY <1>25 DEF Exit, Dies, LoseBackend
<1>26. CASE RecorderThread
  BY <1>26 DEF RecorderThread, RecorderEnters, RecorderEnds, RecorderFails
<1>27. CASE Activate
  BY <1>27 DEF Activate
<1>28. CASE EndByOperator
  BY <1>28 DEF EndByOperator, EndRecording
<1>29. CASE EndByFailure
  BY <1>29 DEF EndByFailure, EndRecording
<1>30. CASE EndBySignal
  BY <1>30 DEF EndBySignal, EndRecording
<1>31. CASE InterruptLeaves
  BY <1>31 DEF InterruptLeaves
<1>32. CASE InterruptClears
  BY <1>32 DEF InterruptClears, Cleared
<1>33. CASE InterruptStops
  BY <1>33 DEF InterruptStops
<1>34. CASE InterruptCollected
  BY <1>34 DEF InterruptCollected, StopRecorderRaises
<1>35. CASE InterruptExit
  BY <1>35 DEF InterruptExit, Dies, LoseBackend
<1>36. CASE Crash
  BY <1>36 DEF Crash, Dies, LoseBackend
<1>37. CASE Restart
  BY <1>37 DEF Restart
<1>38. CASE UNCHANGED vars
  BY <1>38 DEF vars
<1> QED
  BY <1>1, <1>2, <1>3, <1>4, <1>5, <1>6, <1>7, <1>8, <1>9, <1>10, <1>11, <1>12,
     <1>13, <1>14, <1>15, <1>16, <1>17, <1>18, <1>19, <1>20, <1>21, <1>22,
     <1>23, <1>24, <1>25, <1>26, <1>27, <1>28, <1>29, <1>30, <1>31, <1>32,
     <1>33, <1>34, <1>35, <1>36, <1>37, <1>38
  DEF Next, MainThread, Operator, Interrupts, Ended

(* What was not prepared is not on the disk.                               *)
LEMMA FreshStep ==
    ASSUME TypeOK, FreshInv, PartialInv, [Next]_vars
    PROVE  FreshInv'
<1> USE DEF FreshInv, PartialInv, Active, Steps, Episodes, Go, RaiseAndStop,
      loopVars, backendVars, threadVars, Alive
<1>t. /\ current \in 0..MaxEpisodes /\ MaxEpisodes \in Nat
      /\ bag \in [Episodes -> BagStates] /\ mcap \in [Episodes -> {"none", "raw", "zstd"}]
      /\ place \in [Episodes -> {"none", "partial"} \cup Outcomes]
      /\ tmp \in [Episodes -> {"none", "torn", "whole"}]
      /\ meta \in [Episodes -> {"none", "torn"} \cup Outcomes]
  BY EpisodesAssumption DEF TypeOK, BackendTypeOK
<1> USE <1>t
<1>1. CASE Check
  BY <1>1 DEF Check
<1>2. CASE Prepare
  BY <1>2 DEF Prepare
<1>3. CASE Start
  BY <1>3 DEF Start, StartRecorder, CanStart, OpenWriter
<1>4. CASE Starting
  BY <1>4 DEF Starting
<1>5. CASE StartingFails
  BY <1>5 DEF StartingFails
<1>6. CASE ProbeFails
  BY <1>6 DEF ProbeFails
<1>7. CASE Abandon
  BY <1>7 DEF Abandon, StopRecorder, StopRecorderRaises
<1>8. CASE AbandonJoin
  BY <1>8 DEF AbandonJoin, Cleared
<1>9. CASE StartMonitor
  BY <1>9 DEF StartMonitor
<1>10. CASE Announce
  BY <1>10 DEF Announce
<1>11. CASE StartedHook
  BY <1>11 DEF StartedHook
<1>12. CASE Finalizing
  BY <1>12 DEF Finalizing
<1>13. CASE StoppingHook
  BY <1>13 DEF StoppingHook
<1>14. CASE Stop
  BY <1>14 DEF Stop, StopRecorder, StopRecorderRaises
<1>15. CASE Join
  BY <1>15 DEF Join, Cleared
<1>16. CASE Unlink
  BY <1>16 DEF Unlink, UnlinkMetadata, Cleared
<1>17. CASE Move
  BY <1>17 DEF Move, MoveMcap, Cleared
<1>18. CASE Rmdir
  BY <1>18 DEF Rmdir, RemoveBag, Cleared
<1>19. CASE Audit
  BY <1>19 DEF Audit
<1>20. CASE Compressing
  BY <1>20 DEF Compressing, TmpBecomes, NotCompressed
<1>21. CASE Verify
  BY <1>21 DEF Verify, Equivalent
<1>22. CASE Replace
  BY <1>22 DEF Replace, TmpBecomes
<1>23. CASE WriteMetadata
  BY <1>23 DEF WriteMetadata, MetaBecomes
<1>24. CASE Commit
  BY <1>24 DEF Commit, CommitRefused
<1>25. CASE Exit
  BY <1>25 DEF Exit, Dies, LoseBackend
<1>26. CASE RecorderThread
  BY <1>26 DEF RecorderThread, RecorderEnters, RecorderEnds, RecorderFails
<1>27. CASE Activate
  BY <1>27 DEF Activate
<1>28. CASE EndByOperator
  BY <1>28 DEF EndByOperator, EndRecording
<1>29. CASE EndByFailure
  BY <1>29 DEF EndByFailure, EndRecording
<1>30. CASE EndBySignal
  BY <1>30 DEF EndBySignal, EndRecording
<1>31. CASE InterruptLeaves
  BY <1>31 DEF InterruptLeaves
<1>32. CASE InterruptClears
  BY <1>32 DEF InterruptClears, Cleared
<1>33. CASE InterruptStops
  BY <1>33 DEF InterruptStops
<1>34. CASE InterruptCollected
  BY <1>34 DEF InterruptCollected, StopRecorderRaises
<1>35. CASE InterruptExit
  BY <1>35 DEF InterruptExit, Dies, LoseBackend
<1>36. CASE Crash
  BY <1>36 DEF Crash, Dies, LoseBackend
<1>37. CASE Restart
  BY <1>37 DEF Restart
<1>38. CASE UNCHANGED vars
  BY <1>38 DEF vars
<1> QED
  BY <1>1, <1>2, <1>3, <1>4, <1>5, <1>6, <1>7, <1>8, <1>9, <1>10, <1>11, <1>12,
     <1>13, <1>14, <1>15, <1>16, <1>17, <1>18, <1>19, <1>20, <1>21, <1>22,
     <1>23, <1>24, <1>25, <1>26, <1>27, <1>28, <1>29, <1>30, <1>31, <1>32,
     <1>33, <1>34, <1>35, <1>36, <1>37, <1>38
  DEF Next, MainThread, Operator, Interrupts, Ended

(* Only a partial is written.                                              *)
LEMMA PartialStep ==
    ASSUME TypeOK, CleanInv, FreshInv, PartialInv, [Next]_vars
    PROVE  PartialInv'
<1> USE DEF PartialInv, CleanInv, FreshInv, Finalized, CanStart, Active, Steps,
      Episodes, Go, RaiseAndStop, loopVars, backendVars, threadVars, Alive
<1>t. /\ current \in 0..MaxEpisodes /\ MaxEpisodes \in Nat
      /\ bag \in [Episodes -> BagStates] /\ mcap \in [Episodes -> {"none", "raw", "zstd"}]
      /\ place \in [Episodes -> {"none", "partial"} \cup Outcomes]
      /\ tmp \in [Episodes -> {"none", "torn", "whole"}]
      /\ meta \in [Episodes -> {"none", "torn"} \cup Outcomes]
  BY EpisodesAssumption DEF TypeOK, BackendTypeOK
<1> USE <1>t
<1>1. CASE Check
  BY <1>1 DEF Check
<1>2. CASE Prepare
  BY <1>2 DEF Prepare
<1>3. CASE Start
  BY <1>3 DEF Start, StartRecorder, CanStart, OpenWriter
<1>4. CASE Starting
  BY <1>4 DEF Starting
<1>5. CASE StartingFails
  BY <1>5 DEF StartingFails
<1>6. CASE ProbeFails
  BY <1>6 DEF ProbeFails
<1>7. CASE Abandon
  BY <1>7 DEF Abandon, StopRecorder, StopRecorderRaises
<1>8. CASE AbandonJoin
  BY <1>8 DEF AbandonJoin, Cleared
<1>9. CASE StartMonitor
  BY <1>9 DEF StartMonitor
<1>10. CASE Announce
  BY <1>10 DEF Announce
<1>11. CASE StartedHook
  BY <1>11 DEF StartedHook
<1>12. CASE Finalizing
  BY <1>12 DEF Finalizing
<1>13. CASE StoppingHook
  BY <1>13 DEF StoppingHook
<1>14. CASE Stop
  BY <1>14 DEF Stop, StopRecorder, StopRecorderRaises
<1>15. CASE Join
  BY <1>15 DEF Join, Cleared
<1>16. CASE Unlink
  BY <1>16 DEF Unlink, UnlinkMetadata, Cleared
<1>17. CASE Move
  BY <1>17 DEF Move, MoveMcap, Cleared
<1>18. CASE Rmdir
  BY <1>18 DEF Rmdir, RemoveBag, Cleared
<1>19. CASE Audit
  BY <1>19 DEF Audit
<1>20. CASE Compressing
  BY <1>20 DEF Compressing, TmpBecomes, NotCompressed
<1>21. CASE Verify
  BY <1>21 DEF Verify, Equivalent
<1>22. CASE Replace
  BY <1>22 DEF Replace, TmpBecomes
<1>23. CASE WriteMetadata
  BY <1>23 DEF WriteMetadata, MetaBecomes
<1>24. CASE Commit
  BY <1>24 DEF Commit, CommitRefused
<1>25. CASE Exit
  BY <1>25 DEF Exit, Dies, LoseBackend
<1>26. CASE RecorderThread
  BY <1>26 DEF RecorderThread, RecorderEnters, RecorderEnds, RecorderFails
<1>27. CASE Activate
  BY <1>27 DEF Activate
<1>28. CASE EndByOperator
  BY <1>28 DEF EndByOperator, EndRecording
<1>29. CASE EndByFailure
  BY <1>29 DEF EndByFailure, EndRecording
<1>30. CASE EndBySignal
  BY <1>30 DEF EndBySignal, EndRecording
<1>31. CASE InterruptLeaves
  BY <1>31 DEF InterruptLeaves
<1>32. CASE InterruptClears
  BY <1>32 DEF InterruptClears, Cleared
<1>33. CASE InterruptStops
  BY <1>33 DEF InterruptStops
<1>34. CASE InterruptCollected
  BY <1>34 DEF InterruptCollected, StopRecorderRaises
<1>35. CASE InterruptExit
  BY <1>35 DEF InterruptExit, Dies, LoseBackend
<1>36. CASE Crash
  BY <1>36 DEF Crash, Dies, LoseBackend
<1>37. CASE Restart
  BY <1>37 DEF Restart
<1>38. CASE UNCHANGED vars
  BY <1>38 DEF vars
<1> QED
  BY <1>1, <1>2, <1>3, <1>4, <1>5, <1>6, <1>7, <1>8, <1>9, <1>10, <1>11, <1>12,
     <1>13, <1>14, <1>15, <1>16, <1>17, <1>18, <1>19, <1>20, <1>21, <1>22,
     <1>23, <1>24, <1>25, <1>26, <1>27, <1>28, <1>29, <1>30, <1>31, <1>32,
     <1>33, <1>34, <1>35, <1>36, <1>37, <1>38
  DEF Next, MainThread, Operator, Interrupts, Ended

(* record() is entered for an Episode without a recording.                 *)
LEMMA EnterStep ==
    ASSUME TypeOK, CleanInv, FreshInv, PartialInv, EnterInv, StageInv, [Next]_vars
    PROVE  EnterInv'
<1> USE DEF EnterInv, CleanInv, FreshInv, PartialInv, StageInv, Finalized,
      CanStart, Active, Steps, Episodes, Go, RaiseAndStop, loopVars,
      backendVars, threadVars, Alive
<1>t. /\ current \in 0..MaxEpisodes /\ MaxEpisodes \in Nat
      /\ bag \in [Episodes -> BagStates] /\ mcap \in [Episodes -> {"none", "raw", "zstd"}]
      /\ place \in [Episodes -> {"none", "partial"} \cup Outcomes]
      /\ tmp \in [Episodes -> {"none", "torn", "whole"}]
      /\ meta \in [Episodes -> {"none", "torn"} \cup Outcomes]
  BY EpisodesAssumption DEF TypeOK, BackendTypeOK
<1> USE <1>t
<1>1. CASE Check
  BY <1>1 DEF Check
<1>2. CASE Prepare
  BY <1>2 DEF Prepare
<1>3. CASE Start
  BY <1>3 DEF Start, StartRecorder, CanStart, OpenWriter
<1>4. CASE Starting
  BY <1>4 DEF Starting
<1>5. CASE StartingFails
  BY <1>5 DEF StartingFails
<1>6. CASE ProbeFails
  BY <1>6 DEF ProbeFails
<1>7. CASE Abandon
  BY <1>7 DEF Abandon, StopRecorder, StopRecorderRaises
<1>8. CASE AbandonJoin
  BY <1>8 DEF AbandonJoin, Cleared
<1>9. CASE StartMonitor
  BY <1>9 DEF StartMonitor
<1>10. CASE Announce
  BY <1>10 DEF Announce
<1>11. CASE StartedHook
  BY <1>11 DEF StartedHook
<1>12. CASE Finalizing
  BY <1>12 DEF Finalizing
<1>13. CASE StoppingHook
  BY <1>13 DEF StoppingHook
<1>14. CASE Stop
  BY <1>14 DEF Stop, StopRecorder, StopRecorderRaises
<1>15. CASE Join
  BY <1>15 DEF Join, Cleared
<1>16. CASE Unlink
  BY <1>16 DEF Unlink, UnlinkMetadata, Cleared
<1>17. CASE Move
  BY <1>17 DEF Move, MoveMcap, Cleared
<1>18. CASE Rmdir
  BY <1>18 DEF Rmdir, RemoveBag, Cleared
<1>19. CASE Audit
  BY <1>19 DEF Audit
<1>20. CASE Compressing
  BY <1>20 DEF Compressing, TmpBecomes, NotCompressed
<1>21. CASE Verify
  BY <1>21 DEF Verify, Equivalent
<1>22. CASE Replace
  BY <1>22 DEF Replace, TmpBecomes
<1>23. CASE WriteMetadata
  BY <1>23 DEF WriteMetadata, MetaBecomes
<1>24. CASE Commit
  BY <1>24 DEF Commit, CommitRefused
<1>25. CASE Exit
  BY <1>25 DEF Exit, Dies, LoseBackend
<1>26. CASE RecorderThread
  BY <1>26 DEF RecorderThread, RecorderEnters, RecorderEnds, RecorderFails
<1>27. CASE Activate
  BY <1>27 DEF Activate
<1>28. CASE EndByOperator
  BY <1>28 DEF EndByOperator, EndRecording
<1>29. CASE EndByFailure
  BY <1>29 DEF EndByFailure, EndRecording
<1>30. CASE EndBySignal
  BY <1>30 DEF EndBySignal, EndRecording
<1>31. CASE InterruptLeaves
  BY <1>31 DEF InterruptLeaves
<1>32. CASE InterruptClears
  BY <1>32 DEF InterruptClears, Cleared
<1>33. CASE InterruptStops
  BY <1>33 DEF InterruptStops
<1>34. CASE InterruptCollected
  BY <1>34 DEF InterruptCollected, StopRecorderRaises
<1>35. CASE InterruptExit
  BY <1>35 DEF InterruptExit, Dies, LoseBackend
<1>36. CASE Crash
  BY <1>36 DEF Crash, Dies, LoseBackend
<1>37. CASE Restart
  BY <1>37 DEF Restart
<1>38. CASE UNCHANGED vars
  BY <1>38 DEF vars
<1> QED
  BY <1>1, <1>2, <1>3, <1>4, <1>5, <1>6, <1>7, <1>8, <1>9, <1>10, <1>11, <1>12,
     <1>13, <1>14, <1>15, <1>16, <1>17, <1>18, <1>19, <1>20, <1>21, <1>22,
     <1>23, <1>24, <1>25, <1>26, <1>27, <1>28, <1>29, <1>30, <1>31, <1>32,
     <1>33, <1>34, <1>35, <1>36, <1>37, <1>38
  DEF Next, MainThread, Operator, Interrupts, Ended

(* The files at each step of the finalization.                             *)
LEMMA StageStep ==
    ASSUME TypeOK, PartialInv, EnterInv, CleanInv, StageInv, [Next]_vars
    PROVE  StageInv'
<1> USE DEF StageInv, EnterInv, PartialInv, CleanInv, Finalized, CanStart,
      Active, Steps, Episodes, Go, RaiseAndStop, loopVars, backendVars,
      threadVars, Alive
<1>t. /\ current \in 0..MaxEpisodes /\ MaxEpisodes \in Nat
      /\ bag \in [Episodes -> BagStates] /\ mcap \in [Episodes -> {"none", "raw", "zstd"}]
      /\ place \in [Episodes -> {"none", "partial"} \cup Outcomes]
      /\ tmp \in [Episodes -> {"none", "torn", "whole"}]
      /\ meta \in [Episodes -> {"none", "torn"} \cup Outcomes]
  BY EpisodesAssumption DEF TypeOK, BackendTypeOK
<1> USE <1>t
<1>1. CASE Check
  BY <1>1 DEF Check
<1>2. CASE Prepare
  BY <1>2 DEF Prepare
<1>3. CASE Start
  BY <1>3 DEF Start, StartRecorder, CanStart, OpenWriter
<1>4. CASE Starting
  BY <1>4 DEF Starting
<1>5. CASE StartingFails
  BY <1>5 DEF StartingFails
<1>6. CASE ProbeFails
  BY <1>6 DEF ProbeFails
<1>7. CASE Abandon
  BY <1>7 DEF Abandon, StopRecorder, StopRecorderRaises
<1>8. CASE AbandonJoin
  BY <1>8 DEF AbandonJoin, Cleared
<1>9. CASE StartMonitor
  BY <1>9 DEF StartMonitor
<1>10. CASE Announce
  BY <1>10 DEF Announce
<1>11. CASE StartedHook
  BY <1>11 DEF StartedHook
<1>12. CASE Finalizing
  BY <1>12 DEF Finalizing
<1>13. CASE StoppingHook
  BY <1>13 DEF StoppingHook
<1>14. CASE Stop
  BY <1>14 DEF Stop, StopRecorder, StopRecorderRaises
<1>15. CASE Join
  BY <1>15 DEF Join, Cleared
<1>16. CASE Unlink
  BY <1>16 DEF Unlink, UnlinkMetadata, Cleared
<1>17. CASE Move
  BY <1>17 DEF Move, MoveMcap, Cleared
<1>18. CASE Rmdir
  BY <1>18 DEF Rmdir, RemoveBag, Cleared
<1>19. CASE Audit
  BY <1>19 DEF Audit
<1>20. CASE Compressing
  BY <1>20 DEF Compressing, TmpBecomes, NotCompressed
<1>21. CASE Verify
  BY <1>21 DEF Verify, Equivalent
<1>22. CASE Replace
  BY <1>22 DEF Replace, TmpBecomes
<1>23. CASE WriteMetadata
  BY <1>23 DEF WriteMetadata, MetaBecomes
<1>24. CASE Commit
  BY <1>24 DEF Commit, CommitRefused
<1>25. CASE Exit
  BY <1>25 DEF Exit, Dies, LoseBackend
<1>26. CASE RecorderThread
  BY <1>26 DEF RecorderThread, RecorderEnters, RecorderEnds, RecorderFails
<1>27. CASE Activate
  BY <1>27 DEF Activate
<1>28. CASE EndByOperator
  BY <1>28 DEF EndByOperator, EndRecording
<1>29. CASE EndByFailure
  BY <1>29 DEF EndByFailure, EndRecording
<1>30. CASE EndBySignal
  BY <1>30 DEF EndBySignal, EndRecording
<1>31. CASE InterruptLeaves
  BY <1>31 DEF InterruptLeaves
<1>32. CASE InterruptClears
  BY <1>32 DEF InterruptClears, Cleared
<1>33. CASE InterruptStops
  BY <1>33 DEF InterruptStops
<1>34. CASE InterruptCollected
  BY <1>34 DEF InterruptCollected, StopRecorderRaises
<1>35. CASE InterruptExit
  BY <1>35 DEF InterruptExit, Dies, LoseBackend
<1>36. CASE Crash
  BY <1>36 DEF Crash, Dies, LoseBackend
<1>37. CASE Restart
  BY <1>37 DEF Restart
<1>38. CASE UNCHANGED vars
  BY <1>38 DEF vars
<1> QED
  BY <1>1, <1>2, <1>3, <1>4, <1>5, <1>6, <1>7, <1>8, <1>9, <1>10, <1>11, <1>12,
     <1>13, <1>14, <1>15, <1>16, <1>17, <1>18, <1>19, <1>20, <1>21, <1>22,
     <1>23, <1>24, <1>25, <1>26, <1>27, <1>28, <1>29, <1>30, <1>31, <1>32,
     <1>33, <1>34, <1>35, <1>36, <1>37, <1>38
  DEF Next, MainThread, Operator, Interrupts, Ended

(* A stop that raised ends in leaving.                                     *)
LEMMA StopStep ==
    ASSUME StopInv, [Next]_vars
    PROVE  StopInv'
<1> USE DEF StopInv, Finalized, Go, RaiseAndStop, loopVars, backendVars,
      threadVars, Alive
<1>1. CASE Check
  BY <1>1 DEF Check
<1>2. CASE Prepare
  BY <1>2 DEF Prepare
<1>3. CASE Start
  BY <1>3 DEF Start, StartRecorder, CanStart, OpenWriter
<1>4. CASE Starting
  BY <1>4 DEF Starting
<1>5. CASE StartingFails
  BY <1>5 DEF StartingFails
<1>6. CASE ProbeFails
  BY <1>6 DEF ProbeFails
<1>7. CASE Abandon
  BY <1>7 DEF Abandon, StopRecorder, StopRecorderRaises
<1>8. CASE AbandonJoin
  BY <1>8 DEF AbandonJoin, Cleared
<1>9. CASE StartMonitor
  BY <1>9 DEF StartMonitor
<1>10. CASE Announce
  BY <1>10 DEF Announce
<1>11. CASE StartedHook
  BY <1>11 DEF StartedHook
<1>12. CASE Finalizing
  BY <1>12 DEF Finalizing
<1>13. CASE StoppingHook
  BY <1>13 DEF StoppingHook
<1>14. CASE Stop
  BY <1>14 DEF Stop, StopRecorder, StopRecorderRaises
<1>15. CASE Join
  BY <1>15 DEF Join, Cleared
<1>16. CASE Unlink
  BY <1>16 DEF Unlink, UnlinkMetadata, Cleared
<1>17. CASE Move
  BY <1>17 DEF Move, MoveMcap, Cleared
<1>18. CASE Rmdir
  BY <1>18 DEF Rmdir, RemoveBag, Cleared
<1>19. CASE Audit
  BY <1>19 DEF Audit
<1>20. CASE Compressing
  BY <1>20 DEF Compressing, TmpBecomes, NotCompressed
<1>21. CASE Verify
  BY <1>21 DEF Verify, Equivalent
<1>22. CASE Replace
  BY <1>22 DEF Replace, TmpBecomes
<1>23. CASE WriteMetadata
  BY <1>23 DEF WriteMetadata, MetaBecomes
<1>24. CASE Commit
  BY <1>24 DEF Commit, CommitRefused
<1>25. CASE Exit
  BY <1>25 DEF Exit, Dies, LoseBackend
<1>26. CASE RecorderThread
  BY <1>26 DEF RecorderThread, RecorderEnters, RecorderEnds, RecorderFails
<1>27. CASE Activate
  BY <1>27 DEF Activate
<1>28. CASE EndByOperator
  BY <1>28 DEF EndByOperator, EndRecording
<1>29. CASE EndByFailure
  BY <1>29 DEF EndByFailure, EndRecording
<1>30. CASE EndBySignal
  BY <1>30 DEF EndBySignal, EndRecording
<1>31. CASE InterruptLeaves
  BY <1>31 DEF InterruptLeaves
<1>32. CASE InterruptClears
  BY <1>32 DEF InterruptClears, Cleared
<1>33. CASE InterruptStops
  BY <1>33 DEF InterruptStops
<1>34. CASE InterruptCollected
  BY <1>34 DEF InterruptCollected, StopRecorderRaises
<1>35. CASE InterruptExit
  BY <1>35 DEF InterruptExit, Dies, LoseBackend
<1>36. CASE Crash
  BY <1>36 DEF Crash, Dies, LoseBackend
<1>37. CASE Restart
  BY <1>37 DEF Restart
<1>38. CASE UNCHANGED vars
  BY <1>38 DEF vars
<1> QED
  BY <1>1, <1>2, <1>3, <1>4, <1>5, <1>6, <1>7, <1>8, <1>9, <1>10, <1>11, <1>12,
     <1>13, <1>14, <1>15, <1>16, <1>17, <1>18, <1>19, <1>20, <1>21, <1>22,
     <1>23, <1>24, <1>25, <1>26, <1>27, <1>28, <1>29, <1>30, <1>31, <1>32,
     <1>33, <1>34, <1>35, <1>36, <1>37, <1>38
  DEF Next, MainThread, Operator, Interrupts, Ended

(* What is formal is complete, and stays so: only a partial is written.    *)
LEMMA CommittedStep ==
    ASSUME TypeOK, FreshInv, PartialInv, StageInv, CommittedIsComplete, [Next]_vars
    PROVE  CommittedIsComplete'
<1> USE DEF CommittedIsComplete, FreshInv, PartialInv, StageInv, Active, Steps,
      Episodes, Outcomes, Go, RaiseAndStop, loopVars, backendVars, threadVars,
      Alive
<1>t. /\ current \in 0..MaxEpisodes /\ MaxEpisodes \in Nat
      /\ bag \in [Episodes -> BagStates] /\ mcap \in [Episodes -> {"none", "raw", "zstd"}]
      /\ place \in [Episodes -> {"none", "partial"} \cup Outcomes]
      /\ tmp \in [Episodes -> {"none", "torn", "whole"}]
      /\ meta \in [Episodes -> {"none", "torn"} \cup Outcomes]
  BY EpisodesAssumption DEF TypeOK, BackendTypeOK
<1> USE <1>t
<1>1. CASE Check
  BY <1>1 DEF Check
<1>2. CASE Prepare
  BY <1>2 DEF Prepare
<1>3. CASE Start
  BY <1>3 DEF Start, StartRecorder, CanStart, OpenWriter
<1>4. CASE Starting
  BY <1>4 DEF Starting
<1>5. CASE StartingFails
  BY <1>5 DEF StartingFails
<1>6. CASE ProbeFails
  BY <1>6 DEF ProbeFails
<1>7. CASE Abandon
  BY <1>7 DEF Abandon, StopRecorder, StopRecorderRaises
<1>8. CASE AbandonJoin
  BY <1>8 DEF AbandonJoin, Cleared
<1>9. CASE StartMonitor
  BY <1>9 DEF StartMonitor
<1>10. CASE Announce
  BY <1>10 DEF Announce
<1>11. CASE StartedHook
  BY <1>11 DEF StartedHook
<1>12. CASE Finalizing
  BY <1>12 DEF Finalizing
<1>13. CASE StoppingHook
  BY <1>13 DEF StoppingHook
<1>14. CASE Stop
  BY <1>14 DEF Stop, StopRecorder, StopRecorderRaises
<1>15. CASE Join
  BY <1>15 DEF Join, Cleared
<1>16. CASE Unlink
  BY <1>16 DEF Unlink, UnlinkMetadata, Cleared
<1>17. CASE Move
  BY <1>17 DEF Move, MoveMcap, Cleared
<1>18. CASE Rmdir
  BY <1>18 DEF Rmdir, RemoveBag, Cleared
<1>19. CASE Audit
  BY <1>19 DEF Audit
<1>20. CASE Compressing
  BY <1>20 DEF Compressing, TmpBecomes, NotCompressed
<1>21. CASE Verify
  BY <1>21 DEF Verify, Equivalent
<1>22. CASE Replace
  BY <1>22 DEF Replace, TmpBecomes
<1>23. CASE WriteMetadata
  BY <1>23 DEF WriteMetadata, MetaBecomes
<1>24. CASE Commit
  BY <1>24 DEF Commit, CommitRefused
<1>25. CASE Exit
  BY <1>25 DEF Exit, Dies, LoseBackend
<1>26. CASE RecorderThread
  BY <1>26 DEF RecorderThread, RecorderEnters, RecorderEnds, RecorderFails
<1>27. CASE Activate
  BY <1>27 DEF Activate
<1>28. CASE EndByOperator
  BY <1>28 DEF EndByOperator, EndRecording
<1>29. CASE EndByFailure
  BY <1>29 DEF EndByFailure, EndRecording
<1>30. CASE EndBySignal
  BY <1>30 DEF EndBySignal, EndRecording
<1>31. CASE InterruptLeaves
  BY <1>31 DEF InterruptLeaves
<1>32. CASE InterruptClears
  BY <1>32 DEF InterruptClears, Cleared
<1>33. CASE InterruptStops
  BY <1>33 DEF InterruptStops
<1>34. CASE InterruptCollected
  BY <1>34 DEF InterruptCollected, StopRecorderRaises
<1>35. CASE InterruptExit
  BY <1>35 DEF InterruptExit, Dies, LoseBackend
<1>36. CASE Crash
  BY <1>36 DEF Crash, Dies, LoseBackend
<1>37. CASE Restart
  BY <1>37 DEF Restart
<1>38. CASE UNCHANGED vars
  BY <1>38 DEF vars
<1> QED
  BY <1>1, <1>2, <1>3, <1>4, <1>5, <1>6, <1>7, <1>8, <1>9, <1>10, <1>11, <1>12,
     <1>13, <1>14, <1>15, <1>16, <1>17, <1>18, <1>19, <1>20, <1>21, <1>22,
     <1>23, <1>24, <1>25, <1>26, <1>27, <1>28, <1>29, <1>30, <1>31, <1>32,
     <1>33, <1>34, <1>35, <1>36, <1>37, <1>38
  DEF Next, MainThread, Operator, Interrupts, Ended

-----------------------------------------------------------------------------
(* The inductive invariant. *)

(* No Episode has been begun. *)
LEMMA InitInv == Init => IInv
<1> SUFFICES ASSUME Init PROVE IInv
  OBVIOUS
<1> USE EpisodesAssumption, RuntimeAssumption DEF Init, BackendInit
<1>1. BackendTypeOK
  BY DEF BackendTypeOK, ThreadStates, BagStates
<1>2. TypeOK
  <2>1. /\ place \in [Episodes -> {"none", "partial"} \cup Outcomes]
        /\ tmp \in [Episodes -> {"none", "torn", "whole"}]
        /\ meta \in [Episodes -> {"none", "torn"} \cup Outcomes]
    OBVIOUS
  <2>2. pc \in Steps /\ outcome \in Outcomes
    BY DEF Steps, Outcomes
  <2>4. raising \in BOOLEAN /\ interrupted \in BOOLEAN
    OBVIOUS
  <2>5. current \in 0..MaxEpisodes
    OBVIOUS
  <2>3. {sessions, failures, signals, crashes} \subseteq Nat
    OBVIOUS
  <2> QED
    BY <1>1, <2>1, <2>2, <2>3, <2>4, <2>5 DEF TypeOK
<1>3. CleanInv /\ PartialInv /\ EnterInv /\ StageInv /\ StopInv
  BY
     DEF CleanInv, PartialInv, EnterInv, StageInv, StopInv, CanStart, Alive, Active,
         Finalized, Steps
<1>4. FreshInv
  BY DEF FreshInv, Episodes
<1>5. CommittedIsComplete
  BY DEF CommittedIsComplete, Outcomes
<1> QED
  BY <1>2, <1>3, <1>4, <1>5 DEF IInv

(* Every step keeps the invariant. *)
LEMMA StepInv == IInv /\ [Next]_vars => IInv'
  BY TypeStep, CleanStep, FreshStep, PartialStep, EnterStep, StageStep, StopStep, CommittedStep
  DEF IInv

(* Whatever fails, is interrupted or killed, IInv holds.                   *)
THEOREM Inductive == Spec => []IInv
  BY InitInv, StepInv, PTL DEF Spec

(* No recorder, publisher or thread of an earlier Episode meets the next.  *)
THEOREM ReadyStaysClean == Spec => []ReadyIsClean
<1>1. IInv => ReadyIsClean
  BY DEF IInv, ReadyIsClean, CleanInv
<1> QED
  BY <1>1, Inductive, PTL

(* An Episode under an outcome is a whole MCAP and that outcome's metadata. *)
THEOREM CommittedStaysComplete == Spec => []CommittedIsComplete
<1>1. IInv => CommittedIsComplete
  BY DEF IInv
<1> QED
  BY <1>1, Inductive, PTL

(* A directory becomes formal by Commit alone.                             *)
LEMMA OnlyCommitCommits ==
    ASSUME TypeOK, FreshInv, [Next]_vars
    PROVE  \/ \A e \in Episodes : place'[e] \in Outcomes => place[e] \in Outcomes
           \/ pc = "commit" /\ Commit
<1> USE DEF FreshInv, Episodes, Outcomes, Go, RaiseAndStop
<1>t. /\ current \in 0..MaxEpisodes /\ MaxEpisodes \in Nat
      /\ bag \in [Episodes -> BagStates] /\ mcap \in [Episodes -> {"none", "raw", "zstd"}]
      /\ place \in [Episodes -> {"none", "partial"} \cup Outcomes]
      /\ tmp \in [Episodes -> {"none", "torn", "whole"}]
      /\ meta \in [Episodes -> {"none", "torn"} \cup Outcomes]
  BY EpisodesAssumption DEF TypeOK, BackendTypeOK
<1> USE <1>t
<1>1. CASE Check
  BY <1>1 DEF Check
<1>2. CASE Prepare
  BY <1>2 DEF Prepare
<1>3. CASE Start
  BY <1>3 DEF Start
<1>4. CASE Starting
  BY <1>4 DEF Starting
<1>5. CASE StartingFails
  BY <1>5 DEF StartingFails
<1>6. CASE ProbeFails
  BY <1>6 DEF ProbeFails
<1>7. CASE Abandon
  BY <1>7 DEF Abandon
<1>8. CASE AbandonJoin
  BY <1>8 DEF AbandonJoin
<1>9. CASE StartMonitor
  BY <1>9 DEF StartMonitor
<1>10. CASE Announce
  BY <1>10 DEF Announce
<1>11. CASE StartedHook
  BY <1>11 DEF StartedHook
<1>12. CASE Finalizing
  BY <1>12 DEF Finalizing
<1>13. CASE StoppingHook
  BY <1>13 DEF StoppingHook
<1>14. CASE Stop
  BY <1>14 DEF Stop
<1>15. CASE Join
  BY <1>15 DEF Join
<1>16. CASE Unlink
  BY <1>16 DEF Unlink
<1>17. CASE Move
  BY <1>17 DEF Move
<1>18. CASE Rmdir
  BY <1>18 DEF Rmdir
<1>19. CASE Audit
  BY <1>19 DEF Audit
<1>20. CASE Compressing
  BY <1>20 DEF Compressing
<1>21. CASE Verify
  BY <1>21 DEF Verify
<1>22. CASE Replace
  BY <1>22 DEF Replace
<1>23. CASE WriteMetadata
  BY <1>23 DEF WriteMetadata
<1>24. CASE Commit
  BY <1>24 DEF Commit
<1>25. CASE Exit
  BY <1>25 DEF Exit, Dies
<1>26. CASE RecorderThread
  BY <1>26 DEF RecorderThread
<1>27. CASE Activate
  BY <1>27 DEF Activate
<1>28. CASE EndByOperator
  BY <1>28 DEF EndByOperator, EndRecording
<1>29. CASE EndByFailure
  BY <1>29 DEF EndByFailure, EndRecording
<1>30. CASE EndBySignal
  BY <1>30 DEF EndBySignal, EndRecording
<1>31. CASE InterruptLeaves
  BY <1>31 DEF InterruptLeaves
<1>32. CASE InterruptClears
  BY <1>32 DEF InterruptClears
<1>33. CASE InterruptStops
  BY <1>33 DEF InterruptStops
<1>34. CASE InterruptCollected
  BY <1>34 DEF InterruptCollected
<1>35. CASE InterruptExit
  BY <1>35 DEF InterruptExit, Dies
<1>36. CASE Crash
  BY <1>36 DEF Crash, Dies
<1>37. CASE Restart
  BY <1>37 DEF Restart
<1>38. CASE UNCHANGED vars
  BY <1>38 DEF vars
<1> QED
  BY <1>1, <1>2, <1>3, <1>4, <1>5, <1>6, <1>7, <1>8, <1>9, <1>10, <1>11, <1>12,
     <1>13, <1>14, <1>15, <1>16, <1>17, <1>18, <1>19, <1>20, <1>21, <1>22,
     <1>23, <1>24, <1>25, <1>26, <1>27, <1>28, <1>29, <1>30, <1>31, <1>32,
     <1>33, <1>34, <1>35, <1>36, <1>37, <1>38
  DEF Next, MainThread, Operator, Interrupts, Ended

(* An Episode whose recorder failed to stop is not committed.              *)
THEOREM FailedStopStaysPartial == Spec => FailedStopIsNotCommitted
<1>1. ASSUME IInv, [Next]_vars, stopError
      PROVE  \A e \in Episodes : place'[e] \in Outcomes => place[e] \in Outcomes
  BY <1>1, OnlyCommitCommits DEF IInv, StopInv, Finalized
<1> QED
  BY <1>1, Inductive, PTL DEF Spec, FailedStopIsNotCommitted

-----------------------------------------------------------------------------
(* The refinement of EpisodeArchive. *)

(* At most the recording of the current Episode, a partial, became whole. *)
CloseStep ==
    /\ place' = place
    /\ \/ Whole' = Whole
       \/ current \in Episodes /\ place[current] = "partial" /\ Whole' = [Whole EXCEPT ![current] = TRUE]

(* Such a step is one of the archive.                                      *)
LEMMA CloseIsArchived ==
    ASSUME CloseStep
    PROVE  [Archive!Next]_Archive!vars
  BY DEF CloseStep, Archive!Next, Archive!Close, Archive!vars

(* Whether the current Episode's recording is whole is all a step decides. *)
LEMMA WholeOfCurrent ==
    ASSUME place' = place, PartialInv, pc \in Active \/ Alive,
           \A e \in Episodes : e # current => UNCHANGED <<bag[e], mcap[e]>>,
           Whole[current] => Whole'[current]
    PROVE  CloseStep
<1>1. current \in Episodes /\ place[current] = "partial"
  BY DEF PartialInv
<1>2. \A e \in Episodes : e # current => Whole'[e] = Whole[e]
  BY DEF Whole
<1>3. Whole'[current] \in BOOLEAN /\ Whole[current] \in BOOLEAN
  BY <1>1 DEF Whole
<1>4. CASE Whole[current]
  <2>1. \A e \in Episodes : Whole'[e] = Whole[e]
    BY <1>2, <1>3, <1>4
  <2> QED
    BY <2>1 DEF CloseStep, Whole
<1>5. CASE ~Whole[current] /\ ~Whole'[current]
  <2>1. \A e \in Episodes : Whole'[e] = Whole[e]
    BY <1>2, <1>3, <1>5
  <2> QED
    BY <2>1 DEF CloseStep, Whole
<1>6. CASE ~Whole[current] /\ Whole'[current]
  <2>1. Whole' = [Whole EXCEPT ![current] = TRUE]
    BY <1>1, <1>2, <1>3, <1>6 DEF Whole
  <2> QED
    BY <1>1, <2>1 DEF CloseStep
<1> QED
  BY <1>3, <1>4, <1>5, <1>6
(* Every other step than Prepare and Commit.                              *)
LEMMA OthersClose ==
    ASSUME TypeOK, PartialInv, EnterInv, StageInv, [Next]_vars, ~Prepare, ~Commit
    PROVE  CloseStep
<1> USE DEF Go, RaiseAndStop, loopVars, backendVars, threadVars, Alive
<1>t. /\ current \in 0..MaxEpisodes /\ MaxEpisodes \in Nat
      /\ bag \in [Episodes -> BagStates] /\ mcap \in [Episodes -> {"none", "raw", "zstd"}]
      /\ place \in [Episodes -> {"none", "partial"} \cup Outcomes]
      /\ tmp \in [Episodes -> {"none", "torn", "whole"}]
      /\ meta \in [Episodes -> {"none", "torn"} \cup Outcomes]
  BY EpisodesAssumption DEF TypeOK, BackendTypeOK
<1> USE <1>t
<1>w. UNCHANGED <<bag, mcap, place>> => CloseStep
  BY DEF CloseStep, Whole
<1> USE <1>w
<1>1. CASE Check
  BY <1>1 DEF Check
<1>2. CASE Start
  BY <1>2 DEF Start, StartRecorder
<1>3. CASE Starting
  BY <1>3 DEF Starting
<1>4. CASE StartingFails
  BY <1>4 DEF StartingFails
<1>5. CASE ProbeFails
  BY <1>5 DEF ProbeFails
<1>6. CASE Abandon
  <2>1. place' = place /\ (pc \in Active \/ Alive) /\ current \in Episodes
    BY <1>6 DEF Abandon, Active, Steps, PartialInv
  <2>2. \A e \in Episodes : e # current => UNCHANGED <<bag[e], mcap[e]>>
    BY <1>6 DEF Abandon, StopRecorder, StopRecorderRaises
  <2>3. Whole[current] => Whole'[current]
    BY <1>6, <2>1 DEF Abandon, StopRecorder, StopRecorderRaises, Whole, EnterInv, StageInv
  <2> QED
    BY <2>1, <2>2, <2>3, WholeOfCurrent
<1>7. CASE AbandonJoin
  BY <1>7 DEF AbandonJoin, Cleared
<1>8. CASE StartMonitor
  BY <1>8 DEF StartMonitor
<1>9. CASE Announce
  BY <1>9 DEF Announce
<1>10. CASE StartedHook
  BY <1>10 DEF StartedHook
<1>11. CASE Finalizing
  BY <1>11 DEF Finalizing
<1>12. CASE StoppingHook
  BY <1>12 DEF StoppingHook
<1>13. CASE Stop
  <2>1. place' = place /\ (pc \in Active \/ Alive) /\ current \in Episodes
    BY <1>13 DEF Stop, Active, Steps, PartialInv
  <2>2. \A e \in Episodes : e # current => UNCHANGED <<bag[e], mcap[e]>>
    BY <1>13 DEF Stop, StopRecorder, StopRecorderRaises
  <2>3. Whole[current] => Whole'[current]
    BY <1>13, <2>1 DEF Stop, StopRecorder, StopRecorderRaises, Whole, EnterInv, StageInv
  <2> QED
    BY <2>1, <2>2, <2>3, WholeOfCurrent
<1>14. CASE Join
  BY <1>14 DEF Join, Cleared
<1>15. CASE Unlink
  <2>1. place' = place /\ (pc \in Active \/ Alive) /\ current \in Episodes
    BY <1>15 DEF Unlink, Active, Steps, PartialInv
  <2>2. \A e \in Episodes : e # current => UNCHANGED <<bag[e], mcap[e]>>
    BY <1>15 DEF Unlink, UnlinkMetadata, Cleared
  <2>3. Whole[current] => Whole'[current]
    BY <1>15, <2>1 DEF Unlink, UnlinkMetadata, Cleared, Whole, EnterInv, StageInv
  <2> QED
    BY <2>1, <2>2, <2>3, WholeOfCurrent
<1>16. CASE Move
  <2>1. place' = place /\ (pc \in Active \/ Alive) /\ current \in Episodes
    BY <1>16 DEF Move, Active, Steps, PartialInv
  <2>2. \A e \in Episodes : e # current => UNCHANGED <<bag[e], mcap[e]>>
    BY <1>16 DEF Move, MoveMcap, Cleared
  <2>3. Whole[current] => Whole'[current]
    BY <1>16, <2>1 DEF Move, MoveMcap, Cleared, Whole, EnterInv, StageInv
  <2> QED
    BY <2>1, <2>2, <2>3, WholeOfCurrent
<1>17. CASE Rmdir
  <2>1. place' = place /\ (pc \in Active \/ Alive) /\ current \in Episodes
    BY <1>17 DEF Rmdir, Active, Steps, PartialInv
  <2>2. \A e \in Episodes : e # current => UNCHANGED <<bag[e], mcap[e]>>
    BY <1>17 DEF Rmdir, RemoveBag
  <2>3. Whole[current] => Whole'[current]
    BY <1>17, <2>1 DEF Rmdir, RemoveBag, Whole, EnterInv, StageInv
  <2> QED
    BY <2>1, <2>2, <2>3, WholeOfCurrent
<1>18. CASE Audit
  BY <1>18 DEF Audit
<1>19. CASE Compressing
  BY <1>19 DEF Compressing, NotCompressed
<1>20. CASE Verify
  BY <1>20 DEF Verify
<1>21. CASE Replace
  <2>1. place' = place /\ (pc \in Active \/ Alive) /\ current \in Episodes
    BY <1>21 DEF Replace, Active, Steps, PartialInv
  <2>2. \A e \in Episodes : e # current => UNCHANGED <<bag[e], mcap[e]>>
    BY <1>21 DEF Replace
  <2>3. Whole[current] => Whole'[current]
    BY <1>21, <2>1 DEF Replace, Whole, EnterInv, StageInv
  <2> QED
    BY <2>1, <2>2, <2>3, WholeOfCurrent
<1>22. CASE WriteMetadata
  BY <1>22 DEF WriteMetadata
<1>23. CASE Exit
  BY <1>23 DEF Exit, Dies, LoseBackend
<1>24. CASE RecorderThread
  <2>1. place' = place /\ (pc \in Active \/ Alive) /\ current \in Episodes
    BY <1>24
       DEF RecorderThread, Active, Steps, PartialInv, RecorderEnters, RecorderFails,
           RecorderEnds
  <2>2. \A e \in Episodes : e # current => UNCHANGED <<bag[e], mcap[e]>>
    BY <1>24 DEF RecorderThread, RecorderEnters, RecorderFails, RecorderEnds
  <2>3. Whole[current] => Whole'[current]
    BY <1>24, <2>1
       DEF RecorderThread, RecorderEnters, RecorderFails, RecorderEnds, Whole,
           EnterInv, StageInv
  <2> QED
    BY <2>1, <2>2, <2>3, WholeOfCurrent
<1>25. CASE Activate
  BY <1>25 DEF Activate
<1>26. CASE EndByOperator
  BY <1>26 DEF EndByOperator, EndRecording
<1>27. CASE EndByFailure
  BY <1>27 DEF EndByFailure, EndRecording
<1>28. CASE EndBySignal
  BY <1>28 DEF EndBySignal, EndRecording
<1>29. CASE InterruptLeaves
  BY <1>29 DEF InterruptLeaves
<1>30. CASE InterruptClears
  BY <1>30 DEF InterruptClears, Cleared
<1>31. CASE InterruptStops
  BY <1>31 DEF InterruptStops
<1>32. CASE InterruptCollected
  <2>1. place' = place /\ (pc \in Active \/ Alive) /\ current \in Episodes
    BY <1>32 DEF InterruptCollected, Active, Steps, PartialInv
  <2>2. \A e \in Episodes : e # current => UNCHANGED <<bag[e], mcap[e]>>
    BY <1>32 DEF InterruptCollected, StopRecorderRaises
  <2>3. Whole[current] => Whole'[current]
    BY <1>32, <2>1 DEF InterruptCollected, StopRecorderRaises, Whole, EnterInv, StageInv
  <2> QED
    BY <2>1, <2>2, <2>3, WholeOfCurrent
<1>33. CASE InterruptExit
  BY <1>33 DEF InterruptExit, Dies, LoseBackend
<1>34. CASE Crash
  BY <1>34 DEF Crash, Dies, LoseBackend
<1>35. CASE Restart
  BY <1>35 DEF Restart
<1>36. CASE UNCHANGED vars
  BY <1>36 DEF vars
<1> QED
  BY <1>1, <1>2, <1>3, <1>4, <1>5, <1>6, <1>7, <1>8, <1>9, <1>10, <1>11, <1>12,
     <1>13, <1>14, <1>15, <1>16, <1>17, <1>18, <1>19, <1>20, <1>21, <1>22,
     <1>23, <1>24, <1>25, <1>26, <1>27, <1>28, <1>29, <1>30, <1>31, <1>32,
     <1>33, <1>34, <1>35, <1>36
  DEF Next, MainThread, Operator, Interrupts, Ended

(* The initial states, and every step: Prepare begins, Commit commits.     *)
LEMMA InitArchive == Init => Archive!Init
  BY DEF Init, BackendInit, Archive!Init, Whole

(* A step of the runtime is one of the archive, or leaves it alone. *)
LEMMA StepArchive ==
    ASSUME IInv, [Next]_vars
    PROVE  [Archive!Next]_Archive!vars
<1> USE DEF IInv
<1>1. CASE Prepare
  <2>1. CASE place' = [place EXCEPT ![current + 1] = "partial"] /\ UNCHANGED <<bag, mcap>> /\ pc = "prepare"
    <3>1. current + 1 \in Episodes /\ place[current + 1] = "none"
      BY <2>1, EpisodesAssumption DEF FreshInv, TypeOK, Episodes
    <3>2. Whole' = Whole
      BY <2>1 DEF Whole
    <3> QED
      BY <2>1, <3>1, <3>2 DEF Archive!Next, Archive!Begin
  <2>2. CASE UNCHANGED <<place, bag, mcap>>
    BY <2>2 DEF Archive!vars, Whole
  <2> QED
    BY <1>1, <2>1, <2>2 DEF Prepare, Go, backendVars
<1>2. CASE Commit
  <2>1. CASE place' = [place EXCEPT ![current] = outcome] /\ UNCHANGED <<bag, mcap>> /\ pc = "commit"
    <3>1. current \in Episodes /\ place[current] = "partial" /\ mcap[current] # "none"
      BY <2>1 DEF PartialInv, StageInv, Active, Steps
    <3>2. Whole' = Whole /\ Whole[current]
      BY <2>1, <3>1 DEF Whole
    <3>3. outcome \in Archive!Outcomes
      BY DEF TypeOK, Outcomes, Archive!Outcomes
    <3> QED
      BY <2>1, <3>1, <3>2, <3>3 DEF Archive!Next, Archive!Commit
  <2>2. CASE UNCHANGED <<place, bag, mcap>>
    BY <2>2 DEF Archive!vars, Whole
  <2> QED
    BY <1>2, <2>1, <2>2 DEF Commit, Go, backendVars
<1>3. CASE ~Prepare /\ ~Commit
  BY <1>3, OthersClose, CloseIsArchived
<1> QED
  BY <1>1, <1>2, <1>3

(* Whatever becomes of the processes, a recording that was whole stays on  *)
(* the disk, and a partial becomes one formal Episode at most.             *)
THEOREM RecordingIsArchived == Spec => ImplementsArchive
  BY InitArchive, StepArchive, Inductive, PTL DEF Spec, ImplementsArchive, Archive!Spec
=============================================================================
