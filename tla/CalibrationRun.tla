--------------------------- MODULE CalibrationRun ---------------------------
(***************************************************************************)
(* One calibration program after the other: teach writes a route, record   *)
(* replays it and photographs the board at its poses (calibration/cli.py,  *)
(* hardware.py, workflow.py, capture.py, camera.py).                       *)
(*                                                                         *)
(* An action is one call of the main thread that changes something or can  *)
(* raise; at names the next one.  An exception, or a signal, takes the     *)
(* program to the handler of the region it is in (Handler): record_route's *)
(* finally, then park, then the ExitStack.                                 *)
(*                                                                         *)
(* What an image shows is where the arms stood when it was exposed.  A     *)
(* stamp is compared with one moment only, the opening of the capture      *)
(* window: an image carries whether it was exposed after that.             *)
(***************************************************************************)
EXTENDS CalibrationArms, FiniteSets

CONSTANTS
    Route,       \* the moves of a replay: "start" (HOME, first pose), "via", "capture"
    TeachPoses,  \* the poses the operator may teach
    MinCaptures, \* captures a finished route needs
    MaxPrograms, \* bound: programs that are started
    MaxFaults,   \* bound: failures of a device or of the motion thread
    MaxBreaks    \* bound: exceptions in the main thread and kills

ASSUME CalibrationAssumption ==
    /\ Route \in Seq({"start", "via", "capture"}) /\ Route # <<>>
    /\ TeachPoses \subseteq Nat \ {Elsewhere} /\ IsFiniteSet(TeachPoses)
    /\ {MinCaptures, MaxPrograms} \subseteq Nat \ {0}
    /\ {MaxFaults, MaxBreaks} \subseteq Nat

VARIABLES
    at, stage, program,
    waits,    \* inside Arms.call
    raised,   \* an exception is on its way out
    alarmed,  \* a call to the arms was given up, or the stop raised
    held,     \* the ExitStack, last registered first
    camera,   \* the acquisition process: off, live, dead
    slot,     \* the shared latest-frame slot
    frame, best, open, step, \* capture_pose: images looked at and kept, window, move
    run,      \* record_route's dictionary
    disk, evidence, pointer,  \* run.json and observations of each program, latest-runs
    split,    \* of each program, the observations rewritten with their split
    route, chosen, \* teach: the draft, and the pose that passed every check
    file, history, shown, \* the route's file, routes/history, routes/teaching
    finished, \* the routes that were completed (observer)
    faults, breaks

cameraVars == <<camera, slot>>
captureVars == <<frame, best, open, step>>
runVars == <<run, disk, evidence, split, pointer>>
routeVars == <<route, chosen, file, history, shown, finished>>
bounds == <<faults, breaks>>
progVars == <<at, stage, program, waits, raised, alarmed, held>>
calibrationVars == <<armVars, motionVars, poseVars, progVars, cameraVars, captureVars, runVars,
          routeVars, bounds>>

NoImage == [pose |-> Elsewhere, after |-> FALSE, is |-> FALSE]
NoBest == [image |-> NoImage, actual |-> Elsewhere]

NoRoute == [id |-> 0, points |-> <<>>, draft |-> TRUE]
NoRun == [status |-> "none", results |-> 0, observations |-> {}, hashed |-> {}]

(* What a program finds: a run that the pointer names, and a finished route. *)
EarlierRun == [NoRun EXCEPT !.status = "completed", !.results = Len(Route)]
EarlierRoute == [NoRoute EXCEPT !.draft = FALSE]

CalibrationInit ==
    /\ ArmsInit
    /\ at = "idle" /\ stage = "teach" /\ program = 0
    /\ waits = FALSE /\ raised = FALSE /\ alarmed = FALSE /\ held = <<>>
    /\ camera = "off" /\ slot = NoImage
    /\ frame = NoImage /\ best = NoBest /\ open = FALSE /\ step = 1
    /\ run = NoRun
    /\ disk = [n \in 0..MaxPrograms |-> IF n = 0 THEN EarlierRun ELSE NoRun]
    /\ evidence = {} /\ pointer = 0 /\ split = [n \in 0..MaxPrograms |-> {}]
    /\ route = NoRoute /\ chosen = Elsewhere
    /\ file = EarlierRoute
    /\ history = {} /\ shown = {} /\ finished = {EarlierRoute}
    /\ faults = 0 /\ breaks = 0

----------------------------------------------------------------------------
(* Exceptions *)

(* The stop and its hold call: what raises here makes the run a failed one. *)
Stopping == {"stop", "join", "hold"}

Replaying == {"preflight", "enable", "make", "launch", "move", "look", "judge",
              "note", "result", "confirm", "finalize", "digest"}

Handler ==
    CASE at \in {"system", "camera", "lens", "nodes", "arms", "enter"} -> "release"
      [] at \in Replaying /\ motion = "none" -> "save"
      [] at \in Replaying /\ motion # "none" -> "stop"
      [] at \in Stopping -> "trace"
      [] at \in {"board", "park", "hands", "release"} -> "release"
      [] OTHER -> "board"

(* What is raised, a signal too, leaves Arms.call with the requests on      *)
(* their way, is recorded in the run when it comes out of the stop, and     *)
(* drops the locals.                                                        *)
(* Nobody looks at the slot from here on, and it is left empty.             *)
Raise ==
    /\ at' = Handler
    /\ raised' = TRUE /\ waits' = FALSE
    /\ alarmed' = (alarmed \/ waits \/ at \in Stopping)
    /\ run' = IF at \in Stopping THEN [run EXCEPT !.status = "failed"] ELSE run
    /\ held' = IF at = "release" THEN Tail(held) ELSE held
    /\ frame' = NoImage /\ best' = NoBest /\ open' = FALSE /\ step' = 1
    /\ IF waits THEN Abandon("main") ELSE UNCHANGED armVars
    /\ slot' = NoImage
    /\ UNCHANGED <<stage, program, motionVars, poseVars, camera, disk, evidence, split,
                   pointer, routeVars>>

Running == at \notin {"idle", "gone"} /\ (at = "release" => held # <<>>)

(* A signal, Esc, or a call that raises by itself: a service or the disk    *)
(* fails, or a deadline passes.                                             *)
Break ==
    /\ Running /\ breaks < MaxBreaks
    /\ breaks' = breaks + 1
    /\ Raise
    /\ UNCHANGED faults

(* What the code itself finds wrong, at no price. *)
Complain == Raise /\ UNCHANGED bounds

----------------------------------------------------------------------------
(* Hardware.__enter__ and the ExitStack *)

Went(from, to) ==
    /\ at = from /\ at' = to
    /\ UNCHANGED <<stage, program, raised, alarmed, bounds>>

Plain(from, to) == Went(from, to) /\ UNCHANGED <<waits, held>>

Unmoved == UNCHANGED <<armVars, motionVars, poseVars>>

(* The operator starts a program.  A replay wants a finished route. *)
StartProgram(s) ==
    /\ at \in {"idle", "gone"} /\ program < MaxPrograms
    /\ s = "record" => ~file.draft
    /\ at' = "system" /\ stage' = s /\ program' = program + 1
    /\ raised' = FALSE /\ alarmed' = FALSE
    /\ route' = NoRoute /\ chosen' = Elsewhere
    /\ run' = NoRun /\ frame' = NoImage /\ best' = NoBest /\ open' = FALSE /\ step' = 1
    /\ UNCHANGED <<waits, held, armVars, motionVars, poseVars, cameraVars,
                   disk, evidence, split, pointer, file, history, shown, finished, bounds>>

StartSystem ==
    /\ Went("system", "camera")
    /\ held' = <<"system">>
    /\ Unmoved
    /\ UNCHANGED <<waits, cameraVars, captureVars, runVars, routeVars>>

(* Camera.open starts the process, and waits for its first image. *)
StartCamera ==
    /\ Went("camera", "lens")
    /\ held' = <<"camera">> \o held
    /\ camera' = "live"
    /\ Unmoved
    /\ UNCHANGED <<waits, slot, captureVars, runVars, routeVars>>

CameraOpens ==
    /\ Plain("lens", "nodes")
    /\ camera = "live" /\ slot.is
    /\ Unmoved
    /\ UNCHANGED <<cameraVars, captureVars, runVars, routeVars>>

(* The controllers come up in gravity compensation. *)
StartNodes ==
    /\ Went("nodes", "arms")
    /\ held' = <<"nodes">> \o held
    /\ mode' = [a \in Side |-> "gravity"]
    /\ UNCHANGED <<waits, asked, done, refused, feedback, motionVars, poseVars,
                   cameraVars, captureVars, runVars, routeVars>>

NodesRun == \A a \in Side : mode[a] # "off"

OpenArms ==
    /\ Went("arms", "enter")
    /\ held' = <<"arms">> \o held
    /\ CanRead /\ NodesRun
    /\ Unmoved
    /\ UNCHANGED <<waits, cameraVars, captureVars, runVars, routeVars>>

(* ExitStack: the callback registered last is called first. *)
Release ==
    /\ Went("release", "release")
    /\ held # <<>> /\ held' = Tail(held)
    /\ IF Head(held) = "nodes"
         THEN /\ mode' = [a \in Side |-> "off"]
              /\ UNCHANGED <<asked, done, refused, feedback>>
         ELSE UNCHANGED armVars
    /\ IF Head(held) = "camera"
         THEN camera' = "off" /\ slot' = NoImage
         ELSE UNCHANGED cameraVars
    /\ UNCHANGED <<waits, motionVars, poseVars, captureVars, runVars, routeVars>>

(* The process is gone, and with it its threads, the container and the      *)
(* controllers in it.                                                       *)
Gone ==
    /\ at' = "gone" /\ waits' = FALSE /\ held' = <<>>
    /\ mode' = [a \in Side |-> "off"]
    /\ asked' = [o \in Side \X Service |-> <<>>]
    /\ done' = [c \in Caller |-> {}] /\ refused' = {} /\ feedback' = "fresh"
    /\ motion' = "none" /\ stopping' = FALSE /\ error' = FALSE
    /\ goal' = Elsewhere /\ elapsed' = TRUE
    /\ pose' = Elsewhere /\ bumped' = FALSE
    /\ camera' = "off" /\ slot' = NoImage
    /\ UNCHANGED <<stage, program, raised, alarmed, captureVars, runVars, routeVars>>

(* The results are computed from the pointer, after the hardware is released *)
(* and if nothing was raised; what they are is left out.                     *)
Exit ==
    /\ at = "release" /\ held = <<>>
    /\ Gone
    /\ UNCHANGED bounds

Kill ==
    /\ Running /\ breaks < MaxBreaks
    /\ breaks' = breaks + 1
    /\ Gone
    /\ UNCHANGED faults

----------------------------------------------------------------------------
(* The calls of the main thread to the arms *)

Calls == [enter |-> "gravity_compensation", teach |-> "gravity_compensation",
          enable |-> "enable_policy_control", hold |-> "calibration_hold",
          park |-> "gravity_compensation"]

AfterCall ==
    CASE at = "enter" -> IF stage = "teach" THEN "archive" ELSE "create"
      [] at = "teach" -> "poll"
      [] at = "enable" -> "make"
      [] at = "hold" -> "trace"
      [] at = "park" -> "hands"

AskArms ==
    /\ at \in DOMAIN Calls /\ ~waits
    /\ at = "enable" => CanRead
    /\ waits' = TRUE
    /\ Ask("main", Calls[at])
    /\ UNCHANGED <<at, stage, program, raised, alarmed, held, motionVars, poseVars,
                   cameraVars, captureVars, runVars, routeVars, bounds>>

ArmsAnswer ==
    /\ waits /\ Answered("main")
    /\ Went(at, AfterCall)
    /\ waits' = FALSE
    /\ Unmoved
    /\ UNCHANGED <<held, cameraVars, captureVars, runVars, routeVars>>

(* Refused by an arm, or no answer of a controller that is gone. *)
ArmsRefuse ==
    /\ waits
    /\ (done["main"] = Side /\ "main" \in refused) \/ (\E a \in Side : mode[a] = "off")
    /\ Complain

----------------------------------------------------------------------------
(* teach *)

ArchiveRoute ==
    /\ Plain("archive", "draft")
    /\ history' = history \cup {file}
    /\ Unmoved
    /\ UNCHANGED <<cameraVars, captureVars, runVars, route, chosen, file, shown, finished>>

NewRoute ==
    /\ Plain("draft", "teach")
    /\ route' = [NoRoute EXCEPT !.id = program]
    /\ file' = route'
    /\ Unmoved
    /\ UNCHANGED <<cameraVars, captureVars, runVars, chosen, history, shown, finished>>

Taught == {route.points[i] : i \in DOMAIN route.points}

(* The loop looks at both arms.  A gap of the feedback starts the dwell     *)
(* anew; one of two seconds, or any other error, ends the teaching.         *)
LookAtArms ==
    /\ Plain("poll", "key")
    /\ NodesRun /\ camera = "live" /\ slot.is /\ feedback # "broken"
    /\ chosen' \in {Elsewhere} \cup (IF CanRead THEN {pose} \cap (TeachPoses \ Taught)
                                               ELSE {})
    /\ Unmoved
    /\ UNCHANGED <<cameraVars, captureVars, runVars, route, file, history, shown, finished>>

LookAtArmsRaises ==
    /\ at = "poll"
    /\ ~NodesRun \/ camera = "dead" \/ ~CanRead
    /\ Complain

Keyed(to) ==
    /\ Plain("key", to)
    /\ Unmoved
    /\ UNCHANGED <<cameraVars, captureVars, runVars, chosen, history, shown, finished>>

NoKey == Keyed("poll") /\ UNCHANGED <<route, file>>

DeleteLast ==
    /\ Keyed("poll")
    /\ route.points # <<>>
    /\ route' = [route EXCEPT !.points = SubSeq(@, 1, Len(@) - 1)]
    /\ file' = route'

(* The feedback is read again at the keypress. *)
PressSave ==
    /\ Keyed("shoot")
    /\ chosen # Elsewhere /\ CanRead /\ pose = chosen
    /\ UNCHANGED <<route, file>>

CloseWindow == Keyed("conclude") /\ UNCHANGED <<route, file>>

(* The evidence goes to disk before the route names the pose. *)
SaveEvidence ==
    /\ Plain("shoot", "store")
    /\ shown' = shown \cup {<<route.id, chosen>>}
    /\ Unmoved
    /\ UNCHANGED <<cameraVars, captureVars, runVars, route, chosen, file, history, finished>>

SaveRoute ==
    /\ Plain("store", "poll")
    /\ route' = [route EXCEPT !.points = Append(@, chosen)]
    /\ file' = route'
    /\ chosen' = Elsewhere
    /\ Unmoved
    /\ UNCHANGED <<cameraVars, captureVars, runVars, history, shown, finished>>

(* finalize: with captures enough for a replay the route is no draft. *)
Conclude ==
    /\ Plain("conclude", "board")
    /\ \E invalid \in BOOLEAN :
        /\ invalid \/ Len(route.points) >= MinCaptures
        /\ file' = [route EXCEPT !.draft = invalid]
    /\ finished' = IF file'.draft THEN finished ELSE finished \cup {file'}
    /\ Unmoved
    /\ UNCHANGED <<cameraVars, captureVars, runVars, route, chosen, history, shown>>

----------------------------------------------------------------------------
(* record_route *)

Written(status) == [run EXCEPT !.status = status]

Saved(to) ==
    /\ run' = to
    /\ disk' = [disk EXCEPT ![program] = to]

CreateRun ==
    /\ Plain("create", "preflight")
    /\ Saved(Written("partial"))
    /\ Unmoved
    /\ UNCHANGED <<cameraVars, captureVars, evidence, split, pointer, routeVars>>

Preflight ==
    /\ Plain("preflight", "enable")
    /\ MakeControl
    /\ UNCHANGED <<armVars, poseVars, cameraVars, captureVars, runVars, routeVars>>

(* No feedback: opening the arms, preflight, the read before the enabling,  *)
(* or that of a turn of the loop raises.                                    *)
NoFeedback ==
    /\ at \in {"arms", "preflight", "enable", "judge"} /\ ~waits
    /\ ~CanRead \/ (at = "arms" /\ ~NodesRun)
    /\ Complain

MakeThread ==
    /\ Plain("make", "launch")
    /\ motion' = "made"
    /\ UNCHANGED <<armVars, stopping, error, goal, elapsed, poseVars, cameraVars,
                   captureVars, runVars, routeVars>>

StartThread ==
    /\ Plain("launch", "move")
    /\ motion' = "running"
    /\ UNCHANGED <<armVars, stopping, error, goal, elapsed, poseVars, cameraVars,
                   captureVars, runVars, routeVars>>

Before(i) == [i EXCEPT !.after = FALSE]

(* A new move, with a new stable window and no capture window. *)
StartMove ==
    /\ Plain("move", "look")
    /\ MayMove /\ Move(step)
    /\ open' = FALSE /\ best' = NoBest /\ frame' = NoImage
    /\ slot' = Before(slot)
    /\ UNCHANGED <<armVars, poseVars, camera, step, runVars, routeVars>>

MoveRaises == at = "move" /\ ~MayMove /\ Complain

(* One turn of the loop: the image that is in the slot ... *)
Look ==
    /\ Plain("look", "judge")
    /\ ~error /\ NodesRun /\ camera = "live" /\ slot.is
    /\ frame' = slot
    /\ Unmoved
    /\ UNCHANGED <<cameraVars, best, open, step, runVars, routeVars>>

LookRaises ==
    /\ \/ at = "look" /\ (error \/ ~NodesRun \/ camera = "dead")
       \/ at = "lens" /\ camera = "dead"
    /\ Complain

(* ... and, after its detection, a sample of the arms. *)
Sampled(to) ==
    /\ Plain("judge", to)
    /\ ~error /\ CanRead
    /\ bumped' = FALSE /\ frame' = NoImage
    /\ UNCHANGED <<armVars, motionVars, pose, cameraVars, step, evidence, split,
                   pointer, routeVars>>

AtGoal == pose = goal /\ elapsed

KeepWaiting ==
    /\ Sampled("look")
    /\ ~open
    /\ UNCHANGED <<best, open, run, disk>>

Arrive ==
    /\ Sampled("result")
    /\ AtGoal /\ Route[step] # "capture"
    /\ UNCHANGED <<best, open, run, disk>>

OpenWindow ==
    /\ Sampled("look")
    /\ AtGoal /\ Route[step] = "capture" /\ ~open
    /\ open' = TRUE
    /\ UNCHANGED <<best, run, disk>>

ArmMoved == at = "judge" /\ (error \/ (open /\ ~AtGoal)) /\ Complain

(* Mutant: any image will do. *)
WithinAnyWindow(i) == i.is

(* An image is of this window when it was exposed after it opened. *)
Within(i) == i.is /\ i.after

(* The sharpest valid image of the window, with the sample taken with it. *)
Choices == {best} \cup (IF Within(frame) THEN {[image |-> frame, actual |-> pose]} ELSE {})

CaptureGoesOn ==
    /\ Sampled("look")
    /\ open /\ AtGoal
    /\ best' \in Choices
    /\ UNCHANGED <<open, run, disk>>

(* The window is over: a captured pose, or one without a usable image. *)
CaptureEnds ==
    /\ \E to \in {"note", "result"} :
        /\ Sampled(to)
        /\ best' \in Choices
        /\ (to = "note") = best'.image.is
    /\ open /\ AtGoal
    /\ open' = FALSE
    /\ UNCHANGED <<run, disk>>

(* persist_observation *)
SaveObservation ==
    /\ Plain("note", "result")
    /\ evidence' = evidence \cup
          {[run |-> program, step |-> step, image |-> best.image.pose, actual |-> best.actual]}
    /\ run' = [run EXCEPT !.observations = @ \cup {step}]
    /\ best' = NoBest
    /\ Unmoved
    /\ UNCHANGED <<cameraVars, frame, open, step, disk, split, pointer, routeVars>>

SaveResult ==
    /\ Plain("result", "confirm")
    /\ Saved([run EXCEPT !.results = @ + 1])
    /\ Unmoved
    /\ UNCHANGED <<cameraVars, captureVars, evidence, split, pointer, routeVars>>

NextMove ==
    /\ Plain("confirm", IF step = Len(Route) THEN "finalize" ELSE "move")
    /\ ~error
    /\ step' = IF step = Len(Route) THEN step ELSE step + 1
    /\ Unmoved
    /\ UNCHANGED <<cameraVars, frame, best, open, runVars, routeVars>>

MotionHasFailed == at = "confirm" /\ error /\ Complain

(* finalize_samples: the observations are rewritten one by one, each with   *)
(* its part of the split ...                                                *)
Unsplit == run.observations \ split[program]

Split ==
    /\ Plain("finalize", "digest")
    /\ \E k \in Unsplit :
        /\ \A j \in Unsplit : k <= j
        /\ split' = [split EXCEPT ![program] = @ \cup {k}]
    /\ Unmoved
    /\ UNCHANGED <<cameraVars, captureVars, run, disk, evidence, pointer, routeVars>>

(* ... and its entry in the run gets the digest of the new file.            *)
Digest ==
    /\ Plain("digest", "finalize")
    /\ run' = [run EXCEPT !.hashed = split[program]]
    /\ Unmoved
    /\ UNCHANGED <<cameraVars, captureVars, disk, evidence, split, pointer, routeVars>>

Finalize ==
    /\ Plain("finalize", "stop")
    /\ Unsplit = {}
    /\ run' = Written("completed")
    /\ step' = 1
    /\ Unmoved
    /\ UNCHANGED <<cameraVars, frame, best, open, disk, evidence, split, pointer,
                   routeVars>>

(* Mutant: the arms are told to hold while the thread still runs. *)
StopWithoutJoin ==
    /\ Plain("stop", "hold")
    /\ stopping' = TRUE
    /\ UNCHANGED <<armVars, motion, error, goal, elapsed, poseVars, cameraVars, captureVars,
                   runVars, routeVars>>

(* ReplayControl.stop *)
Stop ==
    /\ Plain("stop", IF motion = "new" THEN "hold" ELSE "join")
    /\ stopping' = TRUE
    /\ UNCHANGED <<armVars, motion, error, goal, elapsed, poseVars, cameraVars, captureVars,
                   runVars, routeVars>>

Join ==
    /\ Plain("join", "hold")
    /\ motion = "ended"
    /\ goal' = Elsewhere /\ elapsed' = TRUE /\ error' = FALSE \* nothing reads them now
    /\ UNCHANGED <<armVars, motion, stopping, poseVars, cameraVars, captureVars, runVars,
                   routeVars>>

(* A thread that was made and not started cannot be joined. *)
JoinRaises == at = "join" /\ motion = "made" /\ Complain

SaveTrace ==
    /\ Plain("trace", "save")
    /\ Unmoved
    /\ UNCHANGED <<cameraVars, captureVars, runVars, routeVars>>

(* Mutant: the pointer follows in the same finally. *)
SaveRunAndPoint ==
    /\ Plain("save", "point")
    /\ Saved(run)
    /\ Unmoved
    /\ UNCHANGED <<cameraVars, captureVars, evidence, split, pointer, routeVars>>

SaveRun ==
    /\ Plain("save", IF raised THEN "board" ELSE "point")
    /\ Saved(run)
    /\ Unmoved
    /\ UNCHANGED <<cameraVars, captureVars, evidence, split, pointer, routeVars>>

(* latest-runs: the run that the solver reads. *)
Point ==
    /\ Plain("point", "board")
    /\ pointer' = program
    /\ Unmoved
    /\ UNCHANGED <<cameraVars, captureVars, run, disk, evidence, split, routeVars>>

(* park: the prompts that end when the operator presses Enter. *)
BoardTaken ==
    /\ Plain("board", "park")
    /\ Unmoved
    /\ UNCHANGED <<cameraVars, captureVars, runVars, routeVars>>

Parked ==
    /\ Plain("hands", "release")
    /\ Unmoved
    /\ UNCHANGED <<cameraVars, captureVars, runVars, routeVars>>

----------------------------------------------------------------------------
(* The camera process, the arms and the motion thread *)

(* An image and its stamp are written into the slot under one lock.  What   *)
(* is exposed when nobody will look any more is left out.                   *)
Expose ==
    /\ camera = "live" /\ ~raised /\ at \in Replaying \cup {"lens"}
    /\ slot' = [pose |-> pose, after |-> open, is |-> TRUE]
    /\ UNCHANGED camera

CameraStep ==
    /\ Expose
    /\ Unmoved
    /\ UNCHANGED <<progVars, captureVars, runVars, routeVars, bounds>>

(* Where the operator puts the arms matters to teach only, and what they do *)
(* while the program lets go of them to nobody.                             *)
ArmStep ==
    /\ at # "release"
    /\ \/ \E a \in Side, s \in Service : Serve(a, s)
       \/ MotionSteps
       \/ SegmentEnds
       \/ FeedbackReturns
       \/ ~Streaming /\ \E a \in Side : Watchdog(a)
       \/ stage = "teach" /\ \E p \in TeachPoses \cup {Elsewhere} : Hand(p)
    /\ UNCHANGED <<progVars, cameraVars, captureVars, runVars, routeVars, bounds>>

CameraDies == camera = "live" /\ camera' = "dead" /\ UNCHANGED slot /\ Unmoved

NodeDies(a) ==
    /\ mode[a] # "off" /\ mode' = [mode EXCEPT ![a] = "off"]
    /\ UNCHANGED <<asked, done, refused, feedback, motionVars, poseVars, cameraVars>>

(* What fails beside the main thread. *)
DeviceFault ==
    /\ at \notin {"idle", "gone", "release"} /\ faults < MaxFaults
    /\ faults' = faults + 1
    /\ \/ CameraDies
       \/ \E a \in Side : NodeDies(a)
       \/ /\ FeedbackGap \/ FeedbackBreaks \/ Bump \/ TickFails \/ HoldTimesOut
             \/ \E a \in Side : Watchdog(a)
          /\ UNCHANGED cameraVars
    /\ UNCHANGED <<progVars, captureVars, runVars, routeVars, breaks>>

Enter ==
    \/ \E s \in {"teach", "record"} : StartProgram(s)
    \/ StartSystem \/ StartCamera \/ CameraOpens \/ StartNodes \/ OpenArms

Teach ==
    \/ ArchiveRoute \/ NewRoute \/ LookAtArms \/ LookAtArmsRaises \/ NoKey \/ DeleteLast \/ PressSave
    \/ CloseWindow \/ SaveEvidence \/ SaveRoute \/ Conclude

Record ==
    \/ CreateRun \/ Preflight \/ NoFeedback \/ MakeThread \/ StartThread
    \/ StartMove \/ MoveRaises \/ Look \/ LookRaises
    \/ KeepWaiting \/ Arrive \/ OpenWindow \/ ArmMoved \/ CaptureGoesOn \/ CaptureEnds
    \/ SaveObservation \/ SaveResult \/ NextMove \/ MotionHasFailed
    \/ Split \/ Digest \/ Finalize
    \/ Stop \/ Join \/ JoinRaises \/ SaveTrace \/ SaveRun \/ Point

EndCalibration == BoardTaken \/ Parked \/ Release \/ Exit

CalibrationNext ==
    \/ Enter \/ Teach \/ Record \/ EndCalibration
    \/ AskArms \/ ArmsAnswer \/ ArmsRefuse
    \/ Break \/ Kill
    \/ CameraStep \/ ArmStep \/ DeviceFault

CalibrationSpec == CalibrationInit /\ [][CalibrationNext]_calibrationVars

----------------------------------------------------------------------------
(* Properties *)

(* The operator is asked to take the board off the gripper only when no     *)
(* controller takes commands, and to put hands on the arms only when both   *)
(* are in gravity compensation (or have no controller): park after          *)
(* ReplayControl.stop, whatever ended the program, and with the motion      *)
(* thread calling services too.  Except when a call to the arms was left    *)
(* with its requests on their way - by an exception, which the program      *)
(* reports, or by a signal, which it does not - or the stop raised.         *)
HandsAreSafe ==
    ~alarmed =>
        /\ at = "board" => \A a \in Side : mode[a] # "policy"
        /\ at = "hands" => \A a \in Side : mode[a] \in {"gravity", "off"}

(* An observation is of the pose it is filed under: the arms stood there    *)
(* when its image was exposed and when its sample was taken, for all that   *)
(* is moved, pushed or delayed in between (capture_pose).                   *)
ObservationShowsItsPose ==
    \A e \in evidence : e.image = e.step /\ e.actual = e.step

(* What is on disk is whole, after every exception and kill: the run that   *)
(* latest-runs names is a complete traversal, whose digests are those of    *)
(* the observations as they are, an observation named by a run and a pose   *)
(* named by a route have their evidence, and a finished route is the        *)
(* current one or in the history (record_route, finalize_samples, teach).   *)
DiskIsWhole ==
    /\ disk[pointer].status = "completed" /\ disk[pointer].results = Len(Route)
    /\ disk[pointer].hashed = split[pointer]
    /\ \A n \in 0..MaxPrograms : \A k \in disk[n].observations :
          \E e \in evidence : e.run = n /\ e.step = k
    /\ \A i \in DOMAIN file.points : <<file.id, file.points[i]>> \in shown
    /\ finished \subseteq history \cup {file}
=============================================================================
