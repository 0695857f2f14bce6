--------------------------- MODULE CalibrationArms ---------------------------
(***************************************************************************)
(* The two arms of a calibration: the controllers in calibration mode      *)
(* (the vendor's code with the repository's patch, external), the feedback *)
(* and the service calls of Arms, and the motion thread of ReplayControl.  *)
(*                                                                         *)
(* The main thread and the motion thread both call services.  A service    *)
(* answers in the order it was asked; nothing orders two services.  A      *)
(* request whose caller gave up stays on its way.                          *)
(*                                                                         *)
(* Where the arms stand is a number: the move of the route that ends       *)
(* there, or Elsewhere.  One arm moves at a time, so one number stands for *)
(* both; joints, velocities and limits are left out.                       *)
(***************************************************************************)
EXTENDS Integers, Sequences

CONSTANT Side \* left and right

VARIABLES
    mode,     \* per arm, what its controller does
    asked,    \* per arm and service, the callers whose request is on its way
    done,     \* per caller, the arms whose future is done
    refused,  \* the callers an arm has refused
    feedback, \* what Arms.read finds
    motion,   \* ReplayControl: none, new, made, running, checked, failing, holding, ended
    stopping, \* stop_event
    error,    \* ReplayControl.error
    goal,     \* the move of the route that the segment ends at
    elapsed,  \* the clock is at expected_end
    pose,     \* where the arms stand
    bumped    \* pushed off their pose, and no sample has seen it yet

armVars == <<mode, asked, done, refused, feedback>>
motionVars == <<motion, stopping, error, goal, elapsed>>
poseVars == <<pose, bumped>>

Service == {"gravity_compensation", "enable_policy_control", "calibration_hold"}
Caller == {"main", "motion"}

Elsewhere == 0

ArmsInit ==
    /\ mode = [a \in Side |-> "off"]
    /\ asked = [o \in Side \X Service |-> <<>>]
    /\ done = [c \in Caller |-> {}]
    /\ refused = {}
    /\ feedback = "fresh"
    /\ motion = "none"
    /\ stopping = FALSE
    /\ error = FALSE
    /\ goal = Elsewhere
    /\ elapsed = TRUE
    /\ pose = Elsewhere
    /\ bumped = FALSE

----------------------------------------------------------------------------
(* Arms.call: one request to each arm, then a wait of three seconds.       *)

Ask(c, s) ==
    /\ asked' = [o \in Side \X Service |->
                    IF o[2] = s THEN Append(asked[o], c) ELSE asked[o]]
    /\ done' = [done EXCEPT ![c] = {}]
    /\ refused' = refused \ {c}
    /\ UNCHANGED <<mode, feedback>>

Answered(c) == done[c] = Side /\ c \notin refused

(* The caller gave up: its requests are nobody's, but still on their way.   *)
Disown(c) ==
    asked' = [o \in Side \X Service |->
                 [i \in DOMAIN asked[o] |->
                     IF asked[o][i] = c THEN "nobody" ELSE asked[o][i]]]

Abandon(c) == Disown(c) /\ UNCHANGED <<mode, done, refused, feedback>>

(* freezeCalibration: commands are latched off and the position is held;    *)
(* without a readback of the joints nothing but the latch changes.          *)
Frozen(m, ok) == IF ok \/ m = "policy" THEN "hold" ELSE m

ModeAfter(m, s, ok) ==
    CASE s = "gravity_compensation" -> "gravity"
      [] s = "enable_policy_control" /\ ok -> "policy"
      [] OTHER -> Frozen(m, ok)

(* A controller takes the next request of a service.  It refuses to hold or *)
(* to be enabled when it has no finite readback.                            *)
Serve(a, s) ==
    LET queue == asked[<<a, s>>] IN
    /\ queue # <<>> /\ mode[a] # "off"
    /\ \E ok \in BOOLEAN :
        /\ ok \/ (s # "gravity_compensation" /\ feedback = "broken")
        /\ mode' = [mode EXCEPT ![a] = ModeAfter(@, s, ok)]
        /\ refused' = IF ok THEN refused ELSE refused \cup ({Head(queue)} \cap Caller)
    /\ asked' = [asked EXCEPT ![<<a, s>>] = Tail(@)]
    /\ done' = [c \in Caller |->
                   IF c = Head(queue) THEN done[c] \cup {a} ELSE done[c]]
    /\ UNCHANGED <<feedback, motionVars, poseVars>>

(* The controller holds by itself after 250 ms without a command, or when   *)
(* one is late or too far from the last.                                    *)
Watchdog(a) ==
    /\ mode[a] = "policy"
    /\ mode' = [mode EXCEPT ![a] = "hold"]
    /\ UNCHANGED <<asked, done, refused, feedback, motionVars, poseVars>>

Streaming == motion \in {"running", "checked"}

----------------------------------------------------------------------------
(* Feedback: a gap is made good by the next sample, an error is kept.      *)

FeedbackGap ==
    /\ feedback = "fresh" /\ feedback' = "stale"
    /\ UNCHANGED <<mode, asked, done, refused, motionVars, poseVars>>

FeedbackReturns ==
    /\ feedback = "stale" /\ feedback' = "fresh"
    /\ UNCHANGED <<mode, asked, done, refused, motionVars, poseVars>>

FeedbackBreaks ==
    /\ feedback # "broken" /\ feedback' = "broken"
    /\ UNCHANGED <<mode, asked, done, refused, motionVars, poseVars>>

CanRead == feedback = "fresh"

----------------------------------------------------------------------------
(* ReplayControl *)

(* __init__: the targets are where the arms are. *)
MakeControl ==
    /\ CanRead
    /\ motion' = "new"
    /\ stopping' = FALSE /\ error' = FALSE
    /\ goal' = pose /\ elapsed' = TRUE

(* move, whose guards are require_ok and the end of the previous segment *)
MayMove == ~error /\ elapsed

Move(k) == goal' = k /\ elapsed' = FALSE /\ UNCHANGED <<motion, stopping, error>>

(* Time passes; after a stop or an error nobody asks. *)
SegmentEnds ==
    /\ ~stopping /\ ~error
    /\ ~elapsed /\ elapsed' = TRUE
    /\ UNCHANGED <<armVars, motion, stopping, error, goal, poseVars>>

Halt(m) == motion' = m /\ UNCHANGED <<armVars, stopping, error, goal, elapsed, poseVars>>

(* One tick of _run: the samples are read and checked ...                  *)
Tick == motion = "running" /\ ~stopping /\ CanRead /\ Halt("checked")

(* ... and the targets published.  An arm that is not enabled ignores them; *)
(* both are at the goal some time after the segment ended.                  *)
Driven ==
    IF \A a \in Side : mode[a] # "policy" THEN {pose}
    ELSE IF ~elapsed THEN {Elsewhere}
    ELSE IF bumped \/ (\E a \in Side : mode[a] # "policy") THEN {pose}
    ELSE {pose, goal}

PublishTargets ==
    /\ motion = "checked" /\ CanRead
    /\ motion' = "running"
    /\ pose' \in Driven
    /\ UNCHANGED <<armVars, stopping, error, goal, elapsed, bumped>>

Leaves == motion = "running" /\ stopping /\ Halt("ended")

(* What makes a tick raise: no feedback, arms that do not follow, or (at    *)
(* the price of a fault) an overrun of the loop.                            *)
Untracked == (\E a \in Side : mode[a] # "policy") \/ bumped

TickFails ==
    /\ Streaming
    /\ motion' = "failing" /\ error' = TRUE
    /\ UNCHANGED <<armVars, stopping, goal, elapsed, poseVars>>

(* The thread's handler calls calibration_hold and swallows what it raises. *)
AskHold ==
    /\ motion = "failing"
    /\ motion' = "holding"
    /\ Ask("motion", "calibration_hold")
    /\ UNCHANGED <<stopping, error, goal, elapsed, poseVars>>

HoldReturns == motion = "holding" /\ done["motion"] = Side /\ Halt("ended")

HoldTimesOut ==
    /\ motion = "holding"
    /\ motion' = "ended"
    /\ Abandon("motion")
    /\ UNCHANGED <<stopping, error, goal, elapsed, poseVars>>

MotionSteps ==
    Tick \/ PublishTargets \/ Leaves \/ AskHold \/ HoldReturns
    \/ ((~CanRead \/ Untracked) /\ TickFails)
    \/ ((\E a \in Side : mode[a] = "off") /\ HoldTimesOut)

----------------------------------------------------------------------------
(* Hands on the arms *)

(* In gravity compensation the operator moves them, to a pose or on the way *)
(* to one.                                                                  *)
Hand(p) ==
    /\ \E a \in Side : mode[a] = "gravity"
    /\ pose # p /\ pose' = p
    /\ UNCHANGED <<armVars, motionVars, bumped>>

(* Somebody pushes an arm that holds its pose, for longer than the time     *)
(* between two samples.                                                     *)
Bump ==
    /\ \A a \in Side : mode[a] = "policy"
    /\ pose # Elsewhere
    /\ pose' = Elsewhere /\ bumped' = TRUE
    /\ UNCHANGED <<armVars, motionVars>>
=============================================================================
