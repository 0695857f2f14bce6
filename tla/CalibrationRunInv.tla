-------------------------- MODULE CalibrationRunInv --------------------------
(***************************************************************************)
(* The inductive invariant of CalibrationRun: what the services still on   *)
(* their way can do, what an image in the slot is worth, and how far the   *)
(* files are, at every step of both programs.                              *)
(***************************************************************************)
EXTENDS CalibrationRun

Opening == {"system", "camera", "lens", "nodes", "arms", "enter"}
Teaching == {"archive", "draft", "teach", "poll", "key", "shoot", "store", "conclude"}
Drafting == {"teach", "poll", "key", "shoot", "store", "conclude"}
Looping == {"move", "look", "judge", "note", "result", "confirm", "finalize", "digest"}
Closing == {"board", "park", "hands", "release"}
Stops == {"stop", "join", "hold", "trace", "save", "point"}
Recording == {"create", "preflight", "enable", "make", "launch"} \cup Looping \cup Stops

(* From the request to follow commands to the one to hold. *)
Commanding == {"enable", "make", "launch", "stop", "join", "hold"} \cup Looping

Images == [pose : Nat, after : BOOLEAN, is : BOOLEAN]
Runs == [status : {"none", "partial", "completed", "failed"}, results : Nat,
         observations : SUBSET Nat, hashed : SUBSET Nat]
Routes == [id : Nat, points : Seq(Nat), draft : BOOLEAN]
Observations == [run : Nat, step : Nat, image : Nat, actual : Nat]

ArmsTypeOK ==
    /\ mode \in [Side -> {"off", "gravity", "policy", "hold"}]
    /\ asked \in [Side \X Service -> Seq(Caller \cup {"nobody"})]
    /\ done \in [Caller -> SUBSET Side] /\ refused \subseteq Caller
    /\ feedback \in {"fresh", "stale", "broken"}
    /\ motion \in {"none", "new", "made", "running", "checked", "failing", "holding", "ended"}
    /\ stopping \in BOOLEAN /\ error \in BOOLEAN /\ elapsed \in BOOLEAN /\ bumped \in BOOLEAN
    /\ goal \in Nat /\ pose \in Nat

ProgramTypeOK ==
    /\ at \in {"idle", "gone"} \cup Opening \cup Teaching \cup Recording \cup Closing
    /\ stage \in {"teach", "record"} /\ program \in 0..MaxPrograms
    /\ waits \in BOOLEAN /\ raised \in BOOLEAN /\ alarmed \in BOOLEAN
    /\ held \in Seq({"system", "camera", "nodes", "arms"})
    /\ camera \in {"off", "live", "dead"}

CaptureTypeOK ==
    /\ slot \in Images /\ frame \in Images /\ open \in BOOLEAN
    /\ best \in [image : Images, actual : Nat]
    /\ step \in 1..Len(Route)

RunTypeOK ==
    /\ run \in Runs /\ disk \in [0..MaxPrograms -> Runs]
    /\ evidence \subseteq Observations /\ pointer \in 0..program
    /\ split \in [0..MaxPrograms -> SUBSET Nat]

RouteTypeOK == route \in Routes /\ file \in Routes /\ chosen \in Nat

FilesTypeOK == CaptureTypeOK /\ RunTypeOK /\ RouteTypeOK

CalibrationTypeOK == ArmsTypeOK /\ ProgramTypeOK /\ FilesTypeOK

(* Which calls belong to which program, and when the motion thread runs. *)
StageInv ==
    /\ at \in Teaching => stage = "teach"
    /\ at \in Recording => stage = "record"
    /\ waits => at \in DOMAIN Calls
    /\ at \in {"idle", "gone", "create", "preflight"} \cup Opening \cup Teaching => motion = "none"
    /\ at \in {"enable", "make"} => motion = "new"
    /\ at = "launch" => motion = "made"
    /\ at \in Looping => motion \in {"running", "checked", "failing", "holding", "ended"}
    /\ at = "stop" => motion # "none"
    /\ at = "join" => motion \notin {"none", "new"}
    /\ at = "hold" => motion \in {"new", "ended"}
    /\ at \in {"trace", "save", "point"} \cup Closing => alarmed \/ motion \in {"none", "new", "ended"}

(* The request of the main thread that an arm has not answered yet. *)
Outstanding(a, s) == waits /\ Calls[at] = s /\ a \notin done["main"]

(* Nobody but the main thread asks for these two, and it waits for the      *)
(* answer.                                                                 *)
CallInv ==
    ~alarmed => \A a \in Side : \A s \in Service \ {"calibration_hold"} :
        asked[<<a, s>>] = IF Outstanding(a, s) THEN <<"main">> ELSE <<>>

(* A hold that the motion thread gave up comes before that of the main      *)
(* thread, and so before whatever the arms are asked next.                  *)
HoldQueue(a) ==
    LET queue == asked[<<a, "calibration_hold">>] IN
    /\ at \notin Commanding => queue = <<>>
    /\ at = "hold" /\ waits /\ a \in done["main"] => queue = <<>>
    /\ Outstanding(a, "calibration_hold") => queue # <<>> /\ queue[Len(queue)] = "main"
    /\ \A i \in DOMAIN queue : queue[i] = "main" =>
          i = Len(queue) /\ Outstanding(a, "calibration_hold")

HoldInv == ~alarmed => \A a \in Side : HoldQueue(a)

(* Nothing is on its way between two programs. *)
IdleInv ==
    at \in {"idle", "gone"} =>
        /\ ~waits
        /\ \A a \in Side : mode[a] = "off" /\ \A s \in Service : asked[<<a, s>>] = <<>>

ModeInv ==
    ~alarmed => \A a \in Side :
        /\ at \notin Commanding => mode[a] # "policy"
        /\ at = "hold" /\ waits /\ a \in done["main"] /\ "main" \notin refused
              => mode[a] # "policy"
        /\ at = "park" /\ waits /\ a \in done["main"] => mode[a] \in {"gravity", "off"}
        /\ at = "hands" => mode[a] \in {"gravity", "off"}

(* While the window is open and no push is unseen, the arms are at the goal *)
(* and the images exposed since show it.                                    *)
WindowInv ==
    /\ open => at \in {"look", "judge", "gone"}
    /\ at \in {"look", "judge", "note"} => goal = step
    /\ at \in {"look", "judge"} /\ ~open => ~slot.after /\ ~frame.after
    /\ at \in {"look", "judge"} /\ open =>
          /\ elapsed /\ Route[step] = "capture"
          /\ bumped => pose = Elsewhere
          /\ ~bumped => /\ pose = goal
                        /\ slot.after => slot.pose = goal
                        /\ frame.after => frame.pose = goal

BestInv ==
    /\ at = "note" => best.image.is
    /\ at \in {"look", "judge", "note"} /\ best.image.is =>
          best.image.pose = step /\ best.actual = step

(* What run.json says of the run so far. *)
Complete(r) == r.status = "completed" /\ r.results = Len(Route)

RunInv ==
    /\ at \in Opening \cup {"create"} => run = NoRun /\ step = 1
    /\ at \in {"preflight", "enable", "make", "launch"} => run.results = 0 /\ step = 1
    /\ at \in {"move", "look", "judge", "note", "result"} => run.results = step - 1
    /\ at = "confirm" => run.results = step
    /\ at \in {"finalize", "digest"} => run.results = Len(Route)
    /\ at \in {"stop", "join", "hold", "trace", "save"} /\ ~raised => Complete(run)
    /\ at = "point" => Complete(run) /\ disk[program] = run

PointerInv ==
    /\ Complete(disk[pointer])
    /\ at \in Opening \cup Teaching \cup Recording => pointer < program

Evidenced(r, n) == \A k \in r.observations : \E e \in evidence : e.run = n /\ e.step = k

EvidenceInv == Evidenced(run, program) /\ \A n \in 0..MaxPrograms : Evidenced(disk[n], n)

(* Digests are stale between the rewriting of an observation and its entry  *)
(* in the run only, and in a run that is no longer completed.               *)
Sampling == (Recording \ {"finalize", "digest"}) \ Stops

SplitInv ==
    /\ \A n \in 0..MaxPrograms :
          n > program \/ (n = program /\ at \in Opening \cup Sampling) => split[n] = {}
    /\ at \in Opening \cup Sampling => run.hashed = {}
    /\ at = "point" \/ (at \in Stops \cup {"finalize"} /\ ~raised) => run.hashed = split[program]
    /\ disk[pointer].hashed = split[pointer]

Shown(r) == \A i \in DOMAIN r.points : <<r.id, r.points[i]>> \in shown

RouteInv ==
    /\ Shown(route) /\ Shown(file)
    /\ at \in Drafting => file = route /\ route.draft
    /\ at = "store" => <<route.id, chosen>> \in shown
    /\ \A r \in finished : ~r.draft
    /\ finished \subseteq history \cup {file}
    /\ at = "draft" => file \in history

CalibrationInv ==
    /\ CalibrationTypeOK /\ StageInv
    /\ CallInv /\ HoldInv /\ IdleInv /\ ModeInv
    /\ WindowInv /\ BestInv /\ ObservationShowsItsPose
    /\ RunInv /\ PointerInv /\ EvidenceInv /\ SplitInv /\ RouteInv
=============================================================================
