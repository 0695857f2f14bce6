-------------------------- MODULE ProductionSession --------------------------
(***************************************************************************)
(* The production Session (production/orchestrator.py, system.py,          *)
(* processes.py, readiness.py, lease.py): one thread acquires the hardware *)
(* lease, the USB memory, the CAN interfaces, three ROS contexts and the   *)
(* ROS processes in a fixed order, cycles through Episodes, and gives      *)
(* everything back.  Calls fail, processes die, and a signal raises        *)
(* KeyboardInterrupt wherever the thread is, except while stop() ignores   *)
(* it.  When the program is gone its processes, which live in groups of    *)
(* their own, and the USB setting stay, and the next program finds them.   *)
(***************************************************************************)
EXTENDS ProcessGroups, Sequences, FiniteSets, SequencesExt

CONSTANTS
    Arms,         \* sequence of the arms of the station; their slcand is a process
    Programs,     \* how often the program is started
    Episodes,     \* Episodes of one Session
    MaxSignals,   \* SIGINT and SIGTERM delivered to the program
    MaxFaults     \* calls that fail, processes that die or ignore a signal

Contexts == {"readiness", "monitor", "home"}
Waits == {"wait_arms", "wait_cameras", "wait_streams", "precheck"}
ASSUME SessionAssumption ==
    /\ Arms \in Seq(Procs)
    /\ {"controller", "adapter", "camera"} \subseteq Procs \ ToSet(Arms)
    /\ Procs \cap (Contexts \cup Waits \cup {"identity", "disk", "lock", "usbfs", "report"}) = {}

VARIABLES
    lock,        \* the flock on hardware.lock: free, ours, or another program's
    usbfs,       \* the setting: raised or not; noted: what UsbfsManager._changed says
    interfaces,  \* SystemBringup.interfaces
    processes,   \* RosProcessSupervisor._processes
    context,     \* ROS contexts: none, node (no thread yet), up (spinning), stuck
    flags,       \* the _..._started and _..._open flags of the Session
    pc, at,      \* where the Session thread is; `at` indexes Plan during start
    stage, todo, \* which cleanup runs, and what it has left to stop
    sig,         \* index in Signals of the signal ManagedProcess.stop sent last
    mode,        \* the mode of the two arms, by side
    late,        \* service requests nobody waits for any more
    count        \* programs, episodes, signals and faults so far

thread == <<pc, at, stage, todo, sig>>
owned == <<lock, usbfs, interfaces, processes, context, flags, group>>
vars == <<owned, thread, mode, late, count>>

Sides == {"left", "right"}
Modes == {"any", "home", "gravity"}

(* What ProductionSession.start does, in order.  A process is named by      *)
(* itself; `report` is the print of what system.start() returned, after     *)
(* which the Session notes that the system is started.  No program of the   *)
(* repository passes additional_processes.                                  *)
Plan == <<"identity", "disk", "lock", "usbfs">> \o Arms
          \o <<"report", "readiness", "monitor", "controller", "adapter",
               "wait_arms", "home", "camera", "wait_cameras", "wait_streams",
               "precheck">>
Step == Plan[at]
InSystem == Step \in {"usbfs"} \cup ToSet(Arms)      \* the try of SystemBringup.start

(* Where the thread is in start(), and where between the first READY and    *)
(* the end.                                                                 *)
Acquiring == {"do", "made", "confirm", "keep"}
Cycling == {"ready", "prepare", "go_home", "converge", "settle", "recording", "recover",
            "regravity"}

Fault == /\ count.faults < MaxFaults
         /\ count' = [count EXCEPT !.faults = @ + 1]

Init ==
    /\ lock = "free" /\ usbfs = [raised |-> FALSE, noted |-> FALSE]
    /\ interfaces = <<>> /\ processes = <<>>
    /\ context = [c \in Contexts |-> "none"] /\ flags = {}
    /\ group = [p \in Procs |-> {}]
    /\ pc = "none" /\ at = 1 /\ stage = "none" /\ todo = <<>> /\ sig = 0
    /\ mode = [s \in Sides |-> "any"] /\ late = {}
    /\ count = [programs |-> 0, episodes |-> 0, signals |-> 0, faults |-> 0]

-----------------------------------------------------------------------------
(* Mutant: the lease goes back before what it covers. *)
SystemStopLeaseFirst == <<"lock">> \o Reverse(interfaces) \o <<"usbfs">>

(* Giving back: the order of _stop_owned_resources and of SystemBringup.stop. *)
SystemStop == Reverse(interfaces) \o <<"usbfs", "lock">>
SessionStop ==
    LET If(flag, seq) == IF flag \in flags THEN seq ELSE <<>>
    IN  If("monitor", <<"monitor">>) \o If("home", <<"home">>)
          \o Reverse(processes) \o If("readiness", <<"readiness">>)
          \o If("system", SystemStop)

(* An exception leaves the innermost try: `undo` stops the resource just     *)
(* made, `inner` is SystemBringup.stop, `outer` is ProductionSession.stop.   *)
Cleanup(undo) ==
    /\ pc' = "stopping" /\ sig' = 0
    /\ IF undo # <<>>
         THEN stage' = "undo" /\ todo' = undo
         ELSE IF pc \in Acquiring /\ InSystem
         THEN stage' = "inner" /\ todo' = SystemStop
         ELSE stage' = "outer" /\ todo' = SessionStop
    /\ UNCHANGED <<at, owned>>

(* An exception in a step of start().  The context or the process that is    *)
(* being confirmed is stopped by its own handler, if it runs.                *)
Raise ==
    Cleanup(IF pc = "confirm" /\ (Step \in Contexts \/ Running(Step)) THEN <<Step>> ELSE <<>>)

Goto(label) ==
    pc' = label /\ UNCHANGED <<at, stage, todo, sig>>
NextStep ==
    /\ IF at = Len(Plan) THEN pc' = "ready" /\ UNCHANGED at
       ELSE /\ at' = at + 1
            /\ pc' = IF Plan[at + 1] = "report" THEN "keep" ELSE "do"
    /\ UNCHANGED <<stage, todo, sig>>

(* The program starts; nobody but the kernel and the processes left over      *)
(* remembers an earlier one.                                                  *)
Launch ==
    /\ pc = "none" /\ count.programs < Programs
    /\ count' = [count EXCEPT !.programs = @ + 1, !.episodes = 0]
    /\ pc' = "do" /\ at' = 1
    /\ UNCHANGED <<owned, stage, todo, sig, mode, late>>

Silent == UNCHANGED <<owned, mode, late, count>>
Owns(rest) == UNCHANGED <<rest, mode, late, count>>

(* Identity and disk space, readiness of streams: they pass, or raise.  A     *)
(* wait polls the supervised processes and cannot pass over a dead one.       *)
AllRun == \A p \in ToSet(processes) : Running(p)
DeviceCheck == Step = "identity"
DiskCheck == Step = "disk"
TelemetryWait == Step \in {"wait_arms", "wait_cameras"} /\ AllRun
MonitorWait == Step = "wait_streams" /\ AllRun
PreCheck == Step = "precheck" /\ AllRun /\ \A a \in ToSet(interfaces) : Running(a)
Check ==
    /\ pc = "do"
    /\ DeviceCheck \/ DiskCheck \/ TelemetryWait \/ MonitorWait \/ PreCheck
    /\ NextStep /\ Silent

(* HardwareLease.acquire, which is outside the try of SystemBringup.start.    *)
Acquire ==
    /\ pc = "do" /\ Step = "lock" /\ lock = "free"
    /\ lock' = "ours" /\ Goto("keep")
    /\ Owns(<<usbfs, interfaces, processes, context, flags, group>>)

(* UsbfsManager.apply: the write, and then the note of it.                    *)
RaiseUsbfs ==
    /\ pc = "do" /\ Step = "usbfs" /\ ~usbfs.raised
    /\ usbfs' = [usbfs EXCEPT !.raised = TRUE] /\ Goto("keep")
    /\ Owns(<<lock, interfaces, processes, context, flags, group>>)
KeepUsbfs ==
    /\ pc = "do" /\ Step = "usbfs" /\ usbfs.raised
    /\ NextStep /\ Silent

(* Popen of a CAN interface or of a ROS process.  An interface that exists    *)
(* already is refused.                                                        *)
Start ==
    /\ pc = "do" /\ Step \in Procs
    /\ Step \in ToSet(Arms) => group[Step] = {}
    /\ Popen(Step) /\ Goto("made")
    /\ Owns(<<lock, usbfs, interfaces, processes, context, flags>>)
EnterTry ==
    /\ pc = "made" /\ Step \in Procs /\ Goto("confirm") /\ Silent
(* require_running, and for a CAN interface the wait for the link and check.  *)
Confirm ==
    /\ pc = "confirm"
    /\ Step \in Procs => Running(Step)
    /\ Goto("keep") /\ Silent

(* RosReadinessGate.start makes its context and node, and then the executor   *)
(* and its thread, with no try around either; monitor.open and home.open have *)
(* one around the thread, up to the services that home waits for.             *)
OpenReadiness ==
    /\ pc = "do" /\ Step = "readiness"
    /\ context' = [context EXCEPT ![Step] = "node"] /\ Goto("made")
    /\ Owns(<<lock, usbfs, interfaces, processes, flags, group>>)
SpinReadiness ==
    /\ pc = "made" /\ Step = "readiness"
    /\ context' = [context EXCEPT ![Step] = "up"] /\ Goto("keep")
    /\ Owns(<<lock, usbfs, interfaces, processes, flags, group>>)
OpenContext ==
    /\ pc = "do" /\ Step \in {"monitor", "home"}
    /\ context' = [context EXCEPT ![Step] = "up"] /\ Goto("confirm")
    /\ Owns(<<lock, usbfs, interfaces, processes, flags, group>>)

(* The statement after a call that returned records what it acquired.         *)
Keep ==
    /\ pc = "keep"
    /\ interfaces' = IF Step \in ToSet(Arms) THEN Append(interfaces, Step) ELSE interfaces
    /\ processes' = IF Step \in Procs \ ToSet(Arms) THEN Append(processes, Step)
                                                    ELSE processes
    /\ flags' = flags \cup (IF Step = "report" THEN {"system"}
                            ELSE {Step} \cap Contexts)
    /\ usbfs' = IF Step = "usbfs" THEN [usbfs EXCEPT !.noted = TRUE] ELSE usbfs
    /\ NextStep
    /\ UNCHANGED <<lock, context, group, mode, late, count>>

Acquisition == Check \/ Acquire \/ RaiseUsbfs \/ KeepUsbfs \/ Start \/ EnterTry
                 \/ Confirm \/ OpenReadiness \/ SpinReadiness \/ OpenContext \/ Keep

(* Mutant: a result that failed is looked at after the process was handed over. *)
StartFailsAfterConfirm ==
    /\ pc = "do" \/ (pc = "keep" /\ Step \in Procs)
    /\ Fault /\ Raise /\ UNCHANGED <<mode, late>>

(* A call of start raises: what it needs is not there, or it fails.           *)
StartFails ==
    /\ \/ pc \in {"do", "confirm"}
       \/ (pc = "made" /\ Step = "readiness") \/ (pc = "keep" /\ Step = "report")
    /\ \/ /\ \/ Step = "lock" /\ lock # "free"
             \/ Step \in Procs /\ pc = "confirm" /\ ~Running(Step)
             \/ Step \in ToSet(Arms) /\ pc = "do" /\ group[Step] # {}
             \/ Step \in {"wait_arms", "wait_cameras"} /\ ~TelemetryWait
             \/ Step = "wait_streams" /\ ~MonitorWait
             \/ Step = "precheck" /\ ~PreCheck
          /\ UNCHANGED count
       \/ Fault
    /\ Raise /\ UNCHANGED <<mode, late>>

-----------------------------------------------------------------------------
(* Episodes.  A call of _call_all sends one request to each arm and waits for *)
(* both; one that gives up leaves requests that may still be served.          *)
Answers == group["controller"] # {}
CallOk(target) ==
    /\ Answers
    /\ mode' = [s \in Sides |-> target]
GiveUp(target) ==
    \E served, pending \in SUBSET Sides :
       /\ served \cap pending = {} /\ (served # {} => Answers)
       /\ mode' = [s \in Sides |-> IF s \in served THEN target ELSE mode[s]]
       /\ late' = late \cup {[side |-> s, to |-> target] : s \in pending}
LateService ==
    \E r \in late :
       /\ Answers /\ late' = late \ {r}
       /\ mode' = [mode EXCEPT ![r.side] = r.to]
       /\ UNCHANGED <<owned, thread, count>>

(* The Episode loop: an activation starts prepare_episode, whose check finds  *)
(* a dead process or a failing stream, or goes on to the reset.  Only a       *)
(* CheckFailure and a ProcessUnavailableError are answered by gravity         *)
(* compensation; any other exception leaves the Session.                      *)
Activate ==
    /\ pc = "ready" /\ count.episodes < Episodes
    /\ count' = [count EXCEPT !.episodes = @ + 1]
    /\ Goto("prepare") /\ UNCHANGED <<owned, mode, late>>
Healthy == AllRun /\ \A a \in ToSet(interfaces) : Running(a)
Prepare ==
    /\ pc = "prepare"
    /\ \/ Healthy /\ Goto("go_home") /\ UNCHANGED <<owned, count>>
       \/ ~Healthy /\ Goto("recover") /\ UNCHANGED <<owned, count>>
       \/ Fault /\ Goto("recover") /\ UNCHANGED owned
       \/ Fault /\ Cleanup(<<>>)
    /\ UNCHANGED <<mode, late>>

(* ResetCoordinator.run: GO_HOME, convergence of both arms, G_COMPENSATION.   *)
(* _confirm_gravity_compensation in `recover` makes a failed check a blocked  *)
(* Episode, unless the controller is what died.                               *)
Target == IF pc = "go_home" THEN "home" ELSE "gravity"
After == CASE pc = "go_home" -> "converge" [] pc = "settle" -> "recording"
           [] OTHER -> "ready"
Calling == pc \in {"go_home", "settle", "recover", "regravity"}
ControllerDied ==
    LET dead == SelectSeq(processes, LAMBDA p : ~Running(p))
    IN  dead # <<>> /\ Head(dead) = "controller"
CallReturns ==
    /\ Calling /\ CallOk(Target)
    /\ IF pc = "recover" /\ ControllerDied THEN Cleanup(<<>>)
                                          ELSE Goto(After) /\ UNCHANGED owned
    /\ UNCHANGED <<late, count>>
(* Mutant: a reset that failed only blocks the Episode. *)
CallFailsAsBlocked ==
    /\ Calling /\ Fault
    /\ GiveUp(Target) /\ Goto("ready") /\ UNCHANGED owned

CallFails ==
    /\ Calling
    /\ (~Answers /\ UNCHANGED count) \/ Fault
    /\ GiveUp(Target) /\ Cleanup(<<>>)
Converge ==
    /\ pc = "converge"
    /\ \/ Answers /\ Goto("settle") /\ UNCHANGED <<owned, count>>
       \/ (IF Answers THEN Fault ELSE UNCHANGED count) /\ Cleanup(<<>>)
    /\ UNCHANGED <<mode, late>>

(* The recording ends in success, or in another outcome for which             *)
(* stop_episode asks for gravity compensation; then the next Episode may      *)
(* start.  The end of the loop is the end of the with-block.                  *)
EndRecording ==
    /\ pc = "recording" /\ (Goto("ready") \/ Goto("regravity")) /\ Silent
Leave ==
    /\ pc = "ready" /\ Cleanup(<<>>) /\ UNCHANGED <<mode, late, count>>

Cycle == Activate \/ Prepare \/ CallReturns \/ CallFails \/ Converge
           \/ EndRecording \/ Leave

-----------------------------------------------------------------------------
(* Cleanup.                                                                   *)
Item == Head(todo)
(* Lists are worked off from their end; what is undone is in none of them.    *)
Without(seq) == IF seq # <<>> /\ Last(seq) = Item THEN Front(seq) ELSE seq
Stopping(kind) == pc = "stopping" /\ todo # <<>> /\ Item \in kind
Pop == todo' = Tail(todo) /\ sig' = 0 /\ UNCHANGED <<pc, at, stage>>
Spare == UNCHANGED <<mode, late>>

(* stop and close of a ROS context join its thread, for five seconds; the     *)
(* Session forgets the context in either case.                                *)
CloseContext ==
    /\ Stopping(Contexts)
    /\ context' = [context EXCEPT ![Item] = "none"]
    /\ flags' = flags \ {Item} /\ Pop
    /\ Owns(<<lock, usbfs, interfaces, processes, group>>)
CloseTimesOut ==
    /\ Stopping(Contexts) /\ Fault
    /\ context' = [context EXCEPT ![Item] = "stuck"]
    /\ flags' = flags \ {Item} /\ Pop
    /\ Spare /\ UNCHANGED <<lock, usbfs, interfaces, processes, group>>

(* ManagedProcess.stop: the next signal, as long as the leader runs.  Who     *)
(* ignores SIGINT may ignore SIGTERM too; outliving SIGKILL is another fault. *)
SendSignal ==
    /\ Stopping(Procs) /\ Running(Item) /\ sig < Len(Signals)
    /\ \E obey \in SUBSET (group[Item] \ {"stray"}) :
          /\ SignalGroup(Item, obey)
          /\ IF sig = 1 \/ obey = group[Item] \ {"stray"} THEN UNCHANGED count ELSE Fault
    /\ sig' = sig + 1
    /\ Spare /\ UNCHANGED <<lock, usbfs, interfaces, processes, context, flags,
                            pc, at, stage, todo>>

(* What is stopped, or could not be, is forgotten.                            *)
Forget == interfaces' = Without(interfaces) /\ processes' = Without(processes)
(* Mutant: a group that outlives SIGKILL is waited for. *)
ReapedWhenDead ==
    /\ Stopping(Procs) /\ ~Running(Item)
    /\ Forget /\ Pop
    /\ Spare /\ UNCHANGED <<lock, usbfs, context, flags, group, count>>

Reaped ==
    /\ Stopping(Procs) /\ (~Running(Item) \/ sig = Len(Signals))
    /\ Forget /\ Pop
    /\ Spare /\ UNCHANGED <<lock, usbfs, context, flags, group, count>>

(* UsbfsManager.restore, whose failure is a check result, not an exception.   *)
RestoreUsbfs ==
    /\ Stopping({"usbfs"})
    /\ \/ /\ usbfs' = IF usbfs.noted THEN [raised |-> FALSE, noted |-> FALSE] ELSE usbfs
          /\ UNCHANGED count
       \/ usbfs.noted /\ Fault /\ UNCHANGED usbfs
    /\ Pop
    /\ Spare /\ UNCHANGED <<lock, interfaces, processes, context, flags, group>>
ReleaseLock ==
    /\ Stopping({"lock"})
    /\ lock' = "free" /\ flags' = flags \ {"system"} /\ Pop
    /\ Spare /\ UNCHANGED <<usbfs, interfaces, processes, context, group, count>>

(* The handler is through: the next one out runs.                             *)
StageDone ==
    /\ pc = "stopping" /\ todo = <<>>
    /\ \/ stage = "undo" /\ InSystem /\ stage' = "inner" /\ todo' = SystemStop /\ UNCHANGED pc
       \/ /\ stage = "inner" \/ (stage = "undo" /\ ~InSystem)
          /\ stage' = "outer" /\ todo' = SessionStop /\ UNCHANGED pc
       \/ stage = "outer" /\ stage' = "none" /\ pc' = "ended" /\ UNCHANGED todo
    /\ UNCHANGED <<at, sig, owned, mode, late, count>>

CleanupStep == CloseContext \/ CloseTimesOut \/ SendSignal \/ Reaped \/ RestoreUsbfs \/ ReleaseLock
                 \/ StageDone

-----------------------------------------------------------------------------
(* The environment.                                                           *)
(* The program is over: its memory is gone and the kernel drops its lock.     *)
Gone ==
    /\ pc' = "none" /\ at' = 1 /\ stage' = "none" /\ todo' = <<>> /\ sig' = 0
    /\ lock' = IF lock = "ours" THEN "free" ELSE lock
    /\ interfaces' = <<>> /\ processes' = <<>> /\ flags' = {}
    /\ context' = [c \in Contexts |-> "none"] /\ usbfs' = [usbfs EXCEPT !.noted = FALSE]
    /\ late' = {} /\ UNCHANGED <<group, mode>>
(* The interpreter joins threads that are not daemons before it exits.        *)
Exit ==
    /\ pc = "ended" /\ \A c \in Contexts : context[c] \in {"none", "node"}
    /\ Gone /\ UNCHANGED count
Crash == pc # "none" /\ Fault /\ Gone

(* ignore_repeated_termination: ProductionSession.stop is never interrupted.  *)
Ignored == stage = "outer"

(* KeyboardInterrupt, from SIGINT or from SIGTERM (termination_as_interrupt). *)
(* SystemBringup.stop swallows one that arrives while it stops an interface   *)
(* or restores; elsewhere in it, it escapes with the rest undone.             *)
Interrupt ==
    /\ count.signals < MaxSignals /\ ~Ignored /\ pc \notin {"none", "ended"}
    /\ count' = [count EXCEPT !.signals = @ + 1]
    /\ \/ pc \in Acquiring /\ Raise /\ Spare
       \/ Calling /\ GiveUp(Target) /\ Cleanup(<<>>)
       \/ pc \in {"ready", "prepare", "converge"} /\ Cleanup(<<>>) /\ Spare
       \/ pc = "recording" /\ Goto("regravity") /\ Spare /\ UNCHANGED owned
       \/ /\ Stopping(Procs) /\ Forget /\ Pop
          /\ Spare /\ UNCHANGED <<lock, usbfs, context, flags, group>>
       \/ Stopping({"usbfs"}) /\ Pop /\ Spare /\ UNCHANGED owned
       \/ /\ Stopping(Contexts \cup {"usbfs", "lock"})
          /\ todo' = <<>> /\ Spare /\ UNCHANGED <<owned, pc, at, stage, sig>>

ProcessDies ==
    /\ Fault /\ \E p \in Procs : Die(p)
    /\ UNCHANGED <<lock, usbfs, interfaces, processes, context, flags, thread, mode,
                   late>>
(* Another program takes the lease and returns it.                            *)
Other ==
    /\ pc \in {"none", "ended"} \/ (pc = "do" /\ at = 1)
    /\ \/ lock = "free" /\ lock' = "other"
       \/ lock = "other" /\ lock' = "free"
    /\ UNCHANGED <<usbfs, interfaces, processes, context, flags, group, thread, mode,
                   late, count>>

Environment == Exit \/ Crash \/ Interrupt \/ ProcessDies \/ Other \/ LateService
Next == Launch \/ Acquisition \/ StartFails \/ Cycle \/ CleanupStep \/ Environment
Spec == Init /\ [][Next]_vars
SessionThread == Acquisition \/ StartFails \/ Cycle \/ CleanupStep
FairSpec == Spec /\ WF_vars(CleanupStep)

-----------------------------------------------------------------------------
(* A member of the group runs, be it only the child of a leader that is gone. *)
Alive(r) == group[r] \ {"stray"} # {}

(* What the program would still stop: what its lists name, what the step in   *)
(* hand has made, and what the cleanup that runs has before it.               *)
Kept == ToSet(interfaces) \cup ToSet(processes)
Known ==
    {p \in Procs : \/ p \in Kept /\ (pc \in Acquiring \cup Cycling \/ stage = "undo")
                   \/ p = Step /\ pc \in Acquiring \ {"do"}
                   \/ p \in ToSet(todo) /\ stage # "none"}

(* Whatever runs, runs under the hardware lease of the program that would     *)
(* still stop it: the lease is taken before the first process starts and goes *)
(* back after the last one the program knows of, whatever cleanup runs.       *)
HardwareUnderLease ==
    \A p \in Known : Alive(p) => lock = "ours"

(* A recording is made with both arms in gravity compensation: no request of  *)
(* an earlier reset, answered late, moves an arm during it.                   *)
RecordsInGravity ==
    pc = "recording" => \A s \in Sides : mode[s] = "gravity"

(* No process outlives its Session unnoticed: one whose leader runs stays in  *)
(* the hands of the program from Popen to the end of the stop, through every  *)
(* failing call, every handler and every stage of the cleanup.  Excepted are  *)
(* a signal, a crash, a check sink that fails on the report of a system that  *)
(* is up, and a leader that outlives SIGKILL.                                 *)
Strays == {p \in Procs : Running(p) /\ p \notin Known}
Struck == \/ pc' = "none" \/ count'.signals > count.signals
          \/ pc = "keep" /\ Step = "report"
          \/ sig = Len(Signals)
NoneGoesAstray == [][Strays' \subseteq Strays \/ Struck]_vars

(* A cleanup that begins comes to its end, whatever refuses to stop.          *)
StopEnds == (pc = "stopping") ~> (pc \in {"ended", "none"})
=============================================================================
