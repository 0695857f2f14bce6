------------------------- MODULE ProductionSessionInv -------------------------
(***************************************************************************)
(* The inductive invariant of ProductionSession: where in its plan, which  *)
(* stage of a cleanup has what on its list, and that the program holds the *)
(* lease as long as there is a process on any.                             *)
(***************************************************************************)
EXTENDS ProductionSession

TypeOK ==
    /\ GroupsTypeOK
    /\ lock \in {"free", "ours", "other"}
    /\ usbfs \in [raised : BOOLEAN, noted : BOOLEAN]
    /\ interfaces \in Seq(ToSet(Arms)) /\ processes \in Seq(Procs)
    /\ context \in [Contexts -> {"none", "node", "up", "stuck"}]
    /\ flags \subseteq Contexts \cup {"system"}
    /\ pc \in {"none", "stopping", "ended"} \cup Acquiring \cup Cycling
    /\ at \in 1..Len(Plan) /\ sig \in 0..Len(Signals)
    /\ stage \in {"none", "undo", "inner", "outer"}
    /\ todo \in Seq(Procs \cup Contexts \cup {"usbfs", "lock"})
    /\ mode \in [Sides -> Modes]
    /\ late \subseteq [side : Sides, to : Modes]
    /\ count \in [programs : Nat, episodes : Nat, signals : Nat, faults : Nat]

(* What kind of step each move belongs to. *)
StepInv ==
    /\ stage = "none" <=> pc # "stopping"
    /\ pc = "do" => Step # "report"
    /\ pc = "made" => Step \in Procs \cup {"readiness"}
    /\ pc = "confirm" \/ stage = "undo" => Step \in Procs \cup {"monitor", "home"}
    /\ pc = "keep" => Step \in Procs \cup Contexts \cup {"lock", "usbfs", "report"}

(* The step that Plan[at] is, as a place: `report` follows the arms. *)
Reported == 5 + Len(Arms)

(* From the lease on, the program has it until it gives it back, and it does  *)
(* not give it back while there is a process on the list of the cleanup.      *)
LockInv ==
    /\ pc \in Acquiring /\ (at > 3 \/ pc = "keep") => lock = "ours"
    /\ pc \in Cycling \/ stage = "undo" => lock = "ours"
    /\ pc = "none" => lock # "ours"
    /\ stage \in {"inner", "outer"} /\ ToSet(todo) \cap Procs # {} => lock = "ours"

(* The Session knows its processes and the system only after `report`; the   *)
(* processes from then on, and the system's stop in its own.                 *)
FlagInv ==
    /\ pc = "none" => interfaces = <<>> /\ processes = <<>> /\ flags = {}
    /\ pc \in Acquiring /\ at <= 4 => interfaces = <<>>
    /\ pc \in Acquiring \/ stage = "undo" =>
          IF at > Reported THEN "system" \in flags
                           ELSE "system" \notin flags /\ processes = <<>>
    /\ pc \in Cycling => "system" \in flags
    /\ stage = "inner" => "system" \notin flags /\ processes = <<>>

(* The lease goes back last. *)
TodoInv ==
    /\ stage = "undo" => \A i \in DOMAIN todo : todo[i] = Step
    /\ stage \in {"inner", "outer"} =>
          \A i \in DOMAIN todo : todo[i] = "lock" => i = Len(todo)

(* A request that was given up is answered, if at all, during the cleanup. *)
LateInv == late # {} => pc \in {"stopping", "ended"}

IInv ==
    /\ TypeOK /\ StepInv /\ LockInv /\ FlagInv /\ TodoInv
    /\ LateInv /\ RecordsInGravity
===============================================================================
