----------------------------- MODULE PedalTrigger -----------------------------
(***************************************************************************)
(* PedalTrigger over two hidraw devices.  The kernel buffers the reports   *)
(* of a pedal whether or not the trigger is armed; arm drains them, wait   *)
(* takes at most one report of each pedal.                                 *)
(*                                                                         *)
(* A press carries the Session's stage when the operator made it.  Time is *)
(* abstracted: a pedal is settled once debounce_s has passed.  Reports     *)
(* that are no press are left out: they are read and mean nothing.         *)
(***************************************************************************)
EXTENDS Integers, Sequences

CONSTANT MaxPresses \* bound: presses of the operator

ASSUME PressAssumption == MaxPresses \in Nat

VARIABLES
    reports, \* per pedal, the kernel's buffer
    armed,   \* _armed
    recent,  \* the pedals pressed less than debounce_s ago, by _last_press
    presses  \* consumed

pedalVars == <<reports, armed, recent, presses>>

Pedals == {"right", "left"}

PedalInit ==
    /\ reports = [p \in Pedals |-> <<>>]
    /\ armed = FALSE
    /\ recent = {}
    /\ presses = 0

(* The operator presses a pedal. *)
Press(p, made) ==
    /\ presses < MaxPresses
    /\ presses' = presses + 1
    /\ reports' = [reports EXCEPT ![p] = Append(@, made)]
    /\ UNCHANGED <<armed, recent>>

(* debounce_s passes. *)
SettlePedal ==
    /\ recent # {}
    /\ \E p \in recent : recent' = recent \ {p}
    /\ UNCHANGED <<reports, armed, presses>>

(* Mutant: what was pressed before is not drained. *)
ArmKeepsReports == armed' = TRUE /\ UNCHANGED <<reports, recent, presses>>

Arm ==
    /\ reports' = [p \in Pedals |-> <<>>]
    /\ armed' = TRUE
    /\ UNCHANGED <<recent, presses>>

Disarm == armed' = FALSE /\ UNCHANGED <<reports, recent, presses>>

(* close: the descriptors, and what the kernel buffered for them, are gone. *)
ClosePedals ==
    /\ reports' = [p \in Pedals |-> <<>>]
    /\ armed' = FALSE
    /\ recent' = {}
    /\ UNCHANGED presses

(* The pedals select finds readable. *)
Readable == {p \in Pedals : reports[p] # <<>>}

(* What wait returns: a press of both is a conflict, the left one comes     *)
(* first otherwise, and a press that follows its last one too fast is none. *)
Heard ==
    CASE Readable = Pedals -> "conflict"
      [] "left" \in Readable \ recent -> "left"
      [] Readable \ recent = {"right"} -> "right"
      [] OTHER -> "none"

(* The presses it is made from. *)
HeardPresses == {Head(reports[p]) : p \in Readable}

Wait ==
    /\ armed
    /\ reports' = [p \in Pedals |-> IF p \in Readable THEN Tail(reports[p]) ELSE reports[p]]
    /\ recent' = IF Heard = "none" THEN recent ELSE recent \cup Readable
    /\ UNCHANGED <<armed, presses>>

=============================================================================
