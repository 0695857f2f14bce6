-------------------------- MODULE MCOperatorPrograms --------------------------
(***************************************************************************)
(* The two programs an operator runs by hand, infer and calibration.  Both *)
(* hold the station's lease while they have its hardware, so one runs and  *)
(* the other does not.                                                     *)
(***************************************************************************)
EXTENDS InferCollection, CalibrationRun, TLC

VARIABLE holder \* the program that has the lease

ReplayedRoute == <<"start", "capture", "capture">>

(* Both arms of a calibration are treated alike. *)
Symmetry == Permutations(Side)

StationInit ==
    /\ Init /\ CalibrationInit
    /\ holder \in {"infer", "calibration"}
    /\ holder = "calibration" => recorded \* of infer only

StationNext ==
    \/ holder = "infer" /\ Next /\ UNCHANGED <<calibrationVars, holder>>
    \/ holder = "calibration" /\ CalibrationNext /\ UNCHANGED <<vars, holder>>

StationSpec == StationInit /\ [][StationNext]_<<vars, calibrationVars, holder>>
===============================================================================
