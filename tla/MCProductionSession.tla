-------------------------- MODULE MCProductionSession --------------------------
(* Finite values for ProductionSession: one or two arms, the three ROS        *)
(* processes, and the launch files among them.                                *)
EXTENDS ProductionSession

MCArms == <<"can_left">>
MCTwoArms == <<"can_left", "can_right">>
MCProcs == ToSet(MCArms) \cup {"controller", "adapter", "camera"}
MCTwoProcs == MCProcs \cup ToSet(MCTwoArms)
MCLaunchers == {"controller"}
================================================================================
