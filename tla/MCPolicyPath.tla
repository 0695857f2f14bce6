----------------------------- MODULE MCPolicyPath -----------------------------
(* The Policy path under model checking. *)
EXTENDS PolicyPathInv
=============================================================================
