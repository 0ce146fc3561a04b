------------------------- MODULE MCPolicySwitching -------------------------
(* Small instances of PolicySwitching for TLC. *)
EXTENDS PolicySwitching
=============================================================================
