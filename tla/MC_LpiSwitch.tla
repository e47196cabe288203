---------------------------- MODULE MC_LpiSwitch ----------------------------
(* LpiSwitch with small sets of streams. *)
EXTENDS LpiSwitch
=============================================================================
