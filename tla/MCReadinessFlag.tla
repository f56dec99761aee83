-------------------------- MODULE MCReadinessFlag --------------------------
(* The tasks of ReadinessFlag are model values, given in the configurations. *)
EXTENDS ReadinessFlag
=============================================================================
