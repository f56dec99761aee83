------------------------- MODULE MCAutoDriveExec -------------------------
(* Bounds for AutoDriveExec are given in the configuration.  MaxSnapshots  *)
(* exceeds TurnCap, so the bound on snapshots is never met.                *)
EXTENDS AutoDriveExec
=============================================================================
