-------------------------- MODULE MCAutoDriveHost --------------------------
(* Instance of AutoDriveHost for TLC. *)
EXTENDS AutoDriveHost
=============================================================================
