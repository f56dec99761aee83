------------------------ MODULE MCCoordinatorClient ------------------------
(* Bounds for CoordinatorClient are given in the configurations.            *)
EXTENDS CoordinatorClient
=============================================================================
