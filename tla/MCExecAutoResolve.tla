------------------------- MODULE MCExecAutoResolve -------------------------
(* Bounds and modes for ExecAutoResolve are given in the configurations.    *)
EXTENDS ExecAutoResolve
=============================================================================
