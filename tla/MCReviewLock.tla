---------------------------- MODULE MCReviewLock ----------------------------
(* Two processes: c1 and c2 share the first one (the TUI and its background *)
(* review), c3 runs in the second (an exec review).                         *)
EXTENDS ReviewLock, TLC

CONSTANTS p1, p2, c1, c2, c3

MCProcOf == (c1 :> p1) @@ (c2 :> p1) @@ (c3 :> p2)
=============================================================================
