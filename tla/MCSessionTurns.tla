--------------------------- MODULE MCSessionTurns ---------------------------
(* Instance of SessionTurns for TLC. *)
EXTENDS SessionTurns, TLC

\* User inputs are interchangeable.
Symmetry == Permutations(Users)
=============================================================================
