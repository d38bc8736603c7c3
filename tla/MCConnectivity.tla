--------------------------- MODULE MCConnectivity ---------------------------
(* Instances of Connectivity for TLC. *)
EXTENDS Connectivity, TLC

CONSTANTS h1, h2

Symmetry == Permutations(Handlers)
=============================================================================
