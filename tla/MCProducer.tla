----------------------------- MODULE MCProducer -----------------------------
(* Instances of Producer for TLC. *)
EXTENDS Producer, TLC

CONSTANTS e1, e2, e3, e4, w1, w2, coffee, tea

OneProduct == coffee :> 2
TwoProducts == coffee :> 1 @@ tea :> 2
Symmetry == Permutations(EventIds) \cup Permutations(Workers)
=============================================================================
