--------------------------- MODULE MCCoordinator ---------------------------
(* The instances TLC checks: model values for sessions and proofs. *)
EXTENDS Coordinator, TLC

CONSTANTS s1, s2, p1, p2, p3

ProofSymmetry == Permutations(Proofs)

=============================================================================
