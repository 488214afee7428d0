------------------------- MODULE MCSessionLifecycle -------------------------
(* SessionLifecycle for TLC: symmetry of the interchangeable requests.     *)
EXTENDS SessionLifecycle, TLC

RequestSymmetry == Permutations(Posts) \cup Permutations(Visits)
                     \cup Permutations(Deletes)

=============================================================================
