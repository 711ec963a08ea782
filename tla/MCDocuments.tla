----------------------------- MODULE MCDocuments ----------------------------
(* Documents with uploads, items and contents that are interchangeable.    *)
EXTENDS Documents, TLC

Symmetry == Permutations(Files) \cup Permutations(Items) \cup Permutations(Contents)

=============================================================================
