------------------------ MODULE MCFilterPublication ------------------------
(* FilterPublication for TLC: the worker slots are interchangeable.        *)
EXTENDS FilterPublicationProofs, TLC

Symmetry == Permutations(Workers)

=============================================================================
