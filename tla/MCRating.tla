------------------------------ MODULE MCRating ------------------------------
(* Small instances of Rating.                                              *)
EXTENDS Rating, TLC

Symmetric == Permutations(Slots)
=============================================================================
