----------------------------- MODULE MCSession -----------------------------
(* Small instances of Session.                                             *)
EXTENDS Session, TLC

Symmetric == Permutations(Phones) \union Permutations(Cars) \union Permutations(Slots)
=============================================================================
