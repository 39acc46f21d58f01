----------------------------- MODULE MCProfile -----------------------------
(* Small instances of Profile.                                             *)
EXTENDS Profile, TLC

Symmetric == Permutations(Users) \union Permutations(Texts) \union Permutations(Slots)

(* A bound: behaviours end where nothing is claimed of the texts and the   *)
(* status any more.  What remains to be said there, of the language and the*)
(* complaint, has nothing to do with the calls in flight.                  *)
Claimed == ~(torn /\ raced)
=============================================================================
