---------------------------- MODULE MCTowRequest ----------------------------
(* Small instances of TowRequest.                                          *)
EXTENDS TowRequest, TLC

Symmetric == Permutations(Drivers) \union Permutations(Cars)
               \union Permutations(Slots)
=============================================================================
