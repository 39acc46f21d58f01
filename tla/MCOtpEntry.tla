----------------------------- MODULE MCOtpEntry -----------------------------
(* Small instances of OtpEntry.                                            *)
EXTENDS OtpEntry, TLC

Symmetric == Permutations(Chars)
=============================================================================
