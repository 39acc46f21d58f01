----------------------------- MODULE MCBooking -----------------------------
(* Small instances of Booking.                                             *)
EXTENDS Booking, TLC

Symmetric == Permutations(Bookings) \union Permutations(Views)
               \union Permutations(Slots)
=============================================================================
