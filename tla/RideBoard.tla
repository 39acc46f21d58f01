----------------------------- MODULE RideBoard -----------------------------
(***************************************************************************)
(* What the booking screens promise the user, without screens, requests or *)
(* answers: a ride is shown once a driver has accepted it, the rating is   *)
(* asked for while a completed ride is shown, and what is shown goes away  *)
(* for a reason.  Booking implements it.                                   *)
(***************************************************************************)
CONSTANT Bookings

VARIABLES
  status,  \* booking -> what the server holds of it
  shown,   \* the bookings with a tracking screen
  rating,  \* TRUE while the rating form is shown
  mixed    \* two bookings were in flight together: their ids may be swapped

vars == <<status, shown, rating, mixed>>

Answered == {"accepted", "started", "completed", "cancelled"}

Init ==
  /\ status = [b \in Bookings |-> "none"]
  /\ shown = {}
  /\ rating = FALSE
  /\ mixed = FALSE

(* What a booking can become next.                                         *)
Follows(old) ==
  CASE old = "none"     -> {"pending"}
    [] old = "pending"  -> {"accepted", "rejected", "cancelled"}
    [] old = "accepted" -> {"started", "cancelled"}
    [] old = "started"  -> {"completed", "cancelled"}
    [] OTHER            -> {}

Advance(b) ==
  /\ \E new \in Follows(status[b]) : status' = [status EXCEPT ![b] = new]
  /\ UNCHANGED <<shown, rating, mixed>>

Mix ==
  /\ mixed' = TRUE
  /\ UNCHANGED <<status, shown, rating>>

Show(b) ==
  /\ mixed \/ status[b] \in Answered
  /\ shown' = shown \union {b}
  /\ UNCHANGED <<status, rating, mixed>>

AskForRating ==
  /\ \E b \in shown : status[b] = "completed"
  /\ rating' = TRUE
  /\ UNCHANGED <<status, shown, mixed>>

(* A cancelled ride takes one screen away, its own or one above it.        *)
Cancelled ==
  /\ \E b \in shown : status[b] = "cancelled"
  /\ \/ \E b \in shown : shown' = shown \ {b} /\ UNCHANGED rating
     \/ rating' = FALSE /\ UNCHANGED shown
  /\ UNCHANGED <<status, mixed>>

(* Back to an empty map: the ride was rated, given up or the app restarted.*)
Leave ==
  /\ shown' = {}
  /\ rating' = FALSE
  /\ mixed' = FALSE
  /\ UNCHANGED status

Next == \/ \E b \in Bookings : Advance(b) \/ Show(b)
        \/ Mix \/ AskForRating \/ Cancelled \/ Leave

Spec == Init /\ [][Next]_vars
=============================================================================
