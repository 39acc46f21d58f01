CONSTANTS
  Bookings = {b1, b2}
  NoBooking = NoBooking
  Views = {v1}
  NoView = NoView
  Slots = {s1, s2}
  MaxHomes = 2
  MaxStack = 3
  Unreliable = FALSE
SPECIFICATION FairSpec
PROPERTY AcceptedRideIsShown
PROPERTY CompletedRideAsksForRating
