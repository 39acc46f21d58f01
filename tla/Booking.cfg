CONSTANTS
  Bookings = {b1, b2}
  NoBooking = NoBooking
  Views = {v1, v2}
  NoView = NoView
  Slots = {s1, s2}
  MaxHomes = 2
  MaxStack = 3
  Unreliable = TRUE
SPECIFICATION Spec
SYMMETRY Symmetric
INVARIANT TypeOK
INVARIANT TrackedRideWasAccepted
INVARIANT CancelAboveItsRide
INVARIANT FeedbackAfterCompletion
PROPERTY ImplementsRideBoard
PROPERTY PollingGoesOn
PROPERTY FollowingGoesOn
