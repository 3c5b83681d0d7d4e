\* Two requests race, and wait in line, on an event of one capacity and one start.
\* The model stops when every row has ended and the clock is at MaxTime.
CHECK_DEADLOCK FALSE
SPECIFICATION RaceSpec
CONSTANTS
  Rows = {1, 2, 3}
  Attendees = {ann, ben, cho}
  Nobody = Nobody
  Requests = {r1, r2}
  Capacities = {1}
  Starts = {3}
  EventLength = 1
  WaitlistEnabled = TRUE
  OfferWindow = 2
  MaxAge = 1
  MaxTime = 3
SYMMETRY Symmetry
INVARIANTS
  TypeOK
  SeatsWithinCapacity
  NothingLapsesUnderWay
  NoIdleSeat
PROPERTIES
  UnexpiredOfferHolds
  NoSeatOnCancelledEvent
  NoQueueJumping
  OffersInOrder
