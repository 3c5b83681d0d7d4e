\* The board sweeps an event it loaded before it was cancelled.
\* The model stops when every row has ended and the clock is at MaxTime.
CHECK_DEADLOCK FALSE
SPECIFICATION RaceSpec
CONSTANTS
  Rows = {1, 2, 3}
  Attendees = {ann, ben, cho}
  Nobody = Nobody
  Requests = {r1}
  Capacities = {1}
  Starts = {5}
  EventLength = 1
  WaitlistEnabled = TRUE
  OfferWindow = 2
  MaxAge = 1
  MaxTime = 4
PROPERTIES
  NoOfferOnCancelledEvent
