\* Two requests, two registrations, under the fairness of a running request.
\* The model stops when every row has ended and the clock is at MaxTime.
CHECK_DEADLOCK FALSE
SPECIFICATION FairSpec
CONSTANTS
  Rows = {1, 2}
  Attendees = {ann, ben}
  Nobody = Nobody
  Requests = {r1, r2}
  Capacities = {1, 2}
  Starts = {2}
  EventLength = 1
  WaitlistEnabled = TRUE
  OfferWindow = 2
  MaxAge = 1
  MaxTime = 3
PROPERTIES
  LapsedOfferEnds
  ImplementsLedger
