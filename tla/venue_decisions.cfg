CONSTANTS
  r1 = r1
  r2 = r2
  Bookings = {1}
  Events = {11}
  Venues = {21}
  Windows <- OneWindow
  Buffers <- NoBuffers
  Periods <- OnePeriod
  Requests = {r1, r2}
  Offered = {"create", "place_hold", "confirm_hold", "make_primary", "withdraw", "approve", "reject", "record_period", "end_period", "request_restore", "decline_restore", "confirm_restore", "cancel_event", "confirm_event", "change_event"}
  Nothing = Nothing
SPECIFICATION FairSpec
INVARIANT RowsConsistent
PROPERTY EveryRequestEnds
