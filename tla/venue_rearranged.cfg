CONSTANTS
  r1 = r1
  r2 = r2
  Bookings = {1, 2, 3}
  Events = {11}
  Venues = {21}
  Windows <- ThreeWindows
  Buffers <- NoBuffers
  Periods <- OnePeriod
  Requests = {r1, r2}
  Offered = {"create", "approve", "record_period", "end_period", "request_restore",
             "confirm_restore", "confirm_event", "cancel_event", "change_event"}
  Nothing = Nothing
SPECIFICATION RearrangedSpec
INVARIANT NoTwinVenues
INVARIANT PeriodsMark
INVARIANT ConfirmedVenuesStand
PROPERTY ApprovedWhileBookable
SYMMETRY RequestSymmetry
