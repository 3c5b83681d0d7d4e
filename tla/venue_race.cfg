CONSTANTS
  r1 = r1
  r2 = r2
  Bookings = {1, 2}
  Events = {11, 12}
  Venues = {21}
  Windows <- TwoWindows
  Buffers <- SomeBuffers
  Periods <- NoPeriods
  Requests = {r1, r2}
  Offered = {"create", "place_hold", "confirm_hold", "make_primary", "withdraw", "approve", "edit_buffers"}
  Nothing = Nothing
SPECIFICATION RaceSpec
INVARIANT TypeOK
INVARIANT NoDoubleBooking
INVARIANT WindowsCurrent
PROPERTY ImplementsCalendar
INVARIANT OnePrimary
SYMMETRY RequestSymmetry
