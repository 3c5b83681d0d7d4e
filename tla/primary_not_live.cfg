CONSTANTS
  r1 = r1
  r2 = r2
  Bookings = {1, 2}
  Events = {11}
  Venues = {21}
  Windows <- TwoWindows
  Buffers <- NoBuffers
  Periods <- NoPeriods
  Requests = {r1, r2}
  Offered = {"create", "make_primary", "withdraw"}
  Nothing = Nothing
SPECIFICATION Spec
PROPERTY PrimaryIsLive
SYMMETRY RequestSymmetry
