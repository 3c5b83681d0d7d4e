CONSTANTS
  r1 = r1
  r2 = r2
  Bookings = {1}
  Events = {11}
  Venues = {21}
  Windows <- OneWindow
  Buffers <- NoBuffers
  Periods <- NoPeriods
  Requests = {r1, r2}
  Offered = {"create", "approve", "cancel_event"}
  Nothing = Nothing
SPECIFICATION Spec
INVARIANT NoDeadlock
SYMMETRY RequestSymmetry
