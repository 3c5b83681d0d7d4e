CONSTANTS
  r1 = r1
  r2 = r2
  projector = projector
  l1 = l1
  l2 = l2
  concert = concert
  lecture = lecture
  Lines = {l1, l2}
  Events = {concert, lecture}
  Types = {projector}
  Staff = {31}
  Spans <- TheSpans
  Quantities = {1, 2}
  Stock <- TwoProjectors
  Requests = {r1, r2}
  Offered = {"create", "edit", "remove", "check", "review", "reserve", "release",
             "assign", "unassign", "change_dates", "confirm", "prepare", "cancel"}
  Nothing = Nothing
SPECIFICATION FollowedSpec
INVARIANT TypeOK
INVARIANT StockSuffices
INVARIANT ReservationsStand
INVARIANT ChecksStillApply
INVARIANT NoAssignmentOverlaps
PROPERTY ConfirmedAsArranged
SYMMETRY Symmetry
CHECK_DEADLOCK FALSE
