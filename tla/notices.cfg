CONSTANTS
  o = o
  c1 = c1
  c2 = c2
  c3 = c3
  l = l
  v = v
  t = t
  a = a
  r1 = r1
  r2 = r2
  r3 = r3
  Users <- People
  RolesOf <- Works
  Active <- ActivePeople
  Organiser = o
  Requests = {r1, r2, r3}
  Offered <- Mix
  Seats = 1
  MaxMishaps = 1
  Nobody = Nobody
SPECIFICATION MixedSpec
INVARIANT TypeOK
INVARIANT CancellationReachesEveryone
INVARIANT DecidersKnow
INVARIANT NoFalseNotice
CHECK_DEADLOCK FALSE
