SPECIFICATION Spec
CONSTANTS
  s1 = s1
  s2 = s2
  p1 = p1
  p2 = p2
  Steps = {s1, s2}
  Contents <- MCContents
  Actors = {p1, p2}
  Authorizations = {a1}
  Calls = {c1}
  Leases = {l1}
  Deliveries = {d1}
  Null = Null
  AuthorizationTime = 1
  LeaseTime = 1
  MaxDelay = 1
  Skew = 1
  MaxPlan = 1
  MaxVersion = 2
  MaxTime = 3
SYMMETRY Symmetry
CHECK_DEADLOCK FALSE
INVARIANTS SchedulingStops AuthorizationsRunOut WorkIsApproved AcceptedOnce
