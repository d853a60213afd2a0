\* One connection whose endpoint fails.
SPECIFICATION Spec
CONSTANTS
  s1 = s1  s2 = s2  s3 = s3  u1 = u1  u2 = u2
  None = None
  Sockets = {s1}
  Users = {u1}
  MaxFailures = 1
  MaxEvents = 1
CHECK_DEADLOCK FALSE
INVARIANTS SubscriptionEnds
