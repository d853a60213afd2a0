\* Three connections of two users, of whom each may be removed, and three events.
SPECIFICATION Spec
CONSTANTS
  s1 = s1  s2 = s2  s3 = s3  u1 = u1  u2 = u2
  None = None
  Sockets = {s1, s2, s3}
  Users = {u1, u2}
  MaxFailures = 1
  MaxEvents = 3
SYMMETRY Symmetry
VIEW View
CHECK_DEADLOCK FALSE
INVARIANTS NothingAfterRemoval InSequence SubscriptionMatches
