\* A save in one tab and a submission in another under the same lease.
SPECIFICATION Spec
CONSTANTS
  u1 = u1  u2 = u2  q1 = q1  q2 = q2
  NoUser = NoUser  NoRequest = NoRequest
  Users = {u1, u2}
  Admins = {u1}
  Requests = {q1, q2}
  Ops <- SubmitOps
  TTL = 1
  MaxRevision = 1
  MaxLeases = 1
  MaxAge = 0
SYMMETRY Symmetry
INVARIANTS SubmitSeesRevision
