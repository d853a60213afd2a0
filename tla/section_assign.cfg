\* An assignment that read the section before an editor started.
SPECIFICATION Spec
CONSTANTS
  u1 = u1  u2 = u2  q1 = q1  q2 = q2
  NoUser = NoUser  NoRequest = NoRequest
  Users = {u1, u2}
  Admins = {u1}
  Requests = {q1, q2}
  Ops <- AssignOps
  TTL = 1
  MaxRevision = 1
  MaxLeases = 1
  MaxAge = 0
SYMMETRY Symmetry
PROPERTIES AssignKeepsProgress
