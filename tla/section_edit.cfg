\* One request at a time edits under leases, another saves, reviews or assigns.
SPECIFICATION Spec
VIEW View
CONSTANTS
  u1 = u1  u2 = u2  q1 = q1  q2 = q2
  NoUser = NoUser  NoRequest = NoRequest
  Users = {u1, u2}
  Admins = {}
  Requests = {q1, q2}
  Ops <- MixedOps
  TTL = 2
  MaxRevision = 1
  MaxLeases = 2
  MaxAge = 1
SYMMETRY Symmetry
INVARIANTS RevisionChain NoForeignHolder
PROPERTIES SubmitHandsOver
