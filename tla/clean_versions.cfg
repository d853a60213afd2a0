\* Merges and final reviews of one document in any order, with failures and deaths.
SPECIFICATION Spec
CONSTANTS
  q1 = q1  q2 = q2
  s1 = s1  s2 = s2
  k1 = k1  k2 = k2  k3 = k3
  NoRequest = NoRequest
  Sections = {s1, s2}
  Requests = {q1, q2}
  Keys = {k1, k2, k3}
  MaxRevision = 1
  MaxObjects = 3
SYMMETRY Symmetry
INVARIANTS EveryTextStored
PROPERTIES ActiveAdvances MergedFromCurrent
