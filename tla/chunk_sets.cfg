\* Triggers one at a time, two runners, one retry, and clean versions accepted meanwhile.
SPECIFICATION Spec
CONSTANTS
  r1 = r1  r2 = r2  q1 = q1
  k1 = k1  k2 = k2
  Runners = {r1, r2}
  Requests = {q1}
  Keys = {k1, k2}
  Asks <- SomeAsks
  MaxAttempts = 2
  MaxVersions = 2
  MaxSets = 2
  MaxTasks = 3
SYMMETRY Symmetry
INVARIANTS TaskAndSetAgree
PROPERTIES PublishedFromActive
