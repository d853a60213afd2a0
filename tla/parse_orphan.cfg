\* Two equal parse requests at the same time.
SPECIFICATION RequestSpec
CONSTANTS
  r1 = r1  r2 = r2
  a = a
  c1 = c1  c2 = c2
  Endpoints = {"parse"}
  Requests = {r1, r2}
  Parts = {a}
  Keys <- OneKey
  Contents = {c1, c2}
  Asks <- OneAsk
  MaxJobs = 2
SYMMETRY Symmetry
INVARIANTS EveryJobHasItsTask
