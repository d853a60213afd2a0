\* One cleaning request at a time for one parse result, and a retry.
SPECIFICATION RequestSpec
CONSTANTS
  r1 = r1  r2 = r2
  a = a
  c1 = c1  c2 = c2
  Endpoints = {"clean"}
  Requests = {r1, r2}
  Parts = {a}
  Keys <- OneKey
  Contents = {c1, c2}
  Asks <- NoKeys
  MaxJobs = 2
SYMMETRY Symmetry
INVARIANTS OneWorkbench
