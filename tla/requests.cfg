\* Two requests at a time with one key and two contents, or without the key.
SPECIFICATION RequestSpec
CONSTANTS
  r1 = r1  r2 = r2
  a = a
  c1 = c1  c2 = c2
  Endpoints = {"parse", "clean", "export"}
  Requests = {r1, r2}
  Parts = {a}
  Keys <- TwoKeys
  Contents = {c1, c2}
  Asks <- ReusedKey
  MaxJobs = 3
SYMMETRY Symmetry
VIEW View
INVARIANTS OneTaskButForExports OneWorkbenchButForRetries
