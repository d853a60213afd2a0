\* Two runners, two jobs of either kind and one retry, one deletion in flight.
SPECIFICATION DocumentSpec
CONSTANTS
  Runners = {r1, r2}
  Clients = {c1}
  None = None
  MaxJobs = 2
  MaxTasks = 3
  MaxProfile = 2
SYMMETRY Symmetry
VIEW View
CHECK_DEADLOCK FALSE
INVARIANTS DocumentTypeOK RowsHaveObjects JobFollowsTask CleanedFromCompleted
