\* A parse that is triggered while the callback of an earlier one has read that none is
\* live and has not yet restored the document.
SPECIFICATION DocumentSpec
CONSTANTS
  Runners = {r1, r2}
  Clients = {c1}
  None = None
  MaxJobs = 2
  MaxTasks = 3
  MaxProfile = 2
SYMMETRY Symmetry
CHECK_DEADLOCK FALSE
PROPERTIES RestoredOnlyIfIdle
