\* A child that ends while its batch is being cancelled.
SPECIFICATION Spec
CONSTANTS
  Chunks = {c1, c2}
  Runners = {r1, r2}
  Requests = {q1}
  Parent = parent
  MaxBatches = 2
  MaxRuns = 3
SYMMETRY Symmetry
CHECK_DEADLOCK FALSE
INVARIANTS CancelledIsSummarised
