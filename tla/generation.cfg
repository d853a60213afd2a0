\* Two chunks, two runners; two batches: a batch and its retry, or a later request.
SPECIFICATION Spec
CONSTANTS
  Chunks = {c1, c2}
  Runners = {r1, r2}
  Requests = {q1}
  Parent = parent
  MaxBatches = 2
  MaxRuns = 3
SYMMETRY Symmetry
CHECK_DEADLOCK FALSE
INVARIANTS TypeOK OncePerChain CompletedIsWhole SummaryLists
PROPERTIES NothingAfterCancel
