\* Three runners, so that two late attempts may meet the current one; one retry,
\* two edits of the source, and room for an object uploaded twice.
SPECIFICATION Spec
CONSTANTS
  Runners = {r1, r2, r3}
  None = None
  MaxTasks = 2
  MaxSource = 3
  MaxObjects = 4
SYMMETRY Symmetry
CHECK_DEADLOCK FALSE
INVARIANTS CompletedVerifies ExportFollowsTask
PROPERTIES FrozenSpec
