\* Two candidates of one container and two requests at a time: a third approval, so
\* that one of two pinned approvals can be withdrawn and given again.
SPECIFICATION Spec
CONSTANTS
  Candidates = {c1, c2}
  Requests = {q1, q2}
  None = None
  MaxRevision = 2
  MaxRecords = 3
  MaxCompositions = 2
SYMMETRY Symmetry
CHECK_DEADLOCK FALSE
INVARIANTS TypeOK PromotedAsReviewed ApprovalsBind FinalizedAsConfirmed FinalizedWereApproved
