\* Two items and two datasets, or one dataset and one export, under any writer, with migrations
\* up and down.
SPECIFICATION SchemaSpec
CONSTANTS
  i1 = i1  i2 = i2  c1 = c1  c2 = c2  e1 = e1
  a = a  b = b  o1 = o1  o2 = o2
  Null = Null
  Items = {i1, i2}
  Containers = {c1, c2}
  Exports = {e1}
  Contents = {a, b}
  Objects = {o1, o2}
  MaxRevisions = 2
  MaxReviews = 1
  MaxSnapshots = 1
  MaxSeals = 1
CONSTRAINT Apart
SYMMETRY Symmetry
INVARIANTS ApprovedIsBound MembersPinned CompletedIsSealed
PROPERTIES FactsSurvive
