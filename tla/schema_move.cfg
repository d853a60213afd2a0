\* Two datasets and their members under any writer: does a finalized one keep its members?
SPECIFICATION SchemaSpec
CONSTANTS
  i1 = i1  i2 = i2  c1 = c1  c2 = c2  e1 = e1
  a = a  b = b  o1 = o1  o2 = o2
  Null = Null
  Items = {i1, i2}
  Containers = {c1, c2}
  Exports = {}
  Contents = {a, b}
  Objects = {}
  MaxRevisions = 2
  MaxReviews = 1
  MaxSnapshots = 0
  MaxSeals = 0
SYMMETRY Symmetry
INVARIANTS CompositionFrozen
