CONSTANTS
  Paths = {p1, p2}
  NoPath = NoPath
  NoId = NoId
  Refused = {}
  MaxId = 2
  MaxFailures = 1
  MaxEdits = 0
SPECIFICATION Spec
INVARIANT NoDuplicates
