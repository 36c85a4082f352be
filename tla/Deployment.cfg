CONSTANTS
  Paths = {p1, p2}
  NoPath = NoPath
  NoId = NoId
  Refused = {p2}
  MaxId = 2
  MaxFailures = 1
  MaxEdits = 1
SPECIFICATION FairSpec
INVARIANTS ReportsAreTrue KeepsTheRest LeftoversAreReported NoDuplicatesYet
PROPERTY DeploysInTheEnd
