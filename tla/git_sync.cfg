SPECIFICATION Spec
CONSTANTS
  a = a
  b = b
  node = node
  edge = edge
  Sites = {a, b}
  Founder = a
  Items = {node, edge}
  Edges = {edge}
  Unwritable = {}
  MaxTexts = 4
  MaxCommits = 4
INVARIANTS PushRecordsExport
PROPERTIES TakesBackOnlyUnread ImportKeepsCommitted
CHECK_DEADLOCK FALSE
