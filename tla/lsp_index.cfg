SPECIFICATION Spec
CONSTANTS
  spec = spec
  goal = goal
  links = links
  more = more
  i1 = i1
  i2 = i2
  t1 = t1
  t2 = t2
  s1 = s1
  KgnFiles = {spec, goal}
  KgeFiles = {links, more}
  Ids = {i1, i2}
  Slugs = {s1}
  Slug <- MCSlug
  EdgeTexts = {t1, t2}
  EdgesIn <- MCEdgesIn
  Missing = Missing
  Garbled = Garbled
  Undecodable = Undecodable
  NoPath = NoPath
  NoId = NoId
  MaxMoves = 2
INVARIANTS IndexCurrent NamesResolve ReferencesFound
CONSTRAINT TwoFiles
SYMMETRY MCSymmetry
CHECK_DEADLOCK FALSE
