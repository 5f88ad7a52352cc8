SPECIFICATION FairSpec
CONSTANTS
  a = a
  b = b
  s = s
  g1 = g1
  g2 = g2
  g3 = g3
  F1 = F1
  F2 = F2
  E1 = E1
  Named <- MCNamed
  Slugs <- MCSlugs
  Generated <- MCGenerated
  Malformed = Malformed
  KgnOrder <- MCKgnOrder
  KgeOrder <- MCKgeOrder
  Texts <- MCTexts
  EdgeTexts <- MCEdgeTexts
  Missing = Missing
  Undecodable = Undecodable
  None = None
  BatchSize = 2
  MaxRetries = 3
  FirstDisks <- MCFirstDisks
  Bodies = {1, 2}
  MaxWrites = 1
  MaxCalls = 3

PROPERTY EmbedFailureHarmless
CHECK_DEADLOCK FALSE
