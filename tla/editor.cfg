\* Every directed graph of three nodes, every depth, one edge inserted on the
\* way; or five diagnostics tasks over three texts.
SPECIFICATION EditorSpec
CONSTANTS
  Nodes = {n1, n2, n3}
  MAX_SUBGRAPH_DEPTH = 2
  Depths = {0, 1, 3}
  MaxInserts = 1
  MaxTasks = 5
  MaxTexts = 3
INVARIANTS AnswerIsRight FoundWithinDepth DrawnConnected EditorViewAgrees PendingIsLive
PROPERTIES NewestDiagnosed
CHECK_DEADLOCK FALSE
