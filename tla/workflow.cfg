\* Two templates at once, whose nodes may be enqueued again; a join between them.
SPECIFICATION WorkingSpec
CONSTANTS
  w = w
  ad = ad
  Runs = {1, 2}
  TemplateOf <- MCTemplateOf
  Triggers <- MCTriggers
  Nodes <- MCNodes
  TaskNodes <- MCTaskNodes
  HashedNodes = {}
  EdgeChoices <- MCEdgeChoices
  Agents = {w, ad}
  NoAgent = NoAgent
  NoNode = NoNode
  RoleOf <- MCRoleOf
  RoleTags <- MCRoleTags
  Batches <- MCBatches
  MaxRows = 5
  Priorities = {1}
  MaxAttempts = 1
  Leases = {}
  McpLease = 1
  MaxTime = 0
INVARIANTS BlockedIsWaiting StepsInOrder ContextReachesNextStep
PROPERTIES RunsToEnd
CHECK_DEADLOCK FALSE
