\* Leases, locks and time: an admin and a worker poll, nobody is obliged to report.
SPECIFICATION FairSpec
CONSTANTS
  n1 = n1
  n2 = n2
  a1 = a1
  a2 = a2
  Nodes = {n1, n2}
  TaskNodes = {n1, n2}
  HashedNodes = {}
  EdgeChoices <- NoEdges
  Agents = {a1, a2}
  NoAgent = NoAgent
  NoNode = NoNode
  RoleOf <- AdminAndWorker
  RoleTags <- WorkerTags
  Batches = {}
  MaxRows = 2
  Priorities = {1, 2}
  MaxAttempts = 2
  Leases = {0}
  McpLease = 1
  MaxTime = 3
INVARIANTS TypeOK OutcomeCredited LockBackedByLease
PROPERTIES LeaseHonoured KeepsLifecycle ExpiredRowRecovered ReadyRowServed
CHECK_DEADLOCK FALSE
