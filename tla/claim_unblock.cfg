SPECIFICATION Spec
CONSTANTS
  alice = alice
  bob = bob
  Agents = {alice, bob}
  NoAgent = NoAgent
  NoRow = 0
  Rows = {1, 2, 3}
  Prereqs <- Join
  HashedNodes = {}
  Calls = {"checkout", "complete", "enqueue"}
  MaxAttempts = 1
  Duration = 1
  MaxTime = 0
INVARIANTS AutoUnblocked
CHECK_DEADLOCK FALSE
