SPECIFICATION Spec
CONSTANTS
  alice = alice
  bob = bob
  Agents = {alice, bob}
  NoAgent = NoAgent
  NoRow = 0
  Rows = {1, 2, 3, 4}
  Prereqs <- Ladder
  HashedNodes = {}
  Calls = {"checkout", "complete", "fail", "enqueue"}
  MaxAttempts = 2
  Duration = 0
  MaxTime = 1
SYMMETRY AgentSymmetry
INVARIANTS HandedOutOnce OutcomeRecordedOnce WaitsAreKnown DeadlocksAreKnown
PROPERTIES LeaseHonoured UnblockedWhenDone KeepsLifecycle
CHECK_DEADLOCK FALSE
