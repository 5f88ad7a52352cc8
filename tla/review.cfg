\* Two specs and an issue; two clients that decide, import, resolve and scan.
SPECIFICATION Spec
CONSTANTS
  Connections = {c1, c2}
  NoConnection = NoConnection
  Nodes = {a, b}
  Issues = {i}
  MaxCalls = 5
SYMMETRY Symmetry
INVARIANTS OneEdgePerPair DecisionRecorded ScanIsRight
CHECK_DEADLOCK FALSE
