\* Alice, Bob and Alice again update one node, one after the other.
SPECIFICATION Spec
CONSTANTS
  n1 = n1
  n2 = n2
  n3 = n3
  t1 = t1
  t2 = t2
  new = new
  alice = alice
  bob = bob
  rita = rita
  Connections = {c1, c2}
  NoConnection = NoConnection
  Nodes = {n1, n2, n3}
  Generated = {n2, n3}
  Texts = {t1, t2, new}
  IdOf <- IdsOfOneNode
  New = New
  AuthorOf <- AuthorsOfTexts
  Merges = {merge}
  None = None
  Reviewers = {rita}
  MaxWrites = 4
SYMMETRY ConnectionSymmetry
INVARIANTS ReviewedWhenAgentChanges
CHECK_DEADLOCK FALSE
