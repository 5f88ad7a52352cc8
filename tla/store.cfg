\* Two clients ingest three texts and resolve conflicts, overlapping or not.
SPECIFICATION Spec
CONSTANTS
  n1 = n1
  n2 = n2
  n3 = n3
  t1 = t1
  t2 = t2
  new = new
  alice = alice
  bob = bob
  rita = rita
  Connections = {c1, c2}
  NoConnection = NoConnection
  Nodes = {n1, n2, n3}
  Generated = {n2, n3}
  Texts = {t1, t2, new}
  IdOf <- Ids
  New = New
  AuthorOf <- AuthorsOfTexts
  Merges = {merge}
  None = None
  Reviewers = {rita}
  MaxWrites = 4
SYMMETRY ConnectionSymmetry
INVARIANTS HistoryReplays OneVersionPerUpdate
CHECK_DEADLOCK FALSE
