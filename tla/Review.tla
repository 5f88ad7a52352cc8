------------------------------- MODULE Review -------------------------------
(***************************************************************************)
(* Contradictions between nodes: the scan that lists similar pairs, and    *)
(* the calls that decide on a pair by writing the status of its            *)
(* CONTRADICTS edge.  The edges are unique by direction, and a decision    *)
(* first looks for one in either.  Each call is one transaction of several *)
(* statements under READ COMMITTED, as in NodeStore; an edge is never      *)
(* deleted, and <<from, to>> stands for its id.                            *)
(***************************************************************************)
EXTENDS Naturals, FiniteSets

CONSTANTS
  Connections,  \* clients, each with one call at a time
  NoConnection,
  Nodes,        \* nodes of the types that are scanned
  Issues,       \* ISSUE nodes, each created by the review that also links it
  MaxCalls      \* bound: calls that are begun

ASSUME ReviewAssumption == /\ NoConnection \notin Connections
                           /\ Nodes \cap Issues = {}
                           /\ MaxCalls \in Nat

VARIABLES
  status,   \* edges: the committed status of each, or "none"
  draft,    \* the newest status, committed or not
  owner,    \* the connection that wrote the draft and holds the row or key
  pc,       \* the next statement of each connection's transaction
  call,     \* what the call is about, and what it has found so far
  calls,    \* number of calls begun
  verdict,  \* history variable: what the last call decided on each pair
  loose     \* history variable: pairs that overlapping calls or imported edges touched

dbVars == <<status, draft, owner>>
vars == <<dbVars, pc, call, calls, verdict, loose>>

Keys == {k \in (Nodes \cup Issues) \X (Nodes \cup Issues) : k[1] # k[2]}
PairOf(k) == {k[1], k[2]}
Pairs == {PairOf(k) : k \in Keys}
Statuses == {"PENDING", "APPROVED", "DISMISSED"}
Decisions == {"APPROVED", "DISMISSED"}

\* The two directions of a pair, in which find_contradicts_edge looks.
Edges(p) == {k \in Keys : PairOf(k) = p}

Idle == [kind |-> "none", status |-> "none", pairs |-> {}, key |-> <<>>, edges |-> {},
         nodes |-> {}, similar |-> {}, todo |-> {}, listed |-> {}, before |-> {}, contested |-> FALSE]

View(c, k) == IF owner[k] = c THEN draft[k] ELSE status[k]

\* Mutant of Visible: only one direction of a pair is looked at.
VisibleForward(c, p) == {k \in {CHOOSE e \in Edges(p) : TRUE} : View(c, k) # "none"}

Visible(c, p) == {k \in Edges(p) : View(c, k) # "none"}
Unlocked(c, k) == owner[k] \in {NoConnection, c}
Write(c, k, s) == /\ draft' = [draft EXCEPT ![k] = s]
                  /\ owner' = [owner EXCEPT ![k] = c]

GoTo(c, label) == pc' = [pc EXCEPT ![c] = label]
Learn(c, new) == call' = [call EXCEPT ![c] = new]

-----------------------------------------------------------------------------
(***************************************************************************)
(* Beginning and end of a transaction.                                     *)
(***************************************************************************)
\* Two calls that change edges of one pair overlap: that is noted for both.
Begin(c, new, label) ==
  LET rivals == {d \in Connections : pc[d] # "idle" /\ call[d].pairs \cap new.pairs # {}}
  IN /\ pc[c] = "idle"
     /\ calls < MaxCalls
     /\ calls' = calls + 1
     /\ GoTo(c, label)
     /\ call' = [d \in Connections |->
                   IF d = c THEN [new EXCEPT !.contested = rivals # {}]
                   ELSE [call[d] EXCEPT !.contested = @ \/ d \in rivals]]
     /\ UNCHANGED <<dbVars, verdict, loose>>

\* An ISSUE can be named once its review, and with it its edge, is committed.
Known(p) == \A i \in p \cap Issues : \E k \in Keys : k[1] = i /\ status[k] # "none"

\* approve and dismiss, with the nodes in either order.
BeginDecide(c, k, s) ==
  /\ Known(PairOf(k))
  /\ Begin(c, [Idle EXCEPT !.kind = "decide", !.status = s, !.pairs = {PairOf(k)}, !.key = k], "find")

\* An edge of a .kge file: its status is the column's default.
BeginIngest(c, k) ==
  /\ Known(PairOf(k))
  /\ Begin(c, [Idle EXCEPT !.kind = "ingest", !.status = "APPROVED", !.pairs = {PairOf(k)}, !.key = k], "insert")

\* create_review_task: the ISSUE is new.
BeginReview(c, i, n) ==
  /\ \A k \in Keys : k[1] = i => draft[k] = "none"
  /\ \A d \in Connections : call[d].key # <<>> => i \notin PairOf(call[d].key)
  /\ Begin(c, [Idle EXCEPT !.kind = "ingest", !.status = "PENDING", !.pairs = {{i, n}}, !.key = <<i, n>>], "insert")

\* resolve, as far as it concerns edges: of those that touch the node.
BeginResolve(c, n) ==
  Begin(c, [Idle EXCEPT !.kind = "resolve", !.status = "APPROVED", !.pairs = {p \in Pairs : n \in p}, !.nodes = {n}], "list")

\* scan: the pairs of embedded nodes that are similar enough; ISSUEs are not
\* scanned.  The history field before keeps the pairs that are decided on.
BeginScan(c, similar) ==
  /\ \A p \in similar : p \subseteq Nodes
  /\ Begin(c, [Idle EXCEPT !.kind = "scan", !.similar = similar, !.todo = similar,
                           !.before = {p \in Pairs : \E k \in Edges(p) : status[k] \in Decisions}], "compare")

Forget(c) == /\ GoTo(c, "idle")
             /\ Learn(c, Idle)
             /\ owner' = [k \in Keys |-> IF owner[k] = c THEN NoConnection ELSE owner[k]]

Commit(c) ==
  LET lost == call[c].contested /\ \A k \in Keys : owner[k] # c
      decided == IF call[c].kind = "ingest" \/ lost THEN {} ELSE {PairOf(k) : k \in call[c].edges}
  IN /\ pc[c] = "commit"
     /\ status' = [k \in Keys |-> View(c, k)]
     /\ verdict' = [p \in Pairs |-> IF p \in decided THEN call[c].status ELSE verdict[p]]
     /\ loose' = IF call[c].contested \/ call[c].kind = "ingest" THEN loose \cup call[c].pairs ELSE loose
     /\ Forget(c)
     /\ UNCHANGED <<draft, calls>>

\* An error ends the call and rolls everything back.
Abort(c) == /\ pc[c] # "idle"
            /\ draft' = [k \in Keys |-> IF owner[k] = c THEN status[k] ELSE draft[k]]
            /\ Forget(c)
            /\ UNCHANGED <<status, calls, verdict, loose>>

-----------------------------------------------------------------------------
(***************************************************************************)
(* The statements.                                                         *)
(***************************************************************************)
\* Mutant of Find: an edge in the other direction is not seen.
FindOneWay(c) ==
  LET k == call[c].key
  IN /\ pc[c] = "find"
     /\ IF View(c, k) = "none"
        THEN GoTo(c, "insert") /\ UNCHANGED call
        ELSE GoTo(c, "update") /\ Learn(c, [call[c] EXCEPT !.edges = {k}])
     /\ UNCHANGED <<dbVars, calls, verdict, loose>>

\* find_contradicts_edge returns one of the edges it finds.
Find(c) ==
  LET existing == Visible(c, PairOf(call[c].key))
  IN /\ pc[c] = "find"
     /\ \/ existing = {} /\ GoTo(c, "insert") /\ UNCHANGED call
        \/ \E k \in existing : GoTo(c, "update") /\ Learn(c, [call[c] EXCEPT !.edges = {k}])
     /\ UNCHANGED <<dbVars, calls, verdict, loose>>

\* ON CONFLICT DO NOTHING, and the id of the row that is there.
Insert(c) ==
  LET k == call[c].key
  IN /\ pc[c] = "insert"
     /\ Unlocked(c, k)
     /\ IF draft[k] = "none" THEN Write(c, k, call[c].status) ELSE UNCHANGED <<draft, owner>>
     /\ GoTo(c, "commit")
     /\ Learn(c, [call[c] EXCEPT !.edges = {k}])
     /\ UNCHANGED <<status, calls, verdict, loose>>

\* Mutant of Update: only a PENDING edge is updated.
UpdatePending(c) ==
  /\ pc[c] = "update"
  /\ \E k \in call[c].edges : /\ Unlocked(c, k)
                              /\ IF draft[k] = "PENDING" THEN Write(c, k, call[c].status)
                                                         ELSE UNCHANGED <<draft, owner>>
  /\ GoTo(c, "commit")
  /\ UNCHANGED <<status, call, calls, verdict, loose>>

\* By id, whatever the status has become meanwhile.
Update(c) ==
  /\ pc[c] = "update"
  /\ \E k \in call[c].edges : Unlocked(c, k) /\ Write(c, k, call[c].status)
  /\ GoTo(c, "commit")
  /\ UNCHANGED <<status, call, calls, verdict, loose>>

\* _approve_pending_contradicts: lists the PENDING edges, then updates each.
ListPending(c) ==
  LET pending == {k \in Keys : call[c].nodes \subseteq PairOf(k) /\ View(c, k) = "PENDING"}
  IN /\ pc[c] = "list"
     /\ GoTo(c, IF pending = {} THEN "commit" ELSE "approve")
     /\ Learn(c, [call[c] EXCEPT !.todo = pending])
     /\ UNCHANGED <<dbVars, calls, verdict, loose>>

ApprovePending(c, k) ==
  /\ pc[c] = "approve"
  /\ k \in call[c].todo
  /\ Unlocked(c, k)
  /\ Write(c, k, "APPROVED")
  /\ GoTo(c, IF call[c].todo = {k} THEN "commit" ELSE "approve")
  /\ Learn(c, [call[c] EXCEPT !.todo = @ \ {k}, !.edges = @ \cup {k}])
  /\ UNCHANGED <<status, calls, verdict, loose>>

\* One pair of the scan: it is skipped when the edge that is found is decided.
Compare(c, p) ==
  LET existing == Visible(c, p)
  IN /\ pc[c] = "compare"
     /\ p \in call[c].todo
     /\ \/ existing = {} /\ Learn(c, [call[c] EXCEPT !.todo = @ \ {p}, !.listed = @ \cup {p}])
        \/ \E k \in existing :
             IF View(c, k) \in Decisions
             THEN Learn(c, [call[c] EXCEPT !.todo = @ \ {p}])
             ELSE Learn(c, [call[c] EXCEPT !.todo = @ \ {p}, !.listed = @ \cup {p}])
     /\ UNCHANGED <<dbVars, pc, calls, verdict, loose>>

ScanEnd(c) == /\ pc[c] = "compare"
              /\ call[c].todo = {}
              /\ GoTo(c, "commit")
              /\ UNCHANGED <<dbVars, call, calls, verdict, loose>>

Init == /\ status = [k \in Keys |-> "none"]
        /\ draft = status
        /\ owner = [k \in Keys |-> NoConnection]
        /\ pc = [c \in Connections |-> "idle"]
        /\ call = [c \in Connections |-> Idle]
        /\ calls = 0
        /\ verdict = [p \in Pairs |-> "none"]
        /\ loose = {}

Next == \E c \in Connections :
  \/ \E k \in Keys, s \in Decisions : BeginDecide(c, k, s)
  \/ \E k \in Keys : BeginIngest(c, k) \/ ApprovePending(c, k)
  \/ \E i \in Issues, n \in Nodes : BeginReview(c, i, n)
  \/ \E n \in Nodes : BeginResolve(c, n)
  \/ \E similar \in SUBSET Pairs : BeginScan(c, similar)
  \/ Find(c) \/ Insert(c) \/ Update(c) \/ ListPending(c) \/ ScanEnd(c)
  \/ \E p \in Pairs : Compare(c, p)
  \/ Commit(c) \/ Abort(c)

Spec == Init /\ [][Next]_vars

-----------------------------------------------------------------------------
(***************************************************************************)
(* Properties.                                                             *)
(***************************************************************************)
\* Edges have a status, and what differs from the committed one is held by the
\* transaction that wrote it, which is still open.
TypeOK == /\ status \in [Keys -> Statuses \cup {"none"}]
          /\ draft \in [Keys -> Statuses \cup {"none"}]
          /\ owner \in [Keys -> Connections \cup {NoConnection}]
          /\ \A k \in Keys : IF owner[k] = NoConnection THEN draft[k] = status[k] ELSE pc[owner[k]] # "idle"
          /\ verdict \in [Pairs -> Decisions \cup {"none"}]
          /\ loose \subseteq Pairs

\* A pair gets a second edge, which contradictory decisions could then be
\* written to, only from overlapping calls or from an import.
OneEdgePerPair ==
  \A p \in Pairs \ loose : Cardinality({k \in Edges(p) : status[k] # "none"}) <= 1

\* The last decision on a pair stays on record: imports do not undo it, nor do
\* overlapping calls that update the edge.  A decision is only lost (and yet
\* reported) when an overlapping call has inserted the pair's first edge.
DecisionRecorded ==
  \A p \in Pairs : verdict[p] \in Decisions => \E k \in Edges(p) : status[k] = verdict[p]

\* A scan brackets what happens while it runs: it lists no pair that was
\* decided on before it began, in either direction, and misses no similar pair
\* that has no edge when it ends.
ScanIsRight ==
  \A c \in Connections : call[c].kind = "scan" /\ pc[c] = "commit" =>
    /\ call[c].listed \cap call[c].before = {}
    /\ \A p \in call[c].similar : (\A k \in Edges(p) : status[k] = "none") => p \in call[c].listed
=============================================================================
