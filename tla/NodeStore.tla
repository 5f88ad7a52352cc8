----------------------------- MODULE NodeStore -----------------------------
(***************************************************************************)
(* Nodes, their version history and the reviews of concurrent edits: the   *)
(* ingest of a .kgn text through upsert_node, the conflict check that      *)
(* follows an update, and the resolution of a conflict.  Each call is one  *)
(* transaction of several statements under READ COMMITTED, as in TaskTxn:  *)
(* a statement sees what is committed and what its own transaction wrote,  *)
(* and a write waits for the transaction that holds the row or key.        *)
(*                                                                         *)
(* A node's content is the text it was ingested from, or the merge a       *)
(* reviewer wrote.  Only texts have a content_hash, which covers the front *)
(* matter, so equal hash, equal text, and equal author.                    *)
(***************************************************************************)
EXTENDS Naturals, Sequences, FiniteSets

CONSTANTS
  Connections,  \* clients, each with one call at a time
  NoConnection,
  Nodes,        \* node ids
  Generated,    \* those of them that uuid4 generates
  Texts,        \* .kgn texts
  IdOf,         \* the id in the front matter of each text, or New
  New,          \* "new:<slug>": the id is generated when the text is ingested
  AuthorOf,     \* the agent_id in the front matter of each text
  Merges,       \* bodies that a reviewer may merge to: they have no hash
  None,         \* no content: the node does not exist
  Reviewers,    \* agents that resolve conflicts
  MaxWrites     \* bound: no call begins after as many writes

Authors == {AuthorOf[t] : t \in Texts} \cup Reviewers
Contents == Texts \cup Merges

ASSUME StoreAssumption == /\ NoConnection \notin Connections
                          /\ New \notin Nodes
                          /\ Generated \subseteq Nodes
                          /\ IdOf \in [Texts -> Nodes \cup {New}]
                          /\ DOMAIN AuthorOf = Texts
                          /\ None \notin Contents
                          /\ Texts \cap Merges = {}
                          /\ MaxWrites \in Nat

VARIABLES
  content,     \* nodes: the committed content of each node
  created_by,  \* nodes: the author of its first text, never updated
  draft,       \* the newest content, committed or not
  owner,       \* the connection that wrote the draft and holds the row
  versions,    \* node_versions, committed: [node, version, content, updated_by]
  saved,       \* the version rows that each open transaction has inserted
  issues,      \* review tasks, committed: [node, version, previous, current]
  raised,      \* those that each open transaction has inserted
  approved,    \* the issues whose CONTRADICTS edge is APPROVED
  pc,          \* the next statement of each connection's transaction
  call,        \* what the call is about and what it has read so far
  written,     \* history variable: <<content, author, kind>> of each committed write
  overlapped   \* history variable: the pairs of nodes, a node with itself among
               \* them, that two calls were about at the same time

rowVars == <<content, created_by, draft, owner>>
vars == <<rowVars, versions, saved, issues, raised, approved, pc, call, written, overlapped>>

Idle == [kind |-> "none", node |-> New, content |-> None, author |-> None,
         old |-> None, version |-> 0, reviews |-> {}]

\* What a statement of c's transaction sees.
View(c, n) == IF owner[n] = c THEN draft[n] ELSE content[n]
VersionsSeen(c, n) == {v \in versions \cup saved[c] : v.node = n}
Latest(S) == CHOOSE v \in S : \A w \in S : w.version <= v.version

\* A write by c need not wait for another transaction.
Unlocked(c, n) == owner[n] \in {NoConnection, c}

GoTo(c, label) == pc' = [pc EXCEPT ![c] = label]
Learn(c, new) == call' = [call EXCEPT ![c] = new]

-----------------------------------------------------------------------------
(***************************************************************************)
(* Beginning and end of a transaction.                                     *)
(***************************************************************************)
Begin(c, kind, n, body, author, label) ==
  /\ pc[c] = "idle"
  /\ Cardinality(versions) + Cardinality({m \in Nodes : content[m] # None}) < MaxWrites
  /\ GoTo(c, label)
  /\ Learn(c, [Idle EXCEPT !.kind = kind, !.node = n, !.content = body, !.author = author])
  /\ overlapped' = overlapped \cup {{n, call[d].node} : d \in {e \in Connections : pc[e] # "idle"}}
  /\ UNCHANGED <<rowVars, versions, saved, issues, raised, approved, written>>

\* uuid4 returns an id that nobody has used; it is named in a text only
\* once its node is stored.
Fresh(n) == content[n] = None /\ \A c \in Connections : call[c].node # n

BeginIngest(c, t, n) ==
  /\ \/ IdOf[t] = n /\ (n \in Generated => content[n] # None)
     \/ IdOf[t] = New /\ n \in Generated /\ Fresh(n)
  /\ Begin(c, "ingest", n, t, AuthorOf[t], "duplicate")

BeginAcceptA(c, n, a) == content[n] # None /\ Begin(c, "accept_a", n, None, a, "latest")
BeginAcceptB(c, n, a) == content[n] # None /\ Begin(c, "accept_b", n, None, a, "approve")
BeginMerge(c, n, a) ==
  /\ content[n] # None
  /\ \E b \in Merges : Begin(c, "merge", n, b, a, "existing")

Forget(c) == /\ GoTo(c, "idle")
             /\ Learn(c, Idle)
             /\ saved' = [saved EXCEPT ![c] = {}]
             /\ raised' = [raised EXCEPT ![c] = {}]
             /\ owner' = [n \in Nodes |-> IF owner[n] = c THEN NoConnection ELSE owner[n]]

Commit(c) ==
  LET n == call[c].node
  IN /\ pc[c] = "commit"
     /\ content' = [m \in Nodes |-> View(c, m)]
     /\ versions' = versions \cup saved[c]
     /\ issues' = issues \cup raised[c]
     /\ approved' = approved \cup call[c].reviews
     /\ written' = IF owner[n] = c
                   THEN [written EXCEPT ![n] = Append(@, <<draft[n], call[c].author, call[c].kind>>)]
                   ELSE written
     /\ Forget(c)
     /\ UNCHANGED <<created_by, draft, overlapped>>

\* An error ends the call and rolls everything back.
Rollback(c) ==
  /\ draft' = [n \in Nodes |-> IF owner[n] = c THEN content[n] ELSE draft[n]]
  /\ created_by' = [n \in Nodes |-> IF owner[n] = c /\ content[n] = None
                                    THEN None ELSE created_by[n]]
  /\ Forget(c)
  /\ UNCHANGED <<content, versions, issues, approved, written, overlapped>>

\* The connection is lost or the process dies.
Abort(c) == pc[c] # "idle" /\ Rollback(c)

-----------------------------------------------------------------------------
(***************************************************************************)
(* upsert_node.                                                            *)
(***************************************************************************)
\* Where a call goes on once upsert_node has returned.
AfterUpsert(c) == IF call[c].kind = "ingest" THEN "commit" ELSE "approve"

\* V8: a hash that any node of the project has makes the call a no-op.
FindDuplicate(c) ==
  /\ pc[c] = "duplicate"
  /\ GoTo(c, IF \E m \in Nodes : View(c, m) = call[c].content
             THEN AfterUpsert(c) ELSE "existing")
  /\ UNCHANGED <<rowVars, versions, saved, issues, raised, approved, call, written, overlapped>>

ReadExisting(c) ==
  LET old == View(c, call[c].node)
  IN /\ pc[c] = "existing"
     /\ Learn(c, [call[c] EXCEPT !.old = old])
     /\ GoTo(c, IF old = None THEN "insert" ELSE "number")
     /\ UNCHANGED <<rowVars, versions, saved, issues, raised, approved, written, overlapped>>

NextVersion(c) ==
  LET S == VersionsSeen(c, call[c].node)
  IN /\ pc[c] = "number"
     /\ Learn(c, [call[c] EXCEPT !.version = IF S = {} THEN 1 ELSE Latest(S).version + 1])
     /\ GoTo(c, "save")
     /\ UNCHANGED <<rowVars, versions, saved, issues, raised, approved, written, overlapped>>

SameKey(v, c) == v.node = call[c].node /\ v.version = call[c].version

\* Mutant of SaveVersion: a version number that is taken is left alone.
SaveVersionOrIgnore(c) ==
  LET n == call[c].node
  IN /\ pc[c] = "save"
     /\ \A d \in Connections \ {c} : \A v \in saved[d] : ~SameKey(v, c)
     /\ saved' = IF \E v \in versions : SameKey(v, c) THEN saved
                 ELSE [saved EXCEPT ![c] = @ \cup {[node |-> n, version |-> call[c].version,
                                                    content |-> call[c].old,
                                                    updated_by |-> created_by[n]]}]
     /\ GoTo(c, "update")
     /\ UNCHANGED <<rowVars, versions, issues, raised, approved, call, written, overlapped>>

\* Mutant of SaveVersion: the new content is saved instead of the old one.
SaveNewVersion(c) ==
  LET n == call[c].node
  IN /\ pc[c] = "save"
     /\ \A d \in Connections \ {c} : \A v \in saved[d] : ~SameKey(v, c)
     /\ \A v \in versions : ~SameKey(v, c)
     /\ saved' = [saved EXCEPT ![c] = @ \cup {[node |-> n, version |-> call[c].version,
                                               content |-> call[c].content,
                                               updated_by |-> created_by[n]]}]
     /\ GoTo(c, "update")
     /\ UNCHANGED <<rowVars, versions, issues, raised, approved, call, written, overlapped>>

\* (node_id, version) is unique: the INSERT waits for another transaction
\* that has inserted the same key and fails if that one committed.
SaveVersion(c) ==
  LET n == call[c].node
  IN /\ pc[c] = "save"
     /\ \A d \in Connections \ {c} : \A v \in saved[d] : ~SameKey(v, c)
     /\ \/ /\ \E v \in versions : SameKey(v, c)
           /\ Rollback(c)
        \/ /\ \A v \in versions : ~SameKey(v, c)
           /\ saved' = [saved EXCEPT ![c] = @ \cup {[node |-> n, version |-> call[c].version,
                                                     content |-> call[c].old,
                                                     updated_by |-> created_by[n]]}]
           /\ GoTo(c, "update")
           /\ UNCHANGED <<rowVars, versions, issues, raised, approved, call, written, overlapped>>

UpdateNode(c) ==
  LET n == call[c].node
  IN /\ pc[c] = "update"
     /\ Unlocked(c, n)
     /\ draft' = [draft EXCEPT ![n] = call[c].content]
     /\ owner' = [owner EXCEPT ![n] = c]
     /\ GoTo(c, IF call[c].kind = "ingest" THEN "detect" ELSE "approve")
     /\ UNCHANGED <<content, created_by, versions, saved, issues, raised, approved, call, written, overlapped>>

\* Inserting an id that was inserted meanwhile fails.
InsertNode(c) ==
  LET n == call[c].node
  IN /\ pc[c] = "insert"
     /\ Unlocked(c, n)
     /\ \/ content[n] # None /\ Rollback(c)
        \/ /\ content[n] = None
           /\ draft' = [draft EXCEPT ![n] = call[c].content]
           /\ created_by' = [created_by EXCEPT ![n] = call[c].author]
           /\ owner' = [owner EXCEPT ![n] = c]
           /\ GoTo(c, "commit")
           /\ UNCHANGED <<content, versions, saved, issues, raised, approved, call, written, overlapped>>

-----------------------------------------------------------------------------
(***************************************************************************)
(* Conflicts: an update by someone other than the updated_by of the latest *)
(* version raises an ISSUE, a review TASK and a PENDING CONTRADICTS edge.  *)
(***************************************************************************)
Detect(c) ==
  LET v == Latest(VersionsSeen(c, call[c].node))
  IN /\ pc[c] = "detect"
     /\ raised' = IF v.updated_by = call[c].author THEN raised
                  ELSE [raised EXCEPT ![c] = @ \cup
                          {[node |-> v.node, version |-> v.version,
                            previous |-> v.updated_by, current |-> call[c].author]}]
     /\ GoTo(c, "commit")
     /\ UNCHANGED <<rowVars, versions, saved, issues, approved, call, written, overlapped>>

\* accept_a writes the latest version back, through the duplicate check if
\* that version has a hash.
ReadLatest(c) ==
  LET S == VersionsSeen(c, call[c].node)
  IN /\ pc[c] = "latest"
     /\ \/ S = {} /\ Rollback(c)
        \/ /\ S # {}
           /\ Learn(c, [call[c] EXCEPT !.content = Latest(S).content])
           /\ GoTo(c, IF Latest(S).content \in Texts THEN "duplicate" ELSE "existing")
           /\ UNCHANGED <<rowVars, versions, saved, issues, raised, approved, written, overlapped>>

\* Every PENDING edge that touches the node is approved, whichever edit it
\* is about.
ApprovePending(c) ==
  /\ pc[c] = "approve"
  /\ Learn(c, [call[c] EXCEPT !.reviews = {i \in issues : i.node = call[c].node}])
  /\ GoTo(c, "commit")
  /\ UNCHANGED <<rowVars, versions, saved, issues, raised, approved, written, overlapped>>

-----------------------------------------------------------------------------
Init == /\ content = [n \in Nodes |-> None]
        /\ created_by = [n \in Nodes |-> None]
        /\ draft = content
        /\ owner = [n \in Nodes |-> NoConnection]
        /\ versions = {}
        /\ saved = [c \in Connections |-> {}]
        /\ issues = {}
        /\ raised = [c \in Connections |-> {}]
        /\ approved = {}
        /\ pc = [c \in Connections |-> "idle"]
        /\ call = [c \in Connections |-> Idle]
        /\ written = [n \in Nodes |-> <<>>]
        /\ overlapped = {}

BeginCall(c) ==
  \E n \in Nodes : \/ \E t \in Texts : BeginIngest(c, t, n)
                   \/ \E a \in Reviewers : \/ BeginAcceptA(c, n, a)
                                           \/ BeginAcceptB(c, n, a)
                                           \/ BeginMerge(c, n, a)

Statement(c) == \/ FindDuplicate(c) \/ ReadExisting(c) \/ NextVersion(c) \/ SaveVersion(c)
                \/ UpdateNode(c) \/ InsertNode(c) \/ Detect(c) \/ ReadLatest(c)
                \/ ApprovePending(c) \/ Commit(c)

Next == \E c \in Connections : BeginCall(c) \/ Statement(c) \/ Abort(c)

Spec == Init /\ [][Next]_vars

-----------------------------------------------------------------------------
(***************************************************************************)
(* Properties.                                                             *)
(***************************************************************************)
VersionType == [node : Nodes, version : Nat, content : Contents, updated_by : Authors]
IssueType == [node : Nodes, version : Nat, previous : Authors, current : Authors]

\* Columns and locals have their types, and a row nobody holds has no
\* uncommitted version.
TypeOK ==
  /\ content \in [Nodes -> Contents \cup {None}]
  /\ draft \in [Nodes -> Contents \cup {None}]
  /\ created_by \in [Nodes -> Authors \cup {None}]
  /\ owner \in [Nodes -> Connections \cup {NoConnection}]
  /\ versions \subseteq VersionType
  /\ saved \in [Connections -> SUBSET VersionType]
  /\ issues \subseteq IssueType
  /\ raised \in [Connections -> SUBSET IssueType]
  /\ approved \subseteq issues
  /\ \A n \in Nodes : owner[n] = NoConnection =>
       draft[n] = content[n] /\ (content[n] = None <=> created_by[n] = None)

Of(n) == {v \in versions : v.node = n}

\* Whatever overlaps, the history has exactly one version for each write that
\* replaced a content, numbered without gaps, and the first is the first text.
OneVersionPerUpdate ==
  \A n \in Nodes :
    /\ {v.version : v \in Of(n)} = 1 .. Len(written[n]) - 1
    /\ Cardinality(Of(n)) = Cardinality({v.version : v \in Of(n)})
    /\ \A v \in Of(n) : v.version = 1 => v.content = written[n][1][1]

\* Whatever overlaps, a review exists for exactly those ingested updates whose
\* author is not the creator of the node, and names the two: a version is saved
\* with updated_by = created_by, whoever wrote it.
ReviewedUnlessCreator ==
  \A n \in Nodes : \A k \in 2 .. Len(written[n]) :
    LET author == written[n][k][2]
    IN written[n][k][3] = "ingest" /\ author # created_by[n]
         <=> [node |-> n, version |-> k - 1,
              previous |-> created_by[n], current |-> author] \in issues

\* Unless two calls were about the node at the same time, every write is in
\* the history in its place: the versions followed by the current content are
\* what was written, in order.
HistoryReplays ==
  \A n \in Nodes : {n} \notin overlapped =>
    /\ \A v \in Of(n) : v.content = written[n][v.version][1]
    /\ content[n] # None => content[n] = written[n][Len(written[n])][1]

=============================================================================
