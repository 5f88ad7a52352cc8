------------------------------- MODULE Ingest -------------------------------
(***************************************************************************)
(* The ingest: the command that ingests the files of a directory, with or  *)
(* without embeddings, the MCP tools that ingest one text, and the command *)
(* that embeds the nodes without a vector, with the client's retries.      *)
(*                                                                         *)
(* A command is one transaction: nothing it does is stored before the      *)
(* commit.  Files are collected when it begins and read one by one, so     *)
(* that writers of the files come between; between the call of the         *)
(* embedding API and its answer come MCP calls, when the command only      *)
(* embeds and thus holds no row of a node.  Overlapping ingests of one     *)
(* node, and the reviews their conflicts raise, are NodeStore's subject.   *)
(***************************************************************************)
EXTENDS KgnText, Sequences, Functions

CONSTANTS
  KgnOrder, KgeOrder,  \* the .kgn and .kge files, sorted by path
  Texts,       \* texts of .kgn files
  EdgeTexts,   \* texts of .kge files: [parse |-> as in KgnText, edges |-> <<from, to>>s]
  Missing, Undecodable,
  Generated,   \* the ids that uuid4 generates
  None,
  BatchSize,   \* texts in one call of the embedding API
  MaxRetries,
  FirstDisks,  \* what the files may contain at first
  MaxWrites, MaxCalls  \* bounds: writes of files, calls

Ids == Named \cup Generated
KgnFiles == Range(KgnOrder)
KgeFiles == Range(KgeOrder)
Files == KgnFiles \cup KgeFiles

\* What an entry of a .kge file may name.
Refs == Ids \cup Slugs \cup {Malformed}

\* What files may contain.
KgnContents == Texts \cup {Missing, Undecodable}
KgeContents == EdgeTexts \cup {Missing, Undecodable}
Disks == {d \in [Files -> KgnContents \cup KgeContents] :
            /\ \A f \in KgnFiles : d[f] \in KgnContents
            /\ \A f \in KgeFiles : d[f] \in KgeContents}

\* No generated id is one that texts name, and there are finitely many.
ASSUME IdsAssumption ==
  /\ Generated \cap (Named \cup Slugs \cup {Malformed}) = {}
  /\ IsFiniteSet(Generated)
  /\ None \notin Ids \cup Texts

ASSUME FilesAssumption ==
  /\ KgnOrder \in Seq(KgnFiles)
  /\ KgeOrder \in Seq(KgeFiles)
  /\ KgnFiles \cap KgeFiles = {}
  /\ Texts \subseteq AllTexts
  /\ EdgeTexts \subseteq [parse : {"parsed", "KgeParseError", "Exception"},
                         edges : Seq(Refs \X Refs)]
  /\ {Missing, Undecodable} \cap (Texts \cup EdgeTexts) = {}
  /\ FirstDisks \subseteq Disks

ASSUME NumbersAssumption ==
  /\ {BatchSize, MaxRetries} \subseteq Nat \ {0}
  /\ {MaxWrites, MaxCalls} \subseteq Nat

VARIABLES
  disk,      \* the text of each file
  nodes, versions, edges,  \* committed: each node's text, the number of its
                           \* versions, and the edges
  embedding, \* committed: the text that the vector of each node is of
  call,      \* the command that runs
  report,    \* what the last call told its caller
  writes, calls,
  outdated,  \* history: nodes updated since their text was read for a vector
  settled    \* history: nodes, versions and edges are what the files make

store == <<nodes, versions, edges, embedding>>
bounds == <<writes, calls>>
history == <<outdated, settled>>
vars == <<disk, store, call, report, bounds, history>>

NoTexts == [n \in Ids |-> None]
NoSlugs == [s \in Slugs |-> None]

\* What a transaction has: the tables as it sees them, and the ids it gave
\* to the slugs, with the results of the files so far.
Snapshot == [nodes |-> nodes, versions |-> versions, edges |-> edges,
             slugs |-> NoSlugs, results |-> <<>>]

NoCall == [kind |-> "none"]
NoReport == [kind |-> "none", answer |-> "none", results |-> <<>>, lost |-> FALSE]

Told(kind, answer, results, lost) ==
  report' = [kind |-> kind, answer |-> answer, results |-> results, lost |-> lost]

NewId(tx) == CHOOSE g \in Generated : tx.nodes[g] = None /\ g \notin Range(tx.slugs)

Assign(tx, s, g) == [tx.slugs EXCEPT ![s] = g]

Outcome(tx, f, t, status, n) ==
  [tx EXCEPT !.results = Append(@, [file |-> f, text |-> t, status |-> status, id |-> n])]

-----------------------------------------------------------------------------
(***************************************************************************)
(* One text.                                                               *)
(***************************************************************************)
\* Mutant of ResolveNodeId: a second file may take the slug.
ResolveAnyNodeId(tx, t) ==
  IF t.id \notin Slugs THEN [ok |-> TRUE, id |-> t.id, slugs |-> tx.slugs]
  ELSE [ok |-> TRUE, id |-> NewId(tx), slugs |-> Assign(tx, t.id, NewId(tx))]

\* A slug gets its id before the node is stored, and keeps it if it never is.
ResolveNodeId(tx, t) ==
  IF t.id \notin Slugs THEN [ok |-> TRUE, id |-> t.id, slugs |-> tx.slugs]
  ELSE IF tx.slugs[t.id] # None THEN [ok |-> FALSE, id |-> None, slugs |-> tx.slugs]
  ELSE [ok |-> TRUE, id |-> NewId(tx), slugs |-> Assign(tx, t.id, NewId(tx))]

\* Mutant of Upsert: no V8, every text is written.
UpsertAlways(tx, f, t, n) ==
  IF tx.nodes[n] # None
  THEN Outcome([tx EXCEPT !.nodes[n] = t, !.versions[n] = @ + 1], f, t, "SUCCESS", n)
  ELSE Outcome([tx EXCEPT !.nodes[n] = t], f, t, "SUCCESS", n)

\* Mutant of Upsert: a skipped text is given the id it asked for.
UpsertReturnsOwn(tx, f, t, n) ==
  IF \E m \in Ids : tx.nodes[m] = t THEN Outcome(tx, f, t, "SKIPPED", n)
  ELSE UpsertAlways(tx, f, t, n)

\* The nodes whose text has the same hash.
SameHash(tx, t) == {m \in Ids : tx.nodes[m] = t}

\* upsert_node.
Upsert(tx, f, t, n) ==
  LET same == SameHash(tx, t)
  IN CASE same # {} -> Outcome(tx, f, t, "SKIPPED", CHOOSE m \in same : TRUE)
       [] same = {} /\ tx.nodes[n] # None ->
            Outcome([tx EXCEPT !.nodes[n] = t, !.versions[n] = @ + 1], f, t, "SUCCESS", n)
       [] same = {} /\ tx.nodes[n] = None ->
            Outcome([tx EXCEPT !.nodes[n] = t], f, t, "SUCCESS", n)

\* _upsert_from_parsed of a text whose parse raises nothing unexpected.  The
\* review that an update can raise is a node of NodeStore's.
IngestKgnText(tx, f, t) ==
  LET r == ResolveNodeId(tx, t)
  IN IF ~Valid(t) \/ ~r.ok THEN Outcome(tx, f, t, "FAILED", None)
     ELSE Upsert([tx EXCEPT !.slugs = r.slugs], f, t, r.id)

\* What becomes of an entry of a .kge file: from is resolved before to, and
\* the foreign keys want both ends.
Resolved(tx, ref) == IF ref \in Slugs THEN tx.slugs[ref] ELSE ref

Unknown(tx, ref) == ref \in Slugs /\ tx.slugs[ref] = None

Stored(tx, ref) == tx.nodes[Resolved(tx, ref)] # None

EntryFate(tx, e) ==
  CASE Unknown(tx, e[1]) -> "FAILED"
    [] e[1] = Malformed -> "raises"
    [] ~Unknown(tx, e[1]) /\ e[1] # Malformed /\ Unknown(tx, e[2]) -> "FAILED"
    [] ~Unknown(tx, e[1]) /\ e[1] # Malformed /\ e[2] = Malformed -> "raises"
    [] ~\E i \in 1..2 : Unknown(tx, e[i]) \/ e[i] = Malformed ->
         IF Stored(tx, e[1]) /\ Stored(tx, e[2]) THEN "stored" ELSE "FAILED"

\* The entries that are looked at: all before them are stored.
Reached(tx, t) ==
  {i \in 1..Len(t.edges) : \A j \in 1..(i - 1) : EntryFate(tx, t.edges[j]) = "stored"}

Meets(tx, t, fate) == \E i \in Reached(tx, t) : EntryFate(tx, t.edges[i]) = fate

KgeFate(tx, t) ==
  CASE t.parse = "KgeParseError" -> "FAILED"
    [] t.parse = "Exception" -> "raises"
    [] t.parse = "parsed" -> IF \A i \in 1..Len(t.edges) : EntryFate(tx, t.edges[i]) = "stored"
                             THEN "SUCCESS"
                             ELSE IF Meets(tx, t, "raises") THEN "raises" ELSE "FAILED"

\* The entries before the one that fails stay.
Linked(tx, t) ==
  tx.edges \cup {<<Resolved(tx, t.edges[i][1]), Resolved(tx, t.edges[i][2])>> :
                 i \in {k \in Reached(tx, t) : EntryFate(tx, t.edges[k]) = "stored"}}

IngestKgeText(tx, f, t) ==
  Outcome(IF t.parse = "parsed" THEN [tx EXCEPT !.edges = Linked(tx, t)] ELSE tx,
          f, t, KgeFate(tx, t), None)

-----------------------------------------------------------------------------
(***************************************************************************)
(* The command that ingests a directory.                                   *)
(***************************************************************************)
Begin(kind) == call.kind = "none" /\ calls < MaxCalls /\ calls' = calls + 1

FreeIds == {g \in Generated : nodes[g] = None}

BeginBatch(embed) ==
  /\ Begin("batch")
  /\ Cardinality(FreeIds) >= Cardinality(KgnFiles)
  /\ call' = [kind |-> "batch", tx |-> Snapshot, embed |-> embed, stage |-> "files",
              todo |-> {f \in Files : disk[f] # Missing},
              rows |-> NoTexts, vectors |-> NoTexts, attempt |-> 0, moved |-> FALSE]
  /\ report' = NoReport
  /\ UNCHANGED <<disk, store, writes, history>>

\* An exception that nothing on the way handles rolls everything back.
Raise ==
  /\ call' = NoCall
  /\ Told(call.kind, "raised", <<>>, FALSE)
  /\ UNCHANGED <<store, history>>

\* The database or the process fails.
Fail == /\ call.kind # "none"
        /\ Raise
        /\ UNCHANGED <<disk, bounds>>

\* A text at which the batch ends: it cannot be read, or parsing it raises
\* something else than a KgnParseError, or a reference is no UUID.
Unreadable(f, t) ==
  \/ t \in {Missing, Undecodable}
  \/ f \in KgnFiles /\ t \in Texts /\ ParseStrict(t) = "Exception"
  \/ f \in KgeFiles /\ t \in EdgeTexts /\ KgeFate(call.tx, t) = "raises"

\* The .kgn files come before the .kge files.
Order == KgnOrder \o KgeOrder
Before(f, g) == \E i, j \in 1..Len(Order) : i < j /\ Order[i] = f /\ Order[j] = g

IngestFile ==
  /\ call.kind = "batch" /\ call.stage = "files"
  /\ \E f \in call.todo :
       /\ \A g \in call.todo \ {f} : Before(f, g)
       /\ IF Unreadable(f, disk[f]) THEN Raise
          ELSE /\ call' = [call EXCEPT
                             !.tx = IF f \in KgnFiles THEN IngestKgnText(@, f, disk[f])
                                                      ELSE IngestKgeText(@, f, disk[f]),
                             !.todo = @ \ {f}]
               /\ UNCHANGED <<store, report, history>>
  /\ UNCHANGED <<disk, bounds>>

\* The results of a text that was written as a node, and of a file of edges
\* that are all stored.
Wrote(q) == q.status = "SUCCESS" /\ q.id # None
LinkedFile(q) == q.status = "SUCCESS" /\ q.id = None

\* The texts for the vectors of the nodes N, but for the archived ones.
TextsOf(table, N) ==
  [n \in Ids |-> IF n \in N /\ table[n] # None /\ ~table[n].archived THEN table[n] ELSE None]

\* mutated_node_ids, and the texts that are read for their vectors.
Mutated == {r.id : r \in {s \in Range(call.tx.results) : Wrote(s)}}

ReadMutated ==
  /\ call.kind = "batch" /\ call.stage = "files" /\ call.todo = {}
  /\ call' = [call EXCEPT
                !.rows = IF call.embed
                         THEN TextsOf(call.tx.nodes, Mutated)
                         ELSE NoTexts,
                !.stage = "vectors"]
  /\ UNCHANGED <<disk, store, report, bounds, history>>

-----------------------------------------------------------------------------
(***************************************************************************)
(* Vectors: the texts go to the API in chunks, each tried MaxRetries times *)
(* at most.                                                                *)
(***************************************************************************)
Unembedded == {n \in Ids : embedding[n] = None}

BeginEmbed(force) ==
  /\ Begin("embed")
  /\ call' = [kind |-> "embed", stage |-> "vectors",
              rows |-> TextsOf(nodes, IF force THEN Ids ELSE Unembedded),
              vectors |-> NoTexts, attempt |-> 0, overtaken |-> {}]
  /\ report' = NoReport
  /\ UNCHANGED <<disk, store, writes, history>>

\* The nodes that have a text in a column, or a row that is still to be sent.
Given(texts) == {n \in Ids : texts[n] # None}

Waiting == call.kind # "none" /\ call.stage = "vectors" /\ Given(call.rows) # {}

IsChunk(C) ==
  Cardinality(C) = IF Cardinality(Given(call.rows)) < BatchSize
                   THEN Cardinality(Given(call.rows)) ELSE BatchSize

\* Mutant of Vectors: all rows of the chunk get the first one's vector.
FirstVector(C) ==
  [n \in Ids |-> IF n \in C THEN call.rows[CHOOSE m \in C : TRUE] ELSE call.vectors[n]]

Vectors(C) == [n \in Ids |-> IF n \in C THEN call.rows[n] ELSE call.vectors[n]]

ApiAnswers ==
  /\ Waiting
  /\ \E C \in SUBSET Given(call.rows) :
       /\ IsChunk(C)
       /\ call' = [call EXCEPT !.vectors = Vectors(C),
                               !.rows = [n \in Ids |-> IF n \in C THEN None ELSE @[n]],
                               !.attempt = 0]
  /\ UNCHANGED <<disk, store, report, bounds, history>>

\* KgnError: the command exits inside its transaction.
ApiGivesUp == Raise

\* A timeout, a rate limit or a 503.
ApiBusy ==
  /\ Waiting
  /\ IF call.attempt < MaxRetries - 1
     THEN /\ call' = [call EXCEPT !.attempt = @ + 1]
          /\ UNCHANGED <<store, report, history>>
     ELSE ApiGivesUp
  /\ UNCHANGED <<disk, bounds>>

\* An authentication error, or any other.
ApiRefuses ==
  /\ Waiting
  /\ ApiGivesUp
  /\ UNCHANGED <<disk, bounds>>

\* The table refuses a vector, of another model's dimension for instance.
\* The ingest command goes on, in a transaction that cannot commit any more
\* and is rolled back by its commit; the embed command raises.
VectorRefused ==
  /\ Waiting
  /\ \/ call.kind = "embed" /\ Raise
     \/ /\ call.kind = "batch"
        /\ Told("batch", "done", call.tx.results, TRUE)
        /\ call' = NoCall
        /\ UNCHANGED <<store, history>>
  /\ UNCHANGED <<disk, bounds>>

\* No client: the provider is unknown, or its package is not installed.
NoClient ==
  /\ Waiting /\ call.kind = "batch" /\ call.vectors = NoTexts /\ call.attempt = 0
  /\ call' = [call EXCEPT !.rows = NoTexts]
  /\ UNCHANGED <<disk, store, report, bounds, history>>

-----------------------------------------------------------------------------
(***************************************************************************)
(* Commit.                                                                 *)
(***************************************************************************)
Updated(tx) == {n \in Ids : tx.nodes[n] # nodes[n]}

\* upsert_embedding: the last vector of a node replaces the one before.
Embedded == [n \in Ids |-> IF call.vectors[n] # None THEN call.vectors[n] ELSE embedding[n]]

\* Files whose texts name different nodes, all of them readable.
Distinct == \A f, g \in KgnFiles :
  /\ f # g
  /\ disk[f] \in Texts /\ Valid(disk[f])
  /\ disk[g] \in Texts /\ Valid(disk[g])
  => disk[f].id # disk[g].id

CommitBatch ==
  /\ call.kind = "batch" /\ call.stage = "vectors" /\ call.rows = NoTexts
  /\ nodes' = call.tx.nodes
  /\ versions' = call.tx.versions
  /\ edges' = call.tx.edges
  /\ embedding' = Embedded
  /\ outdated' = (outdated \cup Updated(call.tx)) \ Given(call.vectors)
  /\ settled' = (~call.moved /\ Distinct)
  /\ Told("batch", "done", call.tx.results, FALSE)
  /\ call' = NoCall
  /\ UNCHANGED <<disk, bounds>>

CommitEmbed ==
  /\ call.kind = "embed" /\ call.rows = NoTexts
  /\ embedding' = Embedded
  /\ outdated' = (outdated \ Given(call.vectors)) \cup (call.overtaken \cap Given(call.vectors))
  /\ Told("embed", "done", <<>>, FALSE)
  /\ call' = NoCall
  /\ UNCHANGED <<disk, nodes, versions, edges, bounds, settled>>

-----------------------------------------------------------------------------
(***************************************************************************)
(* The MCP tools: one text, one transaction, which errors that the tool    *)
(* handles do not roll back.                                               *)
(***************************************************************************)
Quick == call.kind \in {"none", "embed"} /\ calls < MaxCalls /\ calls' = calls + 1

\* The guards of the tools: the agent's role permits the type of the node or
\* edges, and no other agent has locked the node.  A text that does not
\* parse is left to the ingest, and the id of a new node has no lock.
Refused(t, guard) == /\ ParseStrict(t) = "parsed"
                     /\ guard = "role" \/ (guard = "lock" /\ t.id \in Named)

\* What the automatic embedding of the node does: nothing without a client
\* or when the API fails, which is swallowed; a vector; or an error of the
\* database, swallowed too, after which the commit rolls back.
IngestNode(t, vector, guard) ==
  LET tx == IngestKgnText(Snapshot, "text", t)
      r == tx.results[1]
  IN /\ Quick
     /\ Cardinality(FreeIds) > Cardinality(KgnFiles)
     /\ IF Refused(t, guard) \/ ParseStrict(t) = "Exception" \/ r.status = "FAILED"
        THEN /\ vector = "none"
             /\ Told("node", "error", <<>>, FALSE)
             /\ UNCHANGED <<call, store, history>>
        ELSE /\ vector = "stored" /\ call.kind = "embed" => r.id \notin Given(call.vectors)
             /\ Told("node", "done", tx.results, vector = "refused")
             /\ IF vector = "refused" THEN UNCHANGED <<call, store, history>>
                ELSE /\ nodes' = tx.nodes
                     /\ versions' = tx.versions
                     /\ embedding' = IF vector = "stored"
                                     THEN [embedding EXCEPT ![r.id] = tx.nodes[r.id]] ELSE embedding
                     /\ outdated' = IF vector = "stored"
                                    THEN outdated \ {r.id} ELSE outdated \cup Updated(tx)
                     /\ call' = IF call.kind = "embed"
                                THEN [call EXCEPT !.overtaken = @ \cup Updated(tx)] ELSE call
                     /\ settled' = (settled /\ Updated(tx) = {})
                     /\ UNCHANGED edges
     /\ UNCHANGED <<disk, writes>>

\* ingest_edge knows no slug; what it stored before an error stays.
IngestEdge(t, guard) ==
  LET tx == IngestKgeText(Snapshot, "text", t)
      refused == t.parse = "parsed" /\ guard = "role"
  IN /\ Quick
     /\ edges' = IF refused THEN edges ELSE tx.edges
     /\ IF refused \/ KgeFate(Snapshot, t) # "SUCCESS" THEN Told("edge", "error", <<>>, FALSE)
        ELSE Told("edge", "done", tx.results, FALSE)
     /\ settled' = (settled /\ edges' = edges)
     /\ UNCHANGED <<disk, nodes, versions, embedding, call, writes, outdated>>

-----------------------------------------------------------------------------
(***************************************************************************)
(* The other agents.                                                       *)
(***************************************************************************)
WriteFile(f, t) ==
  /\ writes < MaxWrites /\ writes' = writes + 1
  /\ t # disk[f]
  /\ disk' = [disk EXCEPT ![f] = t]
  /\ call' = IF call.kind = "batch" THEN [call EXCEPT !.moved = TRUE] ELSE call
  /\ settled' = FALSE
  /\ UNCHANGED <<store, report, calls, outdated>>

-----------------------------------------------------------------------------
Init == /\ disk \in FirstDisks
        /\ nodes = [n \in Ids |-> None]
        /\ versions = [n \in Ids |-> 0]
        /\ edges = {}
        /\ embedding = [n \in Ids |-> None]
        /\ call = NoCall
        /\ report = NoReport
        /\ writes = 0 /\ calls = 0
        /\ outdated = {} /\ settled = FALSE

CommandStep == \/ IngestFile \/ ReadMutated
               \/ ApiAnswers \/ ApiBusy \/ ApiRefuses \/ VectorRefused \/ NoClient
               \/ CommitBatch \/ CommitEmbed

Next == \/ \E b \in BOOLEAN : BeginBatch(b) \/ BeginEmbed(b)
        \/ CommandStep
        \/ Fail
        \/ \E t \in Texts, v \in {"none", "stored", "refused"},
              guard \in {"role", "lock", "none"} : IngestNode(t, v, guard)
        \/ \E t \in EdgeTexts, guard \in {"role", "none"} : IngestEdge(t, guard)
        \/ \E f \in KgnFiles, t \in Texts \cup {Missing, Undecodable} : WriteFile(f, t)
        \/ \E f \in KgeFiles, t \in EdgeTexts \cup {Missing, Undecodable} : WriteFile(f, t)

Spec == Init /\ [][Next]_vars

\* A command runs to its end: it waits for nobody but the API, whose client
\* has a timeout.
FairSpec == Spec /\ WF_vars(CommandStep)

-----------------------------------------------------------------------------
Optional(S) == S \cup {None}

Results == [file : Files \cup {"text"}, text : Texts \cup EdgeTexts,
            status : {"SUCCESS", "SKIPPED", "FAILED", "raises"}, id : Optional(Ids)]

Txs == [nodes : [Ids -> Optional(Texts)], versions : [Ids -> Nat], edges : SUBSET (Ids \X Ids),
        slugs : [Slugs -> Optional(Generated)], results : Seq(Results)]

Batches == [kind : {"batch"}, tx : Txs, embed : BOOLEAN, stage : {"files", "vectors"},
            todo : SUBSET Files, rows : [Ids -> Optional(Texts)],
            vectors : [Ids -> Optional(Texts)], attempt : 0..MaxRetries - 1, moved : BOOLEAN]

Embeds == [kind : {"embed"}, stage : {"vectors"}, rows : [Ids -> Optional(Texts)],
           vectors : [Ids -> Optional(Texts)], attempt : 0..MaxRetries - 1,
           overtaken : SUBSET Ids]

TypeOK ==
  /\ disk \in Disks
  /\ nodes \in [Ids -> Optional(Texts)]
  /\ versions \in [Ids -> Nat]
  /\ edges \subseteq Ids \X Ids
  /\ embedding \in [Ids -> Optional(Texts)]
  /\ call \in Batches \cup Embeds \cup {NoCall}
  /\ report.results \in Seq(Results)
  /\ outdated \subseteq Ids
  /\ settled \in BOOLEAN

Done == report.answer = "done" /\ ~report.lost

\* What a caller is told is stored is stored: the node of each file that
\* succeeded or was skipped has the text that was read, or that of a later
\* file of the same batch.  A transaction that a refused vector broke is the
\* exception.
ReportedStored ==
  Done => \A i \in 1..Len(report.results) :
    LET r == report.results[i]
    IN r.status \in {"SUCCESS", "SKIPPED"} /\ r.id # None
         => \E j \in i..Len(report.results) :
              report.results[j].id = r.id /\ nodes[r.id] = report.results[j].text

\* An entry names a node by its id, or by the slug under which just it was written.
StandsFor(results, ref, n) ==
  \/ ref = n
  \/ ref \in Slugs /\ {n} = {q.id : q \in {p \in Range(results) : Wrote(p) /\ p.text.id = ref}}

\* An edge file that succeeded has all its edges, and a slug in it stands
\* for the one node that this batch stored under that slug.
LinkedByName ==
  Done => \A r \in Range(report.results) : LinkedFile(r) =>
    \A i \in 1..Len(r.text.edges) :
      \E m, n \in Ids : /\ <<m, n>> \in edges
                        /\ StandsFor(report.results, r.text.edges[i][1], m)
                        /\ StandsFor(report.results, r.text.edges[i][2], n)

\* Ingesting a directory again that has not changed writes no node, no
\* version and no edge, when its texts name different nodes.
RerunChangesNothing ==
  [][settled /\ settled' => UNCHANGED <<nodes, versions, edges>>]_vars

\* A vector is of its node's text unless the node has been updated since the
\* text was read for it, by a call that embedded nothing or while the API
\* was at work.
EmbeddedUnlessUpdated ==
  \A n \in Ids \ outdated : embedding[n] \in {None, nodes[n]}

\* The editor complains about the texts that the ingest refuses and no others,
\* except that it is silent about four kinds of refused text (UnseenByEditor).
\* This is about all texts, and before anything has happened is soon enough to
\* look at them.
EditorAgrees == calls + writes = 0 => \A t \in AllTexts : ParsersAgree(t)

-----------------------------------------------------------------------------
\* src/kgn/cli/_core.py:222, of the embeddings after an ingest: "Failures are
\* logged as warnings; ingest success is not affected."  A command whose
\* files are ingested stores them, whatever the API answers.
EmbedFailureHarmless ==
  [][call.kind = "batch" /\ call'.kind = "none" /\ (ApiBusy \/ ApiRefuses \/ VectorRefused)
       => nodes' = call.tx.nodes /\ edges' = call.tx.edges]_vars
=============================================================================
