---------------------------- MODULE IngestProofs ----------------------------
(***************************************************************************)
(* Theorems about the ingest, for any files and texts, any batch size and  *)
(* number of retries, and any number of calls and writes.                  *)
(***************************************************************************)
EXTENDS Ingest, FiniteSetTheorems, TLAPS

(***************************************************************************)
(* The invariants.                                                         *)
(***************************************************************************)
\* The ids that a transaction can still give to slugs suffice for its files.
Free(tx) == {g \in Generated : tx.nodes[g] = None /\ g \notin Range(tx.slugs)}
Enough == call.kind = "batch" => Cardinality(Free(call.tx)) >= Cardinality(call.todo \cap KgnFiles)

IngestTyped == TypeOK /\ Enough

\* What is stored is sound, and a node that texts name has its own text.
NodesSound(table) ==
  \A n \in Ids : table[n] # None =>
    Valid(table[n]) /\ (n \in Named => table[n].id = n)

\* ReportedStored and LinkedByName of any results.
StoredAs(results, table) ==
  \A i \in 1..Len(results) :
    results[i].status \in {"SUCCESS", "SKIPPED"} /\ results[i].id # None =>
      \E j \in i..Len(results) :
        results[j].id = results[i].id /\ table[results[i].id] = results[j].text

LinksIn(results, links) ==
  \A q \in Range(results) : LinkedFile(q) =>
    \A i \in 1..Len(q.text.edges) :
      \E m, n \in Ids : /\ <<m, n>> \in links
                        /\ StandsFor(results, q.text.edges[i][1], m)
                        /\ StandsFor(results, q.text.edges[i][2], n)

\* A slug has the id of the one node that was written under it, or none.
SlugsTold(tx) ==
  /\ \A s \in Slugs : tx.slugs[s] # None /\ tx.nodes[tx.slugs[s]] # None =>
       \E q \in Range(tx.results) : Wrote(q) /\ q.text.id = s
  /\ \A q \in Range(tx.results) : Wrote(q) /\ q.text.id \in Slugs => q.id = tx.slugs[q.text.id]
  /\ \A r, s \in Slugs : tx.slugs[r] # None /\ tx.slugs[r] = tx.slugs[s] => r = s

TxSound(tx) == /\ NodesSound(tx.nodes)
               /\ StoredAs(tx.results, tx.nodes)
               /\ SlugsTold(tx)
               /\ LinksIn(tx.results, tx.edges)

NoneLinked(results) == \A q \in Range(results) : ~LinkedFile(q)

BatchSound == /\ TxSound(call.tx)
              /\ call.todo \cap KgnFiles # {} => NoneLinked(call.tx.results)

ResultsInv == /\ NodesSound(nodes)
              /\ call.kind = "batch" => BatchSound
              /\ ReportedStored
              /\ LinkedByName

\* The texts that a command has read for vectors, and the vectors.
VectorInv ==
  /\ EmbeddedUnlessUpdated
  /\ call.kind = "batch" => \A n \in Ids :
       /\ call.rows[n] \in {None, call.tx.nodes[n]}
       /\ call.vectors[n] \in {None, call.tx.nodes[n]}
       /\ call.stage = "files" => call.rows[n] = None /\ call.vectors[n] = None
  /\ call.kind = "embed" => \A n \in Ids \ call.overtaken :
       call.rows[n] \in {None, nodes[n]} /\ call.vectors[n] \in {None, nodes[n]}

\* With the disk d: the sound texts of the files F are nodes; the entries up to
\* the first that names a slug, or a node that is not there, are edges; and
\* only these texts' slugs have ids.
IsSound(d, f) == d[f] \in Texts /\ Valid(d[f])

NodesOf(d, F, table) ==
  \A f \in F \cap KgnFiles : IsSound(d, f) => \E m \in Ids : table[m] = d[f]

Plain(e, table) == \A k \in 1..2 : e[k] \in Ids /\ table[e[k]] # None

EdgesOf(d, F, table, links) ==
  \A f \in F \cap KgeFiles : d[f] \in EdgeTexts /\ d[f].parse = "parsed" =>
    \A i \in 1..Len(d[f].edges) :
      (\A j \in 1..i : Plain(d[f].edges[j], table)) => d[f].edges[i] \in links

MadeOf(d, F, tx) ==
  /\ NodesOf(d, F, tx.nodes)
  /\ EdgesOf(d, F, tx.nodes, tx.edges)
  /\ \A s \in Slugs : tx.slugs[s] # None =>
       \E f \in F \cap KgnFiles : IsSound(d, f) /\ d[f].id = s

\* A batch over files that the store is already made of.
Repeats(tx) ==
  /\ tx.nodes = nodes /\ tx.versions = versions /\ tx.edges = edges
  /\ \A s \in Slugs : tx.slugs[s] # None => nodes[tx.slugs[s]] = None

\* No edge file has been read before a .kgn file that is left.
NoEdgesYet(d, todo) == todo \cap KgnFiles # {} => \A f \in KgeFiles \ todo : d[f] = Missing

StillBatch == call.kind = "batch" /\ ~call.moved

RerunInv ==
  /\ settled => NodesOf(disk, Files, nodes) /\ EdgesOf(disk, Files, nodes, edges)
  /\ StillBatch =>
       /\ settled => Repeats(call.tx)
       /\ Distinct => MadeOf(disk, Files \ call.todo, call.tx)
       /\ NoEdgesYet(disk, call.todo)
       /\ call.stage = "vectors" => call.todo = {}

-----------------------------------------------------------------------------
(***************************************************************************)
(* One text in a transaction.                                              *)
(***************************************************************************)
LEMMA Names ==
  /\ None \notin Ids /\ None \notin Texts /\ Named \subseteq Ids /\ Generated \subseteq Ids
  /\ Generated \cap (Named \cup Slugs \cup {Malformed}) = {}
  /\ Ids \cap Slugs = {} /\ Malformed \notin Ids \cup Slugs
  /\ \A t \in Texts : t.id \in Named \cup Slugs \cup {Malformed}
BY IdsAssumption, FilesAssumption, TextAssumption
   DEF IdsAssumption, FilesAssumption, TextAssumption, Ids, AllTexts

LEMMA KgnFilesFinite == IsFiniteSet(KgnFiles)
<1>1. KgnOrder \in [1..Len(KgnOrder) -> KgnFiles] /\ Len(KgnOrder) \in Nat
  BY FilesAssumption DEF FilesAssumption
<1>2. \A f \in KgnFiles : \E i \in 1..Len(KgnOrder) : KgnOrder[i] = f
  BY <1>1 DEF KgnFiles, Range
<1>3. KgnOrder \in Surjection(1..Len(KgnOrder), KgnFiles)
  BY <1>1, <1>2 DEF Surjection
<1>4. QED
  BY <1>1, <1>3, FS_Surjection, FS_Interval

Told1(f, t, s, n) == [file |-> f, text |-> t, status |-> s, id |-> n]

\* The id that a text gets, and the ids of the slugs afterwards.
Gets(tx, t, n, slugs) ==
  \/ /\ t.id \in Named
     /\ n = t.id
     /\ slugs = tx.slugs
  \/ /\ t.id \in Slugs
     /\ tx.slugs[t.id] = None
     /\ n \in Free(tx)
     /\ slugs = [tx.slugs EXCEPT ![t.id] = n]

Adds(tx, result, tx2) == tx2.results = Append(tx.results, result)

\* What becomes of a .kgn text: it is refused, is a node already, or is written.
KgnRefused(tx, f, t, tx2) ==
  /\ ~Valid(t) \/ (t.id \in Slugs /\ tx.slugs[t.id] # None)
  /\ tx2.nodes = tx.nodes /\ tx2.versions = tx.versions /\ tx2.slugs = tx.slugs
  /\ Adds(tx, Told1(f, t, "FAILED", None), tx2)

KgnSkipped(tx, f, t, tx2) ==
  /\ Valid(t)
  /\ \E n \in Ids : Gets(tx, t, n, tx2.slugs)
  /\ tx2.nodes = tx.nodes /\ tx2.versions = tx.versions
  /\ \E m \in Ids : /\ tx.nodes[m] = t
                    /\ Adds(tx, Told1(f, t, "SKIPPED", m), tx2)

KgnWritten(tx, f, t, tx2) ==
  /\ Valid(t)
  /\ \A m \in Ids : tx.nodes[m] # t
  /\ \E n \in Ids : /\ Gets(tx, t, n, tx2.slugs)
                    /\ tx2.nodes = [tx.nodes EXCEPT ![n] = t]
                    /\ Adds(tx, Told1(f, t, "SUCCESS", n), tx2)

KgnOutcome(tx, f, t, tx2) ==
  /\ tx2 \in Txs /\ tx2.edges = tx.edges
  /\ KgnRefused(tx, f, t, tx2) \/ KgnSkipped(tx, f, t, tx2) \/ KgnWritten(tx, f, t, tx2)

\* The record that Outcome makes.
ResultAdded(tx, f, t, s, n, tx2) ==
  /\ tx2 \in Txs
  /\ tx2.nodes = tx.nodes /\ tx2.versions = tx.versions /\ tx2.edges = tx.edges
  /\ tx2.slugs = tx.slugs
  /\ Adds(tx, Told1(f, t, s, n), tx2)

LEMMA OutcomeFields ==
  ASSUME NEW tx \in Txs, NEW f \in Files \cup {"text"}, NEW t \in Texts \cup EdgeTexts,
         NEW s \in {"SUCCESS", "SKIPPED", "FAILED", "raises"}, NEW n \in Optional(Ids)
  PROVE  ResultAdded(tx, f, t, s, n, Outcome(tx, f, t, s, n))
<1>1. Told1(f, t, s, n) \in Results
  BY DEF Told1, Results
<1>2. Append(tx.results, Told1(f, t, s, n)) \in Seq(Results)
  BY <1>1 DEF Txs
<1>3. QED
  BY <1>2 DEF ResultAdded, Adds, Outcome, Txs, Told1

LEMMA NewIdIsFree ==
  ASSUME NEW tx, Free(tx) # {} PROVE NewId(tx) \in Free(tx)
BY DEF Free, NewId

LEMMA ResolvedIsGot ==
  ASSUME NEW tx \in Txs, NEW t \in Texts, Free(tx) # {}, Valid(t),
         ResolveNodeId(tx, t).ok
  PROVE  LET r == ResolveNodeId(tx, t)
         IN /\ r.id \in Ids
            /\ Gets(tx, t, r.id, r.slugs)
            /\ r.slugs \in [Slugs -> Optional(Generated)]
<1>1. t.id \in Named \/ t.id \in Slugs
  BY Names DEF Valid, Violations
<1>2. CASE t.id \in Named
  BY <1>2, Names DEF ResolveNodeId, Gets, Txs
<1>3. CASE t.id \in Slugs
  <2>1. tx.slugs[t.id] = None
    BY <1>3 DEF ResolveNodeId
  <2>2. NewId(tx) \in Free(tx)
    BY NewIdIsFree
  <2>3. NewId(tx) \in Generated
    BY <2>2 DEF Free
  <2>4. ResolveNodeId(tx, t) = [ok |-> TRUE, id |-> NewId(tx), slugs |-> Assign(tx, t.id, NewId(tx))]
    BY <1>3, <2>1 DEF ResolveNodeId
  <2>5. QED
    BY <1>3, <2>1, <2>2, <2>3, <2>4, Names DEF Gets, Assign, Txs, Optional
<1>4. QED
  BY <1>1, <1>2, <1>3

LEMMA KgnTextOutcome ==
  ASSUME NEW tx \in Txs, NEW f \in Files \cup {"text"}, NEW t \in Texts, Free(tx) # {}
  PROVE  KgnOutcome(tx, f, t, IngestKgnText(tx, f, t))
<1> DEFINE r == ResolveNodeId(tx, t)
           tx2 == IngestKgnText(tx, f, t)
<1>1. CASE ~Valid(t) \/ ~r.ok
  <2>1. tx2 = Outcome(tx, f, t, "FAILED", None)
    BY <1>1 DEF IngestKgnText
  <2>2. ~r.ok => t.id \in Slugs /\ tx.slugs[t.id] # None
    BY DEF ResolveNodeId
  <2> HIDE DEF tx2
  <2>3. ResultAdded(tx, f, t, "FAILED", None, tx2)
    BY <2>1, OutcomeFields DEF Optional
  <2>4. KgnRefused(tx, f, t, tx2)
    BY <1>1, <2>2, <2>3 DEF KgnRefused, ResultAdded
  <2>5. KgnOutcome(tx, f, t, tx2)
    BY <2>3, <2>4 DEF KgnOutcome, ResultAdded
  <2>6. QED
    BY <2>5 DEF tx2
<1>2. CASE Valid(t) /\ r.ok
  <2> DEFINE tx1 == [tx EXCEPT !.slugs = r.slugs]
             same == SameHash(tx1, t)
  <2>1. /\ r.id \in Ids
        /\ Gets(tx, t, r.id, r.slugs)
        /\ r.slugs \in [Slugs -> Optional(Generated)]
    BY <1>2, ResolvedIsGot
  <2> HIDE DEF r
  <2>2. /\ tx1 \in Txs /\ tx1.slugs = r.slugs /\ tx1.nodes = tx.nodes
        /\ tx1.versions = tx.versions /\ tx1.edges = tx.edges /\ tx1.results = tx.results
    BY <2>1 DEF Txs
  <2>3. tx2 = Upsert(tx1, f, t, r.id)
    BY <1>2 DEF IngestKgnText, r
  <2> HIDE DEF tx1
  <2>4. CASE same # {}
    <3>1. PICK m \in Ids : tx1.nodes[m] = t /\ m = CHOOSE k \in same : TRUE
      BY <2>4 DEF SameHash
    <3>2. tx2 = Outcome(tx1, f, t, "SKIPPED", m)
      BY <2>3, <2>4, <3>1 DEF Upsert
    <3> HIDE DEF tx2, same
    <3>3. ResultAdded(tx1, f, t, "SKIPPED", m, tx2)
      BY <2>2, <3>1, <3>2, OutcomeFields DEF Optional
    <3>4. KgnSkipped(tx, f, t, tx2)
      BY <1>2, <2>1, <2>2, <3>1, <3>3 DEF KgnSkipped, ResultAdded, Adds
    <3>5. KgnOutcome(tx, f, t, tx2)
      BY <2>2, <3>3, <3>4 DEF KgnOutcome, ResultAdded
    <3>6. QED
      BY <3>5 DEF tx2
  <2>5. CASE same = {}
    <3> DEFINE w == IF tx1.nodes[r.id] # None
                    THEN [tx1 EXCEPT !.nodes[r.id] = t, !.versions[r.id] = @ + 1]
                    ELSE [tx1 EXCEPT !.nodes[r.id] = t]
    <3>1. tx2 = Outcome(w, f, t, "SUCCESS", r.id)
      BY <2>3, <2>5 DEF Upsert
    <3>2. /\ w \in Txs /\ w.slugs = tx1.slugs /\ w.edges = tx1.edges /\ w.results = tx1.results
          /\ w.nodes = [tx1.nodes EXCEPT ![r.id] = t]
      <4>1. [tx1.nodes EXCEPT ![r.id] = t] \in [Ids -> Optional(Texts)]
        BY <2>1, <2>2 DEF Txs, Optional
      <4>2. [tx1.versions EXCEPT ![r.id] = @ + 1] \in [Ids -> Nat]
        BY <2>1, <2>2 DEF Txs
      <4>3. CASE tx1.nodes[r.id] # None
        BY <2>2, <4>1, <4>2, <4>3 DEF Txs
      <4>4. CASE tx1.nodes[r.id] = None
        BY <2>2, <4>1, <4>4 DEF Txs
      <4>5. QED
        BY <4>3, <4>4
    <3> HIDE DEF w
    <3>3. \A m \in Ids : tx.nodes[m] # t
      BY <2>2, <2>5 DEF SameHash
    <3> HIDE DEF tx2, same
    <3>4. ResultAdded(w, f, t, "SUCCESS", r.id, tx2)
      BY <2>1, <3>1, <3>2, OutcomeFields DEF Optional
    <3>5. KgnWritten(tx, f, t, tx2)
      <4>1. tx2.slugs = r.slugs /\ tx2.nodes = [tx.nodes EXCEPT ![r.id] = t]
        BY <2>2, <3>2, <3>4 DEF ResultAdded
      <4>2. Adds(tx, Told1(f, t, "SUCCESS", r.id), tx2)
        BY <2>2, <3>2, <3>4 DEF ResultAdded, Adds
      <4>3. Gets(tx, t, r.id, tx2.slugs)
        BY <2>1, <4>1
      <4>4. QED
        BY <1>2, <2>1, <3>3, <4>1, <4>2, <4>3 DEF KgnWritten
    <3>6. KgnOutcome(tx, f, t, tx2)
      BY <2>2, <3>2, <3>4, <3>5 DEF KgnOutcome, ResultAdded
    <3>7. QED
      BY <3>6 DEF tx2
  <2>6. QED
    BY <2>4, <2>5
<1>3. QED
  BY <1>1, <1>2

\* An entry that is stored joins two nodes.
LEMMA StoredEntry ==
  ASSUME NEW tx \in Txs, NEW e \in Refs \X Refs, EntryFate(tx, e) = "stored"
  PROVE  \A k \in 1..2 : /\ e[k] \in Slugs => tx.slugs[e[k]] # None
                         /\ e[k] \notin Slugs => e[k] \in Ids
                         /\ Resolved(tx, e[k]) \in Ids
                         /\ tx.nodes[Resolved(tx, e[k])] # None
<1>1. ~Unknown(tx, e[1]) /\ ~Unknown(tx, e[2]) /\ e[1] # Malformed /\ e[2] # Malformed
  BY DEF EntryFate
<1>2. Stored(tx, e[1]) /\ Stored(tx, e[2])
  BY <1>1 DEF EntryFate
<1>3. ASSUME NEW k \in 1..2
      PROVE  /\ e[k] \in Slugs => tx.slugs[e[k]] # None
             /\ e[k] \notin Slugs => e[k] \in Ids
             /\ Resolved(tx, e[k]) \in Ids
             /\ tx.nodes[Resolved(tx, e[k])] # None
  <2>1. e[k] \in Refs /\ ~Unknown(tx, e[k]) /\ e[k] # Malformed /\ Stored(tx, e[k])
    BY <1>1, <1>2
  <2>2. QED
    BY <2>1, Names DEF Unknown, Stored, Resolved, Refs, Txs, Optional
<1>4. QED
  BY <1>3

\* What becomes of a .kge text.
KgeOutcome(tx, f, t, tx2) ==
  /\ tx2 \in Txs
  /\ tx2.nodes = tx.nodes /\ tx2.versions = tx.versions /\ tx2.slugs = tx.slugs
  /\ tx2.edges = IF t.parse = "parsed" THEN Linked(tx, t) ELSE tx.edges
  /\ Adds(tx, Told1(f, t, KgeFate(tx, t), None), tx2)

LEMMA KgeTextOutcome ==
  ASSUME NEW tx \in Txs, NEW f \in Files \cup {"text"}, NEW t \in EdgeTexts
  PROVE  KgeOutcome(tx, f, t, IngestKgeText(tx, f, t))
<1>1. /\ t.parse \in {"parsed", "KgeParseError", "Exception"}
      /\ t.edges \in Seq(Refs \X Refs)
  BY FilesAssumption DEF FilesAssumption
<1>2. KgeFate(tx, t) \in {"SUCCESS", "SKIPPED", "FAILED", "raises"}
  BY <1>1 DEF KgeFate
<1>3. Linked(tx, t) \subseteq Ids \X Ids
  <2>1. ASSUME NEW i \in {k \in Reached(tx, t) : EntryFate(tx, t.edges[k]) = "stored"}
        PROVE  <<Resolved(tx, t.edges[i][1]), Resolved(tx, t.edges[i][2])>> \in Ids \X Ids
    <3>1. t.edges[i] \in Refs \X Refs /\ EntryFate(tx, t.edges[i]) = "stored"
      BY <1>1, <2>1 DEF Reached
    <3>2. Resolved(tx, t.edges[i][1]) \in Ids /\ Resolved(tx, t.edges[i][2]) \in Ids
      BY <3>1, StoredEntry
    <3>3. QED
      BY <3>2
  <2>2. tx.edges \subseteq Ids \X Ids
    BY DEF Txs
  <2>3. QED
    BY <2>1, <2>2 DEF Linked
<1> DEFINE tx1 == IF t.parse = "parsed" THEN [tx EXCEPT !.edges = Linked(tx, t)] ELSE tx
<1>4. /\ tx1 \in Txs
      /\ tx1.nodes = tx.nodes /\ tx1.versions = tx.versions /\ tx1.slugs = tx.slugs
      /\ tx1.edges = IF t.parse = "parsed" THEN Linked(tx, t) ELSE tx.edges
      /\ tx1.results = tx.results
  BY <1>3 DEF Txs
<1>5. IngestKgeText(tx, f, t) = Outcome(tx1, f, t, KgeFate(tx, t), None)
  BY DEF IngestKgeText
<1> HIDE DEF tx1
<1>6. ResultAdded(tx1, f, t, KgeFate(tx, t), None, IngestKgeText(tx, f, t))
  BY <1>2, <1>4, <1>5, OutcomeFields DEF Optional
<1>7. QED
  BY <1>4, <1>6 DEF KgeOutcome, ResultAdded, Adds

-----------------------------------------------------------------------------
(***************************************************************************)
(* Types, and that there is always an id for a slug.                       *)
(***************************************************************************)
\* A text takes one free id at most.
LEMMA KgnTakesOne ==
  ASSUME NEW tx \in Txs, NEW f, NEW t \in Texts, NEW tx2, KgnOutcome(tx, f, t, tx2)
  PROVE  \E n : Free(tx) \ {n} \subseteq Free(tx2)
<1>1. ASSUME NEW n \in Ids, Gets(tx, t, n, tx2.slugs),
             tx2.nodes = tx.nodes \/ tx2.nodes = [tx.nodes EXCEPT ![n] = t]
      PROVE  Free(tx) \ {n} \subseteq Free(tx2)
  <2>1. \A g \in Free(tx) \ {n} : tx2.nodes[g] = None
    BY <1>1, Names DEF Free, Txs
  <2>2. Range(tx2.slugs) \subseteq Range(tx.slugs) \cup {n}
    BY <1>1 DEF Gets, Range, Txs
  <2>3. QED
    BY <2>1, <2>2 DEF Free
<1>2. CASE KgnRefused(tx, f, t, tx2)
  BY <1>2 DEF KgnRefused, Free
<1>3. CASE KgnSkipped(tx, f, t, tx2)
  BY <1>1, <1>3 DEF KgnSkipped
<1>4. CASE KgnWritten(tx, f, t, tx2)
  BY <1>1, <1>4 DEF KgnWritten
<1>5. QED
  BY <1>2, <1>3, <1>4 DEF KgnOutcome

LEMMA FreeFinite == ASSUME NEW tx PROVE IsFiniteSet(Free(tx)) /\ Cardinality(Free(tx)) \in Nat
<1>1. Free(tx) \in SUBSET Generated
  BY DEF Free
<1>2. QED
  BY <1>1, IdsAssumption, FS_Subset, FS_CardinalityType DEF IdsAssumption

LEMMA OneLess ==
  ASSUME NEW S, NEW T, NEW n, IsFiniteSet(S), IsFiniteSet(T), S \ {n} \subseteq T
  PROVE  Cardinality(T) >= Cardinality(S) - 1
<1>1. IsFiniteSet(S \ {n}) /\ Cardinality(S \ {n}) = IF n \in S THEN Cardinality(S) - 1 ELSE Cardinality(S)
  BY FS_RemoveElement
<1>2. Cardinality(S \ {n}) <= Cardinality(T)
  BY FS_Subset
<1>3. Cardinality(S) \in Nat /\ Cardinality(T) \in Nat
  BY FS_CardinalityType
<1>4. QED
  BY <1>1, <1>2, <1>3

LEMMA SomeFree ==
  ASSUME NEW tx, Cardinality(Free(tx)) > 0 PROVE Free(tx) # {}
BY FS_EmptySet

LEMMA TodoFinite ==
  ASSUME NEW F
  PROVE  IsFiniteSet(F \cap KgnFiles) /\ Cardinality(F \cap KgnFiles) \in Nat
<1>1. F \cap KgnFiles \in SUBSET KgnFiles
  OBVIOUS
<1>2. QED
  BY <1>1, KgnFilesFinite, FS_Subset, FS_CardinalityType

LEMMA EnoughForOne ==
  ASSUME NEW tx, NEW F, NEW f \in F \cap KgnFiles,
         Cardinality(Free(tx)) >= Cardinality(F \cap KgnFiles)
  PROVE  Free(tx) # {}
<1>1. Cardinality(F \cap KgnFiles) # 0
  BY TodoFinite, FS_EmptySet
<1>2. QED
  BY <1>1, TodoFinite, FreeFinite, SomeFree

\* A .kgn file comes before every .kge file.
LEMMA KgnBeforeKge ==
  ASSUME NEW f \in KgeFiles, NEW g \in KgnFiles PROVE ~Before(f, g)
<1>1. KgnOrder \in Seq(KgnFiles) /\ KgeOrder \in Seq(KgeFiles) /\ KgnFiles \cap KgeFiles = {}
  BY FilesAssumption DEF FilesAssumption
<1>2. Len(KgnOrder) \in Nat /\ Len(KgeOrder) \in Nat /\ Len(Order) = Len(KgnOrder) + Len(KgeOrder)
  BY <1>1 DEF Order
<1>3. \A i \in 1..Len(Order) :
        Order[i] = IF i <= Len(KgnOrder) THEN KgnOrder[i] ELSE KgeOrder[i - Len(KgnOrder)]
  BY <1>1 DEF Order
<1>4. \A i \in 1..Len(Order) : Order[i] \in KgnFiles => i <= Len(KgnOrder)
  <2>1. ASSUME NEW i \in 1..Len(Order), ~(i <= Len(KgnOrder)) PROVE Order[i] \in KgeFiles
    <3>1. i - Len(KgnOrder) \in 1..Len(KgeOrder) /\ Order[i] = KgeOrder[i - Len(KgnOrder)]
      BY <1>2, <1>3, <2>1
    <3>2. QED
      BY <1>1, <3>1
  <2>2. QED
    BY <1>1, <2>1
<1>5. \A i \in 1..Len(Order) : Order[i] \in KgeFiles => ~(i <= Len(KgnOrder))
  <2>1. ASSUME NEW i \in 1..Len(Order), i <= Len(KgnOrder) PROVE Order[i] \in KgnFiles
    <3>1. i \in 1..Len(KgnOrder) /\ Order[i] = KgnOrder[i]
      BY <1>2, <1>3, <2>1
    <3>2. QED
      BY <1>1, <3>1
  <2>2. QED
    BY <1>1, <2>1
<1>6. QED
  BY <1>2, <1>4, <1>5 DEF Before

\* A file that the batch reads, and what becomes of its transaction.
LEMMA FileOutcome ==
  ASSUME IngestTyped, call.kind = "batch", NEW f \in call.todo, ~Unreadable(f, disk[f])
  PROVE  /\ f \in KgnFiles => /\ disk[f] \in Texts
                              /\ Free(call.tx) # {}
                              /\ KgnOutcome(call.tx, f, disk[f], IngestKgnText(call.tx, f, disk[f]))
         /\ f \notin KgnFiles => /\ f \in KgeFiles /\ disk[f] \in EdgeTexts
                                 /\ KgeOutcome(call.tx, f, disk[f], IngestKgeText(call.tx, f, disk[f]))
<1>1. /\ call \in Batches
      /\ disk \in Disks
  BY DEF IngestTyped, TypeOK, Embeds, NoCall
<1>2. call.tx \in Txs /\ f \in Files
  BY <1>1 DEF Batches
<1>3. CASE f \in KgnFiles
  <2>1. disk[f] \in Texts
    BY <1>1, <1>3 DEF Disks, KgnContents, Unreadable
  <2>2. Free(call.tx) # {}
    BY <1>3, EnoughForOne DEF IngestTyped, Enough
  <2>3. QED
    BY <1>2, <1>3, <2>1, <2>2, KgnTextOutcome
<1>4. CASE f \notin KgnFiles
  <2>1. f \in KgeFiles
    BY <1>2, <1>4 DEF Files
  <2>2. disk[f] \in EdgeTexts
    BY <1>1, <2>1 DEF Disks, KgeContents, Unreadable
  <2>3. QED
    BY <1>2, <1>4, <2>1, <2>2, KgeTextOutcome
<1>5. QED
  BY <1>3, <1>4

\* The transaction and the files that are left after a file.
TxAfter(f) == IF f \in KgnFiles THEN IngestKgnText(call.tx, f, disk[f])
                                ELSE IngestKgeText(call.tx, f, disk[f])

LEMMA IngestFileCases ==
  ASSUME IngestTyped, IngestFile
  PROVE  /\ call.kind = "batch" /\ call.stage = "files"
         /\ UNCHANGED <<disk, bounds, store, history>>
         /\ \/ Raise
            \/ /\ report' = report
               /\ \E f \in call.todo :
                    /\ \A g \in call.todo \ {f} : Before(f, g)
                    /\ ~Unreadable(f, disk[f])
                    /\ call' = [call EXCEPT !.tx = TxAfter(f), !.todo = @ \ {f}]
                    /\ TxAfter(f) \in Txs
                    /\ call' \in Batches
<1>1. call.kind = "batch" /\ call.stage = "files"
  BY DEF IngestFile
<1>2. call \in Batches
  BY <1>1 DEF IngestTyped, TypeOK, Embeds, NoCall
<1>3. PICK f \in call.todo :
        /\ \A g \in call.todo \ {f} : Before(f, g)
        /\ IF Unreadable(f, disk[f]) THEN Raise
           ELSE /\ call' = [call EXCEPT !.tx = TxAfter(f), !.todo = @ \ {f}]
                /\ UNCHANGED <<store, report, history>>
  BY DEF IngestFile, TxAfter
<1>4. CASE Unreadable(f, disk[f])
  <2>1. UNCHANGED <<disk, bounds>>
    BY DEF IngestFile
  <2>2. QED
    BY <1>1, <1>3, <1>4, <2>1 DEF Raise
<1>5. CASE ~Unreadable(f, disk[f])
  <2>1. UNCHANGED <<disk, bounds>>
    BY DEF IngestFile
  <2>2. TxAfter(f) \in Txs
    BY <1>1, <1>5, FileOutcome DEF TxAfter, KgnOutcome, KgeOutcome
  <2>3. [call EXCEPT !.tx = TxAfter(f), !.todo = @ \ {f}] \in Batches
    BY <1>2, <2>2 DEF Batches
  <2>4. QED
    BY <1>1, <1>3, <1>5, <2>1, <2>2, <2>3
<1>6. QED
  BY <1>4, <1>5

LEMMA NoCallTyped ==
  ASSUME IngestTyped, call' = NoCall, UNCHANGED <<disk, store>>,
         report'.results \in Seq(Results), outdated' \subseteq Ids, settled' \in BOOLEAN
  PROVE  IngestTyped'
BY DEF IngestTyped, TypeOK, Enough, NoCall, store

LEMMA RaiseTyped ==
  ASSUME IngestTyped, Raise, UNCHANGED disk PROVE IngestTyped'
<1>1. report'.results = <<>> /\ call' = NoCall /\ UNCHANGED <<disk, store, history>>
  BY DEF Raise, Told
<1>2. <<>> \in Seq(Results)
  OBVIOUS
<1>3. QED
  BY <1>1, <1>2, NoCallTyped DEF history, IngestTyped, TypeOK

LEMMA IngestFileTyped ==
  ASSUME IngestTyped, IngestFile PROVE IngestTyped'
<1>1. CASE Raise
  BY <1>1, IngestFileCases, RaiseTyped
<1>2. CASE ~Raise
  <2>1. PICK f \in call.todo : /\ ~Unreadable(f, disk[f])
                               /\ call' = [call EXCEPT !.tx = TxAfter(f), !.todo = @ \ {f}]
                               /\ call' \in Batches
    BY <1>2, IngestFileCases
  <2>2. /\ call.kind = "batch" /\ report' = report
        /\ UNCHANGED <<disk, store, history>>
    BY <1>2, IngestFileCases
  <2>3. call \in Batches
    BY <2>2 DEF IngestTyped, TypeOK, Embeds, NoCall
  <2>4. call'.tx = TxAfter(f) /\ call'.todo = call.todo \ {f} /\ call.tx \in Txs
    BY <2>1, <2>3 DEF Batches
  <2>5. Cardinality(Free(call'.tx)) >= Cardinality(call'.todo \cap KgnFiles)
    <3>1. Cardinality(Free(call.tx)) >= Cardinality(call.todo \cap KgnFiles)
      BY <2>2 DEF IngestTyped, Enough
    <3>2. CASE f \in KgnFiles
      <4>1. KgnOutcome(call.tx, f, disk[f], TxAfter(f)) /\ disk[f] \in Texts
        BY <2>1, <2>2, <3>2, FileOutcome DEF TxAfter
      <4>2. PICK n : Free(call.tx) \ {n} \subseteq Free(TxAfter(f))
        BY <2>4, <4>1, KgnTakesOne
      <4>3. Cardinality(Free(TxAfter(f))) >= Cardinality(Free(call.tx)) - 1
        BY <4>2, FreeFinite, OneLess
      <4>4. call'.todo \cap KgnFiles = (call.todo \cap KgnFiles) \ {f}
        BY <2>4
      <4>5. Cardinality(call'.todo \cap KgnFiles) = Cardinality(call.todo \cap KgnFiles) - 1
        <5> DEFINE S == call.todo \cap KgnFiles
        <5>1. IsFiniteSet(S) /\ f \in S
          BY <3>2, TodoFinite
        <5> HIDE DEF S
        <5>2. Cardinality(S \ {f}) = Cardinality(S) - 1
          BY <5>1, FS_RemoveElement
        <5>3. QED
          BY <4>4, <5>2 DEF S
      <4>6. /\ Cardinality(Free(TxAfter(f))) \in Nat /\ Cardinality(Free(call.tx)) \in Nat
            /\ Cardinality(call.todo \cap KgnFiles) \in Nat
        BY FreeFinite, TodoFinite
      <4>7. Cardinality(Free(TxAfter(f))) >= Cardinality(call'.todo \cap KgnFiles)
        BY <3>1, <4>3, <4>5, <4>6
      <4>8. QED
        BY <2>4, <4>7
    <3>3. CASE f \notin KgnFiles
      <4>1. KgeOutcome(call.tx, f, disk[f], TxAfter(f))
        BY <2>1, <2>2, <3>3, FileOutcome DEF TxAfter
      <4>2. Free(TxAfter(f)) = Free(call.tx)
        BY <4>1 DEF KgeOutcome, Free
      <4>3. call'.todo \cap KgnFiles = call.todo \cap KgnFiles
        BY <2>4, <3>3
      <4>4. QED
        BY <2>4, <3>1, <4>2, <4>3
    <3>4. QED
      BY <3>2, <3>3
  <2>6. TypeOK'
    BY <2>1, <2>2 DEF IngestTyped, TypeOK, store, history
  <2>7. QED
    BY <2>5, <2>6 DEF IngestTyped, Enough
<1>3. QED
  BY <1>1, <1>2

LEMMA SnapshotTyped ==
  ASSUME IngestTyped PROVE Snapshot \in Txs
<1>1. NoSlugs \in [Slugs -> Optional(Generated)] /\ <<>> \in Seq(Results)
  BY DEF NoSlugs, Optional
<1>2. QED
  BY <1>1 DEF IngestTyped, TypeOK, Snapshot, Txs

\* Before a slug has an id, the free ids are those that are no node.
LEMMA SnapshotFree == Free(Snapshot) = FreeIds
<1>1. Range(NoSlugs) \subseteq {None}
  BY DEF NoSlugs, Range
<1>2. Range(NoSlugs) \cap Generated = {}
  BY <1>1, Names
<1>3. Snapshot.slugs = NoSlugs /\ Snapshot.nodes = nodes
  BY DEF Snapshot
<1>4. QED
  BY <1>2, <1>3 DEF Free, FreeIds

LEMMA BeginBatchTyped ==
  ASSUME IngestTyped, NEW b \in BOOLEAN, BeginBatch(b) PROVE IngestTyped'
<1>1. NoTexts \in [Ids -> Optional(Texts)] /\ 0 \in 0..MaxRetries - 1
  BY NumbersAssumption DEF NumbersAssumption, NoTexts, Optional
<1>2. call' \in Batches
  BY <1>1, SnapshotTyped DEF BeginBatch, Batches
<1>3. call'.tx = Snapshot /\ call'.todo \in SUBSET Files
  BY <1>2 DEF BeginBatch, Batches
<1>4. call'.todo \cap KgnFiles \in SUBSET KgnFiles
  OBVIOUS
<1>5. Cardinality(call'.todo \cap KgnFiles) <= Cardinality(KgnFiles)
  BY <1>4, KgnFilesFinite, FS_Subset
<1>6. Cardinality(Free(Snapshot)) >= Cardinality(KgnFiles)
  BY SnapshotFree DEF BeginBatch
<1>7. Free(call'.tx) = Free(Snapshot)
  BY <1>3
<1>8. Cardinality(Free(Snapshot)) >= Cardinality(call'.todo \cap KgnFiles)
  <2>1. /\ Cardinality(Free(Snapshot)) \in Nat /\ Cardinality(KgnFiles) \in Nat
        /\ Cardinality(call'.todo \cap KgnFiles) \in Nat
    BY KgnFilesFinite, FS_CardinalityType, FreeFinite, TodoFinite
  <2>2. QED
    BY <1>5, <1>6, <2>1
<1>9. report'.results = <<>> /\ <<>> \in Seq(Results)
  BY DEF BeginBatch, NoReport
<1>10. TypeOK'
  BY <1>2, <1>9 DEF BeginBatch, IngestTyped, TypeOK, store, history
<1>11. QED
  BY <1>7, <1>8, <1>10 DEF IngestTyped, Enough

LEMMA TextsOfTyped ==
  ASSUME NEW table \in [Ids -> Optional(Texts)], NEW N
  PROVE  TextsOf(table, N) \in [Ids -> Optional(Texts)]
BY DEF TextsOf, Optional

LEMMA EmbedTyped ==
  ASSUME IngestTyped, call' \in Embeds, UNCHANGED <<disk, store, history>>,
         report'.results \in Seq(Results)
  PROVE  IngestTyped'
BY DEF IngestTyped, TypeOK, Enough, store, history, Embeds

LEMMA BeginEmbedTyped ==
  ASSUME IngestTyped, NEW force \in BOOLEAN, BeginEmbed(force) PROVE IngestTyped'
<1>1. NoTexts \in [Ids -> Optional(Texts)] /\ 0 \in 0..MaxRetries - 1
  BY NumbersAssumption DEF NumbersAssumption, NoTexts, Optional
<1>2. TextsOf(nodes, IF force THEN Ids ELSE Unembedded) \in [Ids -> Optional(Texts)]
  BY TextsOfTyped DEF IngestTyped, TypeOK
<1>3. call' \in Embeds
  BY <1>1, <1>2 DEF BeginEmbed, Embeds
<1>4. report'.results = <<>> /\ <<>> \in Seq(Results)
  BY DEF BeginEmbed, NoReport
<1>5. QED
  BY <1>3, <1>4, EmbedTyped DEF BeginEmbed

\* A step that only changes a batch's stage, texts and vectors.
LEMMA BatchTyped ==
  ASSUME IngestTyped, call.kind = "batch", call' \in Batches,
         call'.tx = call.tx, call'.todo = call.todo,
         UNCHANGED <<disk, store, report, history>>
  PROVE  IngestTyped'
BY DEF IngestTyped, TypeOK, Enough, store, history

LEMMA ReadMutatedTyped == ASSUME IngestTyped, ReadMutated PROVE IngestTyped'
<1>1. call \in Batches
  BY DEF ReadMutated, IngestTyped, TypeOK, Embeds, NoCall
<1>2. NoTexts \in [Ids -> Optional(Texts)] /\ TextsOf(call.tx.nodes, Mutated) \in [Ids -> Optional(Texts)]
  BY <1>1, TextsOfTyped DEF NoTexts, Optional, Batches, Txs
<1>3. call' = [call EXCEPT !.rows = IF call.embed THEN TextsOf(call.tx.nodes, Mutated) ELSE NoTexts,
                           !.stage = "vectors"]
  BY DEF ReadMutated
<1>4. call' \in Batches /\ call'.tx = call.tx /\ call'.todo = call.todo
  BY <1>1, <1>2, <1>3 DEF Batches
<1>5. QED
  BY <1>4, BatchTyped DEF ReadMutated

\* What a step of the API may do to a command.
CommandWith(v, r, k) == [call EXCEPT !.vectors = v, !.rows = r, !.attempt = k]

LEMMA VectorsTyped ==
  ASSUME IngestTyped, call.kind # "none",
         NEW v \in [Ids -> Optional(Texts)], NEW r \in [Ids -> Optional(Texts)],
         NEW k \in 0..MaxRetries - 1,
         call' = CommandWith(v, r, k),
         UNCHANGED <<disk, store, report, history>>
  PROVE  IngestTyped'
<1>1. CASE call \in Batches
  <2>1. call' \in Batches /\ call'.tx = call.tx /\ call'.todo = call.todo /\ call.kind = "batch"
    BY <1>1 DEF Batches, CommandWith
  <2>2. QED
    BY <2>1, BatchTyped
<1>2. CASE call \in Embeds
  <2>1. call' \in Embeds
    BY <1>2 DEF Embeds, CommandWith
  <2>2. QED
    BY <2>1, EmbedTyped DEF IngestTyped, TypeOK
<1>3. QED
  BY <1>1, <1>2 DEF IngestTyped, TypeOK, NoCall

LEMMA CommandFields ==
  ASSUME IngestTyped, call.kind # "none"
  PROVE  /\ call \in Batches \cup Embeds
         /\ call.rows \in [Ids -> Optional(Texts)] /\ call.vectors \in [Ids -> Optional(Texts)]
         /\ call.attempt \in 0..MaxRetries - 1
         /\ call.kind = "batch" <=> call \in Batches
         /\ call.kind = "embed" <=> call \in Embeds
<1>1. call \in Batches \cup Embeds
  BY DEF IngestTyped, TypeOK, NoCall
<1>2. CASE call \in Batches
  BY <1>2 DEF Batches, Embeds
<1>3. CASE call \in Embeds
  BY <1>3 DEF Batches, Embeds
<1>4. QED
  BY <1>1, <1>2, <1>3

LEMMA ApiAnswersTyped == ASSUME IngestTyped, ApiAnswers PROVE IngestTyped'
<1>1. PICK C \in SUBSET Given(call.rows) :
        call' = [call EXCEPT !.vectors = Vectors(C),
                             !.rows = [n \in Ids |-> IF n \in C THEN None ELSE @[n]],
                             !.attempt = 0]
  BY DEF ApiAnswers
<1>2. call.kind # "none"
  BY DEF ApiAnswers, Waiting
<1> DEFINE left == [n \in Ids |-> IF n \in C THEN None ELSE call.rows[n]]
<1>3. call' = CommandWith(Vectors(C), left, 0)
  BY <1>1, <1>2, CommandFields DEF Batches, Embeds, CommandWith
<1>4. Vectors(C) \in [Ids -> Optional(Texts)] /\ left \in [Ids -> Optional(Texts)]
  BY <1>2, CommandFields DEF Vectors, Optional
<1>5. 0 \in 0..MaxRetries - 1
  BY NumbersAssumption DEF NumbersAssumption
<1>6. UNCHANGED <<disk, store, report, history>>
  BY DEF ApiAnswers
<1> HIDE DEF left
<1>7. QED
  BY <1>2, <1>3, <1>4, <1>5, <1>6, VectorsTyped

LEMMA ApiBusyTyped == ASSUME IngestTyped, ApiBusy PROVE IngestTyped'
<1>1. CASE call.attempt < MaxRetries - 1
  <2>1. call.kind # "none" /\ call' = [call EXCEPT !.attempt = @ + 1]
    BY <1>1 DEF ApiBusy, Waiting
  <2>2. call.attempt + 1 \in 0..MaxRetries - 1
    BY <1>1, <2>1, CommandFields, NumbersAssumption DEF NumbersAssumption
  <2>3. call' = CommandWith(call.vectors, call.rows, call.attempt + 1)
    BY <2>1, CommandFields DEF Batches, Embeds, CommandWith
  <2>4. UNCHANGED <<disk, store, report, history>>
    BY <1>1 DEF ApiBusy
  <2>5. call.rows \in [Ids -> Optional(Texts)] /\ call.vectors \in [Ids -> Optional(Texts)]
    BY <2>1, CommandFields
  <2>6. QED
    BY <2>1, <2>2, <2>3, <2>4, <2>5, VectorsTyped
<1>2. CASE ~(call.attempt < MaxRetries - 1)
  BY <1>2, RaiseTyped DEF ApiBusy, ApiGivesUp
<1>3. QED
  BY <1>1, <1>2

LEMMA NoClientTyped == ASSUME IngestTyped, NoClient PROVE IngestTyped'
<1>1. NoTexts \in [Ids -> Optional(Texts)]
  BY DEF NoTexts, Optional
<1>2. call.kind # "none" /\ call' = [call EXCEPT !.rows = NoTexts]
  BY DEF NoClient, Waiting
<1>3. call' = CommandWith(call.vectors, NoTexts, call.attempt)
  BY <1>2, CommandFields DEF Batches, Embeds, CommandWith
<1>4. UNCHANGED <<disk, store, report, history>>
  BY DEF NoClient
<1>5. call.vectors \in [Ids -> Optional(Texts)] /\ call.attempt \in 0..MaxRetries - 1
  BY <1>2, CommandFields
<1>6. QED
  BY <1>1, <1>2, <1>3, <1>4, <1>5, VectorsTyped

LEMMA VectorRefusedTyped == ASSUME IngestTyped, VectorRefused PROVE IngestTyped'
<1>1. CASE call.kind = "embed" /\ Raise
  BY <1>1, RaiseTyped DEF VectorRefused
<1>2. CASE ~(call.kind = "embed" /\ Raise)
  <2>1. call.kind = "batch" /\ report'.results = call.tx.results /\ call' = NoCall
    BY <1>2 DEF VectorRefused, Told
  <2>2. call.tx.results \in Seq(Results)
    BY <2>1, CommandFields DEF Batches, Txs
  <2>3. UNCHANGED <<disk, store, history>>
    BY <1>2 DEF VectorRefused
  <2>4. QED
    BY <2>1, <2>2, <2>3, NoCallTyped DEF history, IngestTyped, TypeOK
<1>3. QED
  BY <1>1, <1>2

LEMMA EmbeddedTyped ==
  ASSUME IngestTyped, call.kind # "none" PROVE Embedded \in [Ids -> Optional(Texts)]
BY CommandFields DEF Embedded, IngestTyped, TypeOK, Optional

LEMMA CommitBatchTyped == ASSUME IngestTyped, CommitBatch PROVE IngestTyped'
<1>1. /\ call.kind = "batch" /\ call' = NoCall /\ disk' = disk
      /\ nodes' = call.tx.nodes /\ versions' = call.tx.versions /\ edges' = call.tx.edges
      /\ embedding' = Embedded
      /\ outdated' \subseteq outdated \cup Updated(call.tx)
      /\ settled' \in BOOLEAN
      /\ report'.results = call.tx.results
  BY DEF CommitBatch, Told
<1>2. call.tx \in Txs
  BY <1>1, CommandFields DEF Batches
<1>3. outdated' \subseteq Ids
  BY <1>1 DEF Updated, IngestTyped, TypeOK
<1>4. TypeOK'
  BY <1>1, <1>2, <1>3, EmbeddedTyped DEF IngestTyped, TypeOK, Txs
<1>5. QED
  BY <1>1, <1>4 DEF IngestTyped, Enough, NoCall

LEMMA CommitEmbedTyped == ASSUME IngestTyped, CommitEmbed PROVE IngestTyped'
<1>1. /\ call.kind = "embed" /\ call' = NoCall
      /\ UNCHANGED <<disk, nodes, versions, edges, settled>>
      /\ embedding' = Embedded
      /\ outdated' \subseteq outdated \cup call.overtaken
      /\ report'.results = <<>>
  BY DEF CommitEmbed, Told
<1>2. call.overtaken \subseteq Ids
  BY <1>1, CommandFields DEF Embeds
<1>3. TypeOK'
  BY <1>1, <1>2, EmbeddedTyped DEF IngestTyped, TypeOK
<1>4. QED
  BY <1>1, <1>3 DEF IngestTyped, Enough, NoCall

LEMMA WriteFileTyped ==
  ASSUME IngestTyped, NEW f \in Files, NEW t, WriteFile(f, t),
         (f \in KgnFiles /\ t \in KgnContents) \/ (f \in KgeFiles /\ t \in KgeContents)
  PROVE  IngestTyped'
<1>1. disk' = [disk EXCEPT ![f] = t] /\ disk \in Disks
  BY DEF WriteFile, IngestTyped, TypeOK
<1>2. disk' \in Disks
  <2>1. KgnFiles \cap KgeFiles = {}
    BY FilesAssumption DEF FilesAssumption
  <2>2. disk' \in [Files -> KgnContents \cup KgeContents]
    BY <1>1 DEF Disks
  <2>3. \A g \in Files : disk'[g] = IF g = f THEN t ELSE disk[g]
    BY <1>1 DEF Disks
  <2>4. \A g \in KgnFiles : disk'[g] \in KgnContents
    BY <1>1, <2>1, <2>3 DEF Disks, Files
  <2>5. \A g \in KgeFiles : disk'[g] \in KgeContents
    BY <1>1, <2>1, <2>3 DEF Disks, Files
  <2>6. QED
    BY <2>2, <2>4, <2>5 DEF Disks
<1>3. /\ call' = IF call.kind = "batch" THEN [call EXCEPT !.moved = TRUE] ELSE call
      /\ UNCHANGED <<store, report, outdated>> /\ settled' = FALSE
  BY DEF WriteFile
<1>4. CASE call.kind = "batch"
  <2>1. call \in Batches
    BY <1>4, CommandFields
  <2>2. call' \in Batches /\ call'.tx = call.tx /\ call'.todo = call.todo
    BY <1>3, <1>4, <2>1 DEF Batches
  <2>3. QED
    BY <1>2, <1>3, <1>4, <2>2 DEF IngestTyped, TypeOK, Enough, store
<1>5. CASE call.kind # "batch"
  BY <1>2, <1>3, <1>5 DEF IngestTyped, TypeOK, Enough, store
<1>6. QED
  BY <1>4, <1>5

\* A call of ingest_node: an error, a success that is lost, or one that is stored.
NodeStored(t, vector, tx) ==
  LET r == tx.results[1]
  IN /\ r.id \in Ids /\ tx.nodes[r.id] = t
     /\ nodes' = tx.nodes /\ versions' = tx.versions /\ edges' = edges
     /\ embedding' = IF vector = "stored" THEN [embedding EXCEPT ![r.id] = tx.nodes[r.id]] ELSE embedding
     /\ outdated' = IF vector = "stored" THEN outdated \ {r.id} ELSE outdated \cup Updated(tx)
     /\ call' = IF call.kind = "embed"
                THEN [call EXCEPT !.overtaken = @ \cup Updated(tx)] ELSE call
     /\ settled' = (settled /\ Updated(tx) = {})
     /\ vector = "stored" /\ call.kind = "embed" => r.id \notin Given(call.vectors)

LEMMA IngestNodeCases ==
  ASSUME IngestTyped, NEW t \in Texts, NEW vector, NEW guard, IngestNode(t, vector, guard)
  PROVE  LET tx == IngestKgnText(Snapshot, "text", t)
         IN /\ KgnOutcome(Snapshot, "text", t, tx)
            /\ call.kind \in {"none", "embed"} /\ disk' = disk
            /\ \/ /\ UNCHANGED <<call, store, history>>
                  /\ Told("node", "error", <<>>, FALSE) \/ Told("node", "done", tx.results, TRUE)
               \/ /\ NodeStored(t, vector, tx)
                  /\ Told("node", "done", tx.results, FALSE)
<1> DEFINE tx == IngestKgnText(Snapshot, "text", t)
           r == tx.results[1]
<1>1. Free(Snapshot) # {}
  <2>1. Cardinality(FreeIds) > Cardinality(KgnFiles) /\ Cardinality(KgnFiles) \in Nat
    BY KgnFilesFinite, FS_CardinalityType DEF IngestNode
  <2>2. QED
    BY <2>1, SnapshotFree, FreeFinite, SomeFree
<1>2. KgnOutcome(Snapshot, "text", t, tx)
  BY <1>1, SnapshotTyped, KgnTextOutcome
<1>3. call.kind \in {"none", "embed"} /\ disk' = disk
  BY DEF IngestNode, Quick
<1>4. CASE Refused(t, guard) \/ ParseStrict(t) = "Exception" \/ r.status = "FAILED"
  BY <1>2, <1>3, <1>4 DEF IngestNode
<1>5. CASE ~(Refused(t, guard) \/ ParseStrict(t) = "Exception" \/ r.status = "FAILED")
  <2>1. Snapshot.results = <<>>
    BY DEF Snapshot
  <2>2. r.status # "FAILED"
    BY <1>5
  <2>3. r.id \in Ids /\ tx.nodes[r.id] = t
    <3> HIDE DEF tx
    <3>1. ~KgnRefused(Snapshot, "text", t, tx)
      BY <2>1, <2>2 DEF KgnRefused, Adds, Told1
    <3>2. CASE KgnSkipped(Snapshot, "text", t, tx)
      BY <2>1, <3>2 DEF KgnSkipped, Adds, Told1
    <3>3. CASE KgnWritten(Snapshot, "text", t, tx)
      <4>1. PICK n \in Ids : /\ tx.nodes = [Snapshot.nodes EXCEPT ![n] = t]
                             /\ Adds(Snapshot, Told1("text", t, "SUCCESS", n), tx)
        BY <3>3 DEF KgnWritten
      <4>2. r.id = n
        BY <2>1, <4>1 DEF Adds, Told1
      <4>3. tx.nodes[n] = t
        BY <4>1, SnapshotTyped DEF Txs
      <4>4. QED
        BY <4>2, <4>3
    <3>4. QED
      BY <1>2, <3>1, <3>2, <3>3 DEF KgnOutcome
  <2>4. CASE vector = "refused"
    BY <1>2, <1>3, <1>5, <2>4 DEF IngestNode
  <2>5. CASE vector # "refused"
    <3>1. /\ vector = "stored" /\ call.kind = "embed" => r.id \notin Given(call.vectors)
          /\ Told("node", "done", tx.results, FALSE)
      BY <1>5, <2>5 DEF IngestNode
    <3>2. NodeStored(t, vector, tx)
      BY <1>5, <2>3, <2>5 DEF IngestNode, NodeStored
    <3>3. QED
      BY <1>2, <1>3, <3>1, <3>2
  <2>6. QED
    BY <2>4, <2>5
<1>6. QED
  BY <1>4, <1>5

LEMMA IngestNodeTyped ==
  ASSUME IngestTyped, NEW t \in Texts, NEW vector, NEW guard, IngestNode(t, vector, guard)
  PROVE  IngestTyped'
<1> DEFINE tx == IngestKgnText(Snapshot, "text", t)
<1>1. tx \in Txs /\ tx.edges = edges
  BY IngestNodeCases DEF KgnOutcome, Snapshot
<1>2. call.kind \in {"none", "embed"} /\ disk' = disk
  BY IngestNodeCases
<1> HIDE DEF tx
<1>3. ASSUME UNCHANGED <<call, store, history>>,
             Told("node", "error", <<>>, FALSE) \/ Told("node", "done", tx.results, TRUE)
      PROVE  IngestTyped'
  <2>1. report'.results \in Seq(Results)
    <3>1. report'.results = <<>> \/ report'.results = tx.results
      BY <1>3 DEF Told
    <3>2. <<>> \in Seq(Results) /\ tx.results \in Seq(Results)
      BY <1>1 DEF Txs
    <3>3. QED
      BY <3>1, <3>2
  <2>2. QED
    BY <1>2, <1>3, <2>1 DEF IngestTyped, TypeOK, Enough, store, history
<1>4. ASSUME NodeStored(t, vector, tx), Told("node", "done", tx.results, FALSE)
      PROVE  IngestTyped'
  <2>1. /\ nodes' = tx.nodes /\ versions' = tx.versions /\ edges' = edges
        /\ tx.results[1].id \in Ids
        /\ embedding' = IF vector = "stored"
                        THEN [embedding EXCEPT ![tx.results[1].id] = tx.nodes[tx.results[1].id]]
                        ELSE embedding
        /\ call' = IF call.kind = "embed"
                   THEN [call EXCEPT !.overtaken = @ \cup Updated(tx)] ELSE call
        /\ outdated' \subseteq outdated \cup Updated(tx) /\ settled' \in BOOLEAN
    BY <1>4 DEF NodeStored
  <2>2. Updated(tx) \subseteq Ids
    BY DEF Updated
  <2>3. report'.results \in Seq(Results)
    BY <1>1, <1>4 DEF Told, Txs
  <2>4. embedding' \in [Ids -> Optional(Texts)]
    BY <1>1, <2>1 DEF Txs, IngestTyped, TypeOK
  <2>5. call' \in Embeds \cup {NoCall}
    <3>1. CASE call.kind = "embed"
      <4>1. call \in Embeds
        BY <3>1, CommandFields
      <4>2. call' = [call EXCEPT !.overtaken = call.overtaken \cup Updated(tx)]
        BY <2>1, <3>1, <4>1 DEF Embeds
      <4>3. QED
        BY <2>2, <4>1, <4>2 DEF Embeds
    <3>2. CASE call.kind = "none"
      BY <2>1, <3>2 DEF IngestTyped, TypeOK, Batches, Embeds
    <3>3. QED
      BY <1>2, <3>1, <3>2
  <2>6. TypeOK'
    BY <1>1, <1>2, <2>1, <2>2, <2>3, <2>4, <2>5 DEF Txs, IngestTyped, TypeOK
  <2>7. QED
    BY <2>5, <2>6 DEF IngestTyped, Enough, Embeds, NoCall
<1>5. QED
  BY <1>3, <1>4, IngestNodeCases DEF tx

\* A call of ingest_edge: what it stores, and what it says.
LEMMA IngestEdgeCases ==
  ASSUME IngestTyped, NEW t \in EdgeTexts, NEW guard, IngestEdge(t, guard)
  PROVE  LET tx == IngestKgeText(Snapshot, "text", t)
         IN /\ KgeOutcome(Snapshot, "text", t, tx)
            /\ call.kind \in {"none", "embed"}
            /\ UNCHANGED <<disk, nodes, versions, embedding, call, writes, outdated>>
            /\ settled' = (settled /\ edges' = edges)
            /\ \/ edges' \in {edges, tx.edges} /\ Told("edge", "error", <<>>, FALSE)
               \/ /\ edges' = tx.edges
                  /\ KgeFate(Snapshot, t) = "SUCCESS"
                  /\ Told("edge", "done", tx.results, FALSE)
<1>1. KgeOutcome(Snapshot, "text", t, IngestKgeText(Snapshot, "text", t))
  BY SnapshotTyped, KgeTextOutcome
<1>2. QED
  BY <1>1 DEF IngestEdge, Quick

LEMMA IngestEdgeTyped ==
  ASSUME IngestTyped, NEW t \in EdgeTexts, NEW guard, IngestEdge(t, guard)
  PROVE  IngestTyped'
<1> DEFINE tx == IngestKgeText(Snapshot, "text", t)
<1>1. tx \in Txs
  BY IngestEdgeCases DEF KgeOutcome
<1>2. /\ UNCHANGED <<disk, nodes, versions, embedding, call, outdated>>
      /\ settled' \in BOOLEAN /\ call.kind \in {"none", "embed"}
  BY IngestEdgeCases
<1>3. edges' \in {edges, tx.edges} /\ report'.results \in {<<>>, tx.results}
  BY IngestEdgeCases DEF Told
<1> HIDE DEF tx
<1>4. edges' \subseteq Ids \X Ids
  <2>1. edges \subseteq Ids \X Ids /\ tx.edges \subseteq Ids \X Ids
    BY <1>1 DEF Txs, IngestTyped, TypeOK
  <2>2. QED
    BY <1>3, <2>1
<1>5. report'.results \in Seq(Results)
  <2>1. <<>> \in Seq(Results) /\ tx.results \in Seq(Results)
    BY <1>1 DEF Txs
  <2>2. QED
    BY <1>3, <2>1
<1>6. QED
  BY <1>2, <1>4, <1>5 DEF IngestTyped, TypeOK, Enough

\* The steps, with what the inputs may be.
LEMMA Steps ==
  ASSUME Next
  PROVE  \/ \E b \in BOOLEAN : BeginBatch(b) \/ BeginEmbed(b)
         \/ IngestFile \/ ReadMutated \/ ApiAnswers \/ ApiBusy \/ ApiRefuses
         \/ VectorRefused \/ NoClient \/ CommitBatch \/ CommitEmbed \/ Fail
         \/ \E t \in Texts : \E v, guard : IngestNode(t, v, guard)
         \/ \E t \in EdgeTexts : \E guard : IngestEdge(t, guard)
         \/ \E f \in Files : \E t :
              /\ WriteFile(f, t)
              /\ (f \in KgnFiles /\ t \in KgnContents) \/ (f \in KgeFiles /\ t \in KgeContents)
BY DEF Next, CommandStep, Files, KgnContents, KgeContents

LEMMA InitTyped == ASSUME Init PROVE IngestTyped
<1>1. report.results = <<>> /\ <<>> \in Seq(Results)
  BY DEF Init, NoReport
<1>2. TypeOK
  BY <1>1, FilesAssumption DEF FilesAssumption, Init, TypeOK, Optional
<1>3. QED
  BY <1>2 DEF IngestTyped, Enough, Init, NoCall

LEMMA NextTyped == ASSUME IngestTyped, [Next]_vars PROVE IngestTyped'
<1>1. CASE UNCHANGED vars
  BY <1>1 DEF vars, store, bounds, history, IngestTyped, TypeOK, Enough, Free
<1>2. CASE Next
  <2>1. CASE \E b \in BOOLEAN : BeginBatch(b) \/ BeginEmbed(b)
    BY <2>1, BeginBatchTyped, BeginEmbedTyped
  <2>2. CASE IngestFile
    BY <2>2, IngestFileTyped
  <2>3. CASE ReadMutated
    BY <2>3, ReadMutatedTyped
  <2>4. CASE ApiAnswers
    BY <2>4, ApiAnswersTyped
  <2>5. CASE ApiBusy
    BY <2>5, ApiBusyTyped
  <2>6. CASE ApiRefuses
    BY <2>6, RaiseTyped DEF ApiRefuses, ApiGivesUp
  <2>7. CASE VectorRefused
    BY <2>7, VectorRefusedTyped
  <2>8. CASE NoClient
    BY <2>8, NoClientTyped
  <2>9. CASE CommitBatch
    BY <2>9, CommitBatchTyped
  <2>10. CASE CommitEmbed
    BY <2>10, CommitEmbedTyped
  <2>11. CASE Fail
    BY <2>11, RaiseTyped DEF Fail
  <2>12. CASE \E t \in Texts : \E v, guard : IngestNode(t, v, guard)
    BY <2>12, IngestNodeTyped
  <2>13. CASE \E t \in EdgeTexts : \E guard : IngestEdge(t, guard)
    BY <2>13, IngestEdgeTyped
  <2>14. CASE \E f \in Files : \E t :
                /\ WriteFile(f, t)
                /\ (f \in KgnFiles /\ t \in KgnContents) \/ (f \in KgeFiles /\ t \in KgeContents)
    BY <2>14, WriteFileTyped
  <2>15. QED
    BY <1>2, <2>1, <2>2, <2>3, <2>4, <2>5, <2>6, <2>7, <2>8, <2>9, <2>10, <2>11,
       <2>12, <2>13, <2>14, Steps
<1>3. QED
  BY <1>1, <1>2

LEMMA AlwaysTyped == Spec => []IngestTyped
<1>1. Init => IngestTyped
  BY InitTyped
<1>2. IngestTyped /\ [Next]_vars => IngestTyped'
  BY NextTyped
<1>3. QED
  BY <1>1, <1>2, PTL DEF Spec

\* The variables have their types, and a transaction has an id left for the
\* slug of every file that it still has to read.
THEOREM IngestTypes == Spec => []TypeOK
<1>1. IngestTyped => TypeOK
  BY DEF IngestTyped
<1>2. QED
  BY <1>1, AlwaysTyped, PTL

-----------------------------------------------------------------------------
(***************************************************************************)
(* What a caller is told is stored.                                        *)
(***************************************************************************)
LEMMA Appended ==
  ASSUME NEW S, NEW s \in Seq(S), NEW e \in S
  PROVE  /\ Len(s) \in Nat /\ Len(Append(s, e)) = Len(s) + 1
         /\ \A i \in 1..Len(s) : Append(s, e)[i] = s[i]
         /\ Append(s, e)[Len(s) + 1] = e
         /\ Range(Append(s, e)) = Range(s) \cup {e}
<1>1. /\ Len(s) \in Nat /\ Len(Append(s, e)) = Len(s) + 1
      /\ \A i \in 1..Len(s) : Append(s, e)[i] = s[i]
      /\ Append(s, e)[Len(s) + 1] = e
  OBVIOUS
<1>2. DOMAIN s = 1..Len(s) /\ DOMAIN Append(s, e) = 1..(Len(s) + 1)
  OBVIOUS
<1>3. 1..(Len(s) + 1) = (1..Len(s)) \cup {Len(s) + 1}
  BY <1>1
<1>4. QED
  BY <1>1, <1>2, <1>3 DEF Range

LEMMA TxAppended ==
  ASSUME NEW tx \in Txs, NEW tx2 \in Txs, NEW e, Adds(tx, e, tx2)
  PROVE  /\ Len(tx.results) \in Nat /\ Len(tx2.results) = Len(tx.results) + 1
         /\ \A i \in 1..Len(tx.results) : tx2.results[i] = tx.results[i]
         /\ tx2.results[Len(tx.results) + 1] = e
         /\ Range(tx2.results) = Range(tx.results) \cup {e}
<1>1. tx.results \in Seq(Results) /\ tx2.results \in Seq(Results)
  BY DEF Txs
<1>2. tx.results \in Seq(Results \cup {e})
  BY <1>1
<1>3. QED
  BY <1>2, Appended DEF Adds

\* An id that a text gets is of no other slug, and no other text names it.
LEMMA GotIsNew ==
  ASSUME NEW tx \in Txs, NEW t \in Texts, NEW n \in Ids, NEW slugs, Gets(tx, t, n, slugs)
  PROVE  /\ n \in Named => t.id = n
         /\ \A s \in Slugs : s # t.id => slugs[s] = tx.slugs[s] /\ slugs[s] # n
         /\ t.id \in Slugs => tx.slugs[t.id] = None /\ slugs[t.id] = n /\ tx.nodes[n] = None
<1>1. CASE t.id \in Named
  <2>1. n = t.id /\ slugs = tx.slugs /\ t.id \notin Slugs
    BY <1>1, Names DEF Gets, Ids
  <2>2. \A s \in Slugs : tx.slugs[s] # n
    BY <1>1, <2>1, Names DEF Txs, Optional
  <2>3. QED
    BY <2>1, <2>2
<1>2. CASE t.id \in Slugs
  <2>1. /\ tx.slugs[t.id] = None /\ n \in Free(tx) /\ slugs = [tx.slugs EXCEPT ![t.id] = n]
    BY <1>2, Names DEF Gets, Ids
  <2>2. n \in Generated /\ n \notin Named /\ tx.nodes[n] = None /\ n \notin Range(tx.slugs)
    BY <2>1, Names DEF Free
  <2>3. \A s \in Slugs : tx.slugs[s] # n
    BY <2>2 DEF Txs, Range
  <2>4. slugs[t.id] = n /\ \A s \in Slugs : s # t.id => slugs[s] = tx.slugs[s]
    BY <1>2, <2>1 DEF Txs
  <2>5. QED
    BY <2>1, <2>2, <2>3, <2>4
<1>3. QED
  BY <1>1, <1>2 DEF Gets

LEMMA SnapshotSound ==
  ASSUME IngestTyped, NodesSound(nodes)
  PROVE  TxSound(Snapshot) /\ NoneLinked(Snapshot.results)
<1>1. /\ Snapshot.nodes = nodes /\ Snapshot.results = <<>> /\ Snapshot.slugs = NoSlugs
  BY DEF Snapshot
<1>2. Range(<<>>) = {} /\ Len(<<>>) = 0
  BY DEF Range
<1>3. StoredAs(<<>>, nodes)
  BY <1>2 DEF StoredAs
<1>4. SlugsTold(Snapshot)
  BY <1>1, <1>2 DEF SlugsTold, NoSlugs
<1>5. LinksIn(<<>>, Snapshot.edges) /\ NoneLinked(<<>>)
  BY <1>2 DEF LinksIn, NoneLinked
<1>6. QED
  BY <1>1, <1>3, <1>4, <1>5 DEF TxSound

\* ReportedStored after one more result, when no node changes.
LEMMA OneMoreStored ==
  ASSUME NEW tx \in Txs, NEW tx2 \in Txs, NEW q, Adds(tx, q, tx2), tx2.nodes = tx.nodes,
         StoredAs(tx.results, tx.nodes),
         q.status \in {"SUCCESS", "SKIPPED"} /\ q.id # None => tx.nodes[q.id] = q.text
  PROVE  StoredAs(tx2.results, tx2.nodes)
<1>1. /\ Len(tx.results) \in Nat /\ Len(tx2.results) = Len(tx.results) + 1
      /\ \A i \in 1..Len(tx.results) : tx2.results[i] = tx.results[i]
      /\ tx2.results[Len(tx.results) + 1] = q
  BY TxAppended
<1>2. ASSUME NEW i \in 1..Len(tx2.results),
             tx2.results[i].status \in {"SUCCESS", "SKIPPED"}, tx2.results[i].id # None
      PROVE  \E j \in i..Len(tx2.results) :
               /\ tx2.results[j].id = tx2.results[i].id
               /\ tx2.nodes[tx2.results[i].id] = tx2.results[j].text
  <2>1. CASE i = Len(tx2.results)
    BY <1>1, <1>2, <2>1
  <2>2. CASE i # Len(tx2.results)
    <3>1. i \in 1..Len(tx.results) /\ tx2.results[i] = tx.results[i]
      BY <1>1, <2>2
    <3>2. PICK j \in i..Len(tx.results) : /\ tx.results[j].id = tx.results[i].id
                                          /\ tx.nodes[tx.results[i].id] = tx.results[j].text
      BY <1>2, <3>1 DEF StoredAs
    <3>3. j \in i..Len(tx2.results) /\ tx2.results[j] = tx.results[j]
      BY <1>1, <3>1
    <3>4. QED
      BY <3>1, <3>2, <3>3
  <2>3. QED
    BY <2>1, <2>2
<1>3. QED
  BY <1>2 DEF StoredAs

\* ReportedStored after one more .kgn text.
LEMMA KgnStored ==
  ASSUME NEW tx \in Txs, NEW f, NEW t \in Texts, NEW tx2, KgnOutcome(tx, f, t, tx2),
         StoredAs(tx.results, tx.nodes)
  PROVE  StoredAs(tx2.results, tx2.nodes)
<1>1. tx2 \in Txs
  BY DEF KgnOutcome
<1>2. CASE KgnRefused(tx, f, t, tx2)
  <2>1. /\ tx2.nodes = tx.nodes
        /\ Adds(tx, Told1(f, t, "FAILED", None), tx2)
    BY <1>2 DEF KgnRefused
  <2>2. Told1(f, t, "FAILED", None).id = None
    BY DEF Told1
  <2>3. QED
    BY <1>1, <2>1, <2>2, OneMoreStored
<1>3. CASE KgnSkipped(tx, f, t, tx2)
  <2>1. tx2.nodes = tx.nodes
    BY <1>3 DEF KgnSkipped
  <2>2. PICK m \in Ids : /\ tx.nodes[m] = t
                         /\ Adds(tx, Told1(f, t, "SKIPPED", m), tx2)
    BY <1>3 DEF KgnSkipped
  <2>3. Told1(f, t, "SKIPPED", m).id = m /\ Told1(f, t, "SKIPPED", m).text = t
    BY DEF Told1
  <2>4. QED
    BY <1>1, <2>1, <2>2, <2>3, OneMoreStored
<1>4. CASE KgnWritten(tx, f, t, tx2)
  <2>1. PICK n \in Ids : /\ tx2.nodes = [tx.nodes EXCEPT ![n] = t]
                         /\ Adds(tx, Told1(f, t, "SUCCESS", n), tx2)
    BY <1>4 DEF KgnWritten
  <2>2. tx2.nodes[n] = t /\ \A m \in Ids : m # n => tx2.nodes[m] = tx.nodes[m]
    BY <2>1 DEF Txs
  <2>3. /\ Len(tx.results) \in Nat /\ Len(tx2.results) = Len(tx.results) + 1
        /\ \A i \in 1..Len(tx.results) : tx2.results[i] = tx.results[i]
        /\ tx2.results[Len(tx.results) + 1] = Told1(f, t, "SUCCESS", n)
    BY <1>1, <2>1, TxAppended
  <2>4. ASSUME NEW i \in 1..Len(tx2.results),
               tx2.results[i].status \in {"SUCCESS", "SKIPPED"}, tx2.results[i].id # None
        PROVE  \E j \in i..Len(tx2.results) :
                 /\ tx2.results[j].id = tx2.results[i].id
                 /\ tx2.nodes[tx2.results[i].id] = tx2.results[j].text
    <3>1. Told1(f, t, "SUCCESS", n).id = n /\ Told1(f, t, "SUCCESS", n).text = t
      BY DEF Told1
    <3>2. CASE tx2.results[i].id = n
      <4>1. Len(tx2.results) \in i..Len(tx2.results)
        BY <2>3
      <4>2. QED
        BY <2>2, <2>3, <3>1, <3>2, <4>1
    <3>3. CASE tx2.results[i].id # n
      <4>1. i \in 1..Len(tx.results) /\ tx2.results[i] = tx.results[i]
        BY <2>3, <3>1, <3>3
      <4>2. PICK j \in i..Len(tx.results) : /\ tx.results[j].id = tx.results[i].id
                                            /\ tx.nodes[tx.results[i].id] = tx.results[j].text
        BY <2>4, <4>1 DEF StoredAs
      <4>3. j \in i..Len(tx2.results) /\ tx2.results[j] = tx.results[j]
        BY <2>3, <4>1
      <4>4. tx.results[i].id \in Ids
        <5>1. tx.results[i] \in Results
          BY <4>1 DEF Txs
        <5>2. tx.results[i].id # None
          BY <2>4, <4>1
        <5>3. QED
          BY <5>1, <5>2 DEF Results, Optional
      <4>5. QED
        BY <2>2, <3>3, <4>1, <4>2, <4>3, <4>4
    <3>4. QED
      BY <3>2, <3>3
  <2>5. QED
    BY <2>4 DEF StoredAs
<1>5. QED
  BY <1>2, <1>3, <1>4 DEF KgnOutcome

LEMMA KgnNodesSound ==
  ASSUME NEW tx \in Txs, NEW f, NEW t \in Texts, NEW tx2, KgnOutcome(tx, f, t, tx2),
         NodesSound(tx.nodes)
  PROVE  NodesSound(tx2.nodes)
<1>1. CASE tx2.nodes = tx.nodes
  BY <1>1
<1>2. CASE KgnWritten(tx, f, t, tx2)
  <2>1. PICK n \in Ids : Gets(tx, t, n, tx2.slugs) /\ tx2.nodes = [tx.nodes EXCEPT ![n] = t]
    BY <1>2 DEF KgnWritten
  <2>2. Valid(t) /\ (n \in Named => t.id = n)
    BY <1>2, <2>1, GotIsNew DEF KgnWritten
  <2>3. tx2.nodes[n] = t /\ \A m \in Ids : m # n => tx2.nodes[m] = tx.nodes[m]
    BY <2>1 DEF Txs
  <2>4. QED
    BY <2>2, <2>3 DEF NodesSound
<1>3. QED
  BY <1>1, <1>2 DEF KgnOutcome, KgnRefused, KgnSkipped

\* After one more .kgn text, slugs still stand for what was written under them.
LEMMA KgnSlugs ==
  ASSUME NEW tx \in Txs, NEW f, NEW t \in Texts, NEW tx2, KgnOutcome(tx, f, t, tx2),
         SlugsTold(tx)
  PROVE  SlugsTold(tx2)
<1>1. tx2 \in Txs
  BY DEF KgnOutcome
<1>2. CASE KgnRefused(tx, f, t, tx2)
  <2>1. /\ tx2.nodes = tx.nodes /\ tx2.slugs = tx.slugs
        /\ Adds(tx, Told1(f, t, "FAILED", None), tx2)
    BY <1>2 DEF KgnRefused
  <2>2. Range(tx2.results) = Range(tx.results) \cup {Told1(f, t, "FAILED", None)}
    BY <1>1, <2>1, TxAppended
  <2>3. ~Wrote(Told1(f, t, "FAILED", None))
    BY DEF Wrote, Told1
  <2>4. QED
    BY <2>1, <2>2, <2>3 DEF SlugsTold
<1>3. CASE KgnSkipped(tx, f, t, tx2)
  <2>1. PICK n \in Ids : Gets(tx, t, n, tx2.slugs)
    BY <1>3 DEF KgnSkipped
  <2>2. PICK m \in Ids : Adds(tx, Told1(f, t, "SKIPPED", m), tx2)
    BY <1>3 DEF KgnSkipped
  <2>3. /\ Range(tx2.results) = Range(tx.results) \cup {Told1(f, t, "SKIPPED", m)}
        /\ ~Wrote(Told1(f, t, "SKIPPED", m))
    <3>1. Range(tx2.results) = Range(tx.results) \cup {Told1(f, t, "SKIPPED", m)}
      BY <1>1, <2>2, TxAppended
    <3>2. ~Wrote(Told1(f, t, "SKIPPED", m))
      BY DEF Wrote, Told1
    <3>3. QED
      BY <3>1, <3>2
  <2>4. tx2.nodes = tx.nodes
    BY <1>3 DEF KgnSkipped
  <2>5. /\ \A s \in Slugs : s # t.id => tx2.slugs[s] = tx.slugs[s] /\ tx2.slugs[s] # n
        /\ t.id \in Slugs => tx.slugs[t.id] = None /\ tx2.slugs[t.id] = n /\ tx.nodes[n] = None
    BY <2>1, GotIsNew
  <2>6. \A s \in Slugs : tx2.slugs[s] # None /\ tx2.nodes[tx2.slugs[s]] # None =>
          \E q \in Range(tx2.results) : Wrote(q) /\ q.text.id = s
    BY <2>3, <2>4, <2>5 DEF SlugsTold
  <2>7. \A q \in Range(tx2.results) : Wrote(q) /\ q.text.id \in Slugs => q.id = tx2.slugs[q.text.id]
    BY <2>3, <2>5 DEF SlugsTold, Wrote
  <2>8. \A r, s \in Slugs : tx2.slugs[r] # None /\ tx2.slugs[r] = tx2.slugs[s] => r = s
    BY <2>5 DEF SlugsTold
  <2>9. QED
    BY <2>6, <2>7, <2>8 DEF SlugsTold
<1>4. CASE KgnWritten(tx, f, t, tx2)
  <2>1. PICK n \in Ids : /\ Gets(tx, t, n, tx2.slugs)
                         /\ tx2.nodes = [tx.nodes EXCEPT ![n] = t]
                         /\ Adds(tx, Told1(f, t, "SUCCESS", n), tx2)
    BY <1>4 DEF KgnWritten
  <2> DEFINE q0 == Told1(f, t, "SUCCESS", n)
  <2>2. Wrote(q0) /\ q0.text = t /\ q0.id = n
    BY Names DEF Wrote, Told1
  <2>3. Range(tx2.results) = Range(tx.results) \cup {q0}
    <3>1. Adds(tx, q0, tx2)
      BY <2>1
    <3> HIDE DEF q0
    <3>2. QED
      BY <1>1, <3>1, TxAppended
  <2> HIDE DEF q0
  <2>4. \A m \in Ids : m # n => tx2.nodes[m] = tx.nodes[m]
    BY <2>1 DEF Txs
  <2>5. /\ \A s \in Slugs : s # t.id => tx2.slugs[s] = tx.slugs[s] /\ tx2.slugs[s] # n
        /\ t.id \in Slugs => tx.slugs[t.id] = None /\ tx2.slugs[t.id] = n /\ tx.nodes[n] = None
    BY <2>1, GotIsNew
  <2>6. ASSUME NEW s \in Slugs, tx2.slugs[s] # None, tx2.nodes[tx2.slugs[s]] # None
        PROVE  \E q \in Range(tx2.results) : Wrote(q) /\ q.text.id = s
    <3>1. CASE s = t.id
      BY <2>2, <2>3, <3>1
    <3>2. CASE s # t.id
      <4>1. tx2.slugs[s] \in Ids
        BY <1>1, <2>6, Names DEF Txs, Optional
      <4>2. tx.slugs[s] # None /\ tx.nodes[tx.slugs[s]] # None
        BY <2>4, <2>5, <2>6, <3>2, <4>1
      <4>3. QED
        BY <2>3, <4>2 DEF SlugsTold
    <3>3. QED
      BY <3>1, <3>2
  <2>7. \A q \in Range(tx2.results) : Wrote(q) /\ q.text.id \in Slugs => q.id = tx2.slugs[q.text.id]
    BY <2>2, <2>3, <2>5 DEF SlugsTold, Wrote
  <2>8. \A r, s \in Slugs : tx2.slugs[r] # None /\ tx2.slugs[r] = tx2.slugs[s] => r = s
    BY <2>5 DEF SlugsTold
  <2>9. QED
    BY <2>6, <2>7, <2>8 DEF SlugsTold
<1>5. QED
  BY <1>2, <1>3, <1>4 DEF KgnOutcome

LEMMA KgnLinksNothing ==
  ASSUME NEW tx \in Txs, NEW f, NEW t \in Texts, NEW tx2, KgnOutcome(tx, f, t, tx2),
         NoneLinked(tx.results)
  PROVE  NoneLinked(tx2.results)
<1>1. tx2 \in Txs
  BY DEF KgnOutcome
<1>2. PICK s, n : /\ Adds(tx, Told1(f, t, s, n), tx2)
                  /\ s # "SUCCESS" \/ n \in Ids
  <2>1. CASE KgnRefused(tx, f, t, tx2)
    BY <2>1 DEF KgnRefused
  <2>2. CASE KgnSkipped(tx, f, t, tx2)
    BY <2>2 DEF KgnSkipped
  <2>3. CASE KgnWritten(tx, f, t, tx2)
    BY <2>3 DEF KgnWritten
  <2>4. QED
    BY <2>1, <2>2, <2>3 DEF KgnOutcome
<1>3. Range(tx2.results) = Range(tx.results) \cup {Told1(f, t, s, n)}
  BY <1>1, <1>2, TxAppended
<1>4. ~LinkedFile(Told1(f, t, s, n))
  BY <1>2, Names DEF LinkedFile, Told1
<1>5. QED
  BY <1>3, <1>4 DEF NoneLinked

LEMMA KgnKeepsSound ==
  ASSUME NEW tx \in Txs, NEW f, NEW t \in Texts, NEW tx2, KgnOutcome(tx, f, t, tx2),
         TxSound(tx), NoneLinked(tx.results)
  PROVE  TxSound(tx2) /\ NoneLinked(tx2.results)
<1>1. NoneLinked(tx2.results)
  BY KgnLinksNothing
<1>2. LinksIn(tx2.results, tx2.edges)
  BY <1>1 DEF NoneLinked, LinksIn
<1>3. QED
  BY <1>1, <1>2, KgnStored, KgnNodesSound, KgnSlugs DEF TxSound

\* What the entries of a file that succeeds mean is what they are stored as.
LEMMA KgeLinks ==
  ASSUME NEW tx \in Txs, NEW f \in Files \cup {"text"}, NEW t \in EdgeTexts,
         NEW tx2, KgeOutcome(tx, f, t, tx2),
         SlugsTold(tx), LinksIn(tx.results, tx.edges)
  PROVE  LinksIn(tx2.results, tx2.edges)
<1> DEFINE q0 == Told1(f, t, KgeFate(tx, t), None)
<1>1. tx2 \in Txs /\ Adds(tx, q0, tx2)
  BY DEF KgeOutcome
<1>2. ~Wrote(q0) /\ q0.text = t /\ q0.status = KgeFate(tx, t)
  BY DEF Wrote, Told1
<1> HIDE DEF q0
<1>3. Range(tx2.results) = Range(tx.results) \cup {q0}
  BY <1>1, TxAppended
<1>4. \A ref, n : StandsFor(tx2.results, ref, n) <=> StandsFor(tx.results, ref, n)
  <2>1. ASSUME NEW ref
        PROVE  {p \in Range(tx2.results) : Wrote(p) /\ p.text.id = ref}
               = {p \in Range(tx.results) : Wrote(p) /\ p.text.id = ref}
    BY <1>2, <1>3
  <2>2. QED
    BY <2>1 DEF StandsFor
<1>5. tx.edges \subseteq tx2.edges
  BY DEF KgeOutcome, Linked
<1>6. ASSUME NEW q \in Range(tx.results), LinkedFile(q), NEW i \in 1..Len(q.text.edges)
      PROVE  \E m, n \in Ids : /\ <<m, n>> \in tx2.edges
                               /\ StandsFor(tx2.results, q.text.edges[i][1], m)
                               /\ StandsFor(tx2.results, q.text.edges[i][2], n)
  <2>1. PICK m, n \in Ids : /\ <<m, n>> \in tx.edges
                            /\ StandsFor(tx.results, q.text.edges[i][1], m)
                            /\ StandsFor(tx.results, q.text.edges[i][2], n)
    BY <1>6 DEF LinksIn
  <2>2. QED
    BY <1>4, <1>5, <2>1
<1>7. ASSUME KgeFate(tx, t) = "SUCCESS", NEW i \in 1..Len(t.edges)
      PROVE  \E m, n \in Ids : /\ <<m, n>> \in tx2.edges
                               /\ StandsFor(tx2.results, t.edges[i][1], m)
                               /\ StandsFor(tx2.results, t.edges[i][2], n)
  <2>1. t.parse \in {"parsed", "KgeParseError", "Exception"} /\ t.edges \in Seq(Refs \X Refs)
    BY FilesAssumption DEF FilesAssumption
  <2>2. t.parse = "parsed" /\ \A k \in 1..Len(t.edges) : EntryFate(tx, t.edges[k]) = "stored"
    BY <1>7, <2>1 DEF KgeFate
  <2>3. i \in Reached(tx, t)
    BY <2>1, <2>2 DEF Reached
  <2> DEFINE e == t.edges[i]
             m == Resolved(tx, e[1])
             n == Resolved(tx, e[2])
  <2>4. <<m, n>> \in tx2.edges
    BY <2>2, <2>3 DEF KgeOutcome, Linked
  <2>5. e \in Refs \X Refs /\ EntryFate(tx, e) = "stored"
    BY <2>1, <2>2
  <2>6. ASSUME NEW k \in 1..2
        PROVE  Resolved(tx, e[k]) \in Ids /\ StandsFor(tx.results, e[k], Resolved(tx, e[k]))
    <3> DEFINE ref == e[k]
    <3>1. /\ ref \in Slugs => tx.slugs[ref] # None
          /\ ref \notin Slugs => ref \in Ids
          /\ Resolved(tx, ref) \in Ids
          /\ tx.nodes[Resolved(tx, ref)] # None
      BY <2>5, StoredEntry
    <3> HIDE DEF ref
    <3>2. CASE ref \notin Slugs
      BY <3>1, <3>2 DEF Resolved, StandsFor, ref
    <3>3. CASE ref \in Slugs
      <4> DEFINE id == tx.slugs[ref]
      <4>1. id # None /\ tx.nodes[id] # None /\ Resolved(tx, ref) = id
        BY <3>1, <3>3 DEF Resolved
      <4>2. PICK q \in Range(tx.results) : Wrote(q) /\ q.text.id = ref
        BY <3>3, <4>1 DEF SlugsTold
      <4>3. \A p \in Range(tx.results) : Wrote(p) /\ p.text.id = ref => p.id = id
        BY <3>3 DEF SlugsTold
      <4> HIDE DEF id
      <4>4. {id} = {p.id : p \in {x \in Range(tx.results) : Wrote(x) /\ x.text.id = ref}}
        BY <4>2, <4>3
      <4>5. StandsFor(tx.results, ref, id)
        BY <3>3, <4>4 DEF StandsFor
      <4>6. QED
        BY <3>1, <4>1, <4>5 DEF ref
    <3>4. QED
      BY <3>2, <3>3
  <2> HIDE DEF e
  <2>7. m \in Ids /\ n \in Ids /\ StandsFor(tx.results, e[1], m) /\ StandsFor(tx.results, e[2], n)
    BY <2>6
  <2> HIDE DEF m, n
  <2>8. QED
    BY <1>4, <2>4, <2>7 DEF e
<1>8. QED
  BY <1>2, <1>3, <1>6, <1>7 DEF LinksIn, LinkedFile

LEMMA KgeKeepsSound ==
  ASSUME NEW tx \in Txs, NEW f \in Files \cup {"text"}, NEW t \in EdgeTexts,
         NEW tx2, KgeOutcome(tx, f, t, tx2), TxSound(tx)
  PROVE  TxSound(tx2)
<1> DEFINE q0 == Told1(f, t, KgeFate(tx, t), None)
<1>1. /\ tx2 \in Txs /\ Adds(tx, q0, tx2)
      /\ tx2.nodes = tx.nodes /\ tx2.slugs = tx.slugs
  BY DEF KgeOutcome
<1>2. ~Wrote(q0) /\ q0.id = None
  BY DEF Wrote, Told1
<1> HIDE DEF q0
<1>3. Range(tx2.results) = Range(tx.results) \cup {q0}
  BY <1>1, TxAppended
<1>4. SlugsTold(tx2)
  BY <1>1, <1>2, <1>3 DEF TxSound, SlugsTold
<1>5. StoredAs(tx2.results, tx2.nodes)
  BY <1>1, <1>2, OneMoreStored DEF TxSound
<1>6. LinksIn(tx2.results, tx2.edges)
  BY KgeLinks DEF TxSound
<1>7. QED
  BY <1>1, <1>4, <1>5, <1>6 DEF TxSound

\* What a batch is told about is what it has done.
LEMMA FileSound ==
  ASSUME IngestTyped, BatchSound, call.kind = "batch",
         NEW f \in call.todo, \A g \in call.todo \ {f} : Before(f, g), ~Unreadable(f, disk[f])
  PROVE  /\ TxSound(TxAfter(f))
         /\ (call.todo \ {f}) \cap KgnFiles # {} => NoneLinked(TxAfter(f).results)
<1>1. call.tx \in Txs /\ f \in Files
  BY CommandFields DEF Batches
<1>2. CASE f \in KgnFiles
  <2>1. KgnOutcome(call.tx, f, disk[f], TxAfter(f)) /\ disk[f] \in Texts
    BY <1>2, FileOutcome DEF TxAfter
  <2>2. TxSound(call.tx) /\ NoneLinked(call.tx.results)
    BY <1>2 DEF BatchSound
  <2>3. QED
    BY <1>1, <2>1, <2>2, KgnKeepsSound
<1>3. CASE f \notin KgnFiles
  <2>1. f \in KgeFiles /\ KgeOutcome(call.tx, f, disk[f], TxAfter(f)) /\ disk[f] \in EdgeTexts
    BY <1>3, FileOutcome DEF TxAfter
  <2>2. TxSound(TxAfter(f))
    BY <1>1, <2>1, KgeKeepsSound DEF BatchSound
  <2>3. (call.todo \ {f}) \cap KgnFiles = {}
    BY <2>1, KgnBeforeKge
  <2>4. QED
    BY <2>2, <2>3
<1>4. QED
  BY <1>2, <1>3

\* A step that reports nothing new, or nothing that is done.
LEMMA Quiet ==
  ASSUME ResultsInv, UNCHANGED <<nodes, edges>>,
         \/ report' = report
         \/ report'.answer # "done" \/ report'.lost \/ report'.results = <<>>
  PROVE  ReportedStored' /\ LinkedByName'
<1>1. CASE report' = report
  BY <1>1 DEF ResultsInv, ReportedStored, LinkedByName, Done
<1>2. CASE report'.answer # "done" \/ report'.lost
  BY <1>2 DEF ReportedStored, LinkedByName, Done
<1>3. CASE report'.results = <<>>
  <2>1. Len(<<>>) = 0 /\ Range(<<>>) = {}
    BY DEF Range
  <2>2. ReportedStored'
    BY <1>3, <2>1 DEF ReportedStored
  <2>3. LinkedByName'
    BY <1>3, <2>1 DEF LinkedByName
  <2>4. QED
    BY <2>2, <2>3
<1>4. QED
  BY <1>1, <1>2, <1>3

\* A report of results that are sound.
LEMMA SoundReport ==
  ASSUME NEW tx, TxSound(tx), nodes' = tx.nodes, edges' = tx.edges,
         report'.results = tx.results
  PROVE  ReportedStored' /\ LinkedByName'
<1>1. StoredAs(report'.results, nodes') /\ LinksIn(report'.results, edges')
  BY DEF TxSound
<1>2. ReportedStored'
  BY <1>1 DEF StoredAs, ReportedStored
<1>3. LinkedByName'
  BY <1>1 DEF LinksIn, LinkedByName
<1>4. QED
  BY <1>2, <1>3

LEMMA RaiseResults == ASSUME ResultsInv, Raise PROVE ResultsInv'
<1>1. report'.answer = "raised" /\ UNCHANGED <<nodes, edges>> /\ call' = NoCall
  BY DEF Raise, Told, store
<1>2. ReportedStored' /\ LinkedByName'
  BY <1>1, Quiet
<1>3. QED
  BY <1>1, <1>2 DEF ResultsInv, NoCall

\* A step that leaves what is stored, and the transaction of a batch.
LEMMA SameResults ==
  ASSUME ResultsInv, UNCHANGED <<nodes, edges, report>>,
         call'.kind = "batch" =>
           call.kind = "batch" /\ call'.tx = call.tx /\ call'.todo = call.todo
  PROVE  ResultsInv'
<1>1. ReportedStored' /\ LinkedByName'
  BY Quiet
<1>2. NodesSound(nodes')
  BY DEF ResultsInv
<1>3. ASSUME call'.kind = "batch" PROVE BatchSound'
  <2>1. call.kind = "batch" /\ call'.tx = call.tx /\ call'.todo = call.todo
    BY <1>3
  <2>2. BatchSound
    BY <2>1 DEF ResultsInv
  <2>3. QED
    BY <2>1, <2>2 DEF BatchSound
<1>4. QED
  BY <1>1, <1>2, <1>3 DEF ResultsInv

LEMMA NextResults ==
  ASSUME IngestTyped, IngestTyped', ResultsInv, [Next]_vars PROVE ResultsInv'
<1>1. CASE UNCHANGED vars
  BY <1>1, SameResults DEF vars, store
<1>2. CASE Next
  <2>1. CASE \E b \in BOOLEAN : BeginBatch(b) \/ BeginEmbed(b)
    <3>1. report'.answer = "none" /\ UNCHANGED <<nodes, edges>>
      BY <2>1 DEF BeginBatch, BeginEmbed, NoReport, store
    <3>2. ReportedStored' /\ LinkedByName'
      BY <3>1, Quiet
    <3>3. call'.kind = "batch" => call'.tx = Snapshot
      BY <2>1 DEF BeginBatch, BeginEmbed
    <3>4. call'.kind = "batch" => BatchSound'
      BY <3>3, SnapshotSound DEF ResultsInv, BatchSound
    <3>5. QED
      BY <3>1, <3>2, <3>4 DEF ResultsInv
  <2>2. CASE IngestFile
    <3>1. CASE Raise
      BY <3>1, RaiseResults
    <3>2. CASE ~Raise
      <4>1. /\ call.kind = "batch" /\ report' = report /\ UNCHANGED <<nodes, edges>>
        BY <2>2, <3>2, IngestFileCases DEF store
      <4>2. PICK f \in call.todo :
              /\ \A g \in call.todo \ {f} : Before(f, g)
              /\ ~Unreadable(f, disk[f])
              /\ call' = [call EXCEPT !.tx = TxAfter(f), !.todo = @ \ {f}]
        BY <2>2, <3>2, IngestFileCases
      <4>3. call \in Batches
        BY <4>1, CommandFields
      <4>4. call'.tx = TxAfter(f) /\ call'.todo = call.todo \ {f} /\ call'.kind = "batch"
        BY <4>1, <4>2, <4>3 DEF Batches
      <4>5. BatchSound'
        BY <4>1, <4>2, <4>4, FileSound DEF ResultsInv, BatchSound
      <4>6. ReportedStored' /\ LinkedByName'
        BY <4>1, Quiet
      <4>7. QED
        BY <4>1, <4>5, <4>6 DEF ResultsInv
    <3>3. QED
      BY <3>1, <3>2
  <2>3. CASE ReadMutated
    <3>1. call \in Batches /\ UNCHANGED <<nodes, edges, report>>
      BY <2>3, CommandFields DEF ReadMutated, store
    <3>2. call'.tx = call.tx /\ call'.todo = call.todo
      BY <2>3, <3>1 DEF ReadMutated, Batches
    <3>3. QED
      BY <2>3, <3>1, <3>2, SameResults DEF ReadMutated
  <2>4. CASE ApiAnswers \/ NoClient
    <3>1. UNCHANGED <<nodes, edges, report>> /\ call \in Batches \cup Embeds
      BY <2>4, CommandFields DEF ApiAnswers, NoClient, Waiting, store
    <3>2. /\ call'.kind = call.kind
          /\ call.kind = "batch" => call'.tx = call.tx /\ call'.todo = call.todo
      BY <2>4, <3>1 DEF ApiAnswers, NoClient, Batches, Embeds
    <3>3. QED
      BY <3>1, <3>2, SameResults
  <2>5. CASE ApiBusy
    <3>1. CASE call.attempt < MaxRetries - 1
      <4>1. UNCHANGED <<nodes, edges, report>> /\ call \in Batches \cup Embeds
        BY <2>5, <3>1, CommandFields DEF ApiBusy, Waiting, store
      <4>2. /\ call'.kind = call.kind
            /\ call.kind = "batch" => call'.tx = call.tx /\ call'.todo = call.todo
        BY <2>5, <3>1, <4>1 DEF ApiBusy, Batches, Embeds
      <4>3. QED
        BY <4>1, <4>2, SameResults
    <3>2. CASE ~(call.attempt < MaxRetries - 1)
      BY <2>5, <3>2, RaiseResults DEF ApiBusy, ApiGivesUp
    <3>3. QED
      BY <3>1, <3>2
  <2>6. CASE ApiRefuses \/ Fail
    BY <2>6, RaiseResults DEF ApiRefuses, ApiGivesUp, Fail
  <2>7. CASE VectorRefused
    <3>1. CASE Raise
      BY <3>1, RaiseResults
    <3>2. CASE ~Raise
      <4>1. report'.lost /\ UNCHANGED <<nodes, edges>> /\ call' = NoCall
        BY <2>7, <3>2 DEF VectorRefused, Told, store
      <4>2. ReportedStored' /\ LinkedByName'
        BY <4>1, Quiet
      <4>3. QED
        BY <4>1, <4>2 DEF ResultsInv, NoCall
    <3>3. QED
      BY <3>1, <3>2
  <2>8. CASE CommitBatch
    <3>1. /\ call.kind = "batch" /\ nodes' = call.tx.nodes /\ edges' = call.tx.edges
          /\ report'.results = call.tx.results /\ call' = NoCall
      BY <2>8 DEF CommitBatch, Told
    <3>2. TxSound(call.tx)
      BY <3>1 DEF ResultsInv, BatchSound
    <3>3. ReportedStored' /\ LinkedByName'
      BY <3>1, <3>2, SoundReport
    <3>4. QED
      BY <3>1, <3>2, <3>3 DEF ResultsInv, TxSound, NoCall
  <2>9. CASE CommitEmbed
    <3>1. report'.results = <<>> /\ UNCHANGED <<nodes, edges>> /\ call' = NoCall
      BY <2>9 DEF CommitEmbed, Told
    <3>2. ReportedStored' /\ LinkedByName'
      BY <3>1, Quiet
    <3>3. QED
      BY <3>1, <3>2 DEF ResultsInv, NoCall
  <2>10. CASE \E t \in Texts : \E v, guard : IngestNode(t, v, guard)
    <3>1. PICK t \in Texts : \E v, guard : IngestNode(t, v, guard)
      BY <2>10
    <3>2. PICK v, guard : IngestNode(t, v, guard)
      BY <3>1
    <3> DEFINE tx == IngestKgnText(Snapshot, "text", t)
    <3>3. /\ KgnOutcome(Snapshot, "text", t, tx)
          /\ call.kind \in {"none", "embed"}
          /\ \/ /\ UNCHANGED <<call, store, history>>
                /\ Told("node", "error", <<>>, FALSE) \/ Told("node", "done", tx.results, TRUE)
             \/ /\ NodeStored(t, v, tx)
                /\ Told("node", "done", tx.results, FALSE)
      BY <3>2, IngestNodeCases
    <3> HIDE DEF tx
    <3>4. TxSound(tx) /\ tx.edges = edges
      BY <3>3, SnapshotTyped, SnapshotSound, KgnKeepsSound
      DEF ResultsInv, KgnOutcome, Snapshot
    <3>5. ASSUME UNCHANGED <<call, store, history>>,
                 Told("node", "error", <<>>, FALSE) \/ Told("node", "done", tx.results, TRUE)
          PROVE  ResultsInv'
      <4>1. UNCHANGED <<nodes, edges, call>> /\ (report'.answer # "done" \/ report'.lost)
        BY <3>5 DEF Told, store
      <4>2. ReportedStored' /\ LinkedByName'
        BY <4>1, Quiet
      <4>3. QED
        BY <3>3, <4>1, <4>2 DEF ResultsInv
    <3>6. ASSUME NodeStored(t, v, tx), Told("node", "done", tx.results, FALSE)
          PROVE  ResultsInv'
      <4>1. nodes' = tx.nodes /\ edges' = tx.edges /\ report'.results = tx.results
        BY <3>4, <3>6 DEF NodeStored, Told
      <4>2. call'.kind # "batch"
        <5>1. call' = IF call.kind = "embed"
                      THEN [call EXCEPT !.overtaken = @ \cup Updated(tx)] ELSE call
          BY <3>6 DEF NodeStored
        <5>2. CASE call.kind = "embed"
          BY <5>1, <5>2, CommandFields DEF Embeds
        <5>3. CASE call.kind # "embed"
          BY <3>3, <5>1, <5>3
        <5>4. QED
          BY <5>2, <5>3
      <4>3. ReportedStored' /\ LinkedByName'
        BY <3>4, <4>1, SoundReport
      <4>4. QED
        BY <3>4, <4>1, <4>2, <4>3 DEF ResultsInv, TxSound
    <3>7. QED
      BY <3>3, <3>5, <3>6
  <2>11. CASE \E t \in EdgeTexts : \E guard : IngestEdge(t, guard)
    <3>1. PICK t \in EdgeTexts : \E guard : IngestEdge(t, guard)
      BY <2>11
    <3>2. PICK guard : IngestEdge(t, guard)
      BY <3>1
    <3> DEFINE tx == IngestKgeText(Snapshot, "text", t)
    <3>3. /\ KgeOutcome(Snapshot, "text", t, tx)
          /\ call.kind \in {"none", "embed"} /\ UNCHANGED <<nodes, call>>
          /\ \/ edges' \in {edges, tx.edges} /\ Told("edge", "error", <<>>, FALSE)
             \/ edges' = tx.edges /\ Told("edge", "done", tx.results, FALSE)
      BY <3>2, IngestEdgeCases
    <3> HIDE DEF tx
    <3>4. TxSound(tx) /\ tx.nodes = nodes
      BY <3>3, SnapshotTyped, SnapshotSound, KgeKeepsSound
      DEF ResultsInv, KgeOutcome, Snapshot
    <3>5. CASE edges' \in {edges, tx.edges} /\ Told("edge", "error", <<>>, FALSE)
      <4>1. report'.answer = "error"
        BY <3>5 DEF Told
      <4>2. ReportedStored' /\ LinkedByName'
        BY <4>1 DEF ReportedStored, LinkedByName, Done
      <4>3. QED
        BY <3>3, <4>2 DEF ResultsInv
    <3>6. CASE edges' = tx.edges /\ Told("edge", "done", tx.results, FALSE)
      <4>1. report'.results = tx.results
        BY <3>6 DEF Told
      <4>2. ReportedStored' /\ LinkedByName'
        BY <3>3, <3>4, <3>6, <4>1, SoundReport
      <4>3. QED
        BY <3>3, <4>2 DEF ResultsInv
    <3>7. QED
      BY <3>3, <3>5, <3>6
  <2>12. CASE \E f \in Files : \E t : WriteFile(f, t)
    <3>1. /\ UNCHANGED <<nodes, edges, report>>
          /\ call' = IF call.kind = "batch" THEN [call EXCEPT !.moved = TRUE] ELSE call
      BY <2>12 DEF WriteFile, store
    <3>2. call'.kind = "batch" =>
            call.kind = "batch" /\ call'.tx = call.tx /\ call'.todo = call.todo
      BY <3>1, CommandFields DEF Batches
    <3>3. QED
      BY <3>1, <3>2, SameResults
  <2>13. QED
    BY <1>2, <2>1, <2>2, <2>3, <2>4, <2>5, <2>6, <2>7, <2>8, <2>9, <2>10, <2>11, <2>12, Steps
<1>3. QED
  BY <1>1, <1>2

LEMMA InitResults == ASSUME Init PROVE ResultsInv
<1>1. NodesSound(nodes)
  BY DEF Init, NodesSound
<1>2. report.answer = "none" /\ call.kind = "none"
  BY DEF Init, NoReport, NoCall
<1>3. QED
  BY <1>1, <1>2 DEF ResultsInv, ReportedStored, LinkedByName, Done

LEMMA AlwaysResults == Spec => []ResultsInv
<1>1. Init => ResultsInv
  BY InitResults
<1>2. IngestTyped /\ IngestTyped' /\ ResultsInv /\ [Next]_vars => ResultsInv'
  BY NextResults
<1>3. QED
  BY <1>1, <1>2, AlwaysTyped, PTL DEF Spec

\* Every node that a caller is told is stored is stored: the batch's own later
\* files are all that can have replaced its text.
THEOREM ReportedIsStored == Spec => []ReportedStored
<1>1. ResultsInv => ReportedStored
  BY DEF ResultsInv
<1>2. QED
  BY <1>1, AlwaysResults, PTL

\* The edges of a file that succeeded are there, and a slug in them stands for
\* the one node that was stored under it.
THEOREM EdgesFollowNames == Spec => []LinkedByName
<1>1. ResultsInv => LinkedByName
  BY DEF ResultsInv
<1>2. QED
  BY <1>1, AlwaysResults, PTL

-----------------------------------------------------------------------------
(***************************************************************************)
(* Vectors.                                                                *)
(***************************************************************************)
\* The texts and vectors of a command are of what its nodes will be.
RowsAre(r, v, table, N) ==
  \A n \in N : r[n] \in {None, table[n]} /\ v[n] \in {None, table[n]}

LEMMA OnlyThisNode ==
  ASSUME IngestTyped, NEW t \in Texts, NEW tx, KgnOutcome(Snapshot, "text", t, tx),
         NEW n \in Ids, n # tx.results[1].id
  PROVE  tx.nodes[n] = nodes[n]
<1>1. Snapshot.results = <<>> /\ Snapshot.nodes = nodes
  BY DEF Snapshot
<1>2. CASE KgnWritten(Snapshot, "text", t, tx)
  <2>1. PICK m \in Ids : /\ tx.nodes = [nodes EXCEPT ![m] = t]
                         /\ tx.results = Append(<<>>, Told1("text", t, "SUCCESS", m))
    BY <1>1, <1>2 DEF KgnWritten, Adds
  <2>2. tx.results[1].id = m
    BY <2>1 DEF Told1
  <2>3. QED
    BY <2>1, <2>2 DEF IngestTyped, TypeOK
<1>3. QED
  BY <1>1, <1>2 DEF KgnOutcome, KgnRefused, KgnSkipped

\* A step that leaves the nodes and their vectors as they are.
LEMMA SameVectors ==
  ASSUME VectorInv, UNCHANGED <<nodes, embedding, outdated>>,
         call'.kind = "batch" =>
           /\ RowsAre(call'.rows, call'.vectors, call'.tx.nodes, Ids)
           /\ call'.stage = "files" => \A n \in Ids : call'.rows[n] = None /\ call'.vectors[n] = None,
         call'.kind = "embed" =>
           RowsAre(call'.rows, call'.vectors, nodes, Ids \ call'.overtaken)
  PROVE  VectorInv'
<1>1. EmbeddedUnlessUpdated'
  BY DEF VectorInv, EmbeddedUnlessUpdated
<1>2. QED
  BY <1>1 DEF VectorInv, RowsAre

LEMMA RaiseVectors == ASSUME VectorInv, Raise PROVE VectorInv'
BY SameVectors DEF Raise, NoCall, store, history

\* A step that leaves also the command as it is.
LEMMA StillVectors ==
  ASSUME VectorInv, UNCHANGED <<nodes, embedding, outdated, call>> PROVE VectorInv'
BY DEF VectorInv, EmbeddedUnlessUpdated

LEMMA TextsAre ==
  ASSUME NEW table, NEW N, NEW n \in Ids PROVE TextsOf(table, N)[n] \in {None, table[n]}
BY DEF TextsOf

LEMMA IngestFileVectors ==
  ASSUME IngestTyped, VectorInv, IngestFile PROVE VectorInv'
<1>1. CASE Raise
  BY <1>1, RaiseVectors
<1>2. CASE ~Raise
  <2>1. call.kind = "batch" /\ call.stage = "files" /\ UNCHANGED <<nodes, embedding, outdated>>
    BY IngestFileCases DEF store, history
  <2>2. PICK f \in call.todo : call' = [call EXCEPT !.tx = TxAfter(f), !.todo = @ \ {f}]
    BY <1>2, IngestFileCases
  <2>3. call \in Batches
    BY <2>1, CommandFields
  <2>4. /\ call'.rows = call.rows /\ call'.vectors = call.vectors /\ call'.kind = "batch"
    BY <2>1, <2>2, <2>3 DEF Batches
  <2>5. \A n \in Ids : call.rows[n] = None /\ call.vectors[n] = None
    BY <2>1 DEF VectorInv
  <2>6. QED
    BY <2>1, <2>4, <2>5, SameVectors DEF RowsAre
<1>3. QED
  BY <1>1, <1>2

LEMMA ReadMutatedVectors ==
  ASSUME IngestTyped, VectorInv, ReadMutated PROVE VectorInv'
<1>1. call.kind = "batch" /\ call.stage = "files" /\ UNCHANGED <<nodes, embedding, outdated>>
  BY DEF ReadMutated, store, history
<1>2. call \in Batches
  BY <1>1, CommandFields
<1>3. /\ call'.rows = IF call.embed THEN TextsOf(call.tx.nodes, Mutated) ELSE NoTexts
      /\ call'.vectors = call.vectors /\ call'.kind = "batch" /\ call'.stage = "vectors"
      /\ call'.tx = call.tx
  BY <1>1, <1>2 DEF ReadMutated, Batches
<1>4. \A n \in Ids : call'.rows[n] \in {None, call.tx.nodes[n]}
  BY <1>3, TextsAre DEF NoTexts
<1>5. \A n \in Ids : call.vectors[n] = None
  BY <1>1 DEF VectorInv
<1>6. QED
  BY <1>1, <1>3, <1>4, <1>5, SameVectors DEF RowsAre

\* The API, and the client.
LEMMA ApiVectors ==
  ASSUME IngestTyped, VectorInv, ApiAnswers \/ ApiBusy \/ NoClient PROVE VectorInv'
<1>1. CASE Raise
  BY <1>1, RaiseVectors
<1>2. CASE ~Raise
  <2>1. UNCHANGED <<nodes, embedding, outdated>> /\ call.stage = "vectors"
    BY <1>2 DEF ApiAnswers, ApiBusy, ApiGivesUp, NoClient, Waiting, store, history
  <2>2. call \in Batches \cup Embeds
    BY CommandFields DEF ApiAnswers, ApiBusy, NoClient, Waiting
  <2>3. /\ call'.kind = call.kind /\ call'.stage = call.stage
        /\ call.kind = "batch" => call'.tx = call.tx
        /\ call.kind = "embed" => call'.overtaken = call.overtaken
    BY <1>2, <2>2 DEF ApiAnswers, ApiBusy, ApiGivesUp, NoClient, Batches, Embeds
  <2>4. ASSUME NEW n \in Ids
        PROVE  /\ call'.rows[n] \in {None, call.rows[n]}
               /\ call'.vectors[n] \in {call.rows[n], call.vectors[n]}
    <3>1. CASE ApiAnswers
      <4>1. PICK C \in SUBSET Given(call.rows) :
              call' = [call EXCEPT !.vectors = Vectors(C),
                                   !.rows = [m \in Ids |-> IF m \in C THEN None ELSE @[m]],
                                   !.attempt = 0]
        BY <3>1 DEF ApiAnswers
      <4>2. /\ call'.rows[n] = IF n \in C THEN None ELSE call.rows[n]
            /\ call'.vectors[n] = Vectors(C)[n]
        BY <2>2, <4>1 DEF Batches, Embeds
      <4>3. QED
        BY <4>2 DEF Vectors
    <3>2. CASE ApiBusy
      BY <1>2, <2>2, <3>2 DEF ApiBusy, ApiGivesUp, Batches, Embeds
    <3>3. CASE NoClient
      BY <2>2, <3>3 DEF NoClient, NoTexts, Batches, Embeds
    <3>4. QED
      BY <3>1, <3>2, <3>3
  <2>5. CASE call.kind = "batch"
    <3>1. RowsAre(call.rows, call.vectors, call.tx.nodes, Ids)
      BY <2>5 DEF VectorInv, RowsAre
    <3>2. RowsAre(call'.rows, call'.vectors, call'.tx.nodes, Ids)
      BY <2>3, <2>4, <2>5, <3>1 DEF RowsAre
    <3>3. QED
      BY <2>1, <2>3, <2>5, <3>2, SameVectors
  <2>6. CASE call.kind = "embed"
    <3>1. RowsAre(call.rows, call.vectors, nodes, Ids \ call.overtaken)
      BY <2>6 DEF VectorInv, RowsAre
    <3>2. RowsAre(call'.rows, call'.vectors, nodes, Ids \ call'.overtaken)
      BY <2>3, <2>4, <2>6, <3>1 DEF RowsAre
    <3>3. QED
      BY <2>1, <2>3, <2>6, <3>2, SameVectors
  <2>7. QED
    BY <2>2, <2>5, <2>6 DEF Batches, Embeds
<1>3. QED
  BY <1>1, <1>2

LEMMA CommitBatchVectors ==
  ASSUME IngestTyped, VectorInv, CommitBatch PROVE VectorInv'
<1>1. /\ call.kind = "batch" /\ call' = NoCall /\ nodes' = call.tx.nodes
      /\ embedding' = Embedded
      /\ outdated' = (outdated \cup Updated(call.tx)) \ Given(call.vectors)
  BY DEF CommitBatch
<1>2. ASSUME NEW n \in Ids \ outdated' PROVE embedding'[n] \in {None, nodes'[n]}
  <2>1. CASE call.vectors[n] # None
    BY <1>1, <2>1 DEF Embedded, VectorInv
  <2>2. CASE call.vectors[n] = None
    <3>1. n \notin outdated /\ n \notin Updated(call.tx)
      BY <1>1, <2>2 DEF Given
    <3>2. embedding'[n] = embedding[n] /\ nodes'[n] = nodes[n]
      BY <1>1, <2>2, <3>1 DEF Embedded, Updated
    <3>3. QED
      BY <3>1, <3>2 DEF VectorInv, EmbeddedUnlessUpdated
  <2>3. QED
    BY <2>1, <2>2
<1>3. QED
  BY <1>1, <1>2 DEF VectorInv, EmbeddedUnlessUpdated, NoCall

LEMMA CommitEmbedVectors ==
  ASSUME IngestTyped, VectorInv, CommitEmbed PROVE VectorInv'
<1>1. /\ call.kind = "embed" /\ call' = NoCall /\ nodes' = nodes
      /\ embedding' = Embedded
      /\ outdated' = (outdated \ Given(call.vectors)) \cup (call.overtaken \cap Given(call.vectors))
  BY DEF CommitEmbed
<1>2. ASSUME NEW n \in Ids \ outdated' PROVE embedding'[n] \in {None, nodes'[n]}
  <2>1. CASE call.vectors[n] # None
    <3>1. n \notin call.overtaken
      BY <1>1, <2>1 DEF Given
    <3>2. QED
      BY <1>1, <2>1, <3>1 DEF Embedded, VectorInv
  <2>2. CASE call.vectors[n] = None
    <3>1. n \notin outdated /\ embedding'[n] = embedding[n]
      BY <1>1, <2>2 DEF Given, Embedded
    <3>2. QED
      BY <1>1, <3>1 DEF VectorInv, EmbeddedUnlessUpdated
  <2>3. QED
    BY <2>1, <2>2
<1>3. QED
  BY <1>1, <1>2 DEF VectorInv, EmbeddedUnlessUpdated, NoCall

LEMMA IngestNodeVectors ==
  ASSUME IngestTyped, VectorInv, NEW t \in Texts, NEW vector, NEW guard,
         IngestNode(t, vector, guard)
  PROVE  VectorInv'
<1> DEFINE tx == IngestKgnText(Snapshot, "text", t)
<1>1. /\ KgnOutcome(Snapshot, "text", t, tx)
      /\ call.kind \in {"none", "embed"}
      /\ UNCHANGED <<call, store, history>> \/ NodeStored(t, vector, tx)
  BY IngestNodeCases
<1> HIDE DEF tx
<1>2. CASE UNCHANGED <<call, store, history>>
  BY <1>2, StillVectors DEF store, history
<1>3. CASE NodeStored(t, vector, tx)
  <2> DEFINE id == tx.results[1].id
  <2>1. /\ id \in Ids /\ nodes' = tx.nodes
        /\ embedding' = IF vector = "stored" THEN [embedding EXCEPT ![id] = tx.nodes[id]] ELSE embedding
        /\ outdated' = IF vector = "stored" THEN outdated \ {id} ELSE outdated \cup Updated(tx)
        /\ call' = IF call.kind = "embed"
                   THEN [call EXCEPT !.overtaken = @ \cup Updated(tx)] ELSE call
    BY <1>3 DEF NodeStored
  <2>2. \A n \in Ids : n # id => nodes'[n] = nodes[n]
    BY <1>1, <2>1, OnlyThisNode
  <2> HIDE DEF id
  <2>3. \A n \in Ids \ Updated(tx) : nodes'[n] = nodes[n]
    BY <2>1 DEF Updated
  <2>4. embedding \in [Ids -> Optional(Texts)]
    BY DEF IngestTyped, TypeOK
  <2>5. ASSUME NEW n \in Ids \ outdated' PROVE embedding'[n] \in {None, nodes'[n]}
    <3>1. CASE vector = "stored"
      <4>1. CASE n = id
        BY <2>1, <2>4, <3>1, <4>1
      <4>2. CASE n # id
        BY <2>1, <2>2, <2>4, <3>1, <4>2 DEF VectorInv, EmbeddedUnlessUpdated
      <4>3. QED
        BY <4>1, <4>2
    <3>2. CASE vector # "stored"
      BY <2>1, <2>3, <3>2 DEF VectorInv, EmbeddedUnlessUpdated
    <3>3. QED
      BY <3>1, <3>2
  <2>6. EmbeddedUnlessUpdated'
    BY <2>5 DEF EmbeddedUnlessUpdated
  <2>7. CASE call.kind = "embed"
    <3>1. call \in Embeds
      BY <2>7, CommandFields
    <3>2. /\ call'.kind = "embed" /\ call'.overtaken = call.overtaken \cup Updated(tx)
          /\ call'.rows = call.rows /\ call'.vectors = call.vectors
      BY <2>1, <2>7, <3>1 DEF Embeds
    <3>3. \A n \in Ids \ call'.overtaken :
            call'.rows[n] \in {None, nodes'[n]} /\ call'.vectors[n] \in {None, nodes'[n]}
      BY <2>3, <2>7, <3>2 DEF VectorInv
    <3>4. QED
      BY <2>6, <3>2, <3>3 DEF VectorInv
  <2>8. CASE call.kind = "none"
    BY <2>1, <2>6, <2>8 DEF VectorInv
  <2>9. QED
    BY <1>1, <2>7, <2>8
<1>4. QED
  BY <1>1, <1>2, <1>3

LEMMA NextVectors ==
  ASSUME IngestTyped, VectorInv, [Next]_vars PROVE VectorInv'
<1>1. CASE UNCHANGED vars
  BY <1>1, StillVectors DEF vars, store, history
<1>2. CASE Next
  <2>1. CASE \E b \in BOOLEAN : BeginBatch(b)
    <3>1. /\ call'.kind = "batch" /\ call'.rows = NoTexts /\ call'.vectors = NoTexts
          /\ UNCHANGED <<nodes, embedding, outdated>>
      BY <2>1 DEF BeginBatch, store, history
    <3>2. QED
      BY <3>1, SameVectors DEF RowsAre, NoTexts
  <2>2. CASE \E b \in BOOLEAN : BeginEmbed(b)
    <3>1. PICK N : /\ call'.kind = "embed" /\ call'.rows = TextsOf(nodes, N)
                   /\ call'.vectors = NoTexts
                   /\ UNCHANGED <<nodes, embedding, outdated>>
      BY <2>2 DEF BeginEmbed, store, history
    <3>2. \A n \in Ids : call'.rows[n] \in {None, nodes[n]} /\ call'.vectors[n] = None
      BY <3>1, TextsAre DEF NoTexts
    <3>3. QED
      BY <3>1, <3>2, SameVectors DEF RowsAre
  <2>3. CASE IngestFile
    BY <2>3, IngestFileVectors
  <2>4. CASE ReadMutated
    BY <2>4, ReadMutatedVectors
  <2>5. CASE ApiAnswers \/ ApiBusy \/ NoClient
    BY <2>5, ApiVectors
  <2>6. CASE ApiRefuses \/ Fail
    BY <2>6, RaiseVectors DEF ApiRefuses, ApiGivesUp, Fail
  <2>7. CASE VectorRefused
    <3>1. call' = NoCall /\ UNCHANGED <<nodes, embedding, outdated>>
      BY <2>7 DEF VectorRefused, Raise, store, history
    <3>2. QED
      BY <3>1, SameVectors DEF NoCall
  <2>8. CASE CommitBatch
    BY <2>8, CommitBatchVectors
  <2>9. CASE CommitEmbed
    BY <2>9, CommitEmbedVectors
  <2>10. CASE \E t \in Texts : \E v, guard : IngestNode(t, v, guard)
    BY <2>10, IngestNodeVectors
  <2>11. CASE \E t \in EdgeTexts : \E guard : IngestEdge(t, guard)
    BY <2>11, StillVectors DEF IngestEdge
  <2>12. CASE \E f \in Files : \E t : WriteFile(f, t)
    <3>1. /\ UNCHANGED <<nodes, embedding, outdated>>
          /\ call' = IF call.kind = "batch" THEN [call EXCEPT !.moved = TRUE] ELSE call
      BY <2>12 DEF WriteFile, store
    <3>2. CASE call.kind = "batch"
      <4>1. /\ call'.rows = call.rows /\ call'.vectors = call.vectors /\ call'.tx = call.tx
            /\ call'.stage = call.stage /\ call'.kind = "batch"
        BY <3>1, <3>2, CommandFields DEF Batches
      <4>2. QED
        BY <3>1, <3>2, <4>1, SameVectors DEF VectorInv, RowsAre
    <3>3. CASE call.kind # "batch"
      BY <3>1, <3>3, StillVectors
    <3>4. QED
      BY <3>2, <3>3
  <2>13. QED
    BY <1>2, <2>1, <2>2, <2>3, <2>4, <2>5, <2>6, <2>7, <2>8, <2>9, <2>10, <2>11, <2>12, Steps
<1>3. QED
  BY <1>1, <1>2

\* A vector is of its node's text, or the node has been updated by a call that
\* embedded nothing, or since the text was read for the vector.
THEOREM VectorsFit == Spec => []EmbeddedUnlessUpdated
<1>1. Init => VectorInv
  BY DEF Init, VectorInv, EmbeddedUnlessUpdated, NoCall
<1>2. IngestTyped /\ VectorInv /\ [Next]_vars => VectorInv'
  BY NextVectors
<1>3. VectorInv => EmbeddedUnlessUpdated
  BY DEF VectorInv
<1>4. QED
  BY <1>1, <1>2, <1>3, AlwaysTyped, PTL DEF Spec

-----------------------------------------------------------------------------
(***************************************************************************)
(* Ingesting again.                                                        *)
(***************************************************************************)
\* An entry that is stored and names no slug joins the nodes that it names.
LEMMA PlainEntry ==
  ASSUME NEW tx \in Txs, NEW e \in Refs \X Refs
  PROVE  /\ Plain(e, tx.nodes) => /\ EntryFate(tx, e) = "stored"
                                  /\ <<Resolved(tx, e[1]), Resolved(tx, e[2])>> = e
         /\ EntryFate(tx, e) = "stored" /\ e[1] \notin Slugs /\ e[2] \notin Slugs
              => Plain(e, tx.nodes) /\ <<Resolved(tx, e[1]), Resolved(tx, e[2])>> = e
<1>1. e = <<e[1], e[2]>> /\ 1..2 = {1, 2}
  OBVIOUS
<1>2. ASSUME Plain(e, tx.nodes)
      PROVE  /\ EntryFate(tx, e) = "stored"
             /\ <<Resolved(tx, e[1]), Resolved(tx, e[2])>> = e
  <2>1. ASSUME NEW k \in 1..2
        PROVE  /\ e[k] \notin Slugs /\ e[k] # Malformed /\ Resolved(tx, e[k]) = e[k]
               /\ ~Unknown(tx, e[k]) /\ Stored(tx, e[k])
    BY <1>2, Names DEF Plain, Resolved, Unknown, Stored
  <2>2. ~\E i \in 1..2 : Unknown(tx, e[i]) \/ e[i] = Malformed
    BY <2>1
  <2>3. EntryFate(tx, e) = "stored"
    BY <1>1, <2>1, <2>2 DEF EntryFate
  <2>4. QED
    BY <1>1, <2>1, <2>3
<1>3. ASSUME EntryFate(tx, e) = "stored", e[1] \notin Slugs, e[2] \notin Slugs
      PROVE  Plain(e, tx.nodes) /\ <<Resolved(tx, e[1]), Resolved(tx, e[2])>> = e
  <2>1. \A k \in 1..2 : Resolved(tx, e[k]) = e[k] /\ e[k] \in Ids /\ tx.nodes[e[k]] # None
    BY <1>1, <1>3, StoredEntry DEF Resolved
  <2>2. QED
    BY <1>1, <2>1 DEF Plain
<1>4. QED
  BY <1>2, <1>3

\* Without slugs of nodes, the entries that are stored are edges already.
LEMMA KgeRepeats ==
  ASSUME IngestTyped, NEW f \in KgeFiles, NEW tx \in Txs, NEW tx2, disk[f] \in EdgeTexts,
         KgeOutcome(tx, f, disk[f], tx2), Repeats(tx), EdgesOf(disk, Files, nodes, edges)
  PROVE  Repeats(tx2)
<1> DEFINE t == disk[f]
<1>1. t.edges \in Seq(Refs \X Refs)
  BY FilesAssumption DEF FilesAssumption
<1>2. tx.nodes = nodes /\ tx.edges = edges
      /\ \A s \in Slugs : tx.slugs[s] # None => tx.nodes[tx.slugs[s]] = None
  BY DEF Repeats
<1>3. ASSUME t.parse = "parsed", NEW i \in Reached(tx, t), EntryFate(tx, t.edges[i]) = "stored"
      PROVE  <<Resolved(tx, t.edges[i][1]), Resolved(tx, t.edges[i][2])>> \in edges
  <2>1. i \in 1..Len(t.edges) /\ \A j \in 1..i : EntryFate(tx, t.edges[j]) = "stored"
    BY <1>1, <1>3 DEF Reached
  <2>2. ASSUME NEW j \in 1..i
        PROVE  /\ Plain(t.edges[j], nodes)
               /\ <<Resolved(tx, t.edges[j][1]), Resolved(tx, t.edges[j][2])>> = t.edges[j]
    <3>1. t.edges[j] \in Refs \X Refs /\ EntryFate(tx, t.edges[j]) = "stored"
      BY <1>1, <2>1
    <3>2. \A k \in 1..2 : t.edges[j][k] \notin Slugs
      BY <1>2, <3>1, StoredEntry DEF Resolved
    <3>3. QED
      BY <1>2, <3>1, <3>2, PlainEntry
  <2>3. i \in 1..i
    BY <2>1
  <2>4. t.edges[i] \in edges
    BY <1>3, <2>1, <2>2 DEF EdgesOf, Files
  <2>5. QED
    BY <2>2, <2>3, <2>4
<1>4. tx2.edges = edges
  <2>1. CASE t.parse = "parsed"
    BY <1>2, <1>3, <2>1 DEF KgeOutcome, Linked
  <2>2. CASE t.parse # "parsed"
    BY <1>2, <2>2 DEF KgeOutcome
  <2>3. QED
    BY <2>1, <2>2
<1>5. QED
  BY <1>4 DEF Repeats, KgeOutcome

\* Every text is a node already, so that none is written.
LEMMA KgnRepeats ==
  ASSUME IngestTyped, NEW f \in KgnFiles, NEW tx \in Txs, NEW tx2, disk[f] \in Texts,
         KgnOutcome(tx, f, disk[f], tx2), Repeats(tx), NodesOf(disk, Files, nodes)
  PROVE  Repeats(tx2)
<1>1. tx.nodes = nodes /\ tx2.edges = tx.edges
  BY DEF Repeats, KgnOutcome
<1>2. CASE KgnRefused(tx, f, disk[f], tx2)
  BY <1>1, <1>2 DEF KgnRefused, Repeats
<1>3. CASE KgnSkipped(tx, f, disk[f], tx2)
  <2>1. PICK n \in Ids : Gets(tx, disk[f], n, tx2.slugs)
    BY <1>3 DEF KgnSkipped
  <2>2. \A s \in Slugs : s # disk[f].id => tx2.slugs[s] = tx.slugs[s]
    BY <2>1, GotIsNew
  <2>3. disk[f].id \in Slugs => nodes[tx2.slugs[disk[f].id]] = None
    BY <1>1, <2>1, GotIsNew
  <2>4. tx2.nodes = tx.nodes /\ tx2.versions = tx.versions
    BY <1>3 DEF KgnSkipped
  <2>5. QED
    BY <1>1, <2>2, <2>3, <2>4 DEF Repeats
<1>4. CASE KgnWritten(tx, f, disk[f], tx2)
  <2>1. f \in Files \cap KgnFiles /\ IsSound(disk, f)
    BY <1>4 DEF KgnWritten, IsSound, Files
  <2>2. PICK m \in Ids : nodes[m] = disk[f]
    BY <2>1 DEF NodesOf
  <2>3. FALSE
    BY <1>1, <1>4, <2>2 DEF KgnWritten
  <2>4. QED
    BY <2>3
<1>5. QED
  BY <1>2, <1>3, <1>4 DEF KgnOutcome

\* One more .kgn file, whose text names another node than those of F.
LEMMA KgnMade ==
  ASSUME IngestTyped, Distinct, NEW F \in SUBSET Files, NEW f \in KgnFiles \ F,
         NEW tx \in Txs, NEW tx2, disk[f] \in Texts, KgnOutcome(tx, f, disk[f], tx2),
         NodesSound(tx.nodes), MadeOf(disk, F, tx), \A g \in F \cap KgeFiles : disk[g] = Missing
  PROVE  MadeOf(disk, F \cup {f}, tx2)
<1> DEFINE t == disk[f]
<1>1. \A g \in F \cap KgnFiles : IsSound(disk, g) /\ Valid(t) => disk[g].id # t.id
  <2>1. ASSUME NEW g \in F \cap KgnFiles, IsSound(disk, g), Valid(t) PROVE disk[g].id # t.id
    <3>1. f # g
      OBVIOUS
    <3>2. QED
      BY <2>1, <3>1 DEF Distinct, IsSound
  <2>2. QED
    BY <2>1
<1>2. tx2 \in Txs
  BY DEF KgnOutcome
<1>3. EdgesOf(disk, F \cup {f}, tx2.nodes, tx2.edges)
  <2>1. (F \cup {f}) \cap KgeFiles \subseteq F \cap KgeFiles
    BY FilesAssumption DEF FilesAssumption
  <2>2. Missing \notin EdgeTexts
    BY FilesAssumption DEF FilesAssumption
  <2>3. QED
    BY <2>1, <2>2 DEF EdgesOf
<1>4. ASSUME NEW s \in Slugs, tx2.slugs[s] # None
      PROVE  \E g \in (F \cup {f}) \cap KgnFiles : IsSound(disk, g) /\ disk[g].id = s
  <2>1. CASE tx.slugs[s] # None
    BY <2>1 DEF MadeOf
  <2>2. CASE tx.slugs[s] = None
    <3>1. ~KgnRefused(tx, f, t, tx2)
      BY <1>4, <2>2 DEF KgnRefused
    <3>2. PICK n \in Ids : Gets(tx, t, n, tx2.slugs)
      BY <3>1 DEF KgnOutcome, KgnSkipped, KgnWritten
    <3>3. s = t.id
      BY <1>4, <2>2, <3>2, GotIsNew
    <3>4. IsSound(disk, f)
      BY <3>1 DEF KgnOutcome, KgnSkipped, KgnWritten, IsSound
    <3>5. QED
      BY <3>3, <3>4
  <2>3. QED
    BY <2>1, <2>2
<1>5. NodesOf(disk, F \cup {f}, tx2.nodes)
  <2>1. CASE KgnRefused(tx, f, t, tx2)
    <3>1. ~IsSound(disk, f)
      <4>1. SUFFICES ASSUME Valid(t) PROVE FALSE
        BY DEF IsSound
      <4>2. t.id \in Slugs /\ tx.slugs[t.id] # None
        BY <2>1, <4>1 DEF KgnRefused
      <4>3. PICK g \in F \cap KgnFiles : IsSound(disk, g) /\ disk[g].id = t.id
        BY <4>2 DEF MadeOf
      <4>4. QED
        BY <1>1, <4>1, <4>3
    <3>2. tx2.nodes = tx.nodes
      BY <2>1 DEF KgnRefused
    <3>3. QED
      BY <3>1, <3>2 DEF MadeOf, NodesOf
  <2>2. CASE KgnSkipped(tx, f, t, tx2)
    <3>1. tx2.nodes = tx.nodes /\ \E m \in Ids : tx.nodes[m] = t
      BY <2>2 DEF KgnSkipped
    <3>2. QED
      BY <3>1 DEF MadeOf, NodesOf
  <2>3. CASE KgnWritten(tx, f, t, tx2)
    <3>1. PICK n \in Ids : Gets(tx, t, n, tx2.slugs) /\ tx2.nodes = [tx.nodes EXCEPT ![n] = t]
      BY <2>3 DEF KgnWritten
    <3>2. tx2.nodes[n] = t /\ \A m \in Ids : m # n => tx2.nodes[m] = tx.nodes[m]
      BY <3>1 DEF Txs
    <3>3. ASSUME NEW g \in F \cap KgnFiles, IsSound(disk, g)
          PROVE  \E m \in Ids : tx2.nodes[m] = disk[g]
      <4>1. PICK m \in Ids : tx.nodes[m] = disk[g]
        BY <3>3 DEF MadeOf, NodesOf
      <4>2. m # n
        <5>1. SUFFICES ASSUME m = n PROVE FALSE
          OBVIOUS
        <5>2. tx.nodes[n] = disk[g] /\ disk[g] # None
          BY <3>3, <4>1, <5>1, Names DEF IsSound
        <5>3. Valid(t)
          BY <2>3 DEF KgnWritten
        <5>4. n \notin Named
          <6>1. ASSUME n \in Named PROVE FALSE
            <7>1. t.id = n
              BY <3>1, <6>1, GotIsNew
            <7>2. disk[g].id = n
              BY <5>2, <6>1 DEF NodesSound
            <7>3. QED
              BY <1>1, <3>3, <5>3, <7>1, <7>2
          <6>2. QED
            BY <6>1
        <5>5. t.id \in Slugs /\ tx.nodes[n] = None
          BY <3>1, <5>4, GotIsNew DEF Gets
        <5>6. QED
          BY <5>2, <5>5
      <4>3. QED
        BY <3>2, <4>1, <4>2
    <3>4. QED
      BY <3>2, <3>3 DEF NodesOf
  <2>4. QED
    BY <2>1, <2>2, <2>3 DEF KgnOutcome
<1>6. QED
  BY <1>3, <1>4, <1>5 DEF MadeOf

\* One more edge file.
LEMMA KgeMade ==
  ASSUME IngestTyped, NEW F \in SUBSET Files, NEW f \in KgeFiles \ F,
         NEW tx \in Txs, NEW tx2, disk[f] \in EdgeTexts, KgeOutcome(tx, f, disk[f], tx2),
         MadeOf(disk, F, tx)
  PROVE  MadeOf(disk, F \cup {f}, tx2)
<1> DEFINE t == disk[f]
<1>1. tx2.nodes = tx.nodes /\ tx2.slugs = tx.slugs /\ tx.edges \subseteq tx2.edges
  BY DEF KgeOutcome, Linked
<1>2. (F \cup {f}) \cap KgnFiles = F \cap KgnFiles
  BY FilesAssumption DEF FilesAssumption
<1>3. t.edges \in Seq(Refs \X Refs)
  BY FilesAssumption DEF FilesAssumption
<1>4. ASSUME t.parse = "parsed", NEW i \in 1..Len(t.edges),
             \A j \in 1..i : Plain(t.edges[j], tx.nodes)
      PROVE  t.edges[i] \in tx2.edges
  <2>1. \A j \in 1..i : /\ EntryFate(tx, t.edges[j]) = "stored"
                        /\ <<Resolved(tx, t.edges[j][1]), Resolved(tx, t.edges[j][2])>> = t.edges[j]
    <3>1. ASSUME NEW j \in 1..i
          PROVE  /\ EntryFate(tx, t.edges[j]) = "stored"
                 /\ <<Resolved(tx, t.edges[j][1]), Resolved(tx, t.edges[j][2])>> = t.edges[j]
      <4>1. t.edges[j] \in Refs \X Refs
        BY <1>3
      <4>2. QED
        BY <1>4, <4>1, PlainEntry
    <3>2. QED
      BY <3>1
  <2>2. i \in Reached(tx, t)
    BY <1>3, <2>1 DEF Reached
  <2>3. i \in 1..i
    BY <1>3
  <2>4. QED
    BY <1>4, <2>1, <2>2, <2>3 DEF KgeOutcome, Linked
<1>5. EdgesOf(disk, F \cup {f}, tx2.nodes, tx2.edges)
  BY <1>1, <1>4 DEF MadeOf, EdgesOf
<1>6. QED
  BY <1>1, <1>2, <1>5 DEF MadeOf, NodesOf

LEMMA FileMade ==
  ASSUME IngestTyped, ResultsInv, call.kind = "batch", Distinct,
         NEW f \in call.todo, ~Unreadable(f, disk[f]),
         MadeOf(disk, Files \ call.todo, call.tx), NoEdgesYet(disk, call.todo)
  PROVE  MadeOf(disk, Files \ (call.todo \ {f}), TxAfter(f))
<1>1. call.tx \in Txs /\ call.todo \subseteq Files /\ f \in Files
  BY CommandFields DEF Batches
<1> DEFINE F == Files \ call.todo
<1>2. F \in SUBSET Files /\ f \notin F /\ F \cup {f} = Files \ (call.todo \ {f})
  BY <1>1
<1>3. CASE f \in KgnFiles
  <2>1. KgnOutcome(call.tx, f, disk[f], TxAfter(f)) /\ disk[f] \in Texts
    BY <1>3, FileOutcome DEF TxAfter
  <2>2. NodesSound(call.tx.nodes)
    BY DEF ResultsInv, BatchSound, TxSound
  <2>3. \A g \in F \cap KgeFiles : disk[g] = Missing
    BY <1>3 DEF NoEdgesYet
  <2>4. MadeOf(disk, F, call.tx) /\ f \in KgnFiles \ F
    BY <1>2, <1>3
  <2> HIDE DEF F
  <2>5. MadeOf(disk, F \cup {f}, TxAfter(f))
    BY <1>1, <1>2, <2>1, <2>2, <2>3, <2>4, KgnMade
  <2>6. QED
    BY <1>2, <2>5
<1>4. CASE f \notin KgnFiles
  <2>1. /\ KgeOutcome(call.tx, f, disk[f], TxAfter(f)) /\ disk[f] \in EdgeTexts
        /\ f \in KgeFiles
    BY <1>4, FileOutcome DEF TxAfter
  <2>2. MadeOf(disk, F, call.tx) /\ f \in KgeFiles \ F
    BY <1>2, <2>1
  <2> HIDE DEF F
  <2>3. MadeOf(disk, F \cup {f}, TxAfter(f))
    BY <1>1, <1>2, <2>1, <2>2, KgeMade
  <2>4. QED
    BY <1>2, <2>3
<1>5. QED
  BY <1>3, <1>4

LEMMA FileRepeats ==
  ASSUME IngestTyped, call.kind = "batch", NEW f \in call.todo, ~Unreadable(f, disk[f]),
         Repeats(call.tx), NodesOf(disk, Files, nodes), EdgesOf(disk, Files, nodes, edges)
  PROVE  Repeats(TxAfter(f))
<1>1. call.tx \in Txs
  BY CommandFields DEF Batches
<1>2. CASE f \in KgnFiles
  <2>1. KgnOutcome(call.tx, f, disk[f], TxAfter(f)) /\ disk[f] \in Texts
    BY <1>2, FileOutcome DEF TxAfter
  <2>2. QED
    BY <1>1, <1>2, <2>1, KgnRepeats
<1>3. CASE f \notin KgnFiles
  <2>1. /\ KgeOutcome(call.tx, f, disk[f], TxAfter(f)) /\ disk[f] \in EdgeTexts
        /\ f \in KgeFiles
    BY <1>3, FileOutcome DEF TxAfter
  <2>2. QED
    BY <1>1, <2>1, KgeRepeats
<1>4. QED
  BY <1>2, <1>3

\* A step that leaves what is stored, the files and the transaction.
LEMMA SameRerun ==
  ASSUME RerunInv, UNCHANGED <<disk, nodes, versions, edges>>, settled' \in {settled, FALSE},
         StillBatch' =>
           /\ StillBatch
           /\ call'.tx = call.tx /\ call'.todo = call.todo
           /\ call'.stage = call.stage \/ call.todo = {}
  PROVE  RerunInv'
<1>1. Distinct' = Distinct
  BY DEF Distinct
<1>2. settled' => NodesOf(disk', Files, nodes') /\ EdgesOf(disk', Files, nodes', edges')
  BY DEF RerunInv
<1>3. ASSUME StillBatch'
      PROVE  /\ settled' => Repeats(call.tx)
             /\ Distinct => MadeOf(disk, Files \ call.todo, call.tx)
             /\ NoEdgesYet(disk, call.todo)
             /\ call'.stage = "vectors" => call.todo = {}
  <2>1. StillBatch /\ (call'.stage = call.stage \/ call.todo = {})
    BY <1>3
  <2>2. settled' => settled
    OBVIOUS
  <2>3. QED
    BY <2>1, <2>2 DEF RerunInv
<1>4. StillBatch' /\ Repeats(call.tx) => Repeats(call.tx)'
  BY DEF Repeats
<1>5. ASSUME StillBatch'
      PROVE  /\ settled' => Repeats(call.tx)'
             /\ Distinct' => MadeOf(disk', Files \ call'.todo, call'.tx)
             /\ NoEdgesYet(disk', call'.todo)
             /\ call'.stage = "vectors" => call'.todo = {}
  BY <1>1, <1>3, <1>4, <1>5
<1>6. QED
  BY <1>2, <1>5 DEF RerunInv

LEMMA EndRerun ==
  ASSUME RerunInv, call' = NoCall, UNCHANGED <<disk, nodes, versions, edges, settled>>
  PROVE  RerunInv'
<1>1. ~StillBatch'
  BY DEF StillBatch, NoCall
<1>2. settled' => NodesOf(disk', Files, nodes') /\ EdgesOf(disk', Files, nodes', edges')
  BY DEF RerunInv
<1>3. QED
  BY <1>1, <1>2 DEF RerunInv

LEMMA RaiseRerun == ASSUME RerunInv, Raise, UNCHANGED disk PROVE RerunInv'
BY EndRerun DEF Raise, store, history

LEMMA BeginBatchRerun ==
  ASSUME IngestTyped, RerunInv, NEW b \in BOOLEAN, BeginBatch(b) PROVE RerunInv'
<1>1. /\ UNCHANGED <<disk, nodes, versions, edges, settled>>
      /\ call'.tx = Snapshot /\ call'.todo = {f \in Files : disk[f] # Missing}
      /\ call'.stage = "files" /\ call'.kind = "batch"
  BY DEF BeginBatch, store, history
<1>2. /\ Snapshot.nodes = nodes /\ Snapshot.versions = versions /\ Snapshot.edges = edges
      /\ \A s \in Slugs : Snapshot.slugs[s] = None
  BY DEF Snapshot, NoSlugs
<1>3. Repeats(Snapshot) /\ Repeats(Snapshot)'
  BY <1>1, <1>2 DEF Repeats, Snapshot
<1> DEFINE F == Files \ {f \in Files : disk[f] # Missing}
<1>4. \A f \in F : disk[f] = Missing
  OBVIOUS
<1>5. Missing \notin Texts /\ Missing \notin EdgeTexts
  BY FilesAssumption DEF FilesAssumption
<1> HIDE DEF F
<1>6. MadeOf(disk, F, Snapshot)
  BY <1>2, <1>4, <1>5 DEF MadeOf, NodesOf, EdgesOf, IsSound
<1>7. NoEdgesYet(disk, call'.todo)
  BY <1>1, <1>4 DEF NoEdgesYet, F, Files
<1>8. settled' => NodesOf(disk', Files, nodes') /\ EdgesOf(disk', Files, nodes', edges')
  BY <1>1 DEF RerunInv
<1>9. MadeOf(disk', Files \ call'.todo, call'.tx)
  BY <1>1, <1>6 DEF F
<1>10. Repeats(call'.tx) /\ Repeats(call.tx)'
  BY <1>1, <1>3 DEF Repeats
<1>11. QED
  BY <1>1, <1>7, <1>8, <1>9, <1>10 DEF RerunInv

LEMMA IngestFileRerun ==
  ASSUME IngestTyped, ResultsInv, RerunInv, IngestFile PROVE RerunInv'
<1>1. CASE Raise
  BY <1>1, RaiseRerun, IngestFileCases
<1>2. CASE ~Raise
  <2>1. /\ call.kind = "batch" /\ call.stage = "files"
        /\ UNCHANGED <<disk, nodes, versions, edges, settled>>
    BY IngestFileCases DEF store, history
  <2>2. PICK f \in call.todo :
          /\ \A g \in call.todo \ {f} : Before(f, g)
          /\ ~Unreadable(f, disk[f])
          /\ call' = [call EXCEPT !.tx = TxAfter(f), !.todo = @ \ {f}]
    BY <1>2, IngestFileCases
  <2>3. call \in Batches
    BY <2>1, CommandFields
  <2>4. /\ call'.tx = TxAfter(f) /\ call'.todo = call.todo \ {f} /\ call'.kind = "batch"
        /\ call'.stage = "files" /\ call'.moved = call.moved
    BY <2>1, <2>2, <2>3 DEF Batches
  <2>5. Distinct' = Distinct
    BY <2>1 DEF Distinct
  <2>6. settled' => NodesOf(disk', Files, nodes') /\ EdgesOf(disk', Files, nodes', edges')
    BY <2>1 DEF RerunInv
  <2>7. ASSUME StillBatch'
        PROVE  /\ settled => Repeats(TxAfter(f))
               /\ Distinct => MadeOf(disk, Files \ (call.todo \ {f}), TxAfter(f))
               /\ NoEdgesYet(disk, call.todo \ {f})
    <3>1. StillBatch
      BY <2>1, <2>4, <2>7 DEF StillBatch
    <3>2. settled => Repeats(TxAfter(f))
      BY <2>1, <2>2, <3>1, FileRepeats DEF RerunInv
    <3>3. Distinct => MadeOf(disk, Files \ (call.todo \ {f}), TxAfter(f))
      BY <2>1, <2>2, <3>1, FileMade DEF RerunInv
    <3>4. NoEdgesYet(disk, call.todo \ {f})
      <4>1. NoEdgesYet(disk, call.todo)
        BY <3>1 DEF RerunInv
      <4>2. CASE f \in KgeFiles
        BY <2>2, <4>2, KgnBeforeKge DEF NoEdgesYet
      <4>3. CASE f \notin KgeFiles
        BY <4>1, <4>3 DEF NoEdgesYet
      <4>4. QED
        BY <4>2, <4>3
    <3>5. QED
      BY <3>2, <3>3, <3>4
  <2>8. Repeats(TxAfter(f)) => Repeats(call.tx)'
    BY <2>1, <2>4 DEF Repeats
  <2>9. StillBatch' =>
          /\ settled' => Repeats(call.tx)'
          /\ Distinct' => MadeOf(disk', Files \ call'.todo, call'.tx)
          /\ NoEdgesYet(disk', call'.todo)
          /\ call'.stage # "vectors"
    BY <2>1, <2>4, <2>5, <2>7, <2>8
  <2>10. QED
    BY <2>6, <2>9 DEF RerunInv
<1>3. QED
  BY <1>1, <1>2

LEMMA CommitBatchRerun ==
  ASSUME RerunInv, CommitBatch PROVE RerunInv'
<1>1. /\ call.kind = "batch" /\ call.stage = "vectors" /\ disk' = disk /\ call' = NoCall
      /\ nodes' = call.tx.nodes /\ edges' = call.tx.edges
      /\ settled' = (~call.moved /\ Distinct)
  BY DEF CommitBatch
<1>2. ASSUME settled' PROVE NodesOf(disk', Files, nodes') /\ EdgesOf(disk', Files, nodes', edges')
  <2>1. StillBatch /\ Distinct
    BY <1>1, <1>2 DEF StillBatch
  <2>2. call.todo = {} /\ MadeOf(disk, Files \ call.todo, call.tx)
    BY <1>1, <2>1 DEF RerunInv
  <2>3. MadeOf(disk, Files, call.tx)
    <3>1. Files \ {} = Files
      OBVIOUS
    <3>2. QED
      BY <2>2, <3>1
  <2>4. QED
    BY <1>1, <2>3 DEF MadeOf
<1>3. QED
  BY <1>1, <1>2 DEF RerunInv, StillBatch, NoCall

\* A text of ingest_node that changes no node writes no version either.
LEMMA IngestNodeChanges ==
  ASSUME IngestTyped, NEW t \in Texts, NEW vector, NEW guard, IngestNode(t, vector, guard)
  PROVE  /\ UNCHANGED <<disk, edges>>
         /\ settled' \in {settled, FALSE}
         /\ settled' => UNCHANGED <<nodes, versions>>
         /\ ~StillBatch'
<1> DEFINE tx == IngestKgnText(Snapshot, "text", t)
<1>1. /\ KgnOutcome(Snapshot, "text", t, tx)
      /\ call.kind \in {"none", "embed"} /\ disk' = disk
      /\ UNCHANGED <<call, store, history>> \/ NodeStored(t, vector, tx)
  BY IngestNodeCases
<1> HIDE DEF tx
<1>2. CASE UNCHANGED <<call, store, history>>
  BY <1>1, <1>2 DEF store, history, StillBatch
<1>3. CASE NodeStored(t, vector, tx)
  <2>1. /\ nodes' = tx.nodes /\ versions' = tx.versions /\ edges' = edges
        /\ settled' = (settled /\ Updated(tx) = {})
        /\ call' = IF call.kind = "embed"
                   THEN [call EXCEPT !.overtaken = @ \cup Updated(tx)] ELSE call
    BY <1>3 DEF NodeStored
  <2>2. call'.kind # "batch"
    <3>1. CASE call.kind = "embed"
      BY <2>1, <3>1, CommandFields DEF Embeds
    <3>2. CASE call.kind # "embed"
      BY <1>1, <2>1, <3>2
    <3>3. QED
      BY <3>1, <3>2
  <2>3. Snapshot.nodes = nodes /\ Snapshot.versions = versions
    BY DEF Snapshot
  <2>4. ASSUME Updated(tx) = {} PROVE tx.nodes = nodes /\ tx.versions = versions
    <3>1. ~KgnWritten(Snapshot, "text", t, tx)
      <4>1. SUFFICES ASSUME KgnWritten(Snapshot, "text", t, tx) PROVE FALSE
        OBVIOUS
      <4>2. PICK n \in Ids : tx.nodes = [nodes EXCEPT ![n] = t]
        BY <2>3, <4>1 DEF KgnWritten
      <4>3. tx.nodes[n] = t /\ nodes[n] # t
        BY <2>3, <4>1, <4>2 DEF KgnWritten, IngestTyped, TypeOK
      <4>4. n \in Updated(tx)
        BY <4>3 DEF Updated
      <4>5. QED
        BY <2>4, <4>4
    <3>2. QED
      BY <1>1, <2>3, <3>1 DEF KgnOutcome, KgnRefused, KgnSkipped
  <2>5. QED
    BY <1>1, <2>1, <2>2, <2>4 DEF StillBatch
<1>4. QED
  BY <1>1, <1>2, <1>3

LEMMA NextRerun ==
  ASSUME IngestTyped, ResultsInv, RerunInv, [Next]_vars PROVE RerunInv'
<1>1. CASE UNCHANGED vars
  BY <1>1, SameRerun DEF vars, store, history, StillBatch
<1>2. CASE Next
  <2>1. CASE \E b \in BOOLEAN : BeginBatch(b)
    BY <2>1, BeginBatchRerun
  <2>2. CASE \E b \in BOOLEAN : BeginEmbed(b)
    BY <2>2, SameRerun DEF BeginEmbed, StillBatch, store, history
  <2>3. CASE IngestFile
    BY <2>3, IngestFileRerun
  <2>4. CASE ReadMutated
    <3>1. /\ UNCHANGED <<disk, nodes, versions, edges, settled>>
          /\ call.kind = "batch" /\ call.todo = {}
      BY <2>4 DEF ReadMutated, store, history
    <3>2. call \in Batches
      BY <3>1, CommandFields
    <3>3. call'.tx = call.tx /\ call'.todo = call.todo /\ call'.moved = call.moved
      BY <2>4, <3>2 DEF ReadMutated, Batches
    <3>4. QED
      BY <3>1, <3>3, SameRerun DEF StillBatch
  <2>5. CASE ApiAnswers \/ ApiBusy \/ NoClient
    <3>1. CASE Raise
      BY <2>5, <3>1, RaiseRerun DEF ApiAnswers, ApiBusy, NoClient
    <3>2. CASE ~Raise
      <4>1. UNCHANGED <<disk, nodes, versions, edges, settled>>
        BY <2>5, <3>2 DEF ApiAnswers, ApiBusy, ApiGivesUp, NoClient, store, history
      <4>2. call \in Batches \cup Embeds
        BY <2>5, CommandFields DEF ApiAnswers, ApiBusy, NoClient, Waiting
      <4>3. /\ call'.kind = call.kind
            /\ call.kind = "batch" =>
                 /\ call'.tx = call.tx /\ call'.todo = call.todo
                 /\ call'.stage = call.stage /\ call'.moved = call.moved
        BY <2>5, <3>2, <4>2 DEF ApiAnswers, ApiBusy, ApiGivesUp, NoClient, Batches, Embeds
      <4>4. QED
        BY <4>1, <4>3, SameRerun DEF StillBatch
    <3>3. QED
      BY <3>1, <3>2
  <2>6. CASE ApiRefuses \/ Fail
    BY <2>6, RaiseRerun DEF ApiRefuses, ApiGivesUp, Fail
  <2>7. CASE VectorRefused
    BY <2>7, EndRerun DEF VectorRefused, Raise, store, history
  <2>8. CASE CommitBatch
    BY <2>8, CommitBatchRerun
  <2>9. CASE CommitEmbed
    BY <2>9, EndRerun DEF CommitEmbed
  <2>10. CASE \E t \in Texts : \E v, guard : IngestNode(t, v, guard)
    <3>1. /\ UNCHANGED <<disk, edges>> /\ settled' \in {settled, FALSE}
          /\ settled' => UNCHANGED <<nodes, versions>>
          /\ ~StillBatch'
      BY <2>10, IngestNodeChanges
    <3>2. CASE settled'
      BY <3>1, <3>2, SameRerun
    <3>3. CASE ~settled'
      BY <3>1, <3>3 DEF RerunInv
    <3>4. QED
      BY <3>2, <3>3
  <2>11. CASE \E t \in EdgeTexts : \E guard : IngestEdge(t, guard)
    <3>1. /\ UNCHANGED <<disk, nodes, versions, call>>
          /\ call.kind \in {"none", "embed"}
          /\ settled' = (settled /\ edges' = edges)
      BY <2>11, IngestEdgeCases
    <3>2. CASE settled'
      BY <3>1, <3>2, SameRerun DEF StillBatch
    <3>3. CASE ~settled'
      BY <3>1, <3>3 DEF RerunInv, StillBatch
    <3>4. QED
      BY <3>2, <3>3
  <2>12. CASE \E f \in Files : \E t : WriteFile(f, t)
    <3>1. /\ settled' = FALSE
          /\ call' = IF call.kind = "batch" THEN [call EXCEPT !.moved = TRUE] ELSE call
      BY <2>12 DEF WriteFile
    <3>2. ~StillBatch'
      <4>1. CASE call.kind = "batch"
        BY <3>1, <4>1, CommandFields DEF Batches, StillBatch
      <4>2. CASE call.kind # "batch"
        BY <3>1, <4>2 DEF StillBatch
      <4>3. QED
        BY <4>1, <4>2
    <3>3. QED
      BY <3>1, <3>2 DEF RerunInv
  <2>13. QED
    BY <1>2, <2>1, <2>2, <2>3, <2>4, <2>5, <2>6, <2>7, <2>8, <2>9, <2>10, <2>11, <2>12, Steps
<1>3. QED
  BY <1>1, <1>2

\* No step writes anything while what is stored is what the files make, before
\* and after it.
LEMMA RerunStep ==
  ASSUME IngestTyped, RerunInv, Next, settled, settled'
  PROVE  UNCHANGED <<nodes, versions, edges>>
<1>1. CASE CommitBatch
  <2>1. /\ call.kind = "batch" /\ nodes' = call.tx.nodes /\ versions' = call.tx.versions
        /\ edges' = call.tx.edges /\ settled' = (~call.moved /\ Distinct)
    BY <1>1 DEF CommitBatch
  <2>2. Repeats(call.tx)
    BY <2>1 DEF RerunInv, StillBatch
  <2>3. QED
    BY <2>1, <2>2 DEF Repeats
<1>2. CASE \E t \in Texts : \E v, guard : IngestNode(t, v, guard)
  BY <1>2, IngestNodeChanges
<1>3. CASE \E t \in EdgeTexts : \E guard : IngestEdge(t, guard)
  BY <1>3, IngestEdgeCases
<1>4. CASE IngestFile
  BY <1>4, IngestFileCases DEF store
<1>5. CASE ~CommitBatch /\ ~IngestFile
           /\ ~(\E t \in Texts : \E v, guard : IngestNode(t, v, guard))
           /\ ~(\E t \in EdgeTexts : \E guard : IngestEdge(t, guard))
  BY <1>5, Steps
  DEF BeginBatch, BeginEmbed, ReadMutated, ApiAnswers, ApiBusy, ApiRefuses, ApiGivesUp,
      VectorRefused, NoClient, CommitEmbed, Fail, Raise, WriteFile, store
<1>6. QED
  BY <1>1, <1>2, <1>3, <1>4, <1>5

\* Ingesting a directory again that has not changed, whose texts name different
\* nodes, writes no node, no version and no edge.
THEOREM RerunIsIdle == Spec => RerunChangesNothing
<1>1. Init => RerunInv
  BY DEF Init, RerunInv, StillBatch, NoCall
<1>2. IngestTyped /\ ResultsInv /\ RerunInv /\ [Next]_vars => RerunInv'
  BY NextRerun
<1>3. IngestTyped /\ RerunInv /\ [Next]_vars
        => [settled /\ settled' => UNCHANGED <<nodes, versions, edges>>]_vars
  BY RerunStep
<1>4. QED
  BY <1>1, <1>2, <1>3, AlwaysTyped, AlwaysResults, PTL DEF Spec, RerunChangesNothing

-----------------------------------------------------------------------------
(***************************************************************************)
(* The parser and the editor.                                              *)
(***************************************************************************)
LEMMA EveryTextAgrees == ASSUME NEW t \in AllTexts PROVE ParsersAgree(t)
<1>1. /\ t.layout \in {"blank", "plain", "unclosed", "framed"}
      /\ t.yaml \in {"mapping", "scalar", "empty", "syntax", "unbuildable", "raises", "oddkeys"}
      /\ t.faults \subseteq Fields
  BY DEF AllTexts
<1>2. {Rule(f) : f \in t.faults} = {} <=> t.faults = {}
  OBVIOUS
<1>3. QED
  BY <1>1, <1>2, SMTT(30) DEF ParsersAgree, ParseStrict, HasFrontMatter, Rules, YamlRules,
     Valid, UnseenByEditor

\* The editor complains about a text exactly when the ingest refuses it and its
\* reason is not one that the editor does not look for (unbuildable values, V2,
\* V3 and V6), for any number of slugs, ids and bodies.
THEOREM EditorAgreesWithIngest == Spec => []EditorAgrees
<1>1. EditorAgrees
  BY EveryTextAgrees DEF EditorAgrees
<1>2. QED
  BY <1>1, PTL
=============================================================================
