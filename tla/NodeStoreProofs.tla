-------------------------- MODULE NodeStoreProofs --------------------------
(***************************************************************************)
(* Theorems about nodes, their history and the reviews of NodeStore, for   *)
(* any number of clients, nodes, texts and reviewers.                      *)
(*                                                                         *)
(* The argument: the committed versions of a node that was written k times *)
(* are numbered 1 .. k - 1 (HistoryOK), so that a call that has saved a    *)
(* version has saved number k (SavedOK), and the unique key keeps every    *)
(* other call from doing so (SavesDiffer).  Hence a call that is about to  *)
(* commit adds one version and one write, and nobody else can write that   *)
(* node in between.                                                        *)
(***************************************************************************)
EXTENDS NodeStore, FiniteSetTheorems, SequenceTheorems, TLAPS

(***************************************************************************)
(* The invariant.                                                          *)
(***************************************************************************)
Labels == {"idle", "duplicate", "existing", "number", "save", "update", "insert",
           "detect", "latest", "approve", "commit"}
Kinds == {"none", "ingest", "accept_a", "accept_b", "merge"}

CallType == [kind : Kinds,
             node : Nodes \cup {New},
             content : Contents \cup {None},
             author : Authors \cup {None},
             old : Contents \cup {None},
             version : Nat,
             reviews : SUBSET IssueType]

Writes == Contents \X Authors \X Kinds

ColumnsTyped == /\ content \in [Nodes -> Contents \cup {None}]
                /\ created_by \in [Nodes -> Authors \cup {None}]
                /\ draft \in [Nodes -> Contents \cup {None}]
                /\ owner \in [Nodes -> Connections \cup {NoConnection}]
                /\ versions \subseteq VersionType
                /\ saved \in [Connections -> SUBSET VersionType]
                /\ issues \subseteq IssueType
                /\ raised \in [Connections -> SUBSET IssueType]
                /\ pc \in [Connections -> Labels]
                /\ call \in [Connections -> CallType]
                /\ written \in [Nodes -> Seq(Writes)]

Writings(n) == Len(written[n])

\* What is committed of a node is what was written last.
StoredOK(n) == /\ content[n] = None <=> Writings(n) = 0
               /\ content[n] # None => /\ content[n] = written[n][Writings(n)][1]
                                       /\ created_by[n] \in Authors
               /\ owner[n] = NoConnection => draft[n] = content[n]

\* A version holds something that was written before, and in its place unless
\* calls overlapped.
VersionOK(v) ==
  /\ v.updated_by = created_by[v.node]
  /\ \E j \in 1 .. v.version : v.content = written[v.node][j][1]
  /\ {v.node} \notin overlapped => v.content = written[v.node][v.version][1]

HistoryOK(n) ==
  /\ \A v \in Of(n) : v.version \in 1 .. Writings(n) - 1 /\ VersionOK(v)
  /\ \A k \in 1 .. Writings(n) - 1 : \E v \in Of(n) : v.version = k
  /\ \A v, w \in Of(n) : v.version = w.version => v = w

\* What c may have made of a row it holds.
HeldOK(c, n) == /\ n = call[c].node
                /\ pc[c] \in {"detect", "approve", "commit"}
                /\ draft[n] \in Contents
                /\ created_by[n] \in Authors
                /\ saved[c] = {} <=> content[n] = None

\* The version that c has inserted is the next one.
SavedOK(c) ==
  /\ \A v \in saved[c] : /\ v.node = call[c].node
                         /\ content[v.node] # None
                         /\ v.version = Writings(v.node)
                         /\ VersionOK(v)
  /\ \A v, w \in saved[c] : v = w
  /\ saved[c] # {} => \/ pc[c] = "update"
                      \/ pc[c] \in {"detect", "approve", "commit"} /\ owner[call[c].node] = c

\* What c has read of its node was written once, and last unless calls overlapped.
ReadOK(c) ==
  LET n == call[c].node
  IN /\ content[n] # None
     /\ call[c].old \in Contents
     /\ {n} \notin overlapped => call[c].old = content[n]
     /\ IF pc[c] = "number"
        THEN \E j \in 1 .. Writings(n) : call[c].old = written[n][j][1]
        ELSE /\ call[c].version \in 1 .. Writings(n)
             /\ {n} \notin overlapped => call[c].version = Writings(n)
             /\ \E j \in 1 .. call[c].version : call[c].old = written[n][j][1]

\* The reviews that a call has to raise.
Due(c) == IF call[c].kind = "ingest" /\ saved[c] # {} /\ call[c].author # created_by[call[c].node]
          THEN {[node |-> call[c].node, version |-> Writings(call[c].node),
                 previous |-> created_by[call[c].node], current |-> call[c].author]}
          ELSE {}

CallOK(c) ==
  /\ pc[c] # "idle" => call[c].node \in Nodes /\ call[c].author \in Authors
  /\ pc[c] \in {"duplicate", "existing", "number", "save", "update", "insert"} =>
       call[c].content \in Contents
  /\ pc[c] = "latest" => call[c].kind = "accept_a"
  /\ pc[c] \in {"number", "save"} => ReadOK(c)
  /\ pc[c] = "update" => saved[c] # {}
  /\ pc[c] = "detect" => call[c].kind = "ingest" /\ saved[c] # {}
  /\ pc[c] = "approve" => call[c].kind # "ingest"
  /\ raised[c] = IF pc[c] = "commit" THEN Due(c) ELSE {}

HeldRows == \A n \in Nodes, c \in Connections : owner[n] = c => HeldOK(c, n)

\* The unique key lets one call at a time write a node.
SavesDiffer ==
  \A c, d \in Connections :
    saved[c] # {} /\ saved[d] # {} /\ call[c].node = call[d].node => c = d

OverlapsNoted ==
  \A c, d \in Connections :
    c # d /\ pc[c] # "idle" /\ pc[d] # "idle" /\ call[c].node = call[d].node
      => {call[c].node} \in overlapped

IssuesOK == \A i \in issues : i.version < Writings(i.node)

StoreInv == /\ ColumnsTyped
            /\ \A n \in Nodes : StoredOK(n) /\ HistoryOK(n)
            /\ HeldRows
            /\ \A c \in Connections : SavedOK(c) /\ CallOK(c)
            /\ SavesDiffer
            /\ OverlapsNoted
            /\ IssuesOK
            /\ ReviewedUnlessCreator

-----------------------------------------------------------------------------
(***************************************************************************)
(* Types.                                                                  *)
(***************************************************************************)
LEMMA WritingsCount ==
  ASSUME ColumnsTyped, NEW n \in Nodes
  PROVE  Writings(n) \in Nat /\ written[n] \in Seq(Writes)
BY DEF ColumnsTyped, Writings

LEMMA IdleTyped == Idle \in CallType
BY DEF Idle, CallType, Kinds

LEMMA InitColumnsTyped == Init => ColumnsTyped
BY IdleTyped DEF Init, ColumnsTyped, Labels

-----------------------------------------------------------------------------
(***************************************************************************)
(* What others have read and written stays as it is.                       *)
(***************************************************************************)
\* A step of c: it takes rows nobody holds, commits only what it holds, never
\* unmakes a node, and adds to what was written and overlapped.
Respects(c) ==
  /\ \A n \in Nodes :
       /\ owner[n] \notin {NoConnection, c} =>
            owner'[n] = owner[n] /\ draft'[n] = draft[n] /\ created_by'[n] = created_by[n]
       /\ owner'[n] \in {owner[n], NoConnection, c}
       /\ owner[n] # c => content'[n] = content[n] /\ written'[n] = written[n]
       /\ content[n] # None => content'[n] # None /\ created_by'[n] = created_by[n]
       /\ Len(written'[n]) \in Nat /\ Len(written[n]) <= Len(written'[n])
       /\ \A j \in 1 .. Len(written[n]) : written'[n][j] = written[n][j]
  /\ overlapped \subseteq overlapped'

OthersStay(c) ==
  \A d \in Connections \ {c} : /\ pc'[d] = pc[d] /\ call'[d] = call[d]
                               /\ saved'[d] = saved[d] /\ raised'[d] = raised[d]

LEMMA HeldIsOK ==
  ASSUME StoreInv, NEW c \in Connections, NEW n \in Nodes, owner[n] = c
  PROVE  HeldOK(c, n)
BY DEF StoreInv, HeldRows

LEMMA HoldsNothing ==
  ASSUME StoreInv, NEW c \in Connections, pc[c] \notin {"detect", "approve", "commit"}
  PROVE  \A n \in Nodes : owner[n] # c /\ View(c, n) = content[n]
BY HeldIsOK DEF HeldOK, View

LEMMA NothingSaved ==
  ASSUME StoreInv, NEW c \in Connections,
         pc[c] \notin {"update", "detect", "approve", "commit"}
  PROVE  saved[c] = {} /\ \A n \in Nodes : VersionsSeen(c, n) = Of(n)
BY DEF StoreInv, SavedOK, VersionsSeen, Of

\* The node that a call has saved a version of is written by nobody else.
LEMMA SavedIsMine ==
  ASSUME StoreInv, NEW c \in Connections, NEW d \in Connections \ {c}, saved[d] # {}
  PROVE  /\ call[d].node \in Nodes
         /\ content[call[d].node] # None
         /\ owner[call[d].node] # c
<1>1. PICK v \in saved[d] : TRUE
  OBVIOUS
<1>2. v.node = call[d].node /\ content[v.node] # None /\ v.node \in Nodes
  BY <1>1 DEF StoreInv, SavedOK, ColumnsTyped, VersionType
<1>3. ASSUME owner[v.node] = c PROVE FALSE
  <2>1. v.node = call[c].node /\ saved[c] # {}
    BY <1>2, <1>3, HeldIsOK DEF HeldOK
  <2>2. QED
    BY <1>2, <2>1 DEF StoreInv, SavesDiffer
<1>4. QED
  BY <1>2, <1>3

LEMMA VersionKept ==
  ASSUME StoreInv, NEW c \in Connections, Respects(c),
         NEW v \in VersionType, content[v.node] # None, v.version \in 1 .. Writings(v.node),
         VersionOK(v)
  PROVE  VersionOK(v)'
<1>1. v.node \in Nodes /\ v.version \in Nat /\ Writings(v.node) \in Nat
  BY WritingsCount DEF VersionType, StoreInv
<1>2. \A j \in 1 .. v.version : written'[v.node][j] = written[v.node][j]
  BY <1>1 DEF Respects, Writings
<1>3. v.version \in 1 .. v.version
  BY <1>1
<1>4. created_by'[v.node] = created_by[v.node]
  BY <1>1 DEF Respects
<1>5. {v.node} \notin overlapped' => {v.node} \notin overlapped
  BY DEF Respects
<1>6. QED
  BY <1>2, <1>3, <1>4, <1>5 DEF VersionOK

LEMMA OthersHeldKept ==
  ASSUME StoreInv, NEW c \in Connections, Respects(c), OthersStay(c),
         NEW d \in Connections \ {c}, NEW n \in Nodes, owner'[n] = d
  PROVE  HeldOK(d, n)'
<1>1. owner[n] = d /\ d # NoConnection
  BY StoreAssumption DEF StoreAssumption, Respects
<1>2. /\ draft'[n] = draft[n] /\ created_by'[n] = created_by[n] /\ content'[n] = content[n]
      /\ pc'[d] = pc[d] /\ call'[d] = call[d] /\ saved'[d] = saved[d]
  BY <1>1 DEF Respects, OthersStay
<1>3. QED
  BY <1>1, <1>2, HeldIsOK DEF HeldOK

LEMMA OthersSavedKept ==
  ASSUME StoreInv, NEW c \in Connections, Respects(c), OthersStay(c),
         NEW d \in Connections \ {c}
  PROVE  SavedOK(d)'
<1>1. pc'[d] = pc[d] /\ call'[d] = call[d] /\ saved'[d] = saved[d] /\ SavedOK(d)
  BY DEF OthersStay, StoreInv
<1>2. ASSUME NEW v \in saved[d]
      PROVE  /\ content'[v.node] # None /\ Writings(v.node)' = Writings(v.node)
             /\ VersionOK(v)'
  <2>1. /\ v.node = call[d].node /\ content[v.node] # None /\ v.version = Writings(v.node)
        /\ VersionOK(v) /\ v \in VersionType
    BY <1>1 DEF SavedOK, StoreInv, ColumnsTyped
  <2>2. v.node \in Nodes /\ owner[v.node] # c
    BY <2>1, SavedIsMine
  <2>3. content'[v.node] = content[v.node] /\ written'[v.node] = written[v.node]
    BY <2>2 DEF Respects
  <2>4. v.version \in 1 .. Writings(v.node)
    <3>1. Writings(v.node) \in Nat /\ Writings(v.node) # 0
      BY <2>1, <2>2, WritingsCount DEF StoreInv, StoredOK
    <3>2. QED
      BY <2>1, <3>1
  <2>5. VersionOK(v)'
    BY <2>1, <2>4, VersionKept
  <2>6. QED
    BY <2>1, <2>3, <2>5 DEF Writings
<1>3. saved[d] # {} /\ owner[call[d].node] = d => owner'[call[d].node] = d
  BY SavedIsMine, StoreAssumption DEF StoreAssumption, Respects
<1>4. QED
  BY <1>1, <1>2, <1>3 DEF SavedOK

LEMMA OthersReadKept ==
  ASSUME StoreInv, NEW c \in Connections, Respects(c), OthersStay(c),
         NEW d \in Connections \ {c}, pc[d] \in {"number", "save"}
  PROVE  ReadOK(d)'
<1>0. PICK n : n = call[d].node
  OBVIOUS
<1>1. pc'[d] = pc[d] /\ call'[d] = call[d]
  BY DEF OthersStay
<1>2. ReadOK(d) /\ n \in Nodes /\ Writings(n) \in Nat
  BY <1>0, WritingsCount DEF StoreInv, CallOK
<1>3. /\ content'[n] # None
      /\ Writings(n)' \in Nat /\ Writings(n) <= Writings(n)'
      /\ \A j \in 1 .. Writings(n) : written'[n][j] = written[n][j]
  BY <1>0, <1>2 DEF Respects, ReadOK, Writings
<1>4. {n} \notin overlapped' => /\ {n} \notin overlapped
                               /\ content'[n] = content[n] /\ Writings(n)' = Writings(n)
  <2> SUFFICES ASSUME {n} \notin overlapped' PROVE {n} \notin overlapped /\ owner[n] # c
    BY <1>2 DEF Respects, Writings
  <2>1. {n} \notin overlapped
    BY DEF Respects
  <2>2. ASSUME owner[n] = c PROVE FALSE
    <3>1. call[c].node = n /\ pc[c] # "idle"
      BY <1>2, <2>2, HeldIsOK DEF HeldOK
    <3>2. QED
      BY <1>0, <2>1, <3>1 DEF StoreInv, OverlapsNoted
  <2>3. QED
    BY <2>1, <2>2
<1>5. CASE pc[d] = "number"
  <2>1. \E j \in 1 .. Writings(n) : call[d].old = written[n][j][1]
    BY <1>0, <1>2, <1>5 DEF ReadOK
  <2>2. \E j \in 1 .. Writings(n)' : call[d].old = written'[n][j][1]
    BY <1>2, <1>3, <2>1
  <2>3. QED
    BY <1>0, <1>1, <1>2, <1>3, <1>4, <1>5, <2>2 DEF ReadOK
<1>6. CASE pc[d] = "save"
  <2>1. /\ call[d].version \in 1 .. Writings(n)
        /\ {n} \notin overlapped => call[d].version = Writings(n)
        /\ \E j \in 1 .. call[d].version : call[d].old = written[n][j][1]
    BY <1>0, <1>2, <1>6 DEF ReadOK
  <2>2. /\ call[d].version \in 1 .. Writings(n)'
        /\ \E j \in 1 .. call[d].version : call[d].old = written'[n][j][1]
    BY <1>2, <1>3, <2>1
  <2>3. QED
    BY <1>0, <1>1, <1>2, <1>3, <1>4, <1>6, <2>1, <2>2 DEF ReadOK
<1>7. QED
  BY <1>5, <1>6

LEMMA OthersCallKept ==
  ASSUME StoreInv, NEW c \in Connections, Respects(c), OthersStay(c),
         NEW d \in Connections \ {c}
  PROVE  CallOK(d)'
<1>1. /\ pc'[d] = pc[d] /\ call'[d] = call[d] /\ saved'[d] = saved[d] /\ raised'[d] = raised[d]
      /\ CallOK(d)
  BY DEF OthersStay, StoreInv
<1>2. saved[d] # {} => /\ created_by'[call[d].node] = created_by[call[d].node]
                       /\ Writings(call[d].node)' = Writings(call[d].node)
  BY <1>1, SavedIsMine DEF Respects, Writings
<1>3. Due(d)' = Due(d)
  BY <1>1, <1>2 DEF Due
<1>4. QED
  BY <1>1, <1>3, OthersReadKept DEF CallOK

-----------------------------------------------------------------------------
(***************************************************************************)
(* One step.                                                               *)
(***************************************************************************)
\* What is left to show for the connection that takes the step.
StepOK(c) == /\ ColumnsTyped'
             /\ Respects(c) /\ OthersStay(c)
             /\ \A n \in Nodes : owner'[n] = c => HeldOK(c, n)'
             /\ \A n \in Nodes : owner'[n] = NoConnection => draft'[n] = content'[n]
             /\ SavedOK(c)' /\ CallOK(c)'
             /\ SavesDiffer' /\ OverlapsNoted'

LEMMA StepKeepsOthers ==
  ASSUME StoreInv, NEW c \in Connections, StepOK(c)
  PROVE  HeldRows' /\ \A d \in Connections : SavedOK(d)' /\ CallOK(d)'
<1>1. ASSUME NEW d \in Connections PROVE SavedOK(d)' /\ CallOK(d)'
  BY OthersSavedKept, OthersCallKept DEF StepOK
<1>2. ASSUME NEW n \in Nodes, NEW d \in Connections, owner'[n] = d PROVE HeldOK(d, n)'
  BY <1>2, OthersHeldKept DEF StepOK
<1>3. QED
  BY <1>1, <1>2 DEF HeldRows

\* Only a commit changes the tables that everybody sees.
tables == <<content, versions, issues, written>>

LEMMA StatementInv ==
  ASSUME StoreInv, NEW c \in Connections, StepOK(c), UNCHANGED tables
  PROVE  StoreInv'
<1>1. ASSUME NEW n \in Nodes PROVE StoredOK(n)' /\ HistoryOK(n)'
  <2>1. StoredOK(n) /\ HistoryOK(n) /\ Writings(n) \in Nat
    BY WritingsCount DEF StoreInv
  <2>2. Writings(n)' = Writings(n) /\ Of(n)' = Of(n)
    BY DEF tables, Writings, Of
  <2>3. content[n] # None => created_by'[n] = created_by[n]
    BY DEF StepOK, Respects
  <2>4. StoredOK(n)'
    BY <2>1, <2>2, <2>3 DEF StoredOK, StepOK, tables
  <2>5. ASSUME NEW v \in Of(n) PROVE VersionOK(v)'
    <3>1. v \in VersionType /\ v.node = n /\ v.version \in 1 .. Writings(n) - 1 /\ VersionOK(v)
      BY <2>1 DEF HistoryOK, Of, StoreInv, ColumnsTyped
    <3>2. content[n] # None /\ v.version \in 1 .. Writings(n)
      BY <2>1, <3>1 DEF StoredOK
    <3>3. QED
      BY <3>1, <3>2, VersionKept DEF StepOK
  <2>6. HistoryOK(n)'
    BY <2>1, <2>2, <2>5 DEF HistoryOK
  <2>7. QED
    BY <2>4, <2>6
<1>2. IssuesOK'
  BY DEF StoreInv, IssuesOK, tables, Writings
<1>3. ReviewedUnlessCreator'
  <2>1. ASSUME NEW n \in Nodes, NEW k \in 2 .. Len(written[n])
        PROVE  created_by'[n] = created_by[n]
    <3>1. content[n] # None
      BY WritingsCount DEF StoreInv, StoredOK, Writings
    <3>2. QED
      BY <3>1 DEF StepOK, Respects
  <2>2. QED
    BY <2>1 DEF StoreInv, ReviewedUnlessCreator, tables
<1>4. QED
  BY <1>1, <1>2, <1>3, StepKeepsOthers DEF StoreInv, StepOK

\* A statement that writes no row.
LEMMA QuietStep ==
  ASSUME StoreInv, NEW c \in Connections, UNCHANGED <<rowVars, written>>,
         overlapped \subseteq overlapped'
  PROVE  /\ Respects(c)
         /\ \A n \in Nodes : owner'[n] = NoConnection => draft'[n] = content'[n]
<1>1. \A n \in Nodes : Len(written[n]) \in Nat
  BY WritingsCount DEF StoreInv, Writings
<1>2. QED
  BY <1>1 DEF rowVars, Respects, StoreInv, StoredOK

\* A statement changes what its own call knows, never what it is about.
LEMMA LocalStep ==
  ASSUME StoreInv, NEW c \in Connections, NEW new \in CallType, NEW label \in Labels,
         GoTo(c, label), Learn(c, new), pc[c] # "idle", new.node = call[c].node,
         UNCHANGED overlapped,
         \A d \in Connections \ {c} : saved'[d] = saved[d] /\ raised'[d] = raised[d]
  PROVE  /\ pc' \in [Connections -> Labels] /\ call' \in [Connections -> CallType]
         /\ pc'[c] = label /\ call'[c] = new
         /\ OthersStay(c)
         /\ OverlapsNoted'
         /\ saved' = saved => SavesDiffer'
<1>1. /\ pc' = [pc EXCEPT ![c] = label] /\ call' = [call EXCEPT ![c] = new]
      /\ pc \in [Connections -> Labels] /\ call \in [Connections -> CallType]
  BY DEF GoTo, Learn, StoreInv, ColumnsTyped
<1>2. pc'[c] = label /\ call'[c] = new
  BY <1>1
<1>3. \A d \in Connections \ {c} : pc'[d] = pc[d] /\ call'[d] = call[d]
  BY <1>1
<1>4. \A d \in Connections : call'[d].node = call[d].node
  BY <1>2, <1>3
<1>5. OthersStay(c)
  BY <1>3 DEF OthersStay
<1>6. OverlapsNoted'
  BY <1>3, <1>4 DEF StoreInv, OverlapsNoted
<1>7. saved' = saved => SavesDiffer'
  BY <1>4 DEF StoreInv, SavesDiffer
<1>8. QED
  BY <1>1, <1>2, <1>5, <1>6, <1>7

\* The same for a statement that leaves the call as it is.
LEMMA SameCallStep ==
  ASSUME StoreInv, NEW c \in Connections, NEW label \in Labels,
         GoTo(c, label), UNCHANGED <<call, overlapped>>, pc[c] # "idle",
         \A d \in Connections \ {c} : saved'[d] = saved[d] /\ raised'[d] = raised[d]
  PROVE  /\ pc' \in [Connections -> Labels] /\ call' \in [Connections -> CallType]
         /\ pc'[c] = label /\ call'[c] = call[c]
         /\ OthersStay(c)
         /\ OverlapsNoted'
         /\ saved' = saved => SavesDiffer'
<1>1. call[c] \in CallType /\ Learn(c, call[c])
  BY DEF StoreInv, ColumnsTyped, Learn
<1>2. QED
  BY <1>1, LocalStep

-----------------------------------------------------------------------------
(***************************************************************************)
(* Beginning a call and rolling it back.                                   *)
(***************************************************************************)
LEMMA BeginStep ==
  ASSUME StoreInv, NEW c \in Connections, NEW kind \in Kinds, NEW n \in Nodes,
         NEW body \in Contents \cup {None}, NEW a \in Authors, NEW label \in Labels,
         \/ kind = "ingest" /\ body \in Contents /\ label = "duplicate"
         \/ kind = "accept_a" /\ label = "latest"
         \/ kind = "accept_b" /\ label = "approve"
         \/ kind = "merge" /\ body \in Contents /\ label = "existing",
         Begin(c, kind, n, body, a, label)
  PROVE  StepOK(c) /\ UNCHANGED tables
<1> DEFINE new == [Idle EXCEPT !.kind = kind, !.node = n, !.content = body, !.author = a]
<1>1. /\ new \in CallType
      /\ new.kind = kind /\ new.node = n /\ new.content = body /\ new.author = a
  BY DEF Idle, CallType
<1> HIDE DEF new
<1>2. /\ pc[c] = "idle"
      /\ pc' = [pc EXCEPT ![c] = label] /\ call' = [call EXCEPT ![c] = new]
      /\ overlapped' = overlapped \cup {{n, call[d].node} : d \in {e \in Connections : pc[e] # "idle"}}
      /\ UNCHANGED <<rowVars, versions, saved, issues, raised, approved, written>>
      /\ ColumnsTyped
  BY DEF Begin, GoTo, Learn, new, StoreInv
<1>3. /\ pc'[c] = label /\ call'[c] = new
      /\ \A d \in Connections \ {c} : pc'[d] = pc[d] /\ call'[d] = call[d]
  BY <1>2 DEF ColumnsTyped
<1>4. ColumnsTyped'
  BY <1>1, <1>2 DEF ColumnsTyped, rowVars
<1>5. OthersStay(c)
  BY <1>2, <1>3 DEF OthersStay
<1>6. \A m \in Nodes : owner'[m] # c
  BY <1>2, HoldsNothing DEF rowVars
<1>7. saved'[c] = {} /\ raised'[c] = {}
  BY <1>2, NothingSaved DEF StoreInv, CallOK
<1>8. SavedOK(c)' /\ CallOK(c)'
  BY <1>1, <1>3, <1>7 DEF SavedOK, CallOK, Due
<1>9. SavesDiffer'
  BY <1>2, <1>3, <1>7 DEF StoreInv, SavesDiffer
<1>10. OverlapsNoted'
  <2> SUFFICES ASSUME NEW d \in Connections, NEW e \in Connections, d # e,
                      pc'[d] # "idle", pc'[e] # "idle", call'[d].node = call'[e].node
               PROVE  {call'[d].node} \in overlapped'
    BY DEF OverlapsNoted
  <2>1. CASE d # c /\ e # c
    BY <1>2, <1>3, <2>1 DEF StoreInv, OverlapsNoted
  <2>2. ASSUME NEW x \in Connections, pc[x] # "idle", call[x].node = n PROVE {n} \in overlapped'
    <3>1. {n, call[x].node} = {n}
      BY <2>2
    <3>2. QED
      BY <1>2, <2>2, <3>1
  <2>3. QED
    BY <1>1, <1>3, <2>1, <2>2
<1>11. QED
  BY <1>2, <1>4, <1>5, <1>6, <1>8, <1>9, <1>10, QuietStep DEF StepOK, tables, rowVars

LEMMA BeginCallStep ==
  ASSUME StoreInv, NEW c \in Connections, BeginCall(c)
  PROVE  StepOK(c) /\ UNCHANGED tables
<1>1. PICK n \in Nodes : \/ \E t \in Texts : BeginIngest(c, t, n)
                         \/ \E a \in Reviewers : \/ BeginAcceptA(c, n, a)
                                                 \/ BeginAcceptB(c, n, a)
                                                 \/ BeginMerge(c, n, a)
  BY DEF BeginCall
<1>2. Reviewers \subseteq Authors /\ Texts \subseteq Contents /\ Merges \subseteq Contents
  BY DEF Authors, Contents
<1>3. ASSUME NEW t \in Texts, BeginIngest(c, t, n) PROVE StepOK(c) /\ UNCHANGED tables
  <2>1. AuthorOf[t] \in Authors /\ t \in Contents
    BY <1>2 DEF Authors
  <2>2. QED
    BY <1>3, <2>1, BeginStep DEF BeginIngest, Kinds, Labels
<1>4. ASSUME NEW a \in Reviewers, BeginAcceptA(c, n, a) PROVE StepOK(c) /\ UNCHANGED tables
  BY <1>2, <1>4, BeginStep DEF BeginAcceptA, Kinds, Labels
<1>5. ASSUME NEW a \in Reviewers, BeginAcceptB(c, n, a) PROVE StepOK(c) /\ UNCHANGED tables
  BY <1>2, <1>5, BeginStep DEF BeginAcceptB, Kinds, Labels
<1>6. ASSUME NEW a \in Reviewers, BeginMerge(c, n, a) PROVE StepOK(c) /\ UNCHANGED tables
  BY <1>2, <1>6, BeginStep DEF BeginMerge, Kinds, Labels
<1>7. QED
  BY <1>1, <1>3, <1>4, <1>5, <1>6

\* The connection is idle again; the rows have been dealt with.
LEMMA ForgetStep ==
  ASSUME StoreInv, NEW c \in Connections, Forget(c), overlapped' = overlapped
  PROVE  /\ pc' \in [Connections -> Labels] /\ call' \in [Connections -> CallType]
         /\ saved' \in [Connections -> SUBSET VersionType]
         /\ raised' \in [Connections -> SUBSET IssueType]
         /\ owner' \in [Nodes -> Connections \cup {NoConnection}]
         /\ OthersStay(c) /\ SavedOK(c)' /\ CallOK(c)' /\ SavesDiffer' /\ OverlapsNoted'
         /\ \A n \in Nodes : owner'[n] = IF owner[n] = c THEN NoConnection ELSE owner[n]
         /\ \A n \in Nodes : owner'[n] # c
<1>1. /\ pc' = [pc EXCEPT ![c] = "idle"] /\ call' = [call EXCEPT ![c] = Idle]
      /\ saved' = [saved EXCEPT ![c] = {}] /\ raised' = [raised EXCEPT ![c] = {}]
      /\ owner' = [n \in Nodes |-> IF owner[n] = c THEN NoConnection ELSE owner[n]]
      /\ ColumnsTyped
  BY DEF Forget, GoTo, Learn, StoreInv
<1>2. /\ pc'[c] = "idle" /\ call'[c] = Idle /\ saved'[c] = {} /\ raised'[c] = {}
      /\ \A d \in Connections \ {c} : /\ pc'[d] = pc[d] /\ call'[d] = call[d]
                                      /\ saved'[d] = saved[d] /\ raised'[d] = raised[d]
  BY <1>1 DEF ColumnsTyped
<1>3. OthersStay(c)
  BY <1>2 DEF OthersStay
<1>4. SavesDiffer'
  BY <1>2 DEF StoreInv, SavesDiffer
<1>5. OverlapsNoted'
  BY <1>2 DEF StoreInv, OverlapsNoted
<1>6. SavedOK(c)' /\ CallOK(c)'
  BY <1>2 DEF SavedOK, CallOK
<1>7. /\ pc' \in [Connections -> Labels] /\ call' \in [Connections -> CallType]
      /\ saved' \in [Connections -> SUBSET VersionType]
      /\ raised' \in [Connections -> SUBSET IssueType]
      /\ owner' \in [Nodes -> Connections \cup {NoConnection}]
  BY <1>1, IdleTyped DEF ColumnsTyped, Labels
<1>8. QED
  BY <1>1, <1>3, <1>4, <1>5, <1>6, <1>7, StoreAssumption DEF StoreAssumption

LEMMA RollbackStep ==
  ASSUME StoreInv, NEW c \in Connections, Rollback(c)
  PROVE  StepOK(c) /\ UNCHANGED tables
<1>1. /\ draft' = [n \in Nodes |-> IF owner[n] = c THEN content[n] ELSE draft[n]]
      /\ created_by' = [n \in Nodes |-> IF owner[n] = c /\ content[n] = None
                                        THEN None ELSE created_by[n]]
      /\ Forget(c) /\ UNCHANGED <<content, versions, issues, approved, written, overlapped>>
      /\ ColumnsTyped
  BY DEF Rollback, StoreInv
<1>2. \A n \in Nodes : Len(written[n]) \in Nat
  BY WritingsCount DEF StoreInv, Writings
<1>3. Respects(c)
  BY <1>1, <1>2, ForgetStep DEF Respects
<1>4. \A n \in Nodes : owner'[n] = NoConnection => draft'[n] = content'[n]
  BY <1>1, ForgetStep DEF StoreInv, StoredOK
<1>5. ColumnsTyped'
  BY <1>1, ForgetStep DEF ColumnsTyped
<1>6. QED
  BY <1>1, <1>3, <1>4, <1>5, ForgetStep DEF StepOK, tables

-----------------------------------------------------------------------------
(***************************************************************************)
(* The statements.                                                         *)
(***************************************************************************)
\* The newest of the versions 1 .. k.
LEMMA LatestOf ==
  ASSUME NEW S \in SUBSET VersionType, NEW k \in Nat, S # {},
         \A v \in S : v.version \in 1 .. k,
         \A i \in 1 .. k : \E v \in S : v.version = i
  PROVE  k # 0 /\ Latest(S) \in S /\ Latest(S).version = k
<1>1. k \in 1 .. k
  OBVIOUS
<1>2. PICK u \in S : u.version = k
  BY <1>1
<1>3. \A w \in S : w.version <= u.version
  BY <1>2
<1>4. Latest(S) \in S /\ \A w \in S : w.version <= Latest(S).version
  BY <1>3 DEF Latest
<1>5. u.version <= Latest(S).version /\ Latest(S).version <= u.version
  BY <1>3, <1>4
<1>6. Latest(S).version \in Nat
  BY <1>4
<1>7. QED
  BY <1>1, <1>2, <1>4, <1>5, <1>6

\* A statement that only reads: c has nothing saved and holds no row.
LEMMA ReadStep ==
  ASSUME StoreInv, NEW c \in Connections, NEW new \in CallType, NEW label \in Labels,
         GoTo(c, label), Learn(c, new), new.node = call[c].node,
         pc[c] \in {"duplicate", "existing", "number", "latest"},
         label \in {"existing", "number", "save", "insert", "duplicate", "approve", "commit"},
         new.author = call[c].author, new.kind = call[c].kind,
         label \in {"duplicate", "existing", "number", "save", "insert"} => new.content \in Contents,
         label = "approve" => new.kind # "ingest",
         label \in {"number", "save"} => ReadOK(c)',
         UNCHANGED <<rowVars, versions, saved, issues, raised, approved, written, overlapped>>
  PROVE  StepOK(c) /\ UNCHANGED tables
<1>1. /\ ColumnsTyped /\ CallOK(c) /\ saved[c] = {} /\ raised[c] = {}
      /\ \A n \in Nodes : owner[n] # c
  BY NothingSaved, HoldsNothing DEF StoreInv, CallOK
<1>2. /\ pc' \in [Connections -> Labels] /\ call' \in [Connections -> CallType]
      /\ pc'[c] = label /\ call'[c] = new
      /\ OthersStay(c) /\ OverlapsNoted' /\ SavesDiffer'
  BY LocalStep
<1>3. ColumnsTyped'
  BY <1>1, <1>2 DEF ColumnsTyped, rowVars
<1>4. SavedOK(c)'
  BY <1>1 DEF SavedOK
<1>5. CallOK(c)'
  BY <1>1, <1>2 DEF CallOK, Due
<1>6. QED
  BY <1>1, <1>2, <1>3, <1>4, <1>5, QuietStep DEF StepOK, tables, rowVars

LEMMA FindDuplicateStep ==
  ASSUME StoreInv, NEW c \in Connections, FindDuplicate(c)
  PROVE  StepOK(c) /\ UNCHANGED tables
<1>1. PICK label \in {AfterUpsert(c), "existing"} :
        /\ GoTo(c, label)
        /\ pc[c] = "duplicate"
        /\ UNCHANGED <<rowVars, versions, saved, issues, raised, approved, call, written, overlapped>>
  BY DEF FindDuplicate
<1>2. call[c] \in CallType /\ call[c].content \in Contents /\ Learn(c, call[c])
  BY <1>1 DEF StoreInv, ColumnsTyped, CallOK, Learn
<1>3. /\ label \in Labels /\ label \in {"existing", "approve", "commit"}
      /\ label = "approve" => call[c].kind # "ingest"
  BY <1>1 DEF AfterUpsert, Labels
<1>4. QED
  BY <1>1, <1>2, <1>3, ReadStep

LEMMA ReadExistingStep ==
  ASSUME StoreInv, NEW c \in Connections, ReadExisting(c)
  PROVE  StepOK(c) /\ UNCHANGED tables
<1>0. PICK n, old : n = call[c].node /\ old = View(c, n)
  OBVIOUS
<1> DEFINE new == [call[c] EXCEPT !.old = old]
           label == IF old = None THEN "insert" ELSE "number"
<1>1. /\ pc[c] = "existing" /\ Learn(c, new) /\ GoTo(c, label)
      /\ UNCHANGED <<rowVars, versions, saved, issues, raised, approved, written, overlapped>>
      /\ ColumnsTyped /\ CallOK(c)
  BY <1>0 DEF ReadExisting, StoreInv
<1>2. /\ n \in Nodes /\ call[c] \in CallType /\ call[c].content \in Contents
      /\ Writings(n) \in Nat
  <2>1. n \in Nodes /\ call[c].content \in Contents
    BY <1>0, <1>1 DEF CallOK
  <2>2. QED
    BY <1>1, <2>1, WritingsCount DEF ColumnsTyped
<1>3. old = content[n] /\ old \in Contents \cup {None}
  <2>1. old = content[n]
    BY <1>0, <1>1, <1>2, HoldsNothing
  <2>2. QED
    BY <1>1, <1>2, <2>1 DEF ColumnsTyped
<1>4. /\ new \in CallType /\ new.node = n /\ new.author = call[c].author /\ new.kind = call[c].kind
      /\ new.content = call[c].content /\ new.old = old
  BY <1>0, <1>2, <1>3 DEF CallType
<1>5. label \in Labels /\ label \in {"insert", "number"}
  BY DEF Labels
<1> HIDE DEF new
<1>6. ASSUME label = "number" PROVE ReadOK(c)'
  <2>1. /\ content[n] # None /\ Writings(n) \in 1 .. Writings(n)
        /\ old = written[n][Writings(n)][1] /\ old \in Contents
    BY <1>2, <1>3, <1>6 DEF StoreInv, StoredOK
  <2>2. pc'[c] = "number" /\ call'[c] = new
    BY <1>1, <1>6 DEF GoTo, Learn, ColumnsTyped
  <2>3. Writings(n)' = Writings(n) /\ written' = written /\ content' = content
    BY <1>1 DEF Writings, rowVars
  <2>4. QED
    BY <1>3, <1>4, <2>1, <2>2, <2>3 DEF ReadOK
<1>7. QED
  BY <1>0, <1>1, <1>2, <1>4, <1>5, <1>6, ReadStep

LEMMA NextVersionStep ==
  ASSUME StoreInv, NEW c \in Connections, NextVersion(c)
  PROVE  StepOK(c) /\ UNCHANGED tables
<1>0. PICK n, S : n = call[c].node /\ S = VersionsSeen(c, n)
  OBVIOUS
<1>1. PICK next : /\ next = IF S = {} THEN 1 ELSE Latest(S).version + 1
                  /\ Learn(c, [call[c] EXCEPT !.version = next])
  BY <1>0 DEF NextVersion
<1> DEFINE new == [call[c] EXCEPT !.version = next]
<1>2. /\ pc[c] = "number" /\ GoTo(c, "save")
      /\ UNCHANGED <<rowVars, versions, saved, issues, raised, approved, written, overlapped>>
      /\ ColumnsTyped /\ CallOK(c) /\ ReadOK(c)
  BY DEF NextVersion, StoreInv, CallOK
<1>3. /\ n \in Nodes /\ call[c] \in CallType /\ call[c].content \in Contents
      /\ Writings(n) \in Nat /\ S = Of(n) /\ content[n] # None /\ Writings(n) # 0
  <2>1. n \in Nodes /\ call[c].content \in Contents
    BY <1>0, <1>2 DEF CallOK
  <2>2. call[c] \in CallType /\ Writings(n) \in Nat
    BY <1>2, <2>1, WritingsCount DEF ColumnsTyped
  <2>3. S = Of(n)
    BY <1>0, <1>2, <2>1, NothingSaved
  <2>4. content[n] # None /\ Writings(n) # 0
    BY <1>0, <1>2, <2>1 DEF ReadOK, StoreInv, StoredOK
  <2>5. QED
    BY <2>1, <2>2, <2>3, <2>4
<1>4. next = Writings(n)
  <2>1. /\ \A v \in S : v.version \in 1 .. Writings(n) - 1
        /\ \A k \in 1 .. Writings(n) - 1 : \E v \in S : v.version = k
        /\ S \in SUBSET VersionType /\ Writings(n) - 1 \in Nat
    <3>1. HistoryOK(n)
      BY <1>3 DEF StoreInv
    <3>2. S \in SUBSET VersionType
      BY <1>2, <1>3 DEF Of, ColumnsTyped
    <3>3. QED
      BY <1>3, <3>1, <3>2 DEF HistoryOK
  <2>2. CASE S = {}
    <3>1. Writings(n) - 1 \notin 1 .. Writings(n) - 1
      BY <2>1, <2>2
    <3>2. QED
      BY <1>1, <1>3, <2>1, <2>2, <3>1
  <2>3. CASE S # {}
    BY <1>1, <1>3, <2>1, <2>3, LatestOf
  <2>4. QED
    BY <2>2, <2>3
<1>5. /\ new \in CallType /\ new.node = n /\ new.author = call[c].author /\ new.kind = call[c].kind
      /\ new.content = call[c].content /\ new.old = call[c].old /\ new.version = next
  BY <1>0, <1>3, <1>4 DEF CallType
<1>6. Learn(c, new) /\ "save" \in Labels
  BY <1>1 DEF Labels
<1> HIDE DEF new
<1>7. ReadOK(c)'
  <2>1. pc'[c] = "save" /\ call'[c] = new
    BY <1>2, <1>6 DEF GoTo, Learn, ColumnsTyped
  <2>2. Writings(n)' = Writings(n) /\ written' = written /\ content' = content
    BY <1>2 DEF Writings, rowVars
  <2>3. next \in 1 .. Writings(n)
    BY <1>3, <1>4
  <2>4. /\ call[c].old \in Contents /\ {n} \notin overlapped => call[c].old = content[n]
        /\ \E j \in 1 .. next : call[c].old = written[n][j][1]
    BY <1>0, <1>2, <1>4 DEF ReadOK
  <2>5. QED
    BY <1>2, <1>3, <1>4, <1>5, <2>1, <2>2, <2>3, <2>4 DEF ReadOK
<1>8. QED
  BY <1>0, <1>2, <1>3, <1>5, <1>6, <1>7, ReadStep

LEMMA ReadLatestStep ==
  ASSUME StoreInv, NEW c \in Connections, ReadLatest(c)
  PROVE  StepOK(c) /\ UNCHANGED tables
<1>0. PICK n, S : n = call[c].node /\ S = VersionsSeen(c, n)
  OBVIOUS
<1>1. CASE S = {} /\ Rollback(c)
  BY <1>1, RollbackStep
<1>2. CASE S # {} /\ ~Rollback(c)
  <2> DEFINE new == [call[c] EXCEPT !.content = Latest(S).content]
             label == IF Latest(S).content \in Texts THEN "duplicate" ELSE "existing"
  <2>1. /\ pc[c] = "latest" /\ Learn(c, new) /\ GoTo(c, label)
        /\ UNCHANGED <<rowVars, versions, saved, issues, raised, approved, written, overlapped>>
        /\ ColumnsTyped /\ CallOK(c)
    BY <1>0, <1>2 DEF ReadLatest, StoreInv
  <2>2. n \in Nodes /\ call[c] \in CallType /\ Writings(n) \in Nat /\ S = Of(n)
    BY <1>0, <2>1, WritingsCount, NothingSaved DEF CallOK, ColumnsTyped
  <2>3. Latest(S).content \in Contents
    <3>1. /\ \A v \in S : v.version \in 1 .. Writings(n) - 1
          /\ \A k \in 1 .. Writings(n) - 1 : \E v \in S : v.version = k
          /\ S \in SUBSET VersionType
      BY <2>1, <2>2 DEF StoreInv, HistoryOK, Of, ColumnsTyped
    <3>2. Writings(n) - 1 \in Nat
      <4>1. PICK v \in S : v.version \in 1 .. Writings(n) - 1
        BY <1>2, <3>1
      <4>2. QED
        BY <2>2, <4>1
    <3>3. QED
      BY <1>2, <3>1, <3>2, LatestOf DEF VersionType
  <2>4. /\ new \in CallType /\ new.node = n /\ new.author = call[c].author /\ new.kind = call[c].kind
        /\ new.content \in Contents
    BY <1>0, <2>2, <2>3 DEF CallType
  <2>5. label \in Labels /\ label \in {"duplicate", "existing"}
    BY DEF Labels
  <2>6. QED
    BY <1>0, <2>1, <2>4, <2>5, ReadStep
<1>3. QED
  BY <1>0, <1>1, <1>2, RollbackStep DEF ReadLatest

LEMMA SaveVersionStep ==
  ASSUME StoreInv, NEW c \in Connections, SaveVersion(c)
  PROVE  StepOK(c) /\ UNCHANGED tables
<1>0. PICK n, k, old : n = call[c].node /\ k = call[c].version /\ old = call[c].old
  OBVIOUS
<1>1. CASE Rollback(c)
  BY <1>1, RollbackStep
<1>2. CASE ~Rollback(c)
  <2>0. PICK v : v = [node |-> n, version |-> k, content |-> old, updated_by |-> created_by[n]]
    OBVIOUS
  <2>1. /\ pc[c] = "save" /\ GoTo(c, "update")
        /\ \A d \in Connections \ {c} : \A w \in saved[d] : ~SameKey(w, c)
        /\ \A w \in versions : ~SameKey(w, c)
        /\ saved' = [saved EXCEPT ![c] = @ \cup {v}]
        /\ UNCHANGED <<rowVars, versions, issues, raised, approved, call, written, overlapped>>
        /\ ColumnsTyped /\ CallOK(c)
    BY <1>0, <1>2, <2>0 DEF SaveVersion, StoreInv
  <2>2. /\ n \in Nodes /\ call[c].author \in Authors /\ call[c].content \in Contents
        /\ raised[c] = {} /\ saved[c] = {}
        /\ \A m \in Nodes : owner[m] # c
    BY <1>0, <2>1, NothingSaved, HoldsNothing DEF CallOK
  <2>3. Writings(n) \in Nat /\ StoredOK(n) /\ HistoryOK(n)
    BY <2>1, <2>2, WritingsCount DEF StoreInv
  <2>4. /\ content[n] # None /\ old \in Contents /\ k \in 1 .. Writings(n)
        /\ {n} \notin overlapped => old = content[n]
        /\ \E j \in 1 .. k : old = written[n][j][1]
    BY <1>0, <2>1 DEF CallOK, ReadOK
  <2>5. k = Writings(n)
    <3> SUFFICES ASSUME k # Writings(n) PROVE FALSE
      OBVIOUS
    <3>1. k \in 1 .. Writings(n) - 1
      BY <2>3, <2>4
    <3>2. PICK w \in Of(n) : w.version = k
      BY <2>3, <3>1 DEF HistoryOK
    <3>3. QED
      BY <1>0, <2>1, <3>2 DEF Of, SameKey
  <2>6. v \in VersionType /\ v.node = n /\ v.version = k /\ v.content = old /\ v.updated_by = created_by[n]
    BY <2>0, <2>2, <2>3, <2>4 DEF VersionType, StoredOK
  <2>7. saved' = [saved EXCEPT ![c] = {v}]
    BY <2>1, <2>2
  <2>8. /\ saved' \in [Connections -> SUBSET VersionType] /\ saved'[c] = {v}
        /\ \A d \in Connections \ {c} : saved'[d] = saved[d]
    BY <2>1, <2>6, <2>7 DEF ColumnsTyped
  <2>9. /\ pc' \in [Connections -> Labels] /\ call' \in [Connections -> CallType]
        /\ pc'[c] = "update" /\ call'[c] = call[c] /\ OthersStay(c) /\ OverlapsNoted'
    BY <2>1, <2>8, SameCallStep DEF Labels
  <2>10. VersionOK(v)
    BY <2>3, <2>4, <2>5, <2>6 DEF VersionOK, StoredOK
  <2>11. Writings(n)' = Writings(n) /\ (VersionOK(v)' <=> VersionOK(v))
    BY <2>1 DEF Writings, VersionOK, rowVars
  <2>12. SavedOK(c)'
    BY <1>0, <2>1, <2>4, <2>5, <2>6, <2>8, <2>9, <2>10, <2>11 DEF SavedOK, rowVars
  <2>13. CallOK(c)'
    BY <1>0, <2>1, <2>2, <2>8, <2>9 DEF CallOK
  <2>14. ColumnsTyped'
    BY <2>1, <2>8, <2>9 DEF ColumnsTyped, rowVars
  <2>15. SavesDiffer'
    <3>1. ASSUME NEW d \in Connections \ {c}, saved[d] # {}, call[d].node = n PROVE FALSE
      <4>1. PICK w \in saved[d] : TRUE
        BY <3>1
      <4>2. w.node = n /\ w.version = Writings(n)
        BY <3>1, <4>1 DEF StoreInv, SavedOK
      <4>3. QED
        BY <1>0, <2>1, <2>5, <4>2 DEF SameKey
    <3>2. \A d \in Connections : call'[d].node = call[d].node
      BY <2>1
    <3>3. QED
      BY <1>0, <2>8, <3>1, <3>2 DEF StoreInv, SavesDiffer
  <2>16. QED
    BY <2>1, <2>2, <2>9, <2>12, <2>13, <2>14, <2>15, QuietStep DEF StepOK, tables, rowVars
<1>3. QED
  BY <1>1, <1>2

\* A statement that writes the row of the call's node, which nobody else holds.
LEMMA WriteStep ==
  ASSUME StoreInv, NEW c \in Connections, NEW n \in Nodes, NEW label \in {"detect", "approve", "commit"},
         n = call[c].node, pc[c] \in {"update", "insert"}, call[c].content \in Contents,
         Unlocked(c, n), GoTo(c, label),
         draft' = [draft EXCEPT ![n] = call[c].content],
         owner' = [owner EXCEPT ![n] = c],
         created_by' \in [Nodes -> Authors \cup {None}], created_by'[n] \in Authors,
         \A m \in Nodes : m # n \/ content[m] # None => created_by'[m] = created_by[m],
         saved[c] = {} <=> content[n] = None,
         label = "approve" => call[c].kind # "ingest",
         label = "detect" => call[c].kind = "ingest" /\ saved[c] # {},
         label = "commit" => saved[c] = {},
         UNCHANGED <<content, versions, saved, issues, raised, approved, call, written, overlapped>>
  PROVE  StepOK(c) /\ UNCHANGED tables
<1>1. ColumnsTyped /\ CallOK(c) /\ SavedOK(c) /\ \A m \in Nodes : owner[m] # c
  BY HoldsNothing DEF StoreInv
<1>2. owner[n] = NoConnection /\ c # NoConnection
  BY <1>1, StoreAssumption DEF StoreAssumption, Unlocked
<1>3. /\ draft' \in [Nodes -> Contents \cup {None}]
      /\ owner' \in [Nodes -> Connections \cup {NoConnection}]
      /\ owner'[n] = c /\ draft'[n] = call[c].content
      /\ \A m \in Nodes \ {n} : owner'[m] = owner[m] /\ draft'[m] = draft[m]
  BY <1>1 DEF ColumnsTyped
<1>4. /\ pc' \in [Connections -> Labels] /\ call' \in [Connections -> CallType]
      /\ pc'[c] = label /\ call'[c] = call[c] /\ OthersStay(c) /\ OverlapsNoted' /\ SavesDiffer'
  <2>1. label \in Labels
    BY DEF Labels
  <2>2. QED
    BY <2>1, SameCallStep
<1>5. ColumnsTyped'
  BY <1>1, <1>3, <1>4 DEF ColumnsTyped
<1>6. Respects(c)
  <2>1. \A m \in Nodes : Len(written[m]) \in Nat
    BY WritingsCount DEF StoreInv, Writings
  <2>2. QED
    BY <1>2, <1>3, <2>1 DEF Respects
<1>7. \A m \in Nodes : owner'[m] = NoConnection => draft'[m] = content'[m]
  BY <1>2, <1>3 DEF StoreInv, StoredOK
<1>8. \A m \in Nodes : owner'[m] = c => HeldOK(c, m)'
  BY <1>1, <1>3, <1>4 DEF HeldOK
<1>9. SavedOK(c)'
  <2>1. ASSUME NEW v \in saved[c] PROVE Writings(v.node)' = Writings(v.node) /\ VersionOK(v)'
    <3>1. v.node = n /\ content[n] # None /\ VersionOK(v)
      BY <1>1 DEF SavedOK
    <3>2. QED
      BY <3>1 DEF VersionOK, Writings
  <2>2. QED
    BY <1>1, <1>3, <1>4, <2>1 DEF SavedOK
<1>10. CallOK(c)'
  <2>1. raised[c] = {} /\ (label = "commit" => Due(c)' = {})
    BY <1>1 DEF CallOK, Due
  <2>2. QED
    BY <1>1, <1>4, <2>1 DEF CallOK
<1>11. QED
  BY <1>4, <1>5, <1>6, <1>7, <1>8, <1>9, <1>10 DEF StepOK, tables

LEMMA UpdateNodeStep ==
  ASSUME StoreInv, NEW c \in Connections, UpdateNode(c)
  PROVE  StepOK(c) /\ UNCHANGED tables
<1>0. PICK n : n = call[c].node
  OBVIOUS
<1>1. PICK label \in {"detect", "approve"} :
        /\ label = IF call[c].kind = "ingest" THEN "detect" ELSE "approve"
        /\ pc[c] = "update" /\ Unlocked(c, n) /\ GoTo(c, label)
        /\ draft' = [draft EXCEPT ![n] = call[c].content]
        /\ owner' = [owner EXCEPT ![n] = c]
        /\ UNCHANGED <<content, created_by, versions, saved, issues, raised, approved, call, written, overlapped>>
        /\ ColumnsTyped /\ CallOK(c) /\ SavedOK(c)
  BY <1>0 DEF UpdateNode, StoreInv
<1>2. n \in Nodes /\ call[c].content \in Contents /\ saved[c] # {}
  BY <1>0, <1>1 DEF CallOK
<1>3. content[n] # None
  BY <1>0, <1>1, <1>2 DEF SavedOK
<1>4. created_by[n] \in Authors
  BY <1>2, <1>3 DEF StoreInv, StoredOK
<1>5. created_by \in [Nodes -> Authors \cup {None}]
  BY <1>1 DEF ColumnsTyped
<1>6. QED
  BY <1>0, <1>1, <1>2, <1>3, <1>4, <1>5, WriteStep

LEMMA InsertNodeStep ==
  ASSUME StoreInv, NEW c \in Connections, InsertNode(c)
  PROVE  StepOK(c) /\ UNCHANGED tables
<1>0. PICK n : n = call[c].node
  OBVIOUS
<1>1. CASE Rollback(c)
  BY <1>1, RollbackStep
<1>2. CASE ~Rollback(c)
  <2>1. /\ pc[c] = "insert" /\ Unlocked(c, n) /\ GoTo(c, "commit") /\ content[n] = None
        /\ draft' = [draft EXCEPT ![n] = call[c].content]
        /\ created_by' = [created_by EXCEPT ![n] = call[c].author]
        /\ owner' = [owner EXCEPT ![n] = c]
        /\ UNCHANGED <<content, versions, saved, issues, raised, approved, call, written, overlapped>>
        /\ ColumnsTyped /\ CallOK(c)
    BY <1>0, <1>2 DEF InsertNode, StoreInv
  <2>2. n \in Nodes /\ call[c].content \in Contents /\ call[c].author \in Authors /\ saved[c] = {}
    BY <1>0, <2>1, NothingSaved DEF CallOK
  <2>3. /\ created_by' \in [Nodes -> Authors \cup {None}] /\ created_by'[n] \in Authors
        /\ \A m \in Nodes : m # n \/ content[m] # None => created_by'[m] = created_by[m]
    BY <2>1, <2>2 DEF ColumnsTyped
  <2>4. QED
    BY <1>0, <2>1, <2>2, <2>3, WriteStep
<1>3. QED
  BY <1>1, <1>2

\* The statement before the commit: the call's reviews are raised.
LEMMA LastStep ==
  ASSUME StoreInv, NEW c \in Connections, NEW new \in CallType,
         pc[c] \in {"detect", "approve"}, GoTo(c, "commit"), Learn(c, new),
         new.node = call[c].node, new.author = call[c].author, new.kind = call[c].kind,
         raised' = [raised EXCEPT ![c] = Due(c)],
         UNCHANGED <<rowVars, versions, saved, issues, approved, written, overlapped>>
  PROVE  StepOK(c) /\ UNCHANGED tables
<1>1. ColumnsTyped /\ CallOK(c) /\ SavedOK(c)
  BY DEF StoreInv
<1>2. /\ pc' \in [Connections -> Labels] /\ call' \in [Connections -> CallType]
      /\ pc'[c] = "commit" /\ call'[c] = new /\ OthersStay(c) /\ OverlapsNoted' /\ SavesDiffer'
  <2>1. \A d \in Connections \ {c} : saved'[d] = saved[d] /\ raised'[d] = raised[d]
    BY <1>1 DEF ColumnsTyped
  <2>2. QED
    BY <2>1, LocalStep DEF Labels
<1>3. Due(c) \in SUBSET IssueType
  <2> SUFFICES ASSUME saved[c] # {}
               PROVE  [node |-> call[c].node, version |-> Writings(call[c].node),
                       previous |-> created_by[call[c].node], current |-> call[c].author] \in IssueType
    BY DEF Due
  <2>1. call[c].node \in Nodes /\ call[c].author \in Authors /\ Writings(call[c].node) \in Nat
    BY <1>1, WritingsCount DEF CallOK
  <2>2. content[call[c].node] # None
    BY <1>1 DEF SavedOK
  <2>3. created_by[call[c].node] \in Authors
    BY <2>1, <2>2 DEF StoreInv, StoredOK
  <2>4. QED
    BY <2>1, <2>3 DEF IssueType
<1>4. raised' \in [Connections -> SUBSET IssueType] /\ raised'[c] = Due(c)
  BY <1>1, <1>3 DEF ColumnsTyped
<1>5. ColumnsTyped'
  BY <1>1, <1>2, <1>4 DEF ColumnsTyped, rowVars
<1>6. Due(c)' = Due(c)
  BY <1>2 DEF Due, Writings, rowVars
<1>7. CallOK(c)'
  BY <1>1, <1>2, <1>4, <1>6 DEF CallOK
<1>8. \A n \in Nodes : owner'[n] = c => HeldOK(c, n)'
  BY <1>1, <1>2, HeldIsOK DEF HeldOK, rowVars
<1>9. SavedOK(c)'
  <2>1. ASSUME NEW v \in saved[c] PROVE Writings(v.node)' = Writings(v.node) /\ VersionOK(v)'
    BY <1>1 DEF SavedOK, VersionOK, Writings, rowVars
  <2>2. QED
    BY <1>1, <1>2, <2>1 DEF SavedOK, rowVars
<1>10. QED
  BY <1>2, <1>5, <1>7, <1>8, <1>9, QuietStep DEF StepOK, tables, rowVars

LEMMA DetectStep ==
  ASSUME StoreInv, NEW c \in Connections, Detect(c)
  PROVE  StepOK(c) /\ UNCHANGED tables
<1>0. PICK n, S, v : n = call[c].node /\ S = VersionsSeen(c, n) /\ v = Latest(S)
  OBVIOUS
<1>1. /\ pc[c] = "detect" /\ GoTo(c, "commit")
      /\ raised' = IF v.updated_by = call[c].author THEN raised
                   ELSE [raised EXCEPT ![c] = @ \cup
                           {[node |-> v.node, version |-> v.version,
                             previous |-> v.updated_by, current |-> call[c].author]}]
      /\ UNCHANGED <<rowVars, versions, saved, issues, approved, call, written, overlapped>>
      /\ ColumnsTyped /\ CallOK(c) /\ SavedOK(c)
  BY <1>0 DEF Detect, StoreInv
<1>2. n \in Nodes /\ call[c].kind = "ingest" /\ saved[c] # {} /\ raised[c] = {}
  BY <1>0, <1>1 DEF CallOK
<1>3. PICK w \in saved[c] : /\ saved[c] = {w} /\ w.node = n /\ w.version = Writings(n)
                            /\ w.updated_by = created_by[n] /\ content[n] # None
  BY <1>0, <1>1, <1>2 DEF SavedOK, VersionOK
<1>4. Writings(n) \in Nat \ {0} /\ HistoryOK(n) /\ w \in VersionType
  <2>1. Writings(n) \in Nat
    BY <1>1, <1>2, WritingsCount
  <2>2. Writings(n) # 0
    BY <1>2, <1>3 DEF StoreInv, StoredOK
  <2>3. QED
    BY <1>1, <1>2, <2>1, <2>2 DEF StoreInv, ColumnsTyped
<1>5. S = Of(n) \cup {w} /\ S \in SUBSET VersionType
  BY <1>0, <1>1, <1>3, <1>4 DEF VersionsSeen, Of, ColumnsTyped
<1>6. \A u \in Of(n) : u.version \in 1 .. Writings(n) - 1
  BY <1>4 DEF HistoryOK
<1>7. \A k \in 1 .. Writings(n) - 1 : \E u \in Of(n) : u.version = k
  BY <1>4 DEF HistoryOK
<1>8. v \in S /\ v.version = Writings(n)
  <2>1. \A u \in S : u.version \in 1 .. Writings(n)
    BY <1>3, <1>4, <1>5, <1>6
  <2>2. \A k \in 1 .. Writings(n) : \E u \in S : u.version = k
    BY <1>3, <1>4, <1>5, <1>7
  <2>3. QED
    BY <1>0, <1>4, <1>5, <2>1, <2>2, LatestOf
<1>9. v = w
  BY <1>4, <1>5, <1>6, <1>8
<1>10. raised' = [raised EXCEPT ![c] = Due(c)]
  <2>1. CASE created_by[n] = call[c].author
    BY <1>0, <1>1, <1>2, <1>3, <1>9, <2>1 DEF Due, ColumnsTyped
  <2>2. CASE created_by[n] # call[c].author
    <3>1. Due(c) = {[node |-> n, version |-> Writings(n), previous |-> created_by[n],
                     current |-> call[c].author]}
      BY <1>0, <1>2, <2>2 DEF Due
    <3>2. QED
      BY <1>1, <1>2, <1>3, <1>9, <2>2, <3>1
  <2>3. QED
    BY <2>1, <2>2
<1>11. call[c] \in CallType /\ Learn(c, call[c])
  BY <1>1 DEF ColumnsTyped, Learn
<1>12. QED
  BY <1>1, <1>10, <1>11, LastStep

LEMMA ApprovePendingStep ==
  ASSUME StoreInv, NEW c \in Connections, ApprovePending(c)
  PROVE  StepOK(c) /\ UNCHANGED tables
<1> DEFINE new == [call[c] EXCEPT !.reviews = {i \in issues : i.node = call[c].node}]
<1>1. /\ pc[c] = "approve" /\ Learn(c, new) /\ GoTo(c, "commit")
      /\ UNCHANGED <<rowVars, versions, saved, issues, raised, approved, written, overlapped>>
      /\ ColumnsTyped /\ CallOK(c)
  BY DEF ApprovePending, StoreInv
<1>2. new \in CallType /\ new.node = call[c].node /\ new.author = call[c].author /\ new.kind = call[c].kind
  <2>1. call[c] \in CallType /\ {i \in issues : i.node = call[c].node} \in SUBSET IssueType
    BY <1>1 DEF ColumnsTyped
  <2>2. QED
    BY <2>1 DEF CallType
<1>3. raised[c] = {} /\ Due(c) = {}
  BY <1>1 DEF CallOK, Due
<1>4. raised' = [raised EXCEPT ![c] = Due(c)]
  BY <1>1, <1>3 DEF ColumnsTyped
<1>5. QED
  BY <1>1, <1>2, <1>4, LastStep

-----------------------------------------------------------------------------
(***************************************************************************)
(* The commit.                                                             *)
(***************************************************************************)
\* A call that has written nothing commits nothing.
LEMMA EmptyCommitStep ==
  ASSUME StoreInv, NEW c \in Connections, Commit(c), owner[call[c].node] # c
  PROVE  StepOK(c) /\ UNCHANGED tables
<1>1. /\ pc[c] = "commit" /\ ColumnsTyped /\ CallOK(c) /\ SavedOK(c)
      /\ content' = [m \in Nodes |-> View(c, m)]
      /\ versions' = versions \cup saved[c] /\ issues' = issues \cup raised[c]
      /\ written' = written
      /\ Forget(c) /\ UNCHANGED <<created_by, draft, overlapped>>
  BY DEF Commit, StoreInv
<1>2. saved[c] = {} /\ raised[c] = {}
  BY <1>1 DEF SavedOK, CallOK, Due
<1>3. \A m \in Nodes : owner[m] # c
  BY HeldIsOK DEF HeldOK
<1>4. content' = content
  BY <1>1, <1>3 DEF View, ColumnsTyped
<1>5. UNCHANGED tables
  BY <1>1, <1>2, <1>4 DEF tables
<1>6. ColumnsTyped'
  BY <1>1, <1>5, ForgetStep DEF ColumnsTyped, tables
<1>7. \A m \in Nodes : Len(written[m]) \in Nat
  BY WritingsCount DEF StoreInv, Writings
<1>8. Respects(c)
  BY <1>1, <1>3, <1>4, <1>7, ForgetStep DEF Respects
<1>9. \A m \in Nodes : owner'[m] = NoConnection => draft'[m] = content'[m]
  BY <1>1, <1>3, <1>4, ForgetStep DEF StoreInv, StoredOK
<1>10. QED
  BY <1>1, <1>5, <1>6, <1>8, <1>9, ForgetStep DEF StepOK

LEMMA FullCommitStep ==
  ASSUME StoreInv, NEW c \in Connections, Commit(c), owner[call[c].node] = c
  PROVE  StoreInv'
<1>0. PICK n, w : n = call[c].node /\ w = <<draft[n], call[c].author, call[c].kind>>
  OBVIOUS
<1>1. /\ pc[c] = "commit" /\ ColumnsTyped /\ CallOK(c) /\ SavedOK(c)
      /\ content' = [m \in Nodes |-> View(c, m)]
      /\ versions' = versions \cup saved[c] /\ issues' = issues \cup raised[c]
      /\ written' = [written EXCEPT ![n] = Append(@, w)]
      /\ Forget(c) /\ UNCHANGED <<created_by, draft, overlapped>>
  BY <1>0 DEF Commit, StoreInv
<1>2. n \in Nodes /\ call[c].author \in Authors /\ raised[c] = Due(c)
  BY <1>0, <1>1 DEF CallOK
<1>3. draft[n] \in Contents /\ created_by[n] \in Authors /\ (saved[c] = {} <=> content[n] = None)
  BY <1>0, <1>2, HeldIsOK DEF HeldOK
<1>4. \A m \in Nodes \ {n} : owner[m] # c
  BY <1>0, HeldIsOK DEF HeldOK
<1>5. /\ content'[n] = draft[n] /\ content'[n] # None
      /\ \A m \in Nodes \ {n} : content'[m] = content[m]
  BY <1>0, <1>1, <1>2, <1>3, <1>4, StoreAssumption DEF View, StoreAssumption
<1>6. w \in Writes /\ w[1] = draft[n] /\ w[2] = call[c].author /\ w[3] = call[c].kind
  <2>1. call[c].kind \in Kinds
    BY <1>1 DEF ColumnsTyped, CallType
  <2>2. QED
    BY <1>0, <1>2, <1>3, <2>1 DEF Writes
<1>7. \A m \in Nodes : Writings(m) \in Nat /\ written[m] \in Seq(Writes)
  BY <1>1, WritingsCount
<1>8. /\ written'[n] \in Seq(Writes) /\ Writings(n)' = Writings(n) + 1
      /\ written'[n][Writings(n) + 1] = w
      /\ \A j \in 1 .. Writings(n) : written'[n][j] = written[n][j]
  <2>1. written'[n] = Append(written[n], w)
    BY <1>1, <1>2 DEF ColumnsTyped
  <2>2. QED
    BY <1>2, <1>6, <1>7, <2>1, AppendProperties DEF Writings
<1>9. \A m \in Nodes \ {n} : written'[m] = written[m] /\ Writings(m)' = Writings(m)
  BY <1>1 DEF ColumnsTyped, Writings
<1>10. ColumnsTyped'
  <2>1. content' \in [Nodes -> Contents \cup {None}]
    BY <1>1 DEF ColumnsTyped, View
  <2>2. written' \in [Nodes -> Seq(Writes)]
    BY <1>1, <1>2, <1>8 DEF ColumnsTyped
  <2>3. versions' \subseteq VersionType /\ issues' \subseteq IssueType
    BY <1>1 DEF ColumnsTyped
  <2>4. QED
    BY <1>1, <2>1, <2>2, <2>3, ForgetStep DEF ColumnsTyped
<1>11. Respects(c)
  <2>1. \A m \in Nodes : owner'[m] = IF owner[m] = c THEN NoConnection ELSE owner[m]
    BY <1>1, ForgetStep
  <2>2. ASSUME NEW m \in Nodes
        PROVE  /\ Len(written'[m]) \in Nat /\ Len(written[m]) <= Len(written'[m])
               /\ \A j \in 1 .. Len(written[m]) : written'[m][j] = written[m][j]
    BY <1>7, <1>8, <1>9 DEF Writings
  <2>3. \A m \in Nodes : owner[m] # c => content'[m] = content[m] /\ written'[m] = written[m]
    BY <1>0, <1>5, <1>9
  <2>4. \A m \in Nodes : content[m] # None => content'[m] # None
    BY <1>5
  <2>5. QED
    BY <1>1, <2>1, <2>2, <2>3, <2>4 DEF Respects
<1>12. \A m \in Nodes : owner'[m] = NoConnection => draft'[m] = content'[m]
  <2>1. \A m \in Nodes : owner'[m] = IF owner[m] = c THEN NoConnection ELSE owner[m]
    BY <1>1, ForgetStep
  <2>2. \A m \in Nodes : owner[m] = NoConnection => draft[m] = content[m]
    BY DEF StoreInv, StoredOK
  <2>3. draft' = draft
    BY <1>1
  <2>4. QED
    BY <1>4, <1>5, <2>1, <2>2, <2>3
<1>13. StepOK(c)
  BY <1>1, <1>10, <1>11, <1>12, ForgetStep DEF StepOK
<1>14. \A v \in saved[c] : v \in VersionType /\ v.node = n /\ v.version = Writings(n) /\ VersionOK(v)
  BY <1>0, <1>1 DEF SavedOK, ColumnsTyped
<1>15. ASSUME NEW m \in Nodes PROVE StoredOK(m)'
  <2>1. StoredOK(m)
    BY DEF StoreInv
  <2>2. owner'[m] = NoConnection => draft'[m] = content'[m]
    BY <1>12
  <2>3. created_by' = created_by
    BY <1>1
  <2>4. CASE m # n
    <3>1. content'[m] = content[m] /\ written'[m] = written[m] /\ Writings(m)' = Writings(m)
      BY <1>5, <1>9, <2>4
    <3>2. QED
      BY <2>1, <2>2, <2>3, <3>1 DEF StoredOK
  <2>5. CASE m = n
    <3>1. Writings(m)' # 0
      BY <1>2, <1>7, <1>8, <2>5
    <3>2. content'[m] = written'[m][Writings(m)'][1]
      BY <1>5, <1>6, <1>8, <2>5
    <3>3. created_by'[m] \in Authors /\ content'[m] # None
      BY <1>3, <1>5, <2>3, <2>5
    <3>4. QED
      BY <2>2, <3>1, <3>2, <3>3 DEF StoredOK
  <2>6. QED
    BY <2>4, <2>5
<1>16. ASSUME NEW v \in versions PROVE v.node \in Nodes /\ v.version \in 1 .. Writings(v.node) - 1 /\ VersionOK(v)'
  <2>1. v \in VersionType /\ v \in Of(v.node) /\ v.node \in Nodes
    BY <1>1 DEF ColumnsTyped, VersionType, Of
  <2>2. /\ v.version \in 1 .. Writings(v.node) - 1 /\ VersionOK(v) /\ StoredOK(v.node)
    BY <2>1 DEF StoreInv, HistoryOK
  <2>3. content[v.node] # None /\ v.version \in 1 .. Writings(v.node)
    BY <1>7, <2>1, <2>2 DEF StoredOK
  <2>4. QED
    BY <1>11, <2>1, <2>2, <2>3, VersionKept
<1>17. ASSUME NEW m \in Nodes \ {n} PROVE HistoryOK(m)'
  <2>1. Of(m)' = Of(m) /\ HistoryOK(m)
    BY <1>1, <1>14 DEF Of, StoreInv
  <2>2. QED
    BY <1>9, <1>16, <2>1 DEF HistoryOK, Of
<1>18. HistoryOK(n)'
  <2>1. HistoryOK(n) /\ StoredOK(n) /\ Of(n)' = Of(n) \cup saved[c]
    BY <1>1, <1>2, <1>14 DEF Of, StoreInv
  <2>2. CASE saved[c] = {}
    <3>1. Writings(n) = 0
      BY <1>3, <2>1, <2>2 DEF StoredOK
    <3>2. Of(n)' = {}
      BY <2>1, <2>2, <3>1 DEF HistoryOK
    <3>3. QED
      BY <1>8, <3>1, <3>2 DEF HistoryOK
  <2>3. CASE saved[c] # {}
    <3>1. PICK v \in saved[c] : saved[c] = {v}
      BY <1>1, <2>3 DEF SavedOK
    <3>2. v.version = Writings(n) /\ v \in VersionType /\ v.node = n /\ VersionOK(v)
      BY <1>14
    <3>3. Writings(n) \in Nat /\ Writings(n) # 0
      BY <1>2, <1>3, <1>7, <2>1, <2>3 DEF StoredOK
    <3>4. VersionOK(v)'
      BY <1>3, <1>11, <2>3, <3>2, <3>3, VersionKept
    <3>5. \A u \in Of(n) : u.version \in 1 .. Writings(n) - 1 /\ VersionOK(u)'
      BY <1>16 DEF Of
    <3>6. \A u \in Of(n)' : u.version \in 1 .. Writings(n)' - 1 /\ VersionOK(u)'
      BY <1>8, <2>1, <3>1, <3>2, <3>3, <3>4, <3>5
    <3>7. \A k \in 1 .. Writings(n)' - 1 : \E u \in Of(n)' : u.version = k
      <4> SUFFICES ASSUME NEW k \in 1 .. Writings(n) PROVE \E u \in Of(n)' : u.version = k
        BY <1>8, <3>3
      <4>1. CASE k = Writings(n)
        BY <2>1, <3>1, <3>2, <4>1
      <4>2. CASE k # Writings(n)
        <5>1. k \in 1 .. Writings(n) - 1
          BY <3>3, <4>2
        <5>2. QED
          BY <2>1, <5>1 DEF HistoryOK
      <4>3. QED
        BY <4>1, <4>2
    <3>8. \A u, x \in Of(n)' : u.version = x.version => u = x
      <4>1. \A u \in Of(n) : u.version # v.version
        BY <3>2, <3>3, <3>5
      <4>2. QED
        BY <2>1, <3>1, <4>1 DEF HistoryOK
    <3>9. QED
      BY <3>6, <3>7, <3>8 DEF HistoryOK
  <2>4. QED
    BY <2>2, <2>3
<1>19. IssuesOK'
  <2> SUFFICES ASSUME NEW i \in issues' PROVE i.version < Writings(i.node)'
    BY DEF IssuesOK
  <2>1. CASE i \in issues
    <3>1. i \in IssueType /\ i.version < Writings(i.node)
      BY <1>1, <2>1 DEF ColumnsTyped, StoreInv, IssuesOK
    <3>2. i.node \in Nodes /\ i.version \in Nat
      BY <3>1 DEF IssueType
    <3>3. QED
      BY <1>7, <1>8, <1>9, <3>1, <3>2
  <2>2. CASE i \in raised[c]
    <3>1. i.node = n /\ i.version = Writings(n)
      BY <1>0, <1>2, <2>2 DEF Due
    <3>2. QED
      BY <1>2, <1>7, <1>8, <3>1
  <2>3. QED
    BY <1>1, <2>1, <2>2
<1>20. ReviewedUnlessCreator'
  <2> DEFINE review(m, k, a) == [node |-> m, version |-> k - 1, previous |-> created_by[m], current |-> a]
  <2> SUFFICES ASSUME NEW m \in Nodes, NEW k \in 2 .. Writings(m)'
               PROVE  written'[m][k][3] = "ingest" /\ written'[m][k][2] # created_by[m]
                        <=> review(m, k, written'[m][k][2]) \in issues'
    BY <1>1 DEF ReviewedUnlessCreator, Writings
  <2>1. \A i \in raised[c] : i.node = n /\ i.version = Writings(n)
    BY <1>0, <1>2 DEF Due
  <2>2. \A a : review(m, k, a).node = m /\ review(m, k, a).version = k - 1
    OBVIOUS
  <2>3. CASE m # n \/ k <= Writings(n)
    <3>1. k \in 2 .. Writings(m) /\ written'[m][k] = written[m][k]
      BY <1>7, <1>8, <1>9, <2>3
    <3>2. written[m][k][3] = "ingest" /\ written[m][k][2] # created_by[m]
            <=> review(m, k, written[m][k][2]) \in issues
      BY <3>1 DEF StoreInv, ReviewedUnlessCreator, Writings
    <3>3. k - 1 # Writings(n) \/ m # n
      BY <1>7, <2>3, <3>1
    <3>4. \A a : review(m, k, a) \in issues' <=> review(m, k, a) \in issues
      <4> HIDE DEF review
      <4>1. QED
        BY <1>1, <2>1, <2>2, <3>3
    <3>5. review(m, k, written[m][k][2]) \in issues' <=> review(m, k, written[m][k][2]) \in issues
      <4> HIDE DEF review
      <4>1. QED
        BY <3>4
    <3>6. QED
      <4> HIDE DEF review
      <4>1. QED
        BY <3>1, <3>2, <3>5
  <2>4. CASE m = n /\ k > Writings(n)
    <3>1. k = Writings(n) + 1 /\ written'[n][k] = w /\ Writings(n) # 0
      BY <1>7, <1>8, <2>4
    <3>2. saved[c] # {}
      BY <1>2, <1>3, <3>1 DEF StoreInv, StoredOK
    <3>3. \A a : review(m, k, a) \notin issues
      <4>1. \A i \in issues : i.node = n => i.version # Writings(n)
        BY <1>2, <1>7 DEF StoreInv, IssuesOK
      <4>2. k - 1 = Writings(n)
        BY <1>2, <1>7, <3>1
      <4> HIDE DEF review
      <4>3. QED
        BY <2>2, <2>4, <4>1, <4>2
    <3>4. review(m, k, call[c].author) =
            [node |-> n, version |-> Writings(n), previous |-> created_by[n], current |-> call[c].author]
      BY <1>2, <1>7, <2>4, <3>1
    <3>5. review(m, k, call[c].author) \in raised[c]
            <=> call[c].kind = "ingest" /\ call[c].author # created_by[n]
      BY <1>0, <1>2, <3>2, <3>4 DEF Due
    <3>6. written'[m][k][2] = call[c].author /\ written'[m][k][3] = call[c].kind
      BY <1>6, <2>4, <3>1
    <3>7. review(m, k, call[c].author) \in issues' <=> review(m, k, call[c].author) \in raised[c]
      <4> HIDE DEF review
      <4>1. QED
        BY <1>1, <3>3
    <3>8. QED
      <4> HIDE DEF review
      <4>1. QED
        BY <2>4, <3>5, <3>6, <3>7
  <2>5. QED
    BY <1>2, <1>7, <2>3, <2>4
<1>21. QED
  BY <1>10, <1>13, <1>15, <1>17, <1>18, <1>19, <1>20, StepKeepsOthers DEF StoreInv, StepOK

-----------------------------------------------------------------------------
(***************************************************************************)
(* The invariant holds.                                                    *)
(***************************************************************************)
LEMMA InitStoreInv == Init => StoreInv
<1> SUFFICES ASSUME Init PROVE StoreInv
  OBVIOUS
<1>1. ColumnsTyped
  BY InitColumnsTyped
<1>2. ASSUME NEW n \in Nodes PROVE StoredOK(n) /\ HistoryOK(n)
  BY DEF Init, StoredOK, HistoryOK, Of, Writings
<1>3. HeldRows
  BY StoreAssumption DEF StoreAssumption, Init, HeldRows
<1>4. ASSUME NEW c \in Connections PROVE SavedOK(c) /\ CallOK(c)
  BY DEF Init, SavedOK, CallOK, Due
<1>5. SavesDiffer /\ OverlapsNoted /\ IssuesOK /\ ReviewedUnlessCreator
  BY DEF Init, SavesDiffer, OverlapsNoted, IssuesOK, ReviewedUnlessCreator
<1>6. QED
  BY <1>1, <1>2, <1>3, <1>4, <1>5 DEF StoreInv

LEMMA NextStoreInv == StoreInv /\ [Next]_vars => StoreInv'
<1> SUFFICES ASSUME StoreInv, [Next]_vars PROVE StoreInv'
  OBVIOUS
<1>1. CASE UNCHANGED vars
  <2>1. /\ UNCHANGED ColumnsTyped /\ UNCHANGED IssuesOK /\ UNCHANGED ReviewedUnlessCreator
        /\ UNCHANGED SavesDiffer /\ UNCHANGED OverlapsNoted /\ UNCHANGED HeldRows
    BY <1>1 DEF vars, rowVars, ColumnsTyped, IssuesOK, ReviewedUnlessCreator, SavesDiffer,
                OverlapsNoted, HeldRows, HeldOK, Writings
  <2>2. ASSUME NEW n \in Nodes PROVE UNCHANGED StoredOK(n) /\ UNCHANGED HistoryOK(n)
    BY <1>1 DEF vars, rowVars, StoredOK, HistoryOK, VersionOK, Of, Writings
  <2>3. ASSUME NEW c \in Connections PROVE UNCHANGED SavedOK(c) /\ UNCHANGED CallOK(c)
    BY <1>1 DEF vars, rowVars, SavedOK, CallOK, ReadOK, Due, VersionOK, Writings
  <2>4. QED
    BY <2>1, <2>2, <2>3 DEF StoreInv
<1>2. ASSUME NEW c \in Connections, BeginCall(c) PROVE StoreInv'
  BY <1>2, BeginCallStep, StatementInv
<1>3. ASSUME NEW c \in Connections, Abort(c) PROVE StoreInv'
  BY <1>3, RollbackStep, StatementInv DEF Abort
<1>4. ASSUME NEW c \in Connections, Statement(c) PROVE StoreInv'
  <2>1. CASE FindDuplicate(c)
    BY <2>1, FindDuplicateStep, StatementInv
  <2>2. CASE ReadExisting(c)
    BY <2>2, ReadExistingStep, StatementInv
  <2>3. CASE NextVersion(c)
    BY <2>3, NextVersionStep, StatementInv
  <2>4. CASE SaveVersion(c)
    BY <2>4, SaveVersionStep, StatementInv
  <2>5. CASE UpdateNode(c)
    BY <2>5, UpdateNodeStep, StatementInv
  <2>6. CASE InsertNode(c)
    BY <2>6, InsertNodeStep, StatementInv
  <2>7. CASE Detect(c)
    BY <2>7, DetectStep, StatementInv
  <2>8. CASE ReadLatest(c)
    BY <2>8, ReadLatestStep, StatementInv
  <2>9. CASE ApprovePending(c)
    BY <2>9, ApprovePendingStep, StatementInv
  <2>10. CASE Commit(c)
    BY <2>10, EmptyCommitStep, FullCommitStep, StatementInv
  <2>11. QED
    BY <1>4, <2>1, <2>2, <2>3, <2>4, <2>5, <2>6, <2>7, <2>8, <2>9, <2>10 DEF Statement
<1>5. QED
  BY <1>1, <1>2, <1>3, <1>4 DEF Next

LEMMA StoreInvariant == Spec => []StoreInv
BY InitStoreInv, NextStoreInv, PTL DEF Spec

-----------------------------------------------------------------------------
(***************************************************************************)
(* What the history and the reviews are.                                   *)
(***************************************************************************)
\* The versions of one node are as many as their numbers.
LEMMA OneRowPerNumber ==
  ASSUME StoreInv, NEW n \in Nodes
  PROVE  Cardinality(Of(n)) = Cardinality({v.version : v \in Of(n)})
<1> DEFINE T == {v.version : v \in Of(n)}
           f == [v \in Of(n) |-> v.version]
<1>1. HistoryOK(n) /\ Writings(n) - 1 \in Int
  BY WritingsCount DEF StoreInv
<1>2. T = 1 .. Writings(n) - 1
  BY <1>1 DEF HistoryOK
<1>3. IsFiniteSet(T)
  <2>1. 1 \in Int /\ IsFiniteSet(1 .. Writings(n) - 1)
    BY <1>1, FS_Interval
  <2> HIDE DEF T
  <2>2. QED
    BY <1>2, <2>1
<1>4. f \in Injection(Of(n), T)
  BY <1>1 DEF HistoryOK, Injection, IsInjective
<1>5. f \in Surjection(Of(n), T)
  BY DEF Surjection
<1>6. QED
  BY <1>3, <1>4, <1>5, FS_Injection

\* The history has exactly one version for each write that replaced a content,
\* numbered without gaps, and the first is the first text.
THEOREM HistoryIsComplete == Spec => []OneVersionPerUpdate
<1>1. StoreInv => OneVersionPerUpdate
  <2> SUFFICES ASSUME StoreInv, NEW n \in Nodes
               PROVE  /\ {v.version : v \in Of(n)} = 1 .. Len(written[n]) - 1
                      /\ Cardinality(Of(n)) = Cardinality({v.version : v \in Of(n)})
                      /\ \A v \in Of(n) : v.version = 1 => v.content = written[n][1][1]
    BY DEF OneVersionPerUpdate
  <2>1. HistoryOK(n)
    BY DEF StoreInv
  <2>2. {v.version : v \in Of(n)} = 1 .. Len(written[n]) - 1
    BY <2>1 DEF HistoryOK, Writings
  <2>3. ASSUME NEW v \in Of(n), v.version = 1 PROVE v.content = written[n][1][1]
    <3>1. VersionOK(v) /\ v.node = n
      BY <2>1 DEF HistoryOK, Of
    <3>2. PICK j \in 1 .. 1 : v.content = written[n][j][1]
      BY <2>3, <3>1 DEF VersionOK
    <3>3. QED
      BY <3>2
  <2>4. QED
    BY <2>2, <2>3, OneRowPerNumber
<1>2. QED
  BY <1>1, StoreInvariant, PTL

\* A review exists for exactly the ingested updates whose author is not the
\* creator of the node, and names the two.
THEOREM ReviewsAreRaised == Spec => []ReviewedUnlessCreator
<1>1. StoreInv => ReviewedUnlessCreator
  BY DEF StoreInv
<1>2. QED
  BY <1>1, StoreInvariant, PTL

\* The versions of a node that no two calls were about at the same time,
\* followed by its content, are what was written to it.
THEOREM HistoryIsFaithful == Spec => []HistoryReplays
<1>1. StoreInv => HistoryReplays
  <2> SUFFICES ASSUME StoreInv, NEW n \in Nodes, {n} \notin overlapped
               PROVE  /\ \A v \in Of(n) : v.content = written[n][v.version][1]
                      /\ content[n] # None => content[n] = written[n][Len(written[n])][1]
    BY DEF HistoryReplays
  <2>1. HistoryOK(n) /\ StoredOK(n)
    BY DEF StoreInv
  <2>2. \A v \in Of(n) : VersionOK(v) /\ v.node = n
    BY <2>1 DEF HistoryOK, Of
  <2>3. QED
    BY <2>1, <2>2 DEF VersionOK, StoredOK, Writings
<1>2. QED
  BY <1>1, StoreInvariant, PTL

=============================================================================
