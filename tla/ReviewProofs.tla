---------------------------- MODULE ReviewProofs ----------------------------
(***************************************************************************)
(* Theorems about the contradictions of Review, for any number of          *)
(* connections, nodes and issues.                                          *)
(*                                                                         *)
(* The argument: an edge that a call holds was written by that call, under *)
(* one of its pairs (HeldOK); calls that share a pair are contested        *)
(* (Rivals); so what an uncontested call has read of its pair stays true   *)
(* until it commits (CallOK).  A committed edge never vanishes, and a      *)
(* decision never becomes PENDING again.                                   *)
(***************************************************************************)
EXTENDS Review, FiniteSetTheorems, TLAPS

(***************************************************************************)
(* The invariant.                                                          *)
(***************************************************************************)
Labels == {"idle", "find", "insert", "update", "list", "approve", "compare", "commit"}

CallType == [kind : {"none", "decide", "ingest", "resolve", "scan"},
             status : Statuses \cup {"none"},
             pairs : SUBSET Pairs,
             key : Keys \cup {<<>>},
             edges : SUBSET Keys,
             nodes : SUBSET Nodes,
             similar : SUBSET Pairs,
             todo : SUBSET (Pairs \cup Keys),
             listed : SUBSET Pairs,
             before : SUBSET Pairs,
             contested : BOOLEAN]

ColumnsTyped == /\ status \in [Keys -> Statuses \cup {"none"}]
                /\ draft \in [Keys -> Statuses \cup {"none"}]
                /\ owner \in [Keys -> Connections \cup {NoConnection}]
                /\ pc \in [Connections -> Labels]
                /\ call \in [Connections -> CallType]
                /\ verdict \in [Pairs -> Decisions \cup {"none"}]
                /\ loose \subseteq Pairs

Unlinked(p) == \A k \in Edges(p) : status[k] = "none"

\* The edge that a review inserts runs from the issue to the node.
FromIssue(k) == k[1] \in Issues /\ k[2] \in Nodes

\* What c has made of an edge it holds.
HeldOK(c, k) ==
  /\ pc[c] \in {"approve", "commit"}
  /\ call[c].kind \in {"decide", "ingest", "resolve"}
  /\ k \in call[c].edges /\ PairOf(k) \in call[c].pairs
  /\ draft[k] = call[c].status /\ call[c].status # "none"
  /\ call[c].kind # "ingest" => call[c].status \in Decisions
  /\ call[c].kind = "ingest" => status[k] = "none"
  /\ status[k] = "none" =>
       /\ call[c].kind \in {"decide", "ingest"}
       /\ call[c].kind = "decide" /\ ~call[c].contested => Unlinked(PairOf(k))
       /\ call[c].status = "PENDING" => FromIssue(k)

DraftsHeld ==
  \A k \in Keys : /\ owner[k] = NoConnection => draft[k] = status[k]
                  /\ \A c \in Connections : owner[k] = c => HeldOK(c, k)

\* What the locals of a call mean.
CallOK(c) ==
  /\ pc[c] \in {"find", "update"} => call[c].kind = "decide"
  /\ pc[c] = "insert" => call[c].kind \in {"decide", "ingest"}
  /\ pc[c] \in {"list", "approve"} => call[c].kind = "resolve"
  /\ pc[c] = "compare" => call[c].kind = "scan"
  /\ pc[c] # "idle" => call[c].kind # "none"
  /\ call[c].kind \in {"decide", "ingest"} =>
       call[c].key \in Keys /\ call[c].pairs = {PairOf(call[c].key)}
  /\ call[c].kind = "decide" =>
       /\ call[c].status \in Decisions
       /\ \A j, k \in call[c].edges : j = k
  /\ call[c].kind = "ingest" =>
       \/ call[c].status = "APPROVED"
       \/ call[c].status = "PENDING" /\ FromIssue(call[c].key)
  /\ pc[c] = "insert" /\ call[c].kind = "decide" /\ ~call[c].contested => Unlinked(PairOf(call[c].key))
  /\ pc[c] = "update" => \A k \in call[c].edges : status[k] # "none" /\ PairOf(k) \in call[c].pairs
  /\ call[c].kind = "resolve" =>
       /\ call[c].status = "APPROVED"
       /\ \A k \in Keys : call[c].nodes \subseteq PairOf(k) => PairOf(k) \in call[c].pairs
       /\ pc[c] = "list" => call[c].edges = {}
       /\ pc[c] = "approve" => /\ \A k \in call[c].todo : /\ k \in Keys /\ status[k] # "none"
                                                          /\ PairOf(k) \in call[c].pairs
                               /\ \A k \in call[c].edges : owner[k] = c
  /\ pc[c] = "commit" /\ call[c].kind \in {"decide", "resolve"} =>
       \A k \in call[c].edges : \/ owner[k] = c
                                \/ call[c].contested /\ \A e \in Keys : owner[e] # c

\* What a scan has found so far is still right.
ScanOK(c) ==
  call[c].kind = "scan" =>
    /\ call[c].edges = {}
    /\ \A p \in call[c].todo : p \subseteq Nodes
    /\ \A p \in call[c].before : \E k \in Edges(p) : status[k] \in Decisions
    /\ call[c].listed \cap call[c].before = {}
    /\ \A p \in call[c].similar \ call[c].todo : Unlinked(p) => p \in call[c].listed
    /\ pc[c] = "commit" => call[c].todo = {}

\* Calls that share a pair know it.
Rivals ==
  \A c, d \in Connections :
    c # d /\ pc[c] # "idle" /\ pc[d] # "idle" /\ call[c].pairs \cap call[d].pairs # {}
      => call[c].contested

\* Only edges from issues are ever PENDING.
IssueEdges == \A k \in Keys : status[k] = "PENDING" => FromIssue(k)

AtMostOne(p) == \A j, k \in Edges(p) : status[j] # "none" /\ status[k] # "none" => j = k

ReviewInv == /\ ColumnsTyped
             /\ DraftsHeld
             /\ \A c \in Connections : CallOK(c) /\ ScanOK(c)
             /\ Rivals
             /\ IssueEdges
             /\ \A p \in Pairs \ loose : AtMostOne(p)
             /\ DecisionRecorded

-----------------------------------------------------------------------------
(***************************************************************************)
(* Types.                                                                  *)
(***************************************************************************)
LEMMA PairsOfKeys == \A k \in Keys : PairOf(k) \in Pairs /\ k \in Edges(PairOf(k))
BY DEF Pairs, Edges

LEMMA IdleTyped == Idle \in CallType
BY DEF Idle, CallType

LEMMA InitColumnsTyped == Init => ColumnsTyped
BY IdleTyped DEF Init, ColumnsTyped, Labels

LEMMA ForgetTyped ==
  ASSUME ColumnsTyped, NEW c \in Connections, Forget(c)
  PROVE  /\ owner' \in [Keys -> Connections \cup {NoConnection}]
         /\ pc' \in [Connections -> Labels]
         /\ call' \in [Connections -> CallType]
BY IdleTyped DEF Forget, GoTo, Learn, ColumnsTyped, Labels

LEMMA ViewTyped ==
  ASSUME ColumnsTyped, NEW c \in Connections, NEW k \in Keys
  PROVE  View(c, k) \in Statuses \cup {"none"}
BY DEF View, ColumnsTyped

-----------------------------------------------------------------------------
(***************************************************************************)
(* What others have found and written stays as it is.                      *)
(***************************************************************************)
\* A step of c: it takes edges nobody holds, commits only what it holds, and
\* neither removes an edge nor takes a decision back.
Respects(c) ==
  \A k \in Keys : /\ owner[k] \notin {NoConnection, c} => owner'[k] = owner[k] /\ draft'[k] = draft[k]
                  /\ owner'[k] \in {owner[k], NoConnection, c}
                  /\ owner[k] # c => status'[k] = status[k]
                  /\ status[k] # "none" => status'[k] # "none"
                  /\ status[k] \in Decisions => status'[k] \in Decisions

SameCall(d) ==
  /\ pc'[d] = pc[d]
  /\ call'[d].kind = call[d].kind /\ call'[d].status = call[d].status
  /\ call'[d].pairs = call[d].pairs /\ call'[d].key = call[d].key
  /\ call'[d].edges = call[d].edges /\ call'[d].nodes = call[d].nodes
  /\ call'[d].similar = call[d].similar /\ call'[d].todo = call[d].todo
  /\ call'[d].listed = call[d].listed /\ call'[d].before = call[d].before
  /\ call[d].contested => call'[d].contested

OthersStay(c) == \A d \in Connections \ {c} : SameCall(d)

LEMMA HeldIsOK ==
  ASSUME ReviewInv, NEW c \in Connections, NEW k \in Keys, owner[k] = c
  PROVE  HeldOK(c, k)
BY DEF ReviewInv, DraftsHeld

LEMMA HoldsNothing ==
  ASSUME ReviewInv, NEW c \in Connections,
         pc[c] \notin {"approve", "commit"} \/ call[c].kind \in {"none", "scan"}
  PROVE  \A k \in Keys : owner[k] # c /\ View(c, k) = status[k]
BY HeldIsOK DEF HeldOK, View

LEMMA OthersHoldTheSame ==
  ASSUME ReviewInv, NEW c \in Connections, Respects(c),
         NEW d \in Connections \ {c}, NEW k \in Keys
  PROVE  /\ owner[k] = d => owner'[k] = d /\ draft'[k] = draft[k] /\ status'[k] = status[k]
         /\ owner'[k] = d => owner[k] = d
BY ReviewAssumption DEF ReviewAssumption, Respects

LEMMA LinksStay ==
  ASSUME NEW c \in Connections, Respects(c), NEW p
  PROVE  Unlinked(p)' => Unlinked(p)
BY DEF Respects, Unlinked, Edges

\* An uncontested call's reading that its pair has no edge stays true.
LEMMA ReadingStays ==
  ASSUME ReviewInv, NEW c \in Connections, Respects(c),
         NEW d \in Connections \ {c}, pc[d] # "idle", ~call[d].contested,
         NEW p \in call[d].pairs, Unlinked(p)
  PROVE  Unlinked(p)'
<1> SUFFICES ASSUME NEW k \in Keys, PairOf(k) = p, status'[k] # "none" PROVE FALSE
  BY DEF Unlinked, Edges
<1>1. status[k] = "none"
  BY DEF Unlinked, Edges
<1>2. owner[k] = c
  BY <1>1 DEF Respects
<1>3. pc[c] # "idle" /\ p \in call[c].pairs
  BY <1>2, HeldIsOK DEF HeldOK
<1>4. QED
  BY <1>3 DEF ReviewInv, Rivals

LEMMA OthersHeldKept ==
  ASSUME ReviewInv, NEW c \in Connections, Respects(c), OthersStay(c),
         NEW d \in Connections \ {c}, NEW k \in Keys, owner'[k] = d
  PROVE  HeldOK(d, k)'
<1>1. owner[k] = d /\ draft'[k] = draft[k] /\ status'[k] = status[k]
  BY OthersHoldTheSame
<1>2. HeldOK(d, k)
  BY <1>1, HeldIsOK
<1>3. SameCall(d)
  BY DEF OthersStay
<1>4. ~call[d].contested /\ Unlinked(PairOf(k)) => Unlinked(PairOf(k))'
  BY <1>2, ReadingStays DEF HeldOK
<1>5. PairOf(k)' = PairOf(k) /\ FromIssue(k)' = FromIssue(k)
  BY DEF PairOf, FromIssue
<1>6. QED
  BY <1>1, <1>2, <1>3, <1>4 DEF HeldOK, SameCall

LEMMA OthersCallKept ==
  ASSUME ReviewInv, NEW c \in Connections, Respects(c), OthersStay(c),
         NEW d \in Connections \ {c}
  PROVE  CallOK(d)'
<1>1. CallOK(d) /\ SameCall(d) /\ call[d] \in CallType
  BY DEF ReviewInv, OthersStay, ColumnsTyped
<1>2. pc[d] # "idle" /\ ~call[d].contested
        => \A p \in call[d].pairs : Unlinked(p) => Unlinked(p)'
  BY ReadingStays
<1>3. \A p : Unlinked(p)' => Unlinked(p)
  BY LinksStay
<1>4. \A k \in Keys : /\ status[k] # "none" => status'[k] # "none"
                      /\ owner[k] = d <=> owner'[k] = d
  BY OthersHoldTheSame DEF Respects
<1>5. call[d].edges \subseteq Keys
  BY <1>1 DEF CallType
<1>6. PairOf(call[d].key)' = PairOf(call[d].key)
  BY <1>1 DEF SameCall, PairOf
<1>7. QED
  BY <1>1, <1>2, <1>3, <1>4, <1>5, <1>6 DEF CallOK, SameCall, FromIssue

LEMMA OthersScanKept ==
  ASSUME ReviewInv, NEW c \in Connections, Respects(c), OthersStay(c),
         NEW d \in Connections \ {c}
  PROVE  ScanOK(d)'
<1>1. ScanOK(d) /\ SameCall(d)
  BY DEF ReviewInv, OthersStay
<1>2. \A p : Unlinked(p)' => Unlinked(p)
  BY LinksStay
<1>3. \A p : (\E k \in Edges(p) : status[k] \in Decisions) => \E k \in Edges(p) : status'[k] \in Decisions
  BY DEF Respects, Edges
<1>4. QED
  BY <1>1, <1>2, <1>3 DEF ScanOK, SameCall

-----------------------------------------------------------------------------
(***************************************************************************)
(* One step.                                                               *)
(***************************************************************************)
\* What is left to show for the connection that takes the step.
StepOK(c) == /\ ColumnsTyped'
             /\ Respects(c) /\ OthersStay(c)
             /\ \A k \in Keys : owner'[k] = c => HeldOK(c, k)'
             /\ \A k \in Keys : owner'[k] = NoConnection => draft'[k] = status'[k]
             /\ CallOK(c)' /\ ScanOK(c)'
             /\ Rivals'

LEMMA StepKeepsOthers ==
  ASSUME ReviewInv, NEW c \in Connections, StepOK(c)
  PROVE  DraftsHeld' /\ \A d \in Connections : CallOK(d)' /\ ScanOK(d)'
<1>1. ASSUME NEW d \in Connections PROVE CallOK(d)' /\ ScanOK(d)'
  BY OthersCallKept, OthersScanKept DEF StepOK
<1>2. ASSUME NEW k \in Keys, NEW d \in Connections, owner'[k] = d PROVE HeldOK(d, k)'
  BY <1>2, OthersHeldKept DEF StepOK
<1>3. QED
  BY <1>1, <1>2 DEF DraftsHeld, StepOK

LEMMA StatementInv ==
  ASSUME ReviewInv, NEW c \in Connections, StepOK(c), UNCHANGED <<status, verdict, loose>>
  PROVE  ReviewInv'
<1>1. IssueEdges' /\ DecisionRecorded' /\ \A p \in Pairs \ loose' : AtMostOne(p)'
  BY DEF ReviewInv, IssueEdges, DecisionRecorded, AtMostOne
<1>2. QED
  BY <1>1, StepKeepsOthers DEF ReviewInv, StepOK

\* A statement that writes nothing.
LEMMA QuietStep ==
  ASSUME ReviewInv, NEW c \in Connections, UNCHANGED dbVars
  PROVE  /\ Respects(c)
         /\ \A k \in Keys : owner'[k] = NoConnection => draft'[k] = status'[k]
BY DEF dbVars, Respects, ReviewInv, DraftsHeld

\* A statement that writes one edge nobody else holds.
LEMMA WriteStep ==
  ASSUME ReviewInv, NEW c \in Connections, NEW k \in Keys, NEW s \in Statuses,
         Unlocked(c, k), Write(c, k, s), UNCHANGED status
  PROVE  /\ Respects(c)
         /\ \A e \in Keys : owner'[e] = NoConnection => draft'[e] = status'[e]
         /\ draft' \in [Keys -> Statuses \cup {"none"}]
         /\ owner' \in [Keys -> Connections \cup {NoConnection}]
         /\ owner'[k] = c /\ draft'[k] = s
         /\ \A e \in Keys \ {k} : owner'[e] = owner[e] /\ draft'[e] = draft[e]
<1>1. /\ draft' = [draft EXCEPT ![k] = s] /\ owner' = [owner EXCEPT ![k] = c]
      /\ draft \in [Keys -> Statuses \cup {"none"}]
      /\ owner \in [Keys -> Connections \cup {NoConnection}]
  BY DEF Write, ReviewInv, ColumnsTyped
<1>2. owner[k] \in {NoConnection, c} /\ c # NoConnection
  BY ReviewAssumption DEF Unlocked, ReviewAssumption
<1>3. \A e \in Keys : owner[e] = NoConnection => draft[e] = status[e]
  BY DEF ReviewInv, DraftsHeld
<1>4. QED
  BY <1>1, <1>2, <1>3 DEF Respects

\* A statement changes what its own call knows, never what is contested.
LEMMA LearnStep ==
  ASSUME ReviewInv, NEW c \in Connections, NEW new \in CallType, NEW label \in Labels,
         GoTo(c, label), Learn(c, new), pc[c] # "idle",
         new.pairs = call[c].pairs, new.contested = call[c].contested
  PROVE  /\ pc' \in [Connections -> Labels] /\ call' \in [Connections -> CallType]
         /\ pc'[c] = label /\ call'[c] = new
         /\ OthersStay(c)
         /\ Rivals'
<1>1. /\ pc' = [pc EXCEPT ![c] = label] /\ call' = [call EXCEPT ![c] = new]
      /\ pc \in [Connections -> Labels] /\ call \in [Connections -> CallType]
  BY DEF GoTo, Learn, ReviewInv, ColumnsTyped
<1>2. pc'[c] = label /\ call'[c] = new
  BY <1>1
<1>3. \A d \in Connections \ {c} : pc'[d] = pc[d] /\ call'[d] = call[d]
  BY <1>1
<1>4. OthersStay(c)
  BY <1>3 DEF OthersStay, SameCall
<1>5. Rivals'
  BY <1>2, <1>3 DEF ReviewInv, Rivals
<1>6. QED
  BY <1>1, <1>2, <1>4, <1>5

-----------------------------------------------------------------------------
(***************************************************************************)
(* Beginning a call.                                                       *)
(***************************************************************************)
LEMMA BeginStep ==
  ASSUME ReviewInv, NEW c \in Connections, NEW new \in CallType, NEW label \in Labels,
         Begin(c, new, label)
  PROVE  /\ ColumnsTyped'
         /\ Respects(c) /\ OthersStay(c)
         /\ \A k \in Keys : owner'[k] = c => HeldOK(c, k)'
         /\ \A k \in Keys : owner'[k] = NoConnection => draft'[k] = status'[k]
         /\ Rivals'
         /\ UNCHANGED <<dbVars, verdict, loose>>
         /\ pc'[c] = label
         /\ \E x \in BOOLEAN : call'[c] = [new EXCEPT !.contested = x]
<1> DEFINE rivals == {d \in Connections : pc[d] # "idle" /\ call[d].pairs \cap new.pairs # {}}
<1>1. /\ pc[c] = "idle"
      /\ pc' = [pc EXCEPT ![c] = label]
      /\ call' = [d \in Connections |->
                    IF d = c THEN [new EXCEPT !.contested = rivals # {}]
                    ELSE [call[d] EXCEPT !.contested = @ \/ d \in rivals]]
      /\ UNCHANGED <<dbVars, verdict, loose>>
  BY DEF Begin, GoTo
<1>2. ColumnsTyped
  BY DEF ReviewInv
<1>3. /\ pc'[c] = label
      /\ call'[c] = [new EXCEPT !.contested = rivals # {}]
      /\ \A d \in Connections \ {c} :
           pc'[d] = pc[d] /\ call'[d] = [call[d] EXCEPT !.contested = @ \/ d \in rivals]
  BY <1>1, <1>2 DEF ColumnsTyped
<1> HIDE DEF rivals
<1>4. (rivals # {}) \in BOOLEAN
  OBVIOUS
<1>5. call'[c] \in CallType /\ call'[c].pairs = new.pairs /\ call'[c].contested = (rivals # {})
  BY <1>3, <1>4 DEF CallType
<1>6. ASSUME NEW d \in Connections \ {c}
      PROVE  /\ call'[d] \in CallType /\ SameCall(d)
             /\ call'[d].pairs = call[d].pairs
             /\ call'[d].contested = (call[d].contested \/ d \in rivals)
  <2>1. call[d] \in CallType /\ (call[d].contested \/ d \in rivals) \in BOOLEAN
    BY <1>2 DEF ColumnsTyped
  <2>2. call'[d] = [call[d] EXCEPT !.contested = call[d].contested \/ d \in rivals]
    BY <1>3
  <2>3. QED
    BY <1>3, <2>1, <2>2 DEF CallType, SameCall
<1>7. ColumnsTyped'
  <2>1. call' \in [Connections -> CallType]
    <3>1. \A d \in Connections : call'[d] \in CallType
      BY <1>5, <1>6
    <3>2. call' = [d \in Connections |-> call'[d]]
      BY <1>1
    <3>3. QED
      BY <3>1, <3>2
  <2>2. QED
    BY <1>1, <1>2, <2>1 DEF ColumnsTyped, dbVars
<1>8. OthersStay(c)
  BY <1>6 DEF OthersStay
<1>9. \A k \in Keys : owner'[k] # c
  BY <1>1, HoldsNothing DEF dbVars
<1>10. Rivals'
  <2> SUFFICES ASSUME NEW a \in Connections, NEW b \in Connections,
                      a # b, pc'[a] # "idle", pc'[b] # "idle",
                      call'[a].pairs \cap call'[b].pairs # {}
               PROVE  call'[a].contested
    BY DEF Rivals
  <2>1. CASE a = c
    <3>1. b \in rivals
      BY <1>3, <1>5, <1>6, <2>1 DEF rivals
    <3>2. QED
      BY <1>5, <2>1, <3>1
  <2>2. CASE b = c
    <3>1. a \in rivals
      BY <1>3, <1>5, <1>6, <2>2 DEF rivals
    <3>2. QED
      BY <1>6, <2>2, <3>1
  <2>3. CASE a # c /\ b # c
    <3>1. call[a].contested
      BY <1>3, <1>6, <2>3 DEF ReviewInv, Rivals
    <3>2. QED
      BY <1>6, <2>3, <3>1
  <2>4. QED
    BY <2>1, <2>2, <2>3
<1>11. QED
  BY <1>1, <1>3, <1>4, <1>7, <1>8, <1>9, <1>10, QuietStep

LEMMA BeginDecideStep ==
  ASSUME ReviewInv, NEW c \in Connections, NEW k \in Keys, NEW s \in Decisions, BeginDecide(c, k, s)
  PROVE  StepOK(c) /\ UNCHANGED <<status, verdict, loose>>
<1> DEFINE new == [Idle EXCEPT !.kind = "decide", !.status = s, !.pairs = {PairOf(k)}, !.key = k]
<1>1. /\ new \in CallType /\ new.kind = "decide" /\ new.status = s
      /\ new.pairs = {PairOf(k)} /\ new.key = k /\ new.edges = {}
  BY PairsOfKeys DEF Idle, CallType, Statuses, Decisions
<1> HIDE DEF new
<1>2. Begin(c, new, "find") /\ "find" \in Labels
  BY DEF BeginDecide, new, Labels
<1>3. PICK x \in BOOLEAN : call'[c] = [new EXCEPT !.contested = x]
  BY <1>1, <1>2, BeginStep
<1>4. /\ call'[c].kind = "decide" /\ call'[c].status = s /\ call'[c].pairs = {PairOf(k)}
      /\ call'[c].key = k /\ call'[c].edges = {} /\ pc'[c] = "find"
  BY <1>1, <1>2, <1>3, BeginStep DEF CallType
<1>5. UNCHANGED <<dbVars, verdict, loose>>
  BY <1>1, <1>2, BeginStep
<1>6. CallOK(c)' /\ ScanOK(c)'
  BY <1>4 DEF CallOK, ScanOK, PairOf
<1>7. QED
  BY <1>1, <1>2, <1>5, <1>6, BeginStep DEF StepOK, dbVars

\* An edge of a file and the edge of a new review are inserted alike.
LEMMA BeginInsertStep ==
  ASSUME ReviewInv, NEW c \in Connections, NEW k \in Keys, NEW s \in Statuses,
         \/ s = "APPROVED"
         \/ s = "PENDING" /\ FromIssue(k),
         Begin(c, [Idle EXCEPT !.kind = "ingest", !.status = s, !.pairs = {PairOf(k)}, !.key = k], "insert")
  PROVE  StepOK(c) /\ UNCHANGED <<status, verdict, loose>>
<1> DEFINE new == [Idle EXCEPT !.kind = "ingest", !.status = s, !.pairs = {PairOf(k)}, !.key = k]
<1>1. /\ new \in CallType /\ new.kind = "ingest" /\ new.status = s
      /\ new.pairs = {PairOf(k)} /\ new.key = k /\ new.edges = {}
  BY PairsOfKeys DEF Idle, CallType, Statuses
<1>2. Begin(c, new, "insert") /\ "insert" \in Labels
  BY DEF Labels
<1> HIDE DEF new
<1>3. PICK x \in BOOLEAN : call'[c] = [new EXCEPT !.contested = x]
  BY <1>1, <1>2, BeginStep
<1>4. /\ call'[c].kind = "ingest" /\ call'[c].status = s /\ call'[c].pairs = {PairOf(k)}
      /\ call'[c].key = k /\ call'[c].edges = {} /\ pc'[c] = "insert"
  BY <1>1, <1>2, <1>3, BeginStep DEF CallType
<1>5. CallOK(c)' /\ ScanOK(c)'
  BY <1>4 DEF CallOK, ScanOK, PairOf, FromIssue
<1>6. QED
  BY <1>1, <1>2, <1>5, BeginStep DEF StepOK, dbVars

LEMMA BeginIngestStep ==
  ASSUME ReviewInv, NEW c \in Connections, NEW k \in Keys, BeginIngest(c, k)
  PROVE  StepOK(c) /\ UNCHANGED <<status, verdict, loose>>
<1>1. "APPROVED" \in Statuses
  BY DEF Statuses
<1>2. QED
  BY <1>1, BeginInsertStep DEF BeginIngest

LEMMA BeginReviewStep ==
  ASSUME ReviewInv, NEW c \in Connections, NEW i \in Issues, NEW n \in Nodes, BeginReview(c, i, n)
  PROVE  StepOK(c) /\ UNCHANGED <<status, verdict, loose>>
<1>1. "PENDING" \in Statuses
  BY DEF Statuses
<1>2. <<i, n>> \in Keys /\ FromIssue(<<i, n>>) /\ PairOf(<<i, n>>) = {i, n}
  BY ReviewAssumption DEF ReviewAssumption, Keys, FromIssue, PairOf
<1>3. Begin(c, [Idle EXCEPT !.kind = "ingest", !.status = "PENDING", !.pairs = {PairOf(<<i, n>>)},
                            !.key = <<i, n>>], "insert")
  BY <1>2 DEF BeginReview
<1>4. QED
  BY <1>1, <1>2, <1>3, BeginInsertStep

LEMMA BeginResolveStep ==
  ASSUME ReviewInv, NEW c \in Connections, NEW n \in Nodes, BeginResolve(c, n)
  PROVE  StepOK(c) /\ UNCHANGED <<status, verdict, loose>>
<1> DEFINE new == [Idle EXCEPT !.kind = "resolve", !.status = "APPROVED",
                               !.pairs = {p \in Pairs : n \in p}, !.nodes = {n}]
<1>1. /\ new \in CallType /\ new.kind = "resolve" /\ new.status = "APPROVED"
      /\ new.pairs = {p \in Pairs : n \in p} /\ new.nodes = {n} /\ new.edges = {}
  BY DEF Idle, CallType, Statuses
<1>2. Begin(c, new, "list") /\ "list" \in Labels
  BY DEF BeginResolve, Labels
<1> HIDE DEF new
<1>3. PICK x \in BOOLEAN : call'[c] = [new EXCEPT !.contested = x]
  BY <1>1, <1>2, BeginStep
<1>4. /\ call'[c].kind = "resolve" /\ call'[c].status = "APPROVED" /\ call'[c].edges = {}
      /\ call'[c].pairs = {p \in Pairs : n \in p} /\ call'[c].nodes = {n} /\ pc'[c] = "list"
  BY <1>1, <1>2, <1>3, BeginStep DEF CallType
<1>5. \A k \in Keys : call'[c].nodes \subseteq PairOf(k) => PairOf(k) \in call'[c].pairs
  BY <1>4, PairsOfKeys
<1>6. CallOK(c)' /\ ScanOK(c)'
  BY <1>4, <1>5 DEF CallOK, ScanOK, PairOf
<1>7. QED
  BY <1>1, <1>2, <1>6, BeginStep DEF StepOK, dbVars

LEMMA BeginScanStep ==
  ASSUME ReviewInv, NEW c \in Connections, NEW similar \in SUBSET Pairs, BeginScan(c, similar)
  PROVE  StepOK(c) /\ UNCHANGED <<status, verdict, loose>>
<1> DEFINE before == {p \in Pairs : \E k \in Edges(p) : status[k] \in Decisions}
           new == [Idle EXCEPT !.kind = "scan", !.similar = similar, !.todo = similar, !.before = before]
<1>1. /\ new \in CallType /\ new.kind = "scan" /\ new.similar = similar /\ new.todo = similar
      /\ new.before = before /\ new.listed = {} /\ new.edges = {}
  BY DEF Idle, CallType
<1>2. Begin(c, new, "compare") /\ "compare" \in Labels
  BY DEF BeginScan, Labels
<1> HIDE DEF new
<1>3. PICK x \in BOOLEAN : call'[c] = [new EXCEPT !.contested = x]
  BY <1>1, <1>2, BeginStep
<1>4. /\ call'[c].kind = "scan" /\ call'[c].similar = similar /\ call'[c].todo = similar
      /\ call'[c].before = before /\ call'[c].listed = {} /\ call'[c].edges = {}
      /\ pc'[c] = "compare"
  BY <1>1, <1>2, <1>3, BeginStep DEF CallType
<1>5. status' = status
  BY <1>1, <1>2, BeginStep DEF dbVars
<1>6. \A p \in before : \E k \in Edges(p) : status'[k] \in Decisions
  BY <1>5
<1>7. \A p \in similar : p \subseteq Nodes
  BY DEF BeginScan
<1>8. CallOK(c)' /\ ScanOK(c)'
  BY <1>4, <1>6, <1>7 DEF CallOK, ScanOK
<1>9. QED
  BY <1>1, <1>2, <1>8, BeginStep DEF StepOK, dbVars

-----------------------------------------------------------------------------
(***************************************************************************)
(* The statements before the commit.                                       *)
(***************************************************************************)
LEMMA FindStep ==
  ASSUME ReviewInv, NEW c \in Connections, Find(c)
  PROVE  StepOK(c) /\ UNCHANGED <<status, verdict, loose>>
<1>0. PICK p : p = PairOf(call[c].key)
  OBVIOUS
<1>1. /\ pc[c] = "find" /\ UNCHANGED <<dbVars, calls, verdict, loose>>
      /\ ColumnsTyped /\ CallOK(c)
  BY DEF Find, ReviewInv
<1>2. /\ call[c] \in CallType /\ call[c].kind = "decide" /\ call[c].key \in Keys
      /\ call[c].pairs = {p} /\ call[c].status \in Decisions
  BY <1>0, <1>1 DEF CallOK, ColumnsTyped
<1>3. \A k \in Keys : owner[k] # c /\ View(c, k) = status[k]
  BY <1>1, HoldsNothing
<1>4. Visible(c, p) = {k \in Edges(p) : status[k] # "none"}
  BY <1>3 DEF Visible, Edges
<1>5. CASE Visible(c, p) = {} /\ GoTo(c, "insert") /\ UNCHANGED call
  <2>1. Unlinked(p) /\ Unlinked(p)'
    BY <1>0, <1>1, <1>2, <1>4, <1>5 DEF Unlinked, CallOK, dbVars
  <2>2. Learn(c, call[c])
    BY <1>1, <1>5 DEF Learn, ColumnsTyped
  <2>3. /\ pc'[c] = "insert" /\ OthersStay(c) /\ Rivals' /\ ColumnsTyped'
    BY <1>1, <1>2, <1>5, <2>2, LearnStep DEF Labels, ColumnsTyped, dbVars
  <2>4. CallOK(c)' /\ ScanOK(c)'
    BY <1>0, <1>1, <1>2, <1>5, <2>1, <2>3 DEF CallOK, ScanOK, PairOf
  <2>5. QED
    BY <1>1, <1>3, <2>3, <2>4, QuietStep DEF StepOK, dbVars
<1>6. ASSUME NEW k \in Visible(c, p), GoTo(c, "update"), Learn(c, [call[c] EXCEPT !.edges = {k}])
      PROVE  StepOK(c)
  <2>1. k \in Keys /\ PairOf(k) = p /\ status[k] # "none"
    BY <1>4 DEF Edges
  <2>2. [call[c] EXCEPT !.edges = {k}] \in CallType
    BY <1>2, <2>1 DEF CallType
  <2>3. /\ pc'[c] = "update" /\ OthersStay(c) /\ Rivals' /\ ColumnsTyped'
        /\ call'[c] = [call[c] EXCEPT !.edges = {k}]
    BY <1>1, <1>2, <1>6, <2>2, LearnStep DEF Labels, ColumnsTyped, dbVars, CallType
  <2>4. /\ call'[c].kind = "decide" /\ call'[c].status = call[c].status /\ call'[c].key = call[c].key
        /\ call'[c].pairs = {p} /\ call'[c].edges = {k}
    BY <1>2, <2>3 DEF CallType
  <2>5. CallOK(c)' /\ ScanOK(c)'
    BY <1>0, <1>1, <1>2, <2>1, <2>3, <2>4 DEF CallOK, ScanOK, PairOf, dbVars
  <2>6. QED
    BY <1>1, <1>3, <2>3, <2>5, QuietStep DEF StepOK, dbVars
<1>7. QED
  BY <1>0, <1>1, <1>5, <1>6 DEF Find, dbVars

LEMMA InsertStep ==
  ASSUME ReviewInv, NEW c \in Connections, Insert(c)
  PROVE  StepOK(c) /\ UNCHANGED <<status, verdict, loose>>
<1>0. PICK k : k = call[c].key
  OBVIOUS
<1>1. /\ pc[c] = "insert" /\ Unlocked(c, k) /\ UNCHANGED <<status, verdict, loose>>
      /\ GoTo(c, "commit") /\ Learn(c, [call[c] EXCEPT !.edges = {k}])
      /\ ColumnsTyped /\ CallOK(c)
  BY <1>0 DEF Insert, ReviewInv
<1>2. /\ call[c] \in CallType /\ call[c].kind \in {"decide", "ingest"} /\ k \in Keys
      /\ call[c].pairs = {PairOf(k)} /\ call[c].status \in Statuses
  BY <1>0, <1>1 DEF CallOK, ColumnsTyped, Decisions, Statuses
<1>3. \A e \in Keys : owner[e] # c
  BY <1>1, HoldsNothing
<1>4. owner[k] = NoConnection /\ draft[k] = status[k]
  BY <1>1, <1>2, <1>3 DEF Unlocked, ReviewInv, DraftsHeld
<1>5. [call[c] EXCEPT !.edges = {k}] \in CallType
  BY <1>2 DEF CallType
<1>6. /\ pc' \in [Connections -> Labels] /\ call' \in [Connections -> CallType]
      /\ pc'[c] = "commit" /\ OthersStay(c) /\ Rivals'
      /\ call'[c] = [call[c] EXCEPT !.edges = {k}]
  BY <1>1, <1>2, <1>5, LearnStep DEF Labels, CallType
<1>7. /\ call'[c].kind = call[c].kind /\ call'[c].status = call[c].status /\ call'[c].key = k
      /\ call'[c].pairs = {PairOf(k)} /\ call'[c].edges = {k} /\ call'[c].contested = call[c].contested
  BY <1>0, <1>2, <1>6 DEF CallType
<1>8. /\ call[c].kind = "decide" /\ ~call[c].contested => Unlinked(PairOf(k))
      /\ call[c].kind = "decide" => call[c].status \in Decisions
      /\ call[c].status = "PENDING" => FromIssue(k)
  BY <1>0, <1>1, <1>2 DEF CallOK, Decisions
<1>9. ScanOK(c)'
  BY <1>2, <1>7 DEF ScanOK
<1>10. CASE draft[k] = "none"
  <2>1. Write(c, k, call[c].status)
    BY <1>0, <1>10 DEF Insert
  <2>2. /\ Respects(c)
        /\ \A e \in Keys : owner'[e] = NoConnection => draft'[e] = status'[e]
        /\ draft' \in [Keys -> Statuses \cup {"none"}]
        /\ owner' \in [Keys -> Connections \cup {NoConnection}]
        /\ owner'[k] = c /\ draft'[k] = call[c].status
        /\ \A e \in Keys \ {k} : owner'[e] = owner[e] /\ draft'[e] = draft[e]
    BY <1>1, <1>2, <2>1, WriteStep
  <2>3. ColumnsTyped'
    BY <1>1, <1>6, <2>2 DEF ColumnsTyped
  <2>4. Unlinked(PairOf(k))' <=> Unlinked(PairOf(k))
    BY <1>1 DEF Unlinked
  <2>5. HeldOK(c, k)'
    BY <1>1, <1>2, <1>4, <1>6, <1>7, <1>8, <1>10, <2>2, <2>4
       DEF HeldOK, Statuses, Decisions, PairOf, FromIssue
  <2>6. \A e \in Keys : owner'[e] = c => HeldOK(c, e)'
    BY <1>3, <2>2, <2>5
  <2>7. CallOK(c)'
    BY <1>0, <1>1, <1>2, <1>6, <1>7, <1>8, <2>2 DEF CallOK, PairOf, FromIssue
  <2>8. QED
    BY <1>1, <1>6, <1>9, <2>2, <2>3, <2>6, <2>7 DEF StepOK
<1>11. CASE draft[k] # "none"
  <2>1. UNCHANGED dbVars
    BY <1>0, <1>1, <1>11 DEF Insert, dbVars
  <2>2. call[c].kind = "decide" => call[c].contested
    BY <1>2, <1>4, <1>8, <1>11 DEF Unlinked, Edges
  <2>3. CallOK(c)'
    BY <1>0, <1>1, <1>2, <1>3, <1>6, <1>7, <1>8, <2>1, <2>2 DEF CallOK, PairOf, FromIssue, dbVars
  <2>4. QED
    BY <1>1, <1>3, <1>6, <1>9, <2>1, <2>3, QuietStep DEF StepOK, ColumnsTyped, dbVars
<1>12. QED
  BY <1>1, <1>10, <1>11

LEMMA UpdateStep ==
  ASSUME ReviewInv, NEW c \in Connections, Update(c)
  PROVE  StepOK(c) /\ UNCHANGED <<status, verdict, loose>>
<1>1. /\ pc[c] = "update" /\ UNCHANGED <<status, call, verdict, loose>> /\ GoTo(c, "commit")
      /\ ColumnsTyped /\ CallOK(c)
  BY DEF Update, ReviewInv
<1>2. PICK k \in call[c].edges : Unlocked(c, k) /\ Write(c, k, call[c].status)
  BY DEF Update
<1>3. /\ call[c] \in CallType /\ call[c].kind = "decide" /\ call[c].status \in Decisions
      /\ \A e \in call[c].edges : e = k
      /\ k \in Keys /\ status[k] # "none" /\ PairOf(k) \in call[c].pairs
  BY <1>1, <1>2 DEF CallOK, ColumnsTyped, CallType
<1>4. call[c].status \in Statuses
  BY <1>3 DEF Statuses, Decisions
<1>5. /\ Respects(c)
      /\ \A e \in Keys : owner'[e] = NoConnection => draft'[e] = status'[e]
      /\ draft' \in [Keys -> Statuses \cup {"none"}]
      /\ owner' \in [Keys -> Connections \cup {NoConnection}]
      /\ owner'[k] = c /\ draft'[k] = call[c].status
      /\ \A e \in Keys \ {k} : owner'[e] = owner[e] /\ draft'[e] = draft[e]
  BY <1>1, <1>2, <1>3, <1>4, WriteStep
<1>6. Learn(c, call[c])
  BY <1>1 DEF Learn, ColumnsTyped
<1>7. pc' \in [Connections -> Labels] /\ pc'[c] = "commit" /\ OthersStay(c) /\ Rivals'
  BY <1>1, <1>3, <1>6, LearnStep DEF Labels
<1>8. ColumnsTyped'
  BY <1>1, <1>5, <1>7 DEF ColumnsTyped
<1>9. HeldOK(c, k)'
  BY <1>1, <1>2, <1>3, <1>5, <1>7 DEF HeldOK, Decisions, PairOf
<1>10. \A e \in Keys : owner[e] # c
  BY <1>1, HoldsNothing
<1>11. \A e \in Keys : owner'[e] = c => HeldOK(c, e)'
  BY <1>5, <1>9, <1>10
<1>12. CallOK(c)' /\ ScanOK(c)'
  BY <1>1, <1>3, <1>5, <1>7 DEF CallOK, ScanOK, PairOf, Unlinked
<1>13. QED
  BY <1>1, <1>5, <1>7, <1>8, <1>11, <1>12 DEF StepOK

LEMMA ListPendingStep ==
  ASSUME ReviewInv, NEW c \in Connections, ListPending(c)
  PROVE  StepOK(c) /\ UNCHANGED <<status, verdict, loose>>
<1>0. PICK pending : pending = {k \in Keys : call[c].nodes \subseteq PairOf(k) /\ View(c, k) = "PENDING"}
  OBVIOUS
<1>1. /\ pc[c] = "list" /\ UNCHANGED <<dbVars, verdict, loose>>
      /\ GoTo(c, IF pending = {} THEN "commit" ELSE "approve")
      /\ Learn(c, [call[c] EXCEPT !.todo = pending])
      /\ ColumnsTyped /\ CallOK(c)
  BY <1>0 DEF ListPending, ReviewInv
<1>2. /\ call[c] \in CallType /\ call[c].kind = "resolve" /\ call[c].status = "APPROVED"
      /\ call[c].edges = {}
      /\ \A k \in Keys : call[c].nodes \subseteq PairOf(k) => PairOf(k) \in call[c].pairs
  BY <1>1 DEF CallOK, ColumnsTyped
<1>3. \A k \in Keys : owner[k] # c /\ View(c, k) = status[k]
  BY <1>1, HoldsNothing
<1>4. \A k \in pending : k \in Keys /\ status[k] # "none" /\ PairOf(k) \in call[c].pairs
  BY <1>0, <1>2, <1>3
<1>5. [call[c] EXCEPT !.todo = pending] \in CallType
  BY <1>2, <1>4 DEF CallType
<1>6. /\ pc' \in [Connections -> Labels] /\ call' \in [Connections -> CallType]
      /\ pc'[c] = (IF pending = {} THEN "commit" ELSE "approve") /\ OthersStay(c) /\ Rivals'
      /\ call'[c] = [call[c] EXCEPT !.todo = pending]
  BY <1>1, <1>2, <1>5, LearnStep DEF Labels, CallType
<1>7. /\ call'[c].kind = "resolve" /\ call'[c].status = "APPROVED" /\ call'[c].edges = {}
      /\ call'[c].nodes = call[c].nodes /\ call'[c].pairs = call[c].pairs /\ call'[c].todo = pending
  BY <1>2, <1>6 DEF CallType
<1>8. CallOK(c)' /\ ScanOK(c)'
  BY <1>1, <1>2, <1>4, <1>6, <1>7 DEF CallOK, ScanOK, PairOf, dbVars
<1>9. QED
  BY <1>1, <1>3, <1>6, <1>8, QuietStep DEF StepOK, ColumnsTyped, dbVars

LEMMA ApprovePendingStep ==
  ASSUME ReviewInv, NEW c \in Connections, NEW k \in Keys, ApprovePending(c, k)
  PROVE  StepOK(c) /\ UNCHANGED <<status, verdict, loose>>
<1>0. PICK old : old = call[c]
  OBVIOUS
<1> DEFINE new == [old EXCEPT !.todo = @ \ {k}, !.edges = @ \cup {k}]
<1>1. /\ pc[c] = "approve" /\ k \in old.todo /\ Unlocked(c, k) /\ Write(c, k, "APPROVED")
      /\ UNCHANGED <<status, verdict, loose>>
      /\ GoTo(c, IF old.todo = {k} THEN "commit" ELSE "approve") /\ Learn(c, new)
      /\ ColumnsTyped /\ CallOK(c)
  BY <1>0 DEF ApprovePending, ReviewInv
<1>2. /\ old \in CallType /\ old.kind = "resolve" /\ old.status = "APPROVED"
      /\ \A e \in Keys : old.nodes \subseteq PairOf(e) => PairOf(e) \in old.pairs
      /\ \A e \in old.todo : e \in Keys /\ status[e] # "none" /\ PairOf(e) \in old.pairs
      /\ \A e \in old.edges : owner[e] = c
  BY <1>0, <1>1 DEF CallOK, ColumnsTyped
<1>3. /\ new \in CallType /\ new.kind = "resolve" /\ new.status = "APPROVED"
      /\ new.nodes = old.nodes /\ new.pairs = old.pairs /\ new.todo = old.todo \ {k}
      /\ new.edges = old.edges \cup {k} /\ new.contested = old.contested
  BY <1>2 DEF CallType
<1> HIDE DEF new
<1>4. /\ Respects(c)
      /\ \A e \in Keys : owner'[e] = NoConnection => draft'[e] = status'[e]
      /\ draft' \in [Keys -> Statuses \cup {"none"}]
      /\ owner' \in [Keys -> Connections \cup {NoConnection}]
      /\ owner'[k] = c /\ draft'[k] = "APPROVED"
      /\ \A e \in Keys \ {k} : owner'[e] = owner[e] /\ draft'[e] = draft[e]
  <2>1. "APPROVED" \in Statuses
    BY DEF Statuses
  <2>2. QED
    BY <1>1, <2>1, WriteStep
<1>5. /\ pc' \in [Connections -> Labels] /\ call' \in [Connections -> CallType]
      /\ pc'[c] = (IF old.todo = {k} THEN "commit" ELSE "approve")
      /\ OthersStay(c) /\ Rivals' /\ call'[c] = new
  BY <1>0, <1>1, <1>3, LearnStep DEF Labels
<1>6. ColumnsTyped'
  BY <1>1, <1>4, <1>5 DEF ColumnsTyped
<1>7. HeldOK(c, k)'
  BY <1>1, <1>2, <1>3, <1>4, <1>5 DEF HeldOK, Decisions, PairOf
<1>8. ASSUME NEW e \in Keys \ {k}, owner'[e] = c PROVE HeldOK(c, e)'
  <2>1. HeldOK(c, e) /\ draft'[e] = draft[e]
    BY <1>4, <1>8, HeldIsOK
  <2>2. QED
    BY <1>0, <1>1, <1>2, <1>3, <1>5, <2>1 DEF HeldOK, PairOf, FromIssue
<1>9. \A e \in call'[c].edges : owner'[e] = c
  <2>1. old.edges \subseteq Keys
    BY <1>2 DEF CallType
  <2>2. QED
    BY <1>2, <1>3, <1>4, <1>5, <2>1
<1>10. CallOK(c)' /\ ScanOK(c)'
  BY <1>1, <1>2, <1>3, <1>5, <1>9 DEF CallOK, ScanOK, PairOf
<1>11. QED
  BY <1>1, <1>4, <1>5, <1>6, <1>7, <1>8, <1>10 DEF StepOK

\* Nodes that are scanned have no PENDING edge between them.
LEMMA ScannedIsDecided ==
  ASSUME ReviewInv, NEW k \in Keys, PairOf(k) \subseteq Nodes PROVE status[k] # "PENDING"
BY ReviewAssumption DEF ReviewInv, IssueEdges, FromIssue, ReviewAssumption, PairOf

LEMMA CompareStep ==
  ASSUME ReviewInv, NEW c \in Connections, NEW p \in Pairs, Compare(c, p)
  PROVE  StepOK(c) /\ UNCHANGED <<status, verdict, loose>>
<1>0. PICK old : old = call[c]
  OBVIOUS
<1>1. /\ pc[c] = "compare" /\ p \in old.todo /\ UNCHANGED <<dbVars, pc, verdict, loose>>
      /\ ColumnsTyped /\ CallOK(c) /\ ScanOK(c)
  BY <1>0 DEF Compare, ReviewInv
<1>2. old \in CallType /\ old.kind = "scan" /\ old.edges = {}
  BY <1>0, <1>1 DEF CallOK, ScanOK, ColumnsTyped
<1>3. \A k \in Keys : owner[k] # c /\ View(c, k) = status[k]
  BY <1>0, <1>2, HoldsNothing
<1>4. Visible(c, p) = {k \in Edges(p) : status[k] # "none"}
  BY <1>3 DEF Visible, Edges
<1>5. PICK new : /\ Learn(c, new)
                 /\ \/ new = [old EXCEPT !.todo = @ \ {p}, !.listed = @ \cup {p}]
                       /\ \/ Visible(c, p) = {}
                          \/ \E k \in Visible(c, p) : View(c, k) \notin Decisions
                    \/ new = [old EXCEPT !.todo = @ \ {p}]
                       /\ \E k \in Visible(c, p) : View(c, k) \in Decisions
  BY <1>0 DEF Compare
<1>6. /\ new \in CallType /\ new.kind = "scan" /\ new.edges = {} /\ new.pairs = old.pairs
      /\ new.similar = old.similar /\ new.before = old.before /\ new.contested = old.contested
      /\ new.todo = old.todo \ {p} /\ new.listed \in {old.listed, old.listed \cup {p}}
  <2>1. CASE new = [old EXCEPT !.todo = @ \ {p}, !.listed = @ \cup {p}]
    BY <1>2, <2>1 DEF CallType
  <2>2. CASE new = [old EXCEPT !.todo = @ \ {p}]
    BY <1>2, <2>2 DEF CallType
  <2>3. QED
    BY <1>5, <2>1, <2>2
<1>7. p \in new.listed \ old.listed => p \notin old.before
  <2> SUFFICES ASSUME p \in new.listed, p \notin old.listed, p \in old.before PROVE FALSE
    OBVIOUS
  <2>1. PICK j \in Edges(p) : status[j] \in Decisions
    BY <1>0, <1>1, <1>2 DEF ScanOK
  <2>2. j \in Keys /\ PairOf(j) = p /\ status[j] # "none"
    BY <2>1 DEF Edges, Decisions
  <2>3. PICK k \in Visible(c, p) : View(c, k) \notin Decisions
    BY <1>2, <1>4, <1>5, <2>1, <2>2 DEF CallType
  <2>4. k \in Keys /\ PairOf(k) = p /\ status[k] = "PENDING"
    BY <1>1, <1>3, <1>4, <2>3 DEF Edges, ColumnsTyped, Statuses, Decisions
  <2>5. p \subseteq Nodes
    BY <1>0, <1>1, <1>2 DEF ScanOK
  <2>6. QED
    BY <2>4, <2>5, ScannedIsDecided
<1>8. Unlinked(p) => p \in new.listed
  <2>1. CASE new = [old EXCEPT !.todo = @ \ {p}, !.listed = @ \cup {p}]
    BY <1>2, <2>1 DEF CallType
  <2>2. CASE \E k \in Visible(c, p) : View(c, k) \in Decisions
    BY <1>4, <2>2 DEF Unlinked
  <2>3. QED
    BY <1>5, <2>1, <2>2
<1>9. GoTo(c, "compare")
  BY <1>1 DEF GoTo, ColumnsTyped
<1>10. /\ pc'[c] = "compare" /\ call' \in [Connections -> CallType]
       /\ OthersStay(c) /\ Rivals' /\ call'[c] = new
  BY <1>0, <1>1, <1>5, <1>6, <1>9, LearnStep DEF Labels
<1>11. ScanOK(c)'
  <2>1. \A q : /\ Unlinked(q)' <=> Unlinked(q)
               /\ (\E k \in Edges(q) : status[k] \in Decisions)
                    => \E k \in Edges(q) : status'[k] \in Decisions
    BY <1>1 DEF Unlinked, dbVars
  <2>2. new.listed \cap new.before = {}
    BY <1>0, <1>1, <1>2, <1>6, <1>7 DEF ScanOK
  <2>3. \A q \in new.similar \ new.todo : Unlinked(q) => q \in new.listed
    BY <1>0, <1>1, <1>2, <1>6, <1>8 DEF ScanOK
  <2>4. \A q \in new.before : \E k \in Edges(q) : status'[k] \in Decisions
    BY <1>0, <1>1, <1>2, <1>6, <2>1 DEF ScanOK
  <2>5. \A q \in new.todo : q \subseteq Nodes
    BY <1>0, <1>1, <1>2, <1>6 DEF ScanOK
  <2>6. QED
    BY <1>6, <1>10, <2>1, <2>2, <2>3, <2>4, <2>5 DEF ScanOK
<1>12. CallOK(c)'
  BY <1>6, <1>10 DEF CallOK
<1>13. QED
  BY <1>1, <1>3, <1>10, <1>11, <1>12, QuietStep DEF StepOK, ColumnsTyped, dbVars

LEMMA ScanEndStep ==
  ASSUME ReviewInv, NEW c \in Connections, ScanEnd(c)
  PROVE  StepOK(c) /\ UNCHANGED <<status, verdict, loose>>
<1>1. /\ pc[c] = "compare" /\ call[c].todo = {} /\ UNCHANGED <<dbVars, call, verdict, loose>>
      /\ GoTo(c, "commit") /\ ColumnsTyped /\ CallOK(c) /\ ScanOK(c)
  BY DEF ScanEnd, ReviewInv
<1>2. call[c] \in CallType /\ call[c].kind = "scan"
  BY <1>1 DEF CallOK, ColumnsTyped
<1>3. Learn(c, call[c])
  BY <1>1 DEF Learn, ColumnsTyped
<1>4. pc' \in [Connections -> Labels] /\ pc'[c] = "commit" /\ OthersStay(c) /\ Rivals'
  BY <1>1, <1>2, <1>3, LearnStep DEF Labels
<1>5. CallOK(c)'
  BY <1>1, <1>2, <1>4 DEF CallOK
<1>6. ScanOK(c)'
  BY <1>1, <1>2, <1>4 DEF ScanOK, Unlinked, dbVars
<1>7. \A k \in Keys : owner[k] # c
  BY <1>2, HoldsNothing
<1>8. QED
  BY <1>1, <1>4, <1>5, <1>6, <1>7, QuietStep DEF StepOK, ColumnsTyped, dbVars

-----------------------------------------------------------------------------
(***************************************************************************)
(* The end of a call.                                                      *)
(***************************************************************************)
\* The connection is idle again; the edges have been dealt with.
LEMMA ForgetStep ==
  ASSUME ReviewInv, NEW c \in Connections, Forget(c)
  PROVE  /\ pc'[c] = "idle" /\ call'[c] = Idle
         /\ OthersStay(c) /\ CallOK(c)' /\ ScanOK(c)' /\ Rivals'
         /\ \A k \in Keys : owner'[k] = IF owner[k] = c THEN NoConnection ELSE owner[k]
         /\ \A k \in Keys : owner'[k] # c
<1>1. /\ pc' = [pc EXCEPT ![c] = "idle"] /\ call' = [call EXCEPT ![c] = Idle]
      /\ owner' = [k \in Keys |-> IF owner[k] = c THEN NoConnection ELSE owner[k]]
      /\ ColumnsTyped
  BY DEF Forget, GoTo, Learn, ReviewInv
<1>2. /\ pc'[c] = "idle" /\ call'[c] = Idle
      /\ \A d \in Connections \ {c} : pc'[d] = pc[d] /\ call'[d] = call[d]
  BY <1>1 DEF ColumnsTyped
<1>3. OthersStay(c) /\ Rivals'
  BY <1>2 DEF OthersStay, SameCall, ReviewInv, Rivals
<1>4. call'[c].kind = "none"
  BY <1>2 DEF Idle
<1>5. CallOK(c)' /\ ScanOK(c)'
  BY <1>2, <1>4 DEF CallOK, ScanOK
<1>6. QED
  BY <1>1, <1>2, <1>3, <1>5, ReviewAssumption DEF ReviewAssumption

LEMMA AbortStep ==
  ASSUME ReviewInv, NEW c \in Connections, Abort(c)
  PROVE  StepOK(c) /\ UNCHANGED <<status, verdict, loose>>
<1>1. /\ draft' = [k \in Keys |-> IF owner[k] = c THEN status[k] ELSE draft[k]]
      /\ Forget(c) /\ UNCHANGED <<status, verdict, loose>> /\ ColumnsTyped
      /\ \A k \in Keys : owner[k] = NoConnection => draft[k] = status[k]
  BY DEF Abort, ReviewInv, DraftsHeld
<1>2. ColumnsTyped'
  BY <1>1, ForgetTyped DEF ColumnsTyped
<1>3. Respects(c) /\ \A k \in Keys : owner'[k] = NoConnection => draft'[k] = status'[k]
  BY <1>1, ForgetStep DEF Respects
<1>4. QED
  BY <1>1, <1>2, <1>3, ForgetStep DEF StepOK

LEMMA CommitStep ==
  ASSUME ReviewInv, NEW c \in Connections, Commit(c)
  PROVE  ReviewInv'
<1> DEFINE lost == call[c].contested /\ \A k \in Keys : owner[k] # c
           decided == IF call[c].kind = "ingest" \/ lost THEN {} ELSE {PairOf(k) : k \in call[c].edges}
<1>1. /\ pc[c] = "commit" /\ Forget(c) /\ UNCHANGED draft
      /\ status' = [k \in Keys |-> View(c, k)]
      /\ verdict' = [p \in Pairs |-> IF p \in decided THEN call[c].status ELSE verdict[p]]
      /\ loose' = IF call[c].contested \/ call[c].kind = "ingest" THEN loose \cup call[c].pairs ELSE loose
      /\ ColumnsTyped /\ CallOK(c) /\ ScanOK(c)
  BY DEF Commit, ReviewInv
<1>2. PICK old \in CallType : old = call[c]
  BY <1>1 DEF ColumnsTyped
<1>3. ASSUME NEW k \in Keys, owner[k] # c PROVE status'[k] = status[k]
  BY <1>1, <1>3 DEF View
<1>4. ASSUME NEW k \in Keys, owner[k] = c
      PROVE  HeldOK(c, k) /\ status'[k] = draft[k] /\ status'[k] = old.status
  BY <1>1, <1>2, <1>4, HeldIsOK DEF View, HeldOK
<1>5. Respects(c) /\ \A k \in Keys : owner'[k] = NoConnection => draft'[k] = status'[k]
  <2>1. \A k \in Keys : owner[k] = NoConnection => draft[k] = status[k]
    BY DEF ReviewInv, DraftsHeld
  <2>2. ASSUME NEW k \in Keys, owner[k] = c
        PROVE  status'[k] # "none" /\ (status[k] \in Decisions => status'[k] \in Decisions)
    BY <1>4, <2>2 DEF HeldOK, Decisions
  <2>3. \A k \in Keys : owner'[k] = IF owner[k] = c THEN NoConnection ELSE owner[k]
    BY <1>1, ForgetStep
  <2>4. QED
    BY <1>1, <1>3, <1>4, <2>1, <2>2, <2>3 DEF Respects
<1>6. \A p \in decided : /\ old.kind \in {"decide", "resolve"} /\ old.status \in Decisions
                         /\ \E k \in Edges(p) : owner[k] = c
  <2> SUFFICES ASSUME NEW k \in old.edges, old.kind # "ingest", ~lost
               PROVE  /\ old.kind \in {"decide", "resolve"} /\ old.status \in Decisions
                      /\ k \in Edges(PairOf(k)) /\ owner[k] = c
    BY <1>2
  <2>1. old.kind \in {"decide", "resolve"}
    BY <1>1, <1>2 DEF CallOK, ScanOK, CallType
  <2>2. old.status \in Decisions
    BY <1>1, <1>2, <2>1 DEF CallOK, Decisions
  <2>3. owner[k] = c
    BY <1>1, <1>2, <2>1 DEF CallOK
  <2>4. QED
    BY <1>2, <2>1, <2>2, <2>3, PairsOfKeys DEF CallType
<1>7. ColumnsTyped'
  <2>1. status' \in [Keys -> Statuses \cup {"none"}]
    BY <1>1, ViewTyped
  <2>2. verdict' \in [Pairs -> Decisions \cup {"none"}]
    BY <1>1, <1>2, <1>6 DEF ColumnsTyped
  <2>3. loose' \subseteq Pairs
    BY <1>1, <1>2 DEF ColumnsTyped, CallType
  <2>4. QED
    BY <1>1, <2>1, <2>2, <2>3, ForgetTyped DEF ColumnsTyped
<1>8. StepOK(c)
  BY <1>1, <1>5, <1>7, ForgetStep DEF StepOK
<1>9. IssueEdges'
  <2> SUFFICES ASSUME NEW k \in Keys, status'[k] = "PENDING"
               PROVE  FromIssue(k)
    BY DEF IssueEdges, FromIssue
  <2>1. CASE owner[k] # c
    BY <1>3, <2>1 DEF ReviewInv, IssueEdges
  <2>2. CASE owner[k] = c /\ status[k] = "none"
    BY <1>2, <1>4, <2>2 DEF HeldOK
  <2>3. CASE owner[k] = c /\ status[k] # "none"
    BY <1>2, <1>4, <2>3 DEF HeldOK, Decisions
  <2>4. QED
    BY <2>1, <2>2, <2>3
<1>10. ASSUME NEW p \in Pairs \ loose' PROVE AtMostOne(p)'
  <2>1. p \notin loose /\ (old.contested \/ old.kind = "ingest" => p \notin old.pairs)
    BY <1>1, <1>2, <1>10
  <2>2. AtMostOne(p)
    BY <2>1 DEF ReviewInv
  <2>3. ASSUME NEW k \in Edges(p), status[k] = "none", status'[k] # "none"
        PROVE  /\ old.kind = "decide" /\ k \in old.edges /\ Unlinked(p) /\ owner[k] = c
    <3>1. k \in Keys /\ PairOf(k) = p
      BY DEF Edges
    <3>2. owner[k] = c /\ HeldOK(c, k)
      BY <1>3, <1>4, <2>3, <3>1
    <3>3. QED
      BY <1>2, <2>1, <2>3, <3>1, <3>2 DEF HeldOK
  <2>4. \A j, k \in Edges(p) : status'[j] # "none" /\ status'[k] # "none" => j = k
    <3>1. ASSUME NEW j \in Edges(p), NEW k \in Edges(p), status'[j] # "none", status'[k] # "none"
          PROVE  j = k
      <4>1. CASE status[j] # "none" /\ status[k] # "none"
        BY <2>2, <4>1 DEF AtMostOne
      <4>2. CASE status[j] = "none" \/ status[k] = "none"
        <5>1. status[j] = "none" /\ status[k] = "none"
          BY <2>3, <3>1, <4>2 DEF Unlinked
        <5>2. old.kind = "decide" /\ j \in old.edges /\ k \in old.edges
          BY <2>3, <3>1, <5>1
        <5>3. QED
          BY <1>1, <1>2, <5>2 DEF CallOK
      <4>3. QED
        BY <4>1, <4>2
    <3>2. QED
      BY <3>1
  <2>5. QED
    BY <2>4 DEF AtMostOne
<1>11. DecisionRecorded'
  <2> SUFFICES ASSUME NEW p \in Pairs, verdict'[p] \in Decisions
               PROVE  \E k \in Edges(p) : status'[k] = verdict'[p]
    BY DEF DecisionRecorded
  <2>1. CASE p \in decided
    <3>1. PICK k \in Edges(p) : owner[k] = c
      BY <1>6, <2>1
    <3>2. k \in Keys /\ verdict'[p] = old.status
      BY <1>1, <1>2, <2>1 DEF Edges
    <3>3. QED
      BY <1>4, <3>1, <3>2
  <2>2. CASE p \notin decided
    <3>1. PICK k \in Edges(p) : status[k] = verdict[p]
      BY <1>1, <2>2 DEF ReviewInv, DecisionRecorded
    <3>2. k \in Keys /\ PairOf(k) = p /\ status[k] # "none" /\ verdict'[p] = verdict[p]
      BY <1>1, <2>2, <3>1 DEF Edges, Decisions
    <3>3. owner[k] # c
      BY <1>2, <1>4, <2>2, <3>2 DEF HeldOK
    <3>4. QED
      BY <1>3, <3>1, <3>2, <3>3
  <2>3. QED
    BY <2>1, <2>2
<1>12. QED
  BY <1>7, <1>8, <1>9, <1>10, <1>11, StepKeepsOthers DEF ReviewInv, StepOK

-----------------------------------------------------------------------------
(***************************************************************************)
(* The invariant holds.                                                    *)
(***************************************************************************)
LEMMA InitReviewInv == Init => ReviewInv
<1> SUFFICES ASSUME Init PROVE ReviewInv
  OBVIOUS
<1>1. ColumnsTyped
  BY InitColumnsTyped
<1>2. /\ \A k \in Keys : status[k] = "none" /\ draft[k] = "none" /\ owner[k] = NoConnection
      /\ \A c \in Connections : pc[c] = "idle" /\ call[c] = Idle
      /\ \A p \in Pairs : verdict[p] = "none"
  BY DEF Init
<1>3. DraftsHeld
  BY <1>2, ReviewAssumption DEF ReviewAssumption, DraftsHeld
<1>4. \A c \in Connections : CallOK(c) /\ ScanOK(c)
  <2>1. Idle.kind = "none"
    BY DEF Idle
  <2>2. QED
    BY <1>2, <2>1 DEF CallOK, ScanOK
<1>5. Rivals /\ IssueEdges
  BY <1>2 DEF Rivals, IssueEdges
<1>6. \A p \in Pairs : AtMostOne(p)
  BY <1>2 DEF AtMostOne, Edges
<1>7. DecisionRecorded
  BY <1>2 DEF DecisionRecorded, Decisions
<1>8. QED
  BY <1>1, <1>3, <1>4, <1>5, <1>6, <1>7 DEF ReviewInv

LEMMA NextReviewInv == ReviewInv /\ [Next]_vars => ReviewInv'
<1> SUFFICES ASSUME ReviewInv, [Next]_vars PROVE ReviewInv'
  OBVIOUS
<1>1. CASE UNCHANGED vars
  BY <1>1 DEF vars, dbVars, ReviewInv, ColumnsTyped, DraftsHeld, HeldOK, CallOK, ScanOK, Unlinked,
     Rivals, IssueEdges, AtMostOne, DecisionRecorded
<1>2. ASSUME NEW c \in Connections, NEW k \in Keys, NEW s \in Decisions, BeginDecide(c, k, s)
      PROVE  ReviewInv'
  BY <1>2, BeginDecideStep, StatementInv
<1>3. ASSUME NEW c \in Connections, NEW k \in Keys, BeginIngest(c, k) \/ ApprovePending(c, k)
      PROVE  ReviewInv'
  BY <1>3, BeginIngestStep, ApprovePendingStep, StatementInv
<1>4. ASSUME NEW c \in Connections, NEW i \in Issues, NEW n \in Nodes, BeginReview(c, i, n)
      PROVE  ReviewInv'
  BY <1>4, BeginReviewStep, StatementInv
<1>5. ASSUME NEW c \in Connections, NEW n \in Nodes, BeginResolve(c, n)
      PROVE  ReviewInv'
  BY <1>5, BeginResolveStep, StatementInv
<1>6. ASSUME NEW c \in Connections, NEW similar \in SUBSET Pairs, BeginScan(c, similar)
      PROVE  ReviewInv'
  BY <1>6, BeginScanStep, StatementInv
<1>7. ASSUME NEW c \in Connections,
             Find(c) \/ Insert(c) \/ Update(c) \/ ListPending(c) \/ ScanEnd(c) \/ Abort(c)
      PROVE  ReviewInv'
  BY <1>7, FindStep, InsertStep, UpdateStep, ListPendingStep, ScanEndStep, AbortStep, StatementInv
<1>8. ASSUME NEW c \in Connections, NEW p \in Pairs, Compare(c, p)
      PROVE  ReviewInv'
  BY <1>8, CompareStep, StatementInv
<1>9. ASSUME NEW c \in Connections, Commit(c)
      PROVE  ReviewInv'
  BY <1>9, CommitStep
<1>10. QED
  BY <1>1, <1>2, <1>3, <1>4, <1>5, <1>6, <1>7, <1>8, <1>9 DEF Next

LEMMA ReviewInvariant == Spec => []ReviewInv
<1>1. QED
  BY InitReviewInv, NextReviewInv, PTL DEF Spec

\* The columns of edges have their types, and an edge whose newest status is not
\* committed is held by a transaction that is still open.
THEOREM ReviewTypes == Spec => []TypeOK
<1>1. ReviewInv => TypeOK
  <2> SUFFICES ASSUME ReviewInv PROVE TypeOK
    OBVIOUS
  <2>1. ColumnsTyped
    BY DEF ReviewInv
  <2>2. ASSUME NEW k \in Keys, owner[k] # NoConnection PROVE pc[owner[k]] # "idle"
    <3>1. HeldOK(owner[k], k)
      BY <2>1, <2>2, HeldIsOK DEF ColumnsTyped
    <3>2. QED
      BY <3>1 DEF HeldOK
  <2>3. \A k \in Keys : owner[k] = NoConnection => draft[k] = status[k]
    BY DEF ReviewInv, DraftsHeld
  <2>4. QED
    BY <2>1, <2>2, <2>3 DEF TypeOK, ColumnsTyped
<1>2. QED
  BY <1>1, ReviewInvariant, PTL

\* approve and dismiss look for an edge in either direction before they insert
\* one: with any number of clients, two edges of a pair come only from calls
\* that overlapped or from an import.
THEOREM PairsKeepOneEdge == Spec => []OneEdgePerPair
<1>1. ReviewInv => OneEdgePerPair
  <2> SUFFICES ASSUME ReviewInv, NEW p \in Pairs \ loose
               PROVE  Cardinality({k \in Edges(p) : status[k] # "none"}) <= 1
    BY DEF OneEdgePerPair
  <2>1. AtMostOne(p)
    BY DEF ReviewInv
  <2>2. CASE {k \in Edges(p) : status[k] # "none"} = {}
    BY <2>2, FS_EmptySet
  <2>3. ASSUME NEW j \in Edges(p), status[j] # "none"
        PROVE  Cardinality({k \in Edges(p) : status[k] # "none"}) <= 1
    <3>1. {k \in Edges(p) : status[k] # "none"} = {j}
      BY <2>1, <2>3 DEF AtMostOne
    <3>2. QED
      BY <3>1, FS_Singleton
  <2>4. QED
    BY <2>2, <2>3
<1>2. QED
  BY <1>1, ReviewInvariant, PTL

\* A decision on a pair is on record until the next one: neither an import, nor
\* a resolve, nor a rolled back call takes it back.
THEOREM DecisionsStay == Spec => []DecisionRecorded
<1>1. ReviewInv => DecisionRecorded
  BY DEF ReviewInv
<1>2. QED
  BY <1>1, ReviewInvariant, PTL

\* A scan that other calls overlap lists no pair that was decided on before it
\* began, and every similar pair that has no edge when it ends.
THEOREM ScansAreRight == Spec => []ScanIsRight
<1>1. ReviewInv => ScanIsRight
  BY DEF ReviewInv, ScanOK, ScanIsRight, Unlinked
<1>2. QED
  BY <1>1, ReviewInvariant, PTL
=============================================================================
