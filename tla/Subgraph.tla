------------------------------ MODULE Subgraph ------------------------------
(***************************************************************************)
(* Context packages.  After a node has been checked for cycles and         *)
(* enqueued, a checkout (or get_subgraph, or the dashboard) extracts its   *)
(* surroundings: a breadth-first search with one query per node, while     *)
(* other calls go on inserting edges, then the status of what was found    *)
(* and the edges between the nodes that are left.  The language server     *)
(* answers the same question from its index.                               *)
(*                                                                         *)
(* adjacency stays what the edges were when the search began.              *)
(***************************************************************************)
EXTENDS DependencyCycle, FiniteSets

CONSTANTS
  MAX_SUBGRAPH_DEPTH,
  Depths,     \* the depths that callers ask for
  MaxInserts  \* bound: edges inserted during an extraction

ASSUME DepthAssumption == /\ MAX_SUBGRAPH_DEPTH \in Nat
                          /\ Depths \subseteq Nat
ASSUME NodesAssumption == IsFiniteSet(Nodes)

VARIABLES
  edges,         \* the edges as the database has them now
  phase,         \* "none", "expand", "link", "done"
  depth,
  found,         \* visited: the nodes in the order of their insertion, with their depth
  frontier,
  nextFrontier,
  round,         \* current_depth
  package        \* the SubgraphResult

extraction == <<phase, depth, found, frontier, nextFrontier, round, package>>
subgraphVars == <<vars, edges, extraction>>

-----------------------------------------------------------------------------
Ids(entries) == {entries[i].id : i \in 1 .. Len(entries)}

\* Mutant of Adjacent: only the edges that leave the node.
AdjacentOut(E, n) == {m \in Nodes : <<n, m>> \in E}

\* _get_adjacent_ids: both directions.
Adjacent(E, n) == {m \in Nodes : <<n, m>> \in E \/ <<m, n>> \in E}

\* SQL returns rows in any order.
Orders(S) == {q \in [1 .. Cardinality(S) -> S] : \A n \in S : \E i \in DOMAIN q : q[i] = n}

Between(E, S) == {e \in E : e[1] \in S /\ e[2] \in S}

\* The database does not look further than this.
Clamp(d) == IF d <= MAX_SUBGRAPH_DEPTH THEN d ELSE MAX_SUBGRAPH_DEPTH

SubgraphInit == /\ Init
                /\ edges = adjacency
                /\ phase = "none"
                /\ depth = 0
                /\ found = <<>>
                /\ frontier = <<>>
                /\ nextFrontier = <<>>
                /\ round = 0
                /\ package = [nodes |-> <<>>, edges |-> {}]

\* The call begins; the locals of the cycle search are long gone.
Extract(d) == /\ pc = "done"
              /\ phase = "none"
              /\ phase' = "expand"
              /\ depth' = Clamp(d)
              /\ found' = <<[id |-> start, depth |-> 0]>>
              /\ frontier' = <<start>>
              /\ visited' = {}
              /\ stack' = <<>>
              /\ current' = start
              /\ rest' = {}
              /\ UNCHANGED <<adjacency, start, pc, result, edges, nextFrontier, round, package>>

\* Mutant of Look: the new nodes come before those already found.
LookBackwards == /\ phase = "expand"
                 /\ round < depth
                 /\ frontier # <<>>
                 /\ \E q \in Orders(Adjacent(edges, Head(frontier)) \ Ids(found)) :
                      /\ found' = [i \in DOMAIN q |-> [id |-> q[i], depth |-> round + 1]] \o found
                      /\ nextFrontier' = nextFrontier \o q
                 /\ frontier' = Tail(frontier)
                 /\ UNCHANGED <<vars, edges, phase, depth, round, package>>

\* The neighbours of the next node of the frontier, as they are now.
Look == /\ phase = "expand"
        /\ round < depth
        /\ frontier # <<>>
        /\ \E q \in Orders(Adjacent(edges, Head(frontier)) \ Ids(found)) :
             /\ found' = found \o [i \in DOMAIN q |-> [id |-> q[i], depth |-> round + 1]]
             /\ nextFrontier' = nextFrontier \o q
        /\ frontier' = Tail(frontier)
        /\ UNCHANGED <<vars, edges, phase, depth, round, package>>

Deepen == /\ phase = "expand"
          /\ frontier = <<>>
          /\ nextFrontier # <<>>
          /\ frontier' = nextFrontier
          /\ nextFrontier' = <<>>
          /\ round' = round + 1
          /\ UNCHANGED <<vars, edges, phase, depth, found, package>>

\* An ARCHIVED node is left out of the package.
Without(archived, entries) == SelectSeq(entries, LAMBDA x : x.id \notin archived)

\* The details of what was found in one query; ARCHIVED nodes are dropped, and
\* only now: what was found through them stays.
Fetch(archived) ==
  /\ phase = "expand"
  /\ round = depth \/ (frontier = <<>> /\ nextFrontier = <<>>)
  /\ phase' = "link"
  /\ package' = [nodes |-> Without(archived, found), edges |-> {}]
  /\ UNCHANGED <<vars, edges, depth, found, frontier, nextFrontier, round>>

Link == /\ phase = "link"
        /\ phase' = "done"
        /\ package' = [package EXCEPT !.edges = Between(edges, Ids(package.nodes))]
        /\ UNCHANGED <<vars, edges, depth, found, frontier, nextFrontier, round>>

\* Another call's transaction commits an edge.
InsertEdge(e) == /\ phase \in {"expand", "link"}
                 /\ e \notin edges
                 /\ Cardinality(edges \ adjacency) < MaxInserts
                 /\ edges' = edges \cup {e}
                 /\ UNCHANGED <<vars, extraction>>

Traverse == \/ Next /\ UNCHANGED <<edges, extraction>>
            \/ \E d \in Depths : Extract(d)
            \/ Look \/ Deepen \/ Link
            \/ \E archived \in SUBSET Nodes : Fetch(archived)

SubgraphNext == Traverse \/ \E e \in Nodes \X Nodes : InsertEdge(e)

SubgraphSpec == SubgraphInit /\ [][SubgraphNext]_subgraphVars

-----------------------------------------------------------------------------
(***************************************************************************)
(* What is made of it, and the language server's own traversal.            *)
(***************************************************************************)
\* The dashboard draws the first max nodes and the edges between them.
Rendered(max) ==
  LET drawn == SubSeq(package.nodes, 1, IF Len(package.nodes) < max THEN Len(package.nodes) ELSE max)
  IN [nodes |-> drawn, edges |-> Between(package.edges, Ids(drawn))]

\* The other ends of get_all_edges_for(n), for each n in S.
LocalNeighbours(E, S) == UNION {{IF e[1] = n THEN e[2] ELSE e[1] : e \in {d \in E : n \in {d[1], d[2]}}} : n \in S}

\* Mutant of LocalRounds: as many rounds as the depth says.
LocalRoundsShort(E, n, d) ==
  LET rounds[k \in 0 .. d] ==
        IF k = 0 THEN [visited |-> {}, frontier |-> {n}]
        ELSE LET seen == rounds[k - 1].visited \cup rounds[k - 1].frontier
             IN [visited |-> seen,
                 frontier |-> LocalNeighbours(E, rounds[k - 1].frontier) \ seen]
  IN rounds[d].visited

\* The nodes that build_local_subgraph visits in depth + 1 rounds.
LocalRounds(E, n, d) ==
  LET rounds[k \in 0 .. d + 1] ==
        IF k = 0 THEN [visited |-> {}, frontier |-> {n}]
        ELSE LET seen == rounds[k - 1].visited \cup rounds[k - 1].frontier
             IN [visited |-> seen,
                 frontier |-> LocalNeighbours(E, rounds[k - 1].frontier) \ seen]
  IN rounds[d + 1].visited

\* What kgn/subgraph may answer, for a workspace with the same nodes and edges.
\* The depth is the one asked for; of what was visited, round by round but in
\* any order within a round, the first max nodes are kept, with the edges
\* between them.
LocalResponses(E, n, d, max) ==
  LET reached == LocalRounds(E, n, d)
      truncated == Cardinality(reached) > max
      included == IF truncated
                  THEN {S \in SUBSET reached :
                          /\ Cardinality(S) = max
                          /\ \A k \in 0 .. d : S \subseteq LocalRounds(E, n, k) \/ LocalRounds(E, n, k) \subseteq S}
                  ELSE {reached}
  IN {[nodes |-> S, edges |-> Between(E, S), truncated |-> truncated] : S \in included}

-----------------------------------------------------------------------------
(***************************************************************************)
(* Properties.                                                             *)
(***************************************************************************)
Entry == [id : Nodes, depth : 0 .. MAX_SUBGRAPH_DEPTH]

\* The locals of the extraction; no node is found twice, or beyond the depth.
PackageTypeOK == /\ adjacency \subseteq edges
                 /\ edges \subseteq Nodes \X Nodes
                 /\ phase \in {"none", "expand", "link", "done"}
                 /\ depth \in 0 .. MAX_SUBGRAPH_DEPTH
                 /\ round \in 0 .. depth
                 /\ found \in Seq(Entry)
                 /\ Cardinality(Ids(found)) = Len(found)
                 /\ frontier \in Seq(Nodes)
                 /\ nextFrontier \in Seq(Nodes)
                 /\ package.nodes \in Seq(Entry)
                 /\ package.edges \subseteq Nodes \X Nodes

\* The nodes within k hops of n.
Within(E, n, k) ==
  LET within[j \in 0 .. k] ==
        IF j = 0 THEN {n}
        ELSE {m \in Nodes : \E x \in within[j - 1] : m = x \/ <<x, m>> \in E \/ <<m, x>> \in E}
  IN within[k]

\* Edges that come in the middle of the search neither hide a node nor make one
\* look further away than it was: everything within the depth at the beginning
\* is found, at a depth that is neither more than its distance at the beginning
\* nor less than its distance at the end.
FoundWithinDepth ==
  phase \in {"link", "done"} =>
    /\ Within(adjacency, start, depth) \subseteq Ids(found)
    /\ \A i \in DOMAIN found :
         /\ found[i].id \in Within(edges, start, found[i].depth)
         /\ \A k \in 0 .. found[i].depth - 1 : found[i].id \notin Within(adjacency, start, k)

\* However few nodes the dashboard draws, none hangs in the air: each but the
\* root is joined to one that is drawn and nearer to the root, by an edge that
\* is drawn.  Only nodes that were archived can leave such a gap.
DrawnConnected ==
  phase = "done" /\ package.nodes = found =>
    \A max \in 1 .. Len(found) :
      LET drawn == Rendered(max)
      IN \A x \in {drawn.nodes[i] : i \in DOMAIN drawn.nodes} : x.depth > 0 =>
           \E i \in DOMAIN drawn.nodes :
             /\ drawn.nodes[i].depth = x.depth - 1
             /\ <<drawn.nodes[i].id, x.id>> \in drawn.edges \/ <<x.id, drawn.nodes[i].id>> \in drawn.edges

\* Nothing in a package refers to a node outside it.  When both have the same
\* nodes and edges, the editor answers what the database does as long as it does
\* not say that its answer is cut off and the depth asked for is one the database
\* goes to; beyond that depth it shows more, never less.  An answer that is cut
\* off leaves out no node that is nearer than one it shows.
EditorViewAgrees ==
  phase = "done" =>
    /\ \A e \in package.edges : {e[1], e[2]} \subseteq Ids(package.nodes)
    /\ edges = adjacency /\ package.nodes = found =>
         \A d \in {x \in Depths : Clamp(x) = depth}, max \in 0 .. Cardinality(Nodes) :
           \A answer \in LocalResponses(edges, start, d, max) :
             IF answer.truncated
             THEN \A i, j \in DOMAIN found :
                    found[i].id \in answer.nodes /\ found[j].id \notin answer.nodes =>
                      found[i].depth <= found[j].depth
             ELSE /\ Ids(package.nodes) \subseteq answer.nodes
                  /\ package.edges \subseteq answer.edges
                  /\ d <= MAX_SUBGRAPH_DEPTH =>
                       answer.nodes = Ids(package.nodes) /\ answer.edges = package.edges

=============================================================================
