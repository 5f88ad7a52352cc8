-------------------------- MODULE DependencyCycle --------------------------
(***************************************************************************)
(* The iterative depth-first search with which enqueue rejects a node that *)
(* lies on a DEPENDS_ON cycle (DependencyService._has_cycle).  It runs on  *)
(* the edges that one query returned, so nothing else happens meanwhile.   *)
(***************************************************************************)
EXTENDS Naturals, Sequences

CONSTANT Nodes

VARIABLES
  adjacency,  \* the DEPENDS_ON edges: <<n, m>> when n depends on m
  start,      \* the node to be enqueued
  visited,
  stack,      \* nodes still to be looked at, the next one last
  current,    \* the node whose targets are being scanned
  rest,       \* the targets not scanned yet
  pc,         \* "pop": while stack; "scan": for target in ...; "done"
  result

vars == <<adjacency, start, visited, stack, current, rest, pc, result>>

Targets(n) == {m \in Nodes : <<n, m>> \in adjacency}

\* n can reach itself: it lies in every set that holds its targets and theirs.
HasCycle(n) ==
  \A S \in SUBSET Nodes :
    Targets(n) \subseteq S /\ (\A m \in S : Targets(m) \subseteq S) => n \in S

OnStack == {stack[i] : i \in 1 .. Len(stack)}
Top == stack[Len(stack)]
Below == SubSeq(stack, 1, Len(stack) - 1)

Init == /\ adjacency \in SUBSET (Nodes \X Nodes)
        /\ start \in Nodes
        /\ visited = {}
        /\ stack = <<start>>
        /\ current = start
        /\ rest = {}
        /\ pc = "pop"
        /\ result = FALSE

\* current = stack.pop(); a node that was visited meanwhile is skipped.
Skip == /\ pc = "pop"
        /\ stack # <<>>
        /\ Top \in visited
        /\ stack' = Below
        /\ UNCHANGED <<adjacency, start, visited, current, rest, pc, result>>

Visit == /\ pc = "pop"
         /\ stack # <<>>
         /\ Top \notin visited
         /\ current' = Top
         /\ stack' = Below
         /\ visited' = visited \cup {Top}
         /\ rest' = Targets(Top)
         /\ pc' = "scan"
         /\ UNCHANGED <<adjacency, start, result>>

Close(t) == /\ pc = "scan"
            /\ t \in rest
            /\ t = start
            /\ result' = TRUE
            /\ pc' = "done"
            /\ UNCHANGED <<adjacency, start, visited, stack, current, rest>>

\* Mutant of Push: a target goes on the stack only if it has none of its own.
PushLeaves(t) == /\ pc = "scan"
                 /\ t \in rest
                 /\ t # start
                 /\ stack' = IF Targets(t) = {} THEN Append(stack, t) ELSE stack
                 /\ rest' = rest \ {t}
                 /\ UNCHANGED <<adjacency, start, visited, current, pc, result>>

Push(t) == /\ pc = "scan"
           /\ t \in rest
           /\ t # start
           /\ stack' = IF t \in visited THEN stack ELSE Append(stack, t)
           /\ rest' = rest \ {t}
           /\ UNCHANGED <<adjacency, start, visited, current, pc, result>>

ScanEnd == /\ pc = "scan"
           /\ rest = {}
           /\ pc' = "pop"
           /\ UNCHANGED <<adjacency, start, visited, stack, current, rest, result>>

Exhausted == /\ pc = "pop"
             /\ stack = <<>>
             /\ pc' = "done"
             /\ UNCHANGED <<adjacency, start, visited, stack, current, rest, result>>

\* The order of the targets is that of the edges' created_at: any order.
Next == \/ Skip \/ Visit \/ ScanEnd \/ Exhausted
        \/ \E t \in Nodes : Close(t) \/ Push(t)

Spec == Init /\ [][Next]_vars

-----------------------------------------------------------------------------
(***************************************************************************)
(* Properties.                                                             *)
(***************************************************************************)
\* The locals of _has_cycle, and no target is left over between two scans.
TypeOK == /\ adjacency \subseteq Nodes \X Nodes
          /\ start \in Nodes
          /\ visited \subseteq Nodes
          /\ stack \in Seq(Nodes)
          /\ current \in Nodes
          /\ rest \subseteq Nodes
          /\ pc \in {"pop", "scan", "done"}
          /\ result \in BOOLEAN
          /\ pc = "pop" => rest = {}

\* The search answers the question it is asked: it returns True exactly when
\* the node can reach itself, through a self-loop or a cycle of any length,
\* and is not misled by cycles that do not contain it.
AnswerIsRight == pc = "done" => (result <=> HasCycle(start))

=============================================================================
