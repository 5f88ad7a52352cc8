---------------------------- MODULE MCNodeStore ----------------------------
(* Instances of NodeStore for TLC. *)
EXTENDS NodeStore, TLC

CONSTANTS n1, n2, n3,       \* nodes: n1 is named by texts, n2 and n3 are generated
          t1, t2, new,      \* texts
          alice, bob, rita  \* authors and a reviewer

\* Alice and Bob both have a text for n1; Alice has one without an id.
Ids == [t \in Texts |-> IF t = new THEN New ELSE n1]
AuthorsOfTexts == [t \in Texts |-> IF t = t2 THEN bob ELSE alice]

\* All texts are about n1; Bob's comes between Alice's two.
IdsOfOneNode == [t \in Texts |-> n1]

ConnectionSymmetry == Permutations(Connections)

-----------------------------------------------------------------------------
\* detect "checks if the previous version was by a different agent"
\* (conflict_resolution.py): when one ingest of a node follows another and no
\* call overlapped it, there is a review exactly if their authors differ.
ReviewedWhenAgentChanges ==
  \A n \in Nodes : \A k \in 2 .. Len(written[n]) :
    LET previous == written[n][k - 1]
        current == written[n][k]
    IN {n} \notin overlapped /\ previous[3] = "ingest" /\ current[3] = "ingest" =>
         (current[2] # previous[2] <=> \E i \in issues : i.node = n /\ i.version = k - 1)
=============================================================================
