---------------------------- MODULE MCTaskQueue ----------------------------
(* Instances of TaskQueue for TLC. *)
EXTENDS TaskQueue, TLC

CONSTANTS n1, n2,  \* two TASK nodes
          a1, a2   \* two agents

NoEdges == {}

WorkerTags == [n \in Nodes |-> IF n = n1 THEN {"worker"} ELSE {}]
AdminAndWorker == [a \in Agents |-> IF a = a1 THEN "admin" ELSE "worker"]
=============================================================================
