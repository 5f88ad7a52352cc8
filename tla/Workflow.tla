------------------------------ MODULE Workflow ------------------------------
(***************************************************************************)
(* Workflow templates on top of the task queue.  Executing a template      *)
(* creates a node for each of its steps, DEPENDS_ON edges between them and *)
(* a row of the queue for each step that is a TASK, in one transaction;    *)
(* from then on the queue's tools, and callers that enqueue a step's node  *)
(* again, decide what happens to the rows.                                 *)
(*                                                                         *)
(* A node created for step s of run i is <<i, s>>: uuid4 gives each a new  *)
(* id.  TaskQueue's constants describe the nodes of every run that may     *)
(* come; those of a run that has not been executed do not exist yet.       *)
(***************************************************************************)
EXTENDS TaskQueue, Sequences

CONSTANTS
  Runs,        \* executions of templates
  TemplateOf,  \* the template of each: its trigger and its steps, in order
  Triggers     \* the nodes that executions start from: their type and status

StepsOf(i) == TemplateOf[i].steps
StepNode(i, k) == <<i, StepsOf(i)[k].id>>
StepNodes(i) == {StepNode(i, k) : k \in 1..Len(StepsOf(i))}

\* The numbers of the steps that step k depends on.
StepDeps(i, k) == {j \in 1..Len(StepsOf(i)) : StepsOf(i)[j].id \in StepsOf(i)[k].depends_on}

IsTask(i, k) == StepsOf(i)[k].node_type = "TASK"

\* The ids of a template's steps are distinct.
ASSUME RunsAssumption ==
  \A i \in Runs : \A k \in 1..Len(StepsOf(i)) :
    LET n == StepNode(i, k)
    IN /\ n \in Nodes \ HashedNodes
       /\ n \in TaskNodes <=> IsTask(i, k)
       /\ RoleTags[n] = {StepsOf(i)[k].assign_role}
       /\ \A j \in 1..Len(StepsOf(i)) : StepsOf(i)[j].id = StepsOf(i)[k].id => j = k

ASSUME RunsAreBatches == Batches = {StepNodes(i) : i \in Runs}

\* The built-in templates.
Step(id, type, role, deps) ==
  [id |-> id, node_type |-> type, assign_role |-> role, depends_on |-> deps]

DESIGN_TO_IMPL == [trigger |-> "GOAL", steps |-> <<Step("spec", "SPEC", "genesis", {}),
                                                   Step("arch", "ARCH", "genesis", {"spec"}),
                                                   Step("impl", "TASK", "worker", {"arch"}),
                                                   Step("review", "TASK", "reviewer", {"impl"})>>]
ISSUE_RESOLUTION == [trigger |-> "ISSUE", steps |-> <<Step("fix", "TASK", "worker", {}),
                                                      Step("review", "TASK", "reviewer", {"fix"})>>]
KNOWLEDGE_INDEXING == [trigger |-> "SUMMARY", steps |-> <<Step("index", "TASK", "indexer", {}),
                                                          Step("review", "TASK", "reviewer", {"index"})>>]

VARIABLE executed  \* the runs whose transaction has committed
workflowVars == <<vars, executed>>

-----------------------------------------------------------------------------
\* A node that is not a step's exists from the start.
Exists(n) == \A i \in Runs : n \in StepNodes(i) => i \in executed

TaskSteps(i) == {k \in 1..Len(StepsOf(i)) : IsTask(i, k)}

\* The numbers in S, in their order.
InOrderOf(S) == {f \in [1..Cardinality(S) -> S] : /\ \A k \in S : \E n \in DOMAIN f : f[n] = k
                                                  /\ \A m, n \in DOMAIN f : m < n => f[m] < f[n]}

\* A step may only depend on earlier ones: KeyError otherwise.
InOrder(i) == \A k \in 1..Len(StepsOf(i)) :
  /\ Cardinality(StepDeps(i, k)) = Cardinality(StepsOf(i)[k].depends_on)
  /\ \A j \in StepDeps(i, k) : j < k

\* Mutant of StepState: nothing of the run is done yet, but nobody asks.
StepStateReady(i, k) == "READY"

\* TaskService.enqueue of a step's node, whose prerequisites are as new as it
\* is; those that are no TASK do not count.
StepState(i, k) == IF \E j \in StepDeps(i, k) : IsTask(i, j) THEN "BLOCKED" ELSE "READY"

\* Mutant of StepEdges: the edges to the steps are not inserted.
NoStepEdges(i) == {}

StepEdges(i) ==
  UNION {{<<StepNode(i, k), StepNode(i, j)>> : j \in StepDeps(i, k)} : k \in 1..Len(StepsOf(i))}

\* The rows are inserted one after the other, for the steps that are TASKs.
Execute(i, trigger, p) ==
  /\ i \notin executed
  /\ trigger = [type |-> TemplateOf[i].trigger, status |-> "ACTIVE"]
  /\ InOrder(i)
  /\ executed' = executed \cup {i}
  /\ depends' = depends \cup StepEdges(i)
  /\ \E last \in 0..MaxRows, tasks \in InOrderOf(TaskSteps(i)) :
       LET new == {last + k : k \in DOMAIN tasks}
           StepOf(r) == tasks[r - last]
       IN /\ \A r \in Rows : Present(r) <=> r <= last
          /\ new \subseteq Rows
          /\ state' = [r \in Rows |-> IF r \in new THEN StepState(i, StepOf(r)) ELSE state[r]]
          /\ task_node_id' = [r \in Rows |-> IF r \in new THEN StepNode(i, StepOf(r)) ELSE task_node_id[r]]
          /\ priority' = [r \in Rows |-> IF r \in new THEN p ELSE priority[r]]
  /\ UNCHANGED <<now, leased_by, lease_expires_at, attempts, lockVars, handoff, activities>>

QueueStep ==
  \/ \E n \in {m \in Nodes : Exists(m)}, p \in Priorities : Enqueue(n, p)
  \/ \E a \in Agents : McpCheckout(a) \/ ReleaseAllLocks(a)
  \/ \E a \in Agents, d \in Leases : CliCheckout(a, d)
  \/ \E r \in Rows : Complete(r) \/ Fail(r)
  \/ RequeueExpired
  \/ CleanupExpiredLocks
  \/ \E e \in {f \in EdgeChoices : Exists(f[1]) /\ Exists(f[2])} : IngestEdge(e)
  \/ Tick

WorkflowInit == Init /\ executed = {}

WorkflowNext == \/ \E i \in Runs, trigger \in Triggers, p \in Priorities : Execute(i, trigger, p)
                \/ QueueStep /\ UNCHANGED executed

WorkflowSpec == WorkflowInit /\ [][WorkflowNext]_workflowVars

\* While there is work that some agent may take, some agent polls, and while
\* there is work in progress, some of it is reported on.
Working == /\ WF_workflowVars((\E a \in Agents : McpCheckout(a)) /\ UNCHANGED executed)
           /\ WF_workflowVars((\E r \in Rows : Complete(r)) /\ UNCHANGED executed)

WorkingSpec == WorkflowSpec /\ Working

-----------------------------------------------------------------------------
DoneOnce(n) == \E r \in Rows : task_node_id[r] = n /\ state[r] = "DONE"

\* A step's task is never handed out before each TASK it depends on has been
\* done: not when its node is enqueued again, nor when a prerequisite is, nor
\* when edges are added.  Checkout itself looks at no edge.
StepsInOrder ==
  \A i \in executed : \A k \in 1..Len(StepsOf(i)) : \A j \in StepDeps(i, k) : \A r \in Rows :
    /\ IsTask(i, j)
    /\ task_node_id[r] = StepNode(i, k)
    /\ state[r] # "BLOCKED"
    => DoneOnce(StepNode(i, j))

\* The context of a step that is done is in the body of each TASK that waits
\* for it: a node without a content hash is not skipped by the handoff, and the
\* row of the next step is in the queue from the start.
ContextReachesNextStep ==
  \A i \in executed : \A k \in TaskSteps(i) : \A j \in StepDeps(i, k) :
    IsTask(i, j) /\ DoneOnce(StepNode(i, j)) => StepNode(i, j) \in handoff[StepNode(i, k)]

\* A workflow does not get stuck by itself: when the agents complete what
\* they lease, and one of them is an admin, all its tasks are done in the end
\* unless some task is failed.
RunsToEnd ==
  \A i \in Runs : i \in executed ~>
    \/ \A k \in 1..Len(StepsOf(i)) : IsTask(i, k) => DoneOnce(StepNode(i, k))
    \/ \E r \in Rows : state[r] = "FAILED"
=============================================================================
