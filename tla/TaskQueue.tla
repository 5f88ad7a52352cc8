----------------------------- MODULE TaskQueue -----------------------------
(***************************************************************************)
(* The task queue of kgn with every tool call run as one serial            *)
(* transaction: enqueue, checkout, complete, fail, requeue_expired, the    *)
(* node locks taken at checkout, and the DEPENDS_ON edges that decide who  *)
(* waits for whom.  What the calls do when their statements interleave     *)
(* under READ COMMITTED is the subject of TaskTxn.                         *)
(***************************************************************************)
EXTENDS Naturals, FiniteSets

CONSTANTS
  Nodes,        \* the nodes of the project that appear in DEPENDS_ON edges
  TaskNodes,    \* those of type TASK: only they can be enqueued
  HashedNodes,  \* those stored with a content_hash (every ingested node)
  EdgeChoices,  \* the DEPENDS_ON edges that may be ingested
  Agents,       \* agents that call the tools
  NoAgent,      \* SQL NULL in leased_by and locked_by
  NoNode,       \* the node of a row that is not there yet
  RoleOf,       \* the role of each agent: "admin", "worker", "reviewer", ...
  RoleTags,     \* the role:<r> tags of each node
  Batches,      \* the sets of nodes whose first rows one transaction inserts
  MaxRows,      \* bound: rows inserted into task_queue
  Priorities,   \* priorities given to enqueue
  MaxAttempts,  \* task_queue.max_attempts
  Leases,       \* lease durations asked for on the command line (--lease)
  McpLease,     \* the duration the MCP tool leaves at its default, 600 s
  MaxTime       \* bound: the clock stops here

ASSUME NodesAssumption == /\ NoNode \notin Nodes
                          /\ TaskNodes \subseteq Nodes
                          /\ HashedNodes \subseteq Nodes
                          /\ EdgeChoices \subseteq Nodes \X Nodes
                          /\ RoleTags \in [Nodes -> SUBSET STRING]
ASSUME BatchesAssumption == Batches \subseteq SUBSET Nodes
ASSUME AgentsAssumption == /\ NoAgent \notin Agents
                           /\ RoleOf \in [Agents -> STRING]
ASSUME NumbersAssumption == /\ MaxRows \in Nat
                            /\ Priorities \subseteq Nat
                            /\ MaxAttempts \in Nat \ {0}
                            /\ Leases \subseteq Nat
                            /\ McpLease \in Nat
                            /\ MaxTime \in Nat

VARIABLES
  now,               \* PostgreSQL's now()
  depends,           \* the DEPENDS_ON edges: <<n, m>> when n depends on m
  \* columns of task_queue; the row id is the order of insertion
  state, task_node_id, priority, leased_by, lease_expires_at, attempts,
  \* columns of nodes
  locked_by, lock_expires_at,
  handoff,           \* the nodes whose handoff marker a node's body carries
  activities         \* rows of agent_activities about tasks

queueVars == <<state, task_node_id, priority, leased_by, lease_expires_at, attempts>>
lockVars == <<locked_by, lock_expires_at>>
vars == <<now, depends, queueVars, lockVars, handoff, activities>>

Rows == 1 .. MaxRows
States == {"ABSENT", "READY", "IN_PROGRESS", "BLOCKED", "DONE", "FAILED"}
Outcomes == {"TASK_COMPLETED", "TASK_FAILED"}
ActivityTypes == {"TASK_CHECKOUT"} \cup Outcomes

Present(r) == state[r] # "ABSENT"

(***************************************************************************)
(* Dependencies.  A row's prerequisites are the targets of its node's      *)
(* edges; a target counts as done when its LATEST row is.                  *)
(***************************************************************************)
Targets(n) == {m \in Nodes : <<n, m>> \in depends}

\* n has rows, and in st the latest of them is DONE.
LatestDone(st, n) ==
  \E r \in Rows : /\ task_node_id[r] = n
                  /\ st[r] = "DONE"
                  /\ \A q \in Rows : task_node_id[q] = n => q <= r

\* The TASK-type targets that keep n from being ready when it is enqueued.
Blocking(n) == {m \in Targets(n) \cap TaskNodes : ~LatestDone(state, m)}

\* n can reach itself: it lies in every set that holds its targets and theirs.
HasCycle(n) ==
  \A S \in SUBSET Nodes :
    Targets(n) \subseteq S /\ (\A m \in S : Targets(m) \subseteq S) => n \in S

\* The BLOCKED rows of the nodes that depend on n.
BlockedDependents(st, n) ==
  {d \in Rows : st[d] = "BLOCKED" /\ n \in Targets(task_node_id[d])}

\* Those whose targets are ALL done once n is; every target counts here,
\* whatever its type.
Unblockable(st, n) ==
  {d \in BlockedDependents(st, n) :
     \A m \in Targets(task_node_id[d]) : LatestDone(st, m)}

\* Mutant of Unblocked: the completion leaves its dependents alone.
UnblockedNever(st, n) == st

Unblocked(st, n) ==
  [d \in Rows |-> IF d \in Unblockable(st, n) THEN "READY" ELSE st[d]]

-----------------------------------------------------------------------------
(***************************************************************************)
(* Handoff: the completed node's context is appended to the body of each   *)
(* dependent that is in the queue.  upsert_node skips a record whose       *)
(* content_hash is already stored, which is so of every hashed node, since *)
(* the record written still carries the hash of the row it came from.      *)
(***************************************************************************)
Dependents(st, n) ==
  {task_node_id[d] : d \in {e \in Rows : /\ st[e] \in {"BLOCKED", "READY", "IN_PROGRESS"}
                                         /\ n \in Targets(task_node_id[e])}}

PropagateContext(st, n) ==
  handoff' = [d \in Nodes |-> IF d \in Dependents(st, n) \ HashedNodes
                              THEN handoff[d] \cup {n}
                              ELSE handoff[d]]

-----------------------------------------------------------------------------
(***************************************************************************)
(* Node locks.                                                             *)
(***************************************************************************)
LockFree(n, a) == \/ locked_by[n] \in {NoAgent, a}
                  \/ lock_expires_at[n] < now

\* The attempt is silent when another agent's lock is live.
AcquireLock(n, a, d) ==
  IF LockFree(n, a)
  THEN /\ locked_by' = [locked_by EXCEPT ![n] = a]
       /\ lock_expires_at' = [lock_expires_at EXCEPT ![n] = now + d]
  ELSE UNCHANGED lockVars

\* The locks that satisfy P are cleared.
ClearLocks(S) ==
  /\ locked_by' = [n \in Nodes |-> IF n \in S THEN NoAgent ELSE locked_by[n]]
  /\ lock_expires_at' = [n \in Nodes |-> IF n \in S THEN 0 ELSE lock_expires_at[n]]

\* Mutant of ReleaseLock: the lock is left to expire.
ReleaseLockNever(n, a) == UNCHANGED lockVars

ReleaseLock(n, a) == ClearLocks({m \in Nodes : m = n /\ a # NoAgent /\ locked_by[m] = a})

ReleaseAllLocks(a) ==
  /\ ClearLocks({n \in Nodes : locked_by[n] = a})
  /\ UNCHANGED <<now, depends, queueVars, handoff, activities>>

CleanupExpiredLocks ==
  /\ ClearLocks({n \in Nodes : locked_by[n] # NoAgent /\ lock_expires_at[n] < now})
  /\ UNCHANGED <<now, depends, queueVars, handoff, activities>>

-----------------------------------------------------------------------------
(***************************************************************************)
(* The task service.                                                       *)
(***************************************************************************)
\* INSERT INTO task_queue: the row gets the next id in creation order.
InsertRow(n, p, st) ==
  \E r \in Rows :
    /\ \A q \in Rows : Present(q) <=> q < r
    /\ state' = [state EXCEPT ![r] = st]
    /\ task_node_id' = [task_node_id EXCEPT ![r] = n]
    /\ priority' = [priority EXCEPT ![r] = p]
    /\ UNCHANGED <<leased_by, lease_expires_at, attempts>>
    /\ UNCHANGED <<now, depends, lockVars, handoff, activities>>

\* Rejected when n lies on a cycle or is not a TASK.
Enqueue(n, p) ==
  /\ ~HasCycle(n)
  /\ n \in TaskNodes
  /\ InsertRow(n, p, IF Blocking(n) = {} THEN "READY" ELSE "BLOCKED")

\* Mutants of Expired: attempts are not looked at; the lease is not looked at.
ExpiredUnlimited(r) == state[r] = "IN_PROGRESS" /\ lease_expires_at[r] < now
ExpiredAtOnce(r) == state[r] = "IN_PROGRESS" /\ attempts[r] < MaxAttempts

Expired(r) == /\ state[r] = "IN_PROGRESS"
              /\ lease_expires_at[r] < now
              /\ attempts[r] < MaxAttempts

\* Mutant of RequeueExpired: the requeued row keeps its lease columns.
RequeueExpiredKeepsLease ==
  /\ state' = [r \in Rows |-> IF Expired(r) THEN "READY" ELSE state[r]]
  /\ UNCHANGED <<task_node_id, priority, leased_by, lease_expires_at, attempts>>
  /\ UNCHANGED <<now, depends, lockVars, handoff, activities>>

RequeueExpired ==
  /\ state' = [r \in Rows |-> IF Expired(r) THEN "READY" ELSE state[r]]
  /\ leased_by' = [r \in Rows |-> IF Expired(r) THEN NoAgent ELSE leased_by[r]]
  /\ lease_expires_at' = [r \in Rows |-> IF Expired(r) THEN 0 ELSE lease_expires_at[r]]
  /\ UNCHANGED <<task_node_id, priority, attempts>>
  /\ UNCHANGED <<now, depends, lockVars, handoff, activities>>

\* The rows a checkout with this role filter may take, once the expired ones
\* have been requeued.
Eligible(role) == {r \in Rows : /\ state[r] = "READY" \/ Expired(r)
                                /\ \/ role = "admin"
                                   \/ role \in RoleTags[task_node_id[r]]}

FirstRow(r) == \A q \in Rows : task_node_id[q] = task_node_id[r] => r <= q

\* One transaction inserted both: created_at, which is now(), is the same.
Together(r, q) == \E batch \in Batches : /\ {task_node_id[r], task_node_id[q]} \subseteq batch
                                        /\ FirstRow(r) /\ FirstRow(q)

\* r is not ordered behind q: by priority, then by created_at.
Before(r, q) == \/ priority[r] < priority[q]
                \/ priority[r] = priority[q] /\ (r <= q \/ Together(r, q))

First(role) == {r \in Eligible(role) : \A q \in Eligible(role) : Before(r, q)}

\* TaskService.checkout of row r after requeue_expired, in one transaction.
Lease(r, a, d) ==
  /\ state' = [q \in Rows |-> IF q = r THEN "IN_PROGRESS"
                              ELSE IF Expired(q) THEN "READY" ELSE state[q]]
  /\ leased_by' = [q \in Rows |-> IF q = r THEN a
                                  ELSE IF Expired(q) THEN NoAgent ELSE leased_by[q]]
  /\ lease_expires_at' = [q \in Rows |-> IF q = r THEN now + d
                                         ELSE IF Expired(q) THEN 0 ELSE lease_expires_at[q]]
  /\ attempts' = [attempts EXCEPT ![r] = @ + 1]
  /\ AcquireLock(task_node_id[r], a, d)
  /\ activities' = activities \cup {<<"TASK_CHECKOUT", a, r>>}
  /\ UNCHANGED <<now, depends, task_node_id, priority, handoff>>

\* Mutant of CheckoutAs: the expired rows are not requeued first.
CheckoutAsNoRequeue(role, a, d) ==
  \E r \in First(role) : state[r] = "READY" /\ Lease(r, a, d)

\* The transaction of a checkout call: requeue, then take the first row.
CheckoutAs(role, a, d) ==
  \/ Eligible(role) = {} /\ RequeueExpired
  \/ \E r \in First(role) : Lease(r, a, d)

\* Mutant of CanCheckout: only workers are let in.
CanCheckoutWorkers(role) == role = "worker"

CanCheckout(role) == role \in {"worker", "admin"}

\* The MCP tool: roles that may not check out are refused, all but admin
\* are given only the rows tagged with their role.
McpCheckout(a) == CanCheckout(RoleOf[a]) /\ CheckoutAs(RoleOf[a], a, McpLease)

\* The command line registers its agent as admin and filters nothing.
CliCheckout(a, d) == CheckoutAs("admin", a, d)

Record(type, r) == activities' = IF leased_by[r] = NoAgent THEN activities
                                 ELSE activities \cup {<<type, leased_by[r], r>>}

\* Mutant of Complete: a row in any state but BLOCKED is accepted.
CompleteAnyState(r) ==
  LET n == task_node_id[r]
      done == [state EXCEPT ![r] = "DONE"]
  IN /\ state[r] \notin {"ABSENT", "BLOCKED"}
     /\ ReleaseLock(n, leased_by[r])
     /\ state' = Unblocked(done, n)
     /\ PropagateContext(state', n)
     /\ Record("TASK_COMPLETED", r)
     /\ UNCHANGED <<now, depends, task_node_id, priority, leased_by,
                    lease_expires_at, attempts>>

\* Any caller that knows the row's id may report on it.
Complete(r) ==
  LET n == task_node_id[r]
      done == [state EXCEPT ![r] = "DONE"]
  IN /\ state[r] = "IN_PROGRESS"
     /\ ReleaseLock(n, leased_by[r])
     /\ state' = Unblocked(done, n)
     /\ PropagateContext(state', n)
     /\ Record("TASK_COMPLETED", r)
     /\ UNCHANGED <<now, depends, task_node_id, priority, leased_by,
                    lease_expires_at, attempts>>

\* Mutant of Fail: a finished row can still be failed.
FailAfterDone(r) ==
  /\ state[r] \in {"IN_PROGRESS", "DONE"}
  /\ state' = [state EXCEPT ![r] = "FAILED"]
  /\ ReleaseLock(task_node_id[r], leased_by[r])
  /\ Record("TASK_FAILED", r)
  /\ UNCHANGED <<now, depends, task_node_id, priority, leased_by,
                 lease_expires_at, attempts, handoff>>

Fail(r) ==
  /\ state[r] = "IN_PROGRESS"
  /\ state' = [state EXCEPT ![r] = "FAILED"]
  /\ ReleaseLock(task_node_id[r], leased_by[r])
  /\ Record("TASK_FAILED", r)
  /\ UNCHANGED <<now, depends, task_node_id, priority, leased_by,
                 lease_expires_at, attempts, handoff>>

-----------------------------------------------------------------------------
\* A DEPENDS_ON edge is ingested; inserting it twice changes nothing.
IngestEdge(e) ==
  /\ depends' = depends \cup {e}
  /\ UNCHANGED <<now, queueVars, lockVars, handoff, activities>>

Tick == /\ now < MaxTime
        /\ now' = now + 1
        /\ UNCHANGED <<depends, queueVars, lockVars, handoff, activities>>

-----------------------------------------------------------------------------
Init == /\ now = 0
        /\ depends = {}
        /\ state = [r \in Rows |-> "ABSENT"]
        /\ task_node_id = [r \in Rows |-> NoNode]
        /\ priority = [r \in Rows |-> 0]
        /\ leased_by = [r \in Rows |-> NoAgent]
        /\ lease_expires_at = [r \in Rows |-> 0]
        /\ attempts = [r \in Rows |-> 0]
        /\ locked_by = [n \in Nodes |-> NoAgent]
        /\ lock_expires_at = [n \in Nodes |-> 0]
        /\ handoff = [n \in Nodes |-> {}]
        /\ activities = {}

Next == \/ \E n \in Nodes, p \in Priorities : Enqueue(n, p)
        \/ \E a \in Agents : McpCheckout(a) \/ ReleaseAllLocks(a)
        \/ \E a \in Agents, d \in Leases : CliCheckout(a, d)
        \/ \E r \in Rows : Complete(r) \/ Fail(r)
        \/ RequeueExpired
        \/ CleanupExpiredLocks
        \/ \E e \in EdgeChoices : IngestEdge(e)
        \/ Tick

Spec == Init /\ [][Next]_vars

\* Agents keep polling for work and time goes on.  Nothing obliges an agent
\* to report, nor anyone to ingest, enqueue or clean up.
Polling == /\ \A a \in Agents : WF_vars(McpCheckout(a))
           /\ WF_vars(Tick)

FairSpec == Spec /\ Polling

-----------------------------------------------------------------------------
(***************************************************************************)
(* Properties.                                                             *)
(***************************************************************************)
\* Every column holds a value its SQL type and constraints allow; a row in the
\* queue is a TASK's, and carries a lease exactly once it has been handed out.
TypeOK ==
  /\ now \in Nat
  /\ depends \subseteq Nodes \X Nodes
  /\ state \in [Rows -> States]
  /\ task_node_id \in [Rows -> Nodes \cup {NoNode}]
  /\ priority \in [Rows -> Nat]
  /\ leased_by \in [Rows -> Agents \cup {NoAgent}]
  /\ lease_expires_at \in [Rows -> Nat]
  /\ attempts \in [Rows -> Nat]
  /\ locked_by \in [Nodes -> Agents \cup {NoAgent}]
  /\ lock_expires_at \in [Nodes -> Nat]
  /\ handoff \in [Nodes -> SUBSET Nodes]
  /\ activities \subseteq ActivityTypes \X Agents \X Rows
  /\ \A r \in Rows :
       /\ Present(r) => task_node_id[r] \in TaskNodes
       /\ ~Present(r) => task_node_id[r] = NoNode
       /\ state[r] \in {"ABSENT", "READY", "BLOCKED"} <=> leased_by[r] = NoAgent

\* No row is leased more than max_attempts times: requeue_expired leaves an
\* expired row alone once its attempts are used up, so a row that waits can
\* always still be leased once, and only a leased row may have used them all.
AttemptsBounded ==
  \A r \in Rows : /\ state[r] \in {"ABSENT", "READY", "BLOCKED"} =>
                       attempts[r] < MaxAttempts
                  /\ attempts[r] <= MaxAttempts

\* A row waiting for its first attempt has never been leased; a row in
\* progress or reported on names the agent it was leased to, who has a
\* TASK_CHECKOUT activity for it; and an outcome is recorded once, for that
\* agent, exactly when the row has that outcome.
OutcomeCredited ==
  \A r \in Rows :
    /\ state[r] \in {"IN_PROGRESS", "DONE", "FAILED"} =>
         <<"TASK_CHECKOUT", leased_by[r], r>> \in activities
    /\ \A a \in Agents :
         /\ <<"TASK_COMPLETED", a, r>> \in activities
              <=> state[r] = "DONE" /\ leased_by[r] = a
         /\ <<"TASK_FAILED", a, r>> \in activities
              <=> state[r] = "FAILED" /\ leased_by[r] = a

\* No unblocking is lost: a BLOCKED row always has a prerequisite whose
\* latest row is not DONE, so some completion is still to come that looks at
\* it.  Rows may be enqueued again and edges added at any time.
BlockedIsWaiting ==
  \A r \in Rows : state[r] = "BLOCKED" =>
    \E m \in Targets(task_node_id[r]) : ~LatestDone(state, m)

\* No lock outlives its purpose: while a node's lock is live, the holder has
\* a row of that node in progress whose lease ends when the lock does.
LockBackedByLease ==
  \A n \in Nodes : locked_by[n] # NoAgent /\ lock_expires_at[n] >= now =>
    \E r \in Rows : /\ state[r] = "IN_PROGRESS"
                    /\ task_node_id[r] = n
                    /\ leased_by[r] = locked_by[n]
                    /\ lease_expires_at[r] = lock_expires_at[n]

\* A node only ever carries the context of a node it depends on and that has
\* been completed.
HandoffFromPrerequisite ==
  \A n, m \in Nodes : m \in handoff[n] =>
    /\ m \in Targets(n)
    /\ \E r \in Rows : task_node_id[r] = m /\ state[r] = "DONE"

\* A live lease is never taken from its agent: the row stays leased to it
\* until it is reported on or the lease runs out.
LeaseHonoured ==
  [][\A r \in Rows : state[r] = "IN_PROGRESS" /\ lease_expires_at[r] >= now =>
       \/ state'[r] \in {"DONE", "FAILED"}
       \/ /\ state'[r] = "IN_PROGRESS"
          /\ leased_by'[r] = leased_by[r]
          /\ lease_expires_at'[r] = lease_expires_at[r]]_vars

\* The queue keeps the promise stated in TaskLifecycle.
Lifecycle == INSTANCE TaskLifecycle WITH status <- state, leases <- attempts
KeepsLifecycle == Lifecycle!LifecycleSpec

\* While an admin agent polls, an expired row with an attempt left does not
\* stay expired: it is requeued, leased again, or reported on.
ExpiredRowRecovered == \A r \in Rows : Expired(r) ~> ~Expired(r)

\* A row inserted after r waits that a checkout prefers to r.
Overtaken(r) == \E q \in Eligible("admin") : q > r /\ priority[q] < priority[r]

\* While an admin agent polls, a READY row waits for ever only if newer, more
\* urgent rows come again and again: no older row, no row of its own priority
\* and no lease that runs out keeps it waiting, and nothing else is needed.
ReadyRowServed == \A r \in Rows : state[r] = "READY" ~> state[r] # "READY" \/ Overtaken(r)
=============================================================================
