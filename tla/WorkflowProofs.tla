--------------------------- MODULE WorkflowProofs ---------------------------
(***************************************************************************)
(* Theorems about the queue and about the workflows that run on it.  The   *)
(* first part knows nothing of workflows: for any number of nodes, rows    *)
(* and agents, any edges, lease durations and attempt limit, a row that is *)
(* leased, reported, requeued or released moves as the lifecycle allows.   *)
(* The second part is about workflows of any shape, any number of them at  *)
(* once: no task is handed out before those it depends on are done, and it *)
(* then has their context.                                                 *)
(***************************************************************************)
EXTENDS Workflow, TLAPS

USE NodesAssumption, AgentsAssumption, NumbersAssumption
    DEF NodesAssumption, AgentsAssumption, NumbersAssumption, Rows

(***************************************************************************)
(* Type correctness.                                                       *)
(***************************************************************************)
LEMMA InitTypeOK == Init => TypeOK
BY DEF Init, TypeOK, States, Present

\* Clearing locks keeps the lock columns typed.
LEMMA ClearLocksType ==
  ASSUME TypeOK, NEW S, ClearLocks(S)
  PROVE  /\ locked_by' \in [Nodes -> Agents \cup {NoAgent}]
         /\ lock_expires_at' \in [Nodes -> Nat]
BY DEF ClearLocks, TypeOK

LEMMA EnqueueTypeOK ==
  ASSUME TypeOK, NEW n \in Nodes, NEW p \in Priorities, Enqueue(n, p)
  PROVE  TypeOK'
<1> DEFINE st == IF Blocking(n) = {} THEN "READY" ELSE "BLOCKED"
<1>1. st \in {"READY", "BLOCKED"} /\ n \in TaskNodes
  BY DEF Enqueue
<1> HIDE DEF st
<1>2. PICK r \in Rows :
        /\ \A q \in Rows : Present(q) <=> q < r
        /\ state' = [state EXCEPT ![r] = st]
        /\ task_node_id' = [task_node_id EXCEPT ![r] = n]
        /\ priority' = [priority EXCEPT ![r] = p]
        /\ UNCHANGED <<leased_by, lease_expires_at, attempts>>
        /\ UNCHANGED <<now, depends, lockVars, handoff, activities>>
  BY DEF Enqueue, InsertRow, st
<1>3. state[r] = "ABSENT"
  BY <1>2 DEF Present, TypeOK
<1>. QED
  BY <1>1, <1>2, <1>3 DEF TypeOK, States, Present, lockVars

LEMMA LeaseTypeOK ==
  ASSUME TypeOK, NEW role, NEW r \in Eligible(role), NEW a \in Agents,
         NEW d \in Nat, Lease(r, a, d)
  PROVE  TypeOK'
<1>1. r \in Rows /\ state[r] \in {"READY", "IN_PROGRESS"}
  BY DEF Eligible, Expired
<1>2. /\ locked_by' \in [Nodes -> Agents \cup {NoAgent}]
      /\ lock_expires_at' \in [Nodes -> Nat]
  <2>1. CASE LockFree(task_node_id[r], a)
    <3>1. /\ locked_by' = [locked_by EXCEPT ![task_node_id[r]] = a]
          /\ lock_expires_at' = [lock_expires_at EXCEPT ![task_node_id[r]] = now + d]
      BY <2>1 DEF Lease, AcquireLock
    <3>2. now + d \in Nat
      BY DEF TypeOK
    <3>. QED
      BY <3>1, <3>2 DEF TypeOK
  <2>2. CASE ~LockFree(task_node_id[r], a)
    BY <2>2 DEF Lease, AcquireLock, lockVars, TypeOK
  <2>. QED
    BY <2>1, <2>2
<1>3. activities' \subseteq ActivityTypes \X Agents \X Rows
  BY <1>1 DEF Lease, TypeOK, ActivityTypes
<1>4. /\ state' \in [Rows -> States]
      /\ leased_by' \in [Rows -> Agents \cup {NoAgent}]
      /\ lease_expires_at' \in [Rows -> Nat]
      /\ attempts' \in [Rows -> Nat]
  BY <1>1 DEF Lease, TypeOK, States
<1>5. \A q \in Rows :
        /\ Present(q)' => task_node_id'[q] \in TaskNodes
        /\ ~Present(q)' => task_node_id'[q] = NoNode
        /\ state'[q] \in {"ABSENT", "READY", "BLOCKED"} <=> leased_by'[q] = NoAgent
  BY <1>1 DEF Lease, TypeOK, States, Present, Expired
<1>. QED
  BY <1>2, <1>3, <1>4, <1>5 DEF Lease, TypeOK

LEMMA RequeueTypeOK == TypeOK /\ RequeueExpired => TypeOK'
BY DEF RequeueExpired, TypeOK, States, Present, Expired, lockVars

LEMMA CompleteTypeOK ==
  ASSUME TypeOK, NEW r \in Rows, Complete(r)
  PROVE  TypeOK'
<1> DEFINE n == task_node_id[r]
           done == [state EXCEPT ![r] = "DONE"]
<1>1. state' \in [Rows -> States]
  BY DEF Complete, Unblocked, TypeOK, States
<1>2. n \in Nodes /\ leased_by[r] \in Agents
  BY DEF Complete, TypeOK, Present
<1>3. /\ locked_by' \in [Nodes -> Agents \cup {NoAgent}]
      /\ lock_expires_at' \in [Nodes -> Nat]
  BY ClearLocksType DEF Complete, ReleaseLock
<1>4. handoff' \in [Nodes -> SUBSET Nodes]
  BY <1>2 DEF Complete, PropagateContext, TypeOK
<1>5. activities' \subseteq ActivityTypes \X Agents \X Rows
  BY <1>2 DEF Complete, Record, TypeOK, ActivityTypes, Outcomes
<1>6. \A q \in Rows :
        /\ Present(q)' => task_node_id'[q] \in TaskNodes
        /\ ~Present(q)' => task_node_id'[q] = NoNode
        /\ state'[q] \in {"ABSENT", "READY", "BLOCKED"} <=> leased_by'[q] = NoAgent
  BY DEF Complete, Unblocked, Unblockable, BlockedDependents, TypeOK, States, Present
<1>. QED
  BY <1>1, <1>3, <1>4, <1>5, <1>6 DEF Complete, TypeOK

LEMMA FailTypeOK ==
  ASSUME TypeOK, NEW r \in Rows, Fail(r)
  PROVE  TypeOK'
<1>1. leased_by[r] \in Agents
  BY DEF Fail, TypeOK
<1>2. /\ locked_by' \in [Nodes -> Agents \cup {NoAgent}]
      /\ lock_expires_at' \in [Nodes -> Nat]
  BY ClearLocksType DEF Fail, ReleaseLock
<1>3. activities' \subseteq ActivityTypes \X Agents \X Rows
  BY <1>1 DEF Fail, Record, TypeOK, ActivityTypes, Outcomes
<1>4. \A q \in Rows :
        /\ Present(q)' => task_node_id'[q] \in TaskNodes
        /\ ~Present(q)' => task_node_id'[q] = NoNode
        /\ state'[q] \in {"ABSENT", "READY", "BLOCKED"} <=> leased_by'[q] = NoAgent
  BY DEF Fail, TypeOK, States, Present
<1>. QED
  BY <1>2, <1>3, <1>4 DEF Fail, TypeOK, States

\* The actions that only touch locks, edges or the clock.
LEMMA OthersTypeOK ==
  ASSUME TypeOK,
         \/ \E a \in Agents : ReleaseAllLocks(a)
         \/ CleanupExpiredLocks
         \/ \E e \in EdgeChoices : IngestEdge(e)
         \/ Tick
  PROVE  TypeOK'
<1>1. CASE \E a \in Agents : ReleaseAllLocks(a)
  BY <1>1, ClearLocksType DEF ReleaseAllLocks, TypeOK, queueVars, Present
<1>2. CASE CleanupExpiredLocks
  BY <1>2, ClearLocksType DEF CleanupExpiredLocks, TypeOK, queueVars, Present
<1>3. CASE \E e \in EdgeChoices : IngestEdge(e)
  BY <1>3 DEF IngestEdge, TypeOK, queueVars, lockVars, Present
<1>4. CASE Tick
  <2>1. now' \in Nat
    BY <1>4 DEF Tick, TypeOK
  <2>2. UNCHANGED <<depends, state, task_node_id, priority, leased_by, lease_expires_at,
                    attempts, locked_by, lock_expires_at, handoff, activities>>
    BY <1>4, Zenon DEF Tick, queueVars, lockVars
  <2>. QED
    BY <2>1, <2>2 DEF TypeOK, Present
<1>. QED
  BY <1>1, <1>2, <1>3, <1>4

\* Every step is one of these; a checkout is a requeue or a lease of an
\* eligible row.
LEMMA NextCases ==
  ASSUME Next
  PROVE  \/ \E n \in Nodes, p \in Priorities : Enqueue(n, p)
         \/ \E role : \E r \in First(role), a \in Agents, d \in Nat :
              Lease(r, a, d)
         \/ RequeueExpired
         \/ \E r \in Rows : Complete(r)
         \/ \E r \in Rows : Fail(r)
         \/ \E a \in Agents : ReleaseAllLocks(a)
         \/ CleanupExpiredLocks
         \/ \E e \in EdgeChoices : IngestEdge(e)
         \/ Tick
<1> DEFINE Leased == \E role : \E r \in First(role), a \in Agents, d \in Nat :
                       Lease(r, a, d)
<1>1. ASSUME NEW role, NEW a \in Agents, NEW d \in Nat, CheckoutAs(role, a, d)
      PROVE  RequeueExpired \/ Leased
  BY <1>1 DEF CheckoutAs
<1> HIDE DEF Leased
<1>2. ASSUME NEW a \in Agents, McpCheckout(a)
      PROVE  RequeueExpired \/ Leased
  <2>1. McpLease \in Nat
    OBVIOUS
  <2>2. CheckoutAs(RoleOf[a], a, McpLease)
    BY <1>2 DEF McpCheckout
  <2>. QED
    BY <1>1, <2>1, <2>2
<1>3. ASSUME NEW a \in Agents, NEW d \in Leases, CliCheckout(a, d)
      PROVE  RequeueExpired \/ Leased
  <2>1. d \in Nat
    OBVIOUS
  <2>. QED
    BY <1>1, <1>3, <2>1 DEF CliCheckout
<1>4. \/ \E n \in Nodes, p \in Priorities : Enqueue(n, p)
      \/ Leased
      \/ RequeueExpired
      \/ \E r \in Rows : Complete(r)
      \/ \E r \in Rows : Fail(r)
      \/ \E a \in Agents : ReleaseAllLocks(a)
      \/ CleanupExpiredLocks
      \/ \E e \in EdgeChoices : IngestEdge(e)
      \/ Tick
  BY <1>2, <1>3 DEF Next
<1>. QED
  BY <1>4 DEF Leased

LEMMA NextTypeOK == TypeOK /\ [Next]_vars => TypeOK'
<1>1. ASSUME TypeOK, Next PROVE TypeOK'
  <2>1. ASSUME NEW role, NEW r \in First(role), NEW a \in Agents,
               NEW d \in Nat, Lease(r, a, d)
        PROVE  TypeOK'
    BY <1>1, <2>1, LeaseTypeOK DEF First
  <2>. QED
    BY <1>1, <2>1, NextCases, EnqueueTypeOK, RequeueTypeOK, CompleteTypeOK,
       FailTypeOK, OthersTypeOK
<1>2. TypeOK /\ UNCHANGED vars => TypeOK'
  BY DEF vars, queueVars, lockVars, TypeOK, Present
<1>. QED
  BY <1>1, <1>2

\* The columns keep their types and the lease columns their coherence.
THEOREM TypeCorrect == Spec => []TypeOK
BY InitTypeOK, NextTypeOK, PTL DEF Spec

(***************************************************************************)
(* The rows live the abstract lifecycle.  A ready or blocked row must be   *)
(* known to have an attempt left when it is leased, so the attempt bound   *)
(* is the inductive invariant that carries the refinement.                 *)
(***************************************************************************)
\* What a step may do to the two columns the lifecycle sees, row by row.
LEMMA EnqueueRows ==
  ASSUME TypeOK, NEW n \in Nodes, NEW p \in Priorities, Enqueue(n, p)
  PROVE  \E r \in Rows : /\ state[r] = "ABSENT"
                         /\ \/ state' = [state EXCEPT ![r] = "READY"]
                            \/ /\ state' = [state EXCEPT ![r] = "BLOCKED"]
                               /\ Blocking(n) # {}
                         /\ \A q \in Rows : Present(q) <=> q < r
                         /\ task_node_id' = [task_node_id EXCEPT ![r] = n]
                         /\ UNCHANGED <<leased_by, lease_expires_at, attempts, now,
                                        depends, lockVars, handoff, activities>>
<1>1. PICK r \in Rows :
        /\ \A q \in Rows : Present(q) <=> q < r
        /\ state' = [state EXCEPT ![r] = IF Blocking(n) = {} THEN "READY" ELSE "BLOCKED"]
        /\ task_node_id' = [task_node_id EXCEPT ![r] = n]
        /\ UNCHANGED <<leased_by, lease_expires_at, attempts>>
        /\ UNCHANGED <<now, depends, lockVars, handoff, activities>>
  BY DEF Enqueue, InsertRow
<1>2. state[r] = "ABSENT"
  BY <1>1 DEF Present, TypeOK
<1>. QED
  BY <1>1, <1>2

\* A row takes a step of the lifecycle or rests.
RowStep(r) == \/ Lifecycle!Insert(r) \/ Lifecycle!Unblock(r) \/ Lifecycle!Lease(r)
              \/ Lifecycle!Revoke(r) \/ Lifecycle!Report(r) \/ Lifecycle!Rest(r)

LEMMA EnqueueRowStep ==
  ASSUME TypeOK, NEW n \in Nodes, NEW p \in Priorities, Enqueue(n, p), NEW q \in Rows
  PROVE  RowStep(q)
<1>1. PICK r \in Rows : /\ state[r] = "ABSENT"
                        /\ \/ state' = [state EXCEPT ![r] = "READY"]
                           \/ state' = [state EXCEPT ![r] = "BLOCKED"]
                        /\ attempts' = attempts
  BY EnqueueRows
<1>2. CASE q = r
  BY <1>1, <1>2 DEF RowStep, Lifecycle!Insert, Lifecycle!Become, TypeOK
<1>3. CASE q # r
  BY <1>1, <1>3 DEF RowStep, Lifecycle!Rest, TypeOK
<1>. QED
  BY <1>2, <1>3

LEMMA LeaseRowStep ==
  ASSUME TypeOK, AttemptsBounded, NEW role, NEW r \in Eligible(role), NEW a, NEW d,
         Lease(r, a, d), NEW q \in Rows
  PROVE  RowStep(q)
<1>1. r \in Rows /\ (state[r] = "READY" \/ Expired(r))
  BY DEF Eligible
<1>2. CASE q = r
  <2>1. /\ state[r] \in {"READY", "IN_PROGRESS"}
        /\ attempts[r] < MaxAttempts
        /\ state'[r] = "IN_PROGRESS"
        /\ attempts'[r] = attempts[r] + 1
    BY <1>1 DEF Lease, Expired, AttemptsBounded, TypeOK
  <2>. QED
    BY <1>2, <2>1 DEF RowStep, Lifecycle!Lease, Lifecycle!Become
<1>3. CASE q # r /\ Expired(q)
  BY <1>3 DEF Lease, Expired, TypeOK, RowStep, Lifecycle!Revoke, Lifecycle!Become
<1>4. CASE q # r /\ ~Expired(q)
  BY <1>4 DEF Lease, TypeOK, RowStep, Lifecycle!Rest
<1>. QED
  BY <1>2, <1>3, <1>4

LEMMA RequeueRowStep ==
  ASSUME TypeOK, RequeueExpired, NEW q \in Rows
  PROVE  RowStep(q)
<1>1. CASE Expired(q)
  BY <1>1 DEF RequeueExpired, Expired, RowStep, Lifecycle!Revoke, Lifecycle!Become
<1>2. CASE ~Expired(q)
  BY <1>2 DEF RequeueExpired, RowStep, Lifecycle!Rest
<1>. QED
  BY <1>1, <1>2

LEMMA CompleteRowStep ==
  ASSUME TypeOK, NEW r \in Rows, Complete(r), NEW q \in Rows
  PROVE  RowStep(q)
<1> DEFINE done == [state EXCEPT ![r] = "DONE"]
           freed == Unblockable(done, task_node_id[r])
<1>1. /\ state[r] = "IN_PROGRESS"
      /\ state' = [d \in Rows |-> IF d \in freed THEN "READY" ELSE done[d]]
      /\ attempts' = attempts
  BY DEF Complete, Unblocked
<1>2. \A d \in freed : done[d] = "BLOCKED"
  BY DEF Unblockable, BlockedDependents
<1> HIDE DEF freed
<1>3. CASE q = r
  BY <1>1, <1>2, <1>3 DEF TypeOK, RowStep, Lifecycle!Report, Lifecycle!Become
<1>4. CASE q # r /\ q \in freed
  BY <1>1, <1>2, <1>4 DEF TypeOK, RowStep, Lifecycle!Unblock, Lifecycle!Become
<1>5. CASE q # r /\ q \notin freed
  BY <1>1, <1>5 DEF TypeOK, RowStep, Lifecycle!Rest
<1>. QED
  BY <1>3, <1>4, <1>5

LEMMA FailRowStep ==
  ASSUME TypeOK, NEW r \in Rows, Fail(r), NEW q \in Rows
  PROVE  RowStep(q)
<1>1. CASE q = r
  BY <1>1 DEF Fail, TypeOK, RowStep, Lifecycle!Report, Lifecycle!Become
<1>2. CASE q # r
  BY <1>2 DEF Fail, TypeOK, RowStep, Lifecycle!Rest
<1>. QED
  BY <1>1, <1>2

\* The remaining actions leave the rows as they are.
LEMMA OthersKeepRows ==
  ASSUME \/ \E a \in Agents : ReleaseAllLocks(a)
         \/ CleanupExpiredLocks
         \/ \E e \in EdgeChoices : IngestEdge(e)
         \/ Tick
  PROVE  UNCHANGED queueVars
BY DEF ReleaseAllLocks, CleanupExpiredLocks, IngestEdge, Tick

LEMMA NextRowStep ==
  ASSUME TypeOK, AttemptsBounded, Next, NEW q \in Rows
  PROVE  RowStep(q)
<1>1. ASSUME NEW role, NEW r \in First(role), NEW a \in Agents, NEW d \in Nat,
             Lease(r, a, d)
      PROVE  RowStep(q)
  BY <1>1, LeaseRowStep DEF First
<1>2. ASSUME UNCHANGED queueVars
      PROVE  RowStep(q)
  BY <1>2 DEF queueVars, RowStep, Lifecycle!Rest
<1>. QED
  BY <1>1, <1>2, NextCases, EnqueueRowStep, RequeueRowStep, CompleteRowStep,
     FailRowStep, OthersKeepRows

\* A lifecycle step keeps the attempts of a row within bounds.
LEMMA StepAttemptsBounded ==
  TypeOK /\ AttemptsBounded /\ [Next]_vars => AttemptsBounded'
<1>1. ASSUME TypeOK, AttemptsBounded, Next PROVE AttemptsBounded'
  <2>1. SUFFICES ASSUME NEW r \in Rows
                 PROVE  /\ state'[r] \in {"ABSENT", "READY", "BLOCKED"} =>
                             attempts'[r] < MaxAttempts
                        /\ attempts'[r] <= MaxAttempts
    BY DEF AttemptsBounded
  <2>2. RowStep(r)
    BY <1>1, NextRowStep
  <2>. QED
    BY <1>1, <2>2 DEF AttemptsBounded, TypeOK, RowStep, Lifecycle!Become,
       Lifecycle!Insert, Lifecycle!Unblock, Lifecycle!Lease, Lifecycle!Revoke,
       Lifecycle!Report, Lifecycle!Rest
<1>2. AttemptsBounded /\ UNCHANGED vars => AttemptsBounded'
  BY DEF vars, queueVars, AttemptsBounded
<1>. QED
  BY <1>1, <1>2

\* No row is ever leased more than max_attempts times.
THEOREM AttemptsStayBounded == Spec => []AttemptsBounded
<1>1. Init => AttemptsBounded
  BY DEF Init, AttemptsBounded
<1>. QED
  BY <1>1, TypeCorrect, StepAttemptsBounded, PTL DEF Spec

\* The queue implements the abstract lifecycle: every step of it is a step
\* of the lifecycle in which each row moves as TaskLifecycle allows.
THEOREM QueueImplementsLifecycle == Spec => KeepsLifecycle
<1>1. Init => Lifecycle!LifecycleInit
  BY DEF Init, Lifecycle!LifecycleInit
<1>2. TypeOK /\ AttemptsBounded /\ [Next]_vars =>
        [Lifecycle!LifecycleNext]_(Lifecycle!lifecycleVars)
  <2>1. TypeOK /\ AttemptsBounded /\ Next => Lifecycle!LifecycleNext
    BY NextRowStep DEF Lifecycle!LifecycleNext, RowStep
  <2>2. UNCHANGED vars => UNCHANGED Lifecycle!lifecycleVars
    BY DEF vars, queueVars, Lifecycle!lifecycleVars
  <2>. QED
    BY <2>1, <2>2
<1>. QED
  BY <1>1, <1>2, TypeCorrect, AttemptsStayBounded, PTL
     DEF Spec, KeepsLifecycle, Lifecycle!LifecycleSpec

(***************************************************************************)
(* No unblocking is lost.  BlockedIsWaiting is inductive by itself: the    *)
(* latest row of a node becomes DONE only in Complete, which looks at      *)
(* every BLOCKED dependent of that node.                                   *)
(***************************************************************************)
\* LatestDone depends on nothing but the nodes of the rows and which are DONE.
LEMMA LatestDoneFrom ==
  ASSUME NEW s, NEW t, NEW m, LatestDone(s, m),
         \A r \in Rows : s[r] = "DONE" => t[r] = "DONE"
  PROVE  LatestDone(t, m)
BY DEF LatestDone

\* A step that keeps edges, blocked rows and finished rows keeps the waiting.
LEMMA WaitingKept ==
  ASSUME BlockedIsWaiting,
         depends \subseteq depends', task_node_id' = task_node_id,
         \A r \in Rows : state'[r] = "BLOCKED" => state[r] = "BLOCKED",
         \A r \in Rows : state'[r] = "DONE" => state[r] = "DONE"
  PROVE  BlockedIsWaiting'
<1>1. SUFFICES ASSUME NEW r \in Rows, state'[r] = "BLOCKED"
               PROVE  \E m \in Targets(task_node_id[r])' : ~LatestDone(state, m)'
  BY DEF BlockedIsWaiting
<1>2. PICK m \in Targets(task_node_id[r]) : ~LatestDone(state, m)
  BY <1>1 DEF BlockedIsWaiting
<1>3. m \in Targets(task_node_id[r])'
  BY <1>2 DEF Targets
<1>4. ~LatestDone(state, m)'
  BY <1>2 DEF LatestDone
<1>. QED
  BY <1>3, <1>4

LEMMA EnqueueWaiting ==
  ASSUME TypeOK, BlockedIsWaiting, NEW n \in Nodes, NEW p \in Priorities, Enqueue(n, p)
  PROVE  BlockedIsWaiting'
<1>1. PICK r0 \in Rows : /\ state[r0] = "ABSENT"
                         /\ \/ state' = [state EXCEPT ![r0] = "READY"]
                            \/ /\ state' = [state EXCEPT ![r0] = "BLOCKED"]
                               /\ Blocking(n) # {}
                         /\ \A q \in Rows : Present(q) <=> q < r0
                         /\ task_node_id' = [task_node_id EXCEPT ![r0] = n]
                         /\ depends' = depends
  BY EnqueueRows
<1>2. ASSUME NEW m \in Nodes, ~LatestDone(state, m)
      PROVE  ~LatestDone(state, m)'
  <2>1. SUFFICES ASSUME NEW r \in Rows, task_node_id'[r] = m, state'[r] = "DONE",
                        \A q \in Rows : task_node_id'[q] = m => q <= r
                 PROVE  FALSE
    BY DEF LatestDone
  <2>2. r # r0 /\ state[r] = "DONE" /\ task_node_id[r] = m
    BY <1>1, <2>1 DEF TypeOK
  <2>3. r < r0
    BY <1>1, <2>2 DEF Present
  <2>4. n # m
    BY <1>1, <2>1, <2>3 DEF TypeOK
  <2>5. \A q \in Rows : task_node_id[q] = m => q <= r
    <3>1. task_node_id[r0] = NoNode
      BY <1>1 DEF TypeOK, Present
    <3>2. \A q \in Rows : q # r0 => task_node_id'[q] = task_node_id[q]
      BY <1>1 DEF TypeOK
    <3>. QED
      BY <1>2, <2>1, <3>1, <3>2
  <2>. QED
    BY <1>2, <2>2, <2>5 DEF LatestDone
<1>3. SUFFICES ASSUME NEW r \in Rows, state'[r] = "BLOCKED"
               PROVE  \E m \in Targets(task_node_id[r])' : ~LatestDone(state, m)'
  BY DEF BlockedIsWaiting
<1>4. CASE r = r0
  <2>1. PICK m \in Targets(n) : ~LatestDone(state, m)
    BY <1>1, <1>3, <1>4 DEF Blocking, TypeOK
  <2>2. task_node_id'[r] = n
    BY <1>1, <1>4 DEF TypeOK
  <2>3. m \in Nodes /\ m \in Targets(task_node_id[r])'
    BY <1>1, <2>1, <2>2 DEF Targets
  <2>4. ~LatestDone(state, m)'
    BY <1>2, <2>1, <2>3
  <2>. QED
    BY ONLY <2>3, <2>4, Zenon
<1>5. CASE r # r0
  <2>1. state[r] = "BLOCKED" /\ task_node_id'[r] = task_node_id[r]
    BY <1>1, <1>3, <1>5 DEF TypeOK
  <2>2. PICK m \in Targets(task_node_id[r]) : ~LatestDone(state, m)
    BY <2>1 DEF BlockedIsWaiting
  <2>3. m \in Nodes /\ m \in Targets(task_node_id[r])'
    BY <1>1, <2>1, <2>2 DEF Targets
  <2>. QED
    BY <1>2, <2>2, <2>3
<1>. QED
  BY <1>4, <1>5

LEMMA CompleteWaiting ==
  ASSUME TypeOK, BlockedIsWaiting, NEW r \in Rows, Complete(r)
  PROVE  BlockedIsWaiting'
<1> DEFINE n == task_node_id[r]
           done == [state EXCEPT ![r] = "DONE"]
<1>1. /\ state' = [d \in Rows |-> IF d \in Unblockable(done, n) THEN "READY" ELSE done[d]]
      /\ UNCHANGED <<depends, task_node_id>>
  BY DEF Complete, Unblocked
<1>2. \A d \in Rows : state'[d] = "DONE" => done[d] = "DONE"
  BY <1>1 DEF TypeOK
<1>3. ASSUME NEW m, LatestDone(state, m)'
      PROVE  LatestDone(done, m)
  BY <1>1, <1>2, <1>3 DEF LatestDone
<1>4. SUFFICES ASSUME NEW d \in Rows, state'[d] = "BLOCKED"
               PROVE  \E m \in Targets(task_node_id[d]) : ~LatestDone(done, m)
  BY <1>1, <1>3 DEF BlockedIsWaiting, Targets
<1>5. d # r /\ state[d] = "BLOCKED" /\ done[d] = "BLOCKED" /\ d \notin Unblockable(done, n)
  BY <1>1, <1>4 DEF TypeOK
<1>6. CASE n \in Targets(task_node_id[d])
  BY <1>5, <1>6 DEF Unblockable, BlockedDependents
<1>7. CASE n \notin Targets(task_node_id[d])
  <2>1. PICK m \in Targets(task_node_id[d]) : ~LatestDone(state, m)
    BY <1>5 DEF BlockedIsWaiting
  <2>2. m # n
    BY <1>7, <2>1
  <2>3. ~LatestDone(done, m)
    BY <2>1, <2>2 DEF LatestDone, TypeOK
  <2>. QED
    BY <2>1, <2>3
<1>. QED
  BY <1>6, <1>7

LEMMA NextWaiting ==
  TypeOK /\ BlockedIsWaiting /\ [Next]_vars => BlockedIsWaiting'
<1>1. ASSUME TypeOK, BlockedIsWaiting, Next PROVE BlockedIsWaiting'
  <2>1. ASSUME NEW role, NEW r \in First(role), NEW a \in Agents, NEW d \in Nat,
               Lease(r, a, d)
        PROVE  BlockedIsWaiting'
    BY <1>1, <2>1, WaitingKept DEF Lease, TypeOK
  <2>2. RequeueExpired => BlockedIsWaiting'
    BY <1>1, WaitingKept DEF RequeueExpired, TypeOK
  <2>3. ASSUME NEW r \in Rows, Fail(r) PROVE BlockedIsWaiting'
    BY <1>1, <2>3, WaitingKept DEF Fail, TypeOK
  <2>4. (\E a \in Agents : ReleaseAllLocks(a)) => BlockedIsWaiting'
    BY <1>1, WaitingKept DEF ReleaseAllLocks, queueVars
  <2>5. CleanupExpiredLocks => BlockedIsWaiting'
    BY <1>1, WaitingKept DEF CleanupExpiredLocks, queueVars
  <2>6. (\E e \in EdgeChoices : IngestEdge(e)) => BlockedIsWaiting'
    BY <1>1, WaitingKept DEF IngestEdge, queueVars
  <2>7. Tick => BlockedIsWaiting'
    BY <1>1, WaitingKept DEF Tick, queueVars
  <2>. QED
    BY <1>1, <2>1, <2>2, <2>3, <2>4, <2>5, <2>6, <2>7, NextCases, EnqueueWaiting,
       CompleteWaiting
<1>2. BlockedIsWaiting /\ UNCHANGED vars => BlockedIsWaiting'
  BY WaitingKept DEF vars, queueVars
<1>. QED
  BY <1>1, <1>2

\* When calls are serial no unblocking is lost, whatever edges are added and
\* however often nodes are enqueued again.
THEOREM NoUnblockingLost == Spec => []BlockedIsWaiting
<1>1. Init => BlockedIsWaiting
  BY DEF Init, BlockedIsWaiting
<1>. QED
  BY <1>1, TypeCorrect, NextWaiting, PTL DEF Spec

(***************************************************************************)
(* Locks.  A live lock is backed by a lease that ends with it, so the rows *)
(* that requeue_expired takes back never leave a live lock behind, and     *)
(* those reported on release theirs.                                       *)
(***************************************************************************)
\* Row r is the lease that backs the lock of node n.
Backs(r, n) == /\ state[r] = "IN_PROGRESS"
               /\ task_node_id[r] = n
               /\ leased_by[r] = locked_by[n]
               /\ lease_expires_at[r] = lock_expires_at[n]

LiveLock(n) == locked_by[n] # NoAgent /\ lock_expires_at[n] >= now

\* A lock that was live and is unchanged stays backed if its row is unchanged.
LEMMA BackingKept ==
  ASSUME LockBackedByLease, NEW n \in Nodes, LiveLock(n),
         locked_by'[n] = locked_by[n], lock_expires_at'[n] = lock_expires_at[n],
         \A r \in Rows : Backs(r, n) =>
           /\ state'[r] = state[r]
           /\ task_node_id'[r] = task_node_id[r]
           /\ leased_by'[r] = leased_by[r]
           /\ lease_expires_at'[r] = lease_expires_at[r]
  PROVE  \E r \in Rows : Backs(r, n)'
<1>1. PICK r \in Rows : Backs(r, n)
  BY DEF LockBackedByLease, LiveLock, Backs
<1>2. Backs(r, n)'
  BY <1>1 DEF Backs
<1>. QED
  BY <1>2

\* What remains to be shown of a step: every lock live after it is backed.
LEMMA BackedAfter ==
  ASSUME \A n \in Nodes : LiveLock(n)' => \E r \in Rows : Backs(r, n)'
  PROVE  LockBackedByLease'
BY DEF LockBackedByLease, LiveLock, Backs

\* The row behind a live lock is not expired.
LEMMA BackingNotExpired ==
  ASSUME TypeOK, NEW n \in Nodes, NEW r \in Rows, LiveLock(n), Backs(r, n)
  PROVE  ~Expired(r)
BY DEF LiveLock, Backs, Expired, TypeOK

\* Locks that are only cleared stay backed, if the rows are left alone.
LEMMA ClearLocksBacked ==
  ASSUME TypeOK, LockBackedByLease, NEW S \in SUBSET Nodes, ClearLocks(S),
         now' = now, \A n \in Nodes \ S : \A r \in Rows : Backs(r, n) =>
                        /\ state'[r] = state[r]
                        /\ task_node_id'[r] = task_node_id[r]
                        /\ leased_by'[r] = leased_by[r]
                        /\ lease_expires_at'[r] = lease_expires_at[r]
  PROVE  LockBackedByLease'
<1>1. SUFFICES ASSUME NEW n \in Nodes, LiveLock(n)'
               PROVE  \E r \in Rows : Backs(r, n)'
  BY BackedAfter
<1>2. n \notin S /\ locked_by'[n] = locked_by[n] /\ lock_expires_at'[n] = lock_expires_at[n]
  BY <1>1 DEF ClearLocks, LiveLock
<1>3. LiveLock(n)
  BY <1>1, <1>2 DEF LiveLock
<1>. QED
  BY <1>2, <1>3, BackingKept

LEMMA LeaseBacked ==
  ASSUME TypeOK, LockBackedByLease, NEW role, NEW r \in Eligible(role),
         NEW a \in Agents, NEW d \in Nat, Lease(r, a, d)
  PROVE  LockBackedByLease'
<1>1. r \in Rows /\ (state[r] = "READY" \/ Expired(r)) /\ now' = now
  BY DEF Eligible, Lease
<1>2. SUFFICES ASSUME NEW n \in Nodes, LiveLock(n)'
               PROVE  \E q \in Rows : Backs(q, n)'
  BY BackedAfter
<1>3. ASSUME locked_by'[n] = locked_by[n], lock_expires_at'[n] = lock_expires_at[n]
      PROVE  \E q \in Rows : Backs(q, n)'
  <2>1. LiveLock(n)
    BY <1>1, <1>2, <1>3 DEF LiveLock
  <2>2. \A q \in Rows : Backs(q, n) => q # r /\ ~Expired(q)
    BY <1>1, <2>1, BackingNotExpired DEF Backs
  <2>. QED
    BY <1>3, <2>1, <2>2, BackingKept DEF Lease
<1>4. CASE n = task_node_id[r] /\ LockFree(n, a)
  <2>1. locked_by'[n] = a /\ lock_expires_at'[n] = now + d
    BY <1>4 DEF Lease, AcquireLock, TypeOK
  <2>2. Backs(r, n)'
    BY <1>1, <1>4, <2>1 DEF Lease, Backs
  <2>. QED
    BY <1>1, <2>2
<1>5. CASE n # task_node_id[r] /\ LockFree(task_node_id[r], a)
  BY <1>3, <1>5 DEF Lease, AcquireLock, TypeOK
<1>6. CASE ~LockFree(task_node_id[r], a)
  BY <1>3, <1>6 DEF Lease, AcquireLock, lockVars
<1>. QED
  BY <1>4, <1>5, <1>6

LEMMA RequeueBacked ==
  ASSUME TypeOK, LockBackedByLease, RequeueExpired
  PROVE  LockBackedByLease'
<1>1. SUFFICES ASSUME NEW n \in Nodes, LiveLock(n)'
               PROVE  \E r \in Rows : Backs(r, n)'
  BY BackedAfter
<1>2. LiveLock(n)
  BY <1>1 DEF RequeueExpired, lockVars, LiveLock
<1>3. \A r \in Rows : Backs(r, n) => ~Expired(r)
  BY <1>2, BackingNotExpired
<1>. QED
  BY <1>2, <1>3, BackingKept DEF RequeueExpired, lockVars

\* A reported row releases the lock it backs.
LEMMA ReportBacked ==
  ASSUME TypeOK, LockBackedByLease, NEW r \in Rows, state[r] = "IN_PROGRESS",
         ReleaseLock(task_node_id[r], leased_by[r]),
         UNCHANGED <<now, task_node_id, leased_by, lease_expires_at>>,
         \A q \in Rows : q # r /\ state[q] = "IN_PROGRESS" => state'[q] = state[q]
  PROVE  LockBackedByLease'
<1> DEFINE S == {m \in Nodes : /\ m = task_node_id[r]
                               /\ leased_by[r] # NoAgent
                               /\ locked_by[m] = leased_by[r]}
<1>1. ClearLocks(S)
  BY DEF ReleaseLock
<1>2. \A n \in Nodes \ S : ~Backs(r, n)
  BY DEF Backs, TypeOK
<1> HIDE DEF S
<1>3. S \in SUBSET Nodes
  BY DEF S
<1>4. \A n \in Nodes \ S : \A q \in Rows : Backs(q, n) =>
        /\ state'[q] = state[q]
        /\ task_node_id'[q] = task_node_id[q]
        /\ leased_by'[q] = leased_by[q]
        /\ lease_expires_at'[q] = lease_expires_at[q]
  BY <1>2 DEF Backs
<1>. QED
  BY <1>1, <1>3, <1>4, ClearLocksBacked

LEMMA NextBacked ==
  TypeOK /\ LockBackedByLease /\ [Next]_vars => LockBackedByLease'
<1>1. ASSUME TypeOK, LockBackedByLease, Next PROVE LockBackedByLease'
  <2>1. ASSUME NEW n \in Nodes, NEW p \in Priorities, Enqueue(n, p)
        PROVE  LockBackedByLease'
    <3>1. PICK r0 \in Rows : /\ state[r0] = "ABSENT"
                             /\ \A q \in Rows : q # r0 => /\ state'[q] = state[q]
                                                          /\ task_node_id'[q] = task_node_id[q]
                             /\ UNCHANGED <<leased_by, lease_expires_at, now, lockVars>>
      BY <1>1, <2>1, EnqueueRows DEF TypeOK
    <3>2. \A m \in Nodes : ~Backs(r0, m)
      BY <3>1 DEF Backs
    <3>3. \A m \in Nodes : LiveLock(m)' => LiveLock(m)
      BY <3>1 DEF LiveLock, lockVars
    <3>4. \A m \in Nodes : LiveLock(m) => \E r \in Rows : Backs(r, m)'
      BY <1>1, <3>1, <3>2, BackingKept DEF lockVars
    <3>. QED
      BY <3>3, <3>4, BackedAfter
  <2>2. ASSUME NEW role, NEW r \in First(role), NEW a \in Agents, NEW d \in Nat,
               Lease(r, a, d)
        PROVE  LockBackedByLease'
    BY <1>1, <2>2, LeaseBacked DEF First
  <2>3. ASSUME NEW r \in Rows, Complete(r) PROVE LockBackedByLease'
    <3>1. \A q \in Rows : q # r /\ state[q] = "IN_PROGRESS" => state'[q] = state[q]
      BY <1>1, <2>3 DEF Complete, Unblocked, Unblockable, BlockedDependents, TypeOK
    <3>. QED
      BY <1>1, <2>3, <3>1, ReportBacked DEF Complete
  <2>4. ASSUME NEW r \in Rows, Fail(r) PROVE LockBackedByLease'
    <3>1. \A q \in Rows : q # r /\ state[q] = "IN_PROGRESS" => state'[q] = state[q]
      BY <1>1, <2>4 DEF Fail, TypeOK
    <3>. QED
      BY <1>1, <2>4, <3>1, ReportBacked DEF Fail
  <2>5. ASSUME NEW a \in Agents, ReleaseAllLocks(a) PROVE LockBackedByLease'
    BY <1>1, <2>5, ClearLocksBacked DEF ReleaseAllLocks, queueVars
  <2>6. CleanupExpiredLocks => LockBackedByLease'
    BY <1>1, ClearLocksBacked DEF CleanupExpiredLocks, queueVars
  <2>7. (\E e \in EdgeChoices : IngestEdge(e)) => LockBackedByLease'
    BY <1>1 DEF IngestEdge, queueVars, lockVars, LockBackedByLease
  <2>8. Tick => LockBackedByLease'
    <3>1. Tick => now' = now + 1 /\ now \in Nat /\ lock_expires_at \in [Nodes -> Nat]
      BY <1>1 DEF Tick, TypeOK
    <3>2. Tick => UNCHANGED <<state, task_node_id, leased_by, lease_expires_at, locked_by, lock_expires_at>>
      BY Zenon DEF Tick, queueVars, lockVars
    <3>. QED
      BY <1>1, <3>1, <3>2 DEF LockBackedByLease
  <2>. QED
    BY <1>1, <2>1, <2>2, <2>3, <2>4, <2>5, <2>6, <2>7, <2>8, NextCases, RequeueBacked
<1>2. LockBackedByLease /\ UNCHANGED vars => LockBackedByLease'
  BY DEF vars, queueVars, lockVars, LockBackedByLease
<1>. QED
  BY <1>1, <1>2

\* No node lock outlives the lease it was taken for.
THEOREM LocksAreBacked == Spec => []LockBackedByLease
<1>1. Init => LockBackedByLease
  BY DEF Init, LockBackedByLease
<1>. QED
  BY <1>1, TypeCorrect, NextBacked, PTL DEF Spec

(***************************************************************************)
(* What no step may do.                                                    *)
(***************************************************************************)
\* A row that is leased keeps its lease columns unless it is expired, and a
\* row that is not BLOCKED any more was unblocked.
LEMMA StepHonoursLease ==
  ASSUME TypeOK, [Next]_vars, NEW r \in Rows,
         state[r] = "IN_PROGRESS", lease_expires_at[r] >= now
  PROVE  \/ state'[r] \in {"DONE", "FAILED"}
         \/ /\ state'[r] = "IN_PROGRESS"
            /\ leased_by'[r] = leased_by[r]
            /\ lease_expires_at'[r] = lease_expires_at[r]
<1> DEFINE Goal == \/ state'[r] \in {"DONE", "FAILED"}
                   \/ /\ state'[r] = "IN_PROGRESS"
                      /\ leased_by'[r] = leased_by[r]
                      /\ lease_expires_at'[r] = lease_expires_at[r]
<1>1. ~Expired(r)
  BY DEF Expired, TypeOK
<1>2. CASE Next
  <2>1. ASSUME NEW n \in Nodes, NEW p \in Priorities, Enqueue(n, p) PROVE Goal
    BY <2>1, EnqueueRows DEF TypeOK
  <2>2. ASSUME NEW role, NEW q \in First(role), NEW a \in Agents, NEW d \in Nat,
               Lease(q, a, d)
        PROVE  Goal
    <3>1. q # r
      BY <1>1, <2>2 DEF First, Eligible
    <3>. QED
      BY <1>1, <2>2, <3>1 DEF Lease
  <2>3. RequeueExpired => Goal
    BY <1>1 DEF RequeueExpired
  <2>4. ASSUME NEW q \in Rows, Complete(q) PROVE Goal
    BY <2>4 DEF Complete, Unblocked, Unblockable, BlockedDependents, TypeOK
  <2>5. ASSUME NEW q \in Rows, Fail(q) PROVE Goal
    BY <2>5 DEF Fail, TypeOK
  <2>6. UNCHANGED queueVars => Goal
    BY DEF queueVars
  <2> HIDE DEF Goal
  <2>7. Goal
    BY <1>2, <2>1, <2>2, <2>3, <2>4, <2>5, <2>6, NextCases, OthersKeepRows
  <2>. QED
    BY <2>7 DEF Goal
<1>3. CASE UNCHANGED vars
  BY <1>3 DEF vars, queueVars
<1>. QED
  BY <1>2, <1>3

\* A live lease is never taken from its agent.
THEOREM LeasesAreHonoured == Spec => LeaseHonoured
<1>1. TypeOK /\ [Next]_vars =>
        [\A r \in Rows : state[r] = "IN_PROGRESS" /\ lease_expires_at[r] >= now =>
           \/ state'[r] \in {"DONE", "FAILED"}
           \/ /\ state'[r] = "IN_PROGRESS"
              /\ leased_by'[r] = leased_by[r]
              /\ lease_expires_at'[r] = lease_expires_at[r]]_vars
  BY StepHonoursLease
<1>. QED
  BY <1>1, TypeCorrect, PTL DEF Spec, LeaseHonoured

(***************************************************************************)
(* The record of outcomes, and the context that is handed on.              *)
(***************************************************************************)
\* What the invariant says of one row.
Credited(r) ==
  /\ state[r] \in {"IN_PROGRESS", "DONE", "FAILED"} =>
       <<"TASK_CHECKOUT", leased_by[r], r>> \in activities
  /\ \A a \in Agents :
       /\ <<"TASK_COMPLETED", a, r>> \in activities <=> state[r] = "DONE" /\ leased_by[r] = a
       /\ <<"TASK_FAILED", a, r>> \in activities <=> state[r] = "FAILED" /\ leased_by[r] = a

LEMMA CreditedRows == OutcomeCredited <=> \A r \in Rows : Credited(r)
BY DEF OutcomeCredited, Credited

\* A row that keeps its lease and its state, or waits before and after.
LEMMA LeaseCredited ==
  ASSUME TypeOK, OutcomeCredited, NEW role, NEW r \in Eligible(role), NEW a \in Agents, NEW d \in Nat,
         Lease(r, a, d)
  PROVE  OutcomeCredited'
<1>1. r \in Rows /\ state[r] \in {"READY", "IN_PROGRESS"}
  BY DEF Eligible, Expired
<1>2. activities' = activities \cup {<<"TASK_CHECKOUT", a, r>>}
  BY DEF Lease
<1>3. ASSUME NEW q \in Rows PROVE Credited(q)'
  <2>1. Credited(q)
    BY CreditedRows
  <2>2. CASE q = r
    <3>1. state'[q] = "IN_PROGRESS" /\ leased_by'[q] = a
      BY <2>2 DEF Lease
    <3>. QED
      BY <1>1, <1>2, <2>1, <2>2, <3>1 DEF Credited
  <2>3. CASE q # r /\ Expired(q)
    <3>1. state'[q] = "READY" /\ state[q] = "IN_PROGRESS"
      BY <2>3 DEF Lease, Expired
    <3>. QED
      BY <1>2, <2>1, <2>3, <3>1 DEF Credited
  <2>4. CASE q # r /\ ~Expired(q)
    <3>1. state'[q] = state[q] /\ leased_by'[q] = leased_by[q]
      BY <2>4 DEF Lease
    <3>. QED
      BY <1>2, <2>1, <2>4, <3>1 DEF Credited
  <2>. QED
    BY <2>2, <2>3, <2>4
<1>. QED
  BY <1>3, CreditedRows DEF OutcomeCredited, Credited

\* A report gives the row its outcome, for the agent that had the lease, and
\* leaves the others waiting, in progress or as they were.
LEMMA ReportCredited ==
  ASSUME TypeOK, OutcomeCredited, NEW r \in Rows, state[r] = "IN_PROGRESS",
         NEW type, NEW outcome, <<type, outcome>> \in {<<"TASK_COMPLETED", "DONE">>, <<"TASK_FAILED", "FAILED">>},
         state'[r] = outcome, Record(type, r), leased_by' = leased_by,
         \A q \in Rows \ {r} : state'[q] = state[q] \/ (state[q] = "BLOCKED" /\ state'[q] = "READY")
  PROVE  OutcomeCredited'
<1>1. leased_by[r] \in Agents /\ activities' = activities \cup {<<type, leased_by[r], r>>}
  BY AgentsAssumption DEF TypeOK, Record
<1>2. ASSUME NEW q \in Rows PROVE Credited(q)'
  <2>1. Credited(q)
    BY CreditedRows
  <2>2. CASE q = r
    BY <1>1, <2>1, <2>2 DEF Credited
  <2>3. CASE q # r
    BY <1>1, <2>1, <2>3 DEF Credited
  <2>. QED
    BY <2>2, <2>3
<1>. QED
  BY <1>2 DEF OutcomeCredited, Credited

\* Rows that are taken back, inserted or left alone.
LEMMA OthersCredited ==
  ASSUME OutcomeCredited, activities' = activities,
         \A q \in Rows : \/ state'[q] = state[q] /\ leased_by'[q] = leased_by[q]
                         \/ /\ state[q] \in {"IN_PROGRESS", "ABSENT"}
                            /\ state'[q] \in {"READY", "BLOCKED"}
  PROVE  OutcomeCredited'
<1>1. ASSUME NEW q \in Rows PROVE Credited(q)'
  <2>1. Credited(q)
    BY CreditedRows
  <2>. QED
    BY <2>1 DEF Credited
<1>. QED
  BY <1>1 DEF OutcomeCredited, Credited

LEMMA NextCredited == TypeOK /\ OutcomeCredited /\ [Next]_vars => OutcomeCredited'
<1>1. ASSUME TypeOK, OutcomeCredited, Next PROVE OutcomeCredited'
  <2>1. ASSUME NEW role, NEW r \in First(role), NEW a \in Agents, NEW d \in Nat, Lease(r, a, d)
        PROVE  OutcomeCredited'
    BY <1>1, <2>1, LeaseCredited DEF First
  <2>2. ASSUME NEW n \in Nodes, NEW p \in Priorities, Enqueue(n, p) PROVE OutcomeCredited'
    BY <1>1, <2>2, EnqueueRows, OthersCredited DEF TypeOK
  <2>3. RequeueExpired => OutcomeCredited'
    BY <1>1, OthersCredited DEF RequeueExpired, Expired
  <2>4. ASSUME NEW r \in Rows, Complete(r) PROVE OutcomeCredited'
    <3> DEFINE done == [state EXCEPT ![r] = "DONE"]
               freed == Unblockable(done, task_node_id[r])
    <3>1. /\ state[r] = "IN_PROGRESS" /\ Record("TASK_COMPLETED", r) /\ leased_by' = leased_by
          /\ state' = [q \in Rows |-> IF q \in freed THEN "READY" ELSE done[q]]
      BY <2>4 DEF Complete, Unblocked
    <3>2. \A q \in freed : done[q] = "BLOCKED"
      BY DEF Unblockable, BlockedDependents
    <3>3. done[r] = "DONE" /\ \A q \in Rows \ {r} : done[q] = state[q]
      BY <1>1 DEF TypeOK
    <3> HIDE DEF done, freed
    <3>. QED
      BY <1>1, <3>1, <3>2, <3>3, ReportCredited
  <2>5. ASSUME NEW r \in Rows, Fail(r) PROVE OutcomeCredited'
    <3>1. /\ state[r] = "IN_PROGRESS" /\ Record("TASK_FAILED", r) /\ leased_by' = leased_by
          /\ state'[r] = "FAILED" /\ \A q \in Rows \ {r} : state'[q] = state[q]
      BY <1>1, <2>5 DEF Fail, TypeOK
    <3>. QED
      BY <1>1, <3>1, ReportCredited
  <2>6. ASSUME \/ \E a \in Agents : ReleaseAllLocks(a)
               \/ CleanupExpiredLocks
               \/ \E e \in EdgeChoices : IngestEdge(e)
               \/ Tick
        PROVE  OutcomeCredited'
    BY <1>1, <2>6, OthersCredited DEF ReleaseAllLocks, CleanupExpiredLocks, IngestEdge, Tick, queueVars
  <2>. QED
    BY <1>1, <2>1, <2>2, <2>3, <2>4, <2>5, <2>6, NextCases
<1>2. OutcomeCredited /\ UNCHANGED vars => OutcomeCredited'
  BY OthersCredited DEF vars, queueVars
<1>. QED
  BY <1>1, <1>2

\* However leases run out and are granted again, and whoever reports: a row has
\* at most one outcome on record, for the agent that had the lease then.
THEOREM OutcomesAreCredited == Spec => []OutcomeCredited
<1>1. Init => OutcomeCredited
  BY DEF Init, OutcomeCredited
<1>. QED
  BY <1>1, TypeCorrect, NextCredited, PTL DEF Spec

-----------------------------------------------------------------------------
\* Context that is there stays justified.
LEMMA HandoffKept ==
  ASSUME HandoffFromPrerequisite, depends \subseteq depends', handoff' = handoff,
         \A r \in Rows : state[r] = "DONE" => state'[r] = "DONE" /\ task_node_id'[r] = task_node_id[r]
  PROVE  HandoffFromPrerequisite'
BY DEF HandoffFromPrerequisite, Targets

LEMMA CompleteHandoff ==
  ASSUME TypeOK, HandoffFromPrerequisite, NEW r \in Rows, Complete(r)
  PROVE  HandoffFromPrerequisite'
<1> DEFINE n == task_node_id[r]
           done == [state EXCEPT ![r] = "DONE"]
<1>1. /\ state' = [d \in Rows |-> IF d \in Unblockable(done, n) THEN "READY" ELSE done[d]]
      /\ handoff' = [d \in Nodes |-> IF d \in Dependents(state', n) \ HashedNodes
                                     THEN handoff[d] \cup {n} ELSE handoff[d]]
      /\ UNCHANGED <<depends, task_node_id>>
  BY DEF Complete, Unblocked, PropagateContext
<1>2. \A d \in Unblockable(done, n) : done[d] = "BLOCKED"
  BY DEF Unblockable, BlockedDependents
<1>3. done[r] = "DONE" /\ \A d \in Rows \ {r} : done[d] = state[d]
  BY DEF TypeOK
<1> HIDE DEF done
<1>4. state'[r] = "DONE" /\ \A d \in Rows : state[d] = "DONE" => state'[d] = "DONE"
  BY <1>1, <1>2, <1>3
<1>5. ASSUME NEW d \in Nodes, NEW m \in Nodes, m \in handoff'[d]
      PROVE  m \in Targets(d)' /\ \E q \in Rows : task_node_id'[q] = m /\ state'[q] = "DONE"
  <2>1. CASE m \in handoff[d]
    BY <1>1, <1>4, <2>1 DEF HandoffFromPrerequisite, Targets
  <2>2. CASE m \notin handoff[d]
    <3>1. m = n /\ d \in Dependents(state', n)
      BY <1>1, <1>5, <2>2
    <3>2. n \in Targets(d)
      BY <3>1 DEF Dependents
    <3>. QED
      BY <1>1, <1>4, <3>1, <3>2 DEF Targets
  <2>. QED
    BY <2>1, <2>2
<1>. QED
  BY <1>5 DEF HandoffFromPrerequisite

LEMMA NextHandoff == TypeOK /\ HandoffFromPrerequisite /\ [Next]_vars => HandoffFromPrerequisite'
<1>1. ASSUME TypeOK, HandoffFromPrerequisite, Next PROVE HandoffFromPrerequisite'
  <2>1. ASSUME NEW role, NEW r \in First(role), NEW a \in Agents, NEW d \in Nat, Lease(r, a, d)
        PROVE  HandoffFromPrerequisite'
    <3>1. state[r] # "DONE"
      BY DEF First, Eligible, Expired
    <3>. QED
      BY <1>1, <2>1, <3>1, HandoffKept DEF Lease, Expired
  <2>2. ASSUME NEW n \in Nodes, NEW p \in Priorities, Enqueue(n, p) PROVE HandoffFromPrerequisite'
    BY <1>1, <2>2, EnqueueRows, HandoffKept DEF TypeOK
  <2>3. RequeueExpired => HandoffFromPrerequisite'
    BY <1>1, HandoffKept DEF RequeueExpired, Expired
  <2>4. ASSUME NEW r \in Rows, Fail(r) PROVE HandoffFromPrerequisite'
    BY <1>1, <2>4, HandoffKept DEF Fail, TypeOK
  <2>5. ASSUME \/ \E a \in Agents : ReleaseAllLocks(a)
               \/ CleanupExpiredLocks
               \/ \E e \in EdgeChoices : IngestEdge(e)
               \/ Tick
        PROVE  HandoffFromPrerequisite'
    BY <1>1, <2>5, HandoffKept DEF ReleaseAllLocks, CleanupExpiredLocks, IngestEdge, Tick, queueVars
  <2>. QED
    BY <1>1, <2>1, <2>2, <2>3, <2>4, <2>5, NextCases, CompleteHandoff
<1>2. HandoffFromPrerequisite /\ UNCHANGED vars => HandoffFromPrerequisite'
  BY HandoffKept DEF vars, queueVars
<1>. QED
  BY <1>1, <1>2

\* A node's body only ever carries the context of finished prerequisites.
THEOREM HandoffIsJustified == Spec => []HandoffFromPrerequisite
<1>1. Init => HandoffFromPrerequisite
  BY DEF Init, HandoffFromPrerequisite
<1>. QED
  BY <1>1, TypeCorrect, NextHandoff, PTL DEF Spec

(***************************************************************************)
(* Workflows.                                                              *)
(***************************************************************************)
\* i has been executed and its task k depends on its task j.
Waits(i, k, j) == /\ i \in executed
                  /\ k \in 1..Len(StepsOf(i))
                  /\ j \in StepDeps(i, k)
                  /\ IsTask(i, j)

EdgesStored == \A i \in executed : StepEdges(i) \subseteq depends

\* Nobody enqueues a node that does not exist.
RowsExist == \A r \in Rows : Present(r) => Exists(task_node_id[r])

\* Until a prerequisite is done, the step's first row waits for it.
StepsQueued ==
  \A i, k, j : Waits(i, k, j) /\ IsTask(i, k) /\ ~DoneOnce(StepNode(i, j)) =>
    \E r \in Rows : task_node_id[r] = StepNode(i, k) /\ state[r] = "BLOCKED"

RunsType == executed \subseteq Runs

FlowInv == TypeOK /\ RunsType /\ EdgesStored /\ RowsExist
             /\ StepsInOrder /\ StepsQueued /\ ContextReachesNextStep

LEMMA StepsInOrderWaits ==
  StepsInOrder <=> \A i, k, j : Waits(i, k, j) =>
    \A r \in Rows : task_node_id[r] = StepNode(i, k) /\ state[r] # "BLOCKED" => DoneOnce(StepNode(i, j))
BY DEF StepsInOrder, Waits

LEMMA ContextWaits ==
  ContextReachesNextStep <=> \A i, k, j : Waits(i, k, j) /\ IsTask(i, k) /\ DoneOnce(StepNode(i, j)) =>
    StepNode(i, j) \in handoff[StepNode(i, k)]
BY DEF ContextReachesNextStep, Waits, TaskSteps

\* Steps are nodes of the right kind.
LEMMA StepNodeType ==
  ASSUME NEW i \in Runs, NEW k \in 1..Len(StepsOf(i))
  PROVE  /\ StepNode(i, k) \in Nodes \ HashedNodes
         /\ StepNode(i, k) \in TaskNodes <=> IsTask(i, k)
BY RunsAssumption

LEMMA WaitsTypes ==
  ASSUME RunsType, NEW i, NEW k, NEW j, Waits(i, k, j)
  PROVE  /\ i \in Runs /\ j \in 1..Len(StepsOf(i))
         /\ StepNode(i, j) \in TaskNodes \cap Nodes
         /\ StepNode(i, k) \in Nodes \ HashedNodes
<1>1. i \in Runs /\ k \in 1..Len(StepsOf(i)) /\ j \in 1..Len(StepsOf(i)) /\ IsTask(i, j)
  BY DEF Waits, RunsType, StepDeps
<1>. QED
  BY <1>1, StepNodeType

\* The prerequisite is a target of the step's node.
LEMMA WaitsTarget ==
  ASSUME RunsType, EdgesStored, NEW i, NEW k, NEW j, Waits(i, k, j)
  PROVE  StepNode(i, j) \in Targets(StepNode(i, k))
<1>1. <<StepNode(i, k), StepNode(i, j)>> \in StepEdges(i)
  BY DEF Waits, StepEdges
<1>. QED
  BY <1>1, WaitsTypes DEF EdgesStored, Waits, Targets

\* What is done once stays so.
LEMMA DoneOnceKept ==
  ASSUME NEW n, DoneOnce(n),
         \A r \in Rows : state[r] = "DONE" =>
           state'[r] = "DONE" /\ task_node_id'[r] = task_node_id[r]
  PROVE  DoneOnce(n)'
BY DEF DoneOnce

-----------------------------------------------------------------------------
(***************************************************************************)
(* Executing a template.                                                   *)
(***************************************************************************)
\* The rows new are added to the queue, each for a step.
RowsAdded(i, p, new, step) ==
  /\ \A r \in new : ~Present(r)
  /\ state' = [r \in Rows |-> IF r \in new THEN StepState(i, step[r]) ELSE state[r]]
  /\ task_node_id' = [r \in Rows |-> IF r \in new THEN StepNode(i, step[r]) ELSE task_node_id[r]]
  /\ priority' = [r \in Rows |-> IF r \in new THEN p ELSE priority[r]]
  /\ \A k \in TaskSteps(i) : \E r \in new : step[r] = k

LEMMA ExecuteRows ==
  ASSUME TypeOK, NEW i \in Runs, NEW trigger, NEW p \in Priorities, Execute(i, trigger, p)
  PROVE  \E new \in SUBSET Rows : \E step \in [new -> TaskSteps(i)] : RowsAdded(i, p, new, step)
<1>1. PICK last \in 0..MaxRows, tasks \in InOrderOf(TaskSteps(i)) :
        LET added == {last + k : k \in DOMAIN tasks}
            StepOf(r) == tasks[r - last]
        IN /\ \A r \in Rows : Present(r) <=> r <= last
           /\ added \subseteq Rows
           /\ state' = [r \in Rows |-> IF r \in added THEN StepState(i, StepOf(r)) ELSE state[r]]
           /\ task_node_id' = [r \in Rows |-> IF r \in added THEN StepNode(i, StepOf(r)) ELSE task_node_id[r]]
           /\ priority' = [r \in Rows |-> IF r \in added THEN p ELSE priority[r]]
  BY Zenon DEF Execute
<1> DEFINE new == {last + k : k \in DOMAIN tasks}
           step == [r \in new |-> tasks[r - last]]
<1>2. /\ DOMAIN tasks = 1..Cardinality(TaskSteps(i))
      /\ \A k \in DOMAIN tasks : tasks[k] \in TaskSteps(i)
      /\ \A k \in TaskSteps(i) : \E n \in DOMAIN tasks : tasks[n] = k
  BY DEF InOrderOf
<1>3. \A n \in DOMAIN tasks : n \in Nat /\ (last + n) - last = n /\ last + n > last
  BY <1>2
<1>4. \A r \in new : r - last \in DOMAIN tasks /\ r > last
  BY <1>3
<1>5. new \in SUBSET Rows /\ step \in [new -> TaskSteps(i)]
  BY <1>1, <1>2, <1>4
<1>6. \A r \in new : ~Present(r)
  <2>1. \A r \in Rows : Present(r) <=> r <= last
    BY ONLY <1>1, Zenon
  <2>2. last \in Nat /\ \A r \in Rows : r \in Nat
    OBVIOUS
  <2> HIDE DEF new
  <2>. QED
    BY <1>4, <1>5, <2>1, <2>2
<1>7. \A k \in TaskSteps(i) : \E r \in new : step[r] = k
  <2>1. ASSUME NEW k \in TaskSteps(i) PROVE \E r \in new : step[r] = k
    <3>1. PICK n \in DOMAIN tasks : tasks[n] = k
      BY <1>2
    <3>2. last + n \in new /\ step[last + n] = k
      BY <1>3, <3>1
    <3>. QED
      BY <3>2
  <2>. QED
    BY <2>1
<1>8. /\ state' = [r \in Rows |-> IF r \in new THEN StepState(i, step[r]) ELSE state[r]]
      /\ task_node_id' = [r \in Rows |-> IF r \in new THEN StepNode(i, step[r]) ELSE task_node_id[r]]
      /\ priority' = [r \in Rows |-> IF r \in new THEN p ELSE priority[r]]
  BY <1>1
<1> HIDE DEF new, step
<1>9. RowsAdded(i, p, new, step)
  BY <1>6, <1>7, <1>8 DEF RowsAdded
<1>. QED
  BY <1>5, <1>9

\* Names of steps are unique over all runs.
LEMMA StepNodeUnique ==
  ASSUME NEW i \in Runs, NEW k \in 1..Len(StepsOf(i)),
         NEW h \in Runs, NEW j \in 1..Len(StepsOf(h)), StepNode(i, k) = StepNode(h, j)
  PROVE  i = h /\ k = j
<1>1. i = h /\ StepsOf(i)[k].id = StepsOf(h)[j].id
  BY DEF StepNode
<1>. QED
  BY <1>1, RunsAssumption

LEMMA ExecuteTypeOK ==
  ASSUME TypeOK, NEW i \in Runs, NEW trigger, NEW p \in Priorities, Execute(i, trigger, p)
  PROVE  TypeOK'
<1>0. PICK new \in SUBSET Rows : \E step \in [new -> TaskSteps(i)] : RowsAdded(i, p, new, step)
  BY ExecuteRows
<1>1. PICK step \in [new -> TaskSteps(i)] : RowsAdded(i, p, new, step)
  BY <1>0
<1>2. /\ depends' = depends \cup StepEdges(i)
      /\ UNCHANGED <<now, leased_by, lease_expires_at, attempts, lockVars, handoff, activities>>
  BY DEF Execute
<1>3. StepEdges(i) \subseteq Nodes \X Nodes
  BY StepNodeType DEF StepEdges, StepDeps
<1>4. \A r \in new : /\ StepState(i, step[r]) \in {"READY", "BLOCKED"}
                     /\ StepNode(i, step[r]) \in TaskNodes \cap Nodes
  BY StepNodeType DEF StepState, TaskSteps
<1>5. state' \in [Rows -> States] /\ task_node_id' \in [Rows -> Nodes \cup {NoNode}]
  BY <1>1, <1>4 DEF RowsAdded, TypeOK, States
<1>6. priority' \in [Rows -> Nat]
  BY <1>1, NumbersAssumption DEF RowsAdded, TypeOK
<1>7. ASSUME NEW r \in Rows
      PROVE  /\ Present(r)' => task_node_id'[r] \in TaskNodes
             /\ ~Present(r)' => task_node_id'[r] = NoNode
             /\ state'[r] \in {"ABSENT", "READY", "BLOCKED"} <=> leased_by'[r] = NoAgent
  <2>1. CASE r \in new
    BY <1>1, <1>2, <1>4, <2>1 DEF RowsAdded, Present, TypeOK
  <2>2. CASE r \notin new
    BY <1>1, <1>2, <2>2 DEF RowsAdded, Present, TypeOK
  <2>. QED
    BY <2>1, <2>2
<1>. QED
  BY <1>2, <1>3, <1>5, <1>6, <1>7 DEF TypeOK, lockVars

LEMMA ExecuteFlow ==
  ASSUME FlowInv, NEW i \in Runs, NEW trigger, NEW p \in Priorities, Execute(i, trigger, p)
  PROVE  FlowInv'
<1> USE DEF FlowInv
<1>0. PICK new \in SUBSET Rows : \E step \in [new -> TaskSteps(i)] : RowsAdded(i, p, new, step)
  BY ExecuteRows
<1>1. PICK step \in [new -> TaskSteps(i)] : RowsAdded(i, p, new, step)
  BY <1>0
<1>2. /\ i \notin executed /\ executed' = executed \cup {i}
      /\ depends' = depends \cup StepEdges(i) /\ handoff' = handoff
  BY DEF Execute
<1>3. \A r \in Rows : IF r \in new
                      THEN /\ state[r] = "ABSENT"
                           /\ state'[r] = StepState(i, step[r]) /\ task_node_id'[r] = StepNode(i, step[r])
                           /\ state'[r] \in {"READY", "BLOCKED"}
                      ELSE state'[r] = state[r] /\ task_node_id'[r] = task_node_id[r]
  BY <1>1 DEF RowsAdded, Present, StepState
<1>4. \A n : DoneOnce(n)' <=> DoneOnce(n)
  BY <1>3 DEF DoneOnce
<1>5. \A h, k, j : Waits(h, k, j)' => h = i \/ Waits(h, k, j)
  BY <1>2 DEF Waits
<1>6. RunsType' /\ EdgesStored'
  BY <1>2 DEF RunsType, EdgesStored
<1>7. ASSUME NEW r \in Rows, Present(r), NEW k \in 1..Len(StepsOf(i)) PROVE task_node_id[r] # StepNode(i, k)
  BY <1>2, <1>7 DEF RowsExist, Exists, StepNodes
<1>8. RowsExist'
  <2> SUFFICES ASSUME NEW r \in Rows, Present(r)', NEW h \in Runs, task_node_id'[r] \in StepNodes(h)
               PROVE  h \in executed'
    BY DEF RowsExist, Exists
  <2>1. CASE r \in new
    <3>1. step[r] \in 1..Len(StepsOf(i))
      BY <1>1, <2>1 DEF RowsAdded, TaskSteps
    <3>2. PICK k \in 1..Len(StepsOf(h)) : StepNode(i, step[r]) = StepNode(h, k)
      BY <1>3, <2>1 DEF StepNodes
    <3>. QED
      BY <1>2, <3>1, <3>2, StepNodeUnique
  <2>2. CASE r \notin new
    BY <1>2, <1>3, <2>2 DEF RowsExist, Exists, Present
  <2>. QED
    BY <2>1, <2>2
<1>9. StepsInOrder'
  <2> SUFFICES ASSUME NEW h, NEW k, NEW j, Waits(h, k, j)',
                      NEW r \in Rows, task_node_id'[r] = StepNode(h, k), state'[r] # "BLOCKED"
               PROVE  DoneOnce(StepNode(h, j))'
    BY DEF StepsInOrder, Waits
  <2>1. h \in Runs /\ k \in 1..Len(StepsOf(h)) /\ j \in StepDeps(h, k) /\ IsTask(h, j)
    BY <1>6 DEF Waits, RunsType
  <2>2. CASE r \in new
    <3>1. step[r] \in 1..Len(StepsOf(i)) /\ StepNode(i, step[r]) = StepNode(h, k)
      BY <1>1, <1>3, <2>2 DEF RowsAdded, TaskSteps
    <3>2. i = h /\ step[r] = k
      BY <2>1, <3>1, StepNodeUnique
    <3>. QED
      BY <1>3, <2>1, <2>2, <3>2 DEF StepState
  <2>3. CASE r \notin new
    <3>1. task_node_id[r] = StepNode(h, k) /\ state[r] # "BLOCKED"
      BY <1>3, <2>3
    <3>2. Present(r)
      BY <2>1, <3>1, StepNodeType, NodesAssumption DEF TypeOK
    <3>3. Waits(h, k, j)
      BY <1>5, <1>7, <2>1, <3>1, <3>2
    <3>. QED
      BY <1>4, <3>1, <3>3 DEF StepsInOrder, Waits
  <2>. QED
    BY <2>2, <2>3
<1>10. StepsQueued'
  <2> SUFFICES ASSUME NEW h, NEW k, NEW j, Waits(h, k, j)', IsTask(h, k), ~DoneOnce(StepNode(h, j))'
               PROVE  \E r \in Rows : task_node_id'[r] = StepNode(h, k) /\ state'[r] = "BLOCKED"
    BY DEF StepsQueued
  <2>1. CASE h = i
    <3>1. k \in TaskSteps(i) /\ j \in StepDeps(i, k) /\ IsTask(i, j)
      BY <2>1 DEF Waits, TaskSteps
    <3>2. PICK r \in new : step[r] = k
      BY <1>1, <3>1 DEF RowsAdded
    <3>. QED
      BY <1>3, <2>1, <3>1, <3>2 DEF StepState
  <2>2. CASE h # i
    <3>1. PICK r \in Rows : task_node_id[r] = StepNode(h, k) /\ state[r] = "BLOCKED"
      BY <1>4, <1>5, <2>2 DEF StepsQueued
    <3>. QED
      BY <1>3, <3>1
  <2>. QED
    BY <2>1, <2>2
<1>11. ContextReachesNextStep'
  <2> SUFFICES ASSUME NEW h, NEW k, NEW j, Waits(h, k, j)', IsTask(h, k), DoneOnce(StepNode(h, j))'
               PROVE  StepNode(h, j) \in handoff'[StepNode(h, k)]
    BY DEF ContextReachesNextStep, Waits, TaskSteps
  <2>1. h # i
    <3>1. PICK r \in Rows : task_node_id[r] = StepNode(h, j) /\ state[r] = "DONE"
      BY <1>4 DEF DoneOnce
    <3>2. j \in 1..Len(StepsOf(h))
      BY DEF Waits, StepDeps
    <3>. QED
      BY <1>7, <3>1, <3>2 DEF Present
  <2>. QED
    BY <1>2, <1>4, <1>5, <2>1, ContextWaits
<1>. QED
  BY <1>6, <1>8, <1>9, <1>10, <1>11, ExecuteTypeOK

-----------------------------------------------------------------------------
(***************************************************************************)
(* The steps of the queue.                                                 *)
(***************************************************************************)
LEMMA QueueStepIsNext == QueueStep => Next
BY DEF QueueStep, Next

\* Steps that neither add, finish nor unblock rows.
LEMMA RowsKeptFlow ==
  ASSUME FlowInv, executed' = executed, depends \subseteq depends',
         task_node_id' = task_node_id, handoff' = handoff,
         \A r \in Rows : /\ state'[r] = "BLOCKED" <=> state[r] = "BLOCKED"
                         /\ state'[r] = "DONE" <=> state[r] = "DONE"
                         /\ state'[r] = "ABSENT" <=> state[r] = "ABSENT"
  PROVE  /\ RunsType' /\ EdgesStored' /\ RowsExist'
         /\ StepsInOrder' /\ StepsQueued' /\ ContextReachesNextStep'
<1> USE DEF FlowInv
<1>1. \A n : DoneOnce(n)' <=> DoneOnce(n)
  BY DEF DoneOnce
<1>2. RunsType' /\ EdgesStored' /\ RowsExist'
  BY DEF RunsType, EdgesStored, RowsExist, Exists, Present
<1>3. StepsInOrder'
  BY <1>1 DEF StepsInOrder
<1>4. StepsQueued'
  BY <1>1 DEF StepsQueued, Waits
<1>5. ContextReachesNextStep'
  BY <1>1 DEF ContextReachesNextStep
<1>. QED
  BY <1>2, <1>3, <1>4, <1>5

LEMMA EnqueueFlow ==
  ASSUME FlowInv, executed' = executed,
         NEW n \in Nodes, Exists(n), NEW p \in Priorities, Enqueue(n, p)
  PROVE  /\ RunsType' /\ EdgesStored' /\ RowsExist'
         /\ StepsInOrder' /\ StepsQueued' /\ ContextReachesNextStep'
<1> USE DEF FlowInv
<1>1. PICK s \in Rows :
        /\ \A q \in Rows : Present(q) <=> q < s
        /\ state' = [state EXCEPT ![s] = IF Blocking(n) = {} THEN "READY" ELSE "BLOCKED"]
        /\ task_node_id' = [task_node_id EXCEPT ![s] = n]
        /\ UNCHANGED <<depends, handoff>>
  BY DEF Enqueue, InsertRow
<1>2. /\ state[s] = "ABSENT"
      /\ state'[s] = (IF Blocking(n) = {} THEN "READY" ELSE "BLOCKED") /\ task_node_id'[s] = n
      /\ \A r \in Rows \ {s} : state'[r] = state[r] /\ task_node_id'[r] = task_node_id[r]
  <2>1. s \in Nat /\ ~(s < s)
    BY DEF Rows
  <2>2. state[s] = "ABSENT"
    BY <1>1, <2>1 DEF Present
  <2>. QED
    BY <1>1, <2>2 DEF TypeOK
<1>3. \A m : DoneOnce(m)' <=> DoneOnce(m)
  BY <1>2 DEF DoneOnce
<1>4. RunsType' /\ EdgesStored' /\ RowsExist'
  BY <1>1, <1>2 DEF RunsType, EdgesStored, RowsExist, Exists, Present
<1>5. \A h, k, j : Waits(h, k, j)' <=> Waits(h, k, j)
  BY DEF Waits
<1>6. StepsInOrder'
  <2> SUFFICES ASSUME NEW h, NEW k, NEW j, Waits(h, k, j),
                      NEW r \in Rows, task_node_id'[r] = StepNode(h, k), state'[r] # "BLOCKED"
               PROVE  DoneOnce(StepNode(h, j))
    BY <1>3, <1>5 DEF StepsInOrder, Waits
  <2>1. CASE r = s
    <3>1. Blocking(n) = {} /\ n = StepNode(h, k)
      BY <1>2, <2>1
    <3>2. LatestDone(state, StepNode(h, j))
      BY <3>1, WaitsTypes, WaitsTarget DEF Blocking
    <3>. QED
      BY <3>2 DEF LatestDone, DoneOnce
  <2>2. CASE r # s
    BY <1>2, <2>2, StepsInOrderWaits
  <2>. QED
    BY <2>1, <2>2
<1>7. StepsQueued'
  <2> SUFFICES ASSUME NEW h, NEW k, NEW j, Waits(h, k, j), IsTask(h, k), ~DoneOnce(StepNode(h, j))
               PROVE  \E r \in Rows : task_node_id'[r] = StepNode(h, k) /\ state'[r] = "BLOCKED"
    BY <1>3, <1>5 DEF StepsQueued
  <2>1. PICK r \in Rows : task_node_id[r] = StepNode(h, k) /\ state[r] = "BLOCKED"
    BY DEF StepsQueued
  <2>. QED
    BY <1>2, <2>1
<1>8. ContextReachesNextStep'
  BY <1>1, <1>3 DEF ContextReachesNextStep
<1>. QED
  BY <1>4, <1>6, <1>7, <1>8

LEMMA CompleteFlow ==
  ASSUME FlowInv, executed' = executed, NEW c \in Rows, Complete(c)
  PROVE  /\ RunsType' /\ EdgesStored' /\ RowsExist'
         /\ StepsInOrder' /\ StepsQueued' /\ ContextReachesNextStep'
<1> USE DEF FlowInv
<1> DEFINE n == task_node_id[c]
           done == [state EXCEPT ![c] = "DONE"]
<1>1. /\ state[c] = "IN_PROGRESS"
      /\ state' = [d \in Rows |-> IF d \in Unblockable(done, n) THEN "READY" ELSE done[d]]
      /\ handoff' = [d \in Nodes |-> IF d \in Dependents(state', n) \ HashedNodes
                                     THEN handoff[d] \cup {n} ELSE handoff[d]]
      /\ UNCHANGED <<depends, task_node_id>>
  BY DEF Complete, Unblocked, PropagateContext
<1>2. done[c] = "DONE" /\ \A d \in Rows \ {c} : done[d] = state[d]
  BY DEF TypeOK
<1>3. \A d \in Unblockable(done, n) : d \in Rows /\ done[d] = "BLOCKED" /\ d # c /\ state[d] = "BLOCKED"
  BY <1>2 DEF Unblockable, BlockedDependents
<1> HIDE DEF done
<1>4. \A d \in Rows : state'[d] = "DONE" <=> done[d] = "DONE"
  BY <1>1, <1>3
<1>5. ASSUME NEW m, LatestDone(done, m) PROVE DoneOnce(m)'
  BY <1>1, <1>4, <1>5 DEF LatestDone, DoneOnce
<1>6. ASSUME NEW m, DoneOnce(m) PROVE DoneOnce(m)'
  BY <1>1, <1>2, <1>4, <1>6 DEF DoneOnce
<1>7. \A h, k, j : Waits(h, k, j)' <=> Waits(h, k, j)
  BY DEF Waits
<1>8. RunsType' /\ EdgesStored' /\ RowsExist'
  <2>1. \A r \in Rows : Present(r)' => Present(r)
    BY <1>1, <1>2, <1>3 DEF Present
  <2>. QED
    BY <1>1, <2>1 DEF RunsType, EdgesStored, RowsExist, Exists
<1>9. StepsInOrder'
  <2> SUFFICES ASSUME NEW h, NEW k, NEW j, Waits(h, k, j),
                      NEW r \in Rows, task_node_id[r] = StepNode(h, k), state'[r] # "BLOCKED"
               PROVE  DoneOnce(StepNode(h, j))'
    BY <1>1, <1>7 DEF StepsInOrder, Waits
  <2>1. CASE r \in Unblockable(done, n)
    <3>1. LatestDone(done, StepNode(h, j))
      BY <2>1, WaitsTarget DEF Unblockable
    <3>. QED
      BY <1>5, <3>1
  <2>2. CASE r \notin Unblockable(done, n)
    <3>1. state[r] # "BLOCKED"
      BY <1>1, <1>2, <2>2
    <3>. QED
      BY <1>6, <3>1, StepsInOrderWaits
  <2>. QED
    BY <2>1, <2>2
<1>10. ASSUME NEW h, NEW k, NEW j, Waits(h, k, j), IsTask(h, k), ~DoneOnce(StepNode(h, j))
       PROVE  \E r \in Rows : task_node_id[r] = StepNode(h, k) /\ state[r] = "BLOCKED"
  BY <1>10 DEF StepsQueued
<1>11. StepsQueued'
  <2> SUFFICES ASSUME NEW h, NEW k, NEW j, Waits(h, k, j), IsTask(h, k), ~DoneOnce(StepNode(h, j))'
               PROVE  \E r \in Rows : task_node_id[r] = StepNode(h, k) /\ state'[r] = "BLOCKED"
    BY <1>1, <1>7 DEF StepsQueued
  <2>1. PICK r \in Rows : task_node_id[r] = StepNode(h, k) /\ state[r] = "BLOCKED"
    BY <1>6, <1>10
  <2>2. r \notin Unblockable(done, n)
    BY <1>5, <2>1, WaitsTarget DEF Unblockable
  <2>3. state'[r] = "BLOCKED"
    BY <1>1, <1>2, <2>1, <2>2
  <2>. QED
    BY <2>1, <2>3
<1>12. ContextReachesNextStep'
  <2> SUFFICES ASSUME NEW h, NEW k, NEW j, Waits(h, k, j), IsTask(h, k), DoneOnce(StepNode(h, j))'
               PROVE  StepNode(h, j) \in handoff'[StepNode(h, k)]
    BY <1>7 DEF ContextReachesNextStep, Waits, TaskSteps
  <2>1. StepNode(h, k) \in Nodes \ HashedNodes
    BY WaitsTypes
  <2>2. CASE DoneOnce(StepNode(h, j))
    <3>1. StepNode(h, j) \in handoff[StepNode(h, k)]
      BY <2>2, ContextWaits
    <3>. QED
      BY <1>1, <2>1, <3>1
  <2>3. CASE ~DoneOnce(StepNode(h, j))
    <3>1. PICK d \in Rows : task_node_id[d] = StepNode(h, j) /\ done[d] = "DONE"
      BY <1>1, <1>4 DEF DoneOnce
    <3>2. n = StepNode(h, j)
      BY <1>2, <2>3, <3>1 DEF DoneOnce
    <3>3. PICK r \in Rows : task_node_id[r] = StepNode(h, k) /\ state[r] = "BLOCKED"
      BY <1>10, <2>3
    <3>4. state'[r] \in {"READY", "BLOCKED"}
      BY <1>1, <1>2, <3>3
    <3>5. StepNode(h, k) \in Dependents(state', n)
      BY <3>2, <3>3, <3>4, WaitsTarget DEF Dependents
    <3>. QED
      BY <1>1, <2>1, <3>2, <3>5
  <2>. QED
    BY <2>2, <2>3
<1>. QED
  BY <1>8, <1>9, <1>11, <1>12

LEMMA CheckoutCases ==
  ASSUME \/ \E a \in Agents : McpCheckout(a)
         \/ \E a \in Agents, d \in Leases : CliCheckout(a, d)
  PROVE  \/ RequeueExpired
         \/ \E role : \E r \in First(role), a \in Agents, d \in Nat : Lease(r, a, d)
<1>1. PICK a \in Agents : \E d \in Nat : \E role : CheckoutAs(role, a, d)
  BY NumbersAssumption DEF McpCheckout, CliCheckout
<1>. QED
  BY <1>1 DEF CheckoutAs

LEMMA QueueStepFlow == ASSUME FlowInv, QueueStep, executed' = executed PROVE FlowInv'
<1> DEFINE FlowNext == /\ RunsType' /\ EdgesStored' /\ RowsExist'
                       /\ StepsInOrder' /\ StepsQueued' /\ ContextReachesNextStep'
<1> USE DEF FlowInv
<1>1. TypeOK'
  BY QueueStepIsNext, NextTypeOK
<1>2. FlowNext
  <2>1. CASE \E n \in {m \in Nodes : Exists(m)}, p \in Priorities : Enqueue(n, p)
    BY <2>1, EnqueueFlow
  <2>2. CASE \E r \in Rows : Complete(r)
    BY <2>2, CompleteFlow
  <2>3. CASE \E role : \E r \in First(role), a \in Agents, d \in Nat : Lease(r, a, d)
    <3>1. PICK role : \E r \in First(role), a \in Agents, d \in Nat : Lease(r, a, d)
      BY <2>3
    <3>2. PICK r \in First(role), a \in Agents, d \in Nat : Lease(r, a, d)
      BY <3>1
    <3>3. r \in Rows /\ state[r] \in {"READY", "IN_PROGRESS"}
      BY DEF First, Eligible, Expired
    <3>4. /\ \A q \in Rows : state'[q] = IF q = r THEN "IN_PROGRESS"
                                         ELSE IF Expired(q) THEN "READY" ELSE state[q]
          /\ UNCHANGED <<depends, task_node_id, handoff>>
      BY <3>2 DEF Lease
    <3>. QED
      BY <3>3, <3>4, RowsKeptFlow DEF Expired
  <2>4. CASE RequeueExpired
    BY <2>4, RowsKeptFlow DEF RequeueExpired, Expired
  <2>5. CASE \E r \in Rows : Fail(r)
    BY <2>5, RowsKeptFlow DEF Fail, TypeOK
  <2>6. CASE \/ \E a \in Agents : ReleaseAllLocks(a)
             \/ CleanupExpiredLocks
             \/ \E e \in EdgeChoices : IngestEdge(e)
             \/ Tick
    BY <2>6, RowsKeptFlow DEF ReleaseAllLocks, CleanupExpiredLocks, IngestEdge, Tick, queueVars
  <2>. QED
    BY <2>1, <2>2, <2>3, <2>4, <2>5, <2>6, CheckoutCases DEF QueueStep
<1>. QED
  BY <1>1, <1>2

LEMMA NextFlow == FlowInv /\ [WorkflowNext]_workflowVars => FlowInv'
<1> SUFFICES ASSUME FlowInv, [WorkflowNext]_workflowVars PROVE FlowInv'
  OBVIOUS
<1>1. CASE \E i \in Runs, trigger \in Triggers, p \in Priorities : Execute(i, trigger, p)
  BY <1>1, ExecuteFlow
<1>2. CASE QueueStep /\ UNCHANGED executed
  BY <1>2, QueueStepFlow
<1>3. CASE UNCHANGED workflowVars
  <2>1. UNCHANGED vars /\ executed' = executed
    BY <1>3 DEF workflowVars
  <2>2. TypeOK'
    BY <2>1, NextTypeOK DEF FlowInv
  <2>. QED
    BY <2>1, <2>2, RowsKeptFlow DEF FlowInv, vars, queueVars
<1>. QED
  BY <1>1, <1>2, <1>3 DEF WorkflowNext

LEMMA InitFlow == WorkflowInit => FlowInv
<1> SUFFICES ASSUME WorkflowInit PROVE FlowInv
  OBVIOUS
<1>1. Init /\ executed = {} /\ \A r \in Rows : ~Present(r)
  BY DEF WorkflowInit, Init, Present
<1>. QED
  BY <1>1, InitTypeOK DEF FlowInv, RunsType, EdgesStored, RowsExist, StepsInOrder, StepsQueued,
     Waits, ContextReachesNextStep

LEMMA FlowAlways == WorkflowSpec => []FlowInv
BY InitFlow, NextFlow, PTL DEF WorkflowSpec

\* Whatever the templates are, however many run, and whoever enqueues their
\* nodes again or adds edges: no step's task is handed out before each task
\* that it depends on has been done.
THEOREM StepsComeInOrder == WorkflowSpec => []StepsInOrder
<1>1. FlowInv => StepsInOrder
  BY DEF FlowInv
<1>. QED
  BY <1>1, FlowAlways, PTL

\* A step's task has the context of each task before it once that is done.
THEOREM ContextIsHandedOn == WorkflowSpec => []ContextReachesNextStep
<1>1. FlowInv => ContextReachesNextStep
  BY DEF FlowInv
<1>. QED
  BY <1>1, FlowAlways, PTL
=============================================================================
