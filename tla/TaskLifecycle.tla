--------------------------- MODULE TaskLifecycle ---------------------------
(***************************************************************************)
(* What the task service promises of the rows of task_queue: each is       *)
(* inserted once, waits for its prerequisites, is leased at most           *)
(* MaxAttempts times, and ends in DONE or FAILED, which it never leaves.   *)
(* Agents, clocks, dependencies and locks do not appear: TaskQueue and     *)
(* TaskTxn implement this.  One call may move several rows at once.        *)
(***************************************************************************)
EXTENDS Naturals

CONSTANTS Rows,        \* the ids of the rows of task_queue
          MaxAttempts  \* task_queue.max_attempts, 3 by default in the schema

VARIABLES
  status,   \* "ABSENT" until the row is inserted, then the task_state enum
  leases    \* how many times the row has been leased (task_queue.attempts)

lifecycleVars == <<status, leases>>

LifecycleInit == /\ status = [r \in Rows |-> "ABSENT"]
                 /\ leases = [r \in Rows |-> 0]

Become(r, from, to) == status[r] = from /\ status'[r] = to

\* The row is inserted, ready at once or blocked by its prerequisites.
Insert(r) == /\ Become(r, "ABSENT", "READY") \/ Become(r, "ABSENT", "BLOCKED")
             /\ leases'[r] = leases[r]

\* Its last prerequisite completed.
Unblock(r) == Become(r, "BLOCKED", "READY") /\ leases'[r] = leases[r]

\* An agent leases it: a ready row, or one whose lease is revoked by the call.
Lease(r) == /\ \/ Become(r, "READY", "IN_PROGRESS")
               \/ Become(r, "IN_PROGRESS", "IN_PROGRESS")
            /\ leases[r] < MaxAttempts
            /\ leases'[r] = leases[r] + 1

\* Its lease is revoked: only while another attempt is left.
Revoke(r) == /\ Become(r, "IN_PROGRESS", "READY")
             /\ leases[r] < MaxAttempts
             /\ leases'[r] = leases[r]

\* The outcome is reported; there is no way out of either.
Report(r) == /\ \/ Become(r, "IN_PROGRESS", "DONE")
                \/ Become(r, "IN_PROGRESS", "FAILED")
             /\ leases'[r] = leases[r]

Rest(r) == status'[r] = status[r] /\ leases'[r] = leases[r]

LifecycleNext ==
  \A r \in Rows : \/ Insert(r) \/ Unblock(r) \/ Lease(r)
                  \/ Revoke(r) \/ Report(r) \/ Rest(r)

LifecycleSpec == LifecycleInit /\ [][LifecycleNext]_lifecycleVars
=============================================================================
