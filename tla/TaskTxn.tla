------------------------------ MODULE TaskTxn ------------------------------
(***************************************************************************)
(* The calls of the task service as PostgreSQL runs them: each tool call   *)
(* is a transaction of several statements under READ COMMITTED, and the    *)
(* statements of different agents interleave.  A statement sees what is    *)
(* committed and what its own transaction wrote; an UPDATE waits for a row *)
(* that another transaction has written and then looks at the row again;   *)
(* now() is the time the transaction began.                                *)
(*                                                                         *)
(* Every node has one row in the queue, so the row stands for the node in  *)
(* Prereqs and in holder.  The node's lock columns are kept in the row of  *)
(* the queue, since only a transaction that has written that row writes    *)
(* them; a body that context is handed on to is only its row lock here.    *)
(* Edges do not change.                                                    *)
(***************************************************************************)
EXTENDS Naturals, FiniteSets

CONSTANTS
  Agents,       \* clients, each with one call at a time
  NoAgent,      \* SQL NULL
  Rows,         \* rows of task_queue, numbered in (priority, created_at) order
  NoRow,
  Prereqs,      \* the rows of the nodes each row's node depends on
  HashedNodes,  \* the rows whose nodes have a content_hash: no context reaches them
  Calls,        \* the kinds of call made: a subset of CallKinds
  MaxAttempts,  \* task_queue.max_attempts
  Duration,     \* lease duration
  MaxTime       \* bound: the clock stops here

CallKinds == {"checkout", "complete", "fail", "enqueue"}

ASSUME TxnAssumption == /\ NoAgent \notin Agents
                        /\ Rows \subseteq Nat
                        /\ IsFiniteSet(Rows)
                        /\ NoRow \notin Rows
                        /\ Prereqs \in [Rows -> SUBSET Rows]
                        /\ HashedNodes \subseteq Rows
                        /\ Calls \subseteq CallKinds
                        /\ MaxAttempts \in Nat \ {0}
                        /\ Duration \in Nat
                        /\ MaxTime \in Nat

VARIABLES
  now,         \* the clock
  row,         \* the committed rows
  draft,       \* the newest version of each row, committed or not
  owner,       \* the agent whose transaction wrote the draft and holds the row lock
  holder,      \* the agent whose transaction wrote the row of its node in nodes
  pc,          \* the next statement of each agent's transaction
  call,        \* the call it makes
  target,      \* the row the call is about
  start,       \* when the transaction began
  todo,        \* rows the current loop or statement has still to look at
  seen,        \* the leased_by that get_task_status returned
  verdict,     \* the initial state that check_dependencies settled on
  given,       \* <<agent, row, attempt>>: what committed checkouts returned
  activities   \* committed TASK_COMPLETED and TASK_FAILED activities

dbVars == <<row, draft, owner, holder>>
callVars == <<pc, call, target, start, todo, seen, verdict>>
logVars == <<given, activities>>
vars == <<now, dbVars, callVars, logVars>>

States == {"ABSENT", "READY", "IN_PROGRESS", "BLOCKED", "DONE", "FAILED"}
RowType == [state : States, leased_by : Agents \cup {NoAgent}, lease_expires_at : Nat,
            attempts : Nat, locked_by : Agents \cup {NoAgent}, lock_expires_at : Nat]
Labels == {"idle", "scan", "requeue", "read", "report", "dependents", "unblock",
           "handoff", "check", "insert", "commit"}

EmptyRow == [state |-> "ABSENT", leased_by |-> NoAgent, lease_expires_at |-> 0,
             attempts |-> 0, locked_by |-> NoAgent, lock_expires_at |-> 0]

\* What a statement of a's transaction sees.
View(a, r) == IF owner[r] = a THEN draft[r] ELSE row[r]

\* No other transaction holds the row: an UPDATE by a need not wait.
Unlocked(a, r) == owner[r] \in {NoAgent, a}
NodeFree(a, r) == holder[r] \in {NoAgent, a}

Write(a, r, version) == /\ owner' = [owner EXCEPT ![r] = a]
                        /\ draft' = [draft EXCEPT ![r] = version]
                        /\ UNCHANGED row

GoTo(a, label) == pc' = [pc EXCEPT ![a] = label]

-----------------------------------------------------------------------------
(***************************************************************************)
(* Beginning and end of a transaction.                                     *)
(***************************************************************************)
Begin(a, kind, r, label) ==
  /\ pc[a] = "idle"
  /\ kind \in Calls
  /\ GoTo(a, label)
  /\ call' = [call EXCEPT ![a] = kind]
  /\ target' = [target EXCEPT ![a] = r]
  /\ start' = [start EXCEPT ![a] = now]
  /\ UNCHANGED <<now, dbVars, todo, seen, verdict, logVars>>

BeginCheckout(a) == Begin(a, "checkout", NoRow, "scan")

\* An agent reports on rows it was given, as often as it likes (a client
\* retries when a response is lost) and however late.
BeginReport(a, r) ==
  /\ \E i \in 1 .. MaxAttempts : <<a, r, i>> \in given
  /\ Begin(a, "complete", r, "read") \/ Begin(a, "fail", r, "read")

\* Bound: a node is put into the queue once.
BeginEnqueue(a, r) ==
  /\ row[r].state = "ABSENT"
  /\ \A b \in Agents : ~(call[b] = "enqueue" /\ target[b] = r)
  /\ Begin(a, "enqueue", r, "check")

Forget(a) == /\ GoTo(a, "idle")
             /\ call' = [call EXCEPT ![a] = "none"]
             /\ target' = [target EXCEPT ![a] = NoRow]
             /\ start' = [start EXCEPT ![a] = 0]
             /\ todo' = [todo EXCEPT ![a] = {}]
             /\ seen' = [seen EXCEPT ![a] = NoAgent]
             /\ verdict' = [verdict EXCEPT ![a] = "none"]

Unlock(a) == /\ owner' = [r \in Rows |-> IF owner[r] = a THEN NoAgent ELSE owner[r]]
             /\ holder' = [r \in Rows |-> IF holder[r] = a THEN NoAgent ELSE holder[r]]

Outcome(kind) == IF kind = "complete" THEN "TASK_COMPLETED" ELSE "TASK_FAILED"

Commit(a) ==
  LET r == target[a]
  IN /\ pc[a] = "commit"
     /\ row' = [q \in Rows |-> View(a, q)]
     /\ Unlock(a)
     /\ given' = IF call[a] = "checkout" /\ r # NoRow
                 THEN given \cup {<<a, r, draft[r].attempts>>} ELSE given
     /\ activities' = IF call[a] \in {"complete", "fail"} /\ seen[a] # NoAgent
                      THEN activities \cup {<<Outcome(call[a]), seen[a], r>>}
                      ELSE activities
     /\ UNCHANGED <<now, draft>>
     /\ Forget(a)

\* The connection is lost, the process dies, PostgreSQL breaks a deadlock, or
\* the version that a handoff saves was taken by the completion it waited for.
Abort(a) ==
  /\ pc[a] # "idle"
  /\ draft' = [r \in Rows |-> IF owner[r] = a THEN row[r] ELSE draft[r]]
  /\ Unlock(a)
  /\ UNCHANGED <<now, row, logVars>>
  /\ Forget(a)

-----------------------------------------------------------------------------
(***************************************************************************)
(* checkout: requeue_expired is one UPDATE, which collects its rows and    *)
(* then writes them one after the other; checkout_task takes the first     *)
(* READY row that nobody holds (SKIP LOCKED).                              *)
(***************************************************************************)
\* Mutant of Expired: the UPDATE does not look at the state.
ExpiredInAnyState(version, t) == /\ version.lease_expires_at < t
                                 /\ version.attempts < MaxAttempts

Expired(version, t) == /\ version.state = "IN_PROGRESS"
                       /\ version.lease_expires_at < t
                       /\ version.attempts < MaxAttempts

RequeueScan(a) ==
  /\ pc[a] = "scan"
  /\ todo' = [todo EXCEPT ![a] = {r \in Rows : Expired(row[r], start[a])}]
  /\ GoTo(a, "requeue")
  /\ UNCHANGED <<now, dbVars, call, target, start, seen, verdict, logVars>>

Requeued(version) == [version EXCEPT !.state = "READY",
                                     !.leased_by = NoAgent,
                                     !.lease_expires_at = 0]

\* Mutant of RequeueRow: the rows are collected by a SELECT of their ids.
RequeueRowById(a, r) ==
  /\ pc[a] = "requeue"
  /\ r \in todo[a]
  /\ Unlocked(a, r)
  /\ Write(a, r, Requeued(row[r])) /\ UNCHANGED holder
  /\ todo' = [todo EXCEPT ![a] = @ \ {r}]
  /\ UNCHANGED <<now, pc, call, target, start, seen, verdict, logVars>>

\* A row that had to be waited for is written only if it still qualifies.
RequeueRow(a, r) ==
  /\ pc[a] = "requeue"
  /\ r \in todo[a]
  /\ Unlocked(a, r)
  /\ IF Expired(row[r], start[a])
     THEN Write(a, r, Requeued(row[r])) /\ UNCHANGED holder
     ELSE UNCHANGED dbVars
  /\ todo' = [todo EXCEPT ![a] = @ \ {r}]
  /\ UNCHANGED <<now, pc, call, target, start, seen, verdict, logVars>>

\* Mutant of Free: rows that others hold are not skipped.
FreeIgnoringLocks(a) == {r \in Rows : View(a, r).state = "READY"}

Free(a) == {r \in Rows : View(a, r).state = "READY" /\ Unlocked(a, r)}

LockFree(version, a, t) == version.locked_by \in {NoAgent, a} \/ version.lock_expires_at < t

Locked(version, a, t) ==
  IF LockFree(version, a, t)
  THEN [version EXCEPT !.locked_by = a, !.lock_expires_at = t + Duration]
  ELSE version

Leased(version, a, t) == [version EXCEPT !.state = "IN_PROGRESS",
                                         !.leased_by = a,
                                         !.lease_expires_at = t + Duration,
                                         !.attempts = @ + 1]

\* The node is updated in the same step: nothing can make that UPDATE wait.
Take(a) ==
  /\ pc[a] = "requeue"
  /\ todo[a] = {}
  /\ \/ Free(a) = {} /\ UNCHANGED <<dbVars, target>>
     \/ \E r \in Free(a) :
          /\ \A q \in Free(a) : r <= q
          /\ NodeFree(a, r)
          /\ Write(a, r, Locked(Leased(View(a, r), a, start[a]), a, start[a]))
          /\ holder' = [holder EXCEPT ![r] = IF LockFree(View(a, r), a, start[a]) THEN a ELSE @]
          /\ target' = [target EXCEPT ![a] = r]
  /\ GoTo(a, "commit")
  /\ UNCHANGED <<now, call, start, todo, seen, verdict, logVars>>

-----------------------------------------------------------------------------
(***************************************************************************)
(* complete and fail: read the row, update it, and, for complete, look at  *)
(* each BLOCKED dependent in queue order.                                  *)
(***************************************************************************)
ReadTask(a) ==
  /\ pc[a] = "read"
  /\ seen' = [seen EXCEPT ![a] = row[target[a]].leased_by]
  /\ GoTo(a, "report")
  /\ UNCHANGED <<now, dbVars, call, target, start, todo, verdict, logVars>>

\* The lock is released in the name of the agent seen before the update.
Releases(version, a) == version.locked_by = seen[a] /\ seen[a] # NoAgent

Reported(version, state, a) ==
  [version EXCEPT !.state = state,
                  !.locked_by = IF Releases(version, a) THEN NoAgent ELSE @,
                  !.lock_expires_at = IF Releases(version, a) THEN 0 ELSE @]

\* release: an UPDATE of the node if the lock is the leaseholder's.
ReleaseNode(a, r) ==
  /\ Releases(row[r], a) => NodeFree(a, r)
  /\ holder' = [holder EXCEPT ![r] = IF Releases(row[r], a) THEN a ELSE @]

\* Mutant of Report: the state is the one read before, not the one found.
ReportUnchecked(a) ==
  /\ pc[a] = "report"
  /\ Unlocked(a, target[a])
  /\ Write(a, target[a], Reported(row[target[a]],
                                  IF call[a] = "complete" THEN "DONE" ELSE "FAILED", a))
  /\ ReleaseNode(a, target[a])
  /\ GoTo(a, IF call[a] = "complete" THEN "dependents" ELSE "commit")
  /\ UNCHANGED <<now, call, target, start, todo, seen, verdict, logVars>>

\* A row that is not IN_PROGRESS is refused and the call ends; the caller
\* need not be the agent that leases the row.  The node is updated in the same
\* step: once the row is a's, nothing can make that UPDATE wait.
Report(a) ==
  /\ pc[a] = "report"
  /\ Unlocked(a, target[a])
  /\ IF row[target[a]].state = "IN_PROGRESS"
     THEN /\ Write(a, target[a],
                   Reported(row[target[a]],
                            IF call[a] = "complete" THEN "DONE" ELSE "FAILED", a))
          /\ ReleaseNode(a, target[a])
          /\ GoTo(a, IF call[a] = "complete" THEN "dependents" ELSE "commit")
          /\ UNCHANGED <<call, target, start, todo, seen, verdict>>
     ELSE Forget(a) /\ UNCHANGED dbVars
  /\ UNCHANGED <<now, logVars>>

FindDependents(a) ==
  /\ pc[a] = "dependents"
  /\ todo' = [todo EXCEPT ![a] = {d \in Rows : /\ View(a, d).state = "BLOCKED"
                                               /\ target[a] \in Prereqs[d]}]
  /\ GoTo(a, "unblock")
  /\ UNCHANGED <<now, dbVars, call, target, start, seen, verdict, logVars>>

\* Mutant of AllDone: one finished prerequisite is enough.
AnyDone(a, d) == Prereqs[d] = {} \/ \E p \in Prereqs[d] : View(a, p).state = "DONE"

AllDone(a, d) == \A p \in Prereqs[d] : View(a, p).state = "DONE"

\* DONE is never left, so the SELECTs of the targets and the UPDATE may be
\* taken together: the UPDATE only adds the wait for d.
UnblockRow(a, d) ==
  /\ pc[a] = "unblock"
  /\ d \in todo[a]
  /\ \A q \in todo[a] : d <= q
  /\ \/ ~AllDone(a, d) /\ UNCHANGED dbVars
     \/ /\ AllDone(a, d)
        /\ Unlocked(a, d)
        /\ IF View(a, d).state = "BLOCKED"
           THEN Write(a, d, [View(a, d) EXCEPT !.state = "READY"]) /\ UNCHANGED holder
           ELSE UNCHANGED dbVars
  /\ todo' = [todo EXCEPT ![a] = @ \ {d}]
  /\ UNCHANGED <<now, pc, call, target, start, seen, verdict, logVars>>

\* The nodes that the completed row's context is handed on to: those that
\* depend on it and wait or are worked on, but for the hashed ones, which
\* upsert_node skips.
Heirs(a) == {d \in Rows \ HashedNodes : /\ View(a, d).state \in {"BLOCKED", "READY", "IN_PROGRESS"}
                                        /\ target[a] \in Prereqs[d]}

\* The unblocking is over: propagate_context looks for the dependents, in two
\* SELECTs that are taken together.
FindHeirs(a) ==
  /\ pc[a] = "unblock"
  /\ todo[a] = {}
  /\ todo' = [todo EXCEPT ![a] = Heirs(a)]
  /\ GoTo(a, "handoff")
  /\ UNCHANGED <<now, dbVars, call, target, start, seen, verdict, logVars>>

\* One upsert_node, in the order of a Python set: the INSERT of a version,
\* which waits for one that another transaction has inserted, and the UPDATE.
HandOn(a, d) ==
  /\ pc[a] = "handoff"
  /\ d \in todo[a]
  /\ NodeFree(a, d)
  /\ holder' = [holder EXCEPT ![d] = a]
  /\ todo' = [todo EXCEPT ![a] = @ \ {d}]
  /\ UNCHANGED <<now, row, draft, owner, pc, call, target, start, seen, verdict, logVars>>

HandoffEnd(a) ==
  /\ pc[a] = "handoff"
  /\ todo[a] = {}
  /\ GoTo(a, "commit")
  /\ UNCHANGED <<now, dbVars, call, target, start, todo, seen, verdict, logVars>>

-----------------------------------------------------------------------------
(***************************************************************************)
(* enqueue: check the prerequisites, then insert the row.                  *)
(***************************************************************************)
CheckDependencies(a) ==
  /\ pc[a] = "check"
  /\ verdict' = [verdict EXCEPT ![a] = IF AllDone(a, target[a]) THEN "READY" ELSE "BLOCKED"]
  /\ GoTo(a, "insert")
  /\ UNCHANGED <<now, dbVars, call, target, start, todo, seen, logVars>>

Insert(a) ==
  /\ pc[a] = "insert"
  /\ Write(a, target[a], [EmptyRow EXCEPT !.state = verdict[a]])
  /\ UNCHANGED holder
  /\ GoTo(a, "commit")
  /\ UNCHANGED <<now, call, target, start, todo, seen, verdict, logVars>>

Tick == /\ now < MaxTime
        /\ now' = now + 1
        /\ UNCHANGED <<dbVars, callVars, logVars>>

-----------------------------------------------------------------------------
Init == /\ now = 0
        /\ row = [r \in Rows |-> EmptyRow]
        /\ draft = row
        /\ owner = [r \in Rows |-> NoAgent]
        /\ holder = [r \in Rows |-> NoAgent]
        /\ pc = [a \in Agents |-> "idle"]
        /\ call = [a \in Agents |-> "none"]
        /\ target = [a \in Agents |-> NoRow]
        /\ start = [a \in Agents |-> 0]
        /\ todo = [a \in Agents |-> {}]
        /\ seen = [a \in Agents |-> NoAgent]
        /\ verdict = [a \in Agents |-> "none"]
        /\ given = {}
        /\ activities = {}

\* One statement of a's transaction.
Statement(a) == \/ RequeueScan(a) \/ Take(a)
                \/ ReadTask(a) \/ Report(a) \/ FindDependents(a)
                \/ FindHeirs(a) \/ HandoffEnd(a)
                \/ CheckDependencies(a) \/ Insert(a) \/ Commit(a)
                \/ \E r \in Rows : RequeueRow(a, r) \/ UnblockRow(a, r) \/ HandOn(a, r)

BeginCall(a) == \/ BeginCheckout(a)
                \/ \E r \in Rows : BeginReport(a, r) \/ BeginEnqueue(a, r)

Next == \/ \E a \in Agents : BeginCall(a) \/ Statement(a) \/ Abort(a)
        \/ Tick

Spec == Init /\ [][Next]_vars

-----------------------------------------------------------------------------
(***************************************************************************)
(* Properties.  Those of the rows speak of the committed table.            *)
(***************************************************************************)
\* Columns and locals have their types; only a transaction that has begun to
\* write holds rows; a row nobody holds has no uncommitted version.
TypeOK ==
  /\ now \in Nat
  /\ row \in [Rows -> RowType]
  /\ draft \in [Rows -> RowType]
  /\ owner \in [Rows -> Agents \cup {NoAgent}]
  /\ holder \in [Rows -> Agents \cup {NoAgent}]
  /\ pc \in [Agents -> Labels]
  /\ call \in [Agents -> CallKinds \cup {"none"}]
  /\ target \in [Agents -> Rows \cup {NoRow}]
  /\ start \in [Agents -> Nat]
  /\ todo \in [Agents -> SUBSET Rows]
  /\ seen \in [Agents -> Agents \cup {NoAgent}]
  /\ verdict \in [Agents -> {"none", "READY", "BLOCKED"}]
  /\ given \subseteq Agents \X Rows \X Nat
  /\ activities \subseteq {"TASK_COMPLETED", "TASK_FAILED"} \X Agents \X Rows
  /\ \A r \in Rows : IF owner[r] = NoAgent
                     THEN draft[r] = row[r]
                     ELSE pc[owner[r]] \in {"requeue", "dependents", "unblock", "handoff", "commit"}

\* SKIP LOCKED and the requeue together hand out each attempt of a row once,
\* to one agent, however many agents check out at the same time.
HandedOutOnce ==
  \A g, h \in given : g[2] = h[2] /\ g[3] = h[3] => g[1] = h[1]

\* Whatever overlaps, a row gets one outcome, and one activity at most says
\* which.
OutcomeRecordedOnce ==
  /\ \A x, y \in activities : x[3] = y[3] => x = y
  /\ \A x \in activities :
       row[x[3]].state = IF x[1] = "TASK_COMPLETED" THEN "DONE" ELSE "FAILED"

\* The next statement of a needs a row, of the queue or of nodes, that b's
\* transaction has written: a waits for b to end.
WaitsFor(a, b) ==
  \/ pc[a] = "requeue" /\ \E r \in todo[a] : owner[r] = b
  \/ /\ pc[a] = "requeue" /\ todo[a] = {}
     /\ \E r \in Free(a) : (\A q \in Free(a) : r <= q) /\ holder[r] = b
  \/ pc[a] = "report" /\ owner[target[a]] = b
  \/ /\ pc[a] = "report" /\ row[target[a]].state = "IN_PROGRESS"
     /\ Releases(row[target[a]], a) /\ holder[target[a]] = b
  \/ pc[a] = "unblock" /\ \E d \in todo[a] : AllDone(a, d) /\ owner[d] = b
  \/ pc[a] = "handoff" /\ \E d \in todo[a] : holder[d] = b

\* The nodes that depend on both of the rows that a and b report on.
CommonHeirs(a, b) == {d \in Rows \ HashedNodes : {target[a], target[b]} \subseteq Prereqs[d]}

\* A call waits for another in three places only: a requeue, at an expired
\* row; a report, at its own row, when it holds nothing yet; and a completion,
\* to hand its context on to a node that the completion of another prerequisite
\* has handed its own to.  Neither the unblocking of dependents nor taking or
\* releasing a node's lock ever waits.
WaitsAreKnown ==
  \A a, b \in Agents : a # b /\ WaitsFor(a, b) =>
    \/ pc[a] = "requeue" /\ \E r \in todo[a] : owner[r] = b
    \/ pc[a] = "report" /\ owner[target[a]] = b
    \/ /\ pc[a] = "handoff"
       /\ call[b] = "complete" /\ pc[b] \in {"handoff", "commit"}
       /\ CommonHeirs(a, b) # {}

\* Two calls wait for one another, until PostgreSQL aborts one of them, in two
\* ways only: both requeue expired rows, or both hand context on to the same
\* two nodes.
DeadlocksAreKnown ==
  \A a, b \in Agents : a # b /\ WaitsFor(a, b) /\ WaitsFor(b, a) =>
    \/ pc[a] = "requeue" /\ pc[b] = "requeue"
    \/ /\ pc[a] = "handoff" /\ pc[b] = "handoff"
       /\ \E d, e \in CommonHeirs(a, b) : d # e

\* A live lease is never taken from its agent by a transaction that began
\* before the lease was granted, or after.
LeaseHonoured ==
  [][\A r \in Rows : row[r].state = "IN_PROGRESS" /\ row[r].lease_expires_at >= now =>
       \/ row'[r].state \in {"DONE", "FAILED"}
       \/ /\ row'[r].state = "IN_PROGRESS"
          /\ row'[r].leased_by = row[r].leased_by
          /\ row'[r].lease_expires_at = row[r].lease_expires_at]_vars

\* A BLOCKED row becomes READY only in a commit after which all its
\* prerequisites are committed as DONE.
UnblockedWhenDone ==
  [][\A r \in Rows : row[r].state = "BLOCKED" /\ row'[r].state # "BLOCKED" =>
       /\ row'[r].state = "READY"
       /\ \A p \in Prereqs[r] : row'[p].state = "DONE"]_vars

\* The committed table keeps the promise stated in TaskLifecycle, whatever
\* the calls in flight do to each other.
Lifecycle == INSTANCE TaskLifecycle
  WITH status <- [r \in Rows |-> row[r].state],
       leases <- [r \in Rows |-> row[r].attempts]
KeepsLifecycle == Lifecycle!LifecycleSpec
=============================================================================
