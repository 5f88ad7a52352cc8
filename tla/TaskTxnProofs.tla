--------------------------- MODULE TaskTxnProofs ---------------------------
(***************************************************************************)
(* Theorems about the overlapping calls of TaskTxn, for any number of      *)
(* agents and rows, any prerequisites, durations and attempt limit.        *)
(*                                                                         *)
(* The invariant says what a transaction may have made of each row it has  *)
(* written (MadeBy...), and what its locals mean at each statement.  Steps *)
(* of one agent leave what others have written alone (Respects), so that   *)
(* each action is looked at for the agent that takes it only.              *)
(***************************************************************************)
EXTENDS TaskTxn, TLAPS

(***************************************************************************)
(* The invariant.                                                          *)
(***************************************************************************)
ColumnsTyped ==
  /\ now \in Nat
  /\ row \in [Rows -> RowType]
  /\ draft \in [Rows -> RowType]
  /\ owner \in [Rows -> Agents \cup {NoAgent}]
  /\ pc \in [Agents -> Labels]
  /\ call \in [Agents -> CallKinds \cup {"none"}]
  /\ target \in [Agents -> Rows \cup {NoRow}]
  /\ start \in [Agents -> Nat]
  /\ todo \in [Agents -> SUBSET Rows]
  /\ seen \in [Agents -> Agents \cup {NoAgent}]
  /\ verdict \in [Agents -> {"none", "READY", "BLOCKED"}]
  /\ given \subseteq Agents \X Rows \X Nat
  /\ activities \subseteq {"TASK_COMPLETED", "TASK_FAILED"} \X Agents \X Rows

\* What a has made of a row it holds: five ways to write one.
MadeByRequeue(a, r) ==
  /\ call[a] = "checkout" /\ pc[a] \in {"requeue", "commit"}
  /\ Expired(row[r], start[a])
  /\ draft[r].state = "READY" /\ draft[r].attempts = row[r].attempts

MadeByTake(a, r) ==
  /\ call[a] = "checkout" /\ pc[a] = "commit" /\ target[a] = r
  /\ row[r].state = "READY" \/ Expired(row[r], start[a])
  /\ draft[r].state = "IN_PROGRESS" /\ draft[r].attempts = row[r].attempts + 1

MadeByReport(a, r) ==
  /\ \/ call[a] = "complete" /\ draft[r].state = "DONE"
     \/ call[a] = "fail" /\ draft[r].state = "FAILED"
  /\ pc[a] \in {"dependents", "unblock", "handoff", "commit"} /\ target[a] = r
  /\ row[r].state = "IN_PROGRESS" /\ draft[r].attempts = row[r].attempts

MadeByUnblock(a, r) ==
  /\ call[a] = "complete" /\ pc[a] \in {"unblock", "handoff", "commit"}
  /\ row[r].state = "BLOCKED" /\ AllDone(a, r)
  /\ draft[r].state = "READY" /\ draft[r].attempts = row[r].attempts

MadeByInsert(a, r) ==
  /\ call[a] = "enqueue" /\ pc[a] = "commit" /\ target[a] = r
  /\ row[r].state = "ABSENT"
  /\ draft[r].state \in {"READY", "BLOCKED"} /\ draft[r].attempts = row[r].attempts

Made(a, r) == \/ MadeByRequeue(a, r) \/ MadeByTake(a, r) \/ MadeByReport(a, r)
              \/ MadeByUnblock(a, r) \/ MadeByInsert(a, r)

DraftsMade ==
  \A r \in Rows : /\ owner[r] = NoAgent => draft[r] = row[r]
                  /\ \A a \in Agents : owner[r] = a => Made(a, r)

\* What the locals of a call mean.
CallOK(a) ==
  /\ start[a] <= now
  /\ pc[a] \in {"scan", "requeue"} => call[a] = "checkout" /\ target[a] = NoRow
  /\ pc[a] \in {"read", "report"} => call[a] \in {"complete", "fail"} /\ target[a] \in Rows
  /\ pc[a] \in {"dependents", "unblock", "handoff"} => call[a] = "complete"
  /\ pc[a] \in {"check", "insert"} => call[a] = "enqueue"
  /\ pc[a] = "insert" => verdict[a] \in {"READY", "BLOCKED"}
  /\ pc[a] \in {"dependents", "unblock", "handoff", "commit"} /\ call[a] \in {"complete", "fail"} =>
       target[a] \in Rows /\ owner[target[a]] = a /\ MadeByReport(a, target[a])
  /\ pc[a] = "commit" /\ call[a] = "checkout" /\ target[a] # NoRow =>
       target[a] \in Rows /\ owner[target[a]] = a /\ MadeByTake(a, target[a])
  /\ call[a] = "enqueue" => /\ pc[a] \in {"check", "insert", "commit"}
                            /\ target[a] \in Rows /\ row[target[a]].state = "ABSENT"

\* A dependent that is still to be looked at is untouched.
TodoOK(a) ==
  pc[a] = "unblock" => \A d \in todo[a] : /\ target[a] \in Prereqs[d]
                                          /\ row[d].state = "BLOCKED"
                                          /\ owner[d] = NoAgent

EnqueuesDiffer ==
  \A a, b \in Agents : call[a] = "enqueue" /\ call[b] = "enqueue" /\ target[a] = target[b] => a = b

\* A row that waits has an attempt left; what is handed out counts.
AttemptsLeft ==
  \A r \in Rows : /\ row[r].state \in {"ABSENT", "BLOCKED"} => row[r].attempts = 0
                  /\ row[r].state = "READY" => row[r].attempts < MaxAttempts

GivenCounted == \A g \in given : g[3] <= row[g[2]].attempts

TxnInv == /\ ColumnsTyped
          /\ DraftsMade
          /\ \A a \in Agents : CallOK(a) /\ TodoOK(a)
          /\ EnqueuesDiffer
          /\ AttemptsLeft
          /\ GivenCounted
          /\ HandedOutOnce
          /\ OutcomeRecordedOnce

-----------------------------------------------------------------------------
(***************************************************************************)
(* Types.                                                                  *)
(***************************************************************************)
LEMMA VersionTypes ==
  ASSUME NEW v \in RowType, NEW a \in Agents, NEW t \in Nat, NEW s \in States
  PROVE  /\ Requeued(v) \in RowType
         /\ Leased(v, a, t) \in RowType
         /\ Locked(v, a, t) \in RowType
         /\ Reported(v, s, a) \in RowType
         /\ [v EXCEPT !.state = s] \in RowType
         /\ EmptyRow \in RowType
<1>1. t + Duration \in Nat /\ v.attempts + 1 \in Nat
  BY TxnAssumption DEF TxnAssumption, RowType
<1>2. "IN_PROGRESS" \in States /\ "READY" \in States /\ "ABSENT" \in States
  BY DEF States
<1>3. Requeued(v) \in RowType /\ Leased(v, a, t) \in RowType
  BY <1>1, <1>2 DEF Requeued, Leased, RowType
<1>4. Locked(v, a, t) \in RowType
  BY <1>1 DEF Locked, RowType
<1>5. Reported(v, s, a) \in RowType
  BY DEF Reported, RowType
<1>6. [v EXCEPT !.state = s] \in RowType /\ EmptyRow \in RowType
  BY <1>2 DEF EmptyRow, RowType
<1>7. QED
  BY <1>3, <1>4, <1>5, <1>6

LEMMA InitColumnsTyped == Init => ColumnsTyped
<1> SUFFICES ASSUME Init PROVE ColumnsTyped
  OBVIOUS
<1>1. EmptyRow \in RowType
  BY DEF EmptyRow, RowType, States
<1>2. row \in [Rows -> RowType] /\ draft \in [Rows -> RowType]
  BY <1>1 DEF Init
<1>3. QED
  BY <1>2 DEF Init, ColumnsTyped, Labels, CallKinds

LEMMA BeginColumnsTyped ==
  ASSUME ColumnsTyped, NEW a \in Agents, NEW kind \in CallKinds, NEW r \in Rows \cup {NoRow},
         NEW label \in Labels, Begin(a, kind, r, label)
  PROVE  ColumnsTyped'
BY DEF Begin, GoTo, ColumnsTyped, dbVars, logVars

LEMMA ForgetTyped ==
  ASSUME ColumnsTyped, NEW a \in Agents, Forget(a)
  PROVE  /\ pc' \in [Agents -> Labels]
         /\ call' \in [Agents -> CallKinds \cup {"none"}]
         /\ target' \in [Agents -> Rows \cup {NoRow}]
         /\ start' \in [Agents -> Nat]
         /\ todo' \in [Agents -> SUBSET Rows]
         /\ seen' \in [Agents -> Agents \cup {NoAgent}]
         /\ verdict' \in [Agents -> {"none", "READY", "BLOCKED"}]
BY DEF Forget, GoTo, ColumnsTyped, Labels

LEMMA WriteTyped ==
  ASSUME ColumnsTyped, NEW a \in Agents, NEW r \in Rows, NEW v \in RowType, Write(a, r, v)
  PROVE  /\ row' \in [Rows -> RowType]
         /\ draft' \in [Rows -> RowType]
         /\ owner' \in [Rows -> Agents \cup {NoAgent}]
BY DEF Write, ColumnsTyped

-----------------------------------------------------------------------------
(***************************************************************************)
(* What others have written, and where they are, is left alone.            *)
(***************************************************************************)
\* A step of a: it takes rows nobody holds, lets go of its own, changes what
\* is committed of its own only, and takes no row that must wait.
Respects(a) ==
  \A r \in Rows :
    /\ owner[r] \notin {NoAgent, a} => owner'[r] = owner[r] /\ draft'[r] = draft[r]
    /\ owner'[r] \in {owner[r], NoAgent, a}
    /\ owner[r] # a => row'[r] = row[r]
    /\ owner'[r] = a /\ owner[r] # a => row[r].state # "BLOCKED" \/ AllDone(a, r)

OthersStay(a) ==
  \A b \in Agents \ {a} : /\ pc'[b] = pc[b] /\ call'[b] = call[b] /\ target'[b] = target[b]
                          /\ start'[b] = start[b] /\ todo'[b] = todo[b] /\ verdict'[b] = verdict[b]

LEMMA HeldIsMade ==
  ASSUME TxnInv, NEW a \in Agents, NEW r \in Rows, owner[r] = a
  PROVE  Made(a, r)
BY DEF TxnInv, DraftsMade

\* An outcome is final: no open transaction holds such a row.
LEMMA OutcomeIsFinal ==
  ASSUME TxnInv, NEW a \in Agents, Respects(a), NEW p \in Rows, row[p].state \in {"DONE", "FAILED"}
  PROVE  owner[p] = NoAgent /\ row'[p] = row[p]
<1>1. owner[p] = NoAgent
  <2>1. ~Made(owner[p], p)
    BY DEF Made, MadeByRequeue, MadeByTake, MadeByReport, MadeByUnblock, MadeByInsert, Expired
  <2>2. owner[p] \in Agents \cup {NoAgent}
    BY DEF TxnInv, ColumnsTyped
  <2>3. QED
    BY <2>1, <2>2, HeldIsMade
<1>2. owner[p] # a
  BY <1>1, TxnAssumption DEF TxnAssumption
<1>3. QED
  BY <1>1, <1>2 DEF Respects

LEMMA OthersHoldTheSame ==
  ASSUME TxnInv, NEW a \in Agents, Respects(a), NEW b \in Agents \ {a}, NEW r \in Rows
  PROVE  /\ owner[r] = b => owner'[r] = b /\ draft'[r] = draft[r] /\ row'[r] = row[r]
         /\ owner'[r] = b => owner[r] = b
BY TxnAssumption DEF TxnAssumption, Respects

\* What b sees as DONE stays so.
LEMMA AllDoneKept ==
  ASSUME TxnInv, NEW a \in Agents, Respects(a), NEW b \in Agents \ {a}, NEW d \in Rows,
         AllDone(b, d)
  PROVE  AllDone(b, d)'
<1> SUFFICES ASSUME NEW p \in Prereqs[d] PROVE View(b, p)'.state = "DONE"
  BY DEF AllDone
<1>1. p \in Rows /\ View(b, p).state = "DONE"
  BY TxnAssumption DEF TxnAssumption, AllDone
<1>2. CASE owner[p] = b
  BY <1>1, <1>2, OthersHoldTheSame DEF View
<1>3. CASE owner[p] # b
  <2>1. row[p].state = "DONE" /\ owner'[p] # b
    BY <1>1, <1>3, OthersHoldTheSame DEF View
  <2>2. row'[p] = row[p]
    BY <1>1, <2>1, OutcomeIsFinal
  <2>3. QED
    BY <2>1, <2>2 DEF View
<1>4. QED
  BY <1>2, <1>3

LEMMA OthersMadeKept ==
  ASSUME TxnInv, NEW a \in Agents, Respects(a), OthersStay(a),
         NEW b \in Agents \ {a}, NEW r \in Rows, owner'[r] = b
  PROVE  Made(b, r)'
<1>1. /\ owner[r] = b /\ draft'[r] = draft[r] /\ row'[r] = row[r]
  BY OthersHoldTheSame
<1>2. Made(b, r)
  BY <1>1, HeldIsMade
<1>3. pc'[b] = pc[b] /\ call'[b] = call[b] /\ target'[b] = target[b] /\ start'[b] = start[b]
  BY DEF OthersStay
<1>4. AllDone(b, r) => AllDone(b, r)'
  BY AllDoneKept
<1>5. QED
  BY <1>1, <1>2, <1>3, <1>4 DEF Made, MadeByRequeue, MadeByTake, MadeByReport, MadeByUnblock,
     MadeByInsert, Expired

\* A row that is ABSENT is held by nobody but the agent that enqueues it.
LEMMA AbsentHeldByEnqueue ==
  ASSUME TxnInv, NEW b \in Agents, call[b] = "enqueue", NEW a \in Agents \ {b}
  PROVE  owner[target[b]] # a
<1> SUFFICES ASSUME owner[target[b]] = a PROVE FALSE
  OBVIOUS
<1>1. target[b] \in Rows /\ row[target[b]].state = "ABSENT"
  BY DEF TxnInv, CallOK
<1>2. Made(a, target[b])
  BY <1>1, HeldIsMade
<1>3. MadeByInsert(a, target[b])
  BY <1>1, <1>2 DEF Made, MadeByRequeue, MadeByTake, MadeByReport, MadeByUnblock, Expired
<1>4. call[a] = "enqueue" /\ target[a] = target[b]
  BY <1>3 DEF MadeByInsert
<1>5. QED
  BY <1>4 DEF TxnInv, EnqueuesDiffer

LEMMA OthersCallKept ==
  ASSUME TxnInv, NEW a \in Agents, Respects(a), OthersStay(a), now' = now,
         NEW b \in Agents \ {a}
  PROVE  CallOK(b)'
<1>1. /\ pc'[b] = pc[b] /\ call'[b] = call[b] /\ target'[b] = target[b]
      /\ start'[b] = start[b] /\ verdict'[b] = verdict[b]
  BY DEF OthersStay
<1>2. CallOK(b)
  BY DEF TxnInv
<1>3. target[b] \in Rows /\ owner[target[b]] = b =>
        /\ owner'[target[b]] = b /\ draft'[target[b]] = draft[target[b]]
        /\ row'[target[b]] = row[target[b]]
  BY OthersHoldTheSame
<1>4. call[b] = "enqueue" => row'[target[b]] = row[target[b]]
  BY <1>2, AbsentHeldByEnqueue DEF Respects, CallOK
<1>5. QED
  BY <1>1, <1>2, <1>3, <1>4 DEF CallOK, MadeByReport, MadeByTake, Expired

LEMMA OthersTodoKept ==
  ASSUME TxnInv, NEW a \in Agents, Respects(a), OthersStay(a), NEW b \in Agents \ {a}
  PROVE  TodoOK(b)'
<1> SUFFICES ASSUME pc'[b] = "unblock", NEW d \in todo'[b]
             PROVE  /\ target'[b] \in Prereqs[d]
                    /\ row'[d].state = "BLOCKED"
                    /\ owner'[d] = NoAgent
  BY DEF TodoOK
<1>1. pc[b] = "unblock" /\ d \in todo[b] /\ target'[b] = target[b]
  BY DEF OthersStay
<1>2. target[b] \in Prereqs[d] /\ row[d].state = "BLOCKED" /\ owner[d] = NoAgent
  BY <1>1 DEF TxnInv, TodoOK
<1>3. d \in Rows
  BY <1>1 DEF TxnInv, ColumnsTyped
<1>4. owner[target[b]] = b /\ row[target[b]].state = "IN_PROGRESS"
  BY <1>1 DEF TxnInv, CallOK, MadeByReport
<1>5. ~AllDone(a, d)
  BY <1>2, <1>4 DEF AllDone, View
<1>6. owner[d] # a
  BY <1>2, TxnAssumption DEF TxnAssumption
<1>7. QED
  BY <1>1, <1>2, <1>3, <1>5, <1>6 DEF Respects

-----------------------------------------------------------------------------
(***************************************************************************)
(* The statements before the commit.                                       *)
(***************************************************************************)
\* What is left to show for the agent that takes the step.
StepOK(a) == /\ ColumnsTyped'
             /\ Respects(a) /\ OthersStay(a) /\ now' = now
             /\ \A r \in Rows : owner'[r] = a => Made(a, r)'
             /\ \A r \in Rows : owner'[r] = NoAgent => draft'[r] = row'[r]
             /\ CallOK(a)' /\ TodoOK(a)'
             /\ EnqueuesDiffer'

LEMMA StepDraftsMade ==
  ASSUME TxnInv, NEW a \in Agents, StepOK(a)
  PROVE  /\ DraftsMade'
         /\ \A b \in Agents : CallOK(b)' /\ TodoOK(b)'
<1>1. ASSUME NEW b \in Agents PROVE CallOK(b)' /\ TodoOK(b)'
  BY OthersCallKept, OthersTodoKept DEF StepOK
<1>2. ASSUME NEW r \in Rows, NEW b \in Agents, owner'[r] = b PROVE Made(b, r)'
  BY <1>2, OthersMadeKept DEF StepOK
<1>3. QED
  BY <1>1, <1>2 DEF DraftsMade, StepOK

LEMMA StatementInv ==
  ASSUME TxnInv, NEW a \in Agents, StepOK(a), UNCHANGED <<row, given, activities>>
  PROVE  TxnInv'
<1>1. AttemptsLeft' /\ GivenCounted' /\ HandedOutOnce' /\ OutcomeRecordedOnce'
  BY DEF TxnInv, AttemptsLeft, GivenCounted, HandedOutOnce, OutcomeRecordedOnce
<1>2. QED
  BY <1>1, StepDraftsMade DEF TxnInv, StepOK

\* A statement that writes no row of the queue.
LEMMA QuietStep ==
  ASSUME TxnInv, NEW a \in Agents, UNCHANGED <<row, draft, owner>>
  PROVE  /\ Respects(a)
         /\ \A r \in Rows : owner'[r] = NoAgent => draft'[r] = row'[r]
<1>1. Respects(a)
  BY DEF Respects
<1>2. QED
  BY <1>1 DEF TxnInv, DraftsMade

\* What a holds before its call has written anything.
LEMMA HoldsNothing ==
  ASSUME TxnInv, NEW a \in Agents,
         pc[a] \in {"idle", "scan", "read", "report", "check", "insert"}
  PROVE  \A r \in Rows : owner[r] # a
<1> SUFFICES ASSUME NEW r \in Rows, owner[r] = a PROVE FALSE
  OBVIOUS
<1>1. Made(a, r)
  BY HeldIsMade
<1>2. QED
  BY <1>1 DEF Made, MadeByRequeue, MadeByTake, MadeByReport, MadeByUnblock, MadeByInsert

LEMMA BeginStep ==
  ASSUME TxnInv, NEW a \in Agents, NEW kind \in CallKinds, NEW r \in Rows \cup {NoRow},
         NEW label \in Labels, Begin(a, kind, r, label),
         \/ kind = "checkout" /\ label = "scan" /\ r = NoRow
         \/ kind \in {"complete", "fail"} /\ label = "read" /\ r \in Rows
         \/ /\ kind = "enqueue" /\ label = "check" /\ r \in Rows
            /\ row[r].state = "ABSENT"
            /\ \A b \in Agents : ~(call[b] = "enqueue" /\ target[b] = r)
  PROVE  StepOK(a) /\ UNCHANGED <<row, given, activities>>
<1>1. /\ ColumnsTyped
      /\ pc[a] = "idle" /\ UNCHANGED <<now, dbVars, todo, seen, verdict, given, activities>>
      /\ pc' = [pc EXCEPT ![a] = label] /\ call' = [call EXCEPT ![a] = kind]
      /\ target' = [target EXCEPT ![a] = r] /\ start' = [start EXCEPT ![a] = now]
  BY DEF TxnInv, Begin, GoTo, logVars
<1>2. /\ pc'[a] = label /\ call'[a] = kind /\ target'[a] = r /\ start'[a] = now
      /\ \A b \in Agents \ {a} : pc'[b] = pc[b] /\ call'[b] = call[b] /\ target'[b] = target[b]
                                 /\ start'[b] = start[b]
  BY <1>1 DEF ColumnsTyped
<1>3. OthersStay(a)
  BY <1>1, <1>2 DEF OthersStay
<1>4. \A q \in Rows : owner'[q] # a
  BY <1>1, HoldsNothing DEF dbVars
<1>5. EnqueuesDiffer'
  BY <1>2 DEF TxnInv, EnqueuesDiffer
<1>6. CallOK(a)' /\ TodoOK(a)'
  BY <1>1, <1>2 DEF CallOK, TodoOK, dbVars, ColumnsTyped
<1>7. ColumnsTyped'
  BY <1>1, BeginColumnsTyped
<1>8. QED
  BY <1>1, <1>3, <1>4, <1>5, <1>6, <1>7, QuietStep DEF StepOK, dbVars

LEMMA BeginCallStep ==
  ASSUME TxnInv, NEW a \in Agents, BeginCall(a)
  PROVE  StepOK(a) /\ UNCHANGED <<row, given, activities>>
<1>1. CASE BeginCheckout(a)
  BY <1>1, BeginStep DEF BeginCheckout, CallKinds, Labels
<1>2. CASE \E r \in Rows : BeginReport(a, r)
  BY <1>2, BeginStep DEF BeginReport, CallKinds, Labels
<1>3. CASE \E r \in Rows : BeginEnqueue(a, r)
  BY <1>3, BeginStep DEF BeginEnqueue, CallKinds, Labels
<1>4. QED
  BY <1>1, <1>2, <1>3 DEF BeginCall

\* Statements of a that only read.
LEMMA ReadStep ==
  ASSUME TxnInv, NEW a \in Agents,
         RequeueScan(a) \/ ReadTask(a) \/ FindDependents(a) \/ FindHeirs(a)
           \/ HandoffEnd(a) \/ CheckDependencies(a)
  PROVE  StepOK(a) /\ UNCHANGED <<row, given, activities>>
<1>1. ColumnsTyped /\ CallOK(a)
  BY DEF TxnInv
<1>2. UNCHANGED <<now, dbVars, call, target, start, given, activities>>
  BY DEF RequeueScan, ReadTask, FindDependents, FindHeirs, HandoffEnd, CheckDependencies, logVars
<1>3. PICK label \in {"requeue", "report", "unblock", "handoff", "commit", "insert"} :
        /\ pc' = [pc EXCEPT ![a] = label]
        /\ label = "requeue" => pc[a] = "scan"
        /\ label = "report" => pc[a] = "read"
        /\ label = "unblock" => pc[a] = "dependents"
        /\ label = "handoff" => pc[a] = "unblock"
        /\ label = "commit" => pc[a] = "handoff"
        /\ label = "insert" => pc[a] = "check"
  BY DEF RequeueScan, ReadTask, FindDependents, FindHeirs, HandoffEnd, CheckDependencies, GoTo
<1>4. /\ pc'[a] = label
      /\ \A b \in Agents \ {a} : pc'[b] = pc[b]
  BY <1>1, <1>3 DEF ColumnsTyped
<1>5. /\ todo' \in [Agents -> SUBSET Rows] /\ seen' \in [Agents -> Agents \cup {NoAgent}]
      /\ verdict' \in [Agents -> {"none", "READY", "BLOCKED"}]
      /\ \A b \in Agents \ {a} : todo'[b] = todo[b] /\ verdict'[b] = verdict[b]
      /\ label = "insert" => verdict'[a] \in {"READY", "BLOCKED"}
  <2>1. CASE RequeueScan(a)
    BY <1>1, <1>3, <2>1 DEF RequeueScan, ColumnsTyped
  <2>2. CASE ReadTask(a)
    <3>1. row[target[a]].leased_by \in Agents \cup {NoAgent}
      BY <1>1, <2>2 DEF ReadTask, CallOK, ColumnsTyped, RowType
    <3>2. QED
      BY <1>1, <1>3, <2>2, <3>1 DEF ReadTask, ColumnsTyped
  <2>3. CASE FindDependents(a)
    BY <1>1, <1>3, <2>3 DEF FindDependents, ColumnsTyped
  <2>4. CASE FindHeirs(a)
    BY <1>1, <1>3, <2>4 DEF FindHeirs, Heirs, ColumnsTyped
  <2>5. CASE HandoffEnd(a)
    BY <1>1, <1>3, <2>5 DEF HandoffEnd, ColumnsTyped
  <2>6. CASE CheckDependencies(a)
    BY <1>1, <1>3, <2>6 DEF CheckDependencies, ColumnsTyped
  <2>7. QED
    BY <2>1, <2>2, <2>3, <2>4, <2>5, <2>6
<1>6. ColumnsTyped'
  BY <1>1, <1>2, <1>3, <1>5 DEF ColumnsTyped, dbVars, Labels
<1>7. OthersStay(a)
  BY <1>2, <1>4, <1>5 DEF OthersStay
<1>8. ASSUME NEW r \in Rows, owner'[r] = a PROVE Made(a, r)'
  <2>1. owner[r] = a
    BY <1>2, <1>8 DEF dbVars
  <2>2. pc[a] \in {"dependents", "unblock", "handoff"} /\ label \in {"unblock", "handoff", "commit"}
    BY <1>3, <2>1, HoldsNothing
  <2>3. Made(a, r)
    BY <2>1, HeldIsMade
  <2>4. AllDone(a, r)' <=> AllDone(a, r)
    BY <1>2 DEF AllDone, View, dbVars
  <2>5. QED
    BY <1>2, <1>4, <2>2, <2>3, <2>4 DEF dbVars, Made, MadeByRequeue, MadeByTake, MadeByReport,
       MadeByUnblock, MadeByInsert, Expired
<1>9. CallOK(a)'
  BY <1>1, <1>2, <1>3, <1>4, <1>5 DEF CallOK, dbVars, MadeByReport, MadeByTake
<1>10. TodoOK(a)'
  <2> SUFFICES ASSUME label = "unblock", NEW d \in todo'[a]
               PROVE  /\ target'[a] \in Prereqs[d]
                      /\ row'[d].state = "BLOCKED"
                      /\ owner'[d] = NoAgent
    BY <1>4 DEF TodoOK
  <2>1. pc[a] = "dependents" /\ FindDependents(a)
    BY <1>3 DEF RequeueScan, ReadTask, FindDependents, FindHeirs, HandoffEnd, CheckDependencies
  <2>2. d \in Rows /\ View(a, d).state = "BLOCKED" /\ target[a] \in Prereqs[d]
    BY <1>1, <2>1 DEF FindDependents, ColumnsTyped
  <2>3. owner[target[a]] = a /\ row[target[a]].state = "IN_PROGRESS"
    BY <1>1, <2>1 DEF CallOK, MadeByReport
  <2>4. owner[d] # a
    <3> SUFFICES ASSUME owner[d] = a PROVE FALSE
      OBVIOUS
    <3>1. Made(a, d) /\ draft[d].state = "BLOCKED"
      BY <2>2, HeldIsMade DEF View
    <3>2. QED
      BY <2>1, <3>1 DEF Made, MadeByRequeue, MadeByTake, MadeByReport, MadeByUnblock, MadeByInsert
  <2>5. row[d].state = "BLOCKED"
    BY <2>2, <2>4 DEF View
  <2>6. owner[d] = NoAgent
    <3> SUFFICES ASSUME owner[d] # NoAgent PROVE FALSE
      OBVIOUS
    <3>1. Made(owner[d], d)
      BY <1>1, <2>2, HeldIsMade DEF ColumnsTyped
    <3>2. AllDone(owner[d], d)
      BY <2>5, <3>1 DEF Made, MadeByRequeue, MadeByTake, MadeByReport, MadeByUnblock,
         MadeByInsert, Expired
    <3>3. View(owner[d], target[a]).state = "DONE"
      BY <2>2, <3>2 DEF AllDone
    <3>4. QED
      BY <2>3, <2>4, <3>3 DEF View
  <2>7. QED
    BY <1>2, <2>2, <2>5, <2>6 DEF dbVars
<1>11. EnqueuesDiffer'
  BY <1>2 DEF TxnInv, EnqueuesDiffer
<1>12. QED
  BY <1>2, <1>6, <1>7, <1>8, <1>9, <1>10, <1>11, QuietStep DEF StepOK, dbVars

\* A statement that writes one node for another's sake.
LEMMA HandOnStep ==
  ASSUME TxnInv, NEW a \in Agents, NEW d \in Rows, HandOn(a, d)
  PROVE  StepOK(a) /\ UNCHANGED <<row, given, activities>>
<1>1. ColumnsTyped /\ CallOK(a)
  BY DEF TxnInv
<1>2. /\ pc[a] = "handoff"
      /\ todo' = [todo EXCEPT ![a] = @ \ {d}]
      /\ UNCHANGED <<now, row, draft, owner, pc, call, target, start, seen, verdict, given, activities>>
  BY DEF HandOn, logVars
<1>3. OthersStay(a) /\ ColumnsTyped'
  BY <1>1, <1>2 DEF OthersStay, ColumnsTyped
<1>4. ASSUME NEW r \in Rows, owner'[r] = a PROVE Made(a, r)'
  <2>1. Made(a, r)
    BY <1>2, <1>4, HeldIsMade
  <2>2. QED
    BY <1>2, <2>1 DEF Made, MadeByRequeue, MadeByTake, MadeByReport, MadeByUnblock, MadeByInsert,
       AllDone, View
<1>5. CallOK(a)' /\ TodoOK(a)' /\ EnqueuesDiffer'
  BY <1>1, <1>2 DEF CallOK, TodoOK, MadeByReport, MadeByTake, TxnInv, EnqueuesDiffer
<1>6. QED
  BY <1>2, <1>3, <1>4, <1>5, QuietStep DEF StepOK

\* A statement that writes one row.
LEMMA WriteStep ==
  ASSUME TxnInv, NEW a \in Agents, NEW r \in Rows, NEW v \in RowType,
         Unlocked(a, r), Write(a, r, v), row[r].state # "BLOCKED" \/ AllDone(a, r)
  PROVE  /\ Respects(a)
         /\ row' = row
         /\ owner'[r] = a /\ draft'[r] = v
         /\ \A q \in Rows \ {r} : owner'[q] = owner[q] /\ draft'[q] = draft[q]
         /\ \A q \in Rows : owner'[q] = NoAgent => draft'[q] = row'[q]
<1>1. /\ ColumnsTyped /\ row' = row
      /\ owner' = [owner EXCEPT ![r] = a] /\ draft' = [draft EXCEPT ![r] = v]
  BY DEF TxnInv, Write
<1>2. /\ owner'[r] = a /\ draft'[r] = v
      /\ \A q \in Rows \ {r} : owner'[q] = owner[q] /\ draft'[q] = draft[q]
  BY <1>1 DEF ColumnsTyped
<1>3. a # NoAgent
  BY TxnAssumption DEF TxnAssumption
<1>4. Respects(a)
  BY <1>1, <1>2 DEF Respects, Unlocked
<1>5. QED
  BY <1>1, <1>2, <1>3, <1>4 DEF TxnInv, DraftsMade

\* UPDATE's second look at a row sees its committed version.
LEMMA RequeueRowStep ==
  ASSUME TxnInv, NEW a \in Agents, NEW r \in Rows, RequeueRow(a, r)
  PROVE  StepOK(a) /\ UNCHANGED <<row, given, activities>>
<1>1. ColumnsTyped /\ CallOK(a)
  BY DEF TxnInv
<1>2. /\ pc[a] = "requeue" /\ Unlocked(a, r)
      /\ todo' = [todo EXCEPT ![a] = @ \ {r}]
      /\ UNCHANGED <<now, pc, call, target, start, seen, verdict, given, activities>>
  BY DEF RequeueRow, logVars
<1>3. call[a] = "checkout" /\ target[a] = NoRow
  BY <1>1, <1>2 DEF CallOK
<1>4. Requeued(row[r]) \in RowType
  BY <1>1, VersionTypes DEF ColumnsTyped, States
<1>5. /\ Respects(a)
      /\ row' = row /\ draft' \in [Rows -> RowType] /\ owner' \in [Rows -> Agents \cup {NoAgent}]
      /\ \A q \in Rows : owner'[q] = NoAgent => draft'[q] = row'[q]
      /\ \A q \in Rows : owner'[q] = a => Made(a, q)'
  <2>1. CASE ~Expired(row[r], start[a])
    <3>1. UNCHANGED dbVars
      BY <2>1 DEF RequeueRow
    <3>2. ASSUME NEW q \in Rows, owner'[q] = a PROVE Made(a, q)'
      <4>1. MadeByRequeue(a, q)
        BY <1>2, <1>3, <3>1, <3>2, HeldIsMade DEF dbVars, Made, MadeByTake, MadeByReport,
           MadeByUnblock, MadeByInsert
      <4>2. QED
        BY <1>2, <3>1, <4>1 DEF dbVars, Made, MadeByRequeue
    <3>3. QED
      BY <1>1, <3>1, <3>2, QuietStep DEF dbVars, ColumnsTyped
  <2>2. CASE Expired(row[r], start[a])
    <3>1. Write(a, r, Requeued(row[r])) /\ row[r].state # "BLOCKED"
      BY <2>2 DEF RequeueRow, Expired
    <3>2. /\ Respects(a) /\ row' = row
          /\ owner'[r] = a /\ draft'[r] = Requeued(row[r])
          /\ \A q \in Rows \ {r} : owner'[q] = owner[q] /\ draft'[q] = draft[q]
          /\ \A q \in Rows : owner'[q] = NoAgent => draft'[q] = row'[q]
      BY <1>2, <1>4, <3>1, WriteStep
    <3>3. draft'[r].state = "READY" /\ draft'[r].attempts = row[r].attempts
      BY <1>1, <3>2 DEF Requeued, ColumnsTyped, RowType
    <3>4. Made(a, r)'
      BY <1>2, <1>3, <2>2, <3>2, <3>3 DEF Made, MadeByRequeue
    <3>5. ASSUME NEW q \in Rows \ {r}, owner'[q] = a PROVE Made(a, q)'
      <4>1. Made(a, q) /\ draft'[q] = draft[q]
        BY <3>2, <3>5, HeldIsMade
      <4>2. MadeByRequeue(a, q)
        BY <1>2, <1>3, <4>1 DEF Made, MadeByTake, MadeByReport, MadeByUnblock, MadeByInsert
      <4>3. QED
        BY <1>2, <3>2, <4>1, <4>2 DEF Made, MadeByRequeue
    <3>6. QED
      BY <1>1, <1>4, <3>1, <3>2, <3>4, <3>5, WriteTyped
  <2>3. QED
    BY <2>1, <2>2
<1>6. OthersStay(a) /\ todo' \in [Agents -> SUBSET Rows]
  BY <1>1, <1>2 DEF OthersStay, ColumnsTyped
<1>7. ColumnsTyped'
  BY <1>1, <1>2, <1>5, <1>6 DEF ColumnsTyped
<1>8. CallOK(a)' /\ TodoOK(a)' /\ EnqueuesDiffer'
  <2>1. CallOK(a)' /\ TodoOK(a)'
    BY <1>1, <1>2, <1>3 DEF CallOK, TodoOK
  <2>2. EnqueuesDiffer'
    BY <1>2 DEF TxnInv, EnqueuesDiffer
  <2>3. QED
    BY <2>1, <2>2
<1>9. QED
  BY <1>2, <1>5, <1>6, <1>7, <1>8 DEF StepOK

LEMMA TakeStep ==
  ASSUME TxnInv, NEW a \in Agents, Take(a)
  PROVE  StepOK(a) /\ UNCHANGED <<row, given, activities>>
<1>1. ColumnsTyped /\ CallOK(a)
  BY DEF TxnInv
<1>2. /\ pc[a] = "requeue" /\ pc' = [pc EXCEPT ![a] = "commit"]
      /\ UNCHANGED <<now, call, start, todo, seen, verdict, given, activities>>
  BY DEF Take, GoTo, logVars
<1>3. call[a] = "checkout" /\ target[a] = NoRow
  BY <1>1, <1>2 DEF CallOK
<1>4. pc'[a] = "commit" /\ \A b \in Agents \ {a} : pc'[b] = pc[b]
  BY <1>1, <1>2 DEF ColumnsTyped
\* What was requeued before is kept.
<1>5. ASSUME NEW q \in Rows, owner[q] = a, draft'[q] = draft[q], row'[q] = row[q]
      PROVE  Made(a, q)'
  <2>1. MadeByRequeue(a, q)
    BY <1>2, <1>3, <1>5, HeldIsMade DEF Made, MadeByTake, MadeByReport, MadeByUnblock, MadeByInsert
  <2>2. QED
    BY <1>2, <1>4, <1>5, <2>1 DEF Made, MadeByRequeue
<1>6. CASE Free(a) = {} /\ UNCHANGED <<dbVars, target>>
  <2>1. OthersStay(a)
    BY <1>2, <1>4, <1>6 DEF OthersStay
  <2>2. ColumnsTyped'
    BY <1>1, <1>2, <1>6 DEF ColumnsTyped, dbVars, Labels
  <2>3. \A q \in Rows : owner'[q] = a => Made(a, q)'
    BY <1>5, <1>6 DEF dbVars
  <2>4. CallOK(a)' /\ TodoOK(a)' /\ EnqueuesDiffer'
    BY <1>1, <1>2, <1>3, <1>4, <1>6 DEF CallOK, TodoOK, TxnInv, EnqueuesDiffer
  <2>5. QED
    BY <1>2, <1>6, <2>1, <2>2, <2>3, <2>4, QuietStep DEF StepOK, dbVars
<1>7. CASE \E r \in Free(a) :
             /\ Write(a, r, Locked(Leased(View(a, r), a, start[a]), a, start[a]))
             /\ target' = [target EXCEPT ![a] = r]
  <2> DEFINE version(r) == Locked(Leased(View(a, r), a, start[a]), a, start[a])
  <2>1. PICK r \in Free(a) : Write(a, r, version(r)) /\ target' = [target EXCEPT ![a] = r]
    BY <1>7
  <2>2. r \in Rows /\ Unlocked(a, r) /\ View(a, r).state = "READY"
    BY DEF Free
  <2>3. View(a, r) \in RowType /\ start[a] \in Nat
    BY <1>1, <2>2 DEF View, ColumnsTyped
  <2>4. Leased(View(a, r), a, start[a]) \in RowType
    BY <2>3, VersionTypes DEF States
  <2>5. version(r) \in RowType
    BY <2>3, <2>4, VersionTypes DEF States
  <2>6. version(r).state = "IN_PROGRESS" /\ version(r).attempts = View(a, r).attempts + 1
    <3>1. /\ Leased(View(a, r), a, start[a]).state = "IN_PROGRESS"
          /\ Leased(View(a, r), a, start[a]).attempts = View(a, r).attempts + 1
      BY <2>3 DEF Leased, RowType
    <3>2. QED
      BY <2>4, <3>1 DEF Locked, RowType
  <2> HIDE DEF version
  <2>7. \/ row[r].state = "READY" /\ View(a, r).attempts = row[r].attempts
        \/ Expired(row[r], start[a]) /\ View(a, r).attempts = row[r].attempts
    <3>1. CASE owner[r] = a
      <4>1. MadeByRequeue(a, r)
        BY <1>2, <1>3, <2>2, <3>1, HeldIsMade DEF Made, MadeByTake, MadeByReport, MadeByUnblock,
           MadeByInsert
      <4>2. QED
        BY <3>1, <4>1 DEF View, MadeByRequeue
    <3>2. CASE owner[r] # a
      BY <2>2, <3>2 DEF View
    <3>3. QED
      BY <3>1, <3>2
  <2>8. row[r].state # "BLOCKED"
    BY <2>7 DEF Expired
  <2>9. /\ Respects(a) /\ row' = row
        /\ owner'[r] = a /\ draft'[r] = version(r)
        /\ \A q \in Rows \ {r} : owner'[q] = owner[q] /\ draft'[q] = draft[q]
        /\ \A q \in Rows : owner'[q] = NoAgent => draft'[q] = row'[q]
    BY <2>1, <2>2, <2>5, <2>8, WriteStep
  <2>10. target'[a] = r /\ \A b \in Agents \ {a} : target'[b] = target[b]
    BY <1>1, <2>1 DEF ColumnsTyped
  <2>11. MadeByTake(a, r)'
    BY <1>2, <1>3, <1>4, <2>6, <2>7, <2>9, <2>10 DEF MadeByTake
  <2>12. \A q \in Rows : owner'[q] = a => Made(a, q)'
    BY <1>5, <2>9, <2>11 DEF Made
  <2>13. OthersStay(a)
    BY <1>2, <1>4, <2>10 DEF OthersStay
  <2>14. ColumnsTyped'
    <3>1. draft' \in [Rows -> RowType] /\ owner' \in [Rows -> Agents \cup {NoAgent}]
      BY <1>1, <2>1, <2>2, <2>5, WriteTyped
    <3>2. pc' \in [Agents -> Labels] /\ target' \in [Agents -> Rows \cup {NoRow}]
      BY <1>1, <1>2, <2>1, <2>2 DEF ColumnsTyped, Labels
    <3>3. QED
      BY <1>1, <1>2, <2>9, <3>1, <3>2 DEF ColumnsTyped
  <2>15. CallOK(a)'
    BY <1>1, <1>2, <1>3, <1>4, <2>2, <2>9, <2>10, <2>11 DEF CallOK
  <2>16. TodoOK(a)' /\ EnqueuesDiffer'
    BY <1>2, <1>3, <1>4, <2>10 DEF TodoOK, TxnInv, EnqueuesDiffer
  <2>17. QED
    BY <1>2, <2>9, <2>12, <2>13, <2>14, <2>15, <2>16 DEF StepOK
<1>8. QED
  BY <1>6, <1>7 DEF Take

LEMMA ReportStep ==
  ASSUME TxnInv, NEW a \in Agents, Report(a), row[target[a]].state = "IN_PROGRESS"
  PROVE  StepOK(a) /\ UNCHANGED <<row, given, activities>>
<1> DEFINE r == target[a]
           state == IF call[a] = "complete" THEN "DONE" ELSE "FAILED"
           label == IF call[a] = "complete" THEN "dependents" ELSE "commit"
           version == Reported(row[r], state, a)
<1>1. ColumnsTyped /\ CallOK(a)
  BY DEF TxnInv
<1>2. /\ pc[a] = "report" /\ Unlocked(a, r) /\ Write(a, r, version)
      /\ pc' = [pc EXCEPT ![a] = label]
      /\ UNCHANGED <<now, call, target, start, todo, seen, verdict, given, activities>>
  BY DEF Report, GoTo, logVars
<1>3. call[a] \in {"complete", "fail"} /\ r \in Rows
  BY <1>1, <1>2 DEF CallOK
<1>4. pc'[a] = label /\ \A b \in Agents \ {a} : pc'[b] = pc[b]
  BY <1>1, <1>2 DEF ColumnsTyped
<1>5. row[r] \in RowType /\ state \in States
  BY <1>1, <1>3 DEF ColumnsTyped, States
<1>6. version \in RowType
  BY <1>1, <1>5, VersionTypes DEF ColumnsTyped
<1>7. version.state = state /\ version.attempts = row[r].attempts
  BY <1>5 DEF Reported, RowType
<1> HIDE DEF version
<1>8. /\ Respects(a) /\ row' = row
      /\ owner'[r] = a /\ draft'[r] = version
      /\ \A q \in Rows \ {r} : owner'[q] = owner[q] /\ draft'[q] = draft[q]
      /\ \A q \in Rows : owner'[q] = NoAgent => draft'[q] = row'[q]
  BY <1>2, <1>3, <1>6, WriteStep
<1>9. MadeByReport(a, r)'
  BY <1>2, <1>3, <1>4, <1>7, <1>8 DEF MadeByReport
<1>10. \A q \in Rows : owner'[q] = a => Made(a, q)'
  BY <1>2, <1>8, <1>9, HoldsNothing DEF Made
<1>11. OthersStay(a)
  BY <1>2, <1>4 DEF OthersStay
<1>12. ColumnsTyped'
  <2>1. draft' \in [Rows -> RowType] /\ owner' \in [Rows -> Agents \cup {NoAgent}]
    BY <1>1, <1>2, <1>3, <1>6, WriteTyped
  <2>2. pc' \in [Agents -> Labels]
    BY <1>1, <1>2 DEF ColumnsTyped, Labels
  <2>3. QED
    BY <1>1, <1>2, <1>8, <2>1, <2>2 DEF ColumnsTyped
<1>13. CallOK(a)'
  BY <1>1, <1>2, <1>3, <1>4, <1>8, <1>9 DEF CallOK
<1>14. TodoOK(a)' /\ EnqueuesDiffer'
  BY <1>2, <1>4 DEF TodoOK, TxnInv, EnqueuesDiffer
<1>15. QED
  BY <1>2, <1>8, <1>10, <1>11, <1>12, <1>13, <1>14 DEF StepOK

LEMMA UnblockRowStep ==
  ASSUME TxnInv, NEW a \in Agents, NEW d \in Rows, UnblockRow(a, d)
  PROVE  StepOK(a) /\ UNCHANGED <<row, given, activities>>
<1>1. ColumnsTyped /\ CallOK(a) /\ TodoOK(a)
  BY DEF TxnInv
<1>2. /\ pc[a] = "unblock" /\ d \in todo[a]
      /\ todo' = [todo EXCEPT ![a] = @ \ {d}]
      /\ UNCHANGED <<now, pc, call, target, start, seen, verdict, given, activities>>
  BY DEF UnblockRow, logVars
<1>3. call[a] = "complete" /\ target[a] \in Rows /\ owner[target[a]] = a /\ MadeByReport(a, target[a])
  BY <1>1, <1>2 DEF CallOK
<1>4. row[d].state = "BLOCKED" /\ owner[d] = NoAgent
  BY <1>1, <1>2 DEF TodoOK
<1>5. a # NoAgent /\ target[a] # d
  BY <1>3, <1>4, TxnAssumption DEF TxnAssumption, MadeByReport
<1>6. View(a, d) = row[d]
  BY <1>4, <1>5 DEF View
<1>7. todo'[a] = todo[a] \ {d} /\ \A b \in Agents \ {a} : todo'[b] = todo[b]
  BY <1>1, <1>2 DEF ColumnsTyped
\* What a sees as DONE stays so when d, which is BLOCKED, is written.
<1>8. ASSUME NEW q \in Rows, owner[q] = a, owner'[q] = a, draft'[q] = draft[q], row' = row,
             \A p \in Rows \ {d} : owner'[p] = owner[p] /\ draft'[p] = draft[p]
      PROVE  Made(a, q)'
  <2>1. Made(a, q)
    BY <1>8, HeldIsMade
  <2>2. ASSUME AllDone(a, q) PROVE AllDone(a, q)'
    <3> SUFFICES ASSUME NEW p \in Prereqs[q] PROVE View(a, p)'.state = "DONE"
      BY DEF AllDone
    <3>1. p \in Rows /\ View(a, p).state = "DONE"
      BY <2>2, TxnAssumption DEF TxnAssumption, AllDone
    <3>2. p # d
      BY <1>4, <1>6, <3>1
    <3>3. QED
      BY <1>8, <3>1, <3>2 DEF View
  <2>3. QED
    BY <1>2, <1>8, <2>1, <2>2 DEF Made, MadeByRequeue, MadeByTake, MadeByReport, MadeByUnblock,
       MadeByInsert
<1>9. /\ Respects(a)
      /\ row' = row /\ draft' \in [Rows -> RowType] /\ owner' \in [Rows -> Agents \cup {NoAgent}]
      /\ \A q \in Rows : owner'[q] = NoAgent => draft'[q] = row'[q]
      /\ \A q \in Rows : owner'[q] = a => Made(a, q)'
      /\ \A q \in Rows \ {d} : owner'[q] = owner[q] /\ draft'[q] = draft[q]
  <2>1. CASE ~AllDone(a, d)
    <3>1. UNCHANGED dbVars
      BY <2>1 DEF UnblockRow
    <3>2. QED
      BY <1>1, <1>8, <3>1, QuietStep DEF dbVars, ColumnsTyped
  <2>2. CASE AllDone(a, d)
    <3> DEFINE version == [row[d] EXCEPT !.state = "READY"]
    <3>1. Unlocked(a, d) /\ Write(a, d, version)
      BY <1>4, <1>6, <2>2 DEF UnblockRow
    <3>2. version \in RowType
      BY <1>1, VersionTypes DEF ColumnsTyped, States
    <3>3. version.state = "READY" /\ version.attempts = row[d].attempts
      BY <1>1 DEF ColumnsTyped, RowType
    <3> HIDE DEF version
    <3>4. /\ Respects(a) /\ row' = row
          /\ owner'[d] = a /\ draft'[d] = version
          /\ \A q \in Rows \ {d} : owner'[q] = owner[q] /\ draft'[q] = draft[q]
          /\ \A q \in Rows : owner'[q] = NoAgent => draft'[q] = row'[q]
      BY <2>2, <3>1, <3>2, WriteStep
    <3>5. AllDone(a, d)'
      <4> SUFFICES ASSUME NEW p \in Prereqs[d] PROVE View(a, p)'.state = "DONE"
        BY DEF AllDone
      <4>1. p \in Rows /\ View(a, p).state = "DONE"
        BY <2>2, TxnAssumption DEF TxnAssumption, AllDone
      <4>2. p # d
        BY <1>4, <1>6, <4>1
      <4>3. QED
        BY <3>4, <4>1, <4>2 DEF View
    <3>6. Made(a, d)'
      BY <1>2, <1>3, <1>4, <3>3, <3>4, <3>5 DEF Made, MadeByUnblock
    <3>7. \A q \in Rows : owner'[q] = a => Made(a, q)'
      BY <1>8, <3>4, <3>6
    <3>8. draft' \in [Rows -> RowType] /\ owner' \in [Rows -> Agents \cup {NoAgent}]
      BY <1>1, <3>1, <3>2, WriteTyped
    <3>9. QED
      BY <3>4, <3>7, <3>8
  <2>3. QED
    BY <2>1, <2>2
<1>10. OthersStay(a) /\ todo' \in [Agents -> SUBSET Rows]
  BY <1>1, <1>2, <1>7 DEF OthersStay, ColumnsTyped
<1>11. ColumnsTyped'
  BY <1>1, <1>2, <1>9, <1>10 DEF ColumnsTyped
<1>12. CallOK(a)'
  BY <1>1, <1>2, <1>3, <1>5, <1>9 DEF CallOK, MadeByReport
<1>13. TodoOK(a)'
  <2>1. todo[a] \subseteq Rows
    BY <1>1 DEF ColumnsTyped
  <2>2. QED
    BY <1>1, <1>2, <1>7, <1>9, <2>1 DEF TodoOK
<1>14. EnqueuesDiffer'
  BY <1>2 DEF TxnInv, EnqueuesDiffer
<1>15. QED
  BY <1>2, <1>9, <1>10, <1>11, <1>12, <1>13, <1>14 DEF StepOK

LEMMA InsertStep ==
  ASSUME TxnInv, NEW a \in Agents, Insert(a)
  PROVE  StepOK(a) /\ UNCHANGED <<row, given, activities>>
<1> DEFINE r == target[a]
           version == [EmptyRow EXCEPT !.state = verdict[a]]
<1>1. ColumnsTyped /\ CallOK(a)
  BY DEF TxnInv
<1>2. /\ pc[a] = "insert" /\ Write(a, r, version)
      /\ pc' = [pc EXCEPT ![a] = "commit"]
      /\ UNCHANGED <<now, call, target, start, todo, seen, verdict, given, activities>>
  BY DEF Insert, GoTo, logVars
<1>3. /\ call[a] = "enqueue" /\ verdict[a] \in {"READY", "BLOCKED"}
      /\ r \in Rows /\ row[r].state = "ABSENT"
  BY <1>1, <1>2 DEF CallOK
<1>4. pc'[a] = "commit" /\ \A b \in Agents \ {a} : pc'[b] = pc[b]
  BY <1>1, <1>2 DEF ColumnsTyped
<1>5. Unlocked(a, r)
  BY <1>1, <1>3, AbsentHeldByEnqueue DEF Unlocked, ColumnsTyped
<1>6. version \in RowType
  BY <1>3 DEF EmptyRow, RowType, States
<1>7. version.state = verdict[a] /\ version.attempts = 0
  BY DEF EmptyRow
<1>8. row[r].attempts = 0
  BY <1>3 DEF TxnInv, AttemptsLeft
<1> HIDE DEF version
<1>9. /\ Respects(a) /\ row' = row
      /\ owner'[r] = a /\ draft'[r] = version
      /\ \A q \in Rows \ {r} : owner'[q] = owner[q] /\ draft'[q] = draft[q]
      /\ \A q \in Rows : owner'[q] = NoAgent => draft'[q] = row'[q]
  BY <1>2, <1>3, <1>5, <1>6, WriteStep
<1>10. MadeByInsert(a, r)'
  BY <1>2, <1>3, <1>4, <1>7, <1>8, <1>9 DEF MadeByInsert
<1>11. \A q \in Rows : owner'[q] = a => Made(a, q)'
  BY <1>2, <1>9, <1>10, HoldsNothing DEF Made
<1>12. OthersStay(a)
  BY <1>2, <1>4 DEF OthersStay
<1>13. ColumnsTyped'
  <2>1. draft' \in [Rows -> RowType] /\ owner' \in [Rows -> Agents \cup {NoAgent}]
    BY <1>1, <1>2, <1>3, <1>6, WriteTyped
  <2>2. pc' \in [Agents -> Labels]
    BY <1>1, <1>2 DEF ColumnsTyped, Labels
  <2>3. QED
    BY <1>1, <1>2, <1>9, <2>1, <2>2 DEF ColumnsTyped
<1>14. CallOK(a)'
  BY <1>1, <1>2, <1>3, <1>4, <1>9 DEF CallOK
<1>15. TodoOK(a)' /\ EnqueuesDiffer'
  BY <1>2, <1>4 DEF TodoOK, TxnInv, EnqueuesDiffer
<1>16. QED
  BY <1>2, <1>9, <1>11, <1>12, <1>13, <1>14, <1>15 DEF StepOK

-----------------------------------------------------------------------------
(***************************************************************************)
(* The ends of a call: refused, rolled back, committed.                    *)
(***************************************************************************)
LEMMA ForgottenStep ==
  ASSUME TxnInv, NEW a \in Agents, Forget(a), UNCHANGED now
  PROVE  OthersStay(a) /\ CallOK(a)' /\ TodoOK(a)' /\ EnqueuesDiffer'
<1>1. ColumnsTyped
  BY DEF TxnInv
<1>2. /\ pc'[a] = "idle" /\ call'[a] = "none" /\ start'[a] = 0
      /\ \A b \in Agents \ {a} : /\ pc'[b] = pc[b] /\ call'[b] = call[b] /\ target'[b] = target[b]
                                 /\ start'[b] = start[b] /\ todo'[b] = todo[b] /\ verdict'[b] = verdict[b]
  BY <1>1 DEF Forget, GoTo, ColumnsTyped
<1>3. CallOK(a)' /\ TodoOK(a)'
  BY <1>1, <1>2 DEF CallOK, TodoOK, ColumnsTyped
<1>4. EnqueuesDiffer'
  BY <1>2 DEF TxnInv, EnqueuesDiffer
<1>5. QED
  BY <1>2, <1>3, <1>4 DEF OthersStay

LEMMA RefusedStep ==
  ASSUME TxnInv, NEW a \in Agents, Report(a), row[target[a]].state # "IN_PROGRESS"
  PROVE  StepOK(a) /\ UNCHANGED <<row, given, activities>>
<1>1. pc[a] = "report" /\ Forget(a) /\ UNCHANGED <<now, dbVars, given, activities>>
  BY DEF Report, logVars
<1>2. ColumnsTyped'
  BY <1>1, ForgetTyped DEF TxnInv, ColumnsTyped, dbVars
<1>3. \A q \in Rows : owner'[q] # a
  BY <1>1, HoldsNothing DEF dbVars
<1>4. QED
  BY <1>1, <1>2, <1>3, QuietStep, ForgottenStep DEF StepOK, dbVars

LEMMA AbortStep ==
  ASSUME TxnInv, NEW a \in Agents, Abort(a)
  PROVE  StepOK(a) /\ UNCHANGED <<row, given, activities>>
<1>1. /\ ColumnsTyped /\ Forget(a) /\ UNCHANGED <<now, row, given, activities>>
      /\ draft' = [r \in Rows |-> IF owner[r] = a THEN row[r] ELSE draft[r]]
      /\ owner' = [r \in Rows |-> IF owner[r] = a THEN NoAgent ELSE owner[r]]
  BY DEF TxnInv, Abort, Unlock, logVars
<1>2. ColumnsTyped'
  BY <1>1, ForgetTyped DEF ColumnsTyped
<1>3. Respects(a) /\ \A q \in Rows : owner'[q] # a
  BY <1>1, TxnAssumption DEF Respects, TxnAssumption
<1>4. \A q \in Rows : owner'[q] = NoAgent => draft'[q] = row'[q]
  BY <1>1 DEF TxnInv, DraftsMade
<1>5. QED
  BY <1>1, <1>2, <1>3, <1>4, ForgottenStep DEF StepOK

\* What a commit makes of each row.
LEMMA CommitRows ==
  ASSUME TxnInv, NEW a \in Agents, Commit(a)
  PROVE  /\ pc[a] = "commit"
         /\ \A r \in Rows : owner[r] = a => row'[r] = draft[r] /\ Made(a, r)
         /\ \A r \in Rows : owner[r] # a => row'[r] = row[r]
BY HeldIsMade DEF Commit, View

LEMMA CommitStep ==
  ASSUME TxnInv, NEW a \in Agents, Commit(a)
  PROVE  StepOK(a)
<1>1. /\ ColumnsTyped /\ Forget(a) /\ UNCHANGED <<now, draft>>
      /\ row' = [q \in Rows |-> View(a, q)]
      /\ owner' = [r \in Rows |-> IF owner[r] = a THEN NoAgent ELSE owner[r]]
  BY DEF TxnInv, Commit, Unlock
<1>2. row' \in [Rows -> RowType] /\ owner' \in [Rows -> Agents \cup {NoAgent}]
  BY <1>1 DEF View, ColumnsTyped
<1>3. given' \subseteq Agents \X Rows \X Nat
  <2>1. CASE call[a] = "checkout" /\ target[a] # NoRow
    <3>1. target[a] \in Rows
      BY <1>1, <2>1 DEF ColumnsTyped
    <3>2. draft[target[a]].attempts \in Nat
      BY <1>1, <3>1 DEF ColumnsTyped, RowType
    <3>3. QED
      BY <1>1, <2>1, <3>1, <3>2 DEF Commit, ColumnsTyped
  <2>2. CASE ~(call[a] = "checkout" /\ target[a] # NoRow)
    BY <1>1, <2>2 DEF Commit, ColumnsTyped
  <2>3. QED
    BY <2>1, <2>2
<1>4. activities' \subseteq {"TASK_COMPLETED", "TASK_FAILED"} \X Agents \X Rows
  <2>1. CASE call[a] \in {"complete", "fail"} /\ seen[a] # NoAgent
    <3>1. target[a] \in Rows
      BY <2>1 DEF TxnInv, CallOK, Commit
    <3>2. seen[a] \in Agents
      BY <1>1, <2>1 DEF ColumnsTyped
    <3>3. QED
      BY <1>1, <2>1, <3>1, <3>2 DEF Commit, ColumnsTyped, Outcome
  <2>2. CASE ~(call[a] \in {"complete", "fail"} /\ seen[a] # NoAgent)
    BY <1>1, <2>2 DEF Commit, ColumnsTyped
  <2>3. QED
    BY <2>1, <2>2
<1>5. ColumnsTyped'
  BY <1>1, <1>2, <1>3, <1>4, ForgetTyped DEF ColumnsTyped
<1>6. Respects(a) /\ \A q \in Rows : owner'[q] # a
  BY <1>1, TxnAssumption DEF Respects, View, TxnAssumption
<1>7. \A q \in Rows : owner'[q] = NoAgent => draft'[q] = row'[q]
  BY <1>1 DEF TxnInv, DraftsMade, View
<1>8. QED
  BY <1>1, <1>5, <1>6, <1>7, ForgottenStep DEF StepOK

\* Attempts only grow.
LEMMA CommitAttempts ==
  ASSUME TxnInv, NEW a \in Agents, Commit(a), NEW r \in Rows
  PROVE  row[r].attempts <= row'[r].attempts
<1>1. row[r].attempts \in Nat
  BY DEF TxnInv, ColumnsTyped, RowType
<1>2. CASE owner[r] = a
  BY <1>1, <1>2, CommitRows DEF Made, MadeByRequeue, MadeByTake, MadeByReport, MadeByUnblock,
     MadeByInsert
<1>3. CASE owner[r] # a
  BY <1>1, <1>3, CommitRows
<1>4. QED
  BY <1>2, <1>3

LEMMA CommitAttemptsLeft ==
  ASSUME TxnInv, NEW a \in Agents, Commit(a) PROVE AttemptsLeft'
<1> SUFFICES ASSUME NEW r \in Rows
             PROVE  /\ row'[r].state \in {"ABSENT", "BLOCKED"} => row'[r].attempts = 0
                    /\ row'[r].state = "READY" => row'[r].attempts < MaxAttempts
  BY DEF AttemptsLeft
<1>1. /\ row[r].state \in {"ABSENT", "BLOCKED"} => row[r].attempts = 0
      /\ row[r].state = "READY" => row[r].attempts < MaxAttempts
  BY DEF TxnInv, AttemptsLeft
<1>2. CASE owner[r] = a
  BY <1>1, <1>2, CommitRows, TxnAssumption DEF TxnAssumption, Made, MadeByRequeue, MadeByTake,
     MadeByReport, MadeByUnblock, MadeByInsert, Expired
<1>3. CASE owner[r] # a
  BY <1>1, <1>3, CommitRows
<1>4. QED
  BY <1>2, <1>3

\* The attempt handed out is one more than any handed out before.
LEMMA CommitGiven ==
  ASSUME TxnInv, NEW a \in Agents, Commit(a) PROVE GivenCounted' /\ HandedOutOnce'
<1>1. /\ given \subseteq Agents \X Rows \X Nat /\ row \in [Rows -> RowType]
      /\ \A g \in given : g[3] <= row[g[2]].attempts
      /\ \A g, h \in given : g[2] = h[2] /\ g[3] = h[3] => g[1] = h[1]
  BY DEF TxnInv, ColumnsTyped, GivenCounted, HandedOutOnce
<1>2. \A g \in given : g[3] <= row'[g[2]].attempts
  <2> SUFFICES ASSUME NEW g \in given PROVE g[3] <= row'[g[2]].attempts
    OBVIOUS
  <2>1. g[2] \in Rows /\ g[3] \in Nat /\ g[3] <= row[g[2]].attempts
    BY <1>1
  <2>2. row[g[2]].attempts \in Nat /\ row'[g[2]].attempts \in Nat
    BY <2>1, CommitStep DEF StepOK, TxnInv, ColumnsTyped, RowType
  <2>3. row[g[2]].attempts <= row'[g[2]].attempts
    BY <2>1, CommitAttempts
  <2>4. QED
    BY <2>1, <2>2, <2>3
<1>3. CASE call[a] = "checkout" /\ target[a] # NoRow
  <2> DEFINE r == target[a]
             new == <<a, r, draft[r].attempts>>
  <2>1. r \in Rows /\ owner[r] = a /\ MadeByTake(a, r)
    BY <1>3, CommitRows DEF TxnInv, CallOK
  <2>2. draft[r].attempts = row[r].attempts + 1 /\ row'[r] = draft[r] /\ row[r].attempts \in Nat
    BY <1>1, <2>1, CommitRows DEF MadeByTake, RowType
  <2>3. given' = given \cup {new}
    BY <1>3 DEF Commit
  <2>4. \A g \in given : g[2] = r => g[3] # draft[r].attempts
    BY <1>1, <2>2
  <2>5. QED
    BY <1>1, <1>2, <2>2, <2>3, <2>4 DEF GivenCounted, HandedOutOnce
<1>4. CASE ~(call[a] = "checkout" /\ target[a] # NoRow)
  <2>1. given' = given
    BY <1>4 DEF Commit
  <2>2. QED
    BY <1>1, <1>2, <2>1 DEF GivenCounted, HandedOutOnce
<1>5. QED
  BY <1>3, <1>4

\* The row was IN_PROGRESS until now: nothing says yet how it ended.
LEMMA CommitOutcome ==
  ASSUME TxnInv, NEW a \in Agents, Commit(a) PROVE OutcomeRecordedOnce'
<1>1. /\ activities \subseteq {"TASK_COMPLETED", "TASK_FAILED"} \X Agents \X Rows
      /\ \A x, y \in activities : x[3] = y[3] => x = y
      /\ \A x \in activities :
           row[x[3]].state = IF x[1] = "TASK_COMPLETED" THEN "DONE" ELSE "FAILED"
  BY DEF TxnInv, ColumnsTyped, OutcomeRecordedOnce
<1>2. ASSUME NEW x \in activities
      PROVE  row'[x[3]].state = IF x[1] = "TASK_COMPLETED" THEN "DONE" ELSE "FAILED"
  <2>1. x[3] \in Rows /\ row[x[3]].state \in {"DONE", "FAILED"}
    BY <1>1
  <2>2. row'[x[3]] = row[x[3]]
    BY <2>1, OutcomeIsFinal, CommitStep DEF StepOK
  <2>3. QED
    BY <1>1, <2>2
<1>3. CASE call[a] \in {"complete", "fail"} /\ seen[a] # NoAgent
  <2> DEFINE r == target[a]
             new == <<Outcome(call[a]), seen[a], r>>
  <2>1. r \in Rows /\ owner[r] = a /\ MadeByReport(a, r)
    BY <1>3, CommitRows DEF TxnInv, CallOK
  <2>2. activities' = activities \cup {new}
    BY <1>3 DEF Commit
  <2>3. \A x \in activities : x[3] # r
    BY <1>1, <2>1 DEF MadeByReport
  <2>4. row'[r].state = IF Outcome(call[a]) = "TASK_COMPLETED" THEN "DONE" ELSE "FAILED"
    BY <2>1, CommitRows DEF MadeByReport, Outcome
  <2>5. new[1] = Outcome(call[a]) /\ new[3] = r
    OBVIOUS
  <2> HIDE DEF new
  <2>6. QED
    BY <1>1, <1>2, <2>2, <2>3, <2>4, <2>5 DEF OutcomeRecordedOnce
<1>4. CASE ~(call[a] \in {"complete", "fail"} /\ seen[a] # NoAgent)
  <2>1. activities' = activities
    BY <1>4 DEF Commit
  <2>2. QED
    BY <1>1, <1>2, <2>1 DEF OutcomeRecordedOnce
<1>5. QED
  BY <1>3, <1>4

LEMMA CommitInv ==
  ASSUME TxnInv, NEW a \in Agents, Commit(a) PROVE TxnInv'
BY CommitStep, StepDraftsMade, CommitAttemptsLeft, CommitGiven, CommitOutcome DEF TxnInv, StepOK

-----------------------------------------------------------------------------
LEMMA InitTxnInv == Init => TxnInv
<1> SUFFICES ASSUME Init PROVE TxnInv
  OBVIOUS
<1>1. ColumnsTyped
  BY InitColumnsTyped
<1>2. \A r \in Rows : row[r].state = "ABSENT" /\ row[r].attempts = 0
  BY DEF Init, EmptyRow
<1>3. \A a \in Agents : CallOK(a) /\ TodoOK(a)
  BY DEF Init, CallOK, TodoOK
<1>4. DraftsMade /\ EnqueuesDiffer
  BY TxnAssumption DEF TxnAssumption, Init, DraftsMade, EnqueuesDiffer
<1>5. AttemptsLeft /\ GivenCounted /\ HandedOutOnce /\ OutcomeRecordedOnce
  BY <1>2 DEF Init, AttemptsLeft, GivenCounted, HandedOutOnce, OutcomeRecordedOnce
<1>6. QED
  BY <1>1, <1>3, <1>4, <1>5 DEF TxnInv

LEMMA TickInv == TxnInv /\ Tick => TxnInv'
<1> SUFFICES ASSUME TxnInv, Tick PROVE TxnInv'
  OBVIOUS
<1>1. /\ now \in Nat /\ now' = now + 1
      /\ UNCHANGED <<row, draft, owner, pc, call, target, start, todo, seen, verdict, given, activities>>
  BY DEF Tick, dbVars, callVars, logVars, TxnInv, ColumnsTyped
<1>2. ColumnsTyped'
  BY <1>1 DEF TxnInv, ColumnsTyped
<1>3. DraftsMade'
  BY <1>1 DEF TxnInv, DraftsMade, Made, MadeByRequeue, MadeByTake, MadeByReport, MadeByUnblock,
     MadeByInsert, AllDone, View
<1>4. ASSUME NEW a \in Agents PROVE CallOK(a)' /\ TodoOK(a)'
  <2>1. CallOK(a) /\ TodoOK(a) /\ start[a] \in Nat
    BY DEF TxnInv, ColumnsTyped
  <2>2. start[a] <= now + 1
    BY <1>1, <2>1 DEF CallOK
  <2>3. QED
    BY <1>1, <2>1, <2>2 DEF CallOK, TodoOK, MadeByReport, MadeByTake
<1>5. EnqueuesDiffer' /\ AttemptsLeft' /\ GivenCounted' /\ HandedOutOnce' /\ OutcomeRecordedOnce'
  BY <1>1 DEF TxnInv, EnqueuesDiffer, AttemptsLeft, GivenCounted, HandedOutOnce, OutcomeRecordedOnce
<1>6. QED
  BY <1>2, <1>3, <1>4, <1>5 DEF TxnInv

LEMMA StutterInv == TxnInv /\ UNCHANGED vars => TxnInv'
<1> SUFFICES ASSUME TxnInv, UNCHANGED vars PROVE TxnInv'
  OBVIOUS
<1>1. UNCHANGED <<now, row, draft, owner, pc, call, target, start, todo, seen, verdict, given, activities>>
  BY DEF vars, dbVars, callVars, logVars
<1>2. ColumnsTyped'
  BY <1>1 DEF TxnInv, ColumnsTyped
<1>3. DraftsMade'
  BY <1>1 DEF TxnInv, DraftsMade, Made, MadeByRequeue, MadeByTake, MadeByReport, MadeByUnblock,
     MadeByInsert, AllDone, View
<1>4. \A a \in Agents : CallOK(a)' /\ TodoOK(a)'
  BY <1>1 DEF TxnInv, CallOK, TodoOK, MadeByReport, MadeByTake
<1>5. EnqueuesDiffer' /\ AttemptsLeft' /\ GivenCounted' /\ HandedOutOnce' /\ OutcomeRecordedOnce'
  BY <1>1 DEF TxnInv, EnqueuesDiffer, AttemptsLeft, GivenCounted, HandedOutOnce, OutcomeRecordedOnce
<1>6. QED
  BY <1>2, <1>3, <1>4, <1>5 DEF TxnInv

\* All steps but commits leave the committed table as it is.
LEMMA OtherStatements ==
  ASSUME TxnInv, NEW a \in Agents, BeginCall(a) \/ Statement(a) \/ Abort(a), ~Commit(a)
  PROVE  StepOK(a) /\ UNCHANGED <<row, given, activities>>
<1>1. CASE BeginCall(a)
  BY <1>1, BeginCallStep
<1>2. CASE RequeueScan(a) \/ ReadTask(a) \/ FindDependents(a) \/ FindHeirs(a)
           \/ HandoffEnd(a) \/ CheckDependencies(a)
  BY <1>2, ReadStep
<1>3. CASE Take(a)
  BY <1>3, TakeStep
<1>4. CASE Report(a)
  BY <1>4, ReportStep, RefusedStep
<1>5. CASE Insert(a)
  BY <1>5, InsertStep
<1>6. CASE \E r \in Rows : RequeueRow(a, r) \/ UnblockRow(a, r) \/ HandOn(a, r)
  BY <1>6, RequeueRowStep, UnblockRowStep, HandOnStep
<1>7. CASE Abort(a)
  BY <1>7, AbortStep
<1>8. QED
  BY <1>1, <1>2, <1>3, <1>4, <1>5, <1>6, <1>7 DEF Statement

LEMMA NextTxnInv == TxnInv /\ [Next]_vars => TxnInv'
<1> SUFFICES ASSUME TxnInv, [Next]_vars PROVE TxnInv'
  OBVIOUS
<1>1. CASE \E a \in Agents : BeginCall(a) \/ Statement(a) \/ Abort(a)
  BY <1>1, OtherStatements, StatementInv, CommitInv
<1>2. CASE Tick
  BY <1>2, TickInv
<1>3. CASE UNCHANGED vars
  BY <1>3, StutterInv
<1>4. QED
  BY <1>1, <1>2, <1>3 DEF Next

LEMMA TxnInvariant == Spec => []TxnInv
<1>1. QED
  BY InitTxnInv, NextTxnInv, PTL DEF Spec

-----------------------------------------------------------------------------
(***************************************************************************)
(* What holds at every moment.                                             *)
(***************************************************************************)
\* However many agents check out at once, SKIP LOCKED and the requeue hand
\* out each attempt of a row to one agent.
THEOREM AttemptsGoToOneAgent == Spec => []HandedOutOnce
<1>1. TxnInv => HandedOutOnce
  BY DEF TxnInv
<1>2. QED
  BY <1>1, TxnInvariant, PTL

\* However many agents report on a row, late or twice, one outcome is
\* recorded, the one that the row ends with.
THEOREM OneOutcomeIsRecorded == Spec => []OutcomeRecordedOnce
<1>1. TxnInv => OutcomeRecordedOnce
  BY DEF TxnInv
<1>2. QED
  BY <1>1, TxnInvariant, PTL

-----------------------------------------------------------------------------
(***************************************************************************)
(* What a step may do to the committed table: commits are the only steps   *)
(* that change it, and they change what their transaction has made.        *)
(***************************************************************************)
LEMMA CommittedRows ==
  ASSUME TxnInv, [Next]_vars
  PROVE  \/ UNCHANGED row
         \/ \E a \in Agents : Commit(a)
<1>1. CASE \E a \in Agents : BeginCall(a) \/ Statement(a) \/ Abort(a)
  BY <1>1, OtherStatements
<1>2. CASE Tick
  BY <1>2 DEF Tick, dbVars
<1>3. CASE UNCHANGED vars
  BY <1>3 DEF vars, dbVars
<1>4. QED
  BY <1>1, <1>2, <1>3 DEF Next

LEMMA StepHonoursLease ==
  ASSUME TxnInv, [Next]_vars, NEW r \in Rows,
         row[r].state = "IN_PROGRESS", row[r].lease_expires_at >= now
  PROVE  \/ row'[r].state \in {"DONE", "FAILED"}
         \/ /\ row'[r].state = "IN_PROGRESS"
            /\ row'[r].leased_by = row[r].leased_by
            /\ row'[r].lease_expires_at = row[r].lease_expires_at
<1>1. CASE UNCHANGED row
  BY <1>1
<1>2. CASE \E a \in Agents : Commit(a)
  <2>1. PICK a \in Agents : Commit(a)
    BY <1>2
  <2>2. CASE owner[r] # a
    BY <2>1, <2>2, CommitRows
  <2>3. CASE owner[r] = a
    <3>1. row'[r] = draft[r] /\ Made(a, r)
      BY <2>1, <2>3, CommitRows
    <3>2. start[a] <= now /\ start[a] \in Nat /\ now \in Nat /\ row[r].lease_expires_at \in Nat
      BY DEF TxnInv, CallOK, ColumnsTyped, RowType
    <3>3. ~Expired(row[r], start[a])
      BY <3>2 DEF Expired
    <3>4. MadeByReport(a, r)
      BY <3>1, <3>3 DEF Made, MadeByRequeue, MadeByTake, MadeByUnblock, MadeByInsert
    <3>5. QED
      BY <3>1, <3>4 DEF MadeByReport
  <2>4. QED
    BY <2>2, <2>3
<1>3. QED
  BY <1>1, <1>2, CommittedRows

\* A transaction that takes a row back has begun after its lease ran out, so
\* that no overlap of calls takes a live lease from its agent.
THEOREM LeasesAreHonoured == Spec => LeaseHonoured
<1>1. TxnInv /\ [Next]_vars =>
        [\A r \in Rows : row[r].state = "IN_PROGRESS" /\ row[r].lease_expires_at >= now =>
           \/ row'[r].state \in {"DONE", "FAILED"}
           \/ /\ row'[r].state = "IN_PROGRESS"
              /\ row'[r].leased_by = row[r].leased_by
              /\ row'[r].lease_expires_at = row[r].lease_expires_at]_vars
  BY StepHonoursLease
<1>2. QED
  BY <1>1, TxnInvariant, PTL DEF Spec, LeaseHonoured

LEMMA StepUnblocksWhenDone ==
  ASSUME TxnInv, [Next]_vars, NEW r \in Rows,
         row[r].state = "BLOCKED", row'[r].state # "BLOCKED"
  PROVE  row'[r].state = "READY" /\ \A p \in Prereqs[r] : row'[p].state = "DONE"
<1>1. PICK a \in Agents : Commit(a)
  BY CommittedRows
<1>2. owner[r] = a /\ row'[r] = draft[r] /\ Made(a, r)
  BY <1>1, CommitRows
<1>3. MadeByUnblock(a, r)
  BY <1>2 DEF Made, MadeByRequeue, MadeByTake, MadeByReport, MadeByInsert, Expired
<1>4. ASSUME NEW p \in Prereqs[r] PROVE row'[p].state = "DONE"
  <2>1. p \in Rows /\ View(a, p).state = "DONE"
    BY <1>3, TxnAssumption DEF TxnAssumption, MadeByUnblock, AllDone
  <2>2. row'[p] = View(a, p)
    BY <1>1, <2>1 DEF Commit
  <2>3. QED
    BY <2>1, <2>2
<1>5. QED
  BY <1>2, <1>3, <1>4 DEF MadeByUnblock

\* A row is unblocked only by a commit that leaves all its prerequisites
\* DONE, for any graph of prerequisites and any overlap of completions.
THEOREM UnblockingIsRight == Spec => UnblockedWhenDone
<1>1. TxnInv /\ [Next]_vars =>
        [\A r \in Rows : row[r].state = "BLOCKED" /\ row'[r].state # "BLOCKED" =>
           /\ row'[r].state = "READY"
           /\ \A p \in Prereqs[r] : row'[p].state = "DONE"]_vars
  BY StepUnblocksWhenDone
<1>2. QED
  BY <1>1, TxnInvariant, PTL DEF Spec, UnblockedWhenDone

RowStep(r) == \/ Lifecycle!Insert(r) \/ Lifecycle!Unblock(r) \/ Lifecycle!Lease(r)
              \/ Lifecycle!Revoke(r) \/ Lifecycle!Report(r) \/ Lifecycle!Rest(r)

LEMMA CommitRowStep ==
  ASSUME TxnInv, NEW a \in Agents, Commit(a), NEW r \in Rows
  PROVE  RowStep(r)
<1> DEFINE status == [q \in Rows |-> row[q].state]
           leases == [q \in Rows |-> row[q].attempts]
<1>1. /\ status[r] = row[r].state /\ status'[r] = row'[r].state
      /\ leases[r] = row[r].attempts /\ leases'[r] = row'[r].attempts
  OBVIOUS
<1>2. CASE owner[r] # a
  <2>1. row'[r] = row[r]
    BY <1>2, CommitRows
  <2>2. QED
    BY <1>1, <2>1 DEF RowStep, Lifecycle!Rest
<1>3. CASE owner[r] = a
  <2>1. row'[r] = draft[r] /\ Made(a, r)
    BY <1>3, CommitRows
  <2>2. row[r].state = "READY" => row[r].attempts < MaxAttempts
    BY DEF TxnInv, AttemptsLeft
  <2>3. CASE MadeByRequeue(a, r)
    BY <1>1, <2>1, <2>3 DEF MadeByRequeue, Expired, RowStep, Lifecycle!Revoke, Lifecycle!Become
  <2>4. CASE MadeByTake(a, r)
    BY <1>1, <2>1, <2>2, <2>4 DEF MadeByTake, Expired, RowStep, Lifecycle!Lease, Lifecycle!Become
  <2>5. CASE MadeByReport(a, r)
    BY <1>1, <2>1, <2>5 DEF MadeByReport, RowStep, Lifecycle!Report, Lifecycle!Become
  <2>6. CASE MadeByUnblock(a, r)
    BY <1>1, <2>1, <2>6 DEF MadeByUnblock, RowStep, Lifecycle!Unblock, Lifecycle!Become
  <2>7. CASE MadeByInsert(a, r)
    BY <1>1, <2>1, <2>7 DEF MadeByInsert, RowStep, Lifecycle!Insert, Lifecycle!Become
  <2>8. QED
    BY <2>1, <2>3, <2>4, <2>5, <2>6, <2>7 DEF Made
<1>4. QED
  BY <1>2, <1>3

\* The committed table implements the abstract lifecycle: each commit moves
\* each row as TaskLifecycle allows, and nothing else is seen of a call.
THEOREM CommitsImplementLifecycle == Spec => KeepsLifecycle
<1>1. Init => Lifecycle!LifecycleInit
  BY DEF Init, Lifecycle!LifecycleInit, EmptyRow
<1>2. TxnInv /\ [Next]_vars => [Lifecycle!LifecycleNext]_(Lifecycle!lifecycleVars)
  <2> SUFFICES ASSUME TxnInv, [Next]_vars
               PROVE  [Lifecycle!LifecycleNext]_(Lifecycle!lifecycleVars)
    OBVIOUS
  <2>1. CASE UNCHANGED row
    BY <2>1 DEF Lifecycle!lifecycleVars
  <2>2. CASE \E a \in Agents : Commit(a)
    BY <2>2, CommitRowStep DEF Lifecycle!LifecycleNext, RowStep
  <2>3. QED
    BY <2>1, <2>2, CommittedRows
<1>3. QED
  BY <1>1, <1>2, TxnInvariant, PTL DEF Spec, KeepsLifecycle, Lifecycle!LifecycleSpec
-----------------------------------------------------------------------------
(***************************************************************************)
(* Who waits for whom.  A second invariant, on top of the first, says who  *)
(* may hold a node: the call that reports on its row or has checked it     *)
(* out, or a completion of one of its prerequisites.  The two never meet,  *)
(* since a row is only checked out when its prerequisites are DONE.        *)
(***************************************************************************)
ReadyWhenDone ==
  \A r \in Rows : row[r].state \notin {"ABSENT", "BLOCKED"} =>
    \A p \in Prereqs[r] : row[p].state = "DONE"

\* The node of the row that b itself is about.
HoldsOwn(b, r) ==
  /\ owner[r] = b /\ target[b] = r
  /\ \/ call[b] = "checkout" /\ pc[b] = "commit"
     \/ call[b] \in {"complete", "fail"} /\ pc[b] \in {"dependents", "unblock", "handoff", "commit"}

HoldsHeir(b, r) ==
  /\ call[b] = "complete" /\ pc[b] \in {"handoff", "commit"}
  /\ target[b] \in Prereqs[r] /\ r \notin HashedNodes

HoldersOK == \A b \in Agents : \A r \in Rows : holder[r] = b => HoldsOwn(b, r) \/ HoldsHeir(b, r)

HeirsOK(a) ==
  pc[a] = "handoff" => \A d \in todo[a] : target[a] \in Prereqs[d] /\ d \notin HashedNodes

\* A row that is inserted as READY has all its prerequisites DONE.
VerdictOK(a) ==
  /\ pc[a] = "insert" /\ verdict[a] = "READY" =>
       \A p \in Prereqs[target[a]] : row[p].state = "DONE"
  /\ \A r \in Rows : owner[r] = a /\ MadeByInsert(a, r) /\ draft[r].state = "READY" =>
       \A p \in Prereqs[r] : row[p].state = "DONE"

NodesInv == /\ holder \in [Rows -> Agents \cup {NoAgent}]
            /\ HoldersOK
            /\ ReadyWhenDone
            /\ \A a \in Agents : HeirsOK(a) /\ VerdictOK(a)

\* A step that is not a commit leaves the committed rows alone.
LEMMA DoneStaysDone ==
  ASSUME TxnInv, [Next]_vars, NEW p \in Rows, row[p].state = "DONE"
  PROVE  row'[p].state = "DONE"
<1>1. CASE UNCHANGED row
  BY <1>1
<1>2. CASE \E a \in Agents : Commit(a)
  BY <1>2, CommitStep, OutcomeIsFinal DEF StepOK
<1>3. QED
  BY <1>1, <1>2, CommittedRows

LEMMA ReadyWhenDoneKept ==
  ASSUME TxnInv, NodesInv, [Next]_vars PROVE ReadyWhenDone'
<1> SUFFICES ASSUME NEW r \in Rows, row'[r].state \notin {"ABSENT", "BLOCKED"},
                    NEW p \in Prereqs[r]
             PROVE  row'[p].state = "DONE"
  BY DEF ReadyWhenDone
<1>1. p \in Rows
  BY TxnAssumption DEF TxnAssumption
<1>2. CASE row[r].state \notin {"ABSENT", "BLOCKED"}
  <2>1. row[p].state = "DONE"
    BY <1>2 DEF NodesInv, ReadyWhenDone
  <2>2. QED
    BY <1>1, <2>1, DoneStaysDone
<1>3. CASE row[r].state = "BLOCKED"
  BY <1>3, StepUnblocksWhenDone
<1>4. CASE row[r].state = "ABSENT"
  <2>1. PICK a \in Agents : Commit(a)
    BY <1>4, CommittedRows
  <2>2. owner[r] = a /\ row'[r] = draft[r] /\ Made(a, r)
    BY <1>4, <2>1, CommitRows
  <2>3. MadeByInsert(a, r) /\ draft[r].state = "READY"
    BY <1>4, <2>2 DEF Made, MadeByRequeue, MadeByTake, MadeByReport, MadeByUnblock, MadeByInsert,
       Expired
  <2>4. row[p].state = "DONE"
    BY <2>2, <2>3 DEF NodesInv, VerdictOK
  <2>5. QED
    BY <1>1, <2>4, DoneStaysDone
<1>5. QED
  BY <1>2, <1>3, <1>4

\* The nodes, to-do lists and verdicts of the agents that do not move.
LEMMA OthersNodesKept ==
  ASSUME TxnInv, NodesInv, [Next]_vars, NEW a \in Agents, StepOK(a), NEW b \in Agents \ {a}
  PROVE  /\ HeirsOK(b)' /\ VerdictOK(b)'
         /\ \A r \in Rows : HoldsOwn(b, r) => HoldsOwn(b, r)'
         /\ \A r \in Rows : HoldsHeir(b, r) => HoldsHeir(b, r)'
<1>1. /\ pc'[b] = pc[b] /\ call'[b] = call[b] /\ target'[b] = target[b]
      /\ todo'[b] = todo[b] /\ verdict'[b] = verdict[b]
  BY DEF StepOK, OthersStay
<1>2. \A r \in Rows : /\ owner[r] = b => owner'[r] = b /\ draft'[r] = draft[r] /\ row'[r] = row[r]
                      /\ owner'[r] = b => owner[r] = b
  BY OthersHoldTheSame DEF StepOK
<1>3. HeirsOK(b)'
  BY <1>1 DEF NodesInv, HeirsOK
<1>4. \A r \in Rows : \A p \in Prereqs[r] : row[p].state = "DONE" => row'[p].state = "DONE"
  BY DoneStaysDone, TxnAssumption DEF TxnAssumption
<1>5. pc[b] = "insert" => target[b] \in Rows
  BY DEF TxnInv, CallOK
<1>6. VerdictOK(b)'
  <2>1. VerdictOK(b)
    BY DEF NodesInv
  <2>2. ASSUME NEW r \in Rows, owner'[r] = b, MadeByInsert(b, r)', draft'[r].state = "READY"
        PROVE  owner[r] = b /\ MadeByInsert(b, r) /\ draft[r].state = "READY"
    BY <1>1, <1>2, <2>2 DEF MadeByInsert
  <2>3. QED
    BY <1>1, <1>4, <1>5, <2>1, <2>2 DEF VerdictOK
<1>7. \A r \in Rows : HoldsOwn(b, r) => HoldsOwn(b, r)'
  BY <1>1, <1>2 DEF HoldsOwn
<1>8. \A r \in Rows : HoldsHeir(b, r) => HoldsHeir(b, r)'
  BY <1>1 DEF HoldsHeir
<1>9. QED
  BY <1>3, <1>6, <1>7, <1>8

\* What a step of a has to show of a's own nodes, heirs and verdict.
NodesStepOK(a) ==
  /\ holder' \in [Rows -> Agents \cup {NoAgent}]
  /\ \A r \in Rows : holder'[r] \in {holder[r], NoAgent, a}
  /\ \A r \in Rows : holder'[r] = a => HoldsOwn(a, r)' \/ HoldsHeir(a, r)'
  /\ HeirsOK(a)' /\ VerdictOK(a)'

LEMMA NodesStep ==
  ASSUME TxnInv, NodesInv, [Next]_vars, NEW a \in Agents, StepOK(a), NodesStepOK(a)
  PROVE  NodesInv'
<1>1. ReadyWhenDone'
  BY ReadyWhenDoneKept
<1>2. ASSUME NEW b \in Agents \ {a}, NEW r \in Rows, holder'[r] = b
      PROVE  HoldsOwn(b, r)' \/ HoldsHeir(b, r)'
  <2>1. holder[r] = b
    BY <1>2, TxnAssumption DEF TxnAssumption, NodesStepOK
  <2>2. HoldsOwn(b, r) \/ HoldsHeir(b, r)
    BY <2>1 DEF NodesInv, HoldersOK
  <2>3. QED
    BY <2>2, OthersNodesKept
<1>3. HoldersOK'
  BY <1>2 DEF HoldersOK, NodesStepOK
<1>4. \A b \in Agents : HeirsOK(b)' /\ VerdictOK(b)'
  BY OthersNodesKept DEF NodesStepOK
<1>5. QED
  BY <1>1, <1>3, <1>4 DEF NodesInv, NodesStepOK

\* Before its first UPDATE a call holds no node, and after its end none.
LEMMA HoldsNoNode ==
  ASSUME TxnInv, NodesInv, NEW a \in Agents, NEW r \in Rows,
         pc[a] \notin {"dependents", "unblock", "handoff", "commit"}
  PROVE  holder[r] # a
BY DEF NodesInv, HoldersOK, HoldsOwn, HoldsHeir

\* An agent that is neither handing on nor enqueueing has nothing to show.
LEMMA NothingToShow ==
  ASSUME NEW a \in Agents, pc'[a] \notin {"handoff", "insert"},
         ~(pc'[a] = "commit" /\ call'[a] = "enqueue")
  PROVE  HeirsOK(a)' /\ VerdictOK(a)'
BY DEF HeirsOK, VerdictOK, MadeByInsert

\* Steps after which a holds no node, or none but those it held.
LEMMA NoNodesStep ==
  ASSUME TxnInv, NodesInv, NEW a \in Agents,
         pc'[a] \in {"idle", "scan", "requeue", "read", "report", "check"},
         \/ holder' = holder /\ pc[a] \notin {"dependents", "unblock", "handoff", "commit"}
         \/ holder' = [r \in Rows |-> IF holder[r] = a THEN NoAgent ELSE holder[r]]
  PROVE  NodesStepOK(a)
<1>1. holder' \in [Rows -> Agents \cup {NoAgent}] /\ \A r \in Rows : holder'[r] \in {holder[r], NoAgent}
  BY DEF NodesInv
<1>2. \A r \in Rows : holder'[r] # a
  BY HoldsNoNode, TxnAssumption DEF TxnAssumption
<1>3. QED
  BY <1>1, <1>2, NothingToShow DEF NodesStepOK

LEMMA BeginNodes ==
  ASSUME TxnInv, NodesInv, NEW a \in Agents, BeginCall(a)
  PROVE  NodesStepOK(a)
<1>1. ASSUME NEW kind, NEW r, NEW label \in {"scan", "read", "check"}, Begin(a, kind, r, label)
      PROVE  pc[a] = "idle" /\ pc'[a] \in {"scan", "read", "check"} /\ holder' = holder
  BY <1>1 DEF Begin, GoTo, dbVars, TxnInv, ColumnsTyped
<1>2. pc[a] = "idle" /\ pc'[a] \in {"scan", "read", "check"} /\ holder' = holder
  BY <1>1 DEF BeginCall, BeginCheckout, BeginReport, BeginEnqueue
<1>3. QED
  BY <1>2, NoNodesStep

LEMMA EndNodes ==
  ASSUME TxnInv, NodesInv, NEW a \in Agents, Abort(a) \/ Commit(a)
  PROVE  NodesStepOK(a)
<1>1. pc'[a] = "idle" /\ holder' = [r \in Rows |-> IF holder[r] = a THEN NoAgent ELSE holder[r]]
  BY DEF Abort, Commit, Unlock, Forget, GoTo, TxnInv, ColumnsTyped
<1>2. QED
  BY <1>1, NoNodesStep

LEMMA EarlyNodes ==
  ASSUME TxnInv, NodesInv, NEW a \in Agents,
         \/ RequeueScan(a) \/ ReadTask(a)
         \/ \E r \in Rows : RequeueRow(a, r)
         \/ Report(a) /\ row[target[a]].state # "IN_PROGRESS"
  PROVE  NodesStepOK(a)
<1>1. holder' = holder /\ pc[a] \in {"scan", "read", "requeue", "report"}
  BY DEF RequeueScan, ReadTask, RequeueRow, Report, dbVars
<1>2. pc'[a] \in {"idle", "requeue", "report"}
  BY DEF RequeueScan, ReadTask, RequeueRow, Report, Forget, GoTo, TxnInv, ColumnsTyped
<1>3. QED
  BY <1>1, <1>2, NoNodesStep

LEMMA TakeNodes ==
  ASSUME TxnInv, NodesInv, NEW a \in Agents, Take(a)
  PROVE  NodesStepOK(a)
<1>1. pc[a] = "requeue" /\ pc'[a] = "commit" /\ call' = call /\ call[a] = "checkout"
  BY DEF Take, GoTo, TxnInv, ColumnsTyped, CallOK
<1>2. HeirsOK(a)' /\ VerdictOK(a)'
  BY <1>1, NothingToShow
<1>3. \A q \in Rows : holder[q] # a
  BY <1>1, HoldsNoNode
<1>4. CASE UNCHANGED dbVars
  BY <1>2, <1>3, <1>4 DEF dbVars, NodesStepOK, NodesInv
<1>5. CASE \E r \in Free(a) :
             /\ Write(a, r, Locked(Leased(View(a, r), a, start[a]), a, start[a]))
             /\ holder' = [holder EXCEPT ![r] = IF LockFree(View(a, r), a, start[a]) THEN a ELSE @]
             /\ target' = [target EXCEPT ![a] = r]
  <2>1. PICK r \in Rows :
             /\ owner' = [owner EXCEPT ![r] = a]
             /\ holder' = [holder EXCEPT ![r] = IF LockFree(View(a, r), a, start[a]) THEN a ELSE @]
             /\ target' = [target EXCEPT ![a] = r]
    BY <1>5 DEF Free, Write
  <2>2. owner'[r] = a /\ target'[a] = r
    BY <2>1 DEF TxnInv, ColumnsTyped
  <2>3. HoldsOwn(a, r)'
    BY <1>1, <2>2 DEF HoldsOwn
  <2>4. \A q \in Rows : holder'[q] = a => q = r
    BY <1>3, <2>1 DEF NodesInv
  <2>5. /\ holder' \in [Rows -> Agents \cup {NoAgent}]
        /\ \A q \in Rows : holder'[q] \in {holder[q], NoAgent, a}
    BY <2>1 DEF NodesInv
  <2>6. QED
    BY <1>2, <2>3, <2>4, <2>5 DEF NodesStepOK
<1>6. QED
  BY <1>4, <1>5 DEF Take

LEMMA ReportNodes ==
  ASSUME TxnInv, NodesInv, NEW a \in Agents, Report(a), row[target[a]].state = "IN_PROGRESS"
  PROVE  NodesStepOK(a)
<1> DEFINE r == target[a]
<1>1. /\ pc[a] = "report" /\ pc'[a] \in {"dependents", "commit"}
      /\ pc'[a] = "dependents" => call[a] = "complete"
      /\ call' = call /\ target' = target
      /\ owner' = [owner EXCEPT ![r] = a]
      /\ holder' = [holder EXCEPT ![r] = IF Releases(row[r], a) THEN a ELSE @]
  BY DEF Report, GoTo, Write, ReleaseNode, TxnInv, ColumnsTyped
<1>2. call[a] \in {"complete", "fail"} /\ r \in Rows
  BY <1>1 DEF TxnInv, CallOK
<1>3. HeirsOK(a)' /\ VerdictOK(a)'
  BY <1>1, <1>2, NothingToShow
<1>4. ASSUME NEW q \in Rows, q = r PROVE HoldsOwn(a, q)'
  BY <1>1, <1>2, <1>4 DEF HoldsOwn, TxnInv, ColumnsTyped
<1>5. \A q \in Rows : holder'[q] = a => q = r
  BY <1>1, HoldsNoNode DEF NodesInv
<1>6. /\ holder' \in [Rows -> Agents \cup {NoAgent}]
      /\ \A q \in Rows : holder'[q] \in {holder[q], NoAgent, a}
  BY <1>1 DEF NodesInv
<1>7. QED
  BY <1>3, <1>4, <1>5, <1>6 DEF NodesStepOK

\* The statements of a completion after the report.
LEMMA CompletionNodes ==
  ASSUME TxnInv, NodesInv, NEW a \in Agents,
         \/ FindDependents(a) \/ FindHeirs(a) \/ HandoffEnd(a)
         \/ \E d \in Rows : UnblockRow(a, d) \/ HandOn(a, d)
  PROVE  NodesStepOK(a)
<1>1. /\ pc[a] \in {"dependents", "unblock", "handoff"} /\ call[a] = "complete"
      /\ call' = call /\ target' = target
  BY DEF FindDependents, FindHeirs, HandoffEnd, UnblockRow, HandOn, TxnInv, CallOK
<1>2. /\ pc'[a] \in {"unblock", "handoff", "commit"}
      /\ pc[a] = "handoff" => pc'[a] \in {"handoff", "commit"}
  BY DEF FindDependents, FindHeirs, HandoffEnd, UnblockRow, HandOn, GoTo, TxnInv, ColumnsTyped
<1>3. \A r \in Rows : owner[r] = a => owner'[r] = a
  BY DEF FindDependents, FindHeirs, HandoffEnd, UnblockRow, HandOn, dbVars, Write, TxnInv, ColumnsTyped
<1>4. VerdictOK(a)'
  BY <1>1, <1>2 DEF VerdictOK, MadeByInsert
<1>5. HeirsOK(a)'
  <2>1. CASE FindHeirs(a)
    <3>1. todo'[a] = Heirs(a)
      BY <2>1 DEF FindHeirs, TxnInv, ColumnsTyped
    <3>2. QED
      BY <1>1, <3>1 DEF Heirs, HeirsOK
  <2>2. CASE \E d \in Rows : HandOn(a, d)
    <3>1. todo'[a] \subseteq todo[a] /\ pc[a] = "handoff"
      BY <2>2 DEF HandOn, TxnInv, ColumnsTyped
    <3>2. QED
      BY <1>1, <3>1 DEF HeirsOK, NodesInv
  <2>3. CASE FindDependents(a) \/ HandoffEnd(a) \/ \E d \in Rows : UnblockRow(a, d)
    <3>1. pc'[a] # "handoff"
      BY <2>3 DEF FindDependents, HandoffEnd, UnblockRow, GoTo, TxnInv, ColumnsTyped
    <3>2. QED
      BY <3>1 DEF HeirsOK
  <2>4. QED
    BY <2>1, <2>2, <2>3
<1>6. ASSUME NEW r \in Rows, holder[r] = a PROVE HoldsOwn(a, r)' \/ HoldsHeir(a, r)'
  <2>1. HoldsOwn(a, r) \/ HoldsHeir(a, r)
    BY <1>6 DEF NodesInv, HoldersOK
  <2>2. QED
    BY <1>1, <1>2, <1>3, <2>1 DEF HoldsOwn, HoldsHeir
<1>7. CASE holder' = holder
  BY <1>4, <1>5, <1>6, <1>7 DEF NodesStepOK, NodesInv
<1>8. CASE \E d \in Rows : HandOn(a, d)
  <2>1. PICK d \in Rows : HandOn(a, d)
    BY <1>8
  <2>2. /\ holder' \in [Rows -> Agents \cup {NoAgent}]
        /\ \A r \in Rows : holder'[r] \in {holder[r], NoAgent, a}
        /\ \A r \in Rows \ {d} : holder'[r] = holder[r]
    BY <2>1 DEF HandOn, NodesInv
  <2>3. HoldsHeir(a, d)'
    BY <1>1, <2>1 DEF HandOn, HoldsHeir, HeirsOK, NodesInv
  <2>4. QED
    BY <1>4, <1>5, <1>6, <2>2, <2>3 DEF NodesStepOK
<1>9. QED
  BY <1>7, <1>8 DEF FindDependents, FindHeirs, HandoffEnd, UnblockRow, dbVars

\* The SELECTs of an enqueue see the committed rows.
LEMMA CheckNodes ==
  ASSUME TxnInv, NodesInv, NEW a \in Agents, CheckDependencies(a)
  PROVE  NodesStepOK(a)
<1>1. /\ pc[a] = "check" /\ pc'[a] = "insert" /\ UNCHANGED dbVars /\ target' = target
      /\ verdict'[a] = "READY" => AllDone(a, target[a])
  BY DEF CheckDependencies, GoTo, TxnInv, ColumnsTyped
<1>2. target[a] \in Rows
  BY <1>1 DEF TxnInv, CallOK
<1>3. \A p \in Rows : View(a, p) = row[p]
  BY <1>1, HoldsNothing DEF View
<1>4. VerdictOK(a)'
  BY <1>1, <1>2, <1>3, TxnAssumption DEF TxnAssumption, VerdictOK, AllDone, MadeByInsert, dbVars
<1>5. HeirsOK(a)' /\ \A q \in Rows : holder'[q] # a
  BY <1>1, HoldsNoNode DEF HeirsOK, dbVars
<1>6. QED
  BY <1>1, <1>4, <1>5 DEF NodesStepOK, NodesInv, dbVars

LEMMA InsertNodes ==
  ASSUME TxnInv, NodesInv, NEW a \in Agents, Insert(a)
  PROVE  NodesStepOK(a)
<1> DEFINE r == target[a]
<1>1. /\ pc[a] = "insert" /\ pc'[a] = "commit" /\ UNCHANGED <<row, holder, target, verdict>>
      /\ draft' = [draft EXCEPT ![r] = [EmptyRow EXCEPT !.state = verdict[a]]]
  BY DEF Insert, GoTo, Write, TxnInv, ColumnsTyped
<1>2. r \in Rows
  BY <1>1 DEF TxnInv, CallOK
<1>3. draft'[r].state = verdict[a]
  BY <1>1, <1>2 DEF TxnInv, ColumnsTyped, EmptyRow
<1>4. VerdictOK(a)'
  BY <1>1, <1>3 DEF VerdictOK, MadeByInsert, NodesInv
<1>5. HeirsOK(a)' /\ \A q \in Rows : holder'[q] # a
  BY <1>1, HoldsNoNode DEF HeirsOK
<1>6. QED
  BY <1>1, <1>4, <1>5 DEF NodesStepOK, NodesInv

LEMMA InitNodesInv == Init => NodesInv
<1> SUFFICES ASSUME Init PROVE NodesInv
  OBVIOUS
<1>1. HoldersOK /\ ReadyWhenDone
  BY TxnAssumption DEF TxnAssumption, Init, HoldersOK, ReadyWhenDone, EmptyRow
<1>2. \A a \in Agents : HeirsOK(a) /\ VerdictOK(a)
  BY DEF Init, HeirsOK, VerdictOK, MadeByInsert
<1>3. QED
  BY <1>1, <1>2 DEF Init, NodesInv

LEMMA NextNodesInv == TxnInv /\ NodesInv /\ [Next]_vars => NodesInv'
<1> SUFFICES ASSUME TxnInv, NodesInv, [Next]_vars PROVE NodesInv'
  OBVIOUS
<1>1. ASSUME NEW a \in Agents, BeginCall(a) \/ Statement(a) \/ Abort(a) PROVE NodesInv'
  <2>1. StepOK(a)
    BY <1>1, OtherStatements, CommitStep
  <2>2. NodesStepOK(a)
    BY <1>1, BeginNodes, EndNodes, EarlyNodes, TakeNodes, ReportNodes, CompletionNodes, CheckNodes,
       InsertNodes DEF Statement
  <2>3. QED
    BY <2>1, <2>2, NodesStep
<1>2. CASE Tick \/ UNCHANGED vars
  <2>1. UNCHANGED <<row, draft, owner, holder, pc, call, target, todo, verdict>> /\ start' = start
    BY <1>2 DEF Tick, vars, dbVars, callVars
  <2>2. QED
    BY <2>1 DEF NodesInv, HoldersOK, HoldsOwn, HoldsHeir, ReadyWhenDone, HeirsOK, VerdictOK, MadeByInsert
<1>3. QED
  BY <1>1, <1>2 DEF Next

LEMMA NodesInvariant == Spec => []NodesInv
<1>1. QED
  BY InitNodesInv, NextNodesInv, TxnInvariant, PTL DEF Spec

\* A node whose row is taken or released is nobody's heir: the prerequisites
\* of its row are DONE, while a completion's own row is still IN_PROGRESS.
LEMMA HeirsWait ==
  ASSUME TxnInv, NodesInv, NEW b \in Agents, NEW r \in Rows,
         call[b] = "complete", pc[b] \in {"handoff", "commit"}, target[b] \in Prereqs[r]
  PROVE  row[r].state \in {"ABSENT", "BLOCKED"}
<1>1. row[target[b]].state = "IN_PROGRESS"
  BY DEF TxnInv, CallOK, MadeByReport
<1>2. QED
  BY <1>1 DEF NodesInv, ReadyWhenDone

\* Where a call waits, and what it waits for.
LEMMA WaitPlaces ==
  ASSUME TxnInv, NodesInv, NEW a \in Agents, NEW b \in Agents \ {a}, WaitsFor(a, b)
  PROVE  \/ pc[a] = "requeue" /\ \E r \in todo[a] : owner[r] = b
         \/ pc[a] = "report" /\ owner[target[a]] = b
         \/ /\ pc[a] = "handoff" /\ call[b] = "complete" /\ pc[b] \in {"handoff", "commit"}
            /\ \E d \in CommonHeirs(a, b) : holder[d] = b
<1>1. ColumnsTyped
  BY DEF TxnInv
<1>2. ASSUME NEW r \in Rows, holder[r] = b PROVE HoldsOwn(b, r) \/ HoldsHeir(b, r)
  BY <1>2 DEF NodesInv, HoldersOK
<1>3. ASSUME pc[a] = "requeue", NEW r \in Free(a), holder[r] = b PROVE FALSE
  <2>1. r \in Rows /\ Unlocked(a, r) /\ View(a, r).state = "READY"
    BY DEF Free
  <2>2. row[r].state \in {"READY", "IN_PROGRESS"}
    <3>1. CASE owner[r] = a
      <4>1. Made(a, r)
        BY <2>1, <3>1, HeldIsMade
      <4>2. MadeByRequeue(a, r)
        BY <1>3, <4>1 DEF Made, MadeByTake, MadeByReport, MadeByUnblock, MadeByInsert
      <4>3. QED
        BY <4>2 DEF MadeByRequeue, Expired
    <3>2. CASE owner[r] # a
      BY <2>1, <3>2 DEF View
    <3>3. QED
      BY <3>1, <3>2
  <2>3. ~HoldsOwn(b, r)
    BY <2>1, TxnAssumption DEF TxnAssumption, HoldsOwn, Unlocked
  <2>4. HoldsHeir(b, r)
    BY <1>2, <1>3, <2>1, <2>3
  <2>5. QED
    BY <2>1, <2>2, <2>4, HeirsWait DEF HoldsHeir
<1>4. ASSUME pc[a] = "report", row[target[a]].state = "IN_PROGRESS", holder[target[a]] = b
      PROVE  owner[target[a]] = b
  <2>1. target[a] \in Rows
    BY <1>4 DEF TxnInv, CallOK
  <2>2. ~HoldsHeir(b, target[a])
    BY <1>4, <2>1, HeirsWait DEF HoldsHeir
  <2>3. QED
    BY <1>2, <1>4, <2>1, <2>2 DEF HoldsOwn
<1>5. ASSUME pc[a] = "unblock", NEW d \in todo[a], owner[d] = b PROVE FALSE
  BY <1>5, TxnAssumption DEF TxnAssumption, TxnInv, TodoOK
<1>6. ASSUME pc[a] = "handoff", NEW d \in todo[a], holder[d] = b
      PROVE  d \in CommonHeirs(a, b) /\ call[b] = "complete" /\ pc[b] \in {"handoff", "commit"}
  <2>1. d \in Rows /\ target[a] \in Prereqs[d] /\ d \notin HashedNodes
    BY <1>1, <1>6 DEF ColumnsTyped, NodesInv, HeirsOK
  <2>2. call[a] = "complete"
    BY <1>6 DEF TxnInv, CallOK
  <2>3. row[d].state \in {"ABSENT", "BLOCKED"}
    BY <1>6, <2>1, <2>2, HeirsWait
  <2>4. ~HoldsOwn(b, d)
    <3> SUFFICES ASSUME HoldsOwn(b, d) PROVE FALSE
      OBVIOUS
    <3>1. target[b] = d /\ d # NoRow
      BY <2>1, TxnAssumption DEF TxnAssumption, HoldsOwn
    <3>2. MadeByTake(b, d) \/ MadeByReport(b, d)
      BY <3>1 DEF HoldsOwn, TxnInv, CallOK
    <3>3. QED
      BY <2>3, <3>2 DEF MadeByTake, MadeByReport, Expired
  <2>5. HoldsHeir(b, d)
    BY <1>2, <1>6, <2>1, <2>4
  <2>6. QED
    BY <2>1, <2>5 DEF HoldsHeir, CommonHeirs
<1>7. QED
  BY <1>3, <1>4, <1>5, <1>6 DEF WaitsFor

\* Whatever the rows and their prerequisites: a call waits at an expired row,
\* at the row it reports on, or to hand context on to a common dependent.
THEOREM CallsWaitInThreePlaces == Spec => []WaitsAreKnown
<1>1. TxnInv /\ NodesInv => WaitsAreKnown
  BY WaitPlaces DEF WaitsAreKnown
<1>2. QED
  BY <1>1, TxnInvariant, NodesInvariant, PTL

\* Two calls can wait for each other in two of them: PostgreSQL then aborts
\* one of two checkouts, or one of two completions with two common heirs.
THEOREM TwoWaysToDeadlock == Spec => []DeadlocksAreKnown
<1>1. TxnInv /\ NodesInv => DeadlocksAreKnown
  <2> SUFFICES ASSUME TxnInv, NodesInv, NEW a \in Agents, NEW b \in Agents, a # b,
                      WaitsFor(a, b), WaitsFor(b, a)
               PROVE  \/ pc[a] = "requeue" /\ pc[b] = "requeue"
                      \/ /\ pc[a] = "handoff" /\ pc[b] = "handoff"
                         /\ \E d, e \in CommonHeirs(a, b) : d # e
    BY DEF DeadlocksAreKnown
  <2>1. ASSUME NEW c \in Agents, pc[c] = "report", NEW r \in Rows, owner[r] = c PROVE FALSE
    BY <2>1, HoldsNothing
  <2>2. \A c \in Agents : /\ pc[c] = "report" => target[c] \in Rows
                          /\ todo[c] \subseteq Rows
    BY DEF TxnInv, CallOK, ColumnsTyped
  <2>3. CommonHeirs(a, b) = CommonHeirs(b, a)
    BY DEF CommonHeirs
  <2>4. CASE pc[a] = "handoff"
    <3>1. pc[b] \in {"handoff", "commit"} /\ \E d \in CommonHeirs(a, b) : holder[d] = b
      BY <2>4, WaitPlaces
    <3>2. pc[b] = "handoff" /\ \E e \in CommonHeirs(a, b) : holder[e] = a
      BY <2>3, <3>1, WaitPlaces
    <3>3. QED
      BY <2>4, <3>1, <3>2
  <2>5. CASE pc[b] = "handoff"
    <3>1. pc[a] \in {"handoff", "commit"}
      BY <2>5, WaitPlaces
    <3>2. pc[a] = "handoff"
      BY <3>1, WaitPlaces
    <3>3. QED
      BY <2>4, <3>2
  <2>6. CASE pc[a] # "handoff" /\ pc[b] # "handoff"
    BY <2>1, <2>2, <2>6, WaitPlaces
  <2>7. QED
    BY <2>4, <2>5, <2>6
<1>2. QED
  BY <1>1, TxnInvariant, NodesInvariant, PTL

\* Every column and local keeps its type, whatever the calls do to each
\* other, and only a transaction that has begun to write holds rows.
THEOREM TxnTypes == Spec => []TypeOK
<1>1. TxnInv /\ NodesInv => TypeOK
  <2> SUFFICES ASSUME TxnInv, NodesInv PROVE TypeOK
    OBVIOUS
  <2>1. ColumnsTyped
    BY DEF TxnInv
  <2>2. ASSUME NEW r \in Rows
        PROVE  IF owner[r] = NoAgent THEN draft[r] = row[r]
               ELSE pc[owner[r]] \in {"requeue", "dependents", "unblock", "handoff", "commit"}
    <3>1. CASE owner[r] = NoAgent
      BY <3>1 DEF TxnInv, DraftsMade
    <3>2. CASE owner[r] # NoAgent
      <4>1. owner[r] \in Agents /\ Made(owner[r], r)
        BY <2>1, <3>2, HeldIsMade DEF ColumnsTyped
      <4>2. QED
        BY <3>2, <4>1 DEF Made, MadeByRequeue, MadeByTake, MadeByReport, MadeByUnblock, MadeByInsert
    <3>3. QED
      BY <3>1, <3>2
  <2>3. QED
    BY <2>1, <2>2 DEF TypeOK, ColumnsTyped, NodesInv
<1>2. QED
  BY <1>1, TxnInvariant, NodesInvariant, PTL

=============================================================================
