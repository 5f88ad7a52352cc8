----------------------------- MODULE MCTaskTxn -----------------------------
(* Instances of TaskTxn for TLC. *)
EXTENDS TaskTxn, TLC

CONSTANTS alice, bob

\* Row 3 waits for rows 1 and 2.
Join == [r \in Rows |-> IF r = 3 THEN {1, 2} ELSE {}]

\* Row 3 waits for rows 1 and 2, and row 4 for all of them.
Ladder == [r \in Rows |-> CASE r = 3 -> {1, 2} [] r = 4 -> {1, 2, 3} [] OTHER -> {}]

AgentSymmetry == Permutations(Agents)

-----------------------------------------------------------------------------
AllIdle == \A a \in Agents : pc[a] = "idle"

\* ARCHITECTURE.md: a BLOCKED task is "Auto-unblocked when DEPENDS_ON targets
\* reach DONE state".  When every call has ended, a row that is still BLOCKED
\* has a prerequisite that is not DONE.
AutoUnblocked ==
  AllIdle => \A r \in Rows : row[r].state = "BLOCKED" =>
               \E p \in Prereqs[r] : row[p].state # "DONE"
=============================================================================
