--------------------------- MODULE SubgraphProofs ---------------------------
(***************************************************************************)
(* What is made of the graph, whatever its size: the cycle check answers   *)
(* right; a package has what lies within the depth, whatever edges are     *)
(* inserted while it is extracted; what the dashboard draws of it hangs    *)
(* together; and the editor shows the same nodes.                          *)
(***************************************************************************)
EXTENDS Subgraph, FiniteSetTheorems, SequenceTheorems, WellFoundedInduction, TLAPS

(***************************************************************************)
(* The cycle check.                                                        *)
(*                                                                         *)
(* Both halves speak of closed sets: a set of nodes is closed when it      *)
(* holds the targets of the start and the targets of its members.  Soundness *)
(* keeps what was seen inside every closed set (the start aside), so a     *)
(* target equal to the start lies in all of them.  Completeness keeps the  *)
(* targets of every visited node visited or on the stack, so that an empty *)
(* stack makes visited \ {start} itself a closed set without the start.    *)
(***************************************************************************)
Closed(S) == Targets(start) \subseteq S /\ \A m \in S : Targets(m) \subseteq S

\* Nothing was seen that cannot be reached.
Reached == \A S \in SUBSET Nodes : Closed(S) =>
             /\ visited \subseteq S \cup {start}
             /\ OnStack \subseteq S \cup {start}
             /\ rest \subseteq S

\* Nothing that can be reached was lost, and no target was the start so far.
Kept ==
  /\ start \in visited \cup OnStack
  /\ pc # "done" => ~result
  /\ pc = "scan" => current \in visited
  /\ ~result =>
       \A n \in visited : \A t \in Targets(n) :
         \/ t # start /\ t \in visited \cup OnStack
         \/ pc = "scan" /\ n = current /\ t \in rest
  /\ pc = "done" /\ ~result => stack = <<>>
  /\ result => start \in rest

IInv == TypeOK /\ Reached /\ Kept

-----------------------------------------------------------------------------
\* What append and pop do to the members of a stack.
LEMMA AppendMembers ==
  ASSUME NEW s \in Seq(Nodes), NEW x \in Nodes
  PROVE  {Append(s, x)[i] : i \in 1 .. Len(Append(s, x))}
           = {s[i] : i \in 1 .. Len(s)} \cup {x}
<1> DEFINE a == Append(s, x)
<1>1. Len(a) = Len(s) + 1 /\ Len(s) \in Nat
  OBVIOUS
<1>2. \A i \in 1 .. Len(s) : a[i] = s[i]
  OBVIOUS
<1>3. a[Len(s) + 1] = x
  OBVIOUS
<1> HIDE DEF a
<1>4. QED
  BY <1>1, <1>2, <1>3 DEF a

LEMMA FrontLength ==
  ASSUME NEW S, NEW s \in Seq(S), NEW n \in Nat, Len(s) = n + 1
  PROVE  Len(SubSeq(s, 1, n)) = n
  OBVIOUS

LEMMA PopMembers ==
  ASSUME NEW s \in Seq(Nodes), s # <<>>
  PROVE  LET b == SubSeq(s, 1, Len(s) - 1)
         IN /\ s[Len(s)] \in Nodes
            /\ b \in Seq(Nodes)
            /\ {s[i] : i \in 1 .. Len(s)}
                 = {b[i] : i \in 1 .. Len(b)} \cup {s[Len(s)]}
<1> DEFINE b == SubSeq(s, 1, Len(s) - 1)
<1>1. Len(s) \in Nat /\ Len(s) >= 1
  OBVIOUS
<1>2. s[Len(s)] \in Nodes
  BY <1>1
<1>3. \A i \in 1 .. Len(s) - 1 : s[i] \in Nodes
  BY <1>1
<1>4. b \in Seq(Nodes) /\ Len(b) = Len(s) - 1
  <2>1. Len(s) - 1 \in Nat /\ Len(s) = (Len(s) - 1) + 1
    BY <1>1
  <2>2. Len(b) = Len(s) - 1
    BY <2>1, FrontLength
  <2>3. b \in Seq(Nodes)
    BY <1>1
  <2>4. QED
    BY <2>2, <2>3
<1>5. \A i \in 1 .. Len(s) - 1 : b[i] = s[i]
  BY <1>1
<1> HIDE DEF b
<1>6. {s[i] : i \in 1 .. Len(s)} = {b[i] : i \in 1 .. Len(b)} \cup {s[Len(s)]}
  BY <1>1, <1>4, <1>5
<1>7. QED
  BY <1>2, <1>4, <1>6 DEF b

-----------------------------------------------------------------------------
LEMMA InitIInv == Init => IInv
<1> SUFFICES ASSUME Init PROVE IInv
  OBVIOUS
<1>1. OnStack = {start}
  BY DEF Init, OnStack
<1>2. TypeOK
  <2>1. stack \in Seq(Nodes)
    BY DEF Init
  <2>2. QED
    BY <2>1 DEF Init, TypeOK
<1>3. Reached
  BY <1>1 DEF Init, Reached
<1>4. Kept
  BY <1>1 DEF Init, Kept
<1>5. QED
  BY <1>2, <1>3, <1>4 DEF IInv

LEMMA TargetsAreNodes == \A n : Targets(n) \subseteq Nodes
  BY DEF Targets

\* The steps that take the top off the stack.
LEMMA SkipIInv == IInv /\ Skip => IInv'
<1> SUFFICES ASSUME IInv, Skip PROVE IInv'
  OBVIOUS
<1>1. /\ Below \in Seq(Nodes)
      /\ OnStack = OnStack' \cup {Top}
  BY PopMembers DEF IInv, TypeOK, Skip, Below, Top, OnStack
<1>2. TypeOK'
  BY <1>1 DEF IInv, TypeOK, Skip
<1>3. Targets(start)' = Targets(start) /\ \A n : Targets(n)' = Targets(n)
  BY DEF Skip, Targets
<1>4. Reached'
  BY <1>1, <1>3 DEF IInv, Reached, Closed, Skip
<1>5. Kept'
  BY <1>1, <1>3 DEF IInv, TypeOK, Kept, Skip
<1>6. QED
  BY <1>2, <1>4, <1>5 DEF IInv

LEMMA VisitIInv == IInv /\ Visit => IInv'
<1> SUFFICES ASSUME IInv, Visit PROVE IInv'
  OBVIOUS
<1>1. /\ Top \in Nodes
      /\ Below \in Seq(Nodes)
      /\ OnStack = OnStack' \cup {Top}
  BY PopMembers DEF IInv, TypeOK, Visit, Below, Top, OnStack
<1>2. TypeOK'
  BY <1>1, TargetsAreNodes DEF IInv, TypeOK, Visit
<1>3. \A n : Targets(n)' = Targets(n)
  BY DEF Visit, Targets
<1>4. Reached'
  <2> SUFFICES ASSUME NEW S \in SUBSET Nodes, Closed(S)
               PROVE  /\ visited' \subseteq S \cup {start}
                      /\ OnStack' \subseteq S \cup {start}
                      /\ rest' \subseteq S
    BY <1>3 DEF Reached, Closed, Visit
  <2>1. /\ visited \subseteq S \cup {start}
        /\ OnStack \subseteq S \cup {start}
    BY DEF IInv, Reached
  <2>2. Top \in S \cup {start}
    BY <1>1, <2>1
  <2>3. Targets(Top) \subseteq S
    BY <2>2 DEF Closed
  <2>4. QED
    BY <1>1, <2>1, <2>2, <2>3 DEF Visit
<1>5. Kept'
  BY <1>1, <1>3 DEF IInv, TypeOK, Kept, Visit
<1>6. QED
  BY <1>2, <1>4, <1>5 DEF IInv

\* The steps of the scan.
LEMMA CloseIInv == ASSUME NEW t \in Nodes PROVE IInv /\ Close(t) => IInv'
<1> SUFFICES ASSUME IInv, Close(t) PROVE IInv'
  OBVIOUS
<1>1. OnStack' = OnStack /\ \A n : Targets(n)' = Targets(n)
  BY DEF Close, OnStack, Targets
<1>2. TypeOK'
  BY DEF IInv, TypeOK, Close
<1>3. Reached'
  BY <1>1 DEF IInv, Reached, Closed, Close
<1>4. Kept'
  BY <1>1 DEF IInv, TypeOK, Kept, Close
<1>5. QED
  BY <1>2, <1>3, <1>4 DEF IInv

LEMMA PushIInv == ASSUME NEW t \in Nodes PROVE IInv /\ Push(t) => IInv'
<1> SUFFICES ASSUME IInv, Push(t) PROVE IInv'
  OBVIOUS
<1>1. \A n : Targets(n)' = Targets(n)
  BY DEF Push, Targets
<1>2. /\ OnStack' \subseteq OnStack \cup {t}
      /\ OnStack \subseteq OnStack'
      /\ t \in visited \cup OnStack'
  <2>1. CASE t \in visited
    BY <2>1 DEF Push, OnStack
  <2>2. CASE t \notin visited
    BY <2>2, AppendMembers DEF IInv, TypeOK, Push, OnStack
  <2>3. QED
    BY <2>1, <2>2
<1>3. TypeOK'
  BY DEF IInv, TypeOK, Push
<1>4. Reached'
  BY <1>1, <1>2 DEF IInv, Reached, Closed, Push
<1>5. Kept'
  <2>1. ~result /\ ~result' /\ pc = "scan" /\ pc' = "scan"
    BY DEF IInv, Kept, Push
  <2>2. QED
    BY <1>1, <1>2, <2>1 DEF IInv, TypeOK, Kept, Push
<1>6. QED
  BY <1>3, <1>4, <1>5 DEF IInv

LEMMA ScanEndIInv == IInv /\ ScanEnd => IInv'
<1> SUFFICES ASSUME IInv, ScanEnd PROVE IInv'
  OBVIOUS
<1>1. OnStack' = OnStack /\ \A n : Targets(n)' = Targets(n)
  BY DEF ScanEnd, OnStack, Targets
<1>2. TypeOK' /\ Reached'
  BY <1>1 DEF IInv, TypeOK, Reached, Closed, ScanEnd
<1>3. Kept'
  BY <1>1 DEF IInv, TypeOK, Kept, ScanEnd
<1>4. QED
  BY <1>2, <1>3 DEF IInv

LEMMA ExhaustedIInv == IInv /\ Exhausted => IInv'
<1> SUFFICES ASSUME IInv, Exhausted PROVE IInv'
  OBVIOUS
<1>1. OnStack' = OnStack /\ \A n : Targets(n)' = Targets(n)
  BY DEF Exhausted, OnStack, Targets
<1>2. TypeOK' /\ Reached'
  BY <1>1 DEF IInv, TypeOK, Reached, Closed, Exhausted
<1>3. Kept'
  BY <1>1 DEF IInv, TypeOK, Kept, Exhausted
<1>4. QED
  BY <1>2, <1>3 DEF IInv

LEMMA StepIInv == IInv /\ [Next]_vars => IInv'
<1> SUFFICES ASSUME IInv, [Next]_vars PROVE IInv'
  OBVIOUS
<1>1. CASE Skip
  BY <1>1, SkipIInv
<1>2. CASE Visit
  BY <1>2, VisitIInv
<1>3. CASE \E t \in Nodes : Close(t)
  BY <1>3, CloseIInv
<1>4. CASE \E t \in Nodes : Push(t)
  BY <1>4, PushIInv
<1>5. CASE ScanEnd
  BY <1>5, ScanEndIInv
<1>6. CASE Exhausted
  BY <1>6, ExhaustedIInv
<1>7. CASE UNCHANGED vars
  <2>1. OnStack' = OnStack /\ \A n : Targets(n)' = Targets(n)
    BY <1>7 DEF vars, OnStack, Targets
  <2>2. QED
    BY <1>7, <2>1 DEF vars, IInv, TypeOK, Reached, Closed, Kept
<1>8. QED
  BY <1>1, <1>2, <1>3, <1>4, <1>5, <1>6, <1>7 DEF Next

\* The two halves of the answer.
LEMMA IInvAnswer == IInv => AnswerIsRight
<1> SUFFICES ASSUME IInv, pc = "done" PROVE result <=> HasCycle(start)
  BY DEF AnswerIsRight
<1>1. CASE result
  <2>1. ASSUME NEW S \in SUBSET Nodes, Closed(S) PROVE start \in S
    BY <1>1, <2>1 DEF IInv, Kept, Reached
  <2>2. QED
    BY <1>1, <2>1 DEF HasCycle, Closed
<1>2. CASE ~result
  <2> DEFINE S == visited \ {start}
  <2>1. OnStack = {}
    BY <1>2 DEF IInv, Kept, OnStack
  <2>2. start \in visited
    BY <2>1 DEF IInv, Kept
  <2>3. \A n \in visited : Targets(n) \subseteq S
    BY <1>2, <2>1 DEF IInv, Kept
  <2>4. S \in SUBSET Nodes /\ start \notin S
    BY DEF IInv, TypeOK
  <2>5. ~HasCycle(start)
    BY <2>2, <2>3, <2>4 DEF HasCycle
  <2>6. QED
    BY <1>2, <2>5
<1>3. QED
  BY <1>1, <1>2 DEF IInv, TypeOK

-----------------------------------------------------------------------------
\* The locals of _has_cycle keep their types, and a scan is always finished
\* before the next node is popped.
THEOREM SearchTypes == Spec => []TypeOK
<1>1. IInv => TypeOK
  BY DEF IInv
<1>2. QED
  BY InitIInv, StepIInv, <1>1, PTL DEF Spec

\* When _has_cycle returns, it returns True exactly when the node can reach
\* itself, whatever the graph.
THEOREM CycleCheckIsRight == Spec => []AnswerIsRight
  BY InitIInv, StepIInv, IInvAnswer, PTL DEF Spec

-----------------------------------------------------------------------------
(***************************************************************************)
(* Induction over the natural numbers.                                     *)
(***************************************************************************)
\* Induction over the natural numbers, as the least counterexample.
LEMMA Smallest ==
  ASSUME NEW T \in SUBSET Nat, T # {}
  PROVE  \E n \in T : \A m \in T : n <= m
<1> DEFINE R == {ss \in Nat \X Nat : ss[1] < ss[2]}
<1>1. IsWellFoundedOn(R, Nat)
  BY NatLessThanWellFounded DEF OpToRel
<1> HIDE DEF R
<1>2. PICK n \in T : \A m \in T : ~ (<<m, n>> \in R)
  BY <1>1, WFMin
<1>3. \A m \in T : ~ (m < n)
  BY <1>2 DEF R
<1>4. QED
  BY <1>3

LEMMA Induction ==
  ASSUME NEW T \in SUBSET Nat, 0 \in T, \A k \in Nat : k \in T => k + 1 \in T
  PROVE  Nat \subseteq T
<1> SUFFICES ASSUME Nat \ T # {} PROVE FALSE
  OBVIOUS
<1>1. PICK n \in Nat \ T : \A m \in Nat \ T : n <= m
  BY Smallest
<1>2. n - 1 \in Nat /\ n - 1 \in T
  BY <1>1
<1>3. QED
  BY <1>1, <1>2

\* G lists what iterating h gives, from v on.
Iterates(G, h, v) == G[0] = v /\ \A j \in Nat : G[j + 1] = h[G[j]]

LEMMA Iteration ==
  ASSUME NEW V, NEW v \in V, NEW h \in [V -> V]
  PROVE  \E G \in [Nat -> V] : Iterates(G, h, v)
<1> DEFINE Chain(k) == {g \in [0 .. k -> V] : g[0] = v /\ \A j \in 1 .. k : g[j] = h[g[j - 1]]}
<1>1. \A k \in Nat : Chain(k) # {}
  <2> DEFINE T == {k \in Nat : Chain(k) # {}}
  <2>1. 0 \in T
    <3>1. [j \in 0 .. 0 |-> v] \in Chain(0)
      OBVIOUS
    <3>2. QED
      BY <3>1
  <2>2. ASSUME NEW k \in Nat, k \in T PROVE k + 1 \in T
    <3>1. PICK g \in Chain(k) : TRUE
      BY <2>2
    <3> DEFINE e == [j \in 0 .. k + 1 |-> IF j = k + 1 THEN h[g[k]] ELSE g[j]]
    <3>2. e \in [0 .. k + 1 -> V] /\ e[0] = v
      BY <3>1
    <3>3. \A j \in 1 .. k + 1 : e[j] = h[e[j - 1]]
      BY <3>1
    <3>4. QED
      BY <3>2, <3>3
  <2> HIDE DEF T
  <2>3. Nat \subseteq T
    BY <2>1, <2>2, Induction DEF T
  <2>4. QED
    BY <2>3 DEF T
<1>2. ASSUME NEW k \in Nat, NEW g \in Chain(k), NEW e \in Chain(k + 1)
      PROVE  e[k] = g[k]
  <2> DEFINE T == {j \in Nat : j <= k => e[j] = g[j]}
  <2>1. 0 \in T
    OBVIOUS
  <2>2. ASSUME NEW j \in Nat, j \in T PROVE j + 1 \in T
    <3> SUFFICES ASSUME j + 1 <= k PROVE e[j + 1] = g[j + 1]
      OBVIOUS
    <3>1. j + 1 \in 1 .. k /\ j + 1 \in 1 .. k + 1 /\ (j + 1) - 1 = j
      OBVIOUS
    <3>2. e[j + 1] = h[e[j]] /\ g[j + 1] = h[g[j]]
      BY <3>1
    <3>3. QED
      BY <2>2, <3>2
  <2> HIDE DEF T
  <2>3. Nat \subseteq T
    BY <2>1, <2>2, Induction DEF T
  <2>4. QED
    BY <2>3 DEF T
<1> DEFINE c == [k \in Nat |-> CHOOSE g \in Chain(k) : TRUE]
<1>3. \A k \in Nat : c[k] \in Chain(k)
  <2> HIDE DEF Chain
  <2>1. QED
    BY <1>1
<1> HIDE DEF c
<1>4. \A k \in Nat : /\ c[k] \in [0 .. k -> V] /\ c[k][0] = v
                     /\ \A j \in 1 .. k : c[k][j] = h[c[k][j - 1]]
  BY <1>3
<1>5. \A k \in Nat : c[k + 1][k] = c[k][k]
  <2> HIDE DEF Chain
  <2>1. QED
    BY <1>2, <1>3
<1>6. \A k \in Nat : c[k + 1][k + 1] = h[c[k + 1][k]]
  <2> SUFFICES ASSUME NEW k \in Nat PROVE c[k + 1][k + 1] = h[c[k + 1][k]]
    OBVIOUS
  <2>1. k + 1 \in Nat /\ k + 1 \in 1 .. k + 1 /\ (k + 1) - 1 = k
    OBVIOUS
  <2>2. QED
    BY <1>4, <2>1
<1> DEFINE G == [k \in Nat |-> c[k][k]]
<1>7. G \in [Nat -> V]
  <2>1. \A k \in Nat : c[k][k] \in V
    BY <1>4
  <2>2. QED
    BY <2>1
<1>8. G[0] = v
  BY <1>4
<1>9. \A j \in Nat : G[j + 1] = h[G[j]]
  BY <1>5, <1>6
<1>10. QED
  BY <1>7, <1>8, <1>9 DEF Iterates

-----------------------------------------------------------------------------
(***************************************************************************)
(* How far hops lead.                                                      *)
(***************************************************************************)
\* One hop further.
Hop(E, S) == {m \in Nodes : \E x \in S : m = x \/ <<x, m>> \in E \/ <<m, x>> \in E}

\* G lists the nodes within 0, 1, 2, ... hops of n.
Hops(G, E, n) == G[0] = {n} /\ \A k \in Nat : G[k + 1] = Hop(E, G[k])

LEMMA WithinIterates ==
  ASSUME NEW E, NEW n \in Nodes
  PROVE  \E G \in [Nat -> SUBSET Nodes] : Hops(G, E, n) /\ \A k \in Nat : Within(E, n, k) = G[k]
<1>1. PICK G \in [Nat -> SUBSET Nodes] : Hops(G, E, n)
  <2>0. PICK V, v : V = SUBSET Nodes /\ v = {n}
    OBVIOUS
  <2>1. v \in V /\ \A S \in V : Hop(E, S) \in V
    BY <2>0 DEF Hop
  <2>2. PICK h \in [V -> V] : \A S \in V : h[S] = Hop(E, S)
    <3>1. [S \in V |-> Hop(E, S)] \in [V -> V]
      BY <2>1
    <3>2. QED
      BY <3>1
  <2>3. PICK G \in [Nat -> V] : Iterates(G, h, v)
    BY <2>1, Iteration
  <2>4. \A k \in Nat : G[k + 1] = Hop(E, G[k])
    BY <2>2, <2>3 DEF Iterates
  <2>5. QED
    BY <2>0, <2>3, <2>4 DEF Iterates, Hops
<1>2. ASSUME NEW k \in Nat PROVE Within(E, n, k) = G[k]
  <2> DEFINE F == [j \in 0 .. k |-> G[j]]
             Solves(w) == w = [j \in 0 .. k |-> IF j = 0 THEN {n} ELSE Hop(E, w[j - 1])]
  <2>1. Solves(F)
    <3>1. \A j \in 0 .. k : j # 0 => G[j] = Hop(E, F[j - 1])
      BY <1>1 DEF Hops
    <3>2. QED
      BY <1>1, <3>1 DEF Hops
  <2>2. PICK w : Solves(w) /\ Within(E, n, k) = w[k]
    <3>1. Within(E, n, k) = (CHOOSE w : Solves(w))[k]
      BY DEF Within, Hop
    <3> HIDE DEF Solves
    <3>2. Solves(CHOOSE w : Solves(w))
      BY <2>1
    <3>3. QED
      BY <3>1, <3>2
  <2> DEFINE T == {j \in Nat : j <= k => w[j] = G[j]}
  <2>3. 0 \in T
    BY <1>1, <2>2 DEF Hops
  <2>4. ASSUME NEW j \in Nat, j \in T PROVE j + 1 \in T
    <3> SUFFICES ASSUME j + 1 <= k PROVE w[j + 1] = G[j + 1]
      OBVIOUS
    <3>1. w[j] = G[j]
      BY <2>4
    <3>2. j + 1 \in 0 .. k /\ j + 1 # 0 /\ (j + 1) - 1 = j
      OBVIOUS
    <3>3. w[j + 1] = Hop(E, w[j])
      BY <2>2, <3>2
    <3>4. QED
      BY <1>1, <3>1, <3>3 DEF Hops
  <2> HIDE DEF T
  <2>5. Nat \subseteq T
    BY <2>3, <2>4, Induction DEF T
  <2>6. QED
    BY <2>2, <2>5 DEF T
<1>3. QED
  BY <1>1, <1>2

LEMMA WithinSteps ==
  ASSUME NEW E, NEW n \in Nodes
  PROVE  /\ Within(E, n, 0) = {n}
         /\ \A k \in Nat : /\ Within(E, n, k) \subseteq Nodes
                           /\ Within(E, n, k + 1) = Hop(E, Within(E, n, k))
<1>1. PICK G \in [Nat -> SUBSET Nodes] : Hops(G, E, n) /\ \A k \in Nat : Within(E, n, k) = G[k]
  BY WithinIterates
<1>2. \A k \in Nat : k + 1 \in Nat
  OBVIOUS
<1>3. QED
  BY <1>1, <1>2 DEF Hops

\* More edges, more nodes; more hops, more nodes.
LEMMA WithinGrows ==
  ASSUME NEW E, NEW F, E \subseteq F, NEW n \in Nodes, NEW k \in Nat
  PROVE  Within(E, n, k) \subseteq Within(F, n, k)
<1> DEFINE T == {j \in Nat : Within(E, n, j) \subseteq Within(F, n, j)}
<1>1. 0 \in T
  BY WithinSteps
<1>2. ASSUME NEW j \in Nat, j \in T PROVE j + 1 \in T
  <2>1. /\ Within(E, n, j + 1) = Hop(E, Within(E, n, j))
        /\ Within(F, n, j + 1) = Hop(F, Within(F, n, j))
    BY WithinSteps
  <2>2. Hop(E, Within(E, n, j)) \subseteq Hop(F, Within(F, n, j))
    BY <1>2 DEF Hop
  <2>3. QED
    BY <2>1, <2>2
<1> HIDE DEF T
<1>3. QED
  BY <1>1, <1>2, Induction DEF T

LEMMA WithinDeeper ==
  ASSUME NEW E, NEW n \in Nodes, NEW k \in Nat, NEW d \in Nat, k <= d
  PROVE  Within(E, n, k) \subseteq Within(E, n, d)
<1> DEFINE T == {j \in Nat : Within(E, n, k) \subseteq Within(E, n, k + j)}
<1>1. 0 \in T
  OBVIOUS
<1>2. ASSUME NEW j \in Nat, j \in T PROVE j + 1 \in T
  <2>1. /\ Within(E, n, (k + j) + 1) = Hop(E, Within(E, n, k + j))
        /\ Within(E, n, k + j) \subseteq Nodes
    <3>1. k + j \in Nat
      OBVIOUS
    <3>2. QED
      BY <3>1, WithinSteps
  <2>2. Within(E, n, k + j) \subseteq Hop(E, Within(E, n, k + j))
    BY <2>1 DEF Hop
  <2>3. (k + j) + 1 = k + (j + 1)
    OBVIOUS
  <2>4. QED
    BY <1>2, <2>1, <2>2, <2>3
<1> HIDE DEF T
<1>3. Nat \subseteq T
  BY <1>1, <1>2, Induction DEF T
<1>4. d - k \in Nat /\ k + (d - k) = d
  OBVIOUS
<1>5. QED
  BY <1>3, <1>4 DEF T

LEMMA NeighboursOf ==
  ASSUME NEW E \in SUBSET (Nodes \X Nodes), NEW S \in SUBSET Nodes
  PROVE  /\ LocalNeighbours(E, S) = {m \in Nodes : \E x \in S : <<x, m>> \in E \/ <<m, x>> \in E}
         /\ Hop(E, S) = S \cup LocalNeighbours(E, S)
<1>1. ASSUME NEW m \in LocalNeighbours(E, S)
      PROVE  m \in Nodes /\ \E x \in S : <<x, m>> \in E \/ <<m, x>> \in E
  <2>1. PICK x \in S, e \in E : (x = e[1] \/ x = e[2]) /\ m = IF e[1] = x THEN e[2] ELSE e[1]
    BY DEF LocalNeighbours
  <2>2. e = <<e[1], e[2]>> /\ e[1] \in Nodes /\ e[2] \in Nodes
    OBVIOUS
  <2>3. QED
    BY <2>1, <2>2
<1>2. ASSUME NEW m \in Nodes, NEW x \in S, <<x, m>> \in E \/ <<m, x>> \in E
      PROVE  m \in LocalNeighbours(E, S)
  <2>1. \E e \in E : (x = e[1] \/ x = e[2]) /\ m = IF e[1] = x THEN e[2] ELSE e[1]
    <3>1. CASE <<x, m>> \in E
      BY <3>1
    <3>2. CASE <<m, x>> \in E
      BY <3>2
    <3>3. QED
      BY <1>2, <3>1, <3>2
  <2>2. QED
    BY <2>1 DEF LocalNeighbours
<1>3. LocalNeighbours(E, S) = {m \in Nodes : \E x \in S : <<x, m>> \in E \/ <<m, x>> \in E}
  BY <1>1, <1>2
<1>4. QED
  BY <1>3 DEF Hop

\* One round of build_local_subgraph.
Round(E, r) == [visited |-> r.visited \cup r.frontier,
                frontier |-> LocalNeighbours(E, r.frontier) \ (r.visited \cup r.frontier)]

\* The extra round of build_local_subgraph visits what the last one found.
LEMMA LocalRoundsAreHops ==
  ASSUME NEW E \in SUBSET (Nodes \X Nodes), NEW n \in Nodes, NEW d \in Nat
  PROVE  LocalRounds(E, n, d) = Within(E, n, d)
<1> DEFINE first == [visited |-> {}, frontier |-> {n}]
<1>1. PICK G : /\ G[0] = first
               /\ \A k \in Nat : /\ G[k] \in [visited : SUBSET Nodes, frontier : SUBSET Nodes]
                                 /\ G[k + 1] = Round(E, G[k])
  <2>0. PICK V, v : V = [visited : SUBSET Nodes, frontier : SUBSET Nodes] /\ v = first
    OBVIOUS
  <2>1. v \in V /\ \A r \in V : Round(E, r) \in V
    <3>1. ASSUME NEW r \in V PROVE Round(E, r) \in V
      <4>1. PICK f : f = r.frontier
        OBVIOUS
      <4>2. r.visited \in SUBSET Nodes /\ f \in SUBSET Nodes
        BY <2>0, <4>1
      <4>3. LocalNeighbours(E, f) \subseteq Nodes
        <5>1. LocalNeighbours(E, f) = {m \in Nodes : \E x \in f : <<x, m>> \in E \/ <<m, x>> \in E}
          BY <4>2, NeighboursOf
        <5>2. QED
          BY <5>1
      <4>4. QED
        BY <2>0, <4>1, <4>2, <4>3 DEF Round
    <3>2. v \in V
      BY <2>0
    <3>3. QED
      BY <3>1, <3>2
  <2>2. PICK h \in [V -> V] : \A r \in V : h[r] = Round(E, r)
    <3>1. [r \in V |-> Round(E, r)] \in [V -> V]
      BY <2>1
    <3>2. QED
      BY <3>1
  <2>3. PICK G \in [Nat -> V] : Iterates(G, h, v)
    BY <2>1, Iteration
  <2>4. \A k \in Nat : G[k] \in V /\ G[k + 1] = Round(E, G[k])
    BY <2>2, <2>3 DEF Iterates
  <2>5. QED
    BY <2>0, <2>3, <2>4 DEF Iterates
<1>2. LocalRounds(E, n, d) = G[d + 1].visited
  <2> DEFINE F == [j \in 0 .. d + 1 |-> G[j]]
             Solves(w) == w = [j \in 0 .. d + 1 |-> IF j = 0 THEN first ELSE Round(E, w[j - 1])]
  <2>1. Solves(F)
    <3>1. ASSUME NEW j \in 0 .. d + 1, j # 0 PROVE G[j] = Round(E, F[j - 1])
      <4>1. j - 1 \in Nat /\ j - 1 \in 0 .. d + 1 /\ (j - 1) + 1 = j
        BY <3>1
      <4>2. QED
        BY <1>1, <4>1
    <3> HIDE DEF first
    <3>2. QED
      BY <1>1, <3>1
  <2>2. PICK w : Solves(w) /\ LocalRounds(E, n, d) = w[d + 1].visited
    <3>1. LocalRounds(E, n, d) = (CHOOSE w : Solves(w))[d + 1].visited
      BY DEF LocalRounds, Round
    <3> HIDE DEF Solves
    <3>2. Solves(CHOOSE w : Solves(w))
      BY <2>1
    <3>3. QED
      BY <3>1, <3>2
  <2> DEFINE T == {j \in Nat : j <= d + 1 => w[j] = G[j]}
  <2> HIDE DEF first
  <2>3. 0 \in T
    BY <1>1, <2>2
  <2>4. ASSUME NEW j \in Nat, j \in T PROVE j + 1 \in T
    <3> SUFFICES ASSUME j + 1 <= d + 1 PROVE w[j + 1] = G[j + 1]
      OBVIOUS
    <3>1. w[j] = G[j]
      BY <2>4
    <3>2. j + 1 \in 0 .. d + 1 /\ j + 1 # 0 /\ (j + 1) - 1 = j
      OBVIOUS
    <3>3. w[j + 1] = Round(E, w[j])
      BY <2>2, <3>2
    <3>4. QED
      BY <1>1, <3>1, <3>3
  <2> HIDE DEF T
  <2>5. d + 1 \in T
    BY <2>3, <2>4, Induction DEF T
  <2>6. QED
    BY <2>2, <2>5 DEF T
\* What is visited has its neighbours visited or in the frontier.
<1> DEFINE OK(k) == /\ G[k].visited \cup G[k].frontier = Within(E, n, k)
                    /\ LocalNeighbours(E, G[k].visited) \subseteq Within(E, n, k)
           T == {k \in Nat : OK(k)}
<1>3. 0 \in T
  <2>1. LocalNeighbours(E, {}) = {}
    BY DEF LocalNeighbours
  <2>2. G[0].visited = {} /\ G[0].frontier = {n} /\ Within(E, n, 0) = {n}
    BY <1>1, WithinSteps
  <2>3. OK(0)
    BY <2>1, <2>2
  <2>4. QED
    BY <2>3
<1>4. ASSUME NEW k \in Nat, k \in T PROVE k + 1 \in T
  <2>1. PICK v, f, N : /\ v = G[k].visited /\ f = G[k].frontier
                       /\ N = Within(E, n, k)
                       /\ v \in SUBSET Nodes /\ f \in SUBSET Nodes
    BY <1>1
  <2>2. v \cup f = N /\ LocalNeighbours(E, v) \subseteq N
    BY <1>4, <2>1
  <2>3. G[k + 1].visited = N /\ G[k + 1].frontier = LocalNeighbours(E, f) \ N
    <3>1. G[k + 1] = [visited |-> v \cup f, frontier |-> LocalNeighbours(E, f) \ (v \cup f)]
      BY <1>1, <2>1 DEF Round
    <3>2. QED
      BY <2>2, <3>1
  <2>4. Within(E, n, k + 1) = N \cup LocalNeighbours(E, N)
    <3>1. Within(E, n, k + 1) = Hop(E, N) /\ N \in SUBSET Nodes
      BY <2>1, WithinSteps
    <3>2. QED
      BY <3>1, NeighboursOf
  <2>5. LocalNeighbours(E, N) = LocalNeighbours(E, v) \cup LocalNeighbours(E, f)
    BY <2>2 DEF LocalNeighbours
  <2>6. OK(k + 1)
    BY <2>2, <2>3, <2>4, <2>5
  <2>7. QED
    BY <2>6
<1> HIDE DEF T, first
<1>5. d \in T
  BY <1>3, <1>4, Induction DEF T
<1>6. G[d + 1].visited = G[d].visited \cup G[d].frontier
  <2>1. G[d + 1] = Round(E, G[d])
    BY <1>1
  <2>2. QED
    BY <2>1 DEF Round
<1>7. QED
  BY <1>2, <1>5, <1>6 DEF T

-----------------------------------------------------------------------------
(***************************************************************************)
(* The extraction.                                                         *)
(***************************************************************************)
Joined(n, m) == <<n, m>> \in edges \/ <<m, n>> \in edges

Records == [id : Nodes, depth : Nat]

LocalsTypeOK == /\ start \in Nodes
                /\ found \in Seq(Records)
                /\ frontier \in Seq(Nodes)
                /\ nextFrontier \in Seq(Nodes)
                /\ round \in Nat
                /\ package = [nodes |-> package.nodes, edges |-> package.edges]
                /\ phase = "none" => frontier = <<>> /\ nextFrontier = <<>> /\ round = 0

\* Every node but the root was found from one that was found before it.
FoundFromNearer ==
  \A i \in 1 .. Len(found) : found[i].depth > 0 =>
    \E j \in 1 .. i - 1 : /\ found[j].depth = found[i].depth - 1
                          /\ Joined(found[j].id, found[i].id)

\* The nodes of a queue were found in the given round.
FoundIn(queue, k) ==
  \A h \in 1 .. Len(queue) :
    \E j \in 1 .. Len(found) : found[j].id = queue[h] /\ found[j].depth = k

LinksAreEdges == phase = "done" => package.edges = Between(edges, Ids(package.nodes))

SearchInv == /\ LocalsTypeOK
             /\ FoundFromNearer
             /\ FoundIn(frontier, round)
             /\ FoundIn(nextFrontier, round + 1)
             /\ LinksAreEdges

-----------------------------------------------------------------------------
Entries(q, d) == [i \in DOMAIN q |-> [id |-> q[i], depth |-> d]]

\* The nodes found in one query, appended with their depth.
LEMMA AppendedEntries ==
  ASSUME NEW f \in Seq(Records), NEW q \in Seq(Nodes), NEW d \in Nat
  PROVE  /\ f \o Entries(q, d) \in Seq(Records)
         /\ Len(f \o Entries(q, d)) = Len(f) + Len(q)
         /\ \A i \in 1 .. Len(f) : (f \o Entries(q, d))[i] = f[i]
         /\ \A i \in 1 .. Len(q) : (f \o Entries(q, d))[Len(f) + i] = [id |-> q[i], depth |-> d]
<1>1. DOMAIN q = 1 .. Len(q) /\ Len(q) \in Nat /\ \A i \in 1 .. Len(q) : q[i] \in Nodes
  BY LenProperties, ElementOfSeq
<1>2. Entries(q, d) \in [1 .. Len(q) -> Records]
  BY <1>1 DEF Entries, Records
<1>3. Entries(q, d) \in Seq(Records) /\ Len(Entries(q, d)) = Len(q)
  BY <1>1, <1>2
<1>4. \A i \in 1 .. Len(q) : Entries(q, d)[i] = [id |-> q[i], depth |-> d]
  BY <1>1 DEF Entries
<1>5. /\ f \o Entries(q, d) \in Seq(Records)
      /\ Len(f \o Entries(q, d)) = Len(f) + Len(Entries(q, d))
      /\ \A i \in 1 .. Len(f) + Len(Entries(q, d)) :
           (f \o Entries(q, d))[i] = IF i <= Len(f) THEN f[i] ELSE Entries(q, d)[i - Len(f)]
  BY <1>3, ConcatProperties, Zenon
<1>6. Len(f) \in Nat
  OBVIOUS
<1>7. \A i \in 1 .. Len(f) : (f \o Entries(q, d))[i] = f[i]
  BY <1>1, <1>3, <1>5, <1>6
<1>8. ASSUME NEW i \in 1 .. Len(q)
      PROVE  (f \o Entries(q, d))[Len(f) + i] = [id |-> q[i], depth |-> d]
  <2>1. /\ Len(f) + i \in 1 .. Len(f) + Len(Entries(q, d))
        /\ ~(Len(f) + i <= Len(f))
        /\ (Len(f) + i) - Len(f) = i
    BY <1>1, <1>3, <1>6
  <2>2. QED
    BY <1>4, <1>5, <2>1
<1>9. QED
  BY <1>3, <1>5, <1>7, <1>8

\* The rows of a query are a sequence of nodes, each once.
LEMMA OrdersAreSequences ==
  ASSUME NEW S \in SUBSET Nodes, NEW q \in Orders(S)
  PROVE  /\ q \in Seq(Nodes) /\ \A i \in 1 .. Len(q) : q[i] \in S
         /\ \A m \in S : \E i \in 1 .. Len(q) : q[i] = m
         /\ \A i, j \in 1 .. Len(q) : q[i] = q[j] => i = j
<1>1. Cardinality(S) \in Nat /\ IsFiniteSet(S)
  BY NodesAssumption, FS_Subset, FS_CardinalityType
<1>2. q \in [1 .. Cardinality(S) -> S] /\ \A m \in S : \E i \in 1 .. Cardinality(S) : q[i] = m
  BY DEF Orders
<1>3. q \in Seq(S) /\ Len(q) = Cardinality(S)
  BY <1>1, <1>2
<1>4. q \in Injection(1 .. Cardinality(S), S)
  <2>1. q \in Surjection(1 .. Cardinality(S), S)
    BY <1>2 DEF Surjection
  <2>2. IsFiniteSet(1 .. Cardinality(S)) /\ Cardinality(1 .. Cardinality(S)) = Cardinality(S)
    BY <1>1, FS_Interval
  <2>3. QED
    BY <2>1, <2>2, FS_Surjection
<1>5. \A i, j \in 1 .. Len(q) : q[i] = q[j] => i = j
  BY <1>2, <1>3, <1>4 DEF Injection, IsInjective
<1>6. q \in Seq(Nodes) /\ \A i \in 1 .. Len(q) : q[i] \in S
  BY <1>3, SeqMonotonic, ElementOfSeq
<1>7. QED
  BY <1>2, <1>3, <1>5, <1>6

LEMMA InitSearchInv == SubgraphInit => SearchInv
<1> SUFFICES ASSUME SubgraphInit PROVE SearchInv
  OBVIOUS
<1>1. /\ found = <<>> /\ frontier = <<>> /\ nextFrontier = <<>> /\ round = 0 /\ phase = "none"
      /\ package = [nodes |-> <<>>, edges |-> {}]
      /\ start \in Nodes
  BY DEF SubgraphInit, Init
<1>2. LocalsTypeOK
  BY <1>1 DEF LocalsTypeOK
<1>3. QED
  BY <1>1, <1>2 DEF SearchInv, FoundFromNearer, FoundIn, LinksAreEdges

LEMMA ExtractSearchInv ==
  ASSUME SearchInv, NEW d \in Depths, Extract(d) PROVE SearchInv'
<1>1. /\ found' = <<[id |-> start, depth |-> 0]>> /\ frontier' = <<start>> /\ phase' = "expand"
      /\ nextFrontier' = <<>> /\ round' = 0 /\ start' = start /\ package' = package
  BY DEF Extract, Clamp, SearchInv, LocalsTypeOK
<1>2. start \in Nodes
  BY DEF SearchInv, LocalsTypeOK
<1>3. LocalsTypeOK'
  BY <1>1, <1>2 DEF SearchInv, LocalsTypeOK, Records
<1>4. FoundFromNearer'
  BY <1>1 DEF FoundFromNearer
<1>5. FoundIn(frontier, round)' /\ FoundIn(nextFrontier, round + 1)'
  BY <1>1 DEF FoundIn
<1>6. QED
  BY <1>1, <1>3, <1>4, <1>5 DEF SearchInv, LinksAreEdges

\* What a query adds.
LEMMA LookAdds ==
  ASSUME LocalsTypeOK, Look
  PROVE  \E q \in Seq(Nodes) :
           /\ \A i \in 1 .. Len(q) : q[i] \in Adjacent(edges, Head(frontier)) \ Ids(found)
           /\ \A m \in Adjacent(edges, Head(frontier)) \ Ids(found) : \E i \in 1 .. Len(q) : q[i] = m
           /\ \A i, j \in 1 .. Len(q) : q[i] = q[j] => i = j
           /\ nextFrontier' = nextFrontier \o q
           /\ found' \in Seq(Records)
           /\ Len(found') = Len(found) + Len(q)
           /\ \A i \in 1 .. Len(found) : found'[i] = found[i]
           /\ \A i \in 1 .. Len(q) : found'[Len(found) + i] = [id |-> q[i], depth |-> round + 1]
<1> DEFINE S == Adjacent(edges, Head(frontier)) \ Ids(found)
<1>1. PICK q \in Orders(S) : /\ found' = found \o Entries(q, round + 1)
                             /\ nextFrontier' = nextFrontier \o q
  BY DEF Look, Entries
<1>2. /\ q \in Seq(Nodes) /\ \A i \in 1 .. Len(q) : q[i] \in S
      /\ \A m \in S : \E i \in 1 .. Len(q) : q[i] = m
      /\ \A i, j \in 1 .. Len(q) : q[i] = q[j] => i = j
  <2>1. S \in SUBSET Nodes
    BY DEF Adjacent
  <2> HIDE DEF S
  <2>2. QED
    BY <2>1, OrdersAreSequences
<1>3. /\ found' \in Seq(Records)
      /\ Len(found') = Len(found) + Len(q)
      /\ \A i \in 1 .. Len(found) : found'[i] = found[i]
      /\ \A i \in 1 .. Len(q) : found'[Len(found) + i] = [id |-> q[i], depth |-> round + 1]
  <2>1. found \in Seq(Records) /\ round + 1 \in Nat /\ q \in Seq(Nodes)
    BY <1>2 DEF LocalsTypeOK
  <2> DEFINE g == found \o Entries(q, round + 1)
  <2>2. /\ g \in Seq(Records)
        /\ Len(g) = Len(found) + Len(q)
        /\ \A i \in 1 .. Len(found) : g[i] = found[i]
        /\ \A i \in 1 .. Len(q) : g[Len(found) + i] = [id |-> q[i], depth |-> round + 1]
    BY <2>1, AppendedEntries, Zenon
  <2> HIDE DEF g
  <2>3. found' = g
    BY <1>1 DEF g
  <2>4. QED
    BY <2>2, <2>3, Zenon
<1>4. QED
  BY <1>1, <1>2, <1>3

LEMMA LookSearchInv == ASSUME SearchInv, Look PROVE SearchInv'
<1> DEFINE n == Head(frontier)
           S == Adjacent(edges, n) \ Ids(found)
<1>1. PICK q \in Seq(Nodes) :
        /\ \A i \in 1 .. Len(q) : q[i] \in S
        /\ nextFrontier' = nextFrontier \o q
        /\ found' \in Seq(Records)
        /\ Len(found') = Len(found) + Len(q)
        /\ \A i \in 1 .. Len(found) : found'[i] = found[i]
        /\ \A i \in 1 .. Len(q) : found'[Len(found) + i] = [id |-> q[i], depth |-> round + 1]
  BY LookAdds DEF SearchInv
<1>2. /\ phase = "expand" /\ phase' = "expand"
      /\ frontier # <<>> /\ frontier' = Tail(frontier)
      /\ UNCHANGED <<start, edges, round, package>>
  BY DEF Look, vars
<1>3. LocalsTypeOK
  BY DEF SearchInv
<1>4. q \in Seq(Nodes) /\ \A i \in 1 .. Len(q) : q[i] \in S
  BY <1>1
<1>5. /\ found' \in Seq(Records)
      /\ Len(found') = Len(found) + Len(q)
      /\ \A i \in 1 .. Len(found) : found'[i] = found[i]
      /\ \A i \in 1 .. Len(q) : found'[Len(found) + i] = [id |-> q[i], depth |-> round + 1]
  BY <1>1
<1>6. Len(found) \in Nat /\ Len(q) \in Nat /\ Len(frontier) \in Nat /\ Len(nextFrontier) \in Nat
  BY <1>3, <1>4, LenProperties DEF LocalsTypeOK
<1>7. LocalsTypeOK'
  BY <1>1, <1>2, <1>3, <1>4, <1>5, ConcatProperties, HeadTailProperties DEF LocalsTypeOK
<1>8. FoundFromNearer'
  <2>1. PICK h \in 1 .. Len(found) : found[h].id = n /\ found[h].depth = round
    <3>1. 1 \in 1 .. Len(frontier) /\ frontier[1] = n
      BY <1>2, <1>3, <1>6, EmptySeq DEF LocalsTypeOK
    <3>2. QED
      BY <3>1 DEF SearchInv, FoundIn
  <2> SUFFICES ASSUME NEW i \in 1 .. Len(found'), found'[i].depth > 0
               PROVE  \E j \in 1 .. i - 1 : /\ found'[j].depth = found'[i].depth - 1
                                            /\ \/ <<found'[j].id, found'[i].id>> \in edges'
                                               \/ <<found'[i].id, found'[j].id>> \in edges'
    BY DEF FoundFromNearer, Joined
  <2>2. CASE i <= Len(found)
    <3>1. PICK j \in 1 .. i - 1 : /\ found[j].depth = found[i].depth - 1
                                  /\ Joined(found[j].id, found[i].id)
      BY <1>5, <1>6, <2>2 DEF SearchInv, FoundFromNearer
    <3>2. j \in 1 .. Len(found) /\ i \in 1 .. Len(found)
      BY <1>5, <1>6, <2>2
    <3>3. QED
      BY <1>2, <1>5, <3>1, <3>2 DEF Joined
  <2>3. CASE i > Len(found)
    <3>1. PICK k \in 1 .. Len(q) : i = Len(found) + k
      <4>1. i - Len(found) \in 1 .. Len(q) /\ i = Len(found) + (i - Len(found))
        BY <1>5, <1>6, <2>3
      <4>2. QED
        BY <4>1
    <3>2. found'[i].id = q[k] /\ found'[i].depth = round + 1
      <4>1. found'[i] = [id |-> q[k], depth |-> round + 1]
        BY <1>5, <3>1, Zenon
      <4>2. QED
        BY <4>1
    <3>3. <<n, q[k]>> \in edges \/ <<q[k], n>> \in edges
      BY <1>4 DEF Adjacent
    <3>4. h \in 1 .. i - 1 /\ found'[h] = found[h]
      BY <1>5, <1>6, <2>3
    <3>5. found'[h].depth = found'[i].depth - 1
      BY <1>3, <2>1, <3>2, <3>4 DEF LocalsTypeOK
    <3>6. QED
      BY <1>2, <2>1, <3>2, <3>3, <3>4, <3>5 DEF Joined
  <2>4. i <= Len(found) \/ i > Len(found)
    BY <1>5, <1>6
  <2>5. QED
    BY <2>2, <2>3, <2>4, Zenon
<1>9. FoundIn(frontier, round)'
  <2> SUFFICES ASSUME NEW h \in 1 .. Len(Tail(frontier))
               PROVE  \E j \in 1 .. Len(found') : found'[j].id = Tail(frontier)[h] /\ found'[j].depth = round
    BY <1>2 DEF FoundIn
  <2>1. h + 1 \in 1 .. Len(frontier) /\ Tail(frontier)[h] = frontier[h + 1]
    BY <1>2, <1>3, <1>6 DEF LocalsTypeOK
  <2>2. PICK j \in 1 .. Len(found) : found[j].id = frontier[h + 1] /\ found[j].depth = round
    BY <2>1 DEF SearchInv, FoundIn
  <2>3. QED
    BY <1>5, <1>6, <2>1, <2>2
<1>10. FoundIn(nextFrontier, round + 1)'
  <2> SUFFICES ASSUME NEW h \in 1 .. Len(nextFrontier \o q)
               PROVE  \E j \in 1 .. Len(found') : /\ found'[j].id = (nextFrontier \o q)[h]
                                                  /\ found'[j].depth = round + 1
    BY <1>1, <1>2 DEF FoundIn
  <2>1. /\ Len(nextFrontier \o q) = Len(nextFrontier) + Len(q)
        /\ (nextFrontier \o q)[h] = IF h <= Len(nextFrontier) THEN nextFrontier[h] ELSE q[h - Len(nextFrontier)]
    BY <1>3, <1>4, ConcatProperties DEF LocalsTypeOK
  <2>2. CASE h <= Len(nextFrontier)
    <3>1. PICK j \in 1 .. Len(found) : found[j].id = nextFrontier[h] /\ found[j].depth = round + 1
      <4>1. h \in 1 .. Len(nextFrontier)
        BY <1>6, <2>1, <2>2
      <4>2. QED
        BY <4>1 DEF SearchInv, FoundIn
    <3>2. QED
      BY <1>5, <1>6, <2>1, <2>2, <3>1
  <2>3. CASE h > Len(nextFrontier)
    <3>1. h - Len(nextFrontier) \in 1 .. Len(q)
      BY <1>6, <2>1, <2>3
    <3>2. Len(found) + (h - Len(nextFrontier)) \in 1 .. Len(found')
      BY <1>5, <1>6, <3>1
    <3>3. found'[Len(found) + (h - Len(nextFrontier))] = [id |-> q[h - Len(nextFrontier)], depth |-> round + 1]
      BY <1>5, <3>1
    <3>4. (nextFrontier \o q)[h] = q[h - Len(nextFrontier)]
      BY <1>6, <2>1, <2>3
    <3>5. /\ found'[Len(found) + (h - Len(nextFrontier))].id = (nextFrontier \o q)[h]
          /\ found'[Len(found) + (h - Len(nextFrontier))].depth = round + 1
      BY <3>3, <3>4
    <3>6. QED
      BY <3>2, <3>5, Zenon
  <2>4. QED
    BY <1>6, <2>1, <2>2, <2>3
<1>11. QED
  BY <1>2, <1>7, <1>8, <1>9, <1>10 DEF SearchInv, LinksAreEdges

LEMMA DeepenSearchInv == ASSUME SearchInv, Deepen PROVE SearchInv'
<1>1. /\ phase = "expand" /\ phase' = "expand"
      /\ frontier' = nextFrontier /\ nextFrontier' = <<>> /\ round' = round + 1
      /\ UNCHANGED <<start, edges, found, package>>
  BY DEF Deepen, vars
<1>2. LocalsTypeOK'
  BY <1>1 DEF SearchInv, LocalsTypeOK
<1>3. FoundFromNearer'
  BY <1>1 DEF SearchInv, FoundFromNearer, Joined
<1>4. FoundIn(frontier, round)' /\ FoundIn(nextFrontier, round + 1)'
  BY <1>1 DEF SearchInv, FoundIn
<1>5. QED
  BY <1>1, <1>2, <1>3, <1>4 DEF SearchInv, LinksAreEdges

\* The package is made; the search is over.
LEMMA PackageSearchInv ==
  ASSUME SearchInv, Link \/ \E archived \in SUBSET Nodes : Fetch(archived) PROVE SearchInv'
<1>1. /\ phase # "none" /\ phase' \in {"link", "done"}
      /\ UNCHANGED <<start, edges, found, frontier, nextFrontier, round>>
  BY DEF Link, Fetch, vars
<1>2. package' = [nodes |-> package'.nodes, edges |-> package'.edges]
  <2>1. CASE Link
    BY <2>1 DEF Link, SearchInv, LocalsTypeOK
  <2>2. CASE \E archived \in SUBSET Nodes : Fetch(archived)
    BY <2>2 DEF Fetch
  <2>3. QED
    BY <2>1, <2>2
<1>3. LinksAreEdges'
  <2>1. CASE Link
    <3>1. /\ package'.nodes = package.nodes
          /\ package'.edges = Between(edges, Ids(package.nodes))
      BY <2>1 DEF Link, SearchInv, LocalsTypeOK
    <3>2. QED
      BY <1>1, <3>1 DEF LinksAreEdges, Between, Ids
  <2>2. CASE \E archived \in SUBSET Nodes : Fetch(archived)
    BY <2>2 DEF Fetch, LinksAreEdges
  <2>3. QED
    BY <2>1, <2>2
<1>4. LocalsTypeOK'
  BY <1>1, <1>2 DEF SearchInv, LocalsTypeOK
<1>5. FoundFromNearer' /\ FoundIn(frontier, round)' /\ FoundIn(nextFrontier, round + 1)'
  BY <1>1 DEF SearchInv, FoundFromNearer, FoundIn, Joined
<1>6. QED
  BY <1>3, <1>4, <1>5 DEF SearchInv

LEMMA InsertSearchInv == ASSUME SearchInv, NEW e, InsertEdge(e) PROVE SearchInv'
<1>1. /\ phase \in {"expand", "link"} /\ edges' = edges \cup {e}
      /\ UNCHANGED <<start, phase, found, frontier, nextFrontier, round, package>>
  BY DEF InsertEdge, extraction, vars
<1>2. LocalsTypeOK'
  BY <1>1 DEF SearchInv, LocalsTypeOK
<1>3. FoundFromNearer'
  BY <1>1 DEF SearchInv, FoundFromNearer, Joined
<1>4. FoundIn(frontier, round)' /\ FoundIn(nextFrontier, round + 1)'
  BY <1>1 DEF SearchInv, FoundIn
<1>5. QED
  BY <1>1, <1>2, <1>3, <1>4 DEF SearchInv, LinksAreEdges

\* The cycle search before, and steps that change nothing.
LEMMA OtherSearchInv ==
  ASSUME SearchInv, UNCHANGED <<edges, extraction>>, start' = start PROVE SearchInv'
<1>1. UNCHANGED <<start, edges, phase, found, frontier, nextFrontier, round, package>>
  BY DEF extraction
<1>2. QED
  <2>1. LocalsTypeOK'
    BY <1>1 DEF SearchInv, LocalsTypeOK
  <2>2. FoundFromNearer' /\ FoundIn(frontier, round)' /\ FoundIn(nextFrontier, round + 1)'
    BY <1>1 DEF SearchInv, FoundFromNearer, FoundIn, Joined
  <2>3. LinksAreEdges'
    BY <1>1 DEF SearchInv, LinksAreEdges, Between, Ids
  <2>4. QED
    BY <2>1, <2>2, <2>3 DEF SearchInv

LEMMA NextSearchInv == SearchInv /\ [SubgraphNext]_subgraphVars => SearchInv'
<1> SUFFICES ASSUME SearchInv, [SubgraphNext]_subgraphVars PROVE SearchInv'
  OBVIOUS
<1>1. CASE Next /\ UNCHANGED <<edges, extraction>>
  <2>1. start' = start
    BY <1>1 DEF Next, Skip, Visit, ScanEnd, Exhausted, Close, Push
  <2>2. QED
    BY <1>1, <2>1, OtherSearchInv
<1>2. CASE \E d \in Depths : Extract(d)
  BY <1>2, ExtractSearchInv
<1>3. CASE Look
  BY <1>3, LookSearchInv
<1>4. CASE Deepen
  BY <1>4, DeepenSearchInv
<1>5. CASE Link \/ \E archived \in SUBSET Nodes : Fetch(archived)
  BY <1>5, PackageSearchInv
<1>6. CASE \E e \in Nodes \X Nodes : InsertEdge(e)
  BY <1>6, InsertSearchInv
<1>7. CASE UNCHANGED subgraphVars
  BY <1>7, OtherSearchInv DEF subgraphVars, vars
<1>8. QED
  BY <1>1, <1>2, <1>3, <1>4, <1>5, <1>6, <1>7 DEF SubgraphNext, Traverse

-----------------------------------------------------------------------------
LEMMA SearchInvDrawn == SearchInv => DrawnConnected
<1> SUFFICES ASSUME SearchInv, phase = "done", package.nodes = found,
                    NEW max \in 1 .. Len(found),
                    NEW k \in DOMAIN Rendered(max).nodes,
                    Rendered(max).nodes[k].depth > 0
             PROVE  \E i \in DOMAIN Rendered(max).nodes :
                      /\ Rendered(max).nodes[i].depth = Rendered(max).nodes[k].depth - 1
                      /\ \/ <<Rendered(max).nodes[i].id, Rendered(max).nodes[k].id>> \in Rendered(max).edges
                         \/ <<Rendered(max).nodes[k].id, Rendered(max).nodes[i].id>> \in Rendered(max).edges
  BY DEF DrawnConnected
<1> DEFINE drawn == SubSeq(found, 1, max)
<1>1. found \in Seq(Records) /\ Len(found) \in Nat
  BY LenProperties DEF SearchInv, LocalsTypeOK
<1>2. Rendered(max) = [nodes |-> drawn, edges |-> Between(package.edges, Ids(drawn))]
  BY <1>1 DEF Rendered
<1>3. DOMAIN drawn = 1 .. max /\ \A i \in 1 .. max : drawn[i] = found[i]
  BY <1>1
<1>4. PICK j \in 1 .. k - 1 : found[j].depth = found[k].depth - 1 /\ Joined(found[j].id, found[k].id)
  BY <1>1, <1>2, <1>3 DEF SearchInv, FoundFromNearer
<1>5. j \in 1 .. max /\ k \in 1 .. max /\ j \in 1 .. Len(found) /\ k \in 1 .. Len(found)
  BY <1>1, <1>2, <1>3, <1>4
<1>6. {found[j].id, found[k].id} \subseteq Ids(drawn)
  BY <1>1, <1>3, <1>5 DEF Ids
<1>7. {found[j].id, found[k].id} \subseteq Ids(package.nodes)
  BY <1>5 DEF Ids
<1>8. \A e \in edges : e[1] \in {found[j].id, found[k].id} /\ e[2] \in {found[j].id, found[k].id}
                         => e \in Between(package.edges, Ids(drawn))
  BY <1>6, <1>7 DEF SearchInv, LinksAreEdges, Between
<1>9. \/ <<found[j].id, found[k].id>> \in Between(package.edges, Ids(drawn))
      \/ <<found[k].id, found[j].id>> \in Between(package.edges, Ids(drawn))
  BY <1>4, <1>8 DEF Joined
<1> HIDE DEF drawn
<1>10. /\ Rendered(max).nodes = drawn
       /\ Rendered(max).edges = Between(package.edges, Ids(drawn))
  BY <1>2
<1>11. j \in DOMAIN drawn /\ drawn[j] = found[j] /\ drawn[k] = found[k]
  BY <1>3, <1>5 DEF drawn
<1>12. QED
  BY <1>4, <1>9, <1>10, <1>11, Zenon

\* However few nodes of a complete package are drawn, each but the root is
\* joined to a drawn node that is nearer to the root: on any finite graph, for
\* any depth, with any number of edges inserted during the extraction.
THEOREM DrawingHangsTogether == SubgraphSpec => []DrawnConnected
<1>1. QED
  BY InitSearchInv, NextSearchInv, SearchInvDrawn, PTL DEF SubgraphSpec

-----------------------------------------------------------------------------
(***************************************************************************)
(* What is found: everything within the depth, none of it too far away.    *)
(***************************************************************************)
Queued(queue) == {queue[h] : h \in 1 .. Len(queue)}

\* m was found, at a depth of at most d.
FoundBy(m, d) == \E i \in 1 .. Len(found) : found[i].id = m /\ found[i].depth <= d

\* So was everything that was within k hops when the search began.
NearFound(k) == \A m \in Within(adjacency, start, k) : FoundBy(m, k)

\* Nothing was found that is out of reach by now, and nothing twice.
FoundInReach ==
  \A i \in 1 .. Len(found) : /\ found[i].id \in Within(edges, start, found[i].depth)
                             /\ found[i].depth <= depth
                             /\ found[i].depth <= round + 1

FoundOnce == \A i, j \in 1 .. Len(found) : found[i].id = found[j].id => i = j

\* A node has its neighbours found, or it still has its turn.
Expanded ==
  \A i \in 1 .. Len(found) : found[i].depth <= round =>
    \/ found[i].id \in Queued(frontier)
    \/ \A m \in Adjacent(adjacency, found[i].id) : FoundBy(m, found[i].depth + 1)

Waiting ==
  \A i \in 1 .. Len(found) : found[i].depth = round + 1 => found[i].id \in Queued(nextFrontier)

CoverInv == /\ adjacency \subseteq edges
            /\ edges \subseteq Nodes \X Nodes
            /\ depth \in Nat
            /\ phase # "none" => FoundInReach /\ FoundOnce
            /\ phase = "expand" => /\ Expanded
                                   /\ Waiting
                                   /\ \A k \in 0 .. round : NearFound(k)
            /\ phase \in {"link", "done"} => \A k \in 0 .. depth : NearFound(k)

LEMMA DepthsAreNumbers ==
  ASSUME LocalsTypeOK
  PROVE  /\ DOMAIN found = 1 .. Len(found) /\ Len(found) \in Nat
         /\ \A i \in 1 .. Len(found) : found[i].depth \in Nat
<1>1. found \in Seq(Records)
  BY DEF LocalsTypeOK
<1>2. DOMAIN found = 1 .. Len(found) /\ Len(found) \in Nat
  BY <1>1, LenProperties
<1>3. ASSUME NEW i \in 1 .. Len(found) PROVE found[i].depth \in Nat
  <2>1. found[i] \in Records
    BY <1>1, ElementOfSeq
  <2>2. QED
    BY <2>1 DEF Records
<1>4. QED
  BY <1>2, <1>3

LEMMA InitCoverInv == SubgraphInit => CoverInv
BY DEF SubgraphInit, Init, CoverInv

LEMMA ExtractCoverInv ==
  ASSUME SearchInv, CoverInv, NEW d \in Depths, Extract(d) PROVE CoverInv'
<1>1. /\ found' = <<[id |-> start, depth |-> 0]>> /\ frontier' = <<start>> /\ phase' = "expand"
      /\ nextFrontier' = <<>> /\ round' = 0
      /\ UNCHANGED <<start, adjacency, edges>>
      /\ depth' \in Nat /\ start \in Nodes
  BY DepthAssumption DEF DepthAssumption, Extract, Clamp, SearchInv, LocalsTypeOK
<1>2. Within(edges, start, 0) = {start} /\ Within(adjacency, start, 0) = {start}
  BY <1>1, WithinSteps
<1>3. Len(found') = 1 /\ found'[1].id = start /\ found'[1].depth = 0
  BY <1>1
<1>4. FoundInReach' /\ FoundOnce'
  BY <1>1, <1>2, <1>3 DEF FoundInReach, FoundOnce
<1>5. Expanded'
  <2>1. start \in Queued(frontier)'
    BY <1>1 DEF Queued
  <2>2. QED
    BY <1>3, <2>1 DEF Expanded
<1>6. Waiting'
  BY <1>1, <1>3 DEF Waiting
<1>7. NearFound(0)'
  BY <1>1, <1>2, <1>3 DEF NearFound, FoundBy
<1>8. QED
  BY <1>1, <1>4, <1>5, <1>6, <1>7 DEF CoverInv

LEMMA LookCoverInv == ASSUME SearchInv, CoverInv, Look PROVE CoverInv'
<1>0. PICK n : n = Head(frontier)
  OBVIOUS
<1>1. /\ phase = "expand" /\ phase' = "expand" /\ round < depth
      /\ frontier # <<>> /\ frontier' = Tail(frontier)
      /\ UNCHANGED <<start, adjacency, edges, round, depth>>
  BY DEF Look, vars
<1>2. /\ start \in Nodes /\ found \in Seq(Records) /\ frontier \in Seq(Nodes)
      /\ nextFrontier \in Seq(Nodes) /\ round \in Nat /\ depth \in Nat
      /\ Len(found) \in Nat /\ Len(frontier) \in Nat /\ Len(nextFrontier) \in Nat
      /\ FoundInReach /\ FoundOnce /\ Expanded /\ Waiting
      /\ adjacency \subseteq edges
  BY <1>1, LenProperties DEF SearchInv, LocalsTypeOK, CoverInv
<1>3. PICK q \in Seq(Nodes) :
        /\ \A i \in 1 .. Len(q) : q[i] \in Adjacent(edges, n) \ Ids(found)
        /\ \A m \in Adjacent(edges, n) \ Ids(found) : \E i \in 1 .. Len(q) : q[i] = m
        /\ \A i, j \in 1 .. Len(q) : q[i] = q[j] => i = j
        /\ nextFrontier' = nextFrontier \o q
        /\ found' \in Seq(Records)
        /\ Len(found') = Len(found) + Len(q)
        /\ \A i \in 1 .. Len(found) : found'[i] = found[i]
        /\ \A i \in 1 .. Len(q) : found'[Len(found) + i] = [id |-> q[i], depth |-> round + 1]
  BY <1>0, LookAdds DEF SearchInv
<1>4. Len(q) \in Nat
  BY LenProperties
\* An entry of found' was there or is new.
<1>5. ASSUME NEW i \in 1 .. Len(found')
      PROVE  \/ i \in 1 .. Len(found) /\ found'[i] = found[i]
             \/ \E k \in 1 .. Len(q) : /\ i = Len(found) + k
                                       /\ found'[i].id = q[k] /\ found'[i].depth = round + 1
  <2>1. CASE i <= Len(found)
    BY <1>2, <1>3, <1>4, <2>1
  <2>2. CASE i > Len(found)
    <3>1. i - Len(found) \in 1 .. Len(q) /\ i = Len(found) + (i - Len(found))
      BY <1>2, <1>3, <1>4, <2>2
    <3>2. found'[i] = [id |-> q[i - Len(found)], depth |-> round + 1]
      BY <1>3, <3>1
    <3>3. QED
      BY <3>1, <3>2
  <2>3. QED
    BY <1>2, <1>3, <1>4, <2>1, <2>2
<1>6. ASSUME NEW k \in 1 .. Len(q)
      PROVE  /\ Len(found) + k \in 1 .. Len(found')
             /\ found'[Len(found) + k].id = q[k] /\ found'[Len(found) + k].depth = round + 1
  <2>1. Len(found) + k \in 1 .. Len(found')
    BY <1>2, <1>3, <1>4
  <2>2. found'[Len(found) + k] = [id |-> q[k], depth |-> round + 1]
    BY <1>3
  <2>3. QED
    BY <2>1, <2>2
<1>7. \A i \in 1 .. Len(found) : i \in 1 .. Len(found') /\ found'[i] = found[i]
  BY <1>2, <1>3, <1>4
<1>8. ASSUME NEW m, NEW d, FoundBy(m, d) PROVE FoundBy(m, d)'
  BY <1>7, <1>8 DEF FoundBy
\* The node that has its turn was found in this round.
<1>9. PICK h \in 1 .. Len(found) : found[h].id = n /\ found[h].depth = round
  <2>1. 1 \in 1 .. Len(frontier) /\ frontier[1] = n
    BY <1>0, <1>1, <1>2, EmptySeq
  <2>2. QED
    BY <2>1 DEF SearchInv, FoundIn
<1>10. \A i \in 1 .. Len(found) : found[i].id = n => found[i].depth = round
  BY <1>2, <1>9 DEF FoundOnce
\* Its neighbours are found now.
<1>11. ASSUME NEW m \in Adjacent(edges, n) PROVE FoundBy(m, round + 1)'
  <2>1. CASE m \in Ids(found)
    <3>1. PICK i \in 1 .. Len(found) : found[i].id = m
      BY <2>1 DEF Ids
    <3>2. found[i].depth <= round + 1
      BY <1>2 DEF FoundInReach
    <3>3. FoundBy(m, round + 1)
      BY <3>1, <3>2 DEF FoundBy
    <3>4. QED
      BY <1>1, <1>8, <3>3
  <2>2. CASE m \notin Ids(found)
    <3>1. PICK k \in 1 .. Len(q) : q[k] = m
      BY <1>3, <2>2
    <3>2. round + 1 <= round + 1
      BY <1>2
    <3>3. QED
      BY <1>1, <1>6, <3>1, <3>2 DEF FoundBy
  <2>3. QED
    BY <2>1, <2>2
<1>12. FoundInReach'
  <2>1. \A k \in 1 .. Len(q) : q[k] \in Within(edges, start, round + 1)
    <3>1. n \in Within(edges, start, round)
      BY <1>2, <1>9 DEF FoundInReach
    <3>2. Within(edges, start, round + 1) = Hop(edges, Within(edges, start, round))
      BY <1>2, WithinSteps
    <3>3. QED
      BY <1>3, <3>1, <3>2 DEF Adjacent, Hop
  <2> SUFFICES ASSUME NEW i \in 1 .. Len(found')
               PROVE  /\ found'[i].id \in Within(edges, start, found'[i].depth)
                      /\ found'[i].depth <= depth /\ found'[i].depth <= round + 1
    BY <1>1 DEF FoundInReach
  <2>2. CASE i \in 1 .. Len(found) /\ found'[i] = found[i]
    BY <1>2, <2>2 DEF FoundInReach
  <2>3. CASE \E k \in 1 .. Len(q) : found'[i].id = q[k] /\ found'[i].depth = round + 1
    <3>1. found'[i].id \in Within(edges, start, found'[i].depth)
      BY <2>1, <2>3
    <3>2. found'[i].depth = round + 1 /\ round + 1 <= depth /\ round + 1 <= round + 1
      BY <1>1, <1>2, <2>3
    <3>3. QED
      BY <3>1, <3>2
  <2>4. QED
    BY <1>5, <2>2, <2>3
<1>13. FoundOnce'
  <2> SUFFICES ASSUME NEW i \in 1 .. Len(found'), NEW j \in 1 .. Len(found'),
                      found'[i].id = found'[j].id
               PROVE  i = j
    BY DEF FoundOnce
  <2>1. \A x \in 1 .. Len(found), k \in 1 .. Len(q) : found[x].id # q[k]
    BY <1>3 DEF Ids
  <2>2. CASE i \in 1 .. Len(found) /\ found'[i] = found[i]
    <3>1. j \in 1 .. Len(found) /\ found'[j] = found[j]
      BY <1>5, <2>1, <2>2
    <3>2. QED
      BY <1>2, <2>2, <3>1 DEF FoundOnce
  <2>3. CASE \E k \in 1 .. Len(q) : i = Len(found) + k /\ found'[i].id = q[k]
    <3>1. \E k \in 1 .. Len(q) : j = Len(found) + k /\ found'[j].id = q[k]
      BY <1>5, <2>1, <2>3
    <3>2. QED
      BY <1>3, <2>3, <3>1
  <2>4. QED
    BY <1>5, <2>2, <2>3
<1>14. Expanded'
  <2> SUFFICES ASSUME NEW i \in 1 .. Len(found'), found'[i].depth <= round,
                      found'[i].id \notin Queued(Tail(frontier)),
                      NEW m \in Adjacent(adjacency, found'[i].id),
                      NEW d, d = found'[i].depth
               PROVE  FoundBy(m, d + 1)'
    BY <1>1 DEF Expanded, FoundBy
  <2>1. i \in 1 .. Len(found) /\ found'[i] = found[i]
    <3>1. ~(round + 1 <= round)
      BY <1>2
    <3>2. QED
      BY <1>5, <3>1
  <2>2. CASE found[i].id = n
    <3>1. m \in Adjacent(edges, n)
      BY <1>2, <2>1, <2>2 DEF Adjacent
    <3>2. d = round
      BY <1>10, <2>1, <2>2
    <3>3. QED
      BY <1>1, <1>11, <3>1, <3>2 DEF FoundBy
  <2>3. CASE found[i].id # n
    <3>1. found[i].id \notin Queued(frontier)
      <4> SUFFICES ASSUME NEW x \in 1 .. Len(frontier), frontier[x] = found[i].id PROVE FALSE
        BY DEF Queued
      <4>1. x # 1
        BY <1>0, <1>1, <1>2, <2>3, EmptySeq
      <4>2. x - 1 \in 1 .. Len(Tail(frontier)) /\ Tail(frontier)[x - 1] = frontier[x]
        BY <1>1, <1>2, <4>1
      <4>3. QED
        BY <2>1, <4>2 DEF Queued
    <3>2. FoundBy(m, d + 1)
      BY <1>2, <2>1, <3>1 DEF Expanded
    <3>3. QED
      BY <1>8, <3>2
  <2>4. QED
    BY <2>2, <2>3
<1>15. Waiting'
  <2>1. /\ Len(nextFrontier \o q) = Len(nextFrontier) + Len(q)
        /\ \A x \in 1 .. Len(nextFrontier) + Len(q) :
             (nextFrontier \o q)[x] = IF x <= Len(nextFrontier) THEN nextFrontier[x]
                                      ELSE q[x - Len(nextFrontier)]
    BY <1>2, ConcatProperties
  <2>2. Queued(nextFrontier) \subseteq Queued(nextFrontier')
    BY <1>2, <1>3, <1>4, <2>1 DEF Queued
  <2>3. ASSUME NEW k \in 1 .. Len(q) PROVE q[k] \in Queued(nextFrontier')
    <3>1. /\ Len(nextFrontier) + k \in 1 .. Len(nextFrontier) + Len(q)
          /\ ~(Len(nextFrontier) + k <= Len(nextFrontier))
          /\ (Len(nextFrontier) + k) - Len(nextFrontier) = k
      BY <1>2, <1>4
    <3>2. (nextFrontier \o q)[Len(nextFrontier) + k] = q[k]
      BY <2>1, <3>1
    <3>3. QED
      BY <1>3, <2>1, <3>1, <3>2 DEF Queued
  <2> SUFFICES ASSUME NEW i \in 1 .. Len(found'), found'[i].depth = round + 1
               PROVE  found'[i].id \in Queued(nextFrontier')
    BY <1>1 DEF Waiting, Queued
  <2>4. CASE i \in 1 .. Len(found) /\ found'[i] = found[i]
    BY <1>2, <2>2, <2>4 DEF Waiting
  <2>5. CASE \E k \in 1 .. Len(q) : found'[i].id = q[k]
    BY <2>3, <2>5
  <2>6. QED
    BY <1>5, <2>4, <2>5
<1>16. \A k \in 0 .. round : NearFound(k)'
  <2> SUFFICES ASSUME NEW k \in 0 .. round, NEW m \in Within(adjacency, start, k)
               PROVE  FoundBy(m, k)'
    BY <1>1 DEF NearFound, FoundBy
  <2>1. FoundBy(m, k)
    BY <1>1 DEF CoverInv, NearFound
  <2>2. QED
    BY <1>8, <2>1
<1>17. QED
  BY <1>1, <1>12, <1>13, <1>14, <1>15, <1>16 DEF CoverInv

\* Once every node at a distance of k has been looked at, k + 1 hops are covered.
LEMMA OneHopFurther ==
  ASSUME LocalsTypeOK, NEW k \in Nat, NearFound(k),
         \A i \in 1 .. Len(found) : found[i].depth <= k =>
           \A m \in Adjacent(adjacency, found[i].id) : FoundBy(m, found[i].depth + 1)
  PROVE  NearFound(k + 1)
<1>1. \A i \in 1 .. Len(found) : found[i].depth \in Nat
  BY DepthsAreNumbers
<1> SUFFICES ASSUME NEW m \in Within(adjacency, start, k + 1) PROVE FoundBy(m, k + 1)
  BY DEF NearFound
<1>2. m \in Hop(adjacency, Within(adjacency, start, k))
  BY WithinSteps DEF LocalsTypeOK
<1>3. PICK x \in Within(adjacency, start, k) : m = x \/ m \in Adjacent(adjacency, x)
  BY <1>2 DEF Hop, Adjacent
<1>4. PICK i \in 1 .. Len(found) : found[i].id = x /\ found[i].depth <= k
  BY DEF NearFound, FoundBy
<1>5. CASE m = x
  BY <1>1, <1>4, <1>5 DEF FoundBy
<1>6. CASE m \in Adjacent(adjacency, x)
  <2>1. PICK j \in 1 .. Len(found) : found[j].id = m /\ found[j].depth <= found[i].depth + 1
    BY <1>4, <1>6 DEF FoundBy
  <2>2. found[j].depth <= k + 1
    BY <1>1, <1>4, <2>1
  <2>3. QED
    BY <2>1, <2>2 DEF FoundBy
<1>7. QED
  BY <1>3, <1>5, <1>6

LEMMA DeepenCoverInv == ASSUME SearchInv, CoverInv, Deepen PROVE CoverInv'
<1>1. /\ phase = "expand" /\ phase' = "expand"
      /\ frontier = <<>> /\ frontier' = nextFrontier /\ round' = round + 1
      /\ UNCHANGED <<start, adjacency, edges, depth, found>>
      /\ round \in Nat /\ LocalsTypeOK
      /\ FoundInReach /\ FoundOnce /\ Expanded /\ Waiting
  BY DEF Deepen, vars, SearchInv, LocalsTypeOK, CoverInv
<1>2. \A i \in 1 .. Len(found) : found[i].depth \in Nat
  BY <1>1, DepthsAreNumbers
<1>3. \A m, d : FoundBy(m, d)' <=> FoundBy(m, d)
  BY <1>1 DEF FoundBy
<1>4. ASSUME NEW i \in 1 .. Len(found), found[i].depth <= round,
             NEW m \in Adjacent(adjacency, found[i].id)
      PROVE  FoundBy(m, found[i].depth + 1)
  <2>1. Queued(frontier) = {}
    BY <1>1 DEF Queued
  <2>2. QED
    BY <1>1, <1>4, <2>1 DEF Expanded
<1>5. FoundInReach' /\ FoundOnce'
  <2>1. \A i \in 1 .. Len(found) : found[i].depth <= round + 1 => found[i].depth <= (round + 1) + 1
    BY <1>1, <1>2
  <2>2. QED
    BY <1>1, <2>1 DEF FoundInReach, FoundOnce
<1>6. Expanded'
  <2> SUFFICES ASSUME NEW i \in 1 .. Len(found), found[i].depth <= round + 1,
                      found[i].id \notin Queued(nextFrontier),
                      NEW m \in Adjacent(adjacency, found[i].id)
               PROVE  FoundBy(m, found[i].depth + 1)
    BY <1>1, <1>3 DEF Expanded
  <2>1. found[i].depth # round + 1
    BY <1>1 DEF Waiting
  <2>2. found[i].depth <= round
    BY <1>1, <1>2, <2>1
  <2>3. QED
    BY <1>4, <2>2
<1>7. Waiting'
  <2>1. \A i \in 1 .. Len(found) : found[i].depth # (round + 1) + 1
    BY <1>1, <1>2 DEF FoundInReach
  <2>2. QED
    BY <1>1, <2>1 DEF Waiting
<1>8. \A k \in 0 .. round + 1 : NearFound(k)
  <2>1. \A k \in 0 .. round : NearFound(k)
    BY <1>1 DEF CoverInv
  <2>2. NearFound(round + 1)
    <3>1. NearFound(round)
      BY <1>1, <2>1
    <3>2. QED
      BY <1>1, <1>4, <3>1, OneHopFurther
  <2>3. \A k \in 0 .. round + 1 : k \in 0 .. round \/ k = round + 1
    BY <1>1
  <2>4. QED
    BY <2>1, <2>2, <2>3
<1>9. \A k : NearFound(k)' <=> NearFound(k)
  BY <1>1, <1>3 DEF NearFound
<1>10. QED
  BY <1>1, <1>5, <1>6, <1>7, <1>8, <1>9 DEF CoverInv

\* When the search ends early, there is nothing more to find.
LEMMA FetchCoverInv ==
  ASSUME SearchInv, CoverInv, NEW archived, Fetch(archived) PROVE CoverInv'
<1>1. /\ phase = "expand" /\ phase' = "link"
      /\ round = depth \/ (frontier = <<>> /\ nextFrontier = <<>>)
      /\ UNCHANGED <<start, adjacency, edges, depth, found, round>>
      /\ round \in Nat /\ depth \in Nat /\ LocalsTypeOK
      /\ FoundInReach /\ FoundOnce /\ Expanded /\ Waiting
      /\ \A k \in 0 .. round : NearFound(k)
  BY DEF Fetch, vars, SearchInv, LocalsTypeOK, CoverInv
<1>2. \A k \in 0 .. depth : NearFound(k)
  <2>1. CASE round = depth
    BY <1>1, <2>1
  <2>2. CASE frontier = <<>> /\ nextFrontier = <<>>
    <3>1. \A i \in 1 .. Len(found) : found[i].depth \in Nat
      BY <1>1, DepthsAreNumbers
    <3>2. Queued(frontier) = {} /\ Queued(nextFrontier) = {}
      BY <2>2 DEF Queued
    <3>3. \A i \in 1 .. Len(found) : found[i].depth <= round
      BY <1>1, <3>1, <3>2 DEF FoundInReach, Waiting
    <3>4. \A i \in 1 .. Len(found) :
            \A m \in Adjacent(adjacency, found[i].id) : FoundBy(m, found[i].depth + 1)
      BY <1>1, <3>2, <3>3 DEF Expanded
    <3> DEFINE T == {k \in Nat : NearFound(k)}
    <3>5. 0 \in T
      BY <1>1
    <3>6. ASSUME NEW k \in Nat, k \in T PROVE k + 1 \in T
      BY <1>1, <3>4, <3>6, OneHopFurther
    <3> HIDE DEF T
    <3>7. Nat \subseteq T
      BY <3>5, <3>6, Induction DEF T
    <3>8. QED
      BY <1>1, <3>7 DEF T
  <2>3. QED
    BY <1>1, <2>1, <2>2
<1>3. \A k : NearFound(k)' <=> NearFound(k)
  BY <1>1 DEF NearFound, FoundBy
<1>4. FoundInReach' /\ FoundOnce'
  BY <1>1 DEF FoundInReach, FoundOnce
<1>5. QED
  BY <1>1, <1>2, <1>3, <1>4 DEF CoverInv

\* Nothing that matters here changes, or edges come.
LEMMA OtherCoverInv ==
  ASSUME SearchInv, CoverInv, edges \subseteq edges', edges' \subseteq Nodes \X Nodes,
         UNCHANGED <<adjacency, start, depth, found, frontier, nextFrontier, round>>,
         \/ UNCHANGED phase
         \/ phase = "link" /\ phase' = "done"
  PROVE  CoverInv'
<1>1. \A m, d : FoundBy(m, d)' <=> FoundBy(m, d)
  BY DEF FoundBy
<1>2. \A k : NearFound(k)' <=> NearFound(k)
  BY <1>1 DEF NearFound
<1>3. Expanded => Expanded'
  BY <1>1 DEF Expanded
<1>4. (Waiting => Waiting') /\ (FoundOnce => FoundOnce')
  BY DEF Waiting, FoundOnce
<1>5. FoundInReach => FoundInReach'
  <2> SUFFICES ASSUME FoundInReach, NEW i \in 1 .. Len(found)
               PROVE  found[i].id \in Within(edges', start, found[i].depth)
    BY DEF FoundInReach
  <2>1. found[i].depth \in Nat /\ start \in Nodes
    BY DepthsAreNumbers DEF SearchInv, LocalsTypeOK
  <2>2. found[i].id \in Within(edges, start, found[i].depth)
    BY DEF FoundInReach
  <2>3. QED
    BY <2>1, <2>2, WithinGrows
<1>6. QED
  BY <1>2, <1>3, <1>4, <1>5 DEF CoverInv

LEMMA NextCoverInv == SearchInv /\ CoverInv /\ [SubgraphNext]_subgraphVars => CoverInv'
<1> SUFFICES ASSUME SearchInv, CoverInv, [SubgraphNext]_subgraphVars PROVE CoverInv'
  OBVIOUS
<1>0. edges \subseteq Nodes \X Nodes
  BY DEF CoverInv
<1>1. CASE Next /\ UNCHANGED <<edges, extraction>>
  <2>1. UNCHANGED <<start, adjacency>>
    BY <1>1 DEF Next, Skip, Visit, ScanEnd, Exhausted, Close, Push
  <2>2. QED
    BY <1>0, <1>1, <2>1, OtherCoverInv DEF extraction
<1>2. CASE \E d \in Depths : Extract(d)
  BY <1>2, ExtractCoverInv
<1>3. CASE Look
  BY <1>3, LookCoverInv
<1>4. CASE Deepen
  BY <1>4, DeepenCoverInv
<1>5. CASE Link
  <2>1. /\ UNCHANGED <<edges, adjacency, start, depth, found, frontier, nextFrontier, round>>
        /\ phase = "link" /\ phase' = "done"
    BY <1>5 DEF Link, vars
  <2>2. QED
    BY <1>0, <2>1, OtherCoverInv
<1>6. CASE \E archived \in SUBSET Nodes : Fetch(archived)
  BY <1>6, FetchCoverInv
<1>7. CASE \E e \in Nodes \X Nodes : InsertEdge(e)
  <2>1. /\ edges \subseteq edges' /\ edges' \subseteq Nodes \X Nodes
        /\ UNCHANGED <<adjacency, start, depth, found, frontier, nextFrontier, round, phase>>
    BY <1>0, <1>7 DEF InsertEdge, vars, extraction
  <2>2. QED
    BY <2>1, OtherCoverInv
<1>8. CASE UNCHANGED subgraphVars
  BY <1>0, <1>8, OtherCoverInv DEF subgraphVars, vars, extraction
<1>9. QED
  BY <1>1, <1>2, <1>3, <1>4, <1>5, <1>6, <1>7, <1>8 DEF SubgraphNext, Traverse

LEMMA SearchCovers == SubgraphSpec => [](SearchInv /\ CoverInv)
<1>1. SubgraphInit => SearchInv /\ CoverInv
  BY InitSearchInv, InitCoverInv
<1>2. SearchInv /\ CoverInv /\ [SubgraphNext]_subgraphVars => (SearchInv /\ CoverInv)'
  BY NextSearchInv, NextCoverInv
<1>3. QED
  BY <1>1, <1>2, PTL DEF SubgraphSpec

\* The extraction begins when the cycle check has answered, and leaves it so.
AnsweredInv == IF phase = "none" THEN IInv ELSE pc = "done" /\ AnswerIsRight

LEMMA AnswerUnchanged ==
  ASSUME AnswerIsRight, UNCHANGED <<adjacency, start, pc, result>>
  PROVE  AnswerIsRight'
<1>1. \A n : Targets(n)' = Targets(n)
  BY DEF Targets
<1>2. HasCycle(start)' = HasCycle(start)
  BY <1>1 DEF HasCycle
<1>3. QED
  BY <1>2 DEF AnswerIsRight

LEMMA NextAnsweredInv == AnsweredInv /\ [SubgraphNext]_subgraphVars => AnsweredInv'
<1> SUFFICES ASSUME AnsweredInv, [SubgraphNext]_subgraphVars PROVE AnsweredInv'
  OBVIOUS
<1>1. CASE Next /\ UNCHANGED <<edges, extraction>>
  <2>1. phase' = phase /\ pc # "done"
    BY <1>1 DEF extraction, Next, Skip, Visit, ScanEnd, Exhausted, Close, Push
  <2>2. QED
    BY <1>1, <2>1, StepIInv DEF AnsweredInv
<1>2. CASE \E d \in Depths : Extract(d)
  <2>1. /\ phase = "none" /\ pc = "done" /\ phase' # "none"
        /\ UNCHANGED <<adjacency, start, pc, result>>
    BY <1>2 DEF Extract
  <2>2. QED
    BY <2>1, IInvAnswer, AnswerUnchanged DEF AnsweredInv
<1>3. CASE Look \/ Deepen \/ Link \/ \E archived \in SUBSET Nodes : Fetch(archived)
  <2>1. phase # "none" /\ phase' # "none" /\ UNCHANGED vars
    BY <1>3 DEF Look, Deepen, Link, Fetch
  <2>2. QED
    BY <2>1, AnswerUnchanged DEF AnsweredInv, vars
<1>4. CASE (\E e \in Nodes \X Nodes : InsertEdge(e)) \/ UNCHANGED subgraphVars
  <2>1. phase' = phase /\ UNCHANGED vars
    BY <1>4 DEF InsertEdge, subgraphVars, extraction
  <2>2. QED
    BY <2>1, StepIInv, AnswerUnchanged DEF AnsweredInv, vars
<1>5. QED
  BY <1>1, <1>2, <1>3, <1>4 DEF SubgraphNext, Traverse

\* The answer of the cycle check stays right when its search is over and what is
\* around the node is extracted.
THEOREM AnswerStaysRight == SubgraphSpec => []AnswerIsRight
<1>1. SubgraphInit => AnsweredInv
  BY InitIInv DEF SubgraphInit, AnsweredInv
<1>2. AnsweredInv => AnswerIsRight
  BY IInvAnswer DEF AnsweredInv
<1>3. QED
  BY <1>1, <1>2, NextAnsweredInv, PTL DEF SubgraphSpec

\* Whatever edges come in the middle of an extraction, everything that was
\* within the depth at its beginning is found, and at a depth between its
\* distance at the end and its distance at the beginning.
THEOREM SearchIsComplete == SubgraphSpec => []FoundWithinDepth
<1>1. SearchInv /\ CoverInv => FoundWithinDepth
  <2> SUFFICES ASSUME SearchInv, CoverInv, phase \in {"link", "done"} PROVE FoundWithinDepth
    BY DEF FoundWithinDepth
  <2>1. /\ found \in Seq(Records) /\ depth \in Nat
        /\ FoundInReach /\ FoundOnce /\ \A k \in 0 .. depth : NearFound(k)
    BY DEF SearchInv, LocalsTypeOK, CoverInv
  <2>2. DOMAIN found = 1 .. Len(found) /\ \A i \in 1 .. Len(found) : found[i].depth \in Nat
    BY DepthsAreNumbers DEF SearchInv
  <2>3. Within(adjacency, start, depth) \subseteq Ids(found)
    BY <2>1 DEF NearFound, FoundBy, Ids
  <2>4. ASSUME NEW i \in 1 .. Len(found), NEW k \in 0 .. found[i].depth - 1,
               found[i].id \in Within(adjacency, start, k)
        PROVE  FALSE
    <3>1. k \in 0 .. depth /\ k < found[i].depth
      BY <2>1, <2>2 DEF FoundInReach
    <3>2. PICK j \in 1 .. Len(found) : found[j].id = found[i].id /\ found[j].depth <= k
      BY <2>1, <2>4, <3>1 DEF NearFound, FoundBy
    <3>3. i = j
      BY <2>1, <3>2 DEF FoundOnce
    <3>4. QED
      BY <2>2, <3>1, <3>2, <3>3
  <2>5. QED
    BY <2>1, <2>2, <2>3, <2>4 DEF FoundWithinDepth, FoundInReach
<1>2. QED
  BY <1>1, SearchCovers, PTL

\* What an answer of the editor contains.
LEMMA ResponseContains ==
  ASSUME NEW E, NEW n, NEW d, NEW max, NEW answer \in LocalResponses(E, n, d, max)
  PROVE  /\ answer.edges = Between(E, answer.nodes)
         /\ ~answer.truncated => answer.nodes = LocalRounds(E, n, d)
         /\ answer.truncated => \A k \in 0 .. d : \/ answer.nodes \subseteq LocalRounds(E, n, k)
                                                \/ LocalRounds(E, n, k) \subseteq answer.nodes
<1> DEFINE reached == LocalRounds(E, n, d)
           cut == Cardinality(reached) > max
           prefixes == {S \in SUBSET reached :
                          /\ Cardinality(S) = max
                          /\ \A k \in 0 .. d : S \subseteq LocalRounds(E, n, k) \/ LocalRounds(E, n, k) \subseteq S}
<1>1. PICK S \in (IF cut THEN prefixes ELSE {reached}) :
        answer = [nodes |-> S, edges |-> Between(E, S), truncated |-> cut]
  BY Zenon DEF LocalResponses
<1>2. answer.nodes = S /\ answer.edges = Between(E, S) /\ answer.truncated = cut
  BY <1>1
<1>3. CASE cut
  <2>1. S \in prefixes /\ answer.truncated
    BY <1>1, <1>2, <1>3, Zenon
  <2>2. \A k \in 0 .. d : S \subseteq LocalRounds(E, n, k) \/ LocalRounds(E, n, k) \subseteq S
    BY <2>1
  <2>3. QED
    BY <1>2, <2>1, <2>2
<1>4. CASE ~cut
  <2>1. S = reached /\ ~answer.truncated
    BY <1>1, <1>2, <1>4, Zenon
  <2>2. QED
    BY <1>2, <2>1
<1>5. QED
  BY <1>3, <1>4

\* Nothing in a package refers to a node outside it.  The editor's answer about
\* the same graph is the database's when it is not cut off and the depth is one
\* the database goes to, more when the depth is beyond that, and the nearest
\* nodes when it is cut off.
THEOREM EditorShowsTheSame == SubgraphSpec => []EditorViewAgrees
<1>1. SearchInv /\ CoverInv /\ FoundWithinDepth => EditorViewAgrees
  <2> SUFFICES ASSUME SearchInv, CoverInv, FoundWithinDepth, phase = "done" PROVE EditorViewAgrees
    BY DEF EditorViewAgrees
  <2>1. package.edges = Between(edges, Ids(package.nodes))
    BY DEF SearchInv, LinksAreEdges
  <2>2. \A e \in package.edges : {e[1], e[2]} \subseteq Ids(package.nodes)
    BY <2>1 DEF Between
  <2>3. ASSUME edges = adjacency, package.nodes = found,
               NEW d \in Depths, Clamp(d) = depth, NEW max \in 0 .. Cardinality(Nodes),
               NEW answer \in LocalResponses(edges, start, d, max)
        PROVE  IF answer.truncated
               THEN \A i, j \in DOMAIN found :
                      found[i].id \in answer.nodes /\ found[j].id \notin answer.nodes =>
                        found[i].depth <= found[j].depth
               ELSE /\ Ids(package.nodes) \subseteq answer.nodes
                    /\ package.edges \subseteq answer.edges
                    /\ d <= MAX_SUBGRAPH_DEPTH =>
                         answer.nodes = Ids(package.nodes) /\ answer.edges = package.edges
    <3>1. /\ found \in Seq(Records) /\ depth \in Nat /\ start \in Nodes
          /\ edges \in SUBSET (Nodes \X Nodes)
          /\ FoundInReach /\ NearFound(depth)
      BY DEF SearchInv, LocalsTypeOK, CoverInv
    <3>2. DOMAIN found = 1 .. Len(found) /\ \A i \in 1 .. Len(found) : found[i].depth \in Nat
      BY <3>1, DepthsAreNumbers DEF SearchInv
    <3>3. /\ d \in Nat /\ depth <= d
          /\ d <= MAX_SUBGRAPH_DEPTH => depth = d
      BY <2>3, DepthAssumption DEF DepthAssumption, Clamp
    <3>4. \A k \in Nat : LocalRounds(edges, start, k) = Within(edges, start, k)
      BY <3>1, LocalRoundsAreHops
    <3>5. Within(edges, start, depth) = Ids(found)
      <4>1. Within(edges, start, depth) \subseteq Ids(found)
        BY <2>3, <3>1 DEF NearFound, FoundBy, Ids
      <4>2. ASSUME NEW i \in 1 .. Len(found) PROVE found[i].id \in Within(edges, start, depth)
        <5>1. found[i].depth \in Nat /\ found[i].depth <= depth
          BY <3>1, <3>2 DEF FoundInReach
        <5>2. found[i].id \in Within(edges, start, found[i].depth)
          BY <3>1 DEF FoundInReach
        <5>3. QED
          BY <3>1, <5>1, <5>2, WithinDeeper
      <4>3. QED
        BY <4>1, <4>2 DEF Ids
    <3>6. CASE ~answer.truncated
      <4>1. answer.nodes = LocalRounds(edges, start, d) /\ answer.edges = Between(edges, answer.nodes)
        BY <3>6, ResponseContains
      <4>2. Within(edges, start, depth) \subseteq answer.nodes
        BY <3>1, <3>3, <3>4, <4>1, WithinDeeper
      <4>3. package.edges \subseteq answer.edges
        BY <2>1, <2>3, <3>5, <4>1, <4>2 DEF Between
      <4>4. QED
        BY <2>1, <2>3, <3>3, <3>4, <3>5, <3>6, <4>1, <4>2, <4>3
    <3>7. CASE answer.truncated
      <4>1. \A k \in 0 .. d : \/ answer.nodes \subseteq LocalRounds(edges, start, k)
                              \/ LocalRounds(edges, start, k) \subseteq answer.nodes
        BY <3>7, ResponseContains
      <4>2. ASSUME NEW i \in 1 .. Len(found), NEW j \in 1 .. Len(found),
                   found[i].id \in answer.nodes, found[j].id \notin answer.nodes,
                   ~(found[i].depth <= found[j].depth)
            PROVE  FALSE
        <5> DEFINE k == found[j].depth
        <5>1. /\ k \in Nat /\ k \in 0 .. d /\ k \in 0 .. found[i].depth - 1
              /\ found[j].id \in Within(edges, start, k)
          BY <3>1, <3>2, <3>3, <4>2 DEF FoundInReach
        <5>2. found[i].id \in Within(edges, start, k)
          BY <3>4, <4>1, <4>2, <5>1
        <5>3. QED
          BY <2>3, <3>2, <5>1, <5>2 DEF FoundWithinDepth
      <4>3. QED
        BY <3>2, <3>7, <4>2
    <3>8. QED
      BY <3>6, <3>7
  <2>4. QED
    BY <2>2, <2>3 DEF EditorViewAgrees
<1>2. QED
  BY <1>1, SearchCovers, SearchIsComplete, PTL
=============================================================================
