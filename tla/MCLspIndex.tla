----------------------------- MODULE MCLspIndex -----------------------------
(* Instances of LspIndex for TLC. *)
EXTENDS LspIndex, TLC

CONSTANTS spec, goal, links, more, i1, i2, t1, t2, s1

\* Both .kgn files have the same name; an edge in a .kge file leads from one of
\* the ids to the other, which may change places with the texts.
MCSlug == [p \in KgnFiles |-> s1]
MCEdgesIn == [t \in EdgeTexts |-> IF t = t1 THEN {<<i1, i2>>} ELSE {<<i2, i1>>}]
Swap == [x \in Ids \cup EdgeTexts |-> CASE x = i1 -> i2 [] x = i2 -> i1 [] x = t1 -> t2 [] OTHER -> t1]
MCSymmetry == Permutations(KgnFiles) \cup Permutations(KgeFiles) \cup {Swap}

\* The files there is something of, wherever.
InPlay == {p \in Files : \/ disk[p] # Missing \/ buffer[p] # Missing \/ notice[p] # "none"
                         \/ Indexed(p) \/ ~Free(p)}

\* At most two files at a time, of one kind: the two kinds share no map.  The
\* mtime of a .kge file, which nothing reads, stays.
TwoFiles == /\ Cardinality(InPlay) <= 2
            /\ InPlay \subseteq KgnFiles \/ InPlay \subseteq KgeFiles
            /\ \A p \in KgeFiles : mtime[p] = 0
=============================================================================
