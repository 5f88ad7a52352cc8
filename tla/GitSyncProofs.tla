--------------------------- MODULE GitSyncProofs ---------------------------
(* Whatever the number of sites, items, texts and commits: what a push     *)
(* that returns success has recorded, what a commit may take back, and     *)
(* what an import keeps.                                                   *)
EXTENDS GitSync, TLAPS

-----------------------------------------------------------------------------
\* Commits are made by appending: a sequence of its own elements.
Elements(seq) == {seq[i] : i \in DOMAIN seq}

LEMMA Appended ==
  ASSUME NEW seq, seq \in Seq(Elements(seq)), NEW e
  PROVE  /\ Append(seq, e) \in Seq(Elements(Append(seq, e)))
         /\ Len(Append(seq, e)) = Len(seq) + 1
         /\ Len(seq) \in Nat
         /\ \A i \in 1 .. Len(seq) : Append(seq, e)[i] = seq[i]
         /\ Append(seq, e)[Len(seq) + 1] = e
<1> DEFINE S == Elements(seq) \cup {e}
<1>1. seq \in Seq(S) /\ e \in S
  OBVIOUS
<1> HIDE DEF S
<1>2. /\ Append(seq, e) \in Seq(S)
      /\ Len(Append(seq, e)) = Len(seq) + 1
      /\ Len(seq) \in Nat
      /\ \A i \in 1 .. Len(seq) : Append(seq, e)[i] = seq[i]
      /\ Append(seq, e)[Len(seq) + 1] = e
  BY <1>1
<1>3. DOMAIN Append(seq, e) = 1 .. Len(Append(seq, e))
  BY <1>2
<1>4. Append(seq, e) \in Seq(Elements(Append(seq, e)))
  BY <1>2, <1>3 DEF Elements
<1> QED
  BY <1>2, <1>4

-----------------------------------------------------------------------------
\* The shape of the state that the proof needs; it leaves open what texts and
\* files are, so nothing has to be known of how git merges them.
CommitsExist ==
  /\ commits \in Seq(Elements(commits))
  /\ remote \in Commits
  /\ \A s \in Sites : head[s] \in Commits /\ merging[s] \in Commits \cup {NoCommit}

PerSite == /\ DOMAIN files = Sites
           /\ DOMAIN head = Sites
           /\ DOMAIN merging = Sites
           /\ DOMAIN pc = Sites
           /\ DOMAIN exported = Sites

\* The past of a commit holds the past of each of its members.
PastClosed ==
  \A c \in Commits : /\ commits[c].past \subseteq Commits
                     /\ \A p \in commits[c].past : commits[p].past \subseteq commits[c].past

\* Between the export and the commit of a call only edits and other sites act.
FilesAreExported == \A s \in Sites : pc[s] = "exported" => files[s] = exported[s]

CommitIsExported ==
  \A s \in Sites : pc[s] \in {"committed", "succeeded", "pushed"} =>
                     Tree(head[s]) = exported[s] /\ merging[s] = NoCommit

RemoteHasPushed == \A s \in Sites : pc[s] = "pushed" => head[s] \in History(remote)

PushInv == /\ CommitsExist
           /\ PerSite
           /\ PastClosed
           /\ FilesAreExported
           /\ CommitIsExported
           /\ RemoteHasPushed

LEMMA PushInvSuffices == PushInv => PushRecordsExport
BY DEF PushInv, CommitIsExported, RemoteHasPushed, PushRecordsExport

LEMMA PushInvInit == Init => PushInv
<1> SUFFICES ASSUME Init PROVE PushInv
  OBVIOUS
<1>1. Len(commits) = 1 /\ DOMAIN commits = {1} /\ commits[1].past = {}
  BY DEF Init
<1>2. commits \in Seq(Elements(commits))
  <2> DEFINE e == commits[1]
  <2>1. commits = <<e>>
    BY DEF Init
  <2>2. e \in Elements(commits)
    BY <1>1 DEF Elements
  <2> HIDE DEF e
  <2> QED
    BY <2>1, <2>2
<1> QED
  BY <1>1, <1>2 DEF Init, PushInv, CommitsExist, PerSite, PastClosed, FilesAreExported, CommitIsExported,
                    RemoteHasPushed, Commits, NoCommit

-----------------------------------------------------------------------------
\* A new commit changes no other, and keeps pasts closed.
LEMMA NewCommitKeeps ==
  ASSUME CommitsExist, PastClosed, NEW tree, NEW parents, parents \subseteq Commits,
         NewCommit(tree, parents)
  PROVE  /\ commits' \in Seq(Elements(commits'))
         /\ Commits \subseteq Commits'
         /\ Len(commits) + 1 \in Commits'
         /\ Len(commits) + 1 \notin Commits
         /\ NoCommit \notin Commits
         /\ \A c \in Commits : commits'[c] = commits[c]
         /\ commits'[Len(commits) + 1].tree = tree
         /\ PastClosed'
<1> DEFINE new == [tree |-> tree, past |-> UNION {History(p) : p \in parents}]
<1>1. commits' = Append(commits, new)
  BY DEF NewCommit
<1>2. new.tree = tree /\ new.past = UNION {History(p) : p \in parents}
  OBVIOUS
<1> HIDE DEF new
<1>3. /\ commits' \in Seq(Elements(commits'))
      /\ Len(commits') = Len(commits) + 1
      /\ Len(commits) \in Nat
      /\ \A c \in 1 .. Len(commits) : commits'[c] = commits[c]
      /\ commits'[Len(commits) + 1] = new
  BY <1>1, Appended DEF CommitsExist
<1>4. /\ Commits' = Commits \cup {Len(commits) + 1}
      /\ Len(commits) + 1 \notin Commits
      /\ NoCommit \notin Commits
  BY <1>3 DEF Commits, NoCommit
<1>5. \A c \in Commits : commits'[c] = commits[c]
  BY <1>3 DEF Commits
<1>6. \A p \in parents : History(p) \subseteq Commits
  BY DEF History, PastClosed
<1>7. new.past \subseteq Commits
  BY <1>2, <1>6
<1>8. \A p \in new.past : commits[p].past \subseteq new.past
  BY <1>2 DEF History, PastClosed
<1>9. PastClosed'
  <2> SUFFICES ASSUME NEW c \in Commits'
               PROVE  /\ commits'[c].past \subseteq Commits'
                      /\ \A p \in commits'[c].past : commits'[p].past \subseteq commits'[c].past
    BY DEF PastClosed
  <2>1. CASE c \in Commits
    BY <2>1, <1>4, <1>5 DEF PastClosed
  <2>2. CASE c = Len(commits) + 1
    BY <2>2, <1>3, <1>4, <1>5, <1>7, <1>8
  <2> QED
    BY <2>1, <2>2, <1>4
<1> QED
  BY <1>2, <1>3, <1>4, <1>5, <1>9


-----------------------------------------------------------------------------
(* The steps. *)

LEMMA EditStep ==
  ASSUME PushInv, NEW s \in Sites, NEW n \in Items, Edit(s, n)
  PROVE  PushInv'
BY DEF PushInv, CommitsExist, PerSite, PastClosed, FilesAreExported, CommitIsExported,
       RemoteHasPushed, Edit, repository, Commits, Tree, History, NoCommit

LEMMA ExportStep ==
  ASSUME PushInv, NEW s \in Sites, Export(s)
  PROVE  PushInv'
<1>1. PICK w : /\ files' = [files EXCEPT ![s] = w]
               /\ exported' = [exported EXCEPT ![s] = w]
  BY DEF Export
<1> QED
  BY <1>1 DEF PushInv, CommitsExist, PerSite, PastClosed, FilesAreExported, CommitIsExported,
              RemoteHasPushed, Export, Commits, Tree, History, NoCommit

LEMMA NothingToCommitStep ==
  ASSUME PushInv, NEW s \in Sites, NothingToCommit(s)
  PROVE  PushInv'
BY DEF PushInv, CommitsExist, PerSite, PastClosed, FilesAreExported, CommitIsExported,
       RemoteHasPushed, NothingToCommit, Clean, repository, Commits, Tree, History, NoCommit

LEMMA CommitStep ==
  ASSUME PushInv, NEW s \in Sites, Commit(s)
  PROVE  PushInv'
<1> DEFINE parents == {head[s], merging[s]} \ {NoCommit}
<1>1. parents \subseteq Commits
  BY DEF PushInv, CommitsExist
<1>2. NewCommit(files[s], parents)
  BY DEF Commit, CommitTree
<1>3. /\ commits' \in Seq(Elements(commits'))
      /\ Commits \subseteq Commits'
      /\ Len(commits) + 1 \in Commits'
      /\ \A c \in Commits : commits'[c] = commits[c]
      /\ commits'[Len(commits) + 1].tree = files[s]
      /\ PastClosed'
  <2> HIDE DEF parents
  <2> QED
    BY <1>1, <1>2, NewCommitKeeps DEF PushInv
<1>4. /\ head' = [head EXCEPT ![s] = Len(commits) + 1]
      /\ merging' = [merging EXCEPT ![s] = NoCommit]
      /\ pc' = [pc EXCEPT ![s] = "committed"]
      /\ UNCHANGED <<remote, files, exported>>
      /\ pc[s] = "exported"
  BY DEF Commit, CommitTree
<1>5. CommitsExist' /\ PerSite'
  BY <1>3, <1>4 DEF PushInv, CommitsExist, PerSite
<1>6. FilesAreExported' /\ CommitIsExported' /\ RemoteHasPushed'
  BY <1>3, <1>4 DEF PushInv, CommitsExist, PerSite, FilesAreExported, CommitIsExported,
                    RemoteHasPushed, Tree, History
<1> QED
  BY <1>3, <1>5, <1>6 DEF PushInv

\* A push moves the remote to a commit whose past holds all that it had.
LEMMA PushStep ==
  ASSUME PushInv, NEW s \in Sites, Push(s)
  PROVE  PushInv'
<1>1. History(remote) \subseteq History(head[s])
  BY DEF PushInv, CommitsExist, PastClosed, Push, FastForward, History
<1>2. remote' = head[s] /\ head[s] \in Commits
  BY DEF Push, PushInv, CommitsExist
<1>3. /\ UNCHANGED <<commits, files, head, merging, exported>>
      /\ pc' = [pc EXCEPT ![s] = "pushed"]
      /\ pc[s] = "committed"
  BY DEF Push, repository
<1>4. RemoteHasPushed'
  BY <1>1, <1>2, <1>3 DEF PushInv, PerSite, RemoteHasPushed, History
<1> QED
  BY <1>2, <1>3, <1>4 DEF PushInv, CommitsExist, PerSite, PastClosed, FilesAreExported,
                          CommitIsExported, Commits, Tree

LEMMA PushRefusedStep ==
  ASSUME PushInv, NEW s \in Sites, PushRefused(s)
  PROVE  PushInv'
BY DEF PushInv, CommitsExist, PerSite, PastClosed, FilesAreExported, CommitIsExported,
       RemoteHasPushed, PushRefused, repository, Commits, Tree, History, NoCommit

LEMMA PullForwardStep ==
  ASSUME PushInv, NEW s \in Sites, PullForward(s)
  PROVE  PushInv'
BY DEF PushInv, CommitsExist, PerSite, PastClosed, FilesAreExported, CommitIsExported,
       RemoteHasPushed, PullForward, CanMerge, CheckOut, Commits, Tree, History, NoCommit

LEMMA PullMergeStep ==
  ASSUME PushInv, NEW s \in Sites, PullMerge(s)
  PROVE  PushInv'
<1>1. {head[s], remote} \subseteq Commits
  BY DEF PushInv, CommitsExist
<1>2. PICK tree : NewCommit(tree, {head[s], remote})
  BY DEF PullMerge
<1>3. /\ commits' \in Seq(Elements(commits'))
      /\ Commits \subseteq Commits'
      /\ Len(commits) + 1 \in Commits'
      /\ \A c \in Commits : commits'[c] = commits[c]
      /\ PastClosed'
  BY <1>1, <1>2, NewCommitKeeps DEF PushInv
<1>4. /\ pc[s] = "idle"
      /\ UNCHANGED <<remote, merging, pc, exported>>
      /\ head' = [head EXCEPT ![s] = Len(commits) + 1]
  BY DEF PullMerge, CanMerge
<1>5. PICK w : files' = [files EXCEPT ![s] = w]
  BY DEF PullMerge, CheckOut
<1>6. CommitsExist' /\ PerSite'
  BY <1>3, <1>4, <1>5 DEF PushInv, CommitsExist, PerSite
<1>7. FilesAreExported' /\ CommitIsExported' /\ RemoteHasPushed'
  BY <1>3, <1>4, <1>5 DEF PushInv, CommitsExist, PerSite, FilesAreExported, CommitIsExported,
                          RemoteHasPushed, Tree, History
<1> QED
  BY <1>3, <1>6, <1>7 DEF PushInv

LEMMA PullConflictStep ==
  ASSUME PushInv, NEW s \in Sites, NEW manual \in BOOLEAN, PullConflict(s, manual)
  PROVE  PushInv'
BY DEF PushInv, CommitsExist, PerSite, PastClosed, FilesAreExported, CommitIsExported,
       RemoteHasPushed, PullConflict, CanMerge, CheckOut, Commits, Tree, History, NoCommit

LEMMA AbortMergeStep ==
  ASSUME PushInv, NEW s \in Sites, AbortMerge(s)
  PROVE  PushInv'
BY DEF PushInv, CommitsExist, PerSite, PastClosed, FilesAreExported, CommitIsExported,
       RemoteHasPushed, AbortMerge, Commits, Tree, History, NoCommit

LEMMA ImportStep ==
  ASSUME PushInv, NEW s \in Sites, Import(s)
  PROVE  PushInv'
BY DEF PushInv, CommitsExist, PerSite, PastClosed, FilesAreExported, CommitIsExported,
       RemoteHasPushed, Import, repository, Commits, Tree, History, NoCommit

LEMMA ResolveWithDbStep ==
  ASSUME PushInv, NEW s \in Sites, ResolveWithDb(s)
  PROVE  PushInv'
<1>1. PICK tree : /\ files' = [files EXCEPT ![s] = tree]
                  /\ \/ UNCHANGED <<commits, head, merging>>
                     \/ CommitTree(s, tree)
  BY DEF ResolveWithDb
<1>2. /\ pc[s] = "aborted"
      /\ pc' = [pc EXCEPT ![s] = "idle"]
      /\ UNCHANGED <<remote, exported>>
  BY DEF ResolveWithDb
<1>3. CASE UNCHANGED <<commits, head, merging>>
  BY <1>1, <1>2, <1>3 DEF PushInv, CommitsExist, PerSite, PastClosed, FilesAreExported,
                          CommitIsExported, RemoteHasPushed, Commits, Tree, History, NoCommit
<1>4. CASE CommitTree(s, tree)
  <2> DEFINE parents == {head[s], merging[s]} \ {NoCommit}
  <2>1. parents \subseteq Commits
    BY DEF PushInv, CommitsExist
  <2>2. NewCommit(tree, parents)
    BY <1>4 DEF CommitTree
  <2>3. /\ commits' \in Seq(Elements(commits'))
        /\ Commits \subseteq Commits'
        /\ Len(commits) + 1 \in Commits'
        /\ \A c \in Commits : commits'[c] = commits[c]
        /\ PastClosed'
    <3> HIDE DEF parents
    <3> QED
      BY <2>1, <2>2, NewCommitKeeps DEF PushInv
  <2>4. /\ head' = [head EXCEPT ![s] = Len(commits) + 1]
        /\ merging' = [merging EXCEPT ![s] = NoCommit]
    BY <1>4 DEF CommitTree
  <2>5. CommitsExist' /\ PerSite'
    BY <1>1, <1>2, <2>3, <2>4 DEF PushInv, CommitsExist, PerSite
  <2>6. FilesAreExported' /\ CommitIsExported' /\ RemoteHasPushed'
    BY <1>1, <1>2, <2>3, <2>4 DEF PushInv, CommitsExist, PerSite, FilesAreExported,
                                  CommitIsExported, RemoteHasPushed, Tree, History
  <2> QED
    BY <2>3, <2>5, <2>6 DEF PushInv
<1> QED
  BY <1>1, <1>3, <1>4

LEMMA StopStep ==
  ASSUME PushInv, NEW s \in Sites, Stop(s)
  PROVE  PushInv'
BY DEF PushInv, CommitsExist, PerSite, PastClosed, FilesAreExported, CommitIsExported,
       RemoteHasPushed, Stop, repository, Commits, Tree, History, NoCommit

LEMMA PushInvStep == PushInv /\ [Next]_vars => PushInv'
<1> SUFFICES ASSUME PushInv, [Next]_vars PROVE PushInv'
  OBVIOUS
<1>1. ASSUME NEW s \in Sites, Call(s) PROVE PushInv'
  BY <1>1, ExportStep, NothingToCommitStep, CommitStep, PushStep, PushRefusedStep,
     PullForwardStep, PullMergeStep, PullConflictStep, AbortMergeStep, ImportStep,
     ResolveWithDbStep, StopStep DEF Call
<1>2. ASSUME NEW s \in Sites, NEW n \in Items, Edit(s, n) PROVE PushInv'
  BY <1>2, EditStep
<1>3. CASE UNCHANGED vars
  BY <1>3 DEF vars, repository, PushInv, CommitsExist, PerSite, PastClosed, FilesAreExported,
              CommitIsExported, RemoteHasPushed, Commits, Tree, History, NoCommit
<1> QED
  BY <1>1, <1>2, <1>3 DEF Next

\* However many sites push, pull and import at the same time, a push that
\* returns success has committed what it exported, and one that says that it
\* has pushed has its commit in the remote for good.
THEOREM PushesAreRecorded == Spec => []PushRecordsExport
<1>1. Spec => []PushInv
  BY PushInvInit, PushInvStep, PTL DEF Spec
<1> QED
  BY <1>1, PushInvSuffices, PTL

-----------------------------------------------------------------------------
(***************************************************************************)
(* Types.                                                                  *)
(***************************************************************************)
CleanFiles == {NoFile} \cup [text : Texts, header : Headers]
CommitTypes == [tree : [Items -> CleanFiles], past : SUBSET Commits]

\* What an export writes has no conflict markers.
SyncTyped == /\ TypeOK
             /\ exported \in [Sites -> [Items -> CleanFiles]]

\* Commits and texts are only ever added.
Grown == /\ Commits \subseteq Commits'
         /\ \A c \in Commits : commits'[c] = commits[c]
         /\ Texts \subseteq Texts'
         /\ \A t \in Texts : madeFrom'[t] = madeFrom[t]

LEMMA SeqGrows ==
  ASSUME NEW S, NEW T, NEW seq \in Seq(S), S \subseteq T, NEW e \in T
  PROVE  /\ Append(seq, e) \in Seq(T)
         /\ Len(Append(seq, e)) = Len(seq) + 1
         /\ Len(seq) \in Nat
         /\ \A i \in 1 .. Len(seq) : Append(seq, e)[i] = seq[i]
         /\ Append(seq, e)[Len(seq) + 1] = e
<1>1. seq \in Seq(T)
  OBVIOUS
<1> QED
  BY <1>1

LEMMA Widened == ASSUME NEW S, NEW T, NEW seq \in Seq(S), S \subseteq T PROVE seq \in Seq(T)
OBVIOUS

LEMMA FileFacts ==
  ASSUME NEW f, f \in Files \/ f \in CleanFiles
  PROVE  /\ f.text \in Texts \cup {NoText}
         /\ f = NoFile <=> f.text = NoText
         /\ f \in Files
BY DEF Files, CleanFiles, NoFile, NoText, Texts

LEMMA NewTextTyped ==
  ASSUME madeFrom \in Seq(SUBSET Texts), NEW sources \in SUBSET (Texts \cup {NoText}), NewText(sources)
  PROVE  /\ madeFrom' \in Seq(SUBSET Texts')
         /\ Texts' = Texts \cup {Len(madeFrom) + 1}
         /\ Len(madeFrom) + 1 \notin Texts
         /\ \A t \in Texts : madeFrom'[t] = madeFrom[t]
         /\ madeFrom'[Len(madeFrom) + 1] = UNION {madeFrom[t] \cup {t} : t \in sources \ {NoText}}
         /\ madeFrom'[Len(madeFrom) + 1] \in SUBSET Texts
<1> DEFINE new == UNION {madeFrom[t] \cup {t} : t \in sources \ {NoText}}
<1>1. new \in SUBSET Texts
  <2>1. \A t \in Texts : madeFrom[t] \in SUBSET Texts
    BY DEF Texts
  <2> QED
    BY <2>1
<1>2. madeFrom' = Append(madeFrom, new)
  BY DEF NewText
<1> HIDE DEF new
<1>3. /\ madeFrom' \in Seq(SUBSET Texts)
      /\ Len(madeFrom') = Len(madeFrom) + 1
      /\ Len(madeFrom) \in Nat
      /\ \A i \in 1 .. Len(madeFrom) : madeFrom'[i] = madeFrom[i]
      /\ madeFrom'[Len(madeFrom) + 1] = new
  BY <1>1, <1>2, SeqGrows
<1>4. Texts' = Texts \cup {Len(madeFrom) + 1} /\ Len(madeFrom) + 1 \notin Texts
  BY <1>3 DEF Texts
<1>5. madeFrom' \in Seq(SUBSET Texts')
  BY <1>3, <1>4, Widened
<1> QED
  BY <1>1, <1>3, <1>4, <1>5 DEF new, Texts

LEMMA NewCommitTyped ==
  ASSUME commits \in Seq(CommitTypes), NEW tree \in [Items -> CleanFiles],
         NEW parents \in SUBSET Commits, NewCommit(tree, parents), UNCHANGED madeFrom
  PROVE  /\ commits' \in Seq(CommitTypes')
         /\ Commits' = Commits \cup {Len(commits) + 1}
         /\ Len(commits) + 1 \notin Commits
         /\ \A c \in Commits : commits'[c] = commits[c]
         /\ commits'[Len(commits) + 1] = [tree |-> tree, past |-> UNION {History(p) : p \in parents}]
         /\ UNION {History(p) : p \in parents} \in SUBSET Commits
<1> DEFINE past == UNION {History(p) : p \in parents}
           new == [tree |-> tree, past |-> past]
<1>1. past \in SUBSET Commits
  <2>0. \A p \in Commits : commits[p] \in CommitTypes
    BY DEF Commits
  <2>1. \A p \in Commits : commits[p].past \subseteq Commits
    BY <2>0 DEF CommitTypes
  <2> QED
    BY <2>1 DEF History
<1>2. commits' = Append(commits, new)
  BY DEF NewCommit
<1>3. new \in CommitTypes
  BY <1>1 DEF CommitTypes
<1>x. new.tree = tree /\ new.past = past
  OBVIOUS
<1> HIDE DEF new, past
<1>4. /\ commits' \in Seq(CommitTypes)
      /\ Len(commits') = Len(commits) + 1
      /\ Len(commits) \in Nat
      /\ \A i \in 1 .. Len(commits) : commits'[i] = commits[i]
      /\ commits'[Len(commits) + 1] = new
  BY <1>2, <1>3, SeqGrows
<1>5. Commits' = Commits \cup {Len(commits) + 1} /\ Len(commits) + 1 \notin Commits
  BY <1>4 DEF Commits
<1>6. CommitTypes \subseteq CommitTypes'
  BY <1>5 DEF CommitTypes, CleanFiles, Texts
<1>7. commits' \in Seq(CommitTypes')
  BY <1>4, <1>6, Widened
<1> QED
  BY <1>1, <1>4, <1>5, <1>7 DEF new, past, Commits

\* With more texts everything keeps its type.
LEMMA MoreTexts ==
  ASSUME Texts \subseteq Texts', UNCHANGED commits
  PROVE  /\ CleanFiles \subseteq CleanFiles'
         /\ Files \subseteq Files'
         /\ [Items -> CleanFiles] \subseteq [Items -> CleanFiles']
         /\ [Items -> Files] \subseteq [Items -> Files']
         /\ CommitTypes \subseteq CommitTypes'
<1>1. CleanFiles \subseteq CleanFiles' /\ Files \subseteq Files'
  BY DEF CleanFiles, Files
<1>2. Commits = Commits'
  BY DEF Commits
<1>3. [Items -> CleanFiles] \subseteq [Items -> CleanFiles'] /\ [Items -> Files] \subseteq [Items -> Files']
  BY <1>1
<1> QED
  BY <1>1, <1>2, <1>3 DEF CommitTypes

\* A merge without a conflict leaves no markers, and one with a conflict leaves
\* them in the place of a text or a header.
LEMMA MergeIsFile ==
  ASSUME NEW T, NoText \notin T, NEW base, NEW both,
         NEW ours \in {NoFile} \cup [text : T, header : Headers],
         NEW theirs \in {NoFile} \cup [text : T, header : Headers]
  PROVE  /\ both \in T => MergedFile(base, ours, theirs, both)
                            \in {NoFile} \cup [text : T, header : Headers \cup {Garbled}]
         /\ ~ (/\ Clash(base, ours, theirs)
               /\ \/ NoFile \in {ours, theirs}
                  \/ Clash(base.text, ours.text, theirs.text)
                  \/ Clash(base.header, ours.header, theirs.header))
            => MergedFile(base, ours, theirs, both) \in {NoFile} \cup [text : T, header : Headers]
<1>1. CASE ~ Clash(base, ours, theirs)
  <2>1. MergedFile(base, ours, theirs, both) \in {ours, theirs}
    BY <1>1 DEF MergedFile, Pick
  <2> QED
    BY <2>1
<1>2. CASE Clash(base, ours, theirs) /\ ours = NoFile
  BY <1>2 DEF MergedFile
<1>3. CASE Clash(base, ours, theirs) /\ theirs = NoFile
  <2>1. MergedFile(base, ours, theirs, both) \in {ours, theirs}
    BY <1>3 DEF MergedFile
  <2> QED
    BY <2>1, <1>3
<1>4. CASE Clash(base, ours, theirs) /\ ours # NoFile /\ theirs # NoFile
  <2> DEFINE text == IF Clash(base.text, ours.text, theirs.text) THEN both
                     ELSE Pick(base.text, ours.text, theirs.text)
             header == IF Clash(base.header, ours.header, theirs.header) THEN Garbled
                       ELSE Pick(base.header, ours.header, theirs.header)
  <2>1. MergedFile(base, ours, theirs, both) = [text |-> text, header |-> header]
    BY <1>4 DEF MergedFile
  <2>2. ours.text \in T /\ theirs.text \in T /\ ours.header \in Headers /\ theirs.header \in Headers
    BY <1>4
  <2>3. /\ both \in T \/ ~ Clash(base.text, ours.text, theirs.text) => text \in T
        /\ header \in Headers \cup {Garbled}
        /\ ~ Clash(base.header, ours.header, theirs.header) => header \in Headers
    BY <2>2 DEF Pick
  <2> HIDE DEF text, header
  <2> QED
    BY <2>1, <2>3, <1>4
<1> QED
  BY <1>1, <1>2, <1>3, <1>4

LEMMA TreeTyped ==
  ASSUME commits \in Seq(CommitTypes), NEW c \in Commits
  PROVE  /\ Tree(c) \in [Items -> CleanFiles]
         /\ History(c) \subseteq Commits
         /\ \A n \in Items : Tree(c)[n] \in Files /\ Tree(c)[n].text \in Texts \cup {NoText}
<1>1. commits[c] \in CommitTypes
  BY DEF Commits
<1>2. Tree(c) \in [Items -> CleanFiles] /\ History(c) \subseteq Commits
  BY <1>1 DEF CommitTypes, Tree, History
<1>3. ASSUME NEW n \in Items PROVE Tree(c)[n] \in Files /\ Tree(c)[n].text \in Texts \cup {NoText}
  BY <1>2, FileFacts
<1> QED
  BY <1>2, <1>3

LEMMA Fields ==
  ASSUME SyncTyped
  PROVE  /\ madeFrom \in Seq(SUBSET Texts)
         /\ commits \in Seq(CommitTypes)
         /\ remote \in Commits
         /\ db \in [Sites -> [Items -> Texts \cup {NoText}]]
         /\ files \in [Sites -> [Items -> Files]]
         /\ head \in [Sites -> Commits]
         /\ merging \in [Sites -> Commits \cup {NoCommit}]
         /\ exported \in [Sites -> [Items -> CleanFiles]]
         /\ incoming \in [Sites -> [Items -> SUBSET Texts]]
         /\ \A s \in Sites : Tree(head[s]) \in [Items -> CleanFiles]
         /\ Tree(remote) \in [Items -> CleanFiles]
<1>1. commits \in Seq(CommitTypes)
  BY DEF SyncTyped, TypeOK, CommitTypes, CleanFiles
<1>2. remote \in Commits /\ \A s \in Sites : head[s] \in Commits
  BY DEF SyncTyped, TypeOK
<1> QED
  BY <1>1, <1>2, TreeTyped DEF SyncTyped, TypeOK

LEMMA SameSorts ==
  ASSUME UNCHANGED <<madeFrom, commits>>
  PROVE  /\ Grown
         /\ Texts' = Texts /\ Commits' = Commits
         /\ Files' = Files /\ CleanFiles' = CleanFiles /\ CommitTypes' = CommitTypes
<1>1. Texts' = Texts /\ Commits' = Commits
  BY DEF Texts, Commits
<1> QED
  BY <1>1 DEF Grown, Files, CleanFiles, CommitTypes

LEMMA RenderedTyped ==
  ASSUME NEW T, NoText \notin T, NEW nodes \in [Items -> T \cup {NoText}], NEW header \in Headers, NEW failed
  PROVE  Rendered(nodes, header, failed) \in [Items -> {NoFile} \cup [text : T, header : Headers]]
BY DEF Rendered

LEMMA CheckOutTyped ==
  ASSUME NEW s \in Sites, NEW tree, NEW F, files \in [Sites -> [Items -> F]], tree \in [Items -> F],
         CheckOut(s, tree)
  PROVE  files' \in [Sites -> [Items -> F]]
<1> DEFINE new == [n \in Items |-> IF files[s][n] # Tree(head[s])[n] THEN files[s][n] ELSE tree[n]]
<1>1. new \in [Items -> F]
  OBVIOUS
<1>2. files' = [files EXCEPT ![s] = new]
  BY DEF CheckOut
<1> HIDE DEF new
<1> QED
  BY <1>1, <1>2

LEMMA ReceiveTyped ==
  ASSUME NEW s \in Sites, SyncTyped, Receive(s)
  PROVE  incoming' \in [Sites -> [Items -> SUBSET Texts]]
<1> DEFINE new == [n \in Items |-> incoming[s][n] \cup 
                                {t \in {Tree(remote)[n].text} : ~ (Keeps(db[s][n], t) /\ Keeps(files[s][n].text, t))}]
<1>1. \A n \in Items : Tree(remote)[n].text \in Texts \cup {NoText}
  BY Fields, TreeTyped
<1>2. new \in [Items -> SUBSET Texts]
  BY <1>1, Fields DEF Keeps
<1>3. incoming' = [incoming EXCEPT ![s] = new]
  BY DEF Receive
<1> HIDE DEF new
<1> QED
  BY <1>2, <1>3, Fields

-----------------------------------------------------------------------------
(* The steps keep the types. *)

LEMMA EditTyped ==
  ASSUME SyncTyped, NEW s \in Sites, NEW n \in Items, Edit(s, n)
  PROVE  SyncTyped' /\ Grown
<1>1. /\ madeFrom' \in Seq(SUBSET Texts')
      /\ Texts' = Texts \cup {Len(madeFrom) + 1}
      /\ \A t \in Texts : madeFrom'[t] = madeFrom[t]
  BY Fields, NewTextTyped DEF Edit
<1>2. UNCHANGED <<commits, remote, files, head, merging, pc, exported, incoming>>
  BY DEF Edit, repository
<1>3. Commits' = Commits
  BY <1>2 DEF Commits
<1>4. db' = [db EXCEPT ![s][n] = Len(madeFrom) + 1]
  BY DEF Edit
<1>5. db' \in [Sites -> [Items -> Texts' \cup {NoText}]]
  BY <1>1, <1>4, Fields
<1>6. commits' \in Seq(CommitTypes')
  BY <1>1, <1>2, MoreTexts, Widened, Fields
<1>7. files' \in [Sites -> [Items -> Files']] /\ exported' \in [Sites -> [Items -> CleanFiles']]
      /\ exported' \in [Sites -> [Items -> Files']]
  BY <1>1, <1>2, MoreTexts, Fields DEF SyncTyped, TypeOK
<1>8. incoming' \in [Sites -> [Items -> SUBSET Texts']]
  BY <1>1, <1>2, Fields
<1>9. Grown
  BY <1>1, <1>2, <1>3 DEF Grown
<1> QED
  BY <1>1, <1>2, <1>3, <1>5, <1>6, <1>7, <1>8, <1>9 DEF SyncTyped, TypeOK, CommitTypes, CleanFiles

LEMMA ExportTyped ==
  ASSUME SyncTyped, NEW s \in Sites, Export(s)
  PROVE  SyncTyped' /\ Grown
<1>1. PICK failed : /\ files' = [files EXCEPT ![s] = Rendered(db[s], <<s, "key">>, failed)]
                    /\ exported' = [exported EXCEPT ![s] = Rendered(db[s], <<s, "key">>, failed)]
  BY DEF Export
<1> DEFINE new == Rendered(db[s], <<s, "key">>, failed)
<1>2. new \in [Items -> CleanFiles]
  <2>1. <<s, "key">> \in Headers /\ db[s] \in [Items -> Texts \cup {NoText}] /\ NoText \notin Texts
    BY Fields DEF Headers, Texts, NoText
  <2> QED
    BY <2>1, RenderedTyped DEF CleanFiles
<1>3. new \in [Items -> Files]
  BY <1>2, FileFacts
<1> HIDE DEF new
<1>4. UNCHANGED <<madeFrom, commits, remote, db, head, merging, incoming>> /\ pc' = [pc EXCEPT ![s] = "exported"]
  BY DEF Export
<1>5. files' = [files EXCEPT ![s] = new] /\ exported' = [exported EXCEPT ![s] = new]
  BY <1>1 DEF new
<1>6. exported' \in [Sites -> [Items -> CleanFiles']] /\ exported' \in [Sites -> [Items -> Files']]
      /\ files' \in [Sites -> [Items -> Files']]
  BY <1>2, <1>3, <1>4, <1>5, SameSorts DEF SyncTyped, TypeOK
<1>7. Grown /\ Texts' = Texts /\ Commits' = Commits
  BY <1>4, SameSorts
<1> QED
  BY <1>4, <1>6, <1>7 DEF SyncTyped, TypeOK

\* Steps that make no text and no commit and leave the files alone, or make
\* them those of the branch.
LEMMA PlainTyped ==
  ASSUME SyncTyped, NEW s \in Sites,
         \/ NothingToCommit(s) \/ Push(s) \/ PushRefused(s) \/ AbortMerge(s) \/ UNCHANGED vars
  PROVE  SyncTyped' /\ Grown
<1>1. UNCHANGED <<madeFrom, commits, db, head, exported, incoming>>
  BY DEF NothingToCommit, Push, PushRefused, AbortMerge, vars, repository
<1>2. /\ Grown
      /\ Texts' = Texts /\ Commits' = Commits
      /\ Files' = Files /\ CleanFiles' = CleanFiles /\ CommitTypes' = CommitTypes
  BY <1>1, SameSorts
<1>3. remote' \in {remote, head[s]} /\ remote' \in Commits
  BY Fields DEF NothingToCommit, Push, PushRefused, AbortMerge, vars, repository
<1>4. merging' \in [Sites -> Commits \cup {NoCommit}]
  BY Fields DEF NothingToCommit, Push, PushRefused, AbortMerge, vars, repository
<1>5. files' \in [Sites -> [Items -> Files]]
  <2>1. Tree(head[s]) \in [Items -> Files]
    BY Fields, TreeTyped
  <2>2. files' = files \/ files' = [files EXCEPT ![s] = Tree(head[s])]
    BY DEF NothingToCommit, Push, PushRefused, AbortMerge, vars, repository
  <2> QED
    BY <2>1, <2>2, Fields
<1>6. pc' \in [Sites -> {"idle", "exported", "committed", "succeeded", "pushed", "conflict", "aborted"}]
  BY DEF NothingToCommit, Push, PushRefused, AbortMerge, vars, repository, SyncTyped, TypeOK
<1> QED
  BY <1>1, <1>2, <1>3, <1>4, <1>5, <1>6 DEF SyncTyped, TypeOK

LEMMA StopTyped ==
  ASSUME SyncTyped, NEW s \in Sites, Stop(s)
  PROVE  SyncTyped' /\ Grown
<1>1. UNCHANGED <<madeFrom, commits, remote, db, files, head, merging, incoming>> /\ pc' = [pc EXCEPT ![s] = "idle"]
      /\ exported' = [exported EXCEPT ![s] = [n \in Items |-> NoFile]]
  BY DEF Stop, repository
<1>2. /\ Grown
      /\ Texts' = Texts /\ Commits' = Commits
      /\ Files' = Files /\ CleanFiles' = CleanFiles
  BY <1>1, SameSorts
<1>3. exported' \in [Sites -> [Items -> CleanFiles]] /\ exported' \in [Sites -> [Items -> Files]]
  <2>1. NoFile \in CleanFiles /\ NoFile \in Files
    BY DEF CleanFiles, Files
  <2> QED
    BY <1>1, <2>1, Fields DEF SyncTyped, TypeOK
<1> QED
  BY <1>1, <1>2, <1>3 DEF SyncTyped, TypeOK

\* The two effects of an import are typed, whatever it skips.
LEMMA ImportedTyped ==
  ASSUME SyncTyped, NEW s \in Sites, NEW skipped
  PROVE  /\ Imported(s, skipped) \in [Items -> Texts \cup {NoText}]
         /\ ImportFiles(s, skipped) => /\ db' \in [Sites -> [Items -> Texts \cup {NoText}]]
                                       /\ incoming' \in [Sites -> [Items -> SUBSET Texts]]
<1>1. \A n \in Items : files[s][n].text \in Texts \cup {NoText}
  BY Fields, FileFacts
<1>2. Imported(s, skipped) \in [Items -> Texts \cup {NoText}]
  BY <1>1, Fields DEF Imported
<1>3. ASSUME ImportFiles(s, skipped)
      PROVE  /\ db' \in [Sites -> [Items -> Texts \cup {NoText}]]
             /\ incoming' \in [Sites -> [Items -> SUBSET Texts]]
  <2> DEFINE new == [n \in Items |-> IF n \in skipped THEN incoming[s][n]
                                     ELSE {t \in incoming[s][n] : ~ Keeps(files[s][n].text, t)}]
  <2>1. new \in [Items -> SUBSET Texts]
    BY Fields
  <2>2. incoming' = [incoming EXCEPT ![s] = new] /\ db' = [db EXCEPT ![s] = Imported(s, skipped)]
    BY <1>3 DEF ImportFiles
  <2> HIDE DEF new
  <2> QED
    BY <1>2, <2>1, <2>2, Fields
<1> QED
  BY <1>2, <1>3

LEMMA ImportTyped ==
  ASSUME SyncTyped, NEW s \in Sites, Import(s)
  PROVE  SyncTyped' /\ Grown
<1>1. UNCHANGED <<madeFrom, commits, remote, files, head, merging, exported>> /\ pc' = [pc EXCEPT ![s] = "idle"]
  BY DEF Import, repository
<1>2. /\ db' \in [Sites -> [Items -> Texts \cup {NoText}]]
      /\ incoming' \in [Sites -> [Items -> SUBSET Texts]]
  BY ImportedTyped DEF Import
<1>3. /\ Grown
      /\ Texts' = Texts /\ Commits' = Commits
      /\ Files' = Files /\ CleanFiles' = CleanFiles
  BY <1>1, SameSorts
<1> QED
  BY <1>1, <1>2, <1>3 DEF SyncTyped, TypeOK

LEMMA PullForwardTyped ==
  ASSUME SyncTyped, NEW s \in Sites, PullForward(s)
  PROVE  SyncTyped' /\ Grown
<1>1. UNCHANGED <<madeFrom, commits, remote, db, merging, pc, exported>> /\ head' = [head EXCEPT ![s] = remote]
  BY DEF PullForward
<1>2. incoming' \in [Sites -> [Items -> SUBSET Texts]]
  BY ReceiveTyped DEF PullForward
<1>3. files' \in [Sites -> [Items -> Files]]
  <2>1. Tree(remote) \in [Items -> Files]
    BY Fields, TreeTyped
  <2> QED
    BY <2>1, Fields, CheckOutTyped DEF PullForward
<1>4. /\ Grown
      /\ Texts' = Texts /\ Commits' = Commits
      /\ Files' = Files /\ CleanFiles' = CleanFiles
  BY <1>1, SameSorts
<1> QED
  BY <1>1, <1>2, <1>3, <1>4 DEF SyncTyped, TypeOK

\* What a commit of files without markers makes.
LEMMA CommitTreeTyped ==
  ASSUME SyncTyped, NEW s \in Sites, NEW tree \in [Items -> CleanFiles], CommitTree(s, tree),
         UNCHANGED madeFrom
  PROVE  /\ Grown
         /\ Texts' = Texts /\ Commits' = Commits \cup {Len(commits) + 1}
         /\ Files' = Files /\ CleanFiles' = CleanFiles
         /\ commits' \in Seq(CommitTypes')
         /\ head' \in [Sites -> Commits']
         /\ merging' \in [Sites -> Commits' \cup {NoCommit}]
<1> DEFINE parents == {head[s], merging[s]} \ {NoCommit}
<1>1. parents \in SUBSET Commits
  BY Fields
<1>2. NewCommit(tree, parents)
  BY DEF CommitTree
<1> HIDE DEF parents
<1>3. /\ commits' \in Seq(CommitTypes')
      /\ Commits' = Commits \cup {Len(commits) + 1}
      /\ \A c \in Commits : commits'[c] = commits[c]
  BY <1>1, <1>2, Fields, NewCommitTyped
<1>4. Texts' = Texts
  BY DEF Texts
<1>5. /\ head' = [head EXCEPT ![s] = Len(commits) + 1]
      /\ merging' = [merging EXCEPT ![s] = NoCommit]
  BY DEF CommitTree
<1> QED
  BY <1>3, <1>4, <1>5, Fields DEF Grown, Files, CleanFiles

LEMMA CommitTyped ==
  ASSUME SyncTyped, PushInv, NEW s \in Sites, Commit(s)
  PROVE  SyncTyped' /\ Grown
<1>1. files[s] \in [Items -> CleanFiles]
  BY Fields DEF Commit, PushInv, FilesAreExported
<1>2. UNCHANGED <<madeFrom, remote, db, files, exported, incoming>> /\ CommitTree(s, files[s])
      /\ pc' = [pc EXCEPT ![s] = "committed"]
  BY DEF Commit
<1> QED
  BY <1>1, <1>2, CommitTreeTyped DEF SyncTyped, TypeOK, CommitTypes, CleanFiles

LEMMA ResolveWithDbTyped ==
  ASSUME SyncTyped, NEW s \in Sites, ResolveWithDb(s)
  PROVE  SyncTyped' /\ Grown
<1>1. PICK skipped \in SUBSET Items, failed \in SUBSET WriteFailures(s) :
        LET tree == Rendered(Imported(s, skipped), <<s, "creator">>, failed)
        IN  /\ ImportFiles(s, skipped) \/ UNCHANGED <<db, incoming>>
            /\ files' = [files EXCEPT ![s] = tree]
            /\ IF tree = Tree(head[s]) THEN UNCHANGED <<commits, head, merging>>
                                       ELSE CommitTree(s, tree)
  BY DEF ResolveWithDb
<1> DEFINE tree == Rendered(Imported(s, skipped), <<s, "creator">>, failed)
<1>2. tree \in [Items -> CleanFiles]
  <2>1. <<s, "creator">> \in Headers /\ Imported(s, skipped) \in [Items -> Texts \cup {NoText}] /\ NoText \notin Texts
    BY ImportedTyped DEF Headers, Texts, NoText
  <2> QED
    BY <2>1, RenderedTyped DEF CleanFiles
<1>3. tree \in [Items -> Files]
  BY <1>2, FileFacts
<1>4. /\ ImportFiles(s, skipped) \/ UNCHANGED <<db, incoming>>
      /\ files' = [files EXCEPT ![s] = tree]
      /\ UNCHANGED <<commits, head, merging>> \/ CommitTree(s, tree)
  BY <1>1
<1> HIDE DEF tree
<1>5. UNCHANGED <<madeFrom, remote, exported>> /\ pc' = [pc EXCEPT ![s] = "idle"]
  BY DEF ResolveWithDb
<1>6. /\ db' \in [Sites -> [Items -> Texts \cup {NoText}]]
      /\ incoming' \in [Sites -> [Items -> SUBSET Texts]]
  BY <1>4, ImportedTyped, Fields
<1>7. /\ Grown
      /\ Texts' = Texts /\ Commits \subseteq Commits'
      /\ Files' = Files /\ CleanFiles' = CleanFiles
      /\ commits' \in Seq(CommitTypes')
      /\ head' \in [Sites -> Commits']
      /\ merging' \in [Sites -> Commits' \cup {NoCommit}]
  <2>1. CASE UNCHANGED <<commits, head, merging>>
    BY <2>1, <1>5, SameSorts, Fields
  <2>2. CASE CommitTree(s, tree)
    BY <2>2, <1>2, <1>5, CommitTreeTyped
  <2> QED
    BY <2>1, <2>2, <1>4
<1>8. files' \in [Sites -> [Items -> Files]]
  BY <1>3, <1>4, Fields
<1> QED
  BY <1>5, <1>6, <1>7, <1>8 DEF SyncTyped, TypeOK, CommitTypes, CleanFiles

LEMMA MergedTyped ==
  ASSUME SyncTyped, NEW s \in Sites, NEW both
  PROVE  /\ Conflicts(s) = {} => Merged(s, both) \in [Items -> CleanFiles]
         /\ \A T : Texts \subseteq T /\ both \in T /\ NoText \notin T =>
              Merged(s, both) \in [Items -> {NoFile} \cup [text : T, header : Headers \cup {Garbled}]]
<1> DEFINE base(n) == Tree(MergeBase(head[s], remote))[n]
           ours(n) == Tree(head[s])[n]
           theirs(n) == Tree(remote)[n]
           file(n) == MergedFile(base(n), ours(n), theirs(n), both)
<1>1. \A n \in Items : ours(n) \in CleanFiles /\ theirs(n) \in CleanFiles
  BY Fields
<1>2. Merged(s, both) = [n \in Items |-> file(n)]
  BY DEF Merged
<1>3. NoText \notin Texts
  BY DEF NoText, Texts
<1>4. ASSUME Conflicts(s) = {}, NEW n \in Items PROVE file(n) \in CleanFiles
  <2>1. ~ (/\ Clash(base(n), ours(n), theirs(n))
           /\ \/ NoFile \in {ours(n), theirs(n)}
              \/ Clash(base(n).text, ours(n).text, theirs(n).text)
              \/ Clash(base(n).header, ours(n).header, theirs(n).header))
    BY <1>4 DEF Conflicts
  <2> HIDE DEF base, ours, theirs
  <2> QED
    BY <1>1, <1>3, <2>1, MergeIsFile DEF CleanFiles
<1>5. ASSUME NEW T, Texts \subseteq T, both \in T, NoText \notin T, NEW n \in Items
      PROVE  file(n) \in {NoFile} \cup [text : T, header : Headers \cup {Garbled}]
  <2>1. /\ ours(n) \in {NoFile} \cup [text : T, header : Headers]
        /\ theirs(n) \in {NoFile} \cup [text : T, header : Headers]
    BY <1>1, <1>5 DEF CleanFiles
  <2> HIDE DEF base, ours, theirs
  <2> QED
    BY <1>5, <2>1, MergeIsFile
<1> HIDE DEF file
<1> QED
  BY <1>2, <1>4, <1>5

LEMMA PullMergeTyped ==
  ASSUME SyncTyped, NEW s \in Sites, PullMerge(s)
  PROVE  SyncTyped' /\ Grown
<1>1. Merged(s, NoText) \in [Items -> CleanFiles]
  BY MergedTyped DEF PullMerge
<1>2. Merged(s, NoText) \in [Items -> Files]
  BY <1>1, FileFacts
<1>3. files' \in [Sites -> [Items -> Files]]
  BY <1>2, Fields, CheckOutTyped DEF PullMerge
<1>4. incoming' \in [Sites -> [Items -> SUBSET Texts]]
  BY ReceiveTyped DEF PullMerge
<1>5. UNCHANGED <<madeFrom, remote, db, merging, pc, exported>> /\ head' = [head EXCEPT ![s] = Len(commits) + 1]
  BY DEF PullMerge
<1>6. /\ commits' \in Seq(CommitTypes')
      /\ Commits' = Commits \cup {Len(commits) + 1}
      /\ \A c \in Commits : commits'[c] = commits[c]
  <2>1. {head[s], remote} \in SUBSET Commits /\ commits \in Seq(CommitTypes)
    BY Fields
  <2>2. NewCommit(Merged(s, NoText), {head[s], remote})
    BY DEF PullMerge
  <2> QED
    BY <1>1, <1>5, <2>1, <2>2, NewCommitTyped
<1>7. Texts' = Texts
  BY <1>5 DEF Texts
<1> QED
  BY <1>3, <1>4, <1>5, <1>6, <1>7, Fields DEF SyncTyped, TypeOK, CommitTypes, CleanFiles, Files, Grown

LEMMA PullConflictTyped ==
  ASSUME SyncTyped, NEW s \in Sites, NEW manual \in BOOLEAN, PullConflict(s, manual)
  PROVE  SyncTyped' /\ Grown
<1> DEFINE sources == {Tree(c)[n].text : c \in {head[s], remote}, n \in Conflicts(s)}
           both == Len(madeFrom) + 1
<1>1. sources \in SUBSET (Texts \cup {NoText})
  BY Fields, TreeTyped DEF Conflicts
<1>2. NewText(sources)
  BY DEF PullConflict
<1> HIDE DEF sources
<1>3. /\ madeFrom' \in Seq(SUBSET Texts')
      /\ Texts' = Texts \cup {both}
      /\ \A t \in Texts : madeFrom'[t] = madeFrom[t]
  BY <1>1, <1>2, Fields, NewTextTyped
<1>4. UNCHANGED <<commits, remote, db, head, exported>> /\ merging' = [merging EXCEPT ![s] = remote]
      /\ pc' = [pc EXCEPT ![s] = IF manual THEN "idle" ELSE "conflict"]
  BY DEF PullConflict
<1>5. Merged(s, both) \in [Items -> Files']
  <2>1. NoText \notin Texts'
    BY DEF Texts, NoText
  <2> HIDE DEF both
  <2> QED
    BY <1>3, <2>1, MergedTyped DEF Files
<1>6. Commits' = Commits
  BY <1>4 DEF Commits
<1>7. /\ Files \subseteq Files' /\ [Items -> Files] \subseteq [Items -> Files']
      /\ CommitTypes \subseteq CommitTypes' /\ [Items -> CleanFiles] \subseteq [Items -> CleanFiles']
  BY <1>3, <1>4, MoreTexts
<1>8. files' \in [Sites -> [Items -> Files']]
  <2>1. files \in [Sites -> [Items -> Files']]
    BY <1>7, Fields
  <2>2. CheckOut(s, Merged(s, both))
    BY DEF PullConflict
  <2> HIDE DEF both
  <2> QED
    BY <1>5, <2>1, <2>2, CheckOutTyped
<1>9. incoming' \in [Sites -> [Items -> SUBSET Texts']]
  BY <1>3, ReceiveTyped DEF PullConflict
<1>10. commits' \in Seq(CommitTypes')
  BY <1>4, <1>7, Widened, Fields
<1>11. exported' \in [Sites -> [Items -> CleanFiles']] /\ exported' \in [Sites -> [Items -> Files']]
  BY <1>4, <1>7, Fields DEF SyncTyped, TypeOK
<1>12. Grown
  BY <1>3, <1>4, <1>6 DEF Grown
<1>13. db' \in [Sites -> [Items -> Texts' \cup {NoText}]]
  BY <1>3, <1>4, Fields
<1> QED
  BY <1>3, <1>4, <1>6, <1>8, <1>9, <1>10, <1>11, <1>12, <1>13, Fields DEF SyncTyped, TypeOK, CommitTypes, CleanFiles

LEMMA InitTyped == ASSUME Init PROVE SyncTyped
<1> DEFINE tree == [n \in Items |-> [text |-> 1, header |-> <<Founder, "key">>]]
           first == [tree |-> tree, past |-> {}]
<1>1. /\ madeFrom = <<{}>> /\ commits = <<first>> /\ remote = 1
      /\ db = [s \in Sites |-> [n \in Items |-> IF s = Founder THEN 1 ELSE NoText]]
      /\ files = [s \in Sites |-> tree]
      /\ head = [s \in Sites |-> 1]
      /\ merging = [s \in Sites |-> NoCommit]
      /\ pc = [s \in Sites |-> "idle"]
      /\ exported = [s \in Sites |-> [n \in Items |-> NoFile]]
      /\ incoming = [s \in Sites |-> [n \in Items |-> IF s = Founder THEN {} ELSE {1}]]
  BY DEF Init
<1>2. Texts = {1} /\ Commits = {1}
  BY <1>1 DEF Texts, Commits
<1>3. tree \in [Items -> CleanFiles] /\ tree \in [Items -> Files] /\ NoFile \in CleanFiles /\ NoFile \in Files
  BY <1>2, GitSyncAssumption DEF CleanFiles, Files, Headers
<1>4. first \in CommitTypes
  BY <1>3 DEF CommitTypes
<1> HIDE DEF tree, first
<1>5. commits \in Seq(CommitTypes) /\ madeFrom \in Seq(SUBSET Texts)
  BY <1>1, <1>4
<1> QED
  BY <1>1, <1>2, <1>3, <1>5 DEF SyncTyped, TypeOK, CommitTypes, CleanFiles

LEMMA NextTyped == ASSUME SyncTyped, PushInv, [Next]_vars PROVE SyncTyped' /\ Grown
<1>1. ASSUME NEW s \in Sites, Call(s) PROVE SyncTyped' /\ Grown
  BY <1>1, ExportTyped, PlainTyped, CommitTyped, PullForwardTyped, PullMergeTyped, PullConflictTyped,
     ImportTyped, ResolveWithDbTyped, StopTyped DEF Call
<1>2. ASSUME NEW s \in Sites, NEW n \in Items, Edit(s, n) PROVE SyncTyped' /\ Grown
  BY <1>2, EditTyped
<1>3. CASE UNCHANGED vars
  BY <1>3, PlainTyped, GitSyncAssumption
<1> QED
  BY <1>1, <1>2, <1>3 DEF Next

LEMMA AlwaysTyped == Spec => [](PushInv /\ SyncTyped)
BY PushInvInit, PushInvStep, InitTyped, NextTyped, PTL DEF Spec

\* Nothing that git, an import or an edit does leaves the types; above all, no
\* commit ever has conflict markers in a header.
THEOREM SyncTypes == Spec => []TypeOK
BY AlwaysTyped, PTL DEF SyncTyped

-----------------------------------------------------------------------------
(***************************************************************************)
(* Merge bases.                                                            *)
(***************************************************************************)
\* What two sites have in common they have from the remote.
Apart == \A s, r \in Sites : s # r => History(head[s]) \cap History(head[r]) \subseteq History(remote)

\* What a site and the remote have in common is the history of one commit.
HasBase == \A s \in Sites : \E b \in History(head[s]) \cap History(remote) :
             History(head[s]) \cap History(remote) \subseteq History(b)

\* A merge in progress is of all that the remote had in common with the site.
MergingSound == \A s \in Sites : merging[s] # NoCommit =>
                  /\ History(merging[s]) \subseteq History(remote)
                  /\ History(head[s]) \cap History(remote) \subseteq History(merging[s])

\* An aborted merge has left the files of the branch.
AbortedIsClean == \A s \in Sites : pc[s] = "aborted" => files[s] = Tree(head[s]) /\ merging[s] = NoCommit

BasesInv == Apart /\ HasBase /\ MergingSound

SyncInv == PushInv /\ SyncTyped /\ BasesInv /\ AbortedIsClean

LEMMA PastsKept ==
  ASSUME Grown, SyncTyped, NEW c \in Commits
  PROVE  /\ History(c)' = History(c) /\ Tree(c)' = Tree(c)
         /\ History(c) \subseteq Commits /\ c \in History(c)
BY Fields, TreeTyped DEF Grown, History, Tree

LEMMA PastsNested ==
  ASSUME PushInv, NEW c \in Commits, NEW b \in History(c)
  PROVE  History(b) \subseteq History(c)
BY DEF PushInv, PastClosed, History

LEMMA NewPast ==
  ASSUME SyncTyped, NEW tree \in [Items -> CleanFiles], NEW parents \in SUBSET Commits,
         NewCommit(tree, parents), UNCHANGED madeFrom, NEW new, new = Len(commits) + 1
  PROVE  /\ History(new)' = (UNION {History(p) : p \in parents}) \cup {new}
         /\ Tree(new)' = tree
         /\ new \in Commits' \ Commits
<1> DEFINE past == UNION {History(p) : p \in parents}
<1>1. commits'[new] = [tree |-> tree, past |-> past] /\ new \in Commits' \ Commits
  BY Fields, NewCommitTyped
<1> HIDE DEF past
<1>2. commits'[new].past = past /\ commits'[new].tree = tree
  BY <1>1
<1>3. History(new)' = past \cup {new} /\ Tree(new)' = tree
  BY <1>2 DEF History, Tree
<1> QED
  BY <1>1, <1>3 DEF past

LEMMA SameBases ==
  ASSUME BasesInv, UNCHANGED <<commits, remote, head, merging>>
  PROVE  BasesInv'
BY DEF BasesInv, Apart, HasBase, MergingSound, History, NoCommit

\* A commit adds nothing that another site or the remote has.
LEMMA CommitBases ==
  ASSUME SyncTyped, PushInv, BasesInv, Grown, NEW s \in Sites, NEW tree \in [Items -> CleanFiles],
         CommitTree(s, tree), UNCHANGED <<madeFrom, remote>>
  PROVE  BasesInv'
<1> DEFINE parents == {head[s], merging[s]} \ {NoCommit}
<1>0. PICK new : new = Len(commits) + 1
  OBVIOUS
<1>1. /\ History(new)' = (UNION {History(p) : p \in parents}) \cup {new}
      /\ new \in Commits' \ Commits
  <2>1. parents \in SUBSET Commits
    BY Fields
  <2>2. NewCommit(tree, parents)
    BY DEF CommitTree
  <2> HIDE DEF parents
  <2> QED
    BY <1>0, <2>1, <2>2, NewPast
<1>2. /\ head' = [head EXCEPT ![s] = new]
      /\ merging' = [merging EXCEPT ![s] = NoCommit]
  BY <1>0 DEF CommitTree
<1>3. \A c \in Commits : History(c)' = History(c) /\ History(c) \subseteq Commits /\ c \in History(c)
  BY PastsKept
<1>4. remote \in Commits /\ head \in [Sites -> Commits] /\ merging \in [Sites -> Commits \cup {NoCommit}]
  BY Fields
<1>5. History(remote)' = History(remote) /\ new \notin History(remote)
  BY <1>1, <1>3, <1>4 DEF History
<1>6. /\ History(head[s])' = History(new)'
      /\ \A r \in Sites \ {s} : History(head[r])' = History(head[r]) /\ new \notin History(head[r])
  BY <1>1, <1>2, <1>3, <1>4 DEF History
<1>7. \A x \in History(new)' : x = new \/ x \in History(head[s])
                               \/ (merging[s] # NoCommit /\ x \in History(merging[s]))
  BY <1>1
<1>8. History(head[s]) \subseteq History(new)'
      /\ (merging[s] # NoCommit => History(merging[s]) \subseteq History(new)')
  <2>1. NoCommit \notin Commits /\ head[s] \in Commits
    BY <1>4 DEF Commits, NoCommit
  <2> QED
    BY <2>1, <1>1
<1>9. Apart'
  <2>1. ASSUME NEW r \in Sites \ {s} PROVE History(new)' \cap History(head[r]) \subseteq History(remote)
    BY <1>6, <1>7 DEF BasesInv, Apart, MergingSound
  <2> QED
    BY <1>5, <1>6, <2>1 DEF BasesInv, Apart
<1>10. HasBase'
  <2>1. ASSUME NEW r \in Sites
        PROVE  \E b \in History(head[r])' \cap History(remote) :
                 History(head[r])' \cap History(remote) \subseteq History(b)
    <3>1. CASE r # s
      BY <3>1, <1>6 DEF BasesInv, HasBase
    <3>2. CASE r = s /\ merging[s] = NoCommit
      BY <3>2, <1>5, <1>6, <1>7, <1>8 DEF BasesInv, HasBase
    <3>3. CASE r = s /\ merging[s] # NoCommit
      <4>1. merging[s] \in Commits /\ merging[s] \in History(merging[s])
        BY <3>3, <1>3, <1>4
      <4> QED
        BY <3>3, <4>1, <1>5, <1>6, <1>7, <1>8 DEF BasesInv, MergingSound
    <3> QED
      BY <3>1, <3>2, <3>3
  <2>2. \A b \in History(remote) : History(b)' = History(b)
    BY <1>3, <1>4
  <2> QED
    BY <1>5, <2>1, <2>2 DEF HasBase
<1>11. MergingSound'
  <2> SUFFICES ASSUME NEW r \in Sites, merging'[r] # NoCommit
               PROVE  /\ History(merging[r])' \subseteq History(remote)
                      /\ History(head[r])' \cap History(remote) \subseteq History(merging[r])'
    BY <1>5 DEF MergingSound, NoCommit
  <2>1. r # s /\ merging'[r] = merging[r] /\ merging[r] \in Commits /\ merging[r] # NoCommit
    BY <1>2, <1>4
  <2>2. History(merging[r])' = History(merging[r])
    BY <2>1, <1>3 DEF History
  <2> QED
    BY <2>1, <2>2, <1>6 DEF BasesInv, MergingSound
<1> QED
  BY <1>9, <1>10, <1>11 DEF BasesInv

\* After a push the remote has all that the site has.
LEMMA PushBases ==
  ASSUME SyncTyped, PushInv, BasesInv, NEW s \in Sites, Push(s)
  PROVE  BasesInv'
<1>1. /\ UNCHANGED <<commits, head, merging>>
      /\ remote' = head[s] /\ remote \in History(head[s])
      /\ merging[s] = NoCommit
  BY DEF Push, FastForward, repository, PushInv, CommitIsExported
<1>2. head[s] \in Commits /\ remote \in Commits
  BY Fields
<1>3. History(remote) \subseteq History(head[s]) /\ head[s] \in History(head[s])
  BY <1>1, <1>2, PastsNested DEF History
<1>4. History(remote)' = History(head[s])
  BY <1>1 DEF History
<1>5. \A r \in Sites : History(head[r])' = History(head[r]) /\ History(merging[r])' = History(merging[r])
  BY <1>1 DEF History
<1>6. \A r \in Sites \ {s} : History(head[r]) \cap History(head[s]) = History(head[r]) \cap History(remote)
  BY <1>3 DEF BasesInv, Apart
<1>7. Apart'
  BY <1>3, <1>4, <1>5 DEF BasesInv, Apart
<1>8. HasBase'
  <2>1. \A b : History(b)' = History(b)
    BY <1>1 DEF History
  <2>2. ASSUME NEW r \in Sites
        PROVE  \E b \in History(head[r]) \cap History(head[s]) :
                 History(head[r]) \cap History(head[s]) \subseteq History(b)
    <3>1. CASE r = s
      BY <3>1, <1>3
    <3>2. CASE r # s
      BY <3>2, <1>6 DEF BasesInv, HasBase
    <3> QED
      BY <3>1, <3>2
  <2> QED
    BY <1>4, <1>5, <2>1, <2>2 DEF HasBase
<1>9. MergingSound'
  <2>1. ASSUME NEW r \in Sites, merging[r] # NoCommit
        PROVE  /\ History(merging[r]) \subseteq History(head[s])
               /\ History(head[r]) \cap History(head[s]) \subseteq History(merging[r])
    BY <2>1, <1>1, <1>3, <1>6 DEF BasesInv, MergingSound
  <2> QED
    BY <1>1, <1>4, <1>5, <2>1 DEF MergingSound, NoCommit
<1> QED
  BY <1>7, <1>8, <1>9 DEF BasesInv

\* After a pull the remote is what the site and the remote have in common.
LEMMA PullBases ==
  ASSUME SyncTyped, PushInv, BasesInv, Grown, NEW s \in Sites, PullForward(s) \/ PullMerge(s)
  PROVE  BasesInv'
<1>1. /\ UNCHANGED <<remote, merging, madeFrom>>
      /\ merging[s] = NoCommit
  BY DEF PullForward, PullMerge, CanMerge
<1>2. remote \in Commits /\ head \in [Sites -> Commits] /\ merging \in [Sites -> Commits \cup {NoCommit}]
  BY Fields
<1>3. \A c \in Commits : History(c)' = History(c) /\ History(c) \subseteq Commits /\ c \in History(c)
  BY PastsKept
<1>4. History(remote)' = History(remote)
  BY <1>1, <1>2, <1>3 DEF History
<1>5. PICK new : /\ head' = [head EXCEPT ![s] = new]
                 /\ History(remote) \subseteq History(new)'
                 /\ \A x \in History(new)' : x \in Commits => x \in History(head[s]) \cup History(remote)
  <2>1. CASE PullForward(s)
    <3>1. head' = [head EXCEPT ![s] = remote] /\ UNCHANGED commits
      BY <2>1 DEF PullForward
    <3>2. PICK new : new = remote
      OBVIOUS
    <3>3. History(new)' = History(remote)
      BY <3>1, <3>2 DEF History
    <3> QED
      BY <3>1, <3>2, <3>3
  <2>2. CASE PullMerge(s)
    <3>1. PICK new : new = Len(commits) + 1
      OBVIOUS
    <3>2. NewCommit(Merged(s, NoText), {head[s], remote}) /\ Conflicts(s) = {}
      BY <2>2 DEF PullMerge
    <3>3. {head[s], remote} \in SUBSET Commits /\ Merged(s, NoText) \in [Items -> CleanFiles]
      BY <1>2, <3>2, MergedTyped
    <3>4. History(new)' = (UNION {History(p) : p \in {head[s], remote}}) \cup {new} /\ new \notin Commits
      BY <1>1, <3>1, <3>2, <3>3, NewPast
    <3>5. head' = [head EXCEPT ![s] = new]
      BY <2>2, <3>1 DEF PullMerge
    <3> QED
      BY <3>4, <3>5
  <2> QED
    BY <2>1, <2>2
<1>6. /\ History(head[s])' = History(new)'
      /\ \A r \in Sites \ {s} : History(head[r])' = History(head[r]) /\ History(head[r]) \subseteq Commits
  BY <1>2, <1>3, <1>5 DEF History
<1>7. remote \in History(remote) /\ History(remote) \subseteq Commits
  BY <1>2, <1>3
<1>8. Apart'
  <2>1. ASSUME NEW r \in Sites \ {s} PROVE History(new)' \cap History(head[r]) \subseteq History(remote)
    BY <1>5, <1>6 DEF BasesInv, Apart
  <2> QED
    BY <1>4, <1>6, <2>1 DEF BasesInv, Apart
<1>9. HasBase'
  <2>1. ASSUME NEW r \in Sites
        PROVE  \E b \in History(head[r])' \cap History(remote) :
                 History(head[r])' \cap History(remote) \subseteq History(b)
    <3>1. CASE r # s
      BY <3>1, <1>6 DEF BasesInv, HasBase
    <3>2. CASE r = s
      BY <3>2, <1>5, <1>6, <1>7
    <3> QED
      BY <3>1, <3>2
  <2>2. \A b \in History(remote) : History(b)' = History(b)
    BY <1>3, <1>7
  <2> QED
    BY <1>4, <2>1, <2>2 DEF HasBase
<1>10. MergingSound'
  <2> SUFFICES ASSUME NEW r \in Sites, merging[r] # NoCommit
               PROVE  /\ History(merging[r])' \subseteq History(remote)
                      /\ History(head[r])' \cap History(remote) \subseteq History(merging[r])'
    BY <1>1, <1>4 DEF MergingSound, NoCommit
  <2>1. r # s /\ merging[r] \in Commits
    BY <1>1, <1>2
  <2>2. History(merging[r])' = History(merging[r])
    BY <2>1, <1>1, <1>3 DEF History
  <2> QED
    BY <2>1, <2>2, <1>6 DEF BasesInv, MergingSound
<1> QED
  BY <1>8, <1>9, <1>10 DEF BasesInv

LEMMA MergingBases ==
  ASSUME SyncTyped, BasesInv, NEW s \in Sites, UNCHANGED <<commits, remote, head>>,
         \/ merging' = [merging EXCEPT ![s] = remote]
         \/ merging' = [merging EXCEPT ![s] = NoCommit]
  PROVE  BasesInv'
<1>1. /\ \A c : History(c)' = History(c)
      /\ History(remote)' = History(remote)
      /\ \A r \in Sites : History(head[r])' = History(head[r])
  BY DEF History
<1>2. Apart' /\ HasBase'
  BY <1>1 DEF BasesInv, Apart, HasBase
<1>3. ASSUME NEW r \in Sites, merging'[r] # NoCommit
      PROVE  /\ History(merging[r])' \subseteq History(remote)
             /\ History(head[r]) \cap History(remote) \subseteq History(merging[r])'
  <2>1. \/ merging'[r] = merging[r] /\ merging[r] # NoCommit
        \/ merging'[r] = remote
    BY <1>3, Fields
  <2>2. CASE merging'[r] = merging[r] /\ merging[r] # NoCommit
    <3>1. History(merging[r])' = History(merging[r])
      BY <2>2 DEF History
    <3> QED
      BY <2>2, <3>1 DEF BasesInv, MergingSound
  <2>3. CASE merging'[r] = remote
    <3>1. History(merging[r])' = History(remote)
      BY <2>3 DEF History
    <3> QED
      BY <3>1
  <2> QED
    BY <2>1, <2>2, <2>3
<1>4. MergingSound'
  BY <1>1, <1>3 DEF MergingSound, NoCommit
<1> QED
  BY <1>2, <1>4 DEF BasesInv

\* The merge base exists, and both sides have it.
LEMMA BaseExists ==
  ASSUME SyncTyped, PushInv, BasesInv, NEW s \in Sites
  PROVE  /\ MergeBase(head[s], remote) \in History(head[s]) \cap History(remote)
         /\ MergeBase(head[s], remote) \in Commits
<1>1. PICK b \in History(head[s]) \cap History(remote) : History(head[s]) \cap History(remote) \subseteq History(b)
  BY DEF BasesInv, HasBase
<1>2. head[s] \in Commits /\ remote \in Commits
  BY Fields
<1>3. History(b) \subseteq History(head[s]) \cap History(remote)
  BY <1>2, PastsNested
<1>4. \E c \in History(head[s]) \cap History(remote) : History(c) = History(head[s]) \cap History(remote)
  BY <1>1, <1>3
<1>5. MergeBase(head[s], remote) \in History(head[s]) \cap History(remote)
  BY <1>4 DEF MergeBase
<1> QED
  BY <1>2, <1>5, Fields, TreeTyped

\* A step is one site's: it leaves what the others have.
Mine(r) == <<db[r], files[r], head[r], merging[r], pc[r], exported[r], incoming[r]>>

LEMMA StepIsLocal ==
  ASSUME SyncTyped, NEW s \in Sites, Call(s) \/ \E n \in Items : Edit(s, n), NEW r \in Sites \ {s}
  PROVE  Mine(r)' = Mine(r)
<1>1. CASE \E n \in Items : Edit(s, n)
  BY <1>1 DEF Mine, Edit, repository, SyncTyped, TypeOK
<1>2. CASE Export(s) \/ NothingToCommit(s) \/ Push(s) \/ PushRefused(s) \/ AbortMerge(s) \/ Stop(s)
  <2>1. CASE Export(s)
    <3>1. PICK new : files' = [files EXCEPT ![s] = new] /\ exported' = [exported EXCEPT ![s] = new]
      BY <2>1 DEF Export
    <3>2. UNCHANGED <<db, head, merging, incoming>> /\ pc' = [pc EXCEPT ![s] = "exported"]
      BY <2>1 DEF Export
    <3> QED
      BY <3>1, <3>2 DEF Mine, SyncTyped, TypeOK
  <2>2. CASE NothingToCommit(s) \/ Push(s) \/ PushRefused(s)
    BY <2>2 DEF Mine, NothingToCommit, Push, PushRefused, repository, SyncTyped, TypeOK
  <2>3. CASE AbortMerge(s)
    BY <2>3 DEF Mine, AbortMerge, SyncTyped, TypeOK
  <2>4. CASE Stop(s)
    BY <2>4 DEF Mine, Stop, repository, SyncTyped, TypeOK
  <2> QED
    BY <1>2, <2>1, <2>2, <2>3, <2>4
<1>3. CASE Commit(s)
  BY <1>3 DEF Mine, Commit, CommitTree, SyncTyped, TypeOK
<1>4. CASE PullForward(s) \/ PullMerge(s) \/ \E manual \in BOOLEAN : PullConflict(s, manual)
  <2>1. ASSUME NEW tree, CheckOut(s, tree), Receive(s)
        PROVE  files'[r] = files[r] /\ incoming'[r] = incoming[r]
    BY <2>1 DEF CheckOut, Receive, SyncTyped, TypeOK
  <2>2. CASE PullForward(s)
    BY <2>1, <2>2 DEF PullForward, Mine, SyncTyped, TypeOK
  <2>3. CASE PullMerge(s)
    BY <2>1, <2>3 DEF PullMerge, Mine, SyncTyped, TypeOK
  <2>4. ASSUME NEW manual \in BOOLEAN, PullConflict(s, manual) PROVE Mine(r)' = Mine(r)
    BY <2>1, <2>4 DEF PullConflict, Mine, SyncTyped, TypeOK
  <2> QED
    BY <1>4, <2>2, <2>3, <2>4
<1>5. CASE Import(s)
  BY <1>5 DEF Mine, Import, ImportFiles, repository, SyncTyped, TypeOK
<1>6. CASE ResolveWithDb(s)
  <2>1. PICK tree, skipped : /\ ImportFiles(s, skipped) \/ UNCHANGED <<db, incoming>>
                             /\ files' = [files EXCEPT ![s] = tree]
                             /\ UNCHANGED <<commits, head, merging>> \/ CommitTree(s, tree)
    BY <1>6 DEF ResolveWithDb
  <2>2. UNCHANGED exported /\ pc' = [pc EXCEPT ![s] = "idle"]
    BY <1>6 DEF ResolveWithDb
  <2> QED
    BY <2>1, <2>2 DEF Mine, ImportFiles, CommitTree, SyncTyped, TypeOK
<1> QED
  BY <1>1, <1>2, <1>3, <1>4, <1>5, <1>6 DEF Call

LEMMA NextBases ==
  ASSUME SyncTyped, PushInv, BasesInv, Grown, [Next]_vars
  PROVE  BasesInv'
<1>1. ASSUME UNCHANGED <<commits, remote, head, merging>> PROVE BasesInv'
  BY <1>1, SameBases
<1>2. ASSUME NEW s \in Sites, NEW n \in Items, Edit(s, n) PROVE BasesInv'
  BY <1>1, <1>2 DEF Edit, repository
<1>3. ASSUME NEW s \in Sites, Export(s) \/ NothingToCommit(s) \/ PushRefused(s) \/ Import(s) \/ Stop(s)
      PROVE  BasesInv'
  BY <1>1, <1>3 DEF Export, NothingToCommit, PushRefused, Import, Stop, repository
<1>4. ASSUME NEW s \in Sites, Commit(s) PROVE BasesInv'
  <2>1. files[s] \in [Items -> CleanFiles]
    BY <1>4, Fields DEF Commit, PushInv, FilesAreExported
  <2> QED
    BY <1>4, <2>1, CommitBases DEF Commit
<1>5. ASSUME NEW s \in Sites, ResolveWithDb(s) PROVE BasesInv'
  <2>1. PICK skipped, failed :
          LET tree == Rendered(Imported(s, skipped), <<s, "creator">>, failed)
          IN  IF tree = Tree(head[s]) THEN UNCHANGED <<commits, head, merging>> ELSE CommitTree(s, tree)
    BY <1>5 DEF ResolveWithDb
  <2> DEFINE tree == Rendered(Imported(s, skipped), <<s, "creator">>, failed)
  <2>2. tree \in [Items -> CleanFiles]
    <3>1. <<s, "creator">> \in Headers /\ Imported(s, skipped) \in [Items -> Texts \cup {NoText}] /\ NoText \notin Texts
      BY ImportedTyped DEF Headers, Texts, NoText
    <3> QED
      BY <3>1, RenderedTyped DEF CleanFiles
  <2>3. UNCHANGED <<commits, head, merging>> \/ CommitTree(s, tree)
    BY <2>1
  <2>4. UNCHANGED <<madeFrom, remote>>
    BY <1>5 DEF ResolveWithDb
  <2> HIDE DEF tree
  <2> QED
    BY <2>2, <2>3, <2>4, <1>1, CommitBases
<1>6. ASSUME NEW s \in Sites, NEW manual \in BOOLEAN, PullConflict(s, manual) PROVE BasesInv'
  BY <1>6, MergingBases DEF PullConflict
<1>7. ASSUME NEW s \in Sites, AbortMerge(s) PROVE BasesInv'
  BY <1>7, MergingBases DEF AbortMerge
<1>8. ASSUME NEW s \in Sites, Call(s) PROVE BasesInv'
  BY <1>3, <1>4, <1>5, <1>6, <1>7, <1>8, PushBases, PullBases DEF Call
<1>9. CASE UNCHANGED vars
  BY <1>1, <1>9 DEF vars, repository
<1> QED
  BY <1>2, <1>8, <1>9 DEF Next

LEMMA NextAborted ==
  ASSUME SyncTyped, AbortedIsClean, Grown, [Next]_vars
  PROVE  AbortedIsClean'
<1>1. \A r \in Sites : head[r] \in Commits /\ Tree(head[r]) = commits'[head[r]].tree
  BY Fields DEF Tree, Grown
<1>2. CASE UNCHANGED vars
  BY <1>2 DEF AbortedIsClean, vars, repository, Tree, NoCommit
<1>3. ASSUME NEW s \in Sites, Call(s) \/ \E n \in Items : Edit(s, n), NEW r \in Sites, pc'[r] = "aborted"
      PROVE  files'[r] = Tree(head[r])' /\ merging'[r] = NoCommit
  <2>1. CASE r # s
    <3>1. Mine(r)' = Mine(r)
      BY <1>3, <2>1, StepIsLocal
    <3>2. files'[r] = files[r] /\ head'[r] = head[r] /\ merging'[r] = merging[r] /\ pc'[r] = pc[r]
      BY <3>1 DEF Mine
    <3> QED
      BY <1>1, <1>3, <3>2 DEF AbortedIsClean, Tree
  <2>2. CASE r = s /\ \E n \in Items : Edit(s, n)
    BY <1>1, <1>3, <2>2 DEF Edit, repository, AbortedIsClean, Tree
  <2>3. CASE r = s /\ AbortMerge(s)
    BY <1>1, <2>3, Fields DEF AbortMerge, Tree
  <2>4. CASE r = s /\ Call(s) /\ ~ AbortMerge(s)
    <3> DEFINE P == {"idle", "exported", "committed", "succeeded", "pushed", "conflict"}
    <3>1. \A x \in P : pc' = [pc EXCEPT ![s] = x] => pc'[r] # "aborted"
      BY <2>4 DEF SyncTyped, TypeOK
    <3>2. \/ \E x \in P : pc' = [pc EXCEPT ![s] = x]
          \/ pc' = pc /\ pc[s] = "idle"
      <4>1. CASE Export(s) \/ NothingToCommit(s) \/ Commit(s) \/ Push(s) \/ PushRefused(s)
        BY <4>1 DEF Export, NothingToCommit, Commit, Push, PushRefused
      <4>2. CASE PullForward(s) \/ PullMerge(s)
        BY <4>2 DEF PullForward, PullMerge, CanMerge
      <4>4. ASSUME NEW manual \in BOOLEAN, PullConflict(s, manual)
            PROVE  \E x \in P : pc' = [pc EXCEPT ![s] = x]
        BY <4>4 DEF PullConflict
      <4>3. CASE Import(s) \/ ResolveWithDb(s) \/ Stop(s)
        BY <4>3 DEF Import, ResolveWithDb, Stop
      <4> QED
        BY <2>4, <4>1, <4>2, <4>3, <4>4 DEF Call
    <3> HIDE DEF P
    <3>3. pc'[r] # "aborted"
      BY <2>4, <3>1, <3>2
    <3> QED
      BY <1>3, <3>3
  <2> QED
    BY <1>3, <2>1, <2>2, <2>3, <2>4
<1>4. CASE Next
  BY <1>3, <1>4 DEF Next, AbortedIsClean, NoCommit
<1> QED
  BY <1>2, <1>4

LEMMA InitBases == ASSUME Init PROVE BasesInv /\ AbortedIsClean
<1>1. /\ \A s \in Sites : head[s] = 1 /\ merging[s] = NoCommit /\ pc[s] = "idle"
      /\ remote = 1
  BY DEF Init
<1> QED
  BY <1>1 DEF BasesInv, Apart, HasBase, MergingSound, AbortedIsClean, History

LEMMA NextSync == ASSUME SyncInv, [Next]_vars PROVE SyncInv' /\ Grown
BY PushInvStep, NextTyped, NextBases, NextAborted DEF SyncInv

-----------------------------------------------------------------------------
(***************************************************************************)
(* What may be taken back.                                                 *)
(***************************************************************************)
TextAt(c, n) == Tree(c)[n].text
PastOf(P) == UNION {History(p) : p \in P}

\* A commit in H has taken back the text u of n.
RevertedIn(H, n, u) ==
  \E c \in H : \E p \in commits[c].past : TextAt(p, n) = u /\ ~ Keeps(TextAt(c, n), u)

\* The text t of n at s may follow u: it keeps it, s has not read it, or it was
\* taken back before.
MayFollow(s, n, t, u, H) == Keeps(t, u) \/ u \in incoming[s][n] \/ RevertedIn(H, n, u)

Follows(s, n, t, P) == \A p \in P : MayFollow(s, n, t, TextAt(p, n), PastOf(P))

\* While a merge may still be aborted, the database has imported nothing of it.
DbFollows(s, n) == /\ Follows(s, n, db[s][n], Parents(s))
                   /\ pc[s] = "conflict" => Follows(s, n, db[s][n], {head[s]})

FileFollows(s, n) ==
  files[s][n] # NoFile \/ (pc[s] = "exported" /\ <<s, n>> \notin Unwritable) =>
    Follows(s, n, files[s][n].text, Parents(s))

\* Between the export and the commit agents only add to what was exported.
ExportKept(s, n) == pc[s] = "exported" => Keeps(db[s][n], exported[s][n].text)

FollowsInv == \A s \in Sites, n \in Items : DbFollows(s, n) /\ FileFollows(s, n) /\ ExportKept(s, n)

LEMMA KeepsSame ==
  ASSUME Grown, NEW t \in Texts \cup {NoText}, NEW u
  PROVE  Keeps(t, u)' <=> Keeps(t, u)
BY DEF Grown, Keeps, NoText

LEMMA KeepsItself == ASSUME NEW t PROVE Keeps(t, t) /\ Keeps(t, NoText)
BY DEF Keeps

LEMMA TextSame ==
  ASSUME SyncTyped, Grown, NEW c \in Commits, NEW n \in Items
  PROVE  /\ TextAt(c, n)' = TextAt(c, n)
         /\ TextAt(c, n) \in Texts \cup {NoText}
         /\ commits'[c].past = commits[c].past
         /\ commits[c].past \subseteq Commits
<1>1. Tree(c)' = Tree(c)
  BY PastsKept
<1> QED
  BY <1>1, Fields, TreeTyped DEF TextAt, Grown, History

LEMMA SiteTexts ==
  ASSUME SyncTyped, NEW s \in Sites, NEW n \in Items
  PROVE  /\ db[s][n] \in Texts \cup {NoText}
         /\ files[s][n].text \in Texts \cup {NoText}
         /\ exported[s][n].text \in Texts \cup {NoText}
         /\ files[s][n] = NoFile <=> files[s][n].text = NoText
         /\ exported[s][n] = NoFile <=> exported[s][n].text = NoText
         /\ head[s] \in Commits
         /\ Parents(s) \subseteq Commits
         /\ PastOf(Parents(s)) \subseteq Commits
<1>1. files[s][n] \in Files /\ exported[s][n] \in CleanFiles /\ db[s][n] \in Texts \cup {NoText}
  BY Fields
<1>2. head[s] \in Commits /\ Parents(s) \subseteq Commits
  BY Fields DEF Parents
<1>3. PastOf(Parents(s)) \subseteq Commits
  BY <1>2, Fields, TreeTyped DEF PastOf
<1> QED
  BY <1>1, <1>2, <1>3, FileFacts

LEMMA RevertedStays ==
  ASSUME SyncTyped, Grown, NEW n \in Items, NEW u, NEW H \in SUBSET Commits, NEW G, H \subseteq G,
         RevertedIn(H, n, u)
  PROVE  RevertedIn(G, n, u)'
<1>1. PICK c \in H : \E p \in commits[c].past : TextAt(p, n) = u /\ ~ Keeps(TextAt(c, n), u)
  BY DEF RevertedIn
<1>2. PICK p \in commits[c].past : TextAt(p, n) = u /\ ~ Keeps(TextAt(c, n), u)
  BY <1>1
<1>3. p \in commits'[c].past /\ p \in Commits
  BY TextSame
<1>4. TextAt(p, n)' = u /\ TextAt(c, n)' = TextAt(c, n) /\ TextAt(c, n) \in Texts \cup {NoText}
  BY <1>2, <1>3, TextSame
<1>5. ~ Keeps(TextAt(c, n), u)'
  <2>1. PICK t \in Texts \cup {NoText} : t = TextAt(c, n)
    BY <1>4
  <2>2. ~ Keeps(t, u)'
    BY <1>2, <2>1, KeepsSame
  <2> QED
    BY <1>4, <2>1, <2>2 DEF Keeps
<1> QED
  BY <1>3, <1>4, <1>5 DEF RevertedIn

\* What may follow u still may when the database, the branch and what was
\* received grow.
LEMMA StillMayFollow ==
  ASSUME SyncTyped, Grown, NEW s \in Sites, NEW n \in Items, NEW t, NEW u, NEW w,
         NEW H \in SUBSET Commits, NEW G, H \subseteq G,
         MayFollow(s, n, t, u, H),
         Keeps(t, u) => Keeps(w, u)',
         u \in incoming[s][n] => u \in incoming'[s][n] \/ Keeps(w, u)'
  PROVE  MayFollow(s, n, w, u, G)'
BY RevertedStays DEF MayFollow

\* The same, when the commits of a site stay.
LEMMA StillFollows ==
  ASSUME SyncTyped, Grown, NEW s \in Sites, NEW n \in Items, NEW t, NEW w, NEW P \in SUBSET Commits,
         Follows(s, n, t, P),
         \A u : Keeps(t, u) => Keeps(w, u)',
         \A u \in incoming[s][n] : u \in incoming'[s][n] \/ Keeps(w, u)'
  PROVE  Follows(s, n, w, P)'
<1>1. PastOf(P) \in SUBSET Commits /\ PastOf(P)' = PastOf(P)
  BY PastsKept DEF PastOf
<1> SUFFICES ASSUME NEW p \in P PROVE MayFollow(s, n, w, TextAt(p, n), PastOf(P))'
  BY DEF Follows
<1>2. MayFollow(s, n, t, TextAt(p, n), PastOf(P)) /\ TextAt(p, n)' = TextAt(p, n)
  BY TextSame DEF Follows
<1>3. PICK u : u = TextAt(p, n)
  OBVIOUS
<1>4. PICK G : G = PastOf(P)
  OBVIOUS
<1>5. MayFollow(s, n, w, u, G)'
  BY <1>1, <1>2, <1>3, <1>4, StillMayFollow
<1> QED
  BY <1>1, <1>2, <1>3, <1>4, <1>5 DEF MayFollow, RevertedIn, Keeps

LEMMA Bridge ==
  ASSUME NEW s \in Sites, NEW n \in Items, NEW w, NEW P, Follows(s, n, w, P)', P = Parents(s)'
  PROVE  /\ w = db'[s][n] => Follows(s, n, db[s][n], Parents(s))'
         /\ w = files'[s][n].text => Follows(s, n, files[s][n].text, Parents(s))'
BY DEF Follows, MayFollow, RevertedIn, Keeps, PastOf

LEMMA BridgeHead ==
  ASSUME NEW s \in Sites, NEW n \in Items, NEW w, NEW P, Follows(s, n, w, P)', P = {head'[s]}, w = db'[s][n]
  PROVE  Follows(s, n, db[s][n], {head[s]})'
BY DEF Follows, MayFollow, RevertedIn, Keeps, PastOf

\* Steps that leave a site's texts and commits alone.
LEMMA QuietFollows ==
  ASSUME SyncTyped, Grown, FollowsInv, NEW s \in Sites, NEW n \in Items,
         db'[s] = db[s], files'[s] = files[s], head'[s] = head[s], merging'[s] = merging[s],
         incoming'[s] = incoming[s],
         \/ pc'[s] = pc[s] /\ exported'[s] = exported[s]
         \/ pc'[s] \notin {"exported", "conflict"}
  PROVE  DbFollows(s, n)' /\ FileFollows(s, n)' /\ ExportKept(s, n)'
<1>1. Parents(s)' = Parents(s) /\ Parents(s) \subseteq Commits /\ head[s] \in Commits
  BY SiteTexts DEF Parents, NoCommit
<1>2. ASSUME NEW t \in Texts \cup {NoText} PROVE \A u : Keeps(t, u)' <=> Keeps(t, u)
  BY KeepsSame
<1>3. /\ db[s][n] \in Texts \cup {NoText} /\ files[s][n].text \in Texts \cup {NoText}
      /\ DbFollows(s, n) /\ FileFollows(s, n) /\ ExportKept(s, n)
  BY SiteTexts DEF FollowsInv
<1>4. PICK t : t = db[s][n]
  OBVIOUS
<1>5. PICK f : f = files[s][n].text
  OBVIOUS
<1>6. PICK P : P = Parents(s)
  OBVIOUS
<1>7. PICK h : h = head[s]
  OBVIOUS
<1>8. Follows(s, n, t, P)'
  <2>1. Follows(s, n, t, P)
    BY <1>3, <1>4, <1>6 DEF DbFollows
  <2> QED
    BY <2>1, <1>1, <1>2, <1>3, <1>4, <1>6, StillFollows
<1>9. pc'[s] = "conflict" => Follows(s, n, t, {h})'
  <2> SUFFICES ASSUME pc'[s] = "conflict" PROVE Follows(s, n, t, {h})'
    OBVIOUS
  <2>1. Follows(s, n, t, {h}) /\ {h} \in SUBSET Commits
    BY <1>1, <1>3, <1>4, <1>7 DEF DbFollows
  <2> QED
    BY <2>1, <1>2, <1>3, <1>4, StillFollows
<1>10. DbFollows(s, n)'
  <2>1. Follows(s, n, db[s][n], Parents(s))'
    BY <1>1, <1>4, <1>6, <1>8, Bridge
  <2>2. pc'[s] = "conflict" => Follows(s, n, db[s][n], {head[s]})'
    BY <1>4, <1>7, <1>9, BridgeHead
  <2> QED
    BY <2>1, <2>2 DEF DbFollows
<1>11. FileFollows(s, n)'
  <2> SUFFICES ASSUME files'[s][n] # NoFile \/ (pc'[s] = "exported" /\ <<s, n>> \notin Unwritable)
               PROVE  Follows(s, n, files[s][n].text, Parents(s))'
    BY DEF FileFollows, NoFile, NoText
  <2>1. Follows(s, n, f, P)
    BY <1>3, <1>5, <1>6 DEF FileFollows
  <2>2. Follows(s, n, f, P)'
    BY <2>1, <1>1, <1>2, <1>3, <1>5, <1>6, StillFollows
  <2> QED
    BY <2>2, <1>1, <1>5, <1>6, Bridge
<1>12. ExportKept(s, n)'
  <2> SUFFICES ASSUME pc'[s] = "exported" PROVE Keeps(db[s][n], exported[s][n].text)'
    BY DEF ExportKept
  <2>1. PICK e : e = exported[s][n].text
    OBVIOUS
  <2>2. Keeps(t, e)'
    BY <1>2, <1>3, <1>4, <2>1 DEF ExportKept
  <2> QED
    BY <2>1, <2>2, <1>4 DEF Keeps
<1> QED
  BY <1>10, <1>11, <1>12

\* An edit keeps what was in the database.
LEMMA EditFollows ==
  ASSUME SyncTyped, Grown, FollowsInv, NEW s \in Sites, NEW m \in Items, Edit(s, m), NEW n \in Items
  PROVE  DbFollows(s, n)' /\ FileFollows(s, n)' /\ ExportKept(s, n)'
<1>1. UNCHANGED <<files, head, merging, pc, exported, incoming>>
  BY DEF Edit, repository
<1>2. PICK t : t = db[s][n]
  OBVIOUS
<1>3. PICK w : w = db'[s][n]
  OBVIOUS
<1>4. t \in Texts \cup {NoText} /\ \A u : Keeps(t, u)' <=> Keeps(t, u)
  BY <1>2, SiteTexts, KeepsSame
<1>5. \A u : Keeps(t, u) => Keeps(w, u)'
  <2>1. CASE n # m
    <3>1. w = t
      BY <2>1, <1>2, <1>3, Fields DEF Edit
    <3> QED
      BY <3>1, <1>4
  <2>2. CASE n = m
    <3>1. PICK new : new = Len(madeFrom) + 1
      OBVIOUS
    <3>2. w = new
      BY <2>2, <3>1, <1>3, Fields DEF Edit
    <3>3. madeFrom'[new] = UNION {madeFrom[x] \cup {x} : x \in {t} \ {NoText}} /\ new # NoText
      <4>1. {t} \in SUBSET (Texts \cup {NoText}) /\ NewText({t}) /\ madeFrom \in Seq(SUBSET Texts)
        BY <2>2, <1>2, <1>4, Fields DEF Edit
      <4>2. new # NoText
        BY <3>1, <4>1 DEF NoText
      <4> QED
        BY <4>1, <4>2, <3>1, NewTextTyped
    <3>4. t # NoText => madeFrom'[new] = madeFrom[t] \cup {t}
      BY <3>3
    <3> QED
      BY <3>2, <3>3, <3>4 DEF Keeps
  <2> QED
    BY <2>1, <2>2
<1>6. /\ Parents(s)' = Parents(s) /\ Parents(s) \subseteq Commits /\ head[s] \in Commits
      /\ DbFollows(s, n) /\ FileFollows(s, n) /\ ExportKept(s, n)
  BY <1>1, SiteTexts DEF FollowsInv, Parents, NoCommit
<1>7. PICK P : P = Parents(s)
  OBVIOUS
<1>8. PICK h : h = head[s]
  OBVIOUS
<1>9. DbFollows(s, n)'
  <2>1. Follows(s, n, t, P) /\ (pc[s] = "conflict" => Follows(s, n, t, {h}))
    BY <1>2, <1>6, <1>7, <1>8 DEF DbFollows
  <2>2. Follows(s, n, w, P)'
    BY <2>1, <1>1, <1>5, <1>6, <1>7, StillFollows
  <2>3. pc[s] = "conflict" => Follows(s, n, w, {h})'
    BY <2>1, <1>1, <1>5, <1>6, <1>8, StillFollows
  <2>4. Follows(s, n, db[s][n], Parents(s))'
    BY <2>2, <1>3, <1>6, <1>7, Bridge
  <2>5. pc[s] = "conflict" => Follows(s, n, db[s][n], {head[s]})'
    BY <2>3, <1>1, <1>3, <1>8, BridgeHead
  <2> QED
    BY <2>4, <2>5, <1>1 DEF DbFollows
<1>10. FileFollows(s, n)'
  <2> SUFFICES ASSUME files[s][n] # NoFile \/ (pc[s] = "exported" /\ <<s, n>> \notin Unwritable)
               PROVE  Follows(s, n, files[s][n].text, Parents(s))'
    BY <1>1 DEF FileFollows, NoFile, NoText
  <2>1. PICK f : f = files[s][n].text
    OBVIOUS
  <2>2. Follows(s, n, f, P) /\ f \in Texts \cup {NoText} /\ \A u : Keeps(f, u)' <=> Keeps(f, u)
    BY <2>1, <1>6, <1>7, SiteTexts, KeepsSame DEF FileFollows
  <2>3. Follows(s, n, f, P)'
    BY <2>2, <1>1, <1>6, <1>7, StillFollows
  <2> QED
    BY <2>1, <2>3, <1>1, <1>6, <1>7, Bridge
<1>11. ExportKept(s, n)'
  <2>1. PICK e : e = exported[s][n].text
    OBVIOUS
  <2>2. pc[s] = "exported" => Keeps(w, e)'
    BY <1>2, <1>5, <1>6, <2>1 DEF ExportKept
  <2> QED
    BY <2>1, <2>2, <1>1, <1>3 DEF ExportKept, Keeps
<1> QED
  BY <1>9, <1>10, <1>11

LEMMA KeepingFollows ==
  ASSUME NEW s, NEW n, NEW w, NEW c, NEW u, u = TextAt(c, n)', Keeps(w, u)'
  PROVE  Follows(s, n, w, {c})'
BY DEF Follows, MayFollow, Keeps

LEMMA ExportFollows ==
  ASSUME SyncTyped, Grown, FollowsInv, NEW s \in Sites, Export(s), NEW n \in Items
  PROVE  DbFollows(s, n)' /\ FileFollows(s, n)' /\ ExportKept(s, n)'
<1>1. UNCHANGED <<db, head, merging, incoming>> /\ pc'[s] = "exported"
  BY DEF Export, SyncTyped, TypeOK
<1>2. PICK failed \in SUBSET WriteFailures(s) :
        /\ files' = [files EXCEPT ![s] = Rendered(db[s], <<s, "key">>, failed)]
        /\ exported' = [exported EXCEPT ![s] = Rendered(db[s], <<s, "key">>, failed)]
  BY DEF Export
<1>3. files'[s][n] = Rendered(db[s], <<s, "key">>, failed)[n] /\ exported'[s][n] = files'[s][n]
  BY <1>2, Fields
<1>4. /\ files'[s][n].text \in {db[s][n], NoText}
      /\ files'[s][n] # NoFile \/ <<s, n>> \notin Unwritable => files'[s][n].text = db[s][n]
  BY <1>2, <1>3 DEF Rendered, NoFile, WriteFailures
<1>5. PICK t : t = db[s][n]
  OBVIOUS
<1>6. PICK P : P = Parents(s)
  OBVIOUS
<1>7. Parents(s)' = Parents(s) /\ Parents(s) \subseteq Commits /\ t \in Texts \cup {NoText}
  BY <1>1, <1>5, SiteTexts DEF Parents, NoCommit
<1>8. \A u : Keeps(t, u)' <=> Keeps(t, u)
  BY <1>7, KeepsSame
<1>9. Follows(s, n, t, P)'
  <2>1. Follows(s, n, t, P)
    BY <1>5, <1>6 DEF FollowsInv, DbFollows
  <2> QED
    BY <2>1, <1>1, <1>6, <1>7, <1>8, StillFollows
<1>10. DbFollows(s, n)'
  BY <1>1, <1>5, <1>6, <1>7, <1>9, Bridge DEF DbFollows
<1>11. FileFollows(s, n)'
  BY <1>1, <1>4, <1>5, <1>6, <1>7, <1>9, Bridge DEF FileFollows, NoFile, NoText
<1>12. ExportKept(s, n)'
  BY <1>1, <1>3, <1>4 DEF ExportKept, Keeps, NoText
<1> QED
  BY <1>10, <1>11, <1>12

\* What a commit of the database leaves as the parent of the next one.
LEMMA OneParent ==
  ASSUME NEW s \in Sites, NEW new, head'[s] = new, new # NoCommit, merging'[s] = NoCommit
  PROVE  Parents(s)' = {new}
BY DEF Parents, NoCommit

LEMMA CommitTreeText ==
  ASSUME SyncTyped, NEW s \in Sites, NEW tree \in [Items -> CleanFiles], CommitTree(s, tree), UNCHANGED madeFrom
  PROVE  /\ head'[s] = Len(commits) + 1 /\ Parents(s)' = {Len(commits) + 1}
         /\ \A c : c = Len(commits) + 1 => Tree(c)' = tree /\ PastOf(Parents(s)) \subseteq History(c)'
         /\ Len(commits) + 1 \in Commits'
<1> DEFINE parents == {head[s], merging[s]} \ {NoCommit}
<1>1. parents \in SUBSET Commits /\ parents = Parents(s)
  BY Fields DEF Parents
<1>2. NewCommit(tree, parents)
  BY DEF CommitTree
<1>3. PICK new : new = Len(commits) + 1
  OBVIOUS
<1> HIDE DEF parents
<1>4. /\ History(new)' = (UNION {History(p) : p \in parents}) \cup {new}
      /\ Tree(new)' = tree /\ new \in Commits'
  BY <1>1, <1>2, <1>3, NewPast
<1>5. head'[s] = new /\ merging'[s] = NoCommit
  BY <1>3, Fields DEF CommitTree
<1>6. Parents(s)' = {new}
  <2>1. new # NoCommit
    BY <1>4 DEF NoCommit, Commits
  <2> QED
    BY <2>1, <1>5, OneParent
<1> QED
  BY <1>1, <1>3, <1>4, <1>5, <1>6 DEF PastOf

\* A commit is of what was exported, which the database still keeps.
LEMMA CommitFollows ==
  ASSUME SyncTyped, PushInv, Grown, FollowsInv, NEW s \in Sites, Commit(s), NEW n \in Items
  PROVE  DbFollows(s, n)' /\ FileFollows(s, n)' /\ ExportKept(s, n)'
<1>1. /\ UNCHANGED <<madeFrom, db, files, exported, incoming>> /\ pc'[s] = "committed" /\ pc[s] = "exported"
      /\ CommitTree(s, files[s])
  BY DEF Commit, SyncTyped, TypeOK
<1>2. files[s] = exported[s] /\ files[s] \in [Items -> CleanFiles]
  BY <1>1, Fields DEF PushInv, FilesAreExported
<1>3. PICK new : new = Len(commits) + 1
  OBVIOUS
<1>4. Parents(s)' = {new} /\ head'[s] = new /\ Tree(new)' = files[s]
  BY <1>1, <1>2, <1>3, CommitTreeText
<1>5. PICK t : t = db[s][n]
  OBVIOUS
<1>6. PICK f : f = files[s][n].text
  OBVIOUS
<1>7. TextAt(new, n)' = f
  BY <1>4, <1>6 DEF TextAt
<1>8. Keeps(t, f)' /\ Keeps(f, f)'
  <2>1. Keeps(t, f) /\ t \in Texts \cup {NoText}
    BY <1>1, <1>2, <1>5, <1>6, SiteTexts DEF FollowsInv, ExportKept
  <2> QED
    BY <2>1, KeepsSame DEF Keeps
<1>9. Follows(s, n, t, {new})' /\ Follows(s, n, f, {new})'
  BY <1>7, <1>8, KeepingFollows
<1>10. Follows(s, n, db[s][n], Parents(s))' /\ Follows(s, n, files[s][n].text, Parents(s))'
  <2>1. t = db'[s][n] /\ f = files'[s][n].text
    BY <1>1, <1>5, <1>6
  <2> QED
    BY <2>1, <1>4, <1>9, Bridge
<1> QED
  BY <1>1, <1>10 DEF DbFollows, FileFollows, ExportKept

LEMMA Received ==
  ASSUME SyncTyped, NEW s \in Sites, Receive(s), NEW n \in Items
  PROVE  /\ incoming[s][n] \subseteq incoming'[s][n]
         /\ \/ TextAt(remote, n) \in incoming'[s][n]
            \/ Keeps(db[s][n], TextAt(remote, n)) /\ Keeps(files[s][n].text, TextAt(remote, n))
<1> DEFINE new == incoming[s][n] \cup
                    {t \in {Tree(remote)[n].text} : ~ (Keeps(db[s][n], t) /\ Keeps(files[s][n].text, t))}
<1>1. incoming'[s][n] = new
  BY Fields DEF Receive
<1> HIDE DEF new
<1>2. /\ incoming[s][n] \subseteq new
      /\ \/ Tree(remote)[n].text \in new
         \/ Keeps(db[s][n], Tree(remote)[n].text) /\ Keeps(files[s][n].text, Tree(remote)[n].text)
  BY DEF new
<1> QED
  BY <1>1, <1>2 DEF TextAt

LEMMA CheckedOut ==
  ASSUME SyncTyped, NEW s \in Sites, NEW tree, CheckOut(s, tree), NEW n \in Items
  PROVE  \/ files'[s][n] = tree[n]
         \/ files'[s][n] = files[s][n] /\ tree[n] = Tree(head[s])[n] /\ files[s][n] # Tree(head[s])[n]
<1> DEFINE dirty == {m \in Items : files[s][m] # Tree(head[s])[m]}
<1>1. files'[s][n] = IF n \in dirty THEN files[s][n] ELSE tree[n]
  BY Fields DEF CheckOut
<1>2. n \in dirty => tree[n] = Tree(head[s])[n]
  BY DEF CheckOut
<1> QED
  BY <1>1, <1>2

\* A pull that moves the branch to h, whose text of n one of the sides had.
LEMMA MovedFollows ==
  ASSUME SyncTyped, Grown, FollowsInv, NEW s \in Sites, NEW n \in Items, NEW h,
         merging[s] = NoCommit, merging'[s] = NoCommit, head'[s] = h, h \in Commits',
         History(head[s]) \subseteq History(h)',
         TextAt(h, n)' \in {TextAt(head[s], n), TextAt(remote, n)},
         CheckOut(s, Tree(h)'), Receive(s), db'[s] = db[s], pc'[s] = "idle"
  PROVE  DbFollows(s, n)' /\ FileFollows(s, n)' /\ ExportKept(s, n)'
<1>1. /\ incoming[s][n] \subseteq incoming'[s][n]
      /\ \/ TextAt(remote, n) \in incoming'[s][n]
         \/ Keeps(db[s][n], TextAt(remote, n)) /\ Keeps(files[s][n].text, TextAt(remote, n))
  BY Received
<1>2. h # NoCommit /\ head[s] # NoCommit /\ head[s] \in Commits
  BY Fields DEF NoCommit, Commits
<1>3. Parents(s) = {head[s]} /\ Parents(s)' = {h}
  BY <1>2, OneParent DEF Parents
<1>4. PICK x : x = TextAt(h, n)'
  OBVIOUS
<1>5. PICK G : G = History(h)'
  OBVIOUS
<1>6. History(head[s]) \in SUBSET Commits /\ History(head[s]) \subseteq G /\ PastOf(Parents(s)) = History(head[s])
  BY <1>2, <1>3, <1>5, PastsKept DEF PastOf
<1>7. ASSUME NEW t \in Texts \cup {NoText},
             Keeps(t, TextAt(remote, n)) \/ TextAt(remote, n) \in incoming'[s][n],
             Follows(s, n, t, Parents(s))
      PROVE  Follows(s, n, t, {h})'
  <2>1. \A u : Keeps(t, u)' <=> Keeps(t, u)
    BY KeepsSame
  <2>2. MayFollow(s, n, t, x, G)'
    <3>1. CASE x = TextAt(remote, n)
      BY <3>1, <1>7, <2>1 DEF MayFollow, Keeps
    <3>2. CASE x = TextAt(head[s], n)
      <4>1. MayFollow(s, n, t, x, History(head[s]))
        BY <3>2, <1>3, <1>6, <1>7 DEF Follows
      <4> QED
        BY <4>1, <1>1, <1>6, <2>1, StillMayFollow
    <3> QED
      BY <3>1, <3>2, <1>4
  <2> QED
    BY <2>2, <1>4, <1>5 DEF Follows, PastOf, MayFollow, RevertedIn, Keeps
<1>8. /\ db[s][n] \in Texts \cup {NoText} /\ files[s][n].text \in Texts \cup {NoText}
      /\ files[s][n] = NoFile <=> files[s][n].text = NoText
  BY SiteTexts
<1>9. DbFollows(s, n)'
  <2>1. PICK t : t = db[s][n]
    OBVIOUS
  <2>2. Follows(s, n, t, {h})'
    BY <2>1, <1>1, <1>7, <1>8 DEF FollowsInv, DbFollows
  <2>3. t = db'[s][n]
    BY <2>1
  <2> QED
    BY <2>2, <2>3, <1>3, Bridge DEF DbFollows
<1>10. FileFollows(s, n)'
  <2> SUFFICES ASSUME files'[s][n] # NoFile PROVE Follows(s, n, files[s][n].text, Parents(s))'
    BY DEF FileFollows, NoFile, NoText
  <2>1. PICK f : f = files'[s][n].text
    OBVIOUS
  <2>2. CASE files'[s][n] = (Tree(h)')[n]
    <3>1. f = x
      BY <2>1, <2>2, <1>4 DEF TextAt
    <3>2. Keeps(f, x)'
      BY <3>1 DEF Keeps
    <3> QED
      BY <2>1, <3>2, <1>3, <1>4, KeepingFollows, Bridge
  <2>3. CASE files'[s][n] = files[s][n]
    <3>1. Follows(s, n, f, Parents(s)) /\ f \in Texts \cup {NoText}
      BY <2>1, <2>3, <1>8 DEF FollowsInv, FileFollows
    <3>2. Follows(s, n, f, {h})'
      BY <2>1, <2>3, <3>1, <1>1, <1>7
    <3> QED
      BY <2>1, <3>2, <1>3, Bridge
  <2> QED
    BY <2>2, <2>3, CheckedOut
<1> QED
  BY <1>9, <1>10 DEF ExportKept

LEMMA PullForwardFollows ==
  ASSUME SyncTyped, PushInv, Grown, FollowsInv, NEW s \in Sites, PullForward(s), NEW n \in Items
  PROVE  DbFollows(s, n)' /\ FileFollows(s, n)' /\ ExportKept(s, n)'
<1>1. PICK h : h = remote
  OBVIOUS
<1>2. /\ head'[s] = h /\ merging[s] = NoCommit /\ UNCHANGED <<commits, remote, db, merging, pc>> /\ pc[s] = "idle"
      /\ head[s] \in History(remote) /\ CheckOut(s, Tree(remote)) /\ Receive(s)
  BY <1>1, Fields DEF PullForward, CanMerge
<1>3. Tree(h)' = Tree(remote) /\ History(h)' = History(remote) /\ TextAt(h, n)' = TextAt(remote, n)
  BY <1>1, <1>2 DEF Tree, History, TextAt
<1>4. h \in Commits' /\ History(head[s]) \subseteq History(h)'
  <2>1. remote \in Commits /\ h \in Commits'
    BY <1>1, Fields DEF Grown
  <2> QED
    BY <2>1, <1>2, <1>3, PastsNested
<1> QED
  BY <1>2, <1>3, <1>4, MovedFollows

\* The text of a merged file: that of one side, unless both have changed it.
LEMMA MergedText ==
  ASSUME NEW T, NoText \notin T, NEW base, NEW both,
         NEW ours \in {NoFile} \cup [text : T, header : Headers],
         NEW theirs \in {NoFile} \cup [text : T, header : Headers],
         NEW x, x = MergedFile(base, ours, theirs, both).text
  PROVE  \/ x = ours.text /\ x = theirs.text
         \/ x = theirs.text /\ ours.text \in {base.text, NoText}
         \/ x = ours.text /\ theirs.text \in {base.text, NoText}
         \/ x = both /\ Clash(base, ours, theirs) /\ Clash(base.text, ours.text, theirs.text)
<1>1. CASE ~ Clash(base, ours, theirs)
  BY <1>1 DEF MergedFile, Pick, Clash
<1>2. CASE Clash(base, ours, theirs) /\ (ours = NoFile \/ theirs = NoFile)
  BY <1>2 DEF MergedFile, NoFile
<1>3. CASE Clash(base, ours, theirs) /\ ours # NoFile /\ theirs # NoFile
  <2>1. x = IF Clash(base.text, ours.text, theirs.text) THEN both ELSE Pick(base.text, ours.text, theirs.text)
    BY <1>3 DEF MergedFile
  <2> QED
    BY <2>1, <1>3 DEF Pick, Clash
<1> QED
  BY <1>1, <1>2, <1>3

\* The text of a merged file of a site and the remote.
LEMMA MergedTexts ==
  ASSUME SyncTyped, NEW s \in Sites, NEW n \in Items, NEW both, NEW x, x = Merged(s, both)[n].text
  PROVE  LET base == TextAt(MergeBase(head[s], remote), n)
         IN  \/ x = TextAt(head[s], n) /\ x = TextAt(remote, n)
             \/ x = TextAt(remote, n) /\ TextAt(head[s], n) \in {base, NoText}
             \/ x = TextAt(head[s], n) /\ TextAt(remote, n) \in {base, NoText}
             \/ x = both /\ n \in Conflicts(s)
<1> DEFINE base == Tree(MergeBase(head[s], remote))[n]
           ours == Tree(head[s])[n]
           theirs == Tree(remote)[n]
<1>1. x = MergedFile(base, ours, theirs, both).text
  BY DEF Merged
<1>2. ours \in CleanFiles /\ theirs \in CleanFiles /\ NoText \notin Texts
  BY Fields DEF NoText, Texts
<1>3. Clash(base, ours, theirs) /\ Clash(base.text, ours.text, theirs.text) => n \in Conflicts(s)
  BY DEF Conflicts
<1>4. \/ x = ours.text /\ x = theirs.text
      \/ x = theirs.text /\ ours.text \in {base.text, NoText}
      \/ x = ours.text /\ theirs.text \in {base.text, NoText}
      \/ x = both /\ Clash(base, ours, theirs) /\ Clash(base.text, ours.text, theirs.text)
  <2> HIDE DEF base, ours, theirs
  <2> QED
    BY <1>1, <1>2, MergedText DEF CleanFiles
<1> QED
  BY <1>3, <1>4 DEF TextAt

LEMMA PullMergeFollows ==
  ASSUME SyncTyped, PushInv, Grown, FollowsInv, NEW s \in Sites, PullMerge(s), NEW n \in Items
  PROVE  DbFollows(s, n)' /\ FileFollows(s, n)' /\ ExportKept(s, n)'
<1>1. PICK h : h = Len(commits) + 1
  OBVIOUS
<1>2. /\ NewCommit(Merged(s, NoText), {head[s], remote}) /\ Conflicts(s) = {}
      /\ merging[s] = NoCommit /\ pc[s] = "idle"
      /\ UNCHANGED <<madeFrom, remote, db, merging, pc>>
      /\ CheckOut(s, Merged(s, NoText)) /\ Receive(s)
      /\ head' = [head EXCEPT ![s] = h]
  BY <1>1 DEF PullMerge, CanMerge
<1>3. {head[s], remote} \in SUBSET Commits /\ Merged(s, NoText) \in [Items -> CleanFiles] /\ head'[s] = h
  BY <1>2, Fields, MergedTyped
<1>4. /\ History(h)' = (UNION {History(p) : p \in {head[s], remote}}) \cup {h}
      /\ Tree(h)' = Merged(s, NoText) /\ h \in Commits'
  BY <1>1, <1>2, <1>3, NewPast
<1>5. TextAt(h, n)' \in {TextAt(head[s], n), TextAt(remote, n)}
  <2>1. TextAt(h, n)' = Merged(s, NoText)[n].text
    BY <1>4 DEF TextAt
  <2>2. PICK x : x = Merged(s, NoText)[n].text
    OBVIOUS
  <2> QED
    BY <1>2, <2>1, <2>2, MergedTexts
<1>6. History(head[s]) \subseteq History(h)'
  BY <1>4
<1> QED
  BY <1>2, <1>3, <1>4, <1>5, <1>6, MovedFollows

\* The text of a commit follows every text of its past, or one was taken back.
LEMMA FollowsPast ==
  ASSUME NEW s \in Sites, NEW n \in Items, NEW c, NEW b \in History(c), NEW H, c \in H
  PROVE  MayFollow(s, n, TextAt(c, n), TextAt(b, n), H)
<1>1. CASE b = c
  BY <1>1 DEF MayFollow, Keeps
<1>2. CASE b \in commits[c].past
  BY <1>2 DEF MayFollow, RevertedIn
<1> QED
  BY <1>1, <1>2 DEF History

\* A merge that stops at a conflict leaves texts that follow those of both sides.
LEMMA PullConflictFollows ==
  ASSUME SyncTyped, PushInv, BasesInv, Grown, FollowsInv, NEW s \in Sites, NEW manual \in BOOLEAN,
         PullConflict(s, manual), NEW n \in Items
  PROVE  DbFollows(s, n)' /\ FileFollows(s, n)' /\ ExportKept(s, n)'
<1>1. PICK both : both = Len(madeFrom) + 1
  OBVIOUS
<1> DEFINE tree == Merged(s, both)
           H == History(head[s]) \cup History(remote)
<1>2. /\ merging[s] = NoCommit
      /\ UNCHANGED <<commits, remote, db, head>> /\ merging'[s] = remote
      /\ NewText({Tree(c)[m].text : c \in {head[s], remote}, m \in Conflicts(s)})
      /\ CheckOut(s, tree) /\ Receive(s)
      /\ pc'[s] # "exported"
  <2>1. merging[s] = NoCommit /\ UNCHANGED <<commits, remote, db, head>>
        /\ NewText({Tree(c)[m].text : c \in {head[s], remote}, m \in Conflicts(s)})
        /\ CheckOut(s, tree) /\ Receive(s)
    BY <1>1 DEF PullConflict, CanMerge
  <2>2. merging' = [merging EXCEPT ![s] = remote] /\ pc' = [pc EXCEPT ![s] = IF manual THEN "idle" ELSE "conflict"]
    BY DEF PullConflict
  <2>3. merging'[s] = remote /\ pc'[s] # "exported"
    BY <2>2 DEF SyncTyped, TypeOK
  <2> QED
    BY <2>1, <2>3
<1>3. /\ incoming[s][n] \subseteq incoming'[s][n]
      /\ \/ TextAt(remote, n) \in incoming'[s][n]
         \/ Keeps(db[s][n], TextAt(remote, n)) /\ Keeps(files[s][n].text, TextAt(remote, n))
  BY <1>2, Received
<1>4. head[s] \in Commits /\ remote \in Commits /\ head[s] # NoCommit /\ remote # NoCommit
  BY Fields DEF NoCommit, Commits
<1>5. Parents(s) = {head[s]} /\ Parents(s)' = {head[s], remote} /\ head'[s] = head[s]
  BY <1>2, <1>4 DEF Parents, NoCommit
<1>6. PICK P : P = {head[s], remote}
  OBVIOUS
<1>7. PICK h : h = head[s]
  OBVIOUS
<1>8. /\ \A c \in P : TextAt(c, n)' = TextAt(c, n) /\ History(c)' = History(c)
      /\ PastOf(P)' = H /\ H \in SUBSET Commits
  <2>1. \A c \in P : c \in Commits
    BY <1>4, <1>6
  <2>2. \A c \in P : TextAt(c, n)' = TextAt(c, n) /\ History(c)' = History(c) /\ History(c) \subseteq Commits
    BY <2>1, TextSame, PastsKept
  <2>3. PastOf(P)' = UNION {History(c) : c \in P}
    BY <2>2 DEF PastOf
  <2> QED
    BY <2>2, <2>3, <1>6
<1> HIDE DEF tree, H
<1>9. PICK G : G = H
  OBVIOUS
\* What followed the branch follows both, now that the remote's text has arrived.
<1>10. ASSUME NEW t \in Texts \cup {NoText}, Follows(s, n, t, Parents(s)),
              Keeps(t, TextAt(remote, n)) \/ TextAt(remote, n) \in incoming'[s][n]
       PROVE  Follows(s, n, t, P)' /\ Follows(s, n, t, {h})'
  <2>1. \A u : Keeps(t, u)' <=> Keeps(t, u)
    BY KeepsSame
  <2>2. Follows(s, n, t, {h})'
    <3>1. Follows(s, n, t, {h}) /\ {h} \in SUBSET Commits
      BY <1>4, <1>5, <1>7, <1>10
    <3> QED
      BY <3>1, <2>1, <1>3, StillFollows
  <2>3. PICK u : u = TextAt(head[s], n)
    OBVIOUS
  <2>4. PICK v : v = TextAt(remote, n)
    OBVIOUS
  <2>5. MayFollow(s, n, t, u, G)'
    <3>1. MayFollow(s, n, t, u, History(head[s]))
      BY <1>5, <1>10, <2>3 DEF Follows, PastOf
    <3>2. History(head[s]) \in SUBSET Commits /\ History(head[s]) \subseteq G
      BY <1>4, <1>9, PastsKept DEF H
    <3> QED
      BY <3>1, <3>2, <2>1, <1>3, StillMayFollow
  <2>6. MayFollow(s, n, t, v, G)'
    BY <1>10, <2>1, <2>4 DEF MayFollow, Keeps
  <2>7. Follows(s, n, t, P)'
    <3>1. ASSUME NEW p \in P PROVE MayFollow(s, n, t, TextAt(p, n), PastOf(P))'
      <4>1. (TextAt(p, n)' = u \/ TextAt(p, n)' = v) /\ PastOf(P)' = G
        BY <1>6, <1>8, <1>9, <2>3, <2>4
      <4> QED
        BY <4>1, <2>5, <2>6 DEF MayFollow, RevertedIn, Keeps
    <3> QED
      BY <3>1 DEF Follows
  <2> QED
    BY <2>2, <2>7
<1>11. /\ db[s][n] \in Texts \cup {NoText} /\ files[s][n].text \in Texts \cup {NoText}
       /\ files[s][n] = NoFile <=> files[s][n].text = NoText
  BY SiteTexts
<1>12. DbFollows(s, n)'
  <2>1. PICK t : t = db[s][n]
    OBVIOUS
  <2>2. Follows(s, n, t, P)' /\ Follows(s, n, t, {h})'
    BY <2>1, <1>3, <1>10, <1>11 DEF FollowsInv, DbFollows
  <2>3. t = db'[s][n] /\ P = Parents(s)' /\ {h} = {head'[s]}
    BY <2>1, <1>2, <1>5, <1>6, <1>7
  <2>4. Follows(s, n, db[s][n], Parents(s))' /\ Follows(s, n, db[s][n], {head[s]})'
    BY <2>2, <2>3, Bridge, BridgeHead
  <2> QED
    BY <2>4 DEF DbFollows
<1>13. FileFollows(s, n)'
  <2> SUFFICES ASSUME files'[s][n] # NoFile PROVE Follows(s, n, files[s][n].text, Parents(s))'
    BY <1>2 DEF FileFollows, NoFile, NoText
  <2>1. PICK f : f = files'[s][n].text
    OBVIOUS
  <2>2. CASE files'[s][n] = files[s][n]
    <3>1. Follows(s, n, f, P)'
      BY <2>1, <2>2, <1>3, <1>10, <1>11 DEF FollowsInv, FileFollows
    <3> QED
      BY <2>1, <3>1, <1>5, <1>6, Bridge
  <2>3. CASE files'[s][n] = tree[n]
    <3>1. PICK u : u = TextAt(head[s], n)
      OBVIOUS
    <3>2. PICK v : v = TextAt(remote, n)
      OBVIOUS
    <3>3. PICK b : b = MergeBase(head[s], remote)
      OBVIOUS
    <3>4. PICK w : w = TextAt(b, n)
      OBVIOUS
    <3>5. b \in History(head[s]) /\ b \in History(remote)
      BY <3>3, BaseExists
    <3>6. u \in Texts \cup {NoText} /\ v \in Texts \cup {NoText}
      BY <1>4, <3>1, <3>2, TextSame
    <3>7. MayFollow(s, n, u, w, H) /\ MayFollow(s, n, v, w, H)
      <4>1. head[s] \in H /\ remote \in H
        BY <1>4, PastsKept DEF H
      <4> QED
        BY <3>1, <3>2, <3>4, <3>5, <4>1, FollowsPast
    <3>8. MayFollow(s, n, u, w, G)' /\ MayFollow(s, n, v, w, G)'
      <4>1. \A z : (Keeps(u, z)' <=> Keeps(u, z)) /\ (Keeps(v, z)' <=> Keeps(v, z))
        BY <3>6, KeepsSame
      <4> QED
        BY <3>7, <4>1, <1>3, <1>8, <1>9, StillMayFollow
    <3>9. MayFollow(s, n, f, u, G)' /\ MayFollow(s, n, f, v, G)'
      <4>1. \/ f = u /\ f = v
            \/ f = v /\ u \in {w, NoText}
            \/ f = u /\ v \in {w, NoText}
            \/ f = both /\ n \in Conflicts(s)
        BY <2>1, <2>3, <3>1, <3>2, <3>3, <3>4, MergedTexts DEF tree
      <4>2. CASE f # both \/ n \notin Conflicts(s)
        BY <4>1, <4>2, <3>8 DEF MayFollow, Keeps, NoText
      <4>3. CASE f = both /\ n \in Conflicts(s)
        <5> DEFINE sources == {Tree(c)[m].text : c \in {head[s], remote}, m \in Conflicts(s)}
        <5>1. sources \in SUBSET (Texts \cup {NoText}) /\ u \in sources /\ v \in sources
          <6>1. \A c \in {head[s], remote}, m \in Items : Tree(c)[m].text \in Texts \cup {NoText}
            BY <1>4, Fields, TreeTyped
          <6> QED
            BY <6>1, <4>3, <3>1, <3>2 DEF Conflicts, TextAt
        <5>2. NewText(sources)
          BY <1>2
        <5> HIDE DEF sources
        <5>3. madeFrom'[both] = UNION {madeFrom[t] \cup {t} : t \in sources \ {NoText}} /\ both # NoText
          <6>1. both # NoText
            BY <1>1, Fields DEF NoText
          <6> QED
            BY <5>1, <5>2, <6>1, <1>1, Fields, NewTextTyped
        <5>4. Keeps(f, u)' /\ Keeps(f, v)'
          <6>1. \A t \in sources \ {NoText} : t \in madeFrom'[both]
            BY <5>3
          <6> QED
            BY <4>3, <5>1, <5>3, <6>1 DEF Keeps, NoText
        <5> QED
          BY <5>4 DEF MayFollow
      <4> QED
        BY <4>2, <4>3
    <3>10. Follows(s, n, f, P)'
      <4>1. ASSUME NEW p \in P PROVE MayFollow(s, n, f, TextAt(p, n), PastOf(P))'
        <5>1. (TextAt(p, n)' = u \/ TextAt(p, n)' = v) /\ PastOf(P)' = G
          BY <1>6, <1>8, <1>9, <3>1, <3>2
        <5> QED
          BY <5>1, <3>9 DEF MayFollow, RevertedIn, Keeps
      <4> QED
        BY <4>1 DEF Follows
    <3> QED
      BY <2>1, <3>10, <1>5, <1>6, Bridge
  <2> QED
    BY <2>2, <2>3, <1>2, CheckedOut
<1> QED
  BY <1>2, <1>12, <1>13 DEF ExportKept

LEMMA AbortMergeFollows ==
  ASSUME SyncTyped, Grown, FollowsInv, NEW s \in Sites, AbortMerge(s), NEW n \in Items
  PROVE  DbFollows(s, n)' /\ FileFollows(s, n)' /\ ExportKept(s, n)'
<1>1. /\ UNCHANGED <<madeFrom, commits, db, head, incoming>> /\ pc[s] = "conflict" /\ pc'[s] = "aborted"
      /\ merging'[s] = NoCommit /\ files'[s] = Tree(head[s])
  BY DEF AbortMerge, SyncTyped, TypeOK
<1>2. PICK h : h = head[s]
  OBVIOUS
<1>3. h \in Commits /\ h # NoCommit
  BY <1>2, Fields DEF NoCommit, Commits
<1>4. Parents(s)' = {h} /\ TextAt(h, n)' = TextAt(h, n)
  BY <1>1, <1>2, <1>3, OneParent, TextSame
<1>5. PICK t : t = db[s][n]
  OBVIOUS
<1>6. Follows(s, n, t, {h})'
  <2>1. Follows(s, n, t, {h}) /\ {h} \in SUBSET Commits
    BY <1>1, <1>2, <1>3, <1>5 DEF FollowsInv, DbFollows
  <2>2. \A u : Keeps(t, u)' <=> Keeps(t, u)
    BY <1>5, SiteTexts, KeepsSame
  <2> QED
    BY <1>1, <2>1, <2>2, StillFollows
<1>7. PICK u : u = TextAt(h, n)
  OBVIOUS
<1>8. Follows(s, n, u, {h})'
  BY <1>4, <1>7, KeepingFollows DEF Keeps
<1>9. Follows(s, n, db[s][n], Parents(s))' /\ Follows(s, n, files[s][n].text, Parents(s))'
  <2>1. t = db'[s][n] /\ u = files'[s][n].text
    BY <1>1, <1>2, <1>5, <1>7 DEF TextAt
  <2> QED
    BY <1>4, <1>6, <1>8, <2>1, Bridge
<1> QED
  BY <1>1, <1>9 DEF DbFollows, FileFollows, ExportKept

\* An import takes the text of the file, and clears what that has kept.
LEMMA ImportedFollows ==
  ASSUME SyncTyped, Grown, FollowsInv, NEW s \in Sites, NEW skipped, NEW n \in Items,
         ImportFiles(s, skipped) \/ UNCHANGED <<db, incoming>>
  PROVE  /\ Follows(s, n, db'[s][n], Parents(s))
         /\ \A u \in incoming[s][n] : u \in incoming'[s][n] \/ Keeps(db'[s][n], u)
         /\ \A u \in incoming[s][n] : files[s][n] # NoFile => u \in incoming'[s][n] \/ Keeps(files[s][n].text, u)
         /\ db'[s][n] \in {db[s][n], files[s][n].text}
<1>1. Follows(s, n, db[s][n], Parents(s)) /\ (files[s][n] # NoFile => Follows(s, n, files[s][n].text, Parents(s)))
  BY DEF FollowsInv, DbFollows, FileFollows
<1>2. CASE UNCHANGED <<db, incoming>>
  BY <1>1, <1>2
<1>3. CASE ImportFiles(s, skipped)
  <2>1. db'[s][n] = IF n \in skipped \/ files[s][n] = NoFile THEN db[s][n] ELSE files[s][n].text
    BY <1>3, Fields DEF ImportFiles, Imported
  <2> DEFINE new == {t \in incoming[s][n] : ~ Keeps(files[s][n].text, t)}
  <2>2. incoming'[s][n] = IF n \in skipped THEN incoming[s][n] ELSE new
    BY <1>3, Fields DEF ImportFiles
  <2>3. \A u \in incoming[s][n] : u \in new \/ Keeps(files[s][n].text, u)
    OBVIOUS
  <2>4. files[s][n] = NoFile => \A u : Keeps(files[s][n].text, u) => Keeps(db[s][n], u)
    BY DEF Keeps, NoFile, NoText
  <2> HIDE DEF new
  <2> QED
    BY <1>1, <2>1, <2>2, <2>3, <2>4
<1> QED
  BY <1>2, <1>3

LEMMA ImportFollows ==
  ASSUME SyncTyped, Grown, FollowsInv, NEW s \in Sites, Import(s), NEW n \in Items
  PROVE  DbFollows(s, n)' /\ FileFollows(s, n)' /\ ExportKept(s, n)'
<1>1. /\ UNCHANGED <<madeFrom, commits, files, head, merging>> /\ pc'[s] = "idle"
      /\ \E skipped : ImportFiles(s, skipped)
  BY DEF Import, repository, SyncTyped, TypeOK
<1>2. PICK w : w = db'[s][n]
  OBVIOUS
<1>3. PICK f : f = files[s][n].text
  OBVIOUS
<1>4. PICK P : P = Parents(s)
  OBVIOUS
<1>5. P = Parents(s)' /\ P \subseteq Commits
  BY <1>1, <1>4, SiteTexts DEF Parents, NoCommit
<1>6. /\ Follows(s, n, w, P)
      /\ \A u \in incoming[s][n] : u \in incoming'[s][n] \/ Keeps(w, u)
      /\ \A u \in incoming[s][n] : files[s][n] # NoFile => u \in incoming'[s][n] \/ Keeps(f, u)
      /\ w \in Texts \cup {NoText} /\ f \in Texts \cup {NoText}
  BY <1>1, <1>2, <1>3, <1>4, ImportedFollows, SiteTexts
<1>7. \A u : (Keeps(w, u)' <=> Keeps(w, u)) /\ (Keeps(f, u)' <=> Keeps(f, u))
  BY <1>6, KeepsSame
<1>8. Follows(s, n, w, P)'
  BY <1>5, <1>6, <1>7, StillFollows
<1>9. files[s][n] # NoFile => Follows(s, n, f, P)'
  <2> SUFFICES ASSUME files[s][n] # NoFile PROVE Follows(s, n, f, P)'
    OBVIOUS
  <2>1. Follows(s, n, f, P)
    BY <1>3, <1>4 DEF FollowsInv, FileFollows
  <2> QED
    BY <2>1, <1>5, <1>6, <1>7, StillFollows
<1>10. Follows(s, n, db[s][n], Parents(s))'
  BY <1>2, <1>5, <1>8, Bridge
<1>11. files[s][n] # NoFile => Follows(s, n, files[s][n].text, Parents(s))'
  <2>1. f = files'[s][n].text
    BY <1>1, <1>3
  <2> QED
    BY <1>5, <1>9, <2>1, Bridge
<1> QED
  BY <1>1, <1>10, <1>11 DEF DbFollows, FileFollows, ExportKept, NoFile, NoText

\* What db-wins exports: the text that was imported, or none if it could not be
\* written.
LEMMA ResolvedTree ==
  ASSUME SyncTyped, AbortedIsClean, NEW s \in Sites, ResolveWithDb(s)
  PROVE  /\ pc[s] = "aborted" /\ pc'[s] = "idle" /\ UNCHANGED madeFrom
         /\ merging[s] = NoCommit /\ files[s] = Tree(head[s])
         /\ \E tree \in [Items -> CleanFiles], skipped \in SUBSET Items :
              /\ ImportFiles(s, skipped) \/ UNCHANGED <<db, incoming>>
              /\ files' = [files EXCEPT ![s] = tree]
              /\ \/ tree = Tree(head[s]) /\ UNCHANGED <<commits, head, merging>>
                 \/ CommitTree(s, tree)
              /\ \A n \in Items :
                   \/ tree[n].text = NoText /\ <<s, n>> \in Unwritable
                   \/ tree[n].text = Imported(s, skipped)[n]
<1>1. PICK skipped \in SUBSET Items, failed \in SUBSET WriteFailures(s) :
        LET tree == Rendered(Imported(s, skipped), <<s, "creator">>, failed)
        IN  /\ ImportFiles(s, skipped) \/ UNCHANGED <<db, incoming>>
            /\ files' = [files EXCEPT ![s] = tree]
            /\ IF tree = Tree(head[s]) THEN UNCHANGED <<commits, head, merging>>
                                       ELSE CommitTree(s, tree)
  BY DEF ResolveWithDb
<1> DEFINE tree == Rendered(Imported(s, skipped), <<s, "creator">>, failed)
<1>2. tree \in [Items -> CleanFiles]
  <2>1. <<s, "creator">> \in Headers /\ Imported(s, skipped) \in [Items -> Texts \cup {NoText}] /\ NoText \notin Texts
    BY ImportedTyped DEF Headers, Texts, NoText
  <2> QED
    BY <2>1, RenderedTyped DEF CleanFiles
<1>3. \A n \in Items : \/ tree[n].text = NoText /\ <<s, n>> \in Unwritable
                       \/ tree[n].text = Imported(s, skipped)[n]
  BY DEF Rendered, WriteFailures, NoFile
<1>4. /\ ImportFiles(s, skipped) \/ UNCHANGED <<db, incoming>>
      /\ files' = [files EXCEPT ![s] = tree]
      /\ \/ tree = Tree(head[s]) /\ UNCHANGED <<commits, head, merging>>
         \/ CommitTree(s, tree)
  BY <1>1
<1> HIDE DEF tree
<1>5. pc[s] = "aborted" /\ pc' = [pc EXCEPT ![s] = "idle"] /\ UNCHANGED madeFrom
  BY DEF ResolveWithDb
<1> QED
  BY <1>2, <1>3, <1>4, <1>5 DEF AbortedIsClean, SyncTyped, TypeOK

LEMMA ResolveFollows ==
  ASSUME SyncTyped, PushInv, AbortedIsClean, Grown, FollowsInv, NEW s \in Sites, ResolveWithDb(s), NEW n \in Items
  PROVE  DbFollows(s, n)' /\ FileFollows(s, n)' /\ ExportKept(s, n)'
<1>1. /\ pc'[s] = "idle" /\ UNCHANGED madeFrom
      /\ merging[s] = NoCommit /\ files[s] = Tree(head[s])
  BY ResolvedTree
<1>2. PICK tree \in [Items -> CleanFiles], skipped \in SUBSET Items :
        /\ ImportFiles(s, skipped) \/ UNCHANGED <<db, incoming>>
        /\ files' = [files EXCEPT ![s] = tree]
        /\ \/ tree = Tree(head[s]) /\ UNCHANGED <<commits, head, merging>>
           \/ CommitTree(s, tree)
        /\ \A m \in Items : \/ tree[m].text = NoText /\ <<s, m>> \in Unwritable
                            \/ tree[m].text = Imported(s, skipped)[m]
  BY ResolvedTree
<1>3. PICK w : w = db'[s][n]
  OBVIOUS
<1>4. PICK f : f = tree[n].text
  OBVIOUS
<1>5. PICK P : P = Parents(s)
  OBVIOUS
<1>6. /\ Follows(s, n, w, P)
      /\ \A u \in incoming[s][n] : u \in incoming'[s][n] \/ Keeps(w, u)
      /\ w \in Texts \cup {NoText} /\ P \subseteq Commits
  BY <1>2, <1>3, <1>5, ImportedFollows, SiteTexts
<1>7. \A u : Keeps(w, u)' <=> Keeps(w, u)
  BY <1>6, KeepsSame
<1>8. f = files'[s][n].text
  BY <1>2, <1>4, Fields
<1>9. head[s] \in Commits /\ head[s] # NoCommit
  BY Fields DEF NoCommit, Commits
<1>10. P = {head[s]}
  BY <1>1, <1>5, <1>9 DEF Parents
<1>11. CASE tree = Tree(head[s]) /\ UNCHANGED <<commits, head, merging>>
  <2>1. Parents(s)' = P
    BY <1>5, <1>11 DEF Parents, NoCommit
  <2>2. Follows(s, n, w, P)'
    BY <1>6, <1>7, StillFollows
  <2>3. PICK h : h = head[s]
    OBVIOUS
  <2>4. TextAt(h, n)' = f
    BY <1>4, <1>9, <1>11, <2>3, TextSame DEF TextAt
  <2>5. Follows(s, n, f, {h})'
    BY <2>4, KeepingFollows DEF Keeps
  <2>6. Follows(s, n, db[s][n], Parents(s))' /\ Follows(s, n, files[s][n].text, Parents(s))'
    BY <1>3, <1>8, <1>10, <2>1, <2>2, <2>3, <2>5, Bridge
  <2> QED
    BY <1>1, <2>6 DEF DbFollows, FileFollows, ExportKept
<1>12. CASE CommitTree(s, tree)
  <2>1. PICK new : new = Len(commits) + 1
    OBVIOUS
  <2>2. Parents(s)' = {new} /\ Tree(new)' = tree /\ PastOf(Parents(s)) \subseteq History(new)'
    BY <1>1, <1>12, <2>1, CommitTreeText
  <2>3. TextAt(new, n)' = f
    BY <1>4, <2>2 DEF TextAt
  <2>4. Follows(s, n, f, {new})'
    BY <2>3, KeepingFollows DEF Keeps
  <2>5. PICK G : G = History(new)'
    OBVIOUS
  <2>6. MayFollow(s, n, w, f, G)'
    <3>1. CASE f = NoText \/ f = w
      BY <3>1 DEF MayFollow, Keeps
    <3>2. CASE f # NoText /\ f # w
      <4>1. f = Imported(s, skipped)[n]
        BY <1>2, <1>4, <3>2
      <4>2. UNCHANGED <<db, incoming>>
        <5>1. ImportFiles(s, skipped) => db'[s][n] = Imported(s, skipped)[n]
          BY Fields DEF ImportFiles
        <5> QED
          BY <1>2, <1>3, <3>2, <4>1, <5>1
      <4>3. f = files[s][n].text
        BY <1>3, <3>2, <4>1, <4>2 DEF Imported
      <4>4. f = TextAt(head[s], n)
        BY <1>1, <4>3 DEF TextAt
      <4>5. MayFollow(s, n, w, f, PastOf(P))
        BY <1>6, <1>10, <4>4 DEF Follows
      <4>6. PastOf(P) \in SUBSET Commits /\ PastOf(P) \subseteq G
        BY <1>5, <2>2, <2>5, SiteTexts
      <4> QED
        BY <1>7, <4>2, <4>5, <4>6, StillMayFollow
    <3> QED
      BY <3>1, <3>2
  <2>7. Follows(s, n, w, {new})'
    BY <2>3, <2>5, <2>6 DEF Follows, PastOf, MayFollow, RevertedIn, Keeps
  <2>8. Follows(s, n, db[s][n], Parents(s))' /\ Follows(s, n, files[s][n].text, Parents(s))'
    BY <1>3, <1>8, <2>2, <2>4, <2>7, Bridge
  <2> QED
    BY <1>1, <2>8 DEF DbFollows, FileFollows, ExportKept
<1> QED
  BY <1>2, <1>11, <1>12

LEMMA NextFollows ==
  ASSUME SyncInv, FollowsInv, Grown, [Next]_vars
  PROVE  FollowsInv'
<1> USE DEF SyncInv
<1>1. CASE UNCHANGED vars
  BY <1>1, QuietFollows DEF FollowsInv, vars, repository
<1>2. ASSUME NEW s \in Sites, Call(s) \/ \E m \in Items : Edit(s, m), NEW r \in Sites, NEW n \in Items
      PROVE  DbFollows(r, n)' /\ FileFollows(r, n)' /\ ExportKept(r, n)'
  <2>1. CASE r # s
    <3>1. Mine(r)' = Mine(r)
      BY <1>2, <2>1, StepIsLocal
    <3> QED
      BY <3>1, QuietFollows DEF Mine
  <2>2. CASE r = s /\ \E m \in Items : Edit(s, m)
    BY <2>2, EditFollows
  <2>3. CASE r = s /\ (NothingToCommit(s) \/ Push(s) \/ PushRefused(s) \/ Stop(s))
    <3>1. /\ UNCHANGED <<db, files, head, merging, incoming>>
          /\ pc'[s] \notin {"exported", "conflict"}
      BY <2>3 DEF NothingToCommit, Push, PushRefused, Stop, repository, SyncTyped, TypeOK
    <3> QED
      BY <2>3, <3>1, QuietFollows
  <2>4. ASSUME r = s, NEW manual \in BOOLEAN, PullConflict(s, manual)
        PROVE  DbFollows(r, n)' /\ FileFollows(r, n)' /\ ExportKept(r, n)'
    BY <2>4, PullConflictFollows
  <2>5. CASE r = s /\ (Export(s) \/ Commit(s) \/ PullForward(s) \/ PullMerge(s) \/ AbortMerge(s)
                       \/ Import(s) \/ ResolveWithDb(s))
    BY <2>5, ExportFollows, CommitFollows, PullForwardFollows, PullMergeFollows, AbortMergeFollows,
       ImportFollows, ResolveFollows
  <2> QED
    BY <1>2, <2>1, <2>2, <2>3, <2>4, <2>5 DEF Call
<1>3. CASE Next
  BY <1>2, <1>3 DEF Next, FollowsInv
<1> QED
  BY <1>1, <1>3

LEMMA InitFollows == ASSUME Init PROVE FollowsInv
<1> SUFFICES ASSUME NEW s \in Sites, NEW n \in Items
             PROVE  DbFollows(s, n) /\ FileFollows(s, n) /\ ExportKept(s, n)
  BY DEF FollowsInv
<1>1. /\ head[s] = 1 /\ merging[s] = NoCommit /\ pc[s] = "idle"
      /\ TextAt(1, n) = 1 /\ files[s][n].text = 1
      /\ db[s][n] = IF s = Founder THEN 1 ELSE NoText
      /\ incoming[s][n] = IF s = Founder THEN {} ELSE {1}
  BY DEF Init, TextAt, Tree
<1>2. Parents(s) = {1}
  BY <1>1 DEF Parents, NoCommit
<1>3. Follows(s, n, db[s][n], {1}) /\ Follows(s, n, files[s][n].text, {1})
  BY <1>1 DEF Follows, MayFollow, Keeps
<1> QED
  BY <1>1, <1>2, <1>3 DEF DbFollows, FileFollows, ExportKept

LEMMA AlwaysFollows == Spec => [](SyncInv /\ FollowsInv)
<1>1. Init => SyncInv /\ FollowsInv
  BY PushInvInit, InitTyped, InitBases, InitFollows DEF SyncInv
<1>2. SyncInv /\ FollowsInv /\ [Next]_vars => (SyncInv /\ FollowsInv)'
  BY NextSync, NextFollows
<1> QED
  BY <1>1, <1>2, PTL DEF Spec

\* The new text of a commit that the database makes may follow each of its parents.
LEMMA TakesBackStep ==
  ASSUME SyncInv, FollowsInv, [Next]_vars, NEW s \in Sites, NEW n \in Items,
         pc[s] \in {"exported", "aborted"}, head'[s] # head[s], NEW new, new = commits'[head'[s]].tree[n].text
  PROVE  \/ Follows(s, n, new, Parents(s))
         \/ new = NoText /\ <<s, n>> \in Unwritable
<1> USE DEF SyncInv
<1>1. Call(s) /\ (Commit(s) \/ ResolveWithDb(s))
  <2>1. PICK r \in Sites : Call(r) \/ \E m \in Items : Edit(r, m)
    BY DEF Next, vars, repository
  <2>2. r = s
    BY <2>1, StepIsLocal DEF Mine
  <2>3. ~ \E m \in Items : Edit(s, m)
    BY DEF Edit, repository
  <2>4. ~ (Export(s) \/ NothingToCommit(s) \/ Push(s) \/ PushRefused(s) \/ AbortMerge(s) \/ Import(s) \/ Stop(s))
    BY DEF Export, NothingToCommit, Push, PushRefused, AbortMerge, Import, Stop, repository
  <2>5. ~ (PullForward(s) \/ PullMerge(s)) /\ \A manual \in BOOLEAN : ~ PullConflict(s, manual)
    BY DEF PullForward, PullMerge, PullConflict, CanMerge
  <2> QED
    BY <2>1, <2>2, <2>3, <2>4, <2>5 DEF Call
<1>2. CASE Commit(s)
  <2>1. UNCHANGED madeFrom /\ CommitTree(s, files[s]) /\ pc[s] = "exported" /\ files[s] \in [Items -> CleanFiles]
    BY <1>2, Fields DEF Commit, PushInv, FilesAreExported
  <2>2. PICK c : c = Len(commits) + 1
    OBVIOUS
  <2>3. head'[s] = c /\ Tree(c)' = files[s]
    BY <2>1, <2>2, CommitTreeText
  <2>4. new = files[s][n].text
    BY <2>3 DEF Tree
  <2>5. files[s][n] # NoFile \/ <<s, n>> \notin Unwritable => Follows(s, n, new, Parents(s))
    BY <2>1, <2>4 DEF FollowsInv, FileFollows
  <2> QED
    BY <2>4, <2>5 DEF NoFile
<1>3. CASE ResolveWithDb(s)
  <2>1. PICK tree \in [Items -> CleanFiles], skipped \in SUBSET Items :
          /\ \/ tree = Tree(head[s]) /\ UNCHANGED <<commits, head, merging>>
             \/ CommitTree(s, tree)
          /\ \A m \in Items : \/ tree[m].text = NoText /\ <<s, m>> \in Unwritable
                              \/ tree[m].text = Imported(s, skipped)[m]
    BY <1>3, ResolvedTree
  <2>2. UNCHANGED madeFrom /\ CommitTree(s, tree)
    BY <1>3, <2>1 DEF ResolveWithDb
  <2>3. PICK c : c = Len(commits) + 1
    OBVIOUS
  <2>4. head'[s] = c /\ Tree(c)' = tree
    BY <2>2, <2>3, CommitTreeText
  <2>5. new = tree[n].text
    BY <2>4 DEF Tree
  <2>6. Follows(s, n, Imported(s, skipped)[n], Parents(s))
    <3>1. Imported(s, skipped)[n] = IF n \in skipped \/ files[s][n] = NoFile THEN db[s][n] ELSE files[s][n].text
      BY DEF Imported
    <3> QED
      BY <3>1 DEF FollowsInv, DbFollows, FileFollows
  <2> QED
    BY <2>1, <2>5, <2>6
<1> QED
  BY <1>1, <1>2, <1>3

\* Whatever the sites do in whatever order, a commit of the database takes back
\* only what the site has not read, what could not be written, and what an
\* earlier commit has taken back.
THEOREM CommitsTakeBackOnlyUnread == Spec => TakesBackOnlyUnread
<1>1. SyncInv /\ FollowsInv /\ [Next]_vars =>
        [\A s \in Sites, n \in Items :
           pc[s] \in {"exported", "aborted"} /\ head'[s] # head[s] =>
             LET new == commits'[head'[s]].tree[n].text
             IN  \A p \in Parents(s) :
                   \/ Keeps(new, Tree(p)[n].text)
                   \/ Tree(p)[n].text \in incoming[s][n]
                   \/ Reverted(s, n, Tree(p)[n].text)
                   \/ new = NoText /\ <<s, n>> \in Unwritable]_vars
  <2> SUFFICES ASSUME SyncInv, FollowsInv, [Next]_vars, NEW s \in Sites, NEW n \in Items,
                      pc[s] \in {"exported", "aborted"}, head'[s] # head[s],
                      NEW new, new = commits'[head'[s]].tree[n].text, NEW p \in Parents(s)
               PROVE  \/ Keeps(new, Tree(p)[n].text)
                      \/ Tree(p)[n].text \in incoming[s][n]
                      \/ Reverted(s, n, Tree(p)[n].text)
                      \/ new = NoText /\ <<s, n>> \in Unwritable
    OBVIOUS
  <2>1. Follows(s, n, new, Parents(s)) \/ (new = NoText /\ <<s, n>> \in Unwritable)
    BY TakesBackStep
  <2> QED
    BY <2>1 DEF Follows, MayFollow, RevertedIn, PastOf, TextAt, Reverted
<1> QED
  BY <1>1, AlwaysFollows, PTL DEF Spec, TakesBackOnlyUnread

-----------------------------------------------------------------------------
(***************************************************************************)
(* What an import keeps.                                                   *)
(***************************************************************************)
HasText(H, n, t) == \E c \in H : TextAt(c, n) = t
Committed(n, t) == HasText(Commits, n, t)

\* What is made from a text is made from all that the text was made from.
MadeFromAll == \A t \in Texts : \A u \in madeFrom[t] : madeFrom[u] \subseteq madeFrom[t]

Holds(s, n) == {db[s][n], files[s][n].text} \ {NoText}

\* Sites share only texts that were committed.
SharedIsCommitted == \A s, r \in Sites, n \in Items :
                       s # r => \A t \in Holds(s, n) \cap Holds(r, n) : Committed(n, t)

\* A committed text that a site holds is in the past of its next commit.
DbOwned(s, n) == db[s][n] # NoText /\ Committed(n, db[s][n]) =>
                   /\ HasText(PastOf(Parents(s)), n, db[s][n])
                   /\ pc[s] = "conflict" => HasText(History(head[s]), n, db[s][n])

FileOwned(s, n) == files[s][n].text # NoText /\ Committed(n, files[s][n].text) =>
                     HasText(PastOf(Parents(s)), n, files[s][n].text)

\* The files keep what the database has of the commits.
FileKeepsDb(s, n) == ~ TakenBack(n) /\ files[s][n] # NoFile /\ Committed(n, db[s][n]) =>
                       Keeps(files[s][n].text, db[s][n])

Owned(s, n) == DbOwned(s, n) /\ FileOwned(s, n) /\ FileKeepsDb(s, n)

KeptInv == /\ MadeFromAll
           /\ SharedIsCommitted
           /\ \A s \in Sites, n \in Items : Owned(s, n)

LEMMA KeepsOfKept ==
  ASSUME SyncTyped, MadeFromAll, NEW t \in Texts \cup {NoText}, NEW u \in Texts \cup {NoText}, NEW v,
         Keeps(t, u), Keeps(u, v)
  PROVE  Keeps(t, v)
BY DEF MadeFromAll, Keeps, NoText, Texts

LEMMA NewTextMadeFrom ==
  ASSUME SyncTyped, MadeFromAll, NEW sources \in SUBSET (Texts \cup {NoText}), NewText(sources)
  PROVE  MadeFromAll'
<1>1. PICK new : new = Len(madeFrom) + 1
  OBVIOUS
<1>2. /\ Texts' = Texts \cup {new} /\ new \notin Texts
      /\ \A t \in Texts : madeFrom'[t] = madeFrom[t]
      /\ madeFrom'[new] = UNION {madeFrom[t] \cup {t} : t \in sources \ {NoText}}
      /\ madeFrom'[new] \in SUBSET Texts
  BY <1>1, Fields, NewTextTyped
<1>3. \A t \in Texts : madeFrom[t] \subseteq Texts
  <2>1. madeFrom \in Seq(SUBSET Texts)
    BY Fields
  <2> QED
    BY <2>1 DEF Texts
<1> SUFFICES ASSUME NEW t \in Texts', NEW u \in madeFrom'[t] PROVE madeFrom'[u] \subseteq madeFrom'[t]
  BY DEF MadeFromAll
<1>4. CASE t \in Texts
  BY <1>2, <1>3, <1>4 DEF MadeFromAll
<1>5. CASE t = new
  <2>1. PICK x \in sources \ {NoText} : u \in madeFrom[x] \cup {x}
    BY <1>2, <1>5
  <2>2. x \in Texts /\ u \in Texts
    BY <1>3, <2>1
  <2>3. madeFrom[u] \subseteq madeFrom[x]
    BY <2>1, <2>2 DEF MadeFromAll
  <2>4. madeFrom[x] \subseteq madeFrom'[new]
    BY <1>2
  <2> QED
    BY <1>2, <1>5, <2>2, <2>3, <2>4
<1> QED
  BY <1>2, <1>4, <1>5

LEMMA NextMadeFrom ==
  ASSUME SyncTyped, MadeFromAll, [Next]_vars
  PROVE  MadeFromAll'
<1>1. ASSUME UNCHANGED madeFrom PROVE MadeFromAll'
  BY <1>1 DEF MadeFromAll, Texts
<1>2. ASSUME NEW s \in Sites, NEW n \in Items, Edit(s, n) PROVE MadeFromAll'
  <2>1. {db[s][n]} \in SUBSET (Texts \cup {NoText})
    BY Fields
  <2> QED
    BY <1>2, <2>1, NewTextMadeFrom DEF Edit
<1>3. ASSUME NEW s \in Sites, NEW manual \in BOOLEAN, PullConflict(s, manual) PROVE MadeFromAll'
  <2> DEFINE sources == {Tree(c)[n].text : c \in {head[s], remote}, n \in Conflicts(s)}
  <2>1. sources \in SUBSET (Texts \cup {NoText})
    BY Fields, TreeTyped DEF Conflicts
  <2>2. NewText(sources)
    BY <1>3 DEF PullConflict
  <2> HIDE DEF sources
  <2> QED
    BY <2>1, <2>2, NewTextMadeFrom
<1>4. ASSUME NEW s \in Sites, Call(s) PROVE MadeFromAll'
  BY <1>1, <1>3, <1>4 DEF Call, Export, NothingToCommit, Commit, Push, PushRefused, PullForward, PullMerge,
                          AbortMerge, Import, ResolveWithDb, Stop
<1> QED
  BY <1>1, <1>2, <1>4 DEF Next, vars

LEMMA HasTextStays ==
  ASSUME SyncTyped, Grown, NEW n \in Items, NEW t, NEW H \in SUBSET Commits, NEW G, H \subseteq G, HasText(H, n, t)
  PROVE  HasText(G, n, t)'
<1>1. PICK c \in H : TextAt(c, n) = t
  BY DEF HasText
<1>2. c \in G /\ TextAt(c, n)' = t
  BY <1>1, TextSame
<1> QED
  BY <1>2 DEF HasText

LEMMA CommittedStays ==
  ASSUME SyncTyped, Grown, NEW n \in Items, NEW t, Committed(n, t)
  PROVE  Committed(n, t)'
<1>1. PICK c \in Commits : TextAt(c, n) = t
  BY DEF Committed, HasText
<1>2. c \in Commits' /\ TextAt(c, n)' = t
  BY <1>1, TextSame DEF Grown
<1> QED
  BY <1>2 DEF Committed, HasText

LEMMA CommittedIsText ==
  ASSUME SyncTyped, NEW n \in Items, NEW t, Committed(n, t)
  PROVE  t \in Texts \cup {NoText}
<1>1. PICK c \in Commits : TextAt(c, n) = t
  BY DEF Committed, HasText
<1> QED
  BY <1>1, Fields, TreeTyped DEF TextAt

LEMMA TakenBackStays ==
  ASSUME SyncTyped, Grown, NEW n \in Items, TakenBack(n)
  PROVE  TakenBack(n)'
<1>1. PICK c \in Commits : \E p \in commits[c].past : ~ Keeps(Tree(c)[n].text, Tree(p)[n].text)
  BY DEF TakenBack
<1>2. PICK p \in commits[c].past : ~ Keeps(Tree(c)[n].text, Tree(p)[n].text)
  BY <1>1
<1>3. RevertedIn(Commits, n, TextAt(p, n))
  BY <1>1, <1>2 DEF RevertedIn, TextAt
<1>4. PICK u : u = TextAt(p, n)
  OBVIOUS
<1>5. PICK G : G = Commits'
  OBVIOUS
<1>6. RevertedIn(G, n, u)'
  BY <1>3, <1>4, <1>5, RevertedStays DEF Grown
<1> QED
  BY <1>5, <1>6 DEF RevertedIn, TakenBack, TextAt

\* The text of a commit keeps every text of its past, if none is taken back.
LEMMA NotTakenBack ==
  ASSUME NEW n \in Items, ~ TakenBack(n), NEW c \in Commits, NEW b \in History(c)
  PROVE  Keeps(TextAt(c, n), TextAt(b, n))
BY DEF TakenBack, History, TextAt, Keeps

\* A step of s commits only what s holds, and brings it only what is committed
\* or new.
OnlyOwn(s, n) ==
  /\ \A t : t # NoText /\ Committed(n, t)' => Committed(n, t) \/ t \in Holds(s, n)
  /\ \A t \in Holds(s, n)' : t \in Holds(s, n) \/ Committed(n, t)' \/ t \notin Texts

LEMMA NewlyCommitted ==
  ASSUME SyncTyped, Grown, NEW n \in Items, NEW t, NEW new, Commits' \subseteq Commits \cup {new}, Committed(n, t)'
  PROVE  Committed(n, t) \/ t = TextAt(new, n)'
<1>1. PICK c \in Commits' : TextAt(c, n)' = t
  BY DEF Committed, HasText
<1>2. c \in Commits => Committed(n, t)
  BY <1>1, TextSame DEF Committed, HasText
<1> QED
  BY <1>1, <1>2

LEMMA NothingCommitted ==
  ASSUME SyncTyped, Grown, NEW n \in Items, NEW t, UNCHANGED commits
  PROVE  Committed(n, t)' <=> Committed(n, t)
BY DEF Committed, HasText, TextAt, Tree, Commits

LEMMA OwnedNow ==
  ASSUME NEW s \in Sites, NEW n \in Items, NEW d, NEW f, NEW H, NEW K,
         d = db'[s][n], f = files'[s][n].text, H = PastOf(Parents(s))', K = History(head[s])',
         d # NoText /\ Committed(n, d)' => HasText(H, n, d)' /\ (pc'[s] = "conflict" => HasText(K, n, d)'),
         f # NoText /\ Committed(n, f)' => HasText(H, n, f)',
         ~ TakenBack(n)' /\ files'[s][n] # NoFile /\ Committed(n, d)' => Keeps(f, d)'
  PROVE  Owned(s, n)'
<1>1. DbOwned(s, n)'
  BY DEF DbOwned, HasText, Committed, NoText
<1>2. FileOwned(s, n)'
  BY DEF FileOwned, HasText, Committed, NoText
<1>3. FileKeepsDb(s, n)'
  BY DEF FileKeepsDb, HasText, Committed, NoText, NoFile, Keeps
<1> QED
  BY <1>1, <1>2, <1>3 DEF Owned

\* Steps that commit nothing, and leave a site's commits and files alone.
LEMMA SameFilesOwned ==
  ASSUME SyncTyped, Grown, KeptInv, NEW s \in Sites, NEW n \in Items,
         files'[s] = files[s], head'[s] = head[s], merging'[s] = merging[s],
         pc'[s] = "conflict" => pc[s] = "conflict",
         \A t : t \in {db[s][n], files[s][n].text} /\ t # NoText /\ Committed(n, t)' => Committed(n, t),
         db'[s][n] # db[s][n] =>
           /\ pc'[s] # "conflict"
           /\ \/ db'[s][n] = files[s][n].text /\ files[s][n] # NoFile
              \/ ~ Committed(n, db[s][n])'
  PROVE  Owned(s, n)'
<1>1. Parents(s)' = Parents(s) /\ Parents(s) \subseteq Commits /\ head[s] \in Commits
      /\ PastOf(Parents(s)) \subseteq Commits
      /\ db[s][n] \in Texts \cup {NoText} /\ files[s][n].text \in Texts \cup {NoText}
      /\ (files[s][n] = NoFile <=> files[s][n].text = NoText)
  BY SiteTexts DEF Parents, NoCommit
<1>2. PICK P : P = PastOf(Parents(s))
  OBVIOUS
<1>3. PICK H : H = PastOf(Parents(s))'
  OBVIOUS
<1>4. PICK K : K = History(head[s])'
  OBVIOUS
<1>5. P = H /\ P \subseteq Commits
  <2>1. \A c \in Parents(s) : History(c)' = History(c)
    BY <1>1, PastsKept
  <2> QED
    BY <1>1, <1>2, <1>3, <2>1 DEF PastOf
<1>6. K = History(head[s]) /\ K \subseteq Commits
  BY <1>1, <1>4, PastsKept DEF History
<1>7. PICK d : d = db'[s][n]
  OBVIOUS
<1>8. PICK f : f = files'[s][n].text
  OBVIOUS
<1>9. Owned(s, n)
  BY DEF KeptInv
<1>10. f # NoText /\ Committed(n, f)' => HasText(H, n, f)'
  <2> SUFFICES ASSUME f # NoText, Committed(n, f)' PROVE HasText(H, n, f)'
    OBVIOUS
  <2>1. HasText(P, n, f)
    BY <1>2, <1>8, <1>9 DEF Owned, FileOwned
  <2> QED
    BY <2>1, <1>5, HasTextStays
<1>11. CASE d = db[s][n]
  <2>1. d # NoText /\ Committed(n, d)' => HasText(H, n, d)' /\ (pc'[s] = "conflict" => HasText(K, n, d)')
    <3> SUFFICES ASSUME d # NoText, Committed(n, d)'
                 PROVE  HasText(H, n, d)' /\ (pc'[s] = "conflict" => HasText(K, n, d)')
      OBVIOUS
    <3>1. HasText(P, n, d) /\ (pc[s] = "conflict" => HasText(K, n, d))
      BY <1>2, <1>6, <1>9, <1>11 DEF Owned, DbOwned
    <3> QED
      BY <3>1, <1>5, <1>6, HasTextStays
  <2>2. ~ TakenBack(n)' /\ files'[s][n] # NoFile /\ Committed(n, d)' => Keeps(f, d)'
    <3> SUFFICES ASSUME ~ TakenBack(n)', files'[s][n] # NoFile, Committed(n, d)' PROVE Keeps(f, d)'
      OBVIOUS
    <3>1. ~ TakenBack(n)
      BY TakenBackStays
    <3>2. d # NoText => Keeps(f, d)
      BY <3>1, <1>8, <1>9, <1>11 DEF Owned, FileKeepsDb
    <3> QED
      BY <3>2, <1>1, <1>8, KeepsSame DEF Keeps
  <2> QED
    BY <2>1, <2>2, <1>3, <1>4, <1>7, <1>8, <1>10, OwnedNow
<1>12. CASE d # db[s][n] /\ d = f /\ pc'[s] # "conflict"
  <2>1. Keeps(f, d)'
    BY <1>12 DEF Keeps
  <2> QED
    BY <2>1, <1>3, <1>4, <1>7, <1>8, <1>10, <1>12, OwnedNow
<1>13. CASE ~ Committed(n, d)'
  BY <1>3, <1>4, <1>7, <1>8, <1>10, <1>13, OwnedNow
<1>14. ~ Committed(n, db[s][n])' => ~ Committed(n, d)'
  BY <1>7 DEF Committed, HasText
<1> QED
  BY <1>7, <1>8, <1>11, <1>12, <1>13, <1>14

LEMMA ImportedText ==
  ASSUME SyncTyped, NEW s \in Sites, NEW skipped, NEW n \in Items,
         ImportFiles(s, skipped) \/ UNCHANGED <<db, incoming>>
  PROVE  \/ db'[s][n] = db[s][n]
         \/ db'[s][n] = files[s][n].text /\ files[s][n] # NoFile
<1>1. CASE ImportFiles(s, skipped)
  <2>1. db'[s][n] = IF n \in skipped \/ files[s][n] = NoFile THEN db[s][n] ELSE files[s][n].text
    BY <1>1, Fields DEF ImportFiles, Imported
  <2> QED
    BY <2>1
<1> QED
  BY <1>1

\* Steps that leave the commits, the branch and the files of a site alone.
LEMMA QuietOwned ==
  ASSUME SyncTyped, Grown, KeptInv, NEW s \in Sites, NEW n \in Items,
         UNCHANGED commits, files'[s] = files[s], head'[s] = head[s], merging'[s] = merging[s],
         pc'[s] = "conflict" => pc[s] = "conflict" /\ db'[s][n] = db[s][n],
         \/ db'[s][n] = db[s][n]
         \/ db'[s][n] = files[s][n].text /\ files[s][n] # NoFile
  PROVE  Owned(s, n)' /\ OnlyOwn(s, n)
<1>1. ASSUME NEW t, Committed(n, t)' PROVE Committed(n, t)
  BY <1>1, NothingCommitted
<1>2. Owned(s, n)'
  BY <1>1, SameFilesOwned
<1>3. Holds(s, n)' \subseteq Holds(s, n)
  BY DEF Holds, NoText
<1> QED
  BY <1>1, <1>2, <1>3 DEF OnlyOwn

LEMMA EditOwned ==
  ASSUME SyncTyped, Grown, KeptInv, NEW s \in Sites, NEW m \in Items, Edit(s, m), NEW n \in Items
  PROVE  Owned(s, n)' /\ OnlyOwn(s, n)
<1>1. UNCHANGED <<commits, files, head, merging, pc>>
  BY DEF Edit, repository
<1>2. CASE n # m
  <2>1. db'[s][n] = db[s][n]
    BY <1>2, Fields DEF Edit
  <2> QED
    BY <1>1, <2>1, QuietOwned
<1>3. CASE n = m
  <2>1. PICK new : new = Len(madeFrom) + 1
    OBVIOUS
  <2>2. db'[s][n] = new
    BY <1>3, <2>1, Fields DEF Edit
  <2>3. new \notin Texts \cup {NoText}
    BY <2>1, Fields DEF Texts, NoText
  <2>4. ASSUME NEW t, Committed(n, t)' PROVE Committed(n, t) /\ t \in Texts \cup {NoText}
    BY <1>1, <2>4, NothingCommitted, CommittedIsText
  <2>5. ~ Committed(n, new)'
    BY <2>3, <2>4
  <2>6. db[s][n] \in Texts \cup {NoText}
    BY SiteTexts
  <2>7. Owned(s, n)'
    <3> DEFINE d == db'[s][n]
    <3>1. PICK f : f = files'[s][n].text
      OBVIOUS
    <3>2. PICK H : H = PastOf(Parents(s))'
      OBVIOUS
    <3>3. PICK K : K = History(head[s])'
      OBVIOUS
    <3>4. f # NoText /\ Committed(n, f)' => HasText(H, n, f)'
      <4> SUFFICES ASSUME f # NoText, Committed(n, f)' PROVE HasText(H, n, f)'
        OBVIOUS
      <4>1. HasText(PastOf(Parents(s)), n, f)
        BY <1>1, <2>4, <3>1 DEF KeptInv, Owned, FileOwned
      <4>2. PastOf(Parents(s)) \subseteq Commits
        BY SiteTexts
      <4>3. H = PastOf(Parents(s))
        BY <1>1, <3>2 DEF PastOf, Parents, History, NoCommit
      <4> QED
        BY <4>1, <4>2, <4>3, HasTextStays
    <3> QED
      BY <2>2, <2>5, <3>1, <3>2, <3>3, <3>4, OwnedNow
  <2>8. Holds(s, n)' \subseteq Holds(s, n) \cup {new}
    BY <1>1, <2>2 DEF Holds, NoText
  <2> QED
    BY <2>3, <2>4, <2>7, <2>8 DEF OnlyOwn
<1> QED
  BY <1>2, <1>3

LEMMA ExportOwned ==
  ASSUME SyncTyped, Grown, KeptInv, NEW s \in Sites, Export(s), NEW n \in Items
  PROVE  Owned(s, n)' /\ OnlyOwn(s, n)
<1>1. UNCHANGED <<commits, db, head, merging>> /\ pc'[s] = "exported"
  BY DEF Export, SyncTyped, TypeOK
<1>2. PICK failed \in SUBSET WriteFailures(s) : files' = [files EXCEPT ![s] = Rendered(db[s], <<s, "key">>, failed)]
  BY DEF Export
<1>3. files'[s][n] = NoFile \/ files'[s][n].text = db[s][n]
  <2>1. files'[s][n] = Rendered(db[s], <<s, "key">>, failed)[n]
    BY <1>2, Fields
  <2> QED
    BY <2>1 DEF Rendered
<1>4. PICK d : d = db[s][n]
  OBVIOUS
<1>5. PICK f : f = files'[s][n].text
  OBVIOUS
<1>6. PICK H : H = PastOf(Parents(s))'
  OBVIOUS
<1>7. PICK K : K = History(head[s])'
  OBVIOUS
<1>8. f \in {d, NoText} /\ (files'[s][n] # NoFile => f = d)
  BY <1>3, <1>4, <1>5 DEF NoFile
<1>9. ASSUME NEW t, Committed(n, t)' PROVE Committed(n, t)
  BY <1>1, <1>9, NothingCommitted
<1>10. d # NoText /\ Committed(n, d)' => HasText(H, n, d)'
  <2> SUFFICES ASSUME d # NoText, Committed(n, d)' PROVE HasText(H, n, d)'
    OBVIOUS
  <2>1. HasText(PastOf(Parents(s)), n, d)
    BY <1>4, <1>9 DEF KeptInv, Owned, DbOwned
  <2>2. PastOf(Parents(s)) \subseteq Commits
    BY SiteTexts
  <2>3. H = PastOf(Parents(s))
    BY <1>1, <1>6 DEF PastOf, Parents, History, NoCommit
  <2> QED
    BY <2>1, <2>2, <2>3, HasTextStays
<1>11. files'[s][n] # NoFile => Keeps(f, d)'
  BY <1>8 DEF Keeps
<1>12. Owned(s, n)'
  <2>1. d = db'[s][n] /\ pc'[s] # "conflict"
    BY <1>1, <1>4
  <2>2. f # NoText /\ Committed(n, f)' => HasText(H, n, f)'
    BY <1>8, <1>10
  <2> QED
    BY <2>1, <2>2, <1>5, <1>6, <1>7, <1>10, <1>11, OwnedNow
<1>13. Holds(s, n)' \subseteq Holds(s, n)
  BY <1>1, <1>4, <1>5, <1>8 DEF Holds, NoText
<1> QED
  BY <1>9, <1>12, <1>13 DEF OnlyOwn

\* A commit of a tree whose text of n the site holds already.
LEMMA CommitTreeOwned ==
  ASSUME SyncTyped, Grown, KeptInv, NEW s \in Sites, NEW tree \in [Items -> CleanFiles],
         CommitTree(s, tree), UNCHANGED madeFrom, NEW n \in Items, NEW d, NEW f,
         d = db'[s][n], f = files'[s][n].text, f = tree[n].text, pc'[s] # "conflict",
         d \in Holds(s, n) \cup {NoText}, f \in Holds(s, n) \cup {NoText},
         ~ TakenBack(n) /\ files'[s][n] # NoFile /\ Committed(n, d) => Keeps(f, d)
  PROVE  Owned(s, n)' /\ OnlyOwn(s, n)
<1>1. PICK new : new = Len(commits) + 1
  OBVIOUS
<1>2. /\ Parents(s)' = {new} /\ Tree(new)' = tree /\ PastOf(Parents(s)) \subseteq History(new)'
      /\ head'[s] = new
  BY <1>1, CommitTreeText
<1>3. Commits' \subseteq Commits \cup {new}
  BY <1>1, Fields DEF CommitTree, NewCommit, Commits
<1>4. TextAt(new, n)' = f
  BY <1>2 DEF TextAt
<1>5. ASSUME NEW t, Committed(n, t)' PROVE Committed(n, t) \/ t = f
  BY <1>3, <1>4, <1>5, NewlyCommitted
<1>6. PICK H : H = PastOf(Parents(s))'
  OBVIOUS
<1>7. PICK K : K = History(head[s])'
  OBVIOUS
<1>8. new \in H /\ PastOf(Parents(s)) \subseteq H
  BY <1>2, <1>6 DEF PastOf, History
<1>9. HasText(H, n, f)'
  BY <1>4, <1>8 DEF HasText
<1>10. ASSUME NEW t \in Holds(s, n), Committed(n, t)' PROVE HasText(H, n, t)'
  <2>1. CASE t = f
    BY <1>9, <2>1
  <2>2. CASE Committed(n, t)
    <3>1. HasText(PastOf(Parents(s)), n, t)
      BY <2>2 DEF Holds, KeptInv, Owned, DbOwned, FileOwned
    <3> QED
      BY <3>1, <1>8, SiteTexts, HasTextStays
  <2> QED
    BY <1>5, <1>10, <2>1, <2>2
<1>11. ~ TakenBack(n)' /\ files'[s][n] # NoFile /\ Committed(n, d)' => Keeps(f, d)'
  <2> SUFFICES ASSUME ~ TakenBack(n)', files'[s][n] # NoFile, Committed(n, d)' PROVE Keeps(f, d)'
    OBVIOUS
  <2>1. CASE d = f
    BY <2>1 DEF Keeps
  <2>2. CASE Committed(n, d)
    <3>1. Keeps(f, d)
      BY <2>2, TakenBackStays
    <3>2. f \in Texts \cup {NoText}
      BY SiteTexts DEF Holds
    <3> QED
      BY <3>1, <3>2, KeepsSame
  <2> QED
    BY <1>5, <2>1, <2>2
<1>12. Owned(s, n)'
  BY <1>6, <1>7, <1>9, <1>10, <1>11, OwnedNow
<1>13. Holds(s, n)' \subseteq Holds(s, n)
  BY DEF Holds, NoText
<1> QED
  BY <1>5, <1>12, <1>13 DEF OnlyOwn

LEMMA CommitOwned ==
  ASSUME SyncTyped, PushInv, Grown, KeptInv, NEW s \in Sites, Commit(s), NEW n \in Items
  PROVE  Owned(s, n)' /\ OnlyOwn(s, n)
<1>1. /\ UNCHANGED <<madeFrom, db, files>> /\ pc'[s] # "conflict" /\ CommitTree(s, files[s])
      /\ files[s] \in [Items -> CleanFiles]
  BY Fields DEF Commit, PushInv, FilesAreExported, SyncTyped, TypeOK
<1>2. PICK d : d = db[s][n]
  OBVIOUS
<1>3. PICK f : f = files[s][n].text
  OBVIOUS
<1>4. ~ TakenBack(n) /\ files'[s][n] # NoFile /\ Committed(n, d) => Keeps(f, d)
  BY <1>1, <1>2, <1>3 DEF KeptInv, Owned, FileKeepsDb
<1>5. d \in Holds(s, n) \cup {NoText} /\ f \in Holds(s, n) \cup {NoText}
  BY <1>2, <1>3 DEF Holds
<1> QED
  BY <1>1, <1>2, <1>3, <1>4, <1>5, CommitTreeOwned

LEMMA ResolveOwned ==
  ASSUME SyncTyped, AbortedIsClean, Grown, KeptInv, NEW s \in Sites, ResolveWithDb(s), NEW n \in Items
  PROVE  Owned(s, n)' /\ OnlyOwn(s, n)
<1>1. /\ pc'[s] = "idle" /\ UNCHANGED madeFrom
      /\ merging[s] = NoCommit /\ files[s] = Tree(head[s])
  BY ResolvedTree
<1>2. PICK tree \in [Items -> CleanFiles], skipped \in SUBSET Items :
        /\ ImportFiles(s, skipped) \/ UNCHANGED <<db, incoming>>
        /\ files' = [files EXCEPT ![s] = tree]
        /\ \/ tree = Tree(head[s]) /\ UNCHANGED <<commits, head, merging>>
           \/ CommitTree(s, tree)
        /\ \A m \in Items : \/ tree[m].text = NoText /\ <<s, m>> \in Unwritable
                            \/ tree[m].text = Imported(s, skipped)[m]
  BY ResolvedTree
<1>3. \/ db'[s][n] = db[s][n]
      \/ db'[s][n] = files[s][n].text /\ files[s][n] # NoFile
  BY <1>2, ImportedText
<1>4. files'[s] = tree
  BY <1>2, Fields
<1>5. CASE tree = Tree(head[s]) /\ UNCHANGED <<commits, head, merging>>
  BY <1>1, <1>3, <1>4, <1>5, QuietOwned
<1>6. CASE CommitTree(s, tree)
  <2>1. PICK d : d = db'[s][n]
    OBVIOUS
  <2>2. PICK f : f = files'[s][n].text
    OBVIOUS
  <2>3. f = tree[n].text
    BY <1>4, <2>2
  <2>4. Imported(s, skipped)[n] = db[s][n] \/ (Imported(s, skipped)[n] = files[s][n].text /\ files[s][n] # NoFile)
    BY DEF Imported
  <2>5. d \in Holds(s, n) \cup {NoText} /\ f \in Holds(s, n) \cup {NoText}
    BY <1>2, <1>3, <2>1, <2>3, <2>4 DEF Holds
  <2>6. ~ TakenBack(n) /\ files'[s][n] # NoFile /\ Committed(n, d) => Keeps(f, d)
    <3> SUFFICES ASSUME ~ TakenBack(n), files'[s][n] # NoFile, Committed(n, d) PROVE Keeps(f, d)
      OBVIOUS
    <3>1. f = Imported(s, skipped)[n]
      <4>1. f # NoText
        <5>1. tree[n] \in CleanFiles /\ NoText \notin Texts
          BY DEF Texts, NoText
        <5> QED
          BY <1>4, <2>3, <5>1 DEF CleanFiles
      <4> QED
        BY <1>2, <2>3, <4>1
    <3>2. CASE ImportFiles(s, skipped)
      <4>1. d = f
        BY <2>1, <3>1, <3>2, Fields DEF ImportFiles
      <4> QED
        BY <4>1 DEF Keeps
    <3>3. CASE UNCHANGED <<db, incoming>>
      <4>1. d = db[s][n]
        BY <2>1, <3>3
      <4>2. f = d \/ (f = files[s][n].text /\ files[s][n] # NoFile)
        BY <2>4, <3>1, <4>1
      <4> QED
        BY <4>1, <4>2 DEF KeptInv, Owned, FileKeepsDb, Keeps
    <3> QED
      BY <1>2, <3>2, <3>3
  <2> QED
    BY <1>1, <1>6, <2>1, <2>2, <2>3, <2>5, <2>6, CommitTreeOwned
<1> QED
  BY <1>2, <1>5, <1>6

LEMMA NotTakenBackNext ==
  ASSUME NEW n \in Items, ~ TakenBack(n)', NEW c \in Commits', NEW b \in History(c)'
  PROVE  Keeps(TextAt(c, n), TextAt(b, n))'
BY DEF TakenBack, History, TextAt, Keeps

\* A pull that moves the branch to h, whose text of n one of the sides had.
LEMMA MovedOwned ==
  ASSUME SyncTyped, Grown, KeptInv, NEW s \in Sites, NEW n \in Items, NEW h,
         merging[s] = NoCommit, merging'[s] = NoCommit, head'[s] = h, h \in Commits',
         Commits' \subseteq Commits \cup {h}, History(head[s]) \subseteq History(h)',
         TextAt(h, n)' \in {TextAt(head[s], n), TextAt(remote, n)},
         CheckOut(s, Tree(h)'), db'[s] = db[s], pc'[s] = "idle"
  PROVE  Owned(s, n)' /\ OnlyOwn(s, n)
<1>1. head[s] \in Commits /\ remote \in Commits /\ head[s] # NoCommit /\ h # NoCommit
  BY Fields DEF NoCommit, Commits
<1>2. Parents(s) = {head[s]} /\ Parents(s)' = {h}
  BY <1>1, OneParent DEF Parents
<1>3. PICK x : x = TextAt(h, n)'
  OBVIOUS
<1>4. ASSUME NEW t, Committed(n, t)' PROVE Committed(n, t)
  <2>1. Committed(n, t) \/ t = x
    BY <1>3, <1>4, NewlyCommitted
  <2> QED
    BY <1>1, <1>3, <2>1 DEF Committed, HasText
<1>5. PICK H : H = PastOf(Parents(s))'
  OBVIOUS
<1>6. PICK K : K = History(head[s])'
  OBVIOUS
<1>7. /\ H = History(h)' /\ h \in H /\ PastOf(Parents(s)) \subseteq H
      /\ PastOf(Parents(s)) \subseteq Commits
  BY <1>2, <1>5, SiteTexts DEF PastOf, History
<1>8. PICK d : d = db[s][n]
  OBVIOUS
<1>9. PICK f : f = files'[s][n].text
  OBVIOUS
<1>10. HasText(H, n, x)'
  BY <1>3, <1>7 DEF HasText
<1>11. ASSUME NEW t \in Holds(s, n), Committed(n, t)' PROVE HasText(H, n, t)'
  <2>1. HasText(PastOf(Parents(s)), n, t)
    BY <1>4, <1>11 DEF Holds, KeptInv, Owned, DbOwned, FileOwned
  <2> QED
    BY <2>1, <1>7, HasTextStays
<1>12. \/ f = x
       \/ files'[s][n] = files[s][n]
  BY <1>3, <1>9, CheckedOut DEF TextAt
<1>13. ~ TakenBack(n)' /\ files'[s][n] # NoFile /\ Committed(n, d)' => Keeps(f, d)'
  <2> SUFFICES ASSUME ~ TakenBack(n)', files'[s][n] # NoFile, Committed(n, d)', d # NoText PROVE Keeps(f, d)'
    BY DEF Keeps, NoText
  <2>1. CASE f = x
    <3>1. HasText(H, n, d)'
      BY <1>8, <1>11 DEF Holds
    <3>2. PICK y \in H : TextAt(y, n)' = d
      BY <3>1 DEF HasText
    <3>3. Keeps(TextAt(h, n), TextAt(y, n))'
      BY <1>7, NotTakenBackNext
    <3> QED
      BY <1>3, <2>1, <3>2, <3>3 DEF Keeps
  <2>2. CASE files'[s][n] = files[s][n]
    <3>1. Keeps(f, d)
      BY <1>4, <1>8, <1>9, <2>2, TakenBackStays DEF KeptInv, Owned, FileKeepsDb
    <3>2. f \in Texts \cup {NoText}
      BY <1>9, <2>2, SiteTexts
    <3> QED
      BY <3>1, <3>2, KeepsSame
  <2> QED
    BY <1>12, <2>1, <2>2
<1>14. Owned(s, n)'
  <2>1. d # NoText /\ Committed(n, d)' => HasText(H, n, d)'
    BY <1>8, <1>11 DEF Holds
  <2>2. f # NoText /\ Committed(n, f)' => HasText(H, n, f)'
    BY <1>9, <1>10, <1>11, <1>12 DEF Holds
  <2>3. d = db'[s][n] /\ pc'[s] # "conflict"
    BY <1>8
  <2> QED
    BY <2>1, <2>2, <2>3, <1>5, <1>6, <1>9, <1>13, OwnedNow
<1>15. Committed(n, x)'
  BY <1>3 DEF Committed, HasText
<1>16. ASSUME NEW t \in Holds(s, n)' PROVE t \in Holds(s, n) \/ Committed(n, t)'
  BY <1>9, <1>12, <1>15, <1>16 DEF Holds, NoText
<1> QED
  BY <1>4, <1>14, <1>16 DEF OnlyOwn

LEMMA PullForwardOwned ==
  ASSUME SyncTyped, PushInv, Grown, KeptInv, NEW s \in Sites, PullForward(s), NEW n \in Items
  PROVE  Owned(s, n)' /\ OnlyOwn(s, n)
<1>1. PICK h : h = remote
  OBVIOUS
<1>2. /\ head'[s] = h /\ merging[s] = NoCommit /\ UNCHANGED <<commits, remote, db, merging, pc>> /\ pc[s] = "idle"
      /\ head[s] \in History(remote) /\ CheckOut(s, Tree(remote))
  BY <1>1, Fields DEF PullForward, CanMerge
<1>3. /\ Tree(h)' = Tree(remote) /\ History(h)' = History(remote) /\ TextAt(h, n)' = TextAt(remote, n)
      /\ Commits' = Commits
  BY <1>1, <1>2 DEF Tree, History, TextAt, Commits
<1>4. h \in Commits' /\ History(head[s]) \subseteq History(h)'
  <2>1. remote \in Commits /\ h \in Commits'
    BY <1>1, Fields DEF Grown
  <2> QED
    BY <2>1, <1>2, <1>3, PastsNested
<1> QED
  BY <1>2, <1>3, <1>4, MovedOwned

LEMMA PullMergeOwned ==
  ASSUME SyncTyped, PushInv, Grown, KeptInv, NEW s \in Sites, PullMerge(s), NEW n \in Items
  PROVE  Owned(s, n)' /\ OnlyOwn(s, n)
<1>1. PICK h : h = Len(commits) + 1
  OBVIOUS
<1>2. /\ NewCommit(Merged(s, NoText), {head[s], remote}) /\ Conflicts(s) = {}
      /\ merging[s] = NoCommit /\ pc[s] = "idle"
      /\ UNCHANGED <<madeFrom, remote, db, merging, pc>>
      /\ CheckOut(s, Merged(s, NoText))
      /\ head' = [head EXCEPT ![s] = h]
  BY <1>1 DEF PullMerge, CanMerge
<1>3. {head[s], remote} \in SUBSET Commits /\ Merged(s, NoText) \in [Items -> CleanFiles] /\ head'[s] = h
  BY <1>2, Fields, MergedTyped
<1>4. /\ History(h)' = (UNION {History(p) : p \in {head[s], remote}}) \cup {h}
      /\ Tree(h)' = Merged(s, NoText) /\ h \in Commits'
  BY <1>1, <1>2, <1>3, NewPast
<1>5. Commits' \subseteq Commits \cup {h}
  BY <1>1, <1>2, Fields DEF NewCommit, Commits
<1>6. TextAt(h, n)' \in {TextAt(head[s], n), TextAt(remote, n)}
  <2>1. TextAt(h, n)' = Merged(s, NoText)[n].text
    BY <1>4 DEF TextAt
  <2>2. PICK x : x = Merged(s, NoText)[n].text
    OBVIOUS
  <2> QED
    BY <1>2, <2>1, <2>2, MergedTexts
<1>7. History(head[s]) \subseteq History(h)'
  BY <1>4
<1> QED
  BY <1>2, <1>3, <1>4, <1>5, <1>6, <1>7, MovedOwned

\* A merge that stops at a conflict commits nothing, and what it leaves in the
\* files keeps what the branch says.
LEMMA PullConflictOwned ==
  ASSUME SyncTyped, PushInv, BasesInv, Grown, KeptInv, NEW s \in Sites, NEW manual \in BOOLEAN,
         PullConflict(s, manual), NEW n \in Items
  PROVE  Owned(s, n)' /\ OnlyOwn(s, n)
<1>1. PICK both : both = Len(madeFrom) + 1
  OBVIOUS
<1> DEFINE sources == {Tree(c)[m].text : c \in {head[s], remote}, m \in Conflicts(s)}
<1>2. /\ merging[s] = NoCommit /\ merging'[s] = remote
      /\ UNCHANGED <<commits, remote, db, head>>
      /\ NewText(sources) /\ CheckOut(s, Merged(s, both))
  <2>1. /\ merging[s] = NoCommit /\ UNCHANGED <<commits, remote, db, head>>
        /\ NewText(sources) /\ CheckOut(s, Merged(s, both))
    BY <1>1 DEF PullConflict, CanMerge
  <2>2. merging' = [merging EXCEPT ![s] = remote]
    BY DEF PullConflict
  <2> QED
    BY <2>1, <2>2 DEF SyncTyped, TypeOK
<1>3. head[s] \in Commits /\ remote \in Commits /\ head[s] # NoCommit
  BY Fields DEF NoCommit, Commits
<1>4. /\ both \notin Texts \cup {NoText}
      /\ \A u \in sources : u = NoText \/ (u \in madeFrom'[both] /\ madeFrom[u] \subseteq madeFrom'[both])
  <2>1. sources \in SUBSET (Texts \cup {NoText})
    BY Fields, TreeTyped DEF Conflicts
  <2> HIDE DEF sources
  <2>2. both \notin Texts /\ madeFrom'[both] = UNION {madeFrom[t] \cup {t} : t \in sources \ {NoText}}
    BY <1>1, <1>2, <2>1, Fields, NewTextTyped
  <2>3. both # NoText
    BY <1>1, Fields DEF NoText
  <2>4. ASSUME NEW u \in sources, u # NoText PROVE u \in madeFrom'[both] /\ madeFrom[u] \subseteq madeFrom'[both]
    <3>1. madeFrom[u] \cup {u} \in {madeFrom[t] \cup {t} : t \in sources \ {NoText}}
      BY <2>4
    <3> QED
      BY <2>2, <3>1
  <2> QED
    BY <2>2, <2>3, <2>4
<1>5. n \in Conflicts(s) => TextAt(head[s], n) \in sources
  BY DEF TextAt
<1> HIDE DEF sources
<1>6. ASSUME NEW t, Committed(n, t)' PROVE Committed(n, t) /\ t \in Texts \cup {NoText}
  BY <1>2, <1>6, NothingCommitted, CommittedIsText
<1>7. PICK H : H = PastOf(Parents(s))'
  OBVIOUS
<1>8. PICK K : K = History(head[s])'
  OBVIOUS
<1>9. /\ PastOf(Parents(s)) = History(head[s]) /\ K = History(head[s]) /\ K \subseteq H
      /\ K \subseteq Commits /\ History(remote) \subseteq H
  <2>1. Parents(s) = {head[s]} /\ Parents(s)' = {head[s], remote}
    BY <1>2, <1>3, Fields DEF Parents, NoCommit, Commits
  <2>2. History(head[s])' = History(head[s]) /\ History(remote)' = History(remote)
    BY <1>2 DEF History
  <2>3. PastOf(Parents(s))' = History(head[s]) \cup History(remote)
    <3>1. \A c : History(c)' = commits[c].past \cup {c}
      BY <1>2 DEF History
    <3> QED
      BY <2>1, <3>1 DEF PastOf, History
  <2> QED
    BY <1>3, <1>7, <1>8, <2>1, <2>2, <2>3, PastsKept DEF PastOf
<1>10. PICK d : d = db[s][n]
  OBVIOUS
<1>11. PICK f : f = files'[s][n].text
  OBVIOUS
<1>12. PICK x : x = Merged(s, both)[n].text
  OBVIOUS
<1>13. f = x \/ files'[s][n] = files[s][n]
  BY <1>2, <1>11, <1>12, CheckedOut
<1>14. PICK b \in Commits : b = MergeBase(head[s], remote) /\ b \in History(head[s]) /\ b \in History(remote)
  BY BaseExists
<1>15. \/ x \in {TextAt(head[s], n), TextAt(remote, n)}
       \/ x = both
  BY <1>12, MergedTexts
\* The merged text keeps what the branch says, if nothing is taken back.
<1>16. ASSUME ~ TakenBack(n), TextAt(head[s], n) # NoText, NEW u, Keeps(TextAt(head[s], n), u)
       PROVE  Keeps(x, u)'
  <2>1. TextAt(head[s], n) \in Texts \cup {NoText} /\ TextAt(remote, n) \in Texts \cup {NoText}
    BY <1>3, TextSame
  <2>2. CASE x = TextAt(head[s], n)
    BY <1>16, <2>1, <2>2, KeepsSame
  <2>3. CASE x = TextAt(remote, n) /\ TextAt(head[s], n) = TextAt(b, n)
    <3>1. Keeps(TextAt(remote, n), TextAt(b, n))
      BY <1>3, <1>14, <1>16, NotTakenBack
    <3>2. Keeps(TextAt(remote, n), u)
      BY <1>16, <2>1, <2>3, <3>1, KeepsOfKept DEF KeptInv
    <3> QED
      BY <2>1, <2>3, <3>2, KeepsSame
  <2>4. CASE x = both /\ n \in Conflicts(s)
    BY <1>4, <1>5, <1>16, <2>4 DEF Keeps
  <2> QED
    BY <1>12, <1>14, <1>16, <2>2, <2>3, <2>4, MergedTexts
<1>17. d # NoText /\ Committed(n, d)' => HasText(K, n, d) /\ HasText(K, n, d)' /\ HasText(H, n, d)'
  <2> SUFFICES ASSUME d # NoText, Committed(n, d)' PROVE HasText(K, n, d) /\ HasText(K, n, d)' /\ HasText(H, n, d)'
    OBVIOUS
  <2>1. HasText(K, n, d)
    BY <1>6, <1>9, <1>10 DEF KeptInv, Owned, DbOwned
  <2> QED
    BY <2>1, <1>9, HasTextStays
<1>18. f # NoText /\ Committed(n, f)' => HasText(H, n, f)'
  <2> SUFFICES ASSUME f # NoText, Committed(n, f)' PROVE HasText(H, n, f)'
    OBVIOUS
  <2>1. CASE f = x
    <3>1. x \in {TextAt(head[s], n), TextAt(remote, n)}
      BY <1>4, <1>6, <1>15, <2>1
    <3>2. \A c \in {head[s], remote} : c \in H /\ TextAt(c, n)' = TextAt(c, n)
      BY <1>3, <1>9, TextSame DEF History
    <3> QED
      BY <2>1, <3>1, <3>2 DEF HasText
  <2>2. CASE files'[s][n] = files[s][n]
    <3>1. HasText(K, n, f)
      BY <1>6, <1>9, <1>11, <2>2 DEF KeptInv, Owned, FileOwned
    <3> QED
      BY <1>9, <3>1, HasTextStays
  <2> QED
    BY <1>13, <2>1, <2>2
<1>19. ~ TakenBack(n)' /\ files'[s][n] # NoFile /\ Committed(n, d)' => Keeps(f, d)'
  <2> SUFFICES ASSUME ~ TakenBack(n)', files'[s][n] # NoFile, Committed(n, d)', d # NoText PROVE Keeps(f, d)'
    BY DEF Keeps, NoText
  <2>1. ~ TakenBack(n)
    BY TakenBackStays
  <2>2. CASE f = x
    <3>1. PICK y \in History(head[s]) : TextAt(y, n) = d
      BY <1>9, <1>17 DEF HasText
    <3>2. Keeps(TextAt(head[s], n), d)
      BY <1>3, <2>1, <3>1, NotTakenBack
    <3>3. TextAt(head[s], n) # NoText
      BY <3>2 DEF Keeps
    <3> QED
      BY <1>16, <2>1, <2>2, <3>2, <3>3
  <2>3. CASE files'[s][n] = files[s][n]
    <3>1. Keeps(f, d)
      BY <1>6, <1>10, <1>11, <2>1, <2>3 DEF KeptInv, Owned, FileKeepsDb
    <3>2. f \in Texts \cup {NoText}
      BY <1>11, <2>3, SiteTexts
    <3> QED
      BY <3>1, <3>2, KeepsSame
  <2> QED
    BY <1>13, <2>2, <2>3
<1>20. Owned(s, n)'
  <2>1. d = db'[s][n]
    BY <1>2, <1>10
  <2> QED
    BY <2>1, <1>7, <1>8, <1>11, <1>17, <1>18, <1>19, OwnedNow
<1>21. ASSUME NEW t \in Holds(s, n)' PROVE t \in Holds(s, n) \/ Committed(n, t)' \/ t \notin Texts
  <2>1. CASE t \in Holds(s, n)
    BY <2>1
  <2>2. CASE t = x
    <3>1. \A c \in {head[s], remote} : Committed(n, TextAt(c, n))
      BY <1>3 DEF Committed, HasText
    <3> QED
      BY <1>4, <1>15, <2>2, <3>1, CommittedStays
  <2>3. t = db[s][n] \/ t = f
    BY <1>2, <1>11, <1>21 DEF Holds
  <2>4. t # NoText
    BY <1>21 DEF Holds, NoText
  <2> QED
    BY <1>11, <1>13, <2>1, <2>2, <2>3, <2>4 DEF Holds
<1> QED
  BY <1>6, <1>20, <1>21 DEF OnlyOwn

LEMMA AbortMergeOwned ==
  ASSUME SyncTyped, Grown, KeptInv, NEW s \in Sites, AbortMerge(s), NEW n \in Items
  PROVE  Owned(s, n)' /\ OnlyOwn(s, n)
<1>1. /\ UNCHANGED <<commits, db, head>> /\ pc[s] = "conflict" /\ pc'[s] = "aborted"
      /\ merging'[s] = NoCommit /\ files'[s] = Tree(head[s])
  BY DEF AbortMerge, SyncTyped, TypeOK
<1>2. PICK h : h = head[s]
  OBVIOUS
<1>3. h \in Commits /\ h # NoCommit
  BY <1>2, Fields DEF NoCommit, Commits
<1>4. Parents(s)' = {h} /\ TextAt(h, n)' = TextAt(h, n) /\ History(h)' = History(h)
  BY <1>1, <1>2, <1>3, OneParent, TextSame, PastsKept
<1>5. PICK H : H = PastOf(Parents(s))'
  OBVIOUS
<1>6. PICK K : K = History(head[s])'
  OBVIOUS
<1>7. H = History(h) /\ K = History(h) /\ h \in H /\ H \subseteq Commits
  BY <1>1, <1>2, <1>3, <1>4, <1>5, <1>6, PastsKept DEF PastOf
<1>8. PICK d : d = db[s][n]
  OBVIOUS
<1>9. PICK f : f = TextAt(h, n)
  OBVIOUS
<1>10. f = files'[s][n].text
  BY <1>1, <1>2, <1>9 DEF TextAt
<1>11. ASSUME NEW t, Committed(n, t)' PROVE Committed(n, t)
  BY <1>1, <1>11, NothingCommitted
<1>12. ASSUME d # NoText, Committed(n, d)' PROVE HasText(H, n, d) /\ HasText(H, n, d)'
  <2>1. HasText(H, n, d)
    BY <1>1, <1>2, <1>7, <1>8, <1>11, <1>12 DEF KeptInv, Owned, DbOwned
  <2> QED
    BY <1>7, <2>1, HasTextStays
<1>13. HasText(H, n, f)'
  BY <1>4, <1>7, <1>9 DEF HasText
<1>14. ~ TakenBack(n)' /\ files'[s][n] # NoFile /\ Committed(n, d)' => Keeps(f, d)'
  <2> SUFFICES ASSUME ~ TakenBack(n)', Committed(n, d)', d # NoText PROVE Keeps(f, d)'
    BY DEF Keeps, NoText
  <2>1. ~ TakenBack(n)
    BY TakenBackStays
  <2>2. PICK y \in History(h) : TextAt(y, n) = d
    BY <1>7, <1>12 DEF HasText
  <2>3. Keeps(f, d)
    BY <1>3, <1>9, <2>1, <2>2, NotTakenBack
  <2>4. f \in Texts \cup {NoText}
    BY <1>3, <1>9, TextSame
  <2> QED
    BY <2>3, <2>4, KeepsSame
<1>15. Owned(s, n)'
  <2>1. d = db'[s][n] /\ pc'[s] # "conflict"
    BY <1>1, <1>8
  <2> QED
    BY <2>1, <1>5, <1>6, <1>10, <1>12, <1>13, <1>14, OwnedNow
<1>16. Committed(n, f)'
  BY <1>3, <1>9, CommittedStays DEF Committed, HasText
<1>17. ASSUME NEW t \in Holds(s, n)' PROVE t \in Holds(s, n) \/ Committed(n, t)'
  BY <1>1, <1>10, <1>16, <1>17 DEF Holds, NoText
<1> QED
  BY <1>11, <1>15, <1>17 DEF OnlyOwn

LEMMA StepOwned ==
  ASSUME SyncInv, KeptInv, Grown, NEW s \in Sites, Call(s) \/ \E m \in Items : Edit(s, m), NEW n \in Items
  PROVE  Owned(s, n)' /\ OnlyOwn(s, n)
<1> USE DEF SyncInv
<1>1. CASE \E m \in Items : Edit(s, m)
  BY <1>1, EditOwned
<1>2. CASE NothingToCommit(s) \/ Push(s) \/ PushRefused(s) \/ Stop(s)
  <2>1. UNCHANGED <<commits, db, files, head, merging>> /\ pc'[s] # "conflict"
    BY <1>2 DEF NothingToCommit, Push, PushRefused, Stop, repository, SyncTyped, TypeOK
  <2> QED
    BY <2>1, QuietOwned
<1>3. CASE Import(s)
  <2>1. /\ UNCHANGED <<commits, files, head, merging>> /\ pc'[s] # "conflict"
        /\ \E skipped : ImportFiles(s, skipped)
    BY <1>3 DEF Import, repository, SyncTyped, TypeOK
  <2>2. \/ db'[s][n] = db[s][n]
        \/ db'[s][n] = files[s][n].text /\ files[s][n] # NoFile
    BY <2>1, ImportedText
  <2> QED
    BY <2>1, <2>2, QuietOwned
<1>4. ASSUME NEW manual \in BOOLEAN, PullConflict(s, manual) PROVE Owned(s, n)' /\ OnlyOwn(s, n)
  BY <1>4, PullConflictOwned
<1>5. CASE Export(s) \/ Commit(s) \/ PullForward(s) \/ PullMerge(s) \/ AbortMerge(s) \/ ResolveWithDb(s)
  BY <1>5, ExportOwned, CommitOwned, PullForwardOwned, PullMergeOwned, AbortMergeOwned, ResolveOwned
<1> QED
  BY <1>1, <1>2, <1>3, <1>4, <1>5 DEF Call

\* What the others hold stays owned, since they share with s only what is
\* committed already.
LEMMA OthersOwned ==
  ASSUME SyncTyped, Grown, KeptInv, NEW s \in Sites, NEW r \in Sites \ {s}, NEW n \in Items,
         OnlyOwn(s, n), Mine(r)' = Mine(r)
  PROVE  Owned(r, n)'
<1>1. db'[r] = db[r] /\ files'[r] = files[r] /\ head'[r] = head[r] /\ merging'[r] = merging[r] /\ pc'[r] = pc[r]
  BY DEF Mine
<1>2. ASSUME NEW t, t \in {db[r][n], files[r][n].text}, t # NoText, Committed(n, t)' PROVE Committed(n, t)
  BY <1>2 DEF OnlyOwn, KeptInv, SharedIsCommitted, Holds
<1> QED
  BY <1>1, <1>2, SameFilesOwned

LEMMA StepShared ==
  ASSUME SyncTyped, Grown, KeptInv, NEW s \in Sites, NEW n \in Items, OnlyOwn(s, n),
         \A r \in Sites \ {s} : Mine(r)' = Mine(r),
         NEW a \in Sites, NEW b \in Sites \ {a}, NEW t, t \in Holds(a, n)', t \in Holds(b, n)'
  PROVE  Committed(n, t)'
<1>1. ASSUME NEW r \in Sites \ {s}, t \in Holds(r, n)' PROVE t \in Holds(r, n) /\ t \in Texts
  <2>1. db'[r] = db[r] /\ files'[r] = files[r]
    BY DEF Mine
  <2>2. t \in Holds(r, n)
    BY <1>1, <2>1 DEF Holds, NoText
  <2> QED
    BY <2>2, SiteTexts DEF Holds
<1>2. ASSUME NEW p \in Sites, NEW q \in Sites \ {p}, t \in Holds(p, n), t \in Holds(q, n)
      PROVE  Committed(n, t)'
  BY <1>2, CommittedStays DEF KeptInv, SharedIsCommitted
<1>3. CASE a # s /\ b # s
  BY <1>1, <1>2, <1>3
<1>4. CASE a = s
  BY <1>1, <1>2, <1>4 DEF OnlyOwn
<1>5. CASE b = s
  BY <1>1, <1>2, <1>5 DEF OnlyOwn
<1> QED
  BY <1>3, <1>4, <1>5

LEMMA NextKept ==
  ASSUME SyncInv, KeptInv, Grown, [Next]_vars
  PROVE  KeptInv'
<1> USE DEF SyncInv
<1>1. MadeFromAll'
  BY NextMadeFrom DEF KeptInv
<1>2. CASE UNCHANGED vars
  <2>1. \A s \in Sites, n \in Items : Owned(s, n)'
    BY <1>2, QuietOwned DEF vars, repository
  <2>2. ASSUME NEW s \in Sites, NEW r \in Sites, s # r, NEW n \in Items, NEW t \in (Holds(s, n) \cap Holds(r, n))'
        PROVE  Committed(n, t)'
    <3>1. t \in Holds(s, n) \cap Holds(r, n)
      BY <1>2 DEF vars, repository, Holds, NoText
    <3> QED
      BY <2>2, <3>1, CommittedStays DEF KeptInv, SharedIsCommitted
  <2> QED
    BY <1>1, <2>1, <2>2 DEF KeptInv, SharedIsCommitted
<1>3. ASSUME NEW s \in Sites, Call(s) \/ \E m \in Items : Edit(s, m) PROVE KeptInv'
  <2>1. \A n \in Items : Owned(s, n)' /\ OnlyOwn(s, n)
    BY <1>3, StepOwned
  <2>2. \A r \in Sites \ {s} : Mine(r)' = Mine(r)
    BY <1>3, StepIsLocal
  <2>3. \A r \in Sites, n \in Items : Owned(r, n)'
    BY <2>1, <2>2, OthersOwned
  <2>4. ASSUME NEW a \in Sites, NEW b \in Sites, a # b, NEW n \in Items, NEW t \in (Holds(a, n) \cap Holds(b, n))'
        PROVE  Committed(n, t)'
    BY <2>1, <2>2, <2>4, StepShared
  <2> QED
    BY <1>1, <2>3, <2>4 DEF KeptInv, SharedIsCommitted
<1> QED
  BY <1>2, <1>3 DEF Next

LEMMA InitKept == ASSUME Init PROVE KeptInv
<1>1. /\ \A n \in Items : TextAt(1, n) = 1
      /\ \A s \in Sites : head[s] = 1 /\ merging[s] = NoCommit /\ pc[s] = "idle"
      /\ \A s \in Sites, n \in Items : files[s][n].text = 1 /\ db[s][n] \in {1, NoText}
  BY DEF Init, TextAt, Tree
<1>2. Texts = {1} /\ madeFrom[1] = {}
  <2>1. madeFrom = <<{}>>
    BY DEF Init
  <2> QED
    BY <2>1 DEF Texts
<1>3. 1 \in Commits
  <2>1. \E c : commits = <<c>>
    BY DEF Init
  <2> QED
    BY <2>1 DEF Commits
<1>4. ASSUME NEW s \in Sites PROVE Parents(s) = {1}
  <2>1. head[s] = 1 /\ merging[s] = NoCommit
    BY <1>1
  <2> QED
    BY <2>1 DEF Parents, NoCommit
<1>5. \A n \in Items : Committed(n, 1)
  BY <1>1, <1>3 DEF Committed, HasText
<1>6. \A s \in Sites, n \in Items : HasText(PastOf(Parents(s)), n, 1)
  BY <1>1, <1>4 DEF HasText, PastOf, History
<1>7. \A s \in Sites, n \in Items : Holds(s, n) \subseteq {1}
  BY <1>1 DEF Holds
<1>8. \A s \in Sites, n \in Items : Owned(s, n)
  BY <1>1, <1>6 DEF Owned, DbOwned, FileOwned, FileKeepsDb, Keeps
<1> QED
  BY <1>5, <1>7, <1>8, <1>2 DEF KeptInv, MadeFromAll, SharedIsCommitted

LEMMA AlwaysKept == Spec => [](SyncInv /\ KeptInv)
<1>1. Init => SyncInv /\ KeptInv
  BY PushInvInit, InitTyped, InitBases, InitKept DEF SyncInv
<1>2. SyncInv /\ KeptInv /\ [Next]_vars => (SyncInv /\ KeptInv)'
  BY NextSync, NextKept
<1> QED
  BY <1>1, <1>2, PTL DEF Spec

\* A database only ever takes in what keeps the committed text that it has.
LEMMA KeptStep ==
  ASSUME SyncInv, KeptInv, [Next]_vars, NEW s \in Sites, NEW n \in Items, NEW c \in Commits,
         ~ TakenBack(n), TextAt(c, n) = db[s][n]
  PROVE  Keeps(db[s][n], Tree(c)[n].text)'
<1> USE DEF SyncInv
<1>1. Grown
  BY NextSync
<1>2. PICK d : d = db[s][n]
  OBVIOUS
<1>3. PICK w : w = db'[s][n]
  OBVIOUS
<1>4. (Tree(c)[n].text)' = d /\ d \in Texts \cup {NoText} /\ Committed(n, d)
  BY <1>1, <1>2, TextSame, SiteTexts DEF TextAt, Committed, HasText
<1>5. ASSUME w = d \/ (w = files[s][n].text /\ files[s][n] # NoFile) PROVE Keeps(w, d)'
  <2>1. Keeps(w, d) /\ w \in Texts \cup {NoText}
    BY <1>2, <1>4, <1>5, SiteTexts DEF KeptInv, Owned, FileKeepsDb, Keeps
  <2> QED
    BY <1>1, <2>1, KeepsSame
<1>6. ASSUME NEW r \in Sites, Call(r) \/ \E m \in Items : Edit(r, m) PROVE Keeps(w, d)'
  <2>1. CASE r # s
    BY <1>2, <1>3, <1>5, <1>6, <2>1, StepIsLocal DEF Mine
  <2>2. CASE r = s /\ (Import(s) \/ ResolveWithDb(s))
    <3>1. \E skipped : ImportFiles(s, skipped) \/ UNCHANGED <<db, incoming>>
      BY <2>2 DEF Import, ResolveWithDb
    <3> QED
      BY <1>2, <1>3, <1>5, <3>1, ImportedText
  <2>3. ASSUME r = s, NEW m \in Items, Edit(s, m) PROVE Keeps(w, d)'
    <3>1. CASE m # n
      <4>1. w = d
        BY <1>2, <1>3, <2>3, <3>1, Fields DEF Edit
      <4> QED
        BY <1>5, <4>1
    <3>2. CASE m = n
      <4>1. w = Len(madeFrom) + 1 /\ NewText({d})
        BY <1>2, <1>3, <2>3, <3>2, Fields DEF Edit
      <4>2. {d} \in SUBSET (Texts \cup {NoText})
        BY <1>4
      <4>3. madeFrom'[w] = UNION {madeFrom[t] \cup {t} : t \in {d} \ {NoText}}
        BY <4>1, <4>2, Fields, NewTextTyped
      <4>4. w # NoText
        BY <4>1, Fields DEF NoText
      <4>5. d # NoText => d \in madeFrom'[w]
        BY <4>3
      <4> QED
        BY <4>4, <4>5 DEF Keeps
    <3> QED
      BY <3>1, <3>2
  <2>4. CASE r = s /\ Call(s) /\ ~ (Import(s) \/ ResolveWithDb(s))
    <3> SUFFICES db' = db
      BY <1>2, <1>3, <1>5
    <3>1. ASSUME NEW manual \in BOOLEAN, PullConflict(s, manual) PROVE db' = db
      BY <3>1 DEF PullConflict
    <3>2. CASE Export(s) \/ NothingToCommit(s) \/ Commit(s)
      BY <3>2 DEF Export, NothingToCommit, Commit
    <3>3. CASE Push(s) \/ PushRefused(s) \/ AbortMerge(s) \/ Stop(s)
      BY <3>3 DEF Push, PushRefused, AbortMerge, Stop
    <3>4. CASE PullForward(s) \/ PullMerge(s)
      BY <3>4 DEF PullForward, PullMerge
    <3> QED
      BY <2>4, <3>1, <3>2, <3>3, <3>4 DEF Call
  <2> QED
    BY <1>6, <2>1, <2>2, <2>3, <2>4
<1>7. Keeps(w, d)'
  BY <1>2, <1>3, <1>5, <1>6 DEF Next, vars
<1> QED
  BY <1>3, <1>4, <1>7 DEF Keeps, NoText

\* An import takes back no text that the site has committed, as long as no
\* commit has taken one back: pulls, conflicts, aborted merges and interrupted
\* exports leave files that keep it.
THEOREM ImportsKeepCommitted == Spec => ImportKeepsCommitted
<1>1. SyncInv /\ KeptInv /\ [Next]_vars =>
        [\A s \in Sites, n \in Items, c \in Commits :
           /\ ~ TakenBack(n)
           /\ c \in History(head[s])
           /\ Tree(c)[n].text = db[s][n]
           => Keeps(db[s][n], Tree(c)[n].text)']_vars
  BY KeptStep DEF TextAt
<1> QED
  BY <1>1, AlwaysKept, PTL DEF Spec, ImportKeepsCommitted
=============================================================================
