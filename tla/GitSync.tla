------------------------------ MODULE GitSync ------------------------------
(***************************************************************************)
(* kgn sync export, import, push and pull at several sites, each with its  *)
(* own database and its own clone of one remote repository.  A call is a   *)
(* sequence of steps: between two of them agents edit the database, other  *)
(* sites push, and the call may stop: it crashes, raises, or was asked for *)
(* no more (sync export does not commit, --commit does not push).  A site  *)
(* runs one call at a time.                                                *)
(*                                                                         *)
(* The items are the node files.  What a file says is its text, all that   *)
(* agents edit, and its header, the project_id and agent_id lines that     *)
(* serialize_node writes: each database has its own project_id, and the    *)
(* agent is the key given to the call or the node's creator.  Edge files   *)
(* are items that nobody edits.                                            *)
(*                                                                         *)
(* Git is external: the past of a commit is the set of its ancestors, and  *)
(* a merge takes the text and the header of each file separately.          *)
(***************************************************************************)
EXTENDS Naturals, Sequences

CONSTANTS Sites,
          Founder,     \* the site that made the repository; the others cloned it
          Items,
          Edges,       \* items that are edge files
          Unwritable,  \* <<s, n>>: an export of s may fail to write the file of n
          MaxTexts,    \* bound: texts written by agents or left by conflicts
          MaxCommits   \* bound: commits

ASSUME GitSyncAssumption == /\ Founder \in Sites
                            /\ Edges \subseteq Items
                            /\ Unwritable \subseteq Sites \X Items
                            /\ MaxTexts \in Nat \ {0}
                            /\ MaxCommits \in Nat \ {0}

VARIABLES
  madeFrom,  \* of each text, the texts that were edited or merged into it
  commits,   \* of each commit, its files and its past
  remote,    \* the commit that the remote's branch points to
  db,        \* of each site, the text of each node in the database
  files,     \* of each site, the files in the sync directory
  head,      \* of each site, the commit that its branch points to
  merging,   \* of each site, MERGE_HEAD
  pc,        \* of each site, the step that its call has reached
  exported,  \* of each site, the files that its push has written
  incoming   \* of each site, the texts pulled for an item and not yet imported

repository == <<files, head, merging>>
vars == <<madeFrom, commits, remote, db, repository, pc, exported, incoming>>

NoText == 0
NoCommit == 0
Headers == Sites \X {"key", "creator"}
Garbled == <<"conflict", "markers">>
NoFile == [text |-> NoText, header |-> <<>>]

Texts == 1 .. Len(madeFrom)
Commits == 1 .. Len(commits)
Tree(c) == commits[c].tree
History(c) == commits[c].past \cup {c}

\* The text t keeps what the text u says.
Keeps(t, u) == u = NoText \/ t = u \/ (t # NoText /\ u \in madeFrom[t])

-----------------------------------------------------------------------------
(***************************************************************************)
(* Git.                                                                    *)
(***************************************************************************)
NewText(sources) ==
  /\ Len(madeFrom) < MaxTexts
  /\ madeFrom' = Append(madeFrom, UNION {madeFrom[t] \cup {t} : t \in sources \ {NoText}})

NewCommit(tree, parents) ==
  /\ Len(commits) < MaxCommits
  /\ commits' = Append(commits, [tree |-> tree, past |-> UNION {History(p) : p \in parents}])

MergeBase(c, d) ==
  CHOOSE b \in History(c) \cap History(d) : History(b) = History(c) \cap History(d)

Clash(base, ours, theirs) == base # ours /\ ours # theirs /\ theirs # base
Pick(base, ours, theirs) == IF ours = base THEN theirs ELSE ours

MergedFile(base, ours, theirs, both) ==
  CASE ~ Clash(base, ours, theirs) -> Pick(base, ours, theirs)
    [] Clash(base, ours, theirs) /\ ours = NoFile -> theirs
    [] Clash(base, ours, theirs) /\ theirs = NoFile -> ours
    [] OTHER -> [text |-> IF Clash(base.text, ours.text, theirs.text) THEN both
                          ELSE Pick(base.text, ours.text, theirs.text),
                 header |-> IF Clash(base.header, ours.header, theirs.header) THEN Garbled
                            ELSE Pick(base.header, ours.header, theirs.header)]

\* The files that a merge of the remote makes, where both is a text with the
\* two that clash between conflict markers.
Merged(s, both) ==
  LET base == Tree(MergeBase(head[s], remote))
  IN  [n \in Items |-> MergedFile(base[n], Tree(head[s])[n], Tree(remote)[n], both)]

\* Where the merge of the remote fails: both sides have changed the text, or
\* the header, or one has deleted what the other has changed.
Conflicts(s) ==
  LET base(n) == Tree(MergeBase(head[s], remote))[n]
      ours(n) == Tree(head[s])[n]
      theirs(n) == Tree(remote)[n]
  IN  {n \in Items : /\ Clash(base(n), ours(n), theirs(n))
                     /\ \/ NoFile \in {ours(n), theirs(n)}
                        \/ Clash(base(n).text, ours(n).text, theirs(n).text)
                        \/ Clash(base(n).header, ours(n).header, theirs(n).header)}

\* git pull refuses to overwrite files that are not committed.
CheckOut(s, tree) ==
  LET dirty == {n \in Items : files[s][n] # Tree(head[s])[n]}
  IN  /\ \A n \in dirty : tree[n] = Tree(head[s])[n]
      /\ files' = [files EXCEPT ![s] = [n \in Items |-> IF n \in dirty THEN @[n] ELSE tree[n]]]

\* Of the remote's texts, those that the site's database or its file lacks.
Receive(s) ==
  incoming' = [incoming EXCEPT ![s] = [n \in Items |->
    @[n] \cup {t \in {Tree(remote)[n].text} : ~ (Keeps(db[s][n], t) /\ Keeps(files[s][n].text, t))}]]

-----------------------------------------------------------------------------
(***************************************************************************)
(* Agents.                                                                 *)
(***************************************************************************)
\* An agent writes a node of its site's database.
Edit(s, n) ==
  /\ n \notin Edges
  /\ NewText({db[s][n]})
  /\ db' = [db EXCEPT ![s][n] = Len(madeFrom) + 1]
  /\ UNCHANGED <<commits, remote, repository, pc, exported, incoming>>

-----------------------------------------------------------------------------
(***************************************************************************)
(* Export, commit, push.                                                   *)
(***************************************************************************)
WriteFailures(s) == {n \in Items : <<s, n>> \in Unwritable}

\* export_project: every node's file is written, and every other file is an
\* orphan and deleted, the old file of a node that could not be written too.
Rendered(nodes, header, failed) ==
  [n \in Items |-> IF n \in failed \/ nodes[n] = NoText THEN NoFile
                   ELSE [text |-> nodes[n], header |-> header]]

Export(s) ==
  /\ pc[s] = "idle"
  /\ \E failed \in SUBSET WriteFailures(s) :
       /\ files' = [files EXCEPT ![s] = Rendered(db[s], <<s, "key">>, failed)]
       /\ exported' = [exported EXCEPT ![s] = Rendered(db[s], <<s, "key">>, failed)]
  /\ pc' = [pc EXCEPT ![s] = "exported"]
  /\ UNCHANGED <<madeFrom, commits, remote, db, head, merging, incoming>>

Clean(s) == files[s] = Tree(head[s]) /\ merging[s] = NoCommit

\* "Nothing to push": the call returns success.
NothingToCommit(s) == /\ pc[s] = "exported"
                      /\ Clean(s)
                      /\ pc' = [pc EXCEPT ![s] = "succeeded"]
                      /\ UNCHANGED <<madeFrom, commits, remote, db, repository, exported, incoming>>

\* Mutant of CommitTree: only files that are already tracked are staged.
CommitTracked(s, tree) ==
  /\ NewCommit([n \in Items |-> IF Tree(head[s])[n] = NoFile THEN NoFile ELSE tree[n]],
               {head[s], merging[s]} \ {NoCommit})
  /\ head' = [head EXCEPT ![s] = Len(commits) + 1]
  /\ merging' = [merging EXCEPT ![s] = NoCommit]

\* git add -A; git commit: a merge that was left in progress is concluded too.
CommitTree(s, tree) ==
  /\ NewCommit(tree, {head[s], merging[s]} \ {NoCommit})
  /\ head' = [head EXCEPT ![s] = Len(commits) + 1]
  /\ merging' = [merging EXCEPT ![s] = NoCommit]

Commit(s) == /\ pc[s] = "exported"
             /\ ~ Clean(s)
             /\ CommitTree(s, files[s])
             /\ pc' = [pc EXCEPT ![s] = "committed"]
             /\ UNCHANGED <<madeFrom, remote, db, files, exported, incoming>>

\* The remote takes only commits that its own is an ancestor of.
FastForward(s) == remote \in History(head[s])

Push(s) == /\ pc[s] = "committed"
           /\ FastForward(s)
           /\ remote' = head[s]
           /\ pc' = [pc EXCEPT ![s] = "pushed"]
           /\ UNCHANGED <<madeFrom, commits, db, repository, exported, incoming>>

\* Refused or out of reach.  An error that says "remote" is taken for a
\* repository without one and the call returns success; git says so of a push
\* that is not a fast-forward.
PushRefused(s) == /\ pc[s] = "committed"
                  /\ pc' = [pc EXCEPT ![s] = "succeeded"]
                  /\ UNCHANGED <<madeFrom, commits, remote, db, repository, exported, incoming>>

-----------------------------------------------------------------------------
(***************************************************************************)
(* Pull, import.                                                           *)
(***************************************************************************)
CanMerge(s) == pc[s] = "idle" /\ merging[s] = NoCommit /\ remote \notin History(head[s])

PullForward(s) ==
  /\ CanMerge(s)
  /\ head[s] \in History(remote)
  /\ CheckOut(s, Tree(remote))
  /\ Receive(s)
  /\ head' = [head EXCEPT ![s] = remote]
  /\ UNCHANGED <<madeFrom, commits, remote, db, merging, pc, exported>>

PullMerge(s) ==
  /\ CanMerge(s)
  /\ head[s] \notin History(remote)
  /\ Conflicts(s) = {}
  /\ CheckOut(s, Merged(s, NoText))
  /\ NewCommit(Merged(s, NoText), {head[s], remote})
  /\ Receive(s)
  /\ head' = [head EXCEPT ![s] = Len(commits) + 1]
  /\ UNCHANGED <<madeFrom, remote, db, merging, pc, exported>>

\* With the manual strategy the call raises, and the merge stays in progress.
PullConflict(s, manual) ==
  /\ CanMerge(s)
  /\ Conflicts(s) # {}
  /\ NewText({Tree(c)[n].text : c \in {head[s], remote}, n \in Conflicts(s)})
  /\ CheckOut(s, Merged(s, Len(madeFrom) + 1))
  /\ Receive(s)
  /\ merging' = [merging EXCEPT ![s] = remote]
  /\ pc' = [pc EXCEPT ![s] = IF manual THEN "idle" ELSE "conflict"]
  /\ UNCHANGED <<commits, remote, db, head, exported>>

\* Mutant of AbortMerge: the files are those of the remote.
ResetToRemote(s) ==
  /\ pc[s] = "conflict"
  /\ merging' = [merging EXCEPT ![s] = NoCommit]
  /\ files' = [files EXCEPT ![s] = Tree(remote)]
  /\ pc' = [pc EXCEPT ![s] = "aborted"]
  /\ UNCHANGED <<madeFrom, commits, remote, db, head, exported, incoming>>

\* git merge --abort; git checkout . and git clean -fd if files are left that
\* are not committed.
AbortMerge(s) ==
  /\ pc[s] = "conflict"
  /\ merging' = [merging EXCEPT ![s] = NoCommit]
  /\ files' = [files EXCEPT ![s] = Tree(head[s])]
  /\ pc' = [pc EXCEPT ![s] = "aborted"]
  /\ UNCHANGED <<madeFrom, commits, remote, db, head, exported, incoming>>

\* Mutant of Imported: nodes that the database has already are left alone.
ImportedNew(s, skipped) ==
  [n \in Items |-> IF n \in skipped \/ db[s][n] # NoText THEN db[s][n] ELSE files[s][n].text]

\* The database after an import that could not take the skipped files.
Imported(s, skipped) ==
  [n \in Items |-> IF n \in skipped \/ files[s][n] = NoFile THEN db[s][n] ELSE files[s][n].text]

Unreadable(s) == {n \in Items : files[s][n].header = Garbled}

\* The one transaction of import_project: files that do not parse or validate
\* are skipped, and all are if the database refuses a statement.
ImportFiles(s, skipped) ==
  /\ Unreadable(s) \subseteq skipped
  /\ db' = [db EXCEPT ![s] = Imported(s, skipped)]
  /\ incoming' = [incoming EXCEPT ![s] = [n \in Items |->
       IF n \in skipped THEN @[n] ELSE {t \in @[n] : ~ Keeps(files[s][n].text, t)}]]

\* import_project, on its own or in a pull: after a merge; when git pull finds
\* nothing new, or fails with no word of a conflict (no remote, no answer,
\* files it would overwrite, a merge in progress, diverged branches and no
\* pull.rebase), which the call takes for success; with file-wins after a
\* conflict, and with db-wins if the re-export fails.
Import(s) ==
  /\ pc[s] \in {"idle", "aborted"}
  /\ \E skipped \in SUBSET Items : ImportFiles(s, skipped)
  /\ pc' = [pc EXCEPT ![s] = "idle"]
  /\ UNCHANGED <<madeFrom, commits, remote, repository, exported>>

\* db-wins: what was imported is exported again, without an agent key, and
\* committed in git, and only then in the database, if the call gets that far.
ResolveWithDb(s) ==
  /\ pc[s] = "aborted"
  /\ \E skipped \in SUBSET Items, failed \in SUBSET WriteFailures(s) :
       LET tree == Rendered(Imported(s, skipped), <<s, "creator">>, failed)
       IN  /\ ImportFiles(s, skipped) \/ UNCHANGED <<db, incoming>>
           /\ files' = [files EXCEPT ![s] = tree]
           /\ IF tree = Tree(head[s]) THEN UNCHANGED <<commits, head, merging>>
                                      ELSE CommitTree(s, tree)
  /\ pc' = [pc EXCEPT ![s] = "idle"]
  /\ UNCHANGED <<madeFrom, remote, exported>>

-----------------------------------------------------------------------------
\* A call returns, or goes no further.
Stop(s) == /\ pc[s] # "idle"
           /\ pc' = [pc EXCEPT ![s] = "idle"]
           /\ exported' = [exported EXCEPT ![s] = [n \in Items |-> NoFile]]
           /\ UNCHANGED <<madeFrom, commits, remote, db, repository, incoming>>

\* The founder has exported and pushed its nodes; the others have cloned the
\* repository and have empty databases.
Init ==
  LET tree == [n \in Items |-> [text |-> 1, header |-> <<Founder, "key">>]]
  IN  /\ madeFrom = <<{}>>
      /\ commits = <<[tree |-> tree, past |-> {}]>>
      /\ remote = 1
      /\ db = [s \in Sites |-> [n \in Items |-> IF s = Founder THEN 1 ELSE NoText]]
      /\ files = [s \in Sites |-> tree]
      /\ head = [s \in Sites |-> 1]
      /\ merging = [s \in Sites |-> NoCommit]
      /\ pc = [s \in Sites |-> "idle"]
      /\ exported = [s \in Sites |-> [n \in Items |-> NoFile]]
      /\ incoming = [s \in Sites |-> [n \in Items |-> IF s = Founder THEN {} ELSE {1}]]

Call(s) == \/ Export(s) \/ NothingToCommit(s) \/ Commit(s) \/ Push(s) \/ PushRefused(s)
           \/ PullForward(s) \/ PullMerge(s)
           \/ \E manual \in BOOLEAN : PullConflict(s, manual)
           \/ AbortMerge(s) \/ Import(s) \/ ResolveWithDb(s) \/ Stop(s)

Next == \E s \in Sites : Call(s) \/ \E n \in Items : Edit(s, n)

Spec == Init /\ [][Next]_vars

-----------------------------------------------------------------------------
(***************************************************************************)
(* Properties.                                                             *)
(***************************************************************************)
Files == {NoFile} \cup [text : Texts, header : Headers \cup {Garbled}]

\* Variables have their types, and no file with conflict markers in its header
\* is ever committed.
TypeOK ==
  /\ madeFrom \in Seq(SUBSET Texts)
  /\ commits \in Seq([tree : [Items -> {NoFile} \cup [text : Texts, header : Headers]],
                      past : SUBSET Commits])
  /\ remote \in Commits
  /\ db \in [Sites -> [Items -> Texts \cup {NoText}]]
  /\ files \in [Sites -> [Items -> Files]]
  /\ head \in [Sites -> Commits]
  /\ merging \in [Sites -> Commits \cup {NoCommit}]
  /\ pc \in [Sites -> {"idle", "exported", "committed", "succeeded", "pushed", "conflict", "aborted"}]
  /\ exported \in [Sites -> [Items -> Files]]
  /\ incoming \in [Sites -> [Items -> SUBSET Texts]]

\* A push that returns success has committed exactly what it exported, new files
\* and deletions included, whatever earlier calls have left in the sync
\* directory or in the index; and if it says so the remote has that commit,
\* whatever others have pushed since.
PushRecordsExport ==
  \A s \in Sites :
    /\ pc[s] \in {"succeeded", "pushed"} => Tree(head[s]) = exported[s] /\ merging[s] = NoCommit
    /\ pc[s] = "pushed" => head[s] \in History(remote)

\* The branch of s, and the one whose merge is in progress.
Parents(s) == {head[s], merging[s]} \ {NoCommit}

Reverted(s, n, t) ==
  \E c \in UNION {History(p) : p \in Parents(s)} : \E p \in commits[c].past :
    Tree(p)[n].text = t /\ ~ Keeps(Tree(c)[n].text, t)

\* A commit of the database takes a text back, of the branch or of the merge
\* that it concludes, only if the text was pulled and never imported, if the
\* file could not be written, or if a commit that it follows has taken the text
\* back already.
TakesBackOnlyUnread ==
  [][\A s \in Sites, n \in Items :
       pc[s] \in {"exported", "aborted"} /\ head'[s] # head[s] =>
         LET new == commits'[head'[s]].tree[n].text
         IN  \A p \in Parents(s) :
               \/ Keeps(new, Tree(p)[n].text)
               \/ Tree(p)[n].text \in incoming[s][n]
               \/ Reverted(s, n, Tree(p)[n].text)
               \/ new = NoText /\ <<s, n>> \in Unwritable]_vars

\* An import takes back no text that the site has committed, however pulls,
\* conflicts, aborted merges and interrupted exports follow each other, unless
\* some commit had taken it back before.
TakenBack(n) == \E c \in Commits : \E p \in commits[c].past :
                  ~ Keeps(Tree(c)[n].text, Tree(p)[n].text)

ImportKeepsCommitted ==
  [][\A s \in Sites, n \in Items, c \in Commits :
       /\ ~ TakenBack(n)
       /\ c \in History(head[s])
       /\ Tree(c)[n].text = db[s][n]
       => Keeps(db[s][n], Tree(c)[n].text)']_vars
=============================================================================
