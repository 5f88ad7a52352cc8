# kgn: a verification project

TLA+ models of kgn, a knowledge-graph store that agents work on, with the TLC
runs that check them and the TLAPS proofs of what holds at any size. The paths
below are relative to the repository; the modules live beside this file.

## 1. The system

kgn keeps nodes (specs, decisions, tasks, ...) and typed edges in PostgreSQL.
Nodes and edges are ingested from `.kgn` and `.kge` files. A node of type TASK
can be put into a queue, from which agents lease it over the MCP server or the
command line. Around the store there are file export and import, git and GitHub
synchronisation, a language server for the files, and a web page.

### 1.1 Components, their state and their operations

| component | state | operations that change it | sources |
|---|---|---|---|
| task queue | `task_queue` rows: state, node, priority, lease, attempts | enqueue, checkout, complete, fail, requeue_expired | `kgn/task/service.py`, `kgn/mcp/tools/task.py`, `kgn/cli/_task.py`, migration 006 |
| task dependencies | none of its own; reads DEPENDS_ON edges and rows | check_dependencies and the cycle search (enqueue), unblock_dependents (complete) | `kgn/task/dependency.py` |
| node locks | `nodes.locked_by`, `nodes.lock_expires_at` | acquire, release, release_all, cleanup_expired | `kgn/orchestration/locking.py`, migration 008 |
| context handoff | bodies of dependent nodes | propagate_context | `kgn/orchestration/handoff.py` |
| roles | `agents.role` | register; permission tables | `kgn/orchestration/roles.py`, migration 007 |
| repository | all tables: nodes, node_versions, edges, embeddings, agents, activities, ... | upsert_node, insert_edge, log_activity and the statements above | `kgn/db/repository.py` |
| connection pool | one pool per process, one transaction per call | get_connection: commit or roll back | `kgn/db/connection.py` |
| workflow templates | none | execute: nodes, edges and rows of a template | `kgn/orchestration/workflow.py`, `templates.py` |
| conflict resolution | versions, review tasks, CONTRADICTS edges | detect, create_review_task, resolve | `kgn/orchestration/conflict_resolution.py` |
| contradiction scan | CONTRADICTS edges with a status | scan, approve, dismiss | `kgn/conflict/service.py` |
| ingest | slug map of one batch | ingest_path, ingest_text | `kgn/ingest/service.py` |
| embeddings | vectors of nodes | embed_node, embed_batch | `kgn/embedding/service.py` |
| graph queries | none | extract (subgraph), health | `kgn/graph/*.py` |
| file sync | files, `.kgn-sync.json` | export_project, import_project | `kgn/sync/*.py` |
| git and GitHub | work tree, local and remote repository | push, pull, branches, pull requests | `kgn/git/*.py`, `kgn/github/*.py` |
| MCP server, CLI | none | the entry points of all the above | `kgn/mcp/`, `kgn/cli/` |
| language server | index of the workspace, pending diagnostics | open, change, save, close, watched files | `kgn/lsp/*.py` |
| web dashboard | subscriber queues of the event bus | read-only routes, publish, subscribe | `kgn/web/*.py` |
| parser, validator, serializer | none | pure functions of a text; two parsers of `.kgn`, a strict and a tolerant one | `kgn/parser/`, `kgn/serializer/` |
| VS Code extension, logging | none | editor glue | `vscode-kgn/`, `kgn/logging/` |

`PROJECT.json` lists them again with the modules that cover them and what is
left out.

### 1.2 How they interact

A tool call (MCP or CLI) opens one transaction with `get_connection`, builds the
services over one `KgnRepository`, and commits when the block ends or rolls back
when it raises. `TaskService` calls the repository for the rows, the lock
service for the node of the row, `DependencyService` before an insert and after
a completion, and `HandoffService` after a completion; the latter writes nodes
through the same `upsert_node` that ingest uses. Edges come from ingest, which
knows nothing of the queue. Nothing but the database is shared between
processes, there is no coordinator, and there is no background job: an expired
lease is only noticed by the next agent that checks out. PostgreSQL runs at its
default isolation, READ COMMITTED.

### 1.3 What is hard about it

- **Interleaving.** Every call is several statements, and under READ COMMITTED
  another transaction can commit between any two of them.
- **Timeouts and late answers.** A lease runs out while the agent still works;
  the row is handed to another; both report.
- **Dependencies that move.** Edges and rows are added in any order, a finished
  node can be enqueued again, and what a row waits for is computed twice, by two
  pieces of code, when it is enqueued and when something completes.
- **Liveness without a scheduler.** Expired, blocked and role-tagged rows move
  only if some agent's call moves them.
- **Partial failure.** A lock that is not obtained, a handoff that is skipped, a
  transaction that is rolled back.
- **One question answered twice.** What surrounds a node is computed from the
  database by one piece of code and from the editor's index by another; what a
  well-formed text is, by the ingest's parser and by the editor's.
- **A calling thread and an event loop.** The editor's index is filled by a
  scan in a thread and by handlers on the loop, which notice files late.
- **Two stores and a third.** Database, work tree and remote repository are
  changed by different people at different times, and a sync call is a sequence
  of commands over all three that can fail at each.
- **Hand-written graph search.** The cycle check is an iterative search over
  graphs that contain other cycles.

`PROJECT.json` lists each hazard at its line, with the properties about it.

### 1.4 What makes each component correct

- *Queue*: a row goes through its lifecycle once; no attempt is handed out
  twice or beyond `max_attempts`; a live lease stays with its agent; an outcome
  is recorded once, for the agent that had the lease; polling alone recovers
  expired rows and serves every ready row that newer, more urgent ones do not
  keep overtaking.
- *Dependencies*: a BLOCKED row is released only when all its targets are done,
  and is never forgotten; the cycle check is right on every graph.
- *Locks*: a live lock is always backed by a live lease of its holder.
- *Handoff*: a node only receives the context of a finished prerequisite.
- *Workflows*: a step is handed out only after the steps before it, receives
  their context, and a workflow comes to its end when agents do their work.
- *Nodes, edges, conflicts*: one version per update, one record per content,
  one CONTRADICTS edge per pair, and the last decision on it stays on record.
- *Ingest*: what a caller is told is stored is stored, references by slug
  resolve to the nodes of the batch, a second run over the same files changes
  nothing, a vector is of its node's text.
- *Graph queries*: a package has what lies within the depth and nothing else,
  whatever is inserted meanwhile, and what is drawn of it hangs together.
- *Sync*: a push records what it exported and never undoes what others have
  pushed and the site has read; an import never undoes what was committed.
- *Language server*: the newest text is always diagnosed in the end; the index
  agrees with the editor's buffers and the files, and leads from ids, slugs and
  references to the right ones, but for what its two threads lose to each other.

## 2. The modules

| module | what it is |
|---|---|
| `TaskLifecycle` | abstract specification: what a row of the queue may go through |
| `TaskQueue` | the queue, dependencies, locks and handoff, one call at a time |
| `TaskTxn`, `TaskTxnProofs` | the queue's calls statement by statement, overlapping under READ COMMITTED, and theorems |
| `Workflow`, `WorkflowProofs` | the executor of templates and the templates, over all of `TaskQueue`, and the theorems about both |
| `DependencyCycle` | the cycle search of enqueue, step by step |
| `Subgraph`, `SubgraphProofs` | the extraction of a context package while edges are inserted, what the dashboard draws of it, the editor's own traversal; theorems about it and about the cycle search |
| `NodeStore`, `NodeStoreProofs` | upsert, versions, conflict reviews and their resolution, statement by statement, and theorems |
| `Review`, `ReviewProofs` | the scan for contradictions and every call that writes the status of a CONTRADICTS edge, statement by statement, and theorems |
| `KgnText` | what the two parsers and the validator tell apart in a text |
| `Ingest`, `IngestProofs` | batches of files, the MCP write tools, the embedding of nodes with the client's retries, over `KgnText`, and theorems |
| `LspDiagnostics` | debounced diagnostics of the language server |
| `LspIndex` | the workspace index: scan thread, handlers, watched files, buffers and the cache of parsed texts |
| `LspProofs` | theorems about the two, which share no variable |
| `GitSync`, `GitSyncProofs` | export, import, push and pull of several sites over one remote repository, and the proofs |
| `MC*` | the instances TLC checks, `MCEditor` of `Subgraph` and `LspDiagnostics` at once; `MCTaskTxn` and `MCNodeStore` each state what a document says and a run refutes |

`Workflow` composes with `TaskQueue` by extending it: every action of the queue
is one of its own. `Subgraph` extends `DependencyCycle` in the same way, an
extraction being what a checkout does after an enqueue has searched for cycles.
`NodeStore`, `Review` and `TaskTxn` share the rules of READ COMMITTED.
`TaskQueue` and `TaskTxn` both implement `TaskLifecycle` (`KeepsLifecycle`).
`TaskQueue` states the cycle check as what it means (`HasCycle`: the node lies in
every set closed under its targets), and `DependencyCycle` shows that the search
of the code computes exactly that (`AnswerIsRight`), which is what justifies the
one-step guard of `Enqueue`.

### 2.1 TaskQueue

State: the columns of `task_queue` as functions of the row, rows being numbered
in the order of their insertion; the lock columns of `nodes`; the set of
DEPENDS_ON edges; who received whose context; the task activities; the clock.
`created_at` is the time a transaction began, so rows that one transaction
inserted (`Together`: those a workflow enqueues) have the same, and a checkout
may take either first (`Before`). Actions, one per
operation, each a whole transaction:

| action | code |
|---|---|
| `Enqueue` | `TaskService.enqueue`: cycle check, type check, READY or BLOCKED |
| `McpCheckout`, `CliCheckout` | role guard, `requeue_expired`, a first row in (priority, `created_at`) order that the role filter lets through, lease, lock attempt, activity |
| `Complete` | refused unless IN_PROGRESS; lock release, DONE, unblocking of dependents whose targets are all done, handoff, activity |
| `Fail` | the same without unblocking and handoff |
| `RequeueExpired`, `ReleaseAllLocks`, `CleanupExpiredLocks` | the service calls of these names |
| `IngestEdge` | a DEPENDS_ON edge arrives, at any time |
| `Tick` | time passes |

What follows from the code and is easily overlooked: any caller can report on
any row; a checkout goes on when the lock is refused; the unblocking counts
targets of every type while the enqueue counts only tasks; the handoff writes
through `upsert_node`, which skips a record whose content hash is stored, and
the record handed to it still has the hash of the row it was read from, so only
nodes without a hash (`Nodes \ HashedNodes`) receive context.

Abstracted: the text of bodies and messages, the result record of a checkout,
one project (rows of different projects never meet in a statement), the
read-only commands.

### 2.2 TaskTxn

The same calls with their statements apart. `row` is the committed table, `draft`
the newest version of each row, `owner` the transaction that wrote it and so
holds the row lock; `holder` is the transaction that has updated the row's node
in `nodes` and so holds that lock; `pc`, `target`, `seen`, `todo` are what a
call keeps between statements.

| action | code |
|---|---|
| `BeginCheckout`, `BeginReport`, `BeginEnqueue` | the first statement, which fixes `start`, the transaction's `now()` |
| `RequeueScan`, `RequeueRow` | `requeue_expired`, one UPDATE: the rows it collects, then each of them, looked at again after a wait |
| `Take` | SELECT ... FOR UPDATE SKIP LOCKED of `checkout_task`, its UPDATE, and the lock on the node |
| `ReadTask`, `Report` | `get_task_status`; the UPDATE of `complete_task` or `fail_task`, and the release of the node's lock |
| `FindDependents`, `UnblockRow` | `unblock_dependents` |
| `FindHeirs`, `HandOn`, `HandoffEnd` | `propagate_context`: the dependents, then one `upsert_node` for each, in any order, as they come from a Python set |
| `CheckDependencies`, `Insert` | the enqueue |
| `Commit`, `Abort` | everything is published at once; nothing is, at any statement |

An UPDATE waits while another transaction owns the row or the node, a plain
SELECT reads what is committed plus the transaction's own writes (`View`).
Two statements are one step only where the second cannot wait or change what the
first saw; that the node's UPDATE in `Take` and `Report` cannot is not assumed:
`NodeFree` guards it, and `WaitsAreKnown` says that the guard never blocks.

Each node has one row here, so prerequisites are given by row. Edges do not
change, and only the task tools' calls are in the module: with two rows of one
node, with an edge added meanwhile, or against another tool's update of a node,
further waits are possible, and what the module says of waits is about the
task tools on rows whose prerequisites stand. Of what a handoff
writes there is the row lock and not the text of the body; `HashedNodes` are the
nodes that `upsert_node` skips without a lock, since their content is stored.

### 2.3 DependencyCycle

`_has_cycle` with its locals `visited`, `stack`, the scan of the current node's
targets and the result. One step per iteration of the while and of the for
loop; the targets are scanned in every order, since the query orders edges by
creation.

### 2.4 NodeStore

Nodes are rows with a content and an author; a content is the text it came from
or the merge a reviewer wrote, and the hash is what tells texts apart (it covers
the front matter, so equal hashes mean equal text and author). `versions` is
`node_versions`, `issues` what `create_review_task` inserts (ISSUE, TASK,
CONTRADICTS edge, queue row: one record here, as they are inserted together and
nothing else changes them), `approved` those whose edge was approved. The
transaction machinery is that of `TaskTxn`; the unique key (node, version) makes
`SaveVersion` wait for or fail against another transaction. `written` is a
history variable: the contents committed for each node, in order; `overlapped`
is another: the pairs of nodes that two calls were about at the same time,
which the code does not keep apart.

| action | code |
|---|---|
| `BeginIngest`, `FindDuplicate`, `ReadExisting`, `NextVersion`, `SaveVersion`, `UpdateNode`, `InsertNode` | `_upsert_from_parsed`, `upsert_node`, `_save_version`, `_update_node`, `_insert_node` |
| `Detect` | `_check_conflict_on_update`: `detect` and `create_review_task` |
| `BeginAcceptA`, `ReadLatest`, `BeginAcceptB`, `BeginMerge`, `ApprovePending` | `resolve` |

Left out: fields that follow the content (title, tags, status, ...), several
projects; batches and the write guards of the MCP tools are in `Ingest`, the
other decisions on edges in `Review`.

### 2.5 LspDiagnostics

One document. `text` is the number of the text in the buffer, each task carries
the text it was created with, `pending` is the document's entry in
`_pending_tasks`, `shown` the text whose diagnostics were published last.
Handlers (`OnOpen`, `OnChange`, `OnSave`, `OnClose`, `OnShutdown`) run
between two steps of the event loop; tasks step in the order they became ready,
from one await to the next; threads finish in any order. asyncio's rules for
`cancel()` decide the interesting part: a task that had started resumes with a
CancelledError and runs its `finally`, one that had not never does. The handlers'
calls into the workspace index are those of `LspIndex`.

### 2.6 GitSync

Each site has a database (`db`), a work tree (`files`), a branch (`head`) and
possibly a merge in progress (`merging`); the sites share `remote`. What a node
says is a number, its text; `madeFrom` records which texts were edited or merged
into which, so `Keeps(t, u)` says that t does not take u back. `pc` is the
step that the site's call has reached, `exported` what its push has written, and
`incoming` the texts that came with a pull, were not in the site's database and
files already and were not imported; the last two are history variables.

| action | code |
|---|---|
| `Edit` | any write of a node, `upsert_node` |
| `Export` | `export_project` with its orphan clean-up, on its own or in a push |
| `Commit`, `NothingToCommit` | `GitService.commit` in a push, or of `sync export --commit` |
| `Push`, `PushRefused` | `GitService.push` and the handling of its errors |
| `PullForward`, `PullMerge`, `PullConflict` | `git pull` |
| `AbortMerge` | `merge --abort`, `checkout .`, `clean -fd` |
| `Import` | `import_project`, on its own or in a pull |
| `ResolveWithDb` | import, re-export and commit of a pull with db-wins |
| `Stop` | the call returns, raises or crashes |

The commands of one call are separate steps, so agents edit and other sites
push between them. A pull that merges is one action followed by `Import`, which
is not obliged to follow: a crash in between leaves the files merged and the
database as it was. `Import` alone also stands for a pull that finds nothing and
for one whose git command fails without the word CONFLICT, as the code goes on
to import in both cases; recent versions of git, without a `pull.rebase` setting,
fail so on diverged branches, older ones merge: both outcomes are in the model.

Git is external: a commit has a tree and a set of ancestors, a merge is a
three-way merge from the one best common ancestor, taken separately for the text
and for the header of a file (they are different lines). Headers matter because
they differ between sites when texts agree, so they conflict on their own; a
conflict inside one makes the file unreadable for the import.

Left out: renamed files (a change of type or title moves a file, which is then
an orphan and a new file), `.kgn-sync.json` (ignored by git), the generated
`README.md`, a crash in the middle of one export, two calls of one site at the
same time, `pull.rebase=true`, branches and pull requests. Edge files are items
that nobody edits.

### 2.7 Workflow

`TaskQueue` with one more action. `Execute` is `WorkflowEngine.execute` with its
checks: the trigger node's type and status, and that a step depends on earlier
steps only (a KeyError otherwise). It creates the nodes of the steps, their
DEPENDS_ON edges and the rows of the TASK steps in the order of the template,
READY or BLOCKED by the enqueue's check, in one transaction. A node of a step is
`<<run, step>>`; nodes of runs that were not executed do not exist yet, so no
row or edge may name them. The three built-in templates are definitions. Step
nodes carry no content hash, so the handoff reaches them.

### 2.8 Subgraph

| action | code |
|---|---|
| `Extract` | the clamp to `MAX_SUBGRAPH_DEPTH` and the start of `extract_subgraph` |
| `Look`, `Deepen` | one query for the neighbours of one node; the next round |
| `Fetch` | the details of what was found, without ARCHIVED nodes |
| `Link` | the edges between the nodes that are left |
| `InsertEdge` | another call's commit between two of these queries |

`found` is `visited` in order of insertion, which is what the dashboard cuts off
(`Rendered`). `LocalRounds` is the loop of `build_local_subgraph` of the language
server, which goes one round further than the depth and looks at edges through
the index, and `LocalResponses` what the handler makes of it: the depth is the
one that was asked for, without the database's clamp, and of the nodes visited
the first `max_nodes` are kept, with `truncated` set. That the workspace holds
the same nodes and edges as the database is an assumption of the comparison.
Left out: filters by project (edges never cross projects) and the fields of
nodes.

### 2.9 Review

Edges have a committed `status`, a `draft` and an `owner`, as in `TaskTxn`; an
edge is never deleted, so its ends stand for its id.

| action | code |
|---|---|
| `BeginDecide`, `Find`, `Update`, `Insert` | `approve`, `dismiss`: look in both directions, then update by id or insert |
| `BeginIngest`, `Insert` | a CONTRADICTS edge of a `.kge` file, between any two nodes, ISSUEs that exist included: the column's default is APPROVED |
| `BeginReview`, `Insert` | the PENDING edge of `create_review_task` |
| `BeginResolve`, `ListPending`, `ApprovePending` | `_approve_pending_contradicts` |
| `BeginScan`, `Compare`, `ScanEnd` | `scan` over the pairs of similar nodes, one query for each |
| `Commit`, `Abort` | end of the transaction |

Decisions are taken on any pair too; a scan compares only SPECs and DECISIONs,
and which of those are similar is its input. `loose` and `verdict` are history
variables.

### 2.10 KgnText and Ingest

A text is a record of what the parsers tell apart: how it is framed by `---`,
what kind of YAML stands there, which fields the model refuses, and the fields
that the rules look at. `ParseStrict` with `Violations` is what the ingest
accepts, `Rules` and `HasFrontMatter` what the editor is told; `UnseenByEditor`
names what the ingest refuses without a word from the editor, which composes
values and does not build them, and does not run the validator.

`Ingest` runs one command at a time, which reads the files as they are when it
comes to them, with its transaction's tables in `call.tx`; writers of the files
come in between, and the MCP calls and the API's answers while it embeds.

| action | code |
|---|---|
| `BeginBatch`, `IngestFile`, `ReadMutated`, `CommitBatch` | `ingest_path` from the CLI: `.kgn` files before `.kge` files, slugs, V8, versions, savepoints, `_run_embed_after_ingest` |
| `BeginEmbed`, `CommitEmbed` | `kgn embed`, with and without `--force` |
| `ApiAnswers`, `ApiBusy`, `ApiRefuses`, `VectorRefused`, `NoClient` | the client's chunks, retries and errors, and the table's |
| `IngestNode`, `IngestEdge` | the MCP tools with their guards and the automatic embedding |
| `Fail` | the database or the process fails |
| `WriteFile` | somebody writes or deletes a file |

Left out: the log table, which is written with each result; the review that an
update raises (`NodeStore`); projects.

### 2.11 LspIndex

`disk`, `mtime` and `buffer` are the world; `meta`, `pathOf` (the two maps from
slugs and from ids to paths), `edgeIndex` and `reverseRefs` the maps of the
index; `cache` the parsed texts by path and mtime. `frame` is what each of the
two threads is at: the statement it runs next (`at`), the file, the text it has
read, the names and edge ends still to be linked or unlinked, and the key at
hand. There is no lock in the code, so each assignment to one of the maps is a
step and the other thread may come between any two: between an entry, its slug
and its id; and between `setdefault` and `add` of a back reference, where the
loop's `del` of the set it has just emptied loses the reference.

Two writes in a row may leave the same mtime. The client's watcher has at most
one notice for a file (`notice`), which a handler takes some time later.
`suspect`, `overlaid`, `contested` and `lost` are history variables that name
what the code gives up: files that an exception lost, that the scan and a
handler, or a watcher event and an open buffer, were at together; files indexed
over an entry that was not removed, or by both threads at once; ids and slugs
claimed by two files; and back references added to a set that is dropped.

| action | code |
|---|---|
| `ScanStart`, `ScanNext`, `ScanEnd` | `full_scan` |
| `Stat`, `Read`, `Put` | the mtime cache and the parse of `_index_kgn_file`, the parse of `_index_kge_file` |
| `Enter`, `LinkName` | the entry, then the slug, then the id |
| `LinkEnd`, `File` | `setdefault` and `add`, for both ends of each edge, the edges in any order |
| `Pop`, `UnlinkName`, `DelName`, `UnlinkEnd`, `DelSet` | `_remove_kgn_file`, `_remove_kge_file`: test and `del` apart |
| `Evict` | the eviction from the cache |
| `Raise`, `EvictRaises` | exceptions that end the scan or the handler, those of the cache when both threads change it included |
| `OnFileCreated`, `OnFileChanged`, `OnFileDeleted` | the watched files |
| `DidOpen`, `DidChange`, `DidClose` | the buffers |
| `Write`, `Delete` | the editor and other programs |

`Definition`, `Hover`, `ReferenceLens`, `FindReferences` and `AllEdgesFor` are
what the features ask of it. Left out: positions and ranges, folders that are
skipped, the size limit of the cache (1024 texts; an evicted one is read again).

## 3. The runs

Every module states the types of its state as `TypeOK`; the runs check that of
the queue, which the proofs rest on, and otherwise only properties that say more
than types. The bounds are constants of the modules, named in their
declarations. All but
`git_sync` (about three minutes) finish within a minute or two.

| run | instance | question |
|---|---|---|
| `queue_leases` | an admin and a worker, 2 nodes, 2 rows, 2 priorities, 2 attempts, leases of one tick (MCP) and of none (CLI), time 0 to 3, with fairness | Are leases honoured and attempts counted, is every outcome credited to the agent that had the lease, is every live lock backed by a live lease? Does polling alone recover expired rows, and serve every ready row that is not overtaken? |
| `workflow` | a run of DESIGN_TO_IMPL and one of ISSUE_RESOLUTION, a worker and an admin, up to 5 rows, so that one or two nodes are enqueued again, and an edge that joins the two runs, with fairness | Is no unblocking lost, do steps come in order, does context reach the next step, does a workflow come to its end? |
| `txn_calls` | 2 agents, 4 rows, the third waiting for the first two and the fourth for all of them, all calls overlapping, 2 attempts, leases of no ticks, time 0 to 1, aborts | Do leases, attempts and outcomes stay those of the serial queue? Is nothing released early? Where can a call wait for another, and which can wait for each other? |
| `editor` | every graph on 3 nodes, every start, depths 0, 1 and 3 with a maximum of 2, one insertion, any nodes archived, every cut-off of the editor's answer; or 5 diagnostics tasks and 3 texts, with fairness | Is the answer of the cycle search right? Has a package what it should, does its drawing hang together, does the editor show the same until it says that it is cut off? Does the entry of a diagnostics task never leak, does the newest task publish? |
| `store` | 2 clients, 3 texts (2 for one node, 1 with a generated id), 3 nodes, a merge, 4 writes | Is there one version per update, whatever overlaps? Does the history replay every write where nothing overlaps? |
| `review` | 2 clients, 2 nodes and an issue, 5 calls | Has a pair one edge, does the last decision stay on record, does a scan list what is undecided? |
| `ingest` | 2 `.kgn` files and a `.kge` file, 8 texts and 3 edge texts, 3 calls, one write of a file, 3 attempts at the API | Is what is reported stored, do slugs lead to the right nodes, is a second run without effect, are vectors of the right text, does the editor complain about what is refused, but for what it cannot see? |
| `lsp_index` | 2 `.kgn` files of one name, 2 `.kge` files with 2 edge texts about the same nodes, two files of one kind at a time, 2 ids, every content of the disk at first, 2 writes or edits | Is an entry what the editor or the disk says once notices are handled? Do ids, slugs and references lead to the right files? |
| `git_sync` | 2 sites, a node and an edge file, 4 texts, 4 commits | Does a push record what it exported, and the remote keep it? What may a commit take back, and does an import take back anything that was committed? |
| `claim_unblock`, `claim_embed`, `claim_review` | 3 rows, one waiting for two; as `ingest`; as `store`, all texts for one node | see 3.2 |

Why these are enough: two rows and two agents give every pair of calls on one
row, on two rows of one node and on two rows of two nodes; three units of time
let a lease run out, be granted again and run out again with two attempts. In
`txn_calls`, a lease of no ticks runs out when the clock moves for the first
time, between any two statements, and two rows that wait for the same two are
what it takes for two handoffs to meet in opposite orders; a third agent would
only add waits of the kinds that two have. In
`workflow`, a design's review is blocked by its implementation, an issue's by
its fix, and the edge between the runs gives a row with two prerequisites;
enqueuing a finished or a waiting node again makes its latest row another.
Three nodes contain self-loops, two- and three-cycles and cycles that avoid the
start; a depth of 3 is clamped, and one insertion can come at any point of a
search of two rounds. No three nodes lie more than two hops apart, so that the
editor shows more beyond the database's maximum depth is left to the proof. Four writes to three nodes are the first text of two
nodes, an update, and an update of the update, or two overlapping inserts of the
text without an id. Five calls in `review` are two overlapping decisions, two
after them or around them, and a scan or an import around all. Three calls in `ingest` are a
batch, the same again and the embed command, or a batch with MCP calls around
it; one write makes the files of the second batch differ. In `lsp_index`, two
moves after any initial disk are a change of each of two files or two of one;
two files of one name and two ids give every collision of names, two `.kge`
files about the same nodes every collision of references. `.kgn` and `.kge` files
share no map, and what one's exception does to others is seen among files of one
kind, which is why two of one kind at a time suffice (`TwoFiles`). Five tasks are two
generations of a cancelled task and its successor plus a third. Four texts and
four commits are the founder's, one more of each site and a merge of them, or a
conflict's; the instance reaches text taken back by a push, a merge concluded by
a push, conflict markers committed as text, and the empty retry of a failed
push. With files that cannot be written it has several million states, so
`Unwritable` is empty in the run; an instance with one item and failing writes
at one site holds as well. `HashedNodes` is empty in `queue_leases` and
`workflow`: that nodes with a content hash receive no context is in the
definition and covered by the proofs, and no run exercises it.
`CHECK_DEADLOCK FALSE` is set throughout since the system may stop: nobody has
to call anything, and searches and tasks end.

Clients are symmetric in `txn_calls`, `store` and `review`, nodes in `review`,
and in `lsp_index` the files of each kind and the two ids, which change places
together with the edge texts. The properties of these runs treat them alike, and
are invariants or action properties, so no liveness is checked under symmetry.

### 3.1 Fairness

`queue_leases` assumes that each agent keeps polling (`WF(McpCheckout(a))`) and
that time passes (`WF(Tick)`): the agents are loops around `task_checkout`, and
no other process moves the queue. It assumes no report, so an agent may hold a
row for ever. The code does not age rows, so a stream of newer rows of higher
priority keeps a READY row waiting for ever, which `ReadyRowServed` says: a
row is served unless it is `Overtaken`. `WorkingSpec` of `workflow` assumes more, of the agents rather
than of the code: while there is work that some agent may take, some agent
polls, and while there is work in progress, some of it is reported as
completed. One of the agents must be an admin, since no other role sees the
steps of reviewers. Under these `RunsToEnd` says that the engine and the queue
add no way of their own to get stuck.
`claim_embed` assumes that a command runs on: it waits for nobody but the API,
whose client has a timeout. `DiagnosticsFairness` of `editor` assumes that the event loop runs,
timers fire and the pool's threads finish; parsing is a terminating function of
the text. No handler is assumed to be called. Nothing is assumed of the
transactions of `TaskTxn`, `NodeStore` and `Review`, of `Subgraph`, `Ingest`,
`LspIndex` and `GitSync`, whose properties are safety properties.

### 3.2 What the runs refute

Each `claim_*` run checks one statement of a document, docstring or comment and
ends in a counterexample; `PROJECT.json` quotes the statement.

| run | what happens |
|---|---|
| `claim_unblock` | two overlapping completions leave their common dependent BLOCKED for good |
| `claim_review` | an agent that did not create a node updates it twice, and is reported as in conflict with itself: reviews go by the node's creator, not by the previous version's author |
| `claim_embed` | a batch whose files are all ingested is rolled back when the embedding API fails |

### 3.3 Further places where the code promises less than one may read

These follow directly from the definitions of the modules; no run is spent on
them, and no property claims the contrary.

- A row whose last permitted attempt expires stays IN_PROGRESS until somebody
  reports on it: `RequeueExpired` skips it and nothing fails it, although
  README.md:333 says that it "transitions to FAILED".
- Overlapping updates of one node lose a content from the history, since both
  save the version they have read (CHANGELOG.md:14: "every upsert preserves
  complete field-level history"); `HistoryReplays` is about nodes that are not
  in `overlapped`.
- The diagnostics of an older text may be published after those of a newer one
  (server.py:449-450): the threads of two tasks finish in any order.
- A watcher event re-indexes a file from the disk while its buffer is open and
  newer (indexer.py:13-14 promises the buffer priority); `IndexCurrent` excepts
  such files until the next edit.
- When two decisions on a pair without an edge overlap, one inserts nothing, and
  is lost while its caller is told that it was recorded (`Insert`); in the two
  directions, the pair gets two edges with contradictory decisions (`Find` then
  `Insert`). `BeginIngest` makes every CONTRADICTS edge of a file APPROVED
  without a review.
- The editor's subgraph of a node that is not indexed shows its neighbours
  without the node when edges name it, where the docstring of
  `subgraph_handler.py` says that the graph is empty.
- An ingest stops at the first entry of a `.kge` file that fails and keeps the
  entries before it; a slug that was skipped by V8 keeps an id that no node has.
- A vector stays that of the old text when an update embeds nothing, until
  `embed --force`: `EmbeddedUnlessUpdated` says that this is the only way.
- Neither a requeue (`RequeueExpired`) nor a failure (`Fail`) counts an attempt;
  only `Lease` does.
- `Lease` does not look at edges, and no action sends a READY row back to
  BLOCKED: an edge ingested after the enqueue is not honoured, and
  `IngestEdge`, which checks no cycle, can close one among BLOCKED rows.
- `Blocking` ignores targets that are not tasks, `Unblockable` counts them: a
  row blocked by a task that also refers to a SPEC is never released.
- `PropagateContext` reaches no node that was ingested from a file.
- `AcquireLock` fails silently, so two rows of one node may be worked on by two
  agents at once.
- `CanCheckout` refuses reviewers and the filter hides the rows tagged for them
  from workers: such rows wait for an admin.
- `Report` does not look at the lease, and releases the lock in the name of the
  agent seen before the UPDATE: when the row changes hands in between, the lock
  of the next holder stays until it expires.
- Nothing ages in the queue: newer rows of higher priority can keep a READY row
  waiting for ever (`Overtaken`).
- Two completions that hand context on to the same two nodes can do so in
  opposite orders, those of Python sets, and deadlock; so can two checkouts that
  requeue the same expired rows, as an UPDATE promises no order. PostgreSQL then
  aborts one, and its report or checkout is rolled back (`DeadlocksAreKnown`: in
  these two ways only).
- `propagate_context` writes back bodies that it has read before it waited: two
  overlapping completions of the prerequisites of one node can lose the context
  that the first one added, or the second one fails at the version it saves.
  Texts of bodies are not in `TaskTxn`.
- `FindDuplicate` and `InsertNode` are two statements without a unique index:
  overlapping ingests can store one text twice.
- The editor calls its diagnostics authoritative (server.py:18), and has none for
  a text that the ingest refuses for another `kgn_version` (V2), a blank field
  (V3), a malformed id (V6) or a value that YAML cannot build: `UnseenByEditor`.
- The editor's subgraph goes to any depth it is asked for and stops at
  `max_nodes` (50 if not given), the database's is clamped to a depth and has no
  such limit: `EditorViewAgrees` says what the two have in common.
- A back reference that the scan adds while a handler drops the emptied set it
  goes to is lost until its file is indexed again (`lost`). When the scan and a
  handler are at one file together, a slug or an id of what the file was can go
  on leading to it for good (`overlaid`). The cache raises when a handler evicts
  what the scan has just looked up, which ends the scan (`EvictRaises`).
- `BeginAcceptA` takes the latest version when the reviewer calls, not the one
  the review is about, and its write is skipped when the hash exists.
- `PushRefused`, then `Export` and `NothingToCommit`: the retry of a push that
  failed reports success and pushes nothing. A push that the remote rejects is
  itself reported as a success, since git's message contains the word "remote".
- `Export` does not look at the branch: a push by a site that has pulled or
  cloned and not imported (a crash, a failed file, a manual conflict) takes back
  what the others pushed, in a fresh clone everything. `TakesBackOnlyUnread`
  says that this is all that it takes back, besides what a commit that it
  follows had taken back already and a merge then passes on to the other sites.
- `PullConflict` with the manual strategy leaves the merge in progress;
  `CommitTree` of the next push concludes it with the database's texts, and
  `Import` of the next pull, which git refuses, stores the conflict markers.
- `AbortMerge` goes back to the site's own commit, so `Import` after it
  overwrites edits since the last export, with db-wins too, and the remote's
  side of the conflict is not looked at by either strategy.
- A file that `Export` fails to write is deleted by the clean-up.
- `StepState` looks at steps that are TASKs only: an implementation that depends
  on a document is READY while the document is empty. Nothing records that a
  template was run for a trigger, so a second call creates everything again.
- `Report` releases locks by node and holder: with two rows of one node leased
  to one agent, the first report clears the lock of both.
- `IngestEdge` of the MCP server answers with an error from inside its
  transaction, so the entries before the one that failed are stored.
- A diagnostics task whose entry its predecessor removed is not cancelled by
  `OnClose` either, so it can publish for a closed document.

## 4. The proofs

TLAPS proves the following for every value of the constants that satisfies the
`ASSUME`s of the modules (names distinct from ids, numbers natural, tables total,
step ids of a template distinct, sets of nodes finite where they are counted).

Of `TaskQueue`, from the inductive invariant `TypeOK`:

- `TypeCorrect`: `TypeOK` is inductive; it includes that a row names an agent
  exactly when it has been handed out, which later proofs need.
- `AttemptsStayBounded`, `QueueImplementsLifecycle`: every step of the queue
  moves every row by a step of `TaskLifecycle` (`NextRowStep`, one lemma per
  action). The lifecycle bounds the leases, so the first is a consequence of the
  same step lemma.
- `NoUnblockingLost`: `BlockedIsWaiting` is inductive with `TypeOK`. The heart is
  that `LatestDone` of a node changes only through a completion of that node,
  which looks at all dependents, or through an insertion, which only makes it
  false (`WaitingKept`, `EnqueueWaiting`, `CompleteWaiting`).
- `LocksAreBacked`: `LockBackedByLease` is inductive with `TypeOK`: a checkout
  that gets the lock writes the same deadline into both, and a live lock keeps
  its row from being requeued because the deadlines agree (`BackingNotExpired`).
- `LeasesAreHonoured`: the action property, from `TypeOK`.
- `OutcomesAreCredited`: `OutcomeCredited` is inductive with `TypeOK`, row by row
  (`Credited`): activities are only added, an outcome only for the row that is
  reported on, which was IN_PROGRESS and so had none.
- `HandoffIsJustified`: `HandoffFromPrerequisite`. A node only receives the
  context of what it depends on, in the step that completes it; edges are only
  added and DONE is final.

Of `Workflow`:

- `StepsComeInOrder`, `ContextIsHandedOn`: `StepsInOrder` and
  `ContextReachesNextStep` for any templates and runs, any number of agents,
  re-enqueued nodes and added edges. Every step of the queue is one of
  `TaskQueue`'s, so its theorems' step lemmas are used as they are. The invariant
  (`FlowInv`) adds that the edges of an executed run are stored, that rows exist
  only of nodes that exist, and that a TASK step has a BLOCKED row until each
  TASK it depends on has been done once (`StepsQueued`). A row leaves BLOCKED, or
  is inserted READY, only when the latest rows of its targets are DONE, and a
  DONE row stays; and the first completion of a prerequisite finds that BLOCKED
  row, which is READY or still BLOCKED when the handoff looks for dependents.

Of the overlapping transactions, `TaskTxn`, `NodeStore` and `Review`. The three
proofs have one shape. The invariant says what a call has made of each row it
holds, relative to what is committed, and what its locals mean at each
statement. Two lemmas divide the work: what a step of one call does to rows that
another holds (`Respects`: nothing), and that a call's part of the invariant
only depends on its own locals, its rows and what is committed (`OthersStay`).
So each statement is looked at for the call that executes it only, and a commit
for what it publishes.

- `TxnTypes`, `AttemptsGoToOneAgent`, `OneOutcomeIsRecorded`,
  `CallsWaitInThreePlaces`, `TwoWaysToDeadlock`, `LeasesAreHonoured`,
  `UnblockingIsRight` and `CommitsImplementLifecycle`: every property that
  `txn_calls` checks, for any number of agents, rows and prerequisites. In
  `TxnInv` a held row was made by one of the five statements that write one
  (`MadeByRequeue`, `MadeByTake`, `MadeByReport`, `MadeByUnblock`,
  `MadeByInsert`), each of which has looked at the committed row under its lock;
  a row to be unblocked is BLOCKED and held by nobody (`TodoOK`), since the only
  other way out of BLOCKED is a completion of its last prerequisite, which is
  held. `NodesInv` adds who can hold a node: the call that has taken or reported
  on its row and holds that, too, or a completion of one of its prerequisites
  that has come to its handoff (`HoldersOK`). A row past BLOCKED has all
  its prerequisites DONE (`ReadyWhenDone`), so no completion is about to hand on to it, and the
  lock of its node is free when its own row is (`TakeNodes`, `ReportNodes`).
  What is left are the waits of a requeue, of a report that holds nothing yet,
  and of a handoff for a common dependent (`WaitPlaces`).
- `ReviewTypes`, `PairsKeepOneEdge`, `DecisionsStay`, `ScansAreRight`. In
  `ReviewInv` calls that share a pair are contested (`Rivals`), so that what an
  uncontested call has read of its pair stays true until it commits; only edges
  that leave an issue are ever PENDING (`IssueEdges`), which no scan compares;
  a committed edge never vanishes.
- `HistoryIsComplete`, `ReviewsAreRaised`, `HistoryIsFaithful`. In `StoreInv`
  the committed versions of a node that was written k times are numbered 1 to
  k - 1 (`HistoryOK`), so a call that has saved a version has saved number k
  (`SavedOK`), and the unique key lets one call do so at a time (`SavesDiffer`);
  its commit adds one version and one write. Reviews are numbered like the
  versions they are about (`IssuesOK`), which makes them the ones of their
  update: `ReviewedUnlessCreator` says which updates have one, those by others
  than the node's creator, and `claim_review` shows that these are not the
  updates of another agent's text. For the replay, a call whose node no other call was about has read
  what is still committed (`ReadOK`, `OverlapsNoted`).

Of the graph searches:

- `CycleCheckIsRight`, `SearchTypes`, `AnswerStaysRight`: the search answers
  right on every graph, alone and as a part of `Subgraph`. The invariant speaks
  of closed sets of nodes, not of paths: nothing seen lies outside a set closed
  under targets (`Reached`), and the targets of every visited node are visited,
  on the stack or still to be scanned (`Kept`), so that with an empty stack the
  visited nodes without the start are a closed set.
- `DrawingHangsTogether`: `DrawnConnected` for every graph, depth and cut-off,
  with any number of insertions on the way. The invariant (`SearchInv`) says that
  every node but the first was found from one earlier in the list, one step
  nearer to the start and joined to it by an edge (`FoundFromNearer`), and that
  the two queues hold nodes found in this round and the next (`FoundIn`). Edges
  are only added, so the joining edge is among those linked in the end, and a
  cut-off keeps the earlier of two nodes.
- `SearchIsComplete`: `FoundWithinDepth` under the same conditions. `Within` is a
  recursive function of the number of hops; `WithinSteps`, proved by induction on
  that number, says that one hop more is one application of the neighbours, and
  `WithinGrows`, `WithinDeeper` that more edges and more hops lose nothing. The
  invariant (`CoverInv`) then needs no induction: a node that was found has its
  neighbours found one deeper, or is still queued (`Expanded`, `Waiting`); so
  when a round ends, what lies one hop further has been found (`OneHopFurther`).
- `EditorShowsTheSame`: `EditorViewAgrees`. `LocalRoundsAreHops`, by induction on
  the rounds, says that after each round of the editor's loop what it has visited
  is what is within so many hops and its frontier are the neighbours of that, so
  its additional round finds what the database's last round finds, and with a
  greater depth no less. What is cut off is taken round by round, and a node's
  round is its depth in the package, so nothing left out is nearer than
  something shown.

The library's induction theorems take an operator as a parameter, which the
provers cannot instantiate. `Smallest` and `Induction` of `SubgraphProofs` are
induction for sets of numbers, derived from the well-foundedness of the order on
the naturals (`WFMin`), and `Iteration` that a recursive function which applies
a step n times has the equations it is defined by.

Of the language server:

- `IndexTypes`. All proofs about the index stand on `BaseInv`: the types and what
  the locals of a thread are at each statement (`TypeInv`), that a file which
  both threads are at is suspect and overlaid (`Crossed`), and that what a
  handler is unlinking has no entry (`Emptied`).
- `EntriesAreCurrent`: `IndexCurrent`. `RightInv` says of each file that is not
  suspect and has no notice outstanding that either nobody is indexing it and
  its entry is right, or one thread alone is, which has popped or found no entry
  and will enter the present text (`Right`, `Underway`). Each step concerns one
  file; of every other it leaves what `Right` speaks of alone (`Same`), and of
  its own it starts over, sets a notice or makes the file suspect.
- `NamesLeadToTheirFiles`: `NamesResolve`. In `NamesInv` a name of an indexed file
  leads to it, is contested, or is still to be linked by a thread at that file;
  a name that leads to a file is its name or still to be unlinked (`NamesOK`).
  The `del` of a name comes a statement after the test; between the two only a
  file that claims the same name can change it, which makes it contested.
- `ReferencesAreComplete`: `ReferencesFound`. `EdgesInv` says the same of a file's
  nodes and the references back from them (`EdgesOK`), with `lost` where two
  files meet at one node: the set that the loop drops may hold, or be about to
  receive, what the scan files.
- `NoPendingLeak`: `PendingIsLive` with the types of `status` and `pending` is
  inductive: every step that ends or cancels a task clears or replaces the
  entry, whoever it belongs to.

Of the ingest, for any files, texts and batch size and any number of retries:

- `IngestTypes`. A node gets an id that no node and no slug of its transaction
  has, so the types need that such an id is left: a batch starts with one for
  each `.kgn` file, and each file takes at most one (`Enough`, `KgnTakesOne`).
- `ReportedIsStored`, `EdgesFollowNames`: `ReportedStored` and `LinkedByName`.
  In `ResultsInv` a slug has the id of the one node that was written under it,
  or an id that no node has (`SlugsTold`), and what the transaction has told so
  far is what it holds (`StoredAs`, `LinksIn`). No `.kge` file is read while a
  `.kgn` file is left (`NoneLinked`), so later nodes never change what the name
  in an edge stood for.
- `VectorsFit`: `EmbeddedUnlessUpdated`. `VectorInv` follows a text from the read
  through the calls of the API to the commit: what is held for a node is the
  node's text, unless the node was updated while the command ran.
- `RerunIsIdle`: `RerunChangesNothing`. `RerunInv` holds two accounts of a batch:
  what the store has come to be after it read some of the files of a disk whose
  names are distinct (`MadeOf`), and, when the next batch reads the same disk,
  that its transaction repeats the store (`Repeats`): a text that was stored is
  skipped, a slug gets an id without a node, and an edge is there already.
- `EditorAgreesWithIngest`: `EditorAgrees`, a fact about `KgnText` for each text:
  what the editor does not see (`UnseenByEditor`) is all that it is silent on.

Of the sites over one remote repository:

- `PushesAreRecorded`: `PushRecordsExport` for any number of sites, items, texts
  and commits. The invariant (`PushInv`) adds that between the export and the
  commit of a call its site's files do not change, and that the past of a commit
  contains the past of each of its members, so that a fast-forward keeps in the
  remote's history all that was there. It says nothing of what files contain:
  how git merges them plays no role.
- `SyncTypes`: `TypeOK`, so no commit ever has conflict markers in a header.
- `CommitsTakeBackOnlyUnread`: `TakesBackOnlyUnread`. What git's three-way merge
  keeps depends on the base, so `BasesInv` comes first: two sites share only
  commits that the remote has (`Apart`), hence a branch and the remote always
  have a best common ancestor (`HasBase`). `FollowsInv` then says of the
  database, and of the files unless the export failed to write one, that they
  keep the text of each commit that the next one will follow, or that the site
  has not read it, or that it was taken back before (`MayFollow`); while a
  merge may still be aborted the database follows the branch alone, as it has
  imported nothing of the merge (`DbFollows`). There is one lemma per action,
  and one for both pulls that move the branch (`MovedFollows`).
- `ImportsKeepCommitted`: `ImportKeepsCommitted`. In `KeptInv` whatever a site
  holds and anybody has committed is in the past of its own next commit
  (`DbOwned`, `FileOwned`), since sites share only what was committed
  (`SharedIsCommitted`) and a step commits only what its own site holds
  (`OnlyOwn`). A file that a pull, a conflict, an aborted merge or an export
  leaves therefore descends from the commit that has the database's text, and
  keeps that text as long as no commit took one back (`FileKeepsDb`). That
  `Keeps` is transitive is part of the invariant (`MadeFromAll`).

Only model-checked: all liveness properties (leads-to under fairness and ENABLED
are beyond the prover). Every safety property of the passing runs is a theorem.

## 5. Not modelled

The `.kgn` and `.kge` formats beyond what `KgnText` tells apart, the text that
serializers, Mermaid and the handoff write, completion, tokens and positions in
the editor, statistics (`observability`, `health`) and the scores of `matching`,
the tables of node and edge permissions, the migration runner, branches and pull
requests, the VS Code extension and logging: functions without state, pure input
and output, or calls to one external command. PostgreSQL, asyncio, git and the
GitHub and embedding services are external: modelled, where they are, by the
rules that the code relies on. `PROJECT.json` gives the reason for each
component.

## 6. Plan

What is left, in this order:

1. `GitSync`: renamed files, a crash in the middle of one export.
2. `EventBus`: bounded subscriber queues of the dashboard.
3. `Agents`: roles that an ingest with an agent's name overwrites.
