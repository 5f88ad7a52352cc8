------------------------------ MODULE LspIndex ------------------------------
(***************************************************************************)
(* The workspace index of the language server.  Two threads fill it: the   *)
(* event loop, which runs the handlers of the editor's buffers and of the  *)
(* watched files, and the initial scan (full_scan, asyncio.to_thread).     *)
(* There is no lock: each assignment to one of the index's dictionaries    *)
(* is a step, between two of which the other thread and the disk move on.  *)
(*                                                                         *)
(* The text of a .kgn file is the id in its front matter, or Garbled: with *)
(* no front matter to be had.  The text of a .kge file is a name for a set *)
(* of edges.  Undecodable is a file whose bytes are no UTF-8.  The editor  *)
(* and other programs write the files; the client's watcher sends a notice *)
(* of it later, at most one for each file: a change right after a creation *)
(* stays a creation, a re-creation right after a deletion is a change.     *)
(***************************************************************************)
EXTENDS Naturals, FiniteSets

CONSTANTS KgnFiles, KgeFiles, Ids, Slugs,
          Slug,       \* the slug of each .kgn file: its name without folder
          EdgeTexts,  \* texts of .kge files
          EdgesIn,    \* the edges in each of them
          Missing, Garbled, Undecodable,
          NoPath, NoId,
          MaxMoves    \* bound: writes to the disk and edits of buffers

Files == KgnFiles \cup KgeFiles
Threads == {"loop", "scan"}

ASSUME LspIndexAssumption ==
  /\ KgnFiles \cap KgeFiles = {}
  /\ Slug \in [KgnFiles -> Slugs]
  /\ EdgesIn \in [EdgeTexts -> SUBSET (Ids \X Ids)]
  /\ NoPath \notin Files
  /\ NoId \notin Ids
  /\ Ids \cap Slugs = {}
  /\ Ids \cap {Missing, Garbled, Undecodable} = {}
  /\ EdgeTexts \cap {Missing, Garbled, Undecodable} = {}
  /\ Missing # Garbled /\ Missing # Undecodable /\ Garbled # Undecodable
  /\ MaxMoves \in Nat

VARIABLES
  disk,        \* the text of each file
  mtime,       \* its mtime, which two writes in a row can share
  notice,      \* what the watcher has to tell about it
  buffer,      \* its text in the editor, Missing when it is not open
  meta,        \* _path_to_meta: the id a .kgn file is indexed with
  pathOf,      \* _slug_to_path and _uuid_to_path, whose keys differ
  edgeIndex,   \* _edge_index: the edges a .kge file is indexed with
  reverseRefs, \* _reverse_refs: the .kge files that each id is named in
  cache,       \* _cache: the texts parsed, by path and mtime
  frame,       \* what each thread is removing or indexing, and how far it is
  scan, todo,  \* the scan's state, and the files it found and has not begun
  moves,       \* how many writes and edits there were
  suspect,     \* history: files whose entry may be out of date
  overlaid,    \* history: files indexed over an entry, or by both threads at once
  contested,   \* history: ids and slugs that two files claimed at once
  lost         \* history: back references that were added to a set dropped meanwhile

env == <<disk, mtime, buffer, moves>>
nameMaps == <<pathOf, contested>>
edgeMaps == <<reverseRefs, lost>>
index == <<meta, edgeIndex, nameMaps, edgeMaps>>
scanVars == <<scan, todo>>
history == <<suspect, overlaid>>
vars == <<env, notice, index, cache, frame, scanVars, history>>

Names == Slugs \cup Ids

\* at: the statement to run next; why: the handler, or "scan"; names and ends:
\* what is left to link or unlink; key: the key at hand.
Idle == [at |-> "idle", why |-> "none", path |-> NoPath, mtime |-> 0, text |-> Missing,
         names |-> {}, ends |-> {}, key |-> NoId]

On(w, p) == frame[w].path = p
Stage(p) == IF p \in KgnFiles THEN "stat" ELSE "read"

\* The id in a text: _extract_meta.
IdIn(t) == IF t \in Ids THEN t ELSE NoId

\* A file that the editor's text stands for: .kge buffers are not indexed.
InEditor(p) == p \in KgnFiles /\ buffer[p] # Missing

Indexed(p) == IF p \in KgnFiles THEN meta[p] # NoId ELSE edgeIndex[p] # {}

\* No cached text passes for the present one and is not.
CacheFresh(p) == \A c \in cache : c.path = p /\ c.mtime = mtime[p] => c.text = disk[p]

\* The nodes that edges name.
Touches(edges) == UNION {{e[1], e[2]} : e \in edges}

\* What is processed next: the slug before the id; and the edges of a file in
\* any order, from before to.
NextNames(names) == IF names \cap Slugs # {} THEN names \cap Slugs ELSE names
NextEnds(ends) == LET begun == {x \in ends : <<x[1], 1>> \notin ends}
                  IN IF begun # {} THEN begun ELSE {x \in ends : x[2] = 1}
Ends(edges) == edges \X {1, 2}
NodeAt(x) == x[1][x[2]]

Continue(w, new) == frame' = [frame EXCEPT ![w] = new]
Done(w) == Continue(w, Idle)

-----------------------------------------------------------------------------
(***************************************************************************)
(* Removal: _remove_kgn_file, _remove_kge_file.  Only handlers remove.     *)
(***************************************************************************)
\* Mutant of Evicted: the cached texts stay.
EvictedNone(p) == cache

Evicted(p) == {c \in cache : c.path # p}

\* What a handler does when the removal is over.
AfterRemoval(f) ==
  CASE f.why = "edit" -> IF IdIn(f.text) = NoId THEN Idle ELSE [f EXCEPT !.at = "enter"]
    [] f.why = "close" -> IF disk[f.path] = Missing THEN Idle ELSE [f EXCEPT !.at = Stage(f.path)]
    [] f.why \in {"changed", "deleted"} /\ f.path \in KgnFiles -> [f EXCEPT !.at = "evict"]
    [] f.why = "changed" /\ f.path \in KgeFiles -> [f EXCEPT !.at = "read"]
    [] OTHER -> Idle

Unlinking(f) == IF f.names = {} /\ f.ends = {} THEN AfterRemoval(f) ELSE [f EXCEPT !.at = "unlink"]

NamesOf(p) == IF p \in KgnFiles /\ meta[p] # NoId THEN {Slug[p], meta[p]} ELSE {}

\* Mutant of EndsOf: the file stays filed under the nodes its edges lead to.
FromEndsOf(p) == IF p \in KgeFiles THEN edgeIndex[p] \X {1} ELSE {}

EndsOf(p) == IF p \in KgeFiles THEN Ends(edgeIndex[p]) ELSE {}

\* A handler pops the entry of file p; t is what the editor has it index instead.
Pop(p, why, t) ==
  /\ IF p \in KgnFiles THEN meta' = [meta EXCEPT ![p] = NoId] /\ UNCHANGED edgeIndex
                       ELSE edgeIndex' = [edgeIndex EXCEPT ![p] = {}] /\ UNCHANGED meta
  /\ Continue("loop", Unlinking([Idle EXCEPT !.why = why, !.path = p, !.text = t,
                                             !.names = NamesOf(p), !.ends = EndsOf(p)]))
  /\ UNCHANGED <<nameMaps, edgeMaps>>

\* Does a name still lead to the file?
UnlinkName ==
  LET f == frame["loop"]
  IN /\ f.at = "unlink"
     /\ \E x \in NextNames(f.names) :
          LET left == [f EXCEPT !.names = @ \ {x}]
          IN Continue("loop", IF pathOf[x] = f.path THEN [left EXCEPT !.at = "del", !.key = x]
                                                    ELSE Unlinking(left))
     /\ UNCHANGED <<env, notice, index, cache, scanVars, history>>

DelName ==
  LET f == frame["loop"]
  IN /\ f.at = "del"
     /\ f.path \in KgnFiles
     /\ pathOf' = [pathOf EXCEPT ![f.key] = NoPath]
     /\ Continue("loop", Unlinking([f EXCEPT !.key = NoId]))
     /\ UNCHANGED <<env, notice, meta, edgeIndex, contested, edgeMaps, cache, scanVars, history>>

\* The scan holds the set of references to node i, to add its file to.
HeldByScan(i) == frame["scan"].at = "file" /\ frame["scan"].key = i
HeldFor(i) == IF HeldByScan(i) THEN {frame["scan"].path} ELSE {}

\* The file is discarded from the references to a node, if there are any.  Is
\* the set empty now?
UnlinkEnd ==
  LET f == frame["loop"]
  IN /\ f.at = "unlink"
     /\ \E x \in NextEnds(f.ends) :
          LET i == NodeAt(x)
              left == [f EXCEPT !.ends = @ \ {x}]
              emptied == (reverseRefs[i] # {} \/ HeldByScan(i)) /\ reverseRefs[i] \subseteq {f.path}
          IN /\ reverseRefs' = [reverseRefs EXCEPT ![i] = @ \ {f.path}]
             /\ Continue("loop", IF emptied THEN [left EXCEPT !.at = "del", !.key = i] ELSE Unlinking(left))
     /\ UNCHANGED <<env, notice, meta, edgeIndex, nameMaps, lost, cache, scanVars, history>>

\* The set is dropped with what the scan has added or is about to add to it.
DelSet ==
  LET f == frame["loop"]
      i == f.key
  IN /\ f.at = "del"
     /\ f.path \in KgeFiles
     /\ reverseRefs' = [reverseRefs EXCEPT ![i] = {}]
     /\ lost' = lost \cup ((reverseRefs[i] \cup HeldFor(i)) \X {i})
     /\ frame' = [w \in Threads |-> IF w = "loop" THEN Unlinking([f EXCEPT !.key = NoId])
                                    ELSE IF HeldByScan(i) THEN [frame[w] EXCEPT !.key = NoId] ELSE frame[w]]
     /\ UNCHANGED <<env, notice, meta, edgeIndex, nameMaps, cache, scanVars, history>>


-----------------------------------------------------------------------------
(***************************************************************************)
(* Indexing a file from the disk: _index_kgn_file, _index_kge_file.        *)
(***************************************************************************)
\* Thread w starts on file p.
Begin(w, p, why) == Continue(w, [Idle EXCEPT !.at = Stage(p), !.why = why, !.path = p])

\* An exception in thread w.  The scan ends, and the files it has left are not
\* indexed; a handler of a notification drops the changes that came with it.
Raise(w) ==
  /\ Done(w)
  /\ IF w = "scan"
     THEN /\ scan' = "failed"
          /\ todo' = {}
          /\ suspect' = suspect \cup todo \cup {frame[w].path}
          /\ UNCHANGED notice
     ELSE \E dropped \in SUBSET (IF frame[w].why \in {"created", "changed", "deleted"} THEN {q \in Files : notice[q] # "none"} ELSE {}) :
            /\ notice' = [q \in Files |-> IF q \in dropped THEN "none" ELSE notice[q]]
            /\ suspect' = suspect \cup dropped \cup {frame[w].path}
            /\ UNCHANGED scanVars
  /\ UNCHANGED overlaid

\* _cache.evict; after it a changed file is indexed.
Evict ==
  LET f == frame["loop"]
  IN /\ f.at = "evict"
     /\ cache' = Evicted(f.path)
     /\ Continue("loop", IF f.why = "deleted" THEN Idle ELSE [f EXCEPT !.at = "stat"])
     /\ UNCHANGED <<env, notice, index, scanVars, history>>

\* The scan puts a text into the cache while a handler goes over it: the
\* iteration raises.  Or the handler evicts the text that the scan has just got
\* or put, and moving it to the end raises in the scan.
EvictRaises == LET f == frame["scan"]
               IN /\ frame["loop"].at = "evict"
                  /\ \/ /\ f.at = "put"
                        /\ Raise("loop")
                     \/ /\ On("loop", f.path)
                        /\ \/ f.at = "put"
                           \/ /\ f.at = "stat"
                              /\ \E c \in cache : c.path = f.path /\ c.mtime = mtime[f.path]
                        /\ Raise("scan")
                  /\ UNCHANGED <<env, index, cache>>

Stat(w) ==
  LET p == frame[w].path
      hit == {c \in cache : c.path = p /\ c.mtime = mtime[p]}
  IN /\ frame[w].at = "stat"
     /\ \/ /\ disk[p] = Missing
           /\ Done(w)
        \/ /\ disk[p] # Missing
           /\ hit = {}
           /\ Continue(w, [frame[w] EXCEPT !.at = "read", !.mtime = mtime[p]])
        \/ /\ disk[p] # Missing
           /\ \E c \in hit : Continue(w, [frame[w] EXCEPT !.at = "enter", !.text = c.text])
     /\ UNCHANGED <<env, notice, index, cache, scanVars, history>>

\* _parse_kgn_file lets the error of a file that is gone or no UTF-8 through,
\* _parse_kge_file returns None for anything it cannot parse.
Read(w) ==
  LET p == frame[w].path
      fails == IF p \in KgnFiles THEN {Missing, Undecodable} ELSE {Missing, Undecodable, Garbled}
  IN /\ frame[w].at = "read"
     /\ \/ /\ disk[p] \notin fails
           /\ Continue(w, [frame[w] EXCEPT !.at = IF p \in KgnFiles THEN "put" ELSE "enter", !.text = disk[p]])
           /\ UNCHANGED <<notice, scanVars, history>>
        \/ /\ disk[p] \in fails
           /\ p \in KgeFiles
           /\ Done(w)
           /\ UNCHANGED <<notice, scanVars, history>>
        \/ /\ disk[p] \in fails
           /\ p \in KgnFiles
           /\ Raise(w)
     /\ UNCHANGED <<env, index, cache>>

\* _cache.put.
Put(w) ==
  LET f == frame[w]
      entry == [path |-> f.path, mtime |-> f.mtime, text |-> f.text]
  IN /\ f.at = "put"
     /\ cache' = {c \in cache : c.path # f.path \/ c.mtime # f.mtime} \cup {entry}
     /\ Continue(w, [f EXCEPT !.at = "enter"])
     /\ UNCHANGED <<env, notice, index, scanVars, history>>

Linking(f) == IF f.names = {} /\ f.ends = {} THEN Idle ELSE [f EXCEPT !.at = "link"]

\* The entry of the file, over the one it has, if any.
Enter(w) ==
  LET f == frame[w]
      p == f.path
      i == IdIn(f.text)
  IN /\ f.at = "enter"
     /\ \/ /\ p \in KgnFiles
           /\ i = NoId
           /\ Done(w)
           /\ UNCHANGED <<meta, edgeIndex, overlaid>>
        \/ /\ p \in KgnFiles
           /\ i # NoId
           /\ meta' = [meta EXCEPT ![p] = i]
           /\ overlaid' = IF Indexed(p) THEN overlaid \cup {p} ELSE overlaid
           /\ Continue(w, Linking([f EXCEPT !.names = {Slug[p], i}]))
           /\ UNCHANGED edgeIndex
        \/ /\ p \in KgeFiles
           /\ edgeIndex' = [edgeIndex EXCEPT ![p] = EdgesIn[f.text]]
           /\ overlaid' = IF Indexed(p) THEN overlaid \cup {p} ELSE overlaid
           /\ Continue(w, Linking([f EXCEPT !.ends = Ends(EdgesIn[f.text])]))
           /\ UNCHANGED meta
     /\ suspect' = IF Indexed(p) THEN suspect \cup {p} ELSE suspect
     /\ UNCHANGED <<env, notice, nameMaps, edgeMaps, cache, scanVars>>

\* Mutant of LinkName: a name keeps its first file.
LinkNameFirstWins(w) ==
  LET f == frame[w]
  IN /\ f.at = "link"
     /\ \E x \in NextNames(f.names) :
          /\ pathOf' = [pathOf EXCEPT ![x] = IF @ = NoPath THEN f.path ELSE @]
          /\ Continue(w, Linking([f EXCEPT !.names = @ \ {x}]))
     /\ UNCHANGED <<env, notice, meta, edgeIndex, contested, edgeMaps, cache, scanVars, history>>

\* The latter wins.
LinkName(w) ==
  LET f == frame[w]
  IN /\ f.at = "link"
     /\ \E x \in NextNames(f.names) :
          /\ pathOf' = [pathOf EXCEPT ![x] = f.path]
          /\ contested' = IF pathOf[x] \in {NoPath, f.path} THEN contested ELSE contested \cup {x}
          /\ Continue(w, Linking([f EXCEPT !.names = @ \ {x}]))
     /\ UNCHANGED <<env, notice, meta, edgeIndex, edgeMaps, cache, scanVars, history>>

\* setdefault: from now on the thread holds the set of references to a node.
LinkEnd(w) ==
  LET f == frame[w]
  IN /\ f.at = "link"
     /\ \E x \in NextEnds(f.ends) :
          Continue(w, [f EXCEPT !.at = "file", !.key = NodeAt(x), !.ends = @ \ {x}])
     /\ UNCHANGED <<env, notice, index, cache, scanVars, history>>

\* The file is added to the set, which may be dropped by now.
File(w) ==
  LET f == frame[w]
      i == f.key
  IN /\ f.at = "file"
     /\ \/ /\ i = NoId
           /\ UNCHANGED edgeMaps
        \/ /\ i # NoId
           /\ reverseRefs' = [reverseRefs EXCEPT ![i] = @ \cup {f.path}]
           /\ lost' = lost \ {<<f.path, i>>}
     /\ Continue(w, Linking([f EXCEPT !.key = NoId]))
     /\ UNCHANGED <<env, notice, meta, edgeIndex, nameMaps, cache, scanVars, history>>

RemoveStep == UnlinkName \/ DelName \/ UnlinkEnd \/ DelSet \/ Evict \/ EvictRaises
IndexStep(w) == Stat(w) \/ Read(w) \/ Put(w) \/ Enter(w) \/ LinkName(w) \/ LinkEnd(w) \/ File(w)

-----------------------------------------------------------------------------
(***************************************************************************)
(* The initial scan.                                                       *)
(***************************************************************************)
\* The folders are listed.
ScanStart == /\ scan = "off"
             /\ scan' = "running"
             /\ todo' = {p \in Files : disk[p] # Missing}
             /\ UNCHANGED <<env, notice, index, cache, frame, history>>

\* The next file, the .kgn files first.
ScanNext(p) ==
  /\ scan = "running"
  /\ frame["scan"].at = "idle"
  /\ p \in todo
  /\ p \in KgeFiles => todo \cap KgnFiles = {}
  /\ todo' = todo \ {p}
  /\ Begin("scan", p, "scan")
  /\ suspect' = IF On("loop", p) \/ InEditor(p) \/ Indexed(p) \/ ~CacheFresh(p)
                THEN suspect \cup {p} ELSE suspect \ {p}
  /\ overlaid' = IF On("loop", p) THEN overlaid \cup {p} ELSE overlaid
  /\ UNCHANGED <<env, notice, index, cache, scan>>

ScanEnd == /\ scan = "running"
           /\ frame["scan"].at = "idle"
           /\ todo = {}
           /\ scan' = "done"
           /\ UNCHANGED <<env, notice, index, cache, frame, todo, history>>

-----------------------------------------------------------------------------
(***************************************************************************)
(* The handlers.  A handler begins when the one before it is done.         *)
(***************************************************************************)
Handler == frame["loop"].at = "idle"

\* A handler starts over with file p, so that its entry is good again, unless
\* the scan is on that file too or it is otherwise in doubt.
StartOver(p, doubt) ==
  /\ suspect' = IF On("scan", p) \/ doubt THEN suspect \cup {p} ELSE suspect \ {p}
  /\ overlaid' = IF On("scan", p) THEN overlaid \cup {p} ELSE overlaid

Take(p, kind) == /\ Handler
                 /\ notice[p] = kind
                 /\ notice' = [notice EXCEPT ![p] = "none"]
                 /\ UNCHANGED <<env, cache, scanVars>>

\* on_file_created: nothing is removed and no cached text is evicted.
OnFileCreated(p) ==
  /\ Take(p, "created")
  /\ Begin("loop", p, "created")
  /\ StartOver(p, InEditor(p) \/ Indexed(p) \/ ~CacheFresh(p))
  /\ UNCHANGED index

\* on_file_changed, on_file_deleted: they go by the disk, whatever the editor
\* holds.
OnFileChanged(p) ==
  /\ Take(p, "changed")
  /\ Pop(p, "changed", Missing)
  /\ StartOver(p, InEditor(p))

OnFileDeleted(p) ==
  /\ Take(p, "deleted")
  /\ Pop(p, "deleted", Missing)
  /\ StartOver(p, InEditor(p))

\* on_document_open, on_document_change.
Edit(p, t) == /\ Handler
              /\ moves < MaxMoves
              /\ moves' = moves + 1
              /\ buffer' = [buffer EXCEPT ![p] = t]
              /\ IF p \in KgnFiles THEN Pop(p, "edit", t) /\ StartOver(p, FALSE)
                                   ELSE UNCHANGED <<index, frame, history>>
              /\ UNCHANGED <<disk, mtime, notice, cache, scanVars>>

\* An editor opens what is on the disk or what it kept since it was closed.
DidOpen(p, t) == /\ buffer[p] = Missing
                 /\ disk[p] # Missing
                 /\ Edit(p, t)

DidChange(p, t) == /\ buffer[p] \notin {Missing, t}
                   /\ Edit(p, t)

\* on_document_close: the file is indexed from the disk again, if it is there,
\* with the text in the cache, if there is one.
DidClose(p) ==
  /\ Handler
  /\ buffer[p] # Missing
  /\ buffer' = [buffer EXCEPT ![p] = Missing]
  /\ Pop(p, "close", Missing)
  /\ StartOver(p, ~CacheFresh(p))
  /\ UNCHANGED <<disk, mtime, moves, notice, cache, scanVars>>

-----------------------------------------------------------------------------
(***************************************************************************)
(* The disk.                                                               *)
(***************************************************************************)
Texts(p) == (IF p \in KgnFiles THEN Ids ELSE EdgeTexts) \cup {Garbled, Undecodable}
BufferTexts(p) == Texts(p) \ {Undecodable}

Touch(p, t, told) == /\ moves < MaxMoves
                     /\ moves' = moves + 1
                     /\ disk' = [disk EXCEPT ![p] = t]
                     /\ \E m \in {mtime[p], mtime[p] + 1} : mtime' = [mtime EXCEPT ![p] = m]
                     /\ notice' = [notice EXCEPT ![p] = told]
                     /\ UNCHANGED <<buffer, index, cache, frame, scanVars, history>>

Write(p, t) ==
  /\ t # disk[p]
  /\ Touch(p, t, IF notice[p] = "created" \/ (disk[p] = Missing /\ notice[p] = "none") THEN "created" ELSE "changed")

Delete(p) == /\ disk[p] # Missing
             /\ Touch(p, Missing, "deleted")

-----------------------------------------------------------------------------
\* The server starts on files that nobody has told it about.
Init == /\ disk \in [Files -> Ids \cup EdgeTexts \cup {Missing, Garbled, Undecodable}]
        /\ \A p \in Files : disk[p] \in Texts(p) \cup {Missing}
        /\ mtime = [p \in Files |-> 0]
        /\ notice = [p \in Files |-> "none"]
        /\ buffer = [p \in Files |-> Missing]
        /\ meta = [p \in KgnFiles |-> NoId]
        /\ pathOf = [x \in Names |-> NoPath]
        /\ edgeIndex = [p \in KgeFiles |-> {}]
        /\ reverseRefs = [i \in Ids |-> {}]
        /\ cache = {}
        /\ frame = [w \in Threads |-> Idle]
        /\ scan = "off"
        /\ todo = {}
        /\ moves = 0
        /\ suspect = {p \in Files : disk[p] # Missing}
        /\ overlaid = {}
        /\ contested = {}
        /\ lost = {}

Next == \/ RemoveStep
        \/ \E w \in Threads : IndexStep(w)
        \/ ScanStart \/ ScanEnd
        \/ \E p \in Files : \/ ScanNext(p)
                            \/ OnFileCreated(p) \/ OnFileChanged(p) \/ OnFileDeleted(p)
                            \/ \E t \in BufferTexts(p) : DidOpen(p, t) \/ DidChange(p, t)
                            \/ DidClose(p)
                            \/ \E t \in Texts(p) : Write(p, t)
                            \/ Delete(p)

Spec == Init /\ [][Next]_vars

-----------------------------------------------------------------------------
(***************************************************************************)
(* What the editor asks of the index.                                      *)
(***************************************************************************)
\* Go to definition: the file; hover: the id of the node on the card.
Definition(i) == pathOf[i]
Hover(i) == IF pathOf[i] = NoPath THEN NoId ELSE meta[pathOf[i]]

\* The count above the id of a node.
ReferenceLens(i) == Cardinality(reverseRefs[i])

\* The places that name a node: files that are gone are skipped, one that is
\* no UTF-8 fails the request.
FindReferences(i) ==
  IF \E p \in reverseRefs[i] : disk[p] = Undecodable THEN {}
  ELSE {p \in reverseRefs[i] : disk[p] \in EdgeTexts /\ i \in Touches(EdgesIn[disk[p]])}

\* get_all_edges_for.
AllEdgesFor(i) == {e \in UNION {edgeIndex[p] : p \in reverseRefs[i]} : i \in {e[1], e[2]}}

-----------------------------------------------------------------------------
(***************************************************************************)
(* Properties.                                                             *)
(***************************************************************************)
\* Locals have their types; the scan has files left only while it runs, and a
\* thread that is idle holds no file.
TypeOK ==
  /\ \A p \in Files : disk[p] \in Texts(p) \cup {Missing} /\ buffer[p] \in BufferTexts(p) \cup {Missing}
  /\ notice \in [Files -> {"none", "created", "changed", "deleted"}]
  /\ meta \in [KgnFiles -> Ids \cup {NoId}]
  /\ pathOf \in [Names -> KgnFiles \cup {NoPath}]
  /\ edgeIndex \in [KgeFiles -> SUBSET (Ids \X Ids)]
  /\ reverseRefs \in [Ids -> SUBSET KgeFiles]
  /\ \A c \in cache : c.path \in KgnFiles /\ c.text \in BufferTexts(c.path) /\ c.mtime <= mtime[c.path]
  /\ scan \in {"off", "running", "done", "failed"}
  /\ todo # {} => scan = "running"
  /\ \A w \in Threads : frame[w].at = "idle" <=> frame[w].path = NoPath
  /\ frame["scan"].at # "idle" => scan = "running"
  /\ suspect \subseteq Files /\ overlaid \subseteq Files
  /\ contested \subseteq Names /\ lost \subseteq KgeFiles \X Ids

\* Once the notices of a file are handled, its entry says what the editor
\* holds, or the disk when the file is not open there.  Excepted are the files
\* an exception lost, those the scan and a handler, or a notice and the
\* editor, were at together, and those indexed over an older entry, until a
\* handler starts over with them.
Expected(p) == IF InEditor(p) THEN IdIn(buffer[p]) ELSE IdIn(disk[p])
ExpectedEdges(p) == IF disk[p] \in EdgeTexts THEN EdgesIn[disk[p]] ELSE {}
Free(p) == \A w \in Threads : ~On(w, p)
Settled(p) == notice[p] = "none" /\ p \notin suspect /\ Free(p)

IndexCurrent ==
  /\ \A p \in KgnFiles : Settled(p) => meta[p] = Expected(p)
  /\ \A p \in KgeFiles : Settled(p) => edgeIndex[p] = ExpectedEdges(p)

\* The id and the slug of an indexed file lead to it, whatever was indexed and
\* removed in between and however the threads' statements fell, as long as no
\* other file claimed them.  A file that an id leads to is indexed with it, so
\* that the card of hover is the node of go to definition, and one that a slug
\* leads to has that name and is indexed.  Excepted are files that a thread is
\* at; for the first part also suspect ones; for the others those that were
\* indexed over an older entry or by both threads at once, since names of what
\* they were go on leading to them for good.
NamesResolve ==
  /\ \A p \in KgnFiles : meta[p] # NoId /\ p \notin suspect /\ Free(p) =>
       /\ meta[p] \notin contested => Definition(meta[p]) = p
       /\ Slug[p] \notin contested => pathOf[Slug[p]] = p
  /\ \A p \in KgnFiles \ overlaid : Free(p) =>
       /\ \A i \in Ids : Definition(i) = p => Hover(i) = i
       /\ \A s \in Slugs : pathOf[s] = p => Slug[p] = s /\ meta[p] # NoId

\* Every edge of a file is found from both of its ends, but for a back
\* reference that was lost because the set it went to was dropped at that
\* moment, and for files that are suspect or at work.  When all .kge files are
\* settled and no back reference was lost, the references of a node are the
\* files that name it, and the lens counts them, unless one was indexed over an
\* older entry or by both threads at once.
ReferencesFound ==
  /\ \A p \in KgeFiles : p \notin suspect /\ Free(p) =>
       \A e \in edgeIndex[p] : \A i \in {e[1], e[2]} : <<p, i>> \notin lost => e \in AllEdgesFor(i)
  /\ (\A p \in KgeFiles : Settled(p) /\ disk[p] # Undecodable) /\ lost = {} =>
       \A i \in Ids :
         /\ FindReferences(i) = {p \in KgeFiles : i \in Touches(ExpectedEdges(p))}
         /\ overlaid \cap KgeFiles = {} => ReferenceLens(i) = Cardinality(FindReferences(i))
=============================================================================
