----------------------------- MODULE LspProofs ------------------------------
(***************************************************************************)
(* Theorems about the language server: first about the workspace index of  *)
(* LspIndex, for any files, ids, slugs and texts, and any number of moves; *)
(* at the end one about the diagnostics of LspDiagnostics.                 *)
(*                                                                         *)
(* The invariant of the index comes in layers, each proved over the one    *)
(* before: the types and what the locals of a thread are at each statement *)
(* (TypeInv), two threads at one file that mark it (Crossed), and that     *)
(* what is being removed has no entry (Emptied), together BaseInv; then,   *)
(* of one file, its entry (RightInv), its names (NamesInv) and its back    *)
(* references (EdgesInv).  A step that only moves a thread on to a         *)
(* statement that does not concern the layer is quiet there.               *)
(***************************************************************************)
EXTENDS LspIndex, LspDiagnostics, TLAPS

(***************************************************************************)
(* Types and frames.                                                       *)
(***************************************************************************)
AnyText == Ids \cup EdgeTexts \cup {Missing, Garbled, Undecodable}
AnyEnd == (Ids \X Ids) \X {1, 2}

FrameType == [at : {"idle", "unlink", "del", "evict", "stat", "read", "put", "enter", "link", "file"},
              why : {"none", "scan", "created", "changed", "deleted", "edit", "close"},
              path : Files \cup {NoPath}, mtime : Nat, text : AnyText,
              names : SUBSET Names, ends : SUBSET AnyEnd, key : Names \cup {NoId}]

\* What the locals of a thread are at each statement.
LocalsOK(f) ==
  /\ f.at = "idle" <=> f.path = NoPath
  /\ f.at \in {"stat", "put", "evict"} => f.path \in KgnFiles
  /\ f.at = "file" => f.path \in KgeFiles
  /\ f.at \in {"put", "enter"} => f.text \in IF f.path \in KgnFiles THEN Ids \cup {Garbled} ELSE EdgeTexts
  /\ f.why = "edit" => f.path \in KgnFiles
  /\ f.at \in {"unlink", "del"} => f.why \in {"changed", "deleted", "edit", "close"}
  /\ f.at = "evict" => f.why \in {"changed", "deleted"}
  /\ f.at \in {"stat", "read", "put"} => f.why # "edit"
  /\ f.path \notin KgnFiles => f.names = {}
  /\ f.path \notin KgeFiles => f.ends = {}
  /\ f.names # {} => f.at \in {"unlink", "del", "link"}
  /\ f.ends # {} => f.at \in {"unlink", "del", "link", "file"}
  /\ f.at = "del" /\ f.path \in KgeFiles => f.key \in Ids
  /\ f.at = "file" => f.key \in Ids \cup {NoId}
Frames == {f \in FrameType : LocalsOK(f)}

CacheType == [path : KgnFiles, mtime : Nat, text : Ids \cup {Garbled}]

WorldTyped == /\ disk \in [Files -> AnyText]
              /\ mtime \in [Files -> Nat]
              /\ buffer \in [Files -> AnyText]
              /\ \A p \in Files : /\ disk[p] \in Texts(p) \cup {Missing}
                                  /\ buffer[p] \in BufferTexts(p) \cup {Missing}

IndexTyped == /\ meta \in [KgnFiles -> Ids \cup {NoId}]
              /\ pathOf \in [Names -> KgnFiles \cup {NoPath}]
              /\ edgeIndex \in [KgeFiles -> SUBSET (Ids \X Ids)]
              /\ reverseRefs \in [Ids -> SUBSET KgeFiles]
              /\ contested \subseteq Names
              /\ lost \subseteq KgeFiles \X Ids

CacheTyped == cache \subseteq CacheType /\ \A c \in cache : c.mtime <= mtime[c.path]

FramesTyped == /\ frame \in [Threads -> Frames]
               /\ \A w \in Threads : frame[w].path # NoPath => frame[w].mtime <= mtime[frame[w].path]

NoticeTyped == /\ notice \in [Files -> {"none", "created", "changed", "deleted"}]
               /\ \A p \in Files : notice[p] = "deleted" => disk[p] = Missing

ScanTyped == /\ scan \in {"off", "running", "done", "failed"}
             /\ todo \subseteq Files
             /\ todo # {} \/ frame["scan"].at # "idle" => scan = "running"

HistoryTyped == suspect \subseteq Files /\ overlaid \subseteq Files

TypeInv == WorldTyped /\ IndexTyped /\ CacheTyped /\ FramesTyped /\ NoticeTyped /\ ScanTyped /\ HistoryTyped

LEMMA FilesApart == /\ KgnFiles \cap KgeFiles = {} /\ KgnFiles \subseteq Files /\ KgeFiles \subseteq Files
                    /\ NoPath \notin Files /\ NoId \notin Ids /\ Ids \cap Slugs = {}
                    /\ \A p \in Files : p \in KgeFiles <=> p \notin KgnFiles
                    /\ Slug \in [KgnFiles -> Slugs]
                    /\ Ids \subseteq Names /\ Slugs \subseteq Names
BY LspIndexAssumption DEF LspIndexAssumption, Files, Names

LEMMA TextFacts ==
  /\ \A t \in Ids : IdIn(t) = t /\ t # NoId
  /\ \A t : t \notin Ids => IdIn(t) = NoId
  /\ \A p \in Files : Texts(p) \subseteq AnyText /\ Missing \notin Texts(p)
  /\ \A p \in KgnFiles : BufferTexts(p) = Ids \cup {Garbled} /\ Texts(p) = BufferTexts(p) \cup {Undecodable}
  /\ \A p \in KgeFiles : BufferTexts(p) = EdgeTexts \cup {Garbled} /\ Texts(p) = BufferTexts(p) \cup {Undecodable}
  /\ Missing \notin Ids \cup EdgeTexts \cup {Garbled, Undecodable}
  /\ EdgesIn \in [EdgeTexts -> SUBSET (Ids \X Ids)]
BY LspIndexAssumption DEF LspIndexAssumption, IdIn, Texts, BufferTexts, AnyText, Files

LEMMA IdleFrame == Idle \in Frames /\ Idle.at = "idle" /\ Idle.path = NoPath /\ Idle.names = {} /\ Idle.ends = {}
BY FilesApart DEF Idle, Frames, FrameType, LocalsOK, AnyText

LEMMA FrameFacts ==
  ASSUME TypeInv, NEW w \in Threads
  PROVE  /\ frame[w] \in FrameType /\ LocalsOK(frame[w])
         /\ frame[w].at # "idle" => frame[w].path \in Files
BY DEF TypeInv, FramesTyped, Frames, LocalsOK, FrameType

LEMMA ContinueFrames ==
  ASSUME TypeInv, NEW w \in Threads, NEW new \in Frames, Continue(w, new),
         mtime' = mtime, new.path # NoPath => new.mtime <= mtime[new.path]
  PROVE  /\ FramesTyped'
         /\ frame'[w] = new
         /\ \A v \in Threads \ {w} : frame'[v] = frame[v]
<1>1. frame \in [Threads -> Frames]
  BY DEF TypeInv, FramesTyped
<1>2. /\ frame' \in [Threads -> Frames]
      /\ frame'[w] = new
      /\ \A v \in Threads \ {w} : frame'[v] = frame[v]
  BY <1>1 DEF Continue
<1>3. \A v \in Threads : frame'[v].path # NoPath => frame'[v].mtime <= mtime'[frame'[v].path]
  BY <1>2 DEF TypeInv, FramesTyped
<1>4. QED
  BY <1>2, <1>3 DEF FramesTyped

\* The same file, for the same reason and with the same text.
Alike(f, g) == g.path = f.path /\ g.why = f.why /\ g.text = f.text /\ g.mtime = f.mtime

\* What comes after a removal.
After(f, g) ==
  \/ /\ g = Idle
     /\ \/ f.why = "edit" /\ IdIn(f.text) = NoId
        \/ f.why = "close" /\ disk[f.path] = Missing
        \/ f.why = "deleted"
  \/ /\ Alike(f, g) /\ g.names = {} /\ g.ends = {}
     /\ \/ f.why = "edit" /\ g.at = "enter"
        \/ f.why = "close" /\ g.at = Stage(f.path)
        \/ f.why = "changed" /\ g.at = "read" /\ f.path \in KgeFiles
        \/ f.why \in {"changed", "deleted"} /\ g.at = "evict"

LEMMA AfterRemovalFrame ==
  ASSUME NEW f \in FrameType, f.path \in Files, f.why = "edit" => f.path \in KgnFiles,
         f.why \in {"changed", "deleted", "edit", "close"}, f.names = {}, f.ends = {}
  PROVE  AfterRemoval(f) \in Frames /\ After(f, AfterRemoval(f))
<1>1. CASE f.why = "edit"
  BY <1>1, FilesApart, TextFacts, IdleFrame DEF AfterRemoval, After, Alike, Frames, FrameType, LocalsOK
<1>2. CASE f.why = "close"
  BY <1>2, FilesApart, IdleFrame DEF AfterRemoval, After, Alike, Frames, FrameType, LocalsOK, Stage
<1>3. CASE f.why \in {"changed", "deleted"} /\ f.path \in KgnFiles
  BY <1>3, FilesApart, IdleFrame DEF AfterRemoval, After, Alike, Frames, FrameType, LocalsOK
<1>4. CASE f.why = "changed" /\ f.path \in KgeFiles
  BY <1>4, FilesApart, IdleFrame DEF AfterRemoval, After, Alike, Frames, FrameType, LocalsOK
<1>5. CASE f.why = "deleted" /\ f.path \notin KgnFiles
  BY <1>5, IdleFrame DEF AfterRemoval, After
<1>6. QED
  BY <1>1, <1>2, <1>3, <1>4, <1>5, FilesApart

LEMMA UnlinkingFrame ==
  ASSUME NEW f \in FrameType, f.path \in Files, f.why = "edit" => f.path \in KgnFiles,
         f.why \in {"changed", "deleted", "edit", "close"},
         f.path \notin KgnFiles => f.names = {}, f.path \notin KgeFiles => f.ends = {}
  PROVE  /\ Unlinking(f) \in Frames
         /\ \/ /\ Alike(f, Unlinking(f)) /\ Unlinking(f).at = "unlink"
               /\ Unlinking(f).names = f.names /\ Unlinking(f).ends = f.ends
            \/ f.names = {} /\ f.ends = {} /\ Unlinking(f) = AfterRemoval(f) /\ After(f, Unlinking(f))
<1>1. CASE f.names = {} /\ f.ends = {}
  BY <1>1, AfterRemovalFrame DEF Unlinking
<1>2. CASE ~(f.names = {} /\ f.ends = {})
  BY <1>2, FilesApart DEF Unlinking, Alike, Frames, FrameType, LocalsOK
<1>3. QED
  BY <1>1, <1>2

LEMMA LinkingFrame ==
  ASSUME NEW f \in FrameType, f.path \in Files, f.why = "edit" => f.path \in KgnFiles,
         f.path \notin KgnFiles => f.names = {}, f.path \notin KgeFiles => f.ends = {}
  PROVE  /\ Linking(f) \in Frames
         /\ \/ /\ Alike(f, Linking(f)) /\ Linking(f).at = "link"
               /\ Linking(f).names = f.names /\ Linking(f).ends = f.ends
            \/ f.names = {} /\ f.ends = {} /\ Linking(f) = Idle
<1>1. CASE f.names = {} /\ f.ends = {}
  BY <1>1, IdleFrame DEF Linking
<1>2. CASE ~(f.names = {} /\ f.ends = {})
  BY <1>2, FilesApart DEF Linking, Alike, Frames, FrameType, LocalsOK
<1>3. QED
  BY <1>1, <1>2

\* The thread goes on unlinking, or linking, what is left, if anything is.
Unlinks(f, g, names, ends) ==
  \/ Alike(f, g) /\ g.at = "unlink" /\ g.names = names /\ g.ends = ends
  \/ names = {} /\ ends = {} /\ After(f, g)
Links(f, g, names, ends) ==
  \/ Alike(f, g) /\ g.at = "link" /\ g.names = names /\ g.ends = ends
  \/ names = {} /\ ends = {} /\ g = Idle

\* The thread takes up one of them.
TakesUp(f, g, at, key, names, ends) ==
  Alike(f, g) /\ g.at = at /\ g.key = key /\ g.names = names /\ g.ends = ends

LEMMA UnlinkingOn ==
  ASSUME NEW f, LocalsOK(f), f.at \in {"unlink", "del"}, f.path \in Files,
         NEW h \in FrameType, Alike(f, h), h.names \subseteq f.names, h.ends \subseteq f.ends
  PROVE  /\ Unlinking(h) \in Frames
         /\ Unlinking(h) = Idle \/ Alike(f, Unlinking(h))
         /\ Unlinks(f, Unlinking(h), h.names, h.ends)
<1>1. /\ h.path = f.path /\ h.why = f.why /\ h.text = f.text /\ h.mtime = f.mtime
  BY DEF Alike
<1>2. /\ h.path \in Files /\ (h.why = "edit" => h.path \in KgnFiles)
      /\ h.why \in {"changed", "deleted", "edit", "close"}
      /\ (h.path \notin KgnFiles => h.names = {}) /\ (h.path \notin KgeFiles => h.ends = {})
  BY <1>1 DEF LocalsOK
<1> DEFINE g == Unlinking(h)
<1>3. /\ g \in Frames
      /\ \/ /\ Alike(h, g) /\ g.at = "unlink" /\ g.names = h.names /\ g.ends = h.ends
         \/ h.names = {} /\ h.ends = {} /\ g = AfterRemoval(h) /\ After(h, g)
  BY <1>2, UnlinkingFrame
<1> HIDE DEF g
<1>4. (Alike(h, g) => Alike(f, g)) /\ (After(h, g) => After(f, g))
  BY <1>1 DEF Alike, After
<1>5. After(f, g) => g = Idle \/ Alike(f, g)
  BY DEF After
<1>6. QED
  BY <1>3, <1>4, <1>5 DEF g, Unlinks

LEMMA LinkingOn ==
  ASSUME NEW f, LocalsOK(f), f.at \in {"enter", "link", "file"}, f.path \in Files,
         NEW h \in FrameType, Alike(f, h),
         f.path \notin KgnFiles => h.names = {}, f.path \notin KgeFiles => h.ends = {}
  PROVE  /\ Linking(h) \in Frames
         /\ Linking(h) = Idle \/ Alike(f, Linking(h))
         /\ Links(f, Linking(h), h.names, h.ends)
<1>1. /\ h.path = f.path /\ h.why = f.why /\ h.text = f.text /\ h.mtime = f.mtime
  BY DEF Alike
<1>2. /\ h.path \in Files /\ (h.why = "edit" => h.path \in KgnFiles)
      /\ (h.path \notin KgnFiles => h.names = {}) /\ (h.path \notin KgeFiles => h.ends = {})
  BY <1>1 DEF LocalsOK
<1> DEFINE g == Linking(h)
<1>3. /\ g \in Frames
      /\ \/ /\ Alike(h, g) /\ g.at = "link" /\ g.names = h.names /\ g.ends = h.ends
         \/ h.names = {} /\ h.ends = {} /\ g = Idle
  BY <1>2, LinkingFrame
<1> HIDE DEF g
<1>4. Alike(h, g) => Alike(f, g)
  BY <1>1 DEF Alike
<1>5. QED
  BY <1>3, <1>4 DEF g, Links

-----------------------------------------------------------------------------
(***************************************************************************)
(* The steps, and the types.                                               *)
(***************************************************************************)
\* What removing and linking leave alone.
Still == UNCHANGED <<env, notice, meta, edgeIndex, cache, scanVars, history>>

LEMMA StillFacts ==
  ASSUME Still
  PROVE  /\ disk' = disk /\ mtime' = mtime /\ buffer' = buffer /\ moves' = moves /\ notice' = notice
         /\ meta' = meta /\ edgeIndex' = edgeIndex /\ cache' = cache /\ scan' = scan /\ todo' = todo
         /\ suspect' = suspect /\ overlaid' = overlaid
BY DEF Still, env, scanVars, history

\* Names and ends go one by one.
LEMMA NextSubset == /\ \A names : NextNames(names) \subseteq names
                    /\ \A ends : NextEnds(ends) \subseteq ends
BY DEF NextNames, NextEnds

LEMMA UnlinkNameStep ==
  ASSUME TypeInv, UnlinkName, NEW f, f = frame["loop"]
  PROVE  /\ Still /\ UNCHANGED <<nameMaps, edgeMaps>> /\ f.at = "unlink" /\ f.path \in KgnFiles
         /\ frame'["scan"] = frame["scan"] /\ FramesTyped'
         /\ \E x \in f.names :
              \/ /\ pathOf[x] = f.path
                 /\ TakesUp(f, frame'["loop"], "del", x, f.names \ {x}, f.ends)
              \/ /\ pathOf[x] # f.path
                 /\ Unlinks(f, frame'["loop"], f.names \ {x}, f.ends)
<1>1. /\ f \in FrameType /\ LocalsOK(f) /\ f.at = "unlink" /\ f.path \in Files /\ "loop" \in Threads
      /\ Threads \ {"loop"} = {"scan"}
  BY FrameFacts DEF UnlinkName, Threads
<1>2. Still /\ UNCHANGED <<nameMaps, edgeMaps>> /\ mtime' = mtime
  BY DEF UnlinkName, Still, index, env
<1>3. PICK x \in NextNames(f.names) :
        Continue("loop", IF pathOf[x] = f.path THEN [f EXCEPT !.names = @ \ {x}, !.at = "del", !.key = x]
                                               ELSE Unlinking([f EXCEPT !.names = @ \ {x}]))
  BY DEF UnlinkName
<1>4. x \in f.names /\ f.path \in KgnFiles /\ x \in Names
  BY <1>1, NextSubset DEF LocalsOK, FrameType
<1>5. f.mtime <= mtime[f.path]
  BY <1>1, FilesApart DEF TypeInv, FramesTyped
<1>6. CASE pathOf[x] = f.path
  <2> DEFINE g == [f EXCEPT !.names = @ \ {x}, !.at = "del", !.key = x]
  <2>1. g \in Frames /\ TakesUp(f, g, "del", x, f.names \ {x}, f.ends) /\ g.mtime = f.mtime /\ g.path = f.path
    BY <1>1, <1>4, FilesApart DEF Frames, FrameType, LocalsOK, TakesUp, Alike
  <2>2. Continue("loop", g)
    BY <1>3, <1>6
  <2>3. FramesTyped' /\ frame'["loop"] = g /\ frame'["scan"] = frame["scan"]
    BY <1>1, <1>2, <1>5, <2>1, <2>2, ContinueFrames
  <2> HIDE DEF g
  <2>4. TakesUp(f, frame'["loop"], "del", x, f.names \ {x}, f.ends)
    BY <2>1, <2>3
  <2>5. QED
    BY <1>1, <1>2, <1>4, <1>6, <2>3, <2>4
<1>7. CASE pathOf[x] # f.path
  <2> DEFINE h == [f EXCEPT !.names = @ \ {x}]
  <2>1. h \in FrameType /\ Alike(f, h) /\ h.ends = f.ends /\ h.names = f.names \ {x}
    BY <1>1, <1>4 DEF FrameType, Alike
  <2>2. /\ Unlinking(h) \in Frames /\ (Unlinking(h) = Idle \/ Alike(f, Unlinking(h)))
        /\ Unlinks(f, Unlinking(h), h.names, h.ends)
    BY <1>1, <1>4, <2>1, UnlinkingOn
  <2>3. Continue("loop", Unlinking(h))
    BY <1>3, <1>7
  <2>4. FramesTyped' /\ frame'["loop"] = Unlinking(h) /\ frame'["scan"] = frame["scan"]
    BY <1>1, <1>2, <1>5, <2>2, <2>3, ContinueFrames, IdleFrame DEF Alike
  <2> HIDE DEF h
  <2>5. Unlinks(f, frame'["loop"], f.names \ {x}, f.ends)
    BY <2>1, <2>2, <2>4
  <2>6. QED
    BY <1>1, <1>2, <1>4, <1>7, <2>4, <2>5
<1>8. QED
  BY <1>6, <1>7

LEMMA DelNameStep ==
  ASSUME TypeInv, DelName, NEW f, f = frame["loop"]
  PROVE  /\ Still /\ UNCHANGED <<contested, edgeMaps>> /\ f.at = "del" /\ f.path \in KgnFiles
         /\ frame'["scan"] = frame["scan"] /\ FramesTyped'
         /\ pathOf' = [pathOf EXCEPT ![f.key] = NoPath]
         /\ Unlinks(f, frame'["loop"], f.names, f.ends)
<1>1. /\ f \in FrameType /\ LocalsOK(f) /\ f.at = "del" /\ f.path \in Files /\ "loop" \in Threads
      /\ Threads \ {"loop"} = {"scan"}
  BY FrameFacts DEF DelName, Threads
<1>2. Still /\ UNCHANGED <<contested, edgeMaps>> /\ mtime' = mtime /\ f.path \in KgnFiles
  BY DEF DelName, Still, env
<1>3. f.mtime <= mtime[f.path]
  BY <1>1, FilesApart DEF TypeInv, FramesTyped
<1> DEFINE h == [f EXCEPT !.key = NoId]
<1>4. h \in FrameType /\ Alike(f, h) /\ h.names = f.names /\ h.ends = f.ends
  BY <1>1 DEF FrameType, Alike
<1>5. /\ Unlinking(h) \in Frames /\ (Unlinking(h) = Idle \/ Alike(f, Unlinking(h)))
      /\ Unlinks(f, Unlinking(h), h.names, h.ends)
  BY <1>1, <1>4, UnlinkingOn
<1>6. Continue("loop", Unlinking(h)) /\ pathOf' = [pathOf EXCEPT ![f.key] = NoPath]
  BY DEF DelName
<1>7. FramesTyped' /\ frame'["loop"] = Unlinking(h) /\ frame'["scan"] = frame["scan"]
  BY <1>1, <1>2, <1>3, <1>5, <1>6, ContinueFrames, IdleFrame DEF Alike
<1>8. QED
  BY <1>1, <1>2, <1>4, <1>5, <1>6, <1>7

LEMMA UnlinkEndStep ==
  ASSUME TypeInv, UnlinkEnd, NEW f, f = frame["loop"]
  PROVE  /\ Still /\ UNCHANGED <<nameMaps, lost>> /\ f.at = "unlink" /\ f.path \in KgeFiles
         /\ frame'["scan"] = frame["scan"] /\ FramesTyped'
         /\ \E x \in f.ends :
              /\ NodeAt(x) \in Ids
              /\ reverseRefs' = [reverseRefs EXCEPT ![NodeAt(x)] = @ \ {f.path}]
              /\ \/ TakesUp(f, frame'["loop"], "del", NodeAt(x), f.names, f.ends \ {x})
                 \/ Unlinks(f, frame'["loop"], f.names, f.ends \ {x})
<1>1. /\ f \in FrameType /\ LocalsOK(f) /\ f.at = "unlink" /\ f.path \in Files /\ "loop" \in Threads
      /\ Threads \ {"loop"} = {"scan"}
  BY FrameFacts DEF UnlinkEnd, Threads
<1>2. Still /\ UNCHANGED <<nameMaps, lost>> /\ mtime' = mtime
  BY DEF UnlinkEnd, Still, env
<1>3. PICK x \in NextEnds(f.ends) :
        /\ reverseRefs' = [reverseRefs EXCEPT ![NodeAt(x)] = @ \ {f.path}]
        /\ \/ Continue("loop", [f EXCEPT !.ends = @ \ {x}, !.at = "del", !.key = NodeAt(x)])
           \/ Continue("loop", Unlinking([f EXCEPT !.ends = @ \ {x}]))
  BY DEF UnlinkEnd
<1>4. x \in f.ends /\ f.path \in KgeFiles /\ x \in AnyEnd /\ NodeAt(x) \in Ids
  BY <1>1, NextSubset DEF LocalsOK, FrameType, AnyEnd, NodeAt
<1>5. f.mtime <= mtime[f.path]
  BY <1>1, FilesApart DEF TypeInv, FramesTyped
<1>6. CASE Continue("loop", [f EXCEPT !.ends = @ \ {x}, !.at = "del", !.key = NodeAt(x)])
  <2> DEFINE g == [f EXCEPT !.ends = @ \ {x}, !.at = "del", !.key = NodeAt(x)]
  <2>1. g \in Frames /\ TakesUp(f, g, "del", NodeAt(x), f.names, f.ends \ {x}) /\ g.mtime = f.mtime /\ g.path = f.path
    <3>1. g \in FrameType /\ TakesUp(f, g, "del", NodeAt(x), f.names, f.ends \ {x})
      BY <1>1, <1>4, FilesApart DEF FrameType, TakesUp, Alike
    <3>2. LocalsOK(g)
      BY <1>1, <1>4, FilesApart DEF FrameType, LocalsOK
    <3>3. QED
      BY <3>1, <3>2 DEF Frames, TakesUp, Alike
  <2>2. FramesTyped' /\ frame'["loop"] = g /\ frame'["scan"] = frame["scan"]
    BY <1>1, <1>2, <1>5, <1>6, <2>1, ContinueFrames
  <2> HIDE DEF g
  <2>3. TakesUp(f, frame'["loop"], "del", NodeAt(x), f.names, f.ends \ {x})
    BY <2>1, <2>2
  <2>4. QED
    BY <1>1, <1>2, <1>3, <1>4, <2>2, <2>3
<1>7. CASE Continue("loop", Unlinking([f EXCEPT !.ends = @ \ {x}]))
  <2> DEFINE h == [f EXCEPT !.ends = @ \ {x}]
  <2>1. h \in FrameType /\ Alike(f, h) /\ h.names = f.names /\ h.ends = f.ends \ {x}
    BY <1>1, <1>4 DEF FrameType, Alike
  <2>2. /\ Unlinking(h) \in Frames /\ (Unlinking(h) = Idle \/ Alike(f, Unlinking(h)))
        /\ Unlinks(f, Unlinking(h), h.names, h.ends)
    BY <1>1, <1>4, <2>1, UnlinkingOn
  <2>3. FramesTyped' /\ frame'["loop"] = Unlinking(h) /\ frame'["scan"] = frame["scan"]
    BY <1>1, <1>2, <1>5, <1>7, <2>2, ContinueFrames, IdleFrame DEF Alike
  <2>4. QED
    BY <1>1, <1>2, <1>3, <1>4, <2>1, <2>2, <2>3
<1>8. QED
  BY <1>3, <1>6, <1>7

LEMMA DelSetStep ==
  ASSUME TypeInv, DelSet, NEW f, f = frame["loop"]
  PROVE  /\ Still /\ UNCHANGED nameMaps /\ f.at = "del" /\ f.path \in KgeFiles
         /\ reverseRefs' = [reverseRefs EXCEPT ![f.key] = {}]
         /\ lost' = lost \cup ((reverseRefs[f.key] \cup HeldFor(f.key)) \X {f.key})
         /\ Unlinks(f, frame'["loop"], f.names, f.ends)
         /\ frame'["scan"] = IF HeldByScan(f.key) THEN [frame["scan"] EXCEPT !.key = NoId] ELSE frame["scan"]
         /\ FramesTyped'
<1>1. /\ f \in FrameType /\ LocalsOK(f) /\ f.at = "del" /\ f.path \in Files
      /\ frame["scan"] \in FrameType /\ LocalsOK(frame["scan"])
  BY FrameFacts DEF DelSet, Threads
<1>2. Still /\ UNCHANGED nameMaps /\ mtime' = mtime /\ f.path \in KgeFiles
  BY DEF DelSet, Still, env
<1>3. f.mtime <= mtime[f.path]
  BY <1>1, FilesApart DEF TypeInv, FramesTyped, Threads
<1> DEFINE h == [f EXCEPT !.key = NoId]
           s == IF HeldByScan(f.key) THEN [frame["scan"] EXCEPT !.key = NoId] ELSE frame["scan"]
<1>4. h \in FrameType /\ Alike(f, h) /\ h.names = f.names /\ h.ends = f.ends
  BY <1>1 DEF FrameType, Alike
<1>5. /\ Unlinking(h) \in Frames /\ (Unlinking(h) = Idle \/ Alike(f, Unlinking(h)))
      /\ Unlinks(f, Unlinking(h), h.names, h.ends)
  BY <1>1, <1>4, UnlinkingOn
<1>6. s \in Frames /\ s.path = frame["scan"].path /\ s.mtime = frame["scan"].mtime
  <2>1. CASE HeldByScan(f.key)
    <3>1. s = [frame["scan"] EXCEPT !.key = NoId]
      BY <2>1
    <3>2. s \in FrameType /\ s.path = frame["scan"].path /\ s.mtime = frame["scan"].mtime
      BY <1>1, <3>1 DEF FrameType
    <3>3. LocalsOK(s)
      BY <1>1, <2>1, <3>1 DEF FrameType, LocalsOK, HeldByScan
    <3>4. QED
      BY <3>2, <3>3 DEF Frames
  <2>2. CASE ~HeldByScan(f.key)
    BY <1>1, <2>2 DEF Frames
  <2>3. QED
    BY <2>1, <2>2
<1>7. frame'["loop"] = Unlinking(h) /\ frame'["scan"] = s /\ frame' \in [Threads -> Frames]
  BY <1>5, <1>6 DEF DelSet, Threads
<1>8. FramesTyped'
  BY <1>2, <1>3, <1>5, <1>6, <1>7, IdleFrame DEF FramesTyped, TypeInv, Threads, Alike
<1>9. QED
  BY <1>1, <1>2, <1>4, <1>5, <1>7, <1>8 DEF DelSet

LEMMA OthersStay == ASSUME NEW w \in Threads PROVE \A v \in Threads \ {w} : v # w
OBVIOUS

LEMMA LinkNameStep ==
  ASSUME TypeInv, NEW w \in Threads, LinkName(w), NEW f, f = frame[w]
  PROVE  /\ Still /\ UNCHANGED edgeMaps /\ f.at = "link" /\ f.path \in KgnFiles
         /\ \A v \in Threads \ {w} : frame'[v] = frame[v]
         /\ FramesTyped'
         /\ \E x \in f.names :
              /\ pathOf' = [pathOf EXCEPT ![x] = f.path]
              /\ contested' = IF pathOf[x] \in {NoPath, f.path} THEN contested ELSE contested \cup {x}
              /\ Links(f, frame'[w], f.names \ {x}, f.ends)
<1>1. f \in FrameType /\ LocalsOK(f) /\ f.at = "link" /\ f.path \in Files
  BY FrameFacts DEF LinkName
<1>2. Still /\ UNCHANGED edgeMaps /\ mtime' = mtime
  BY DEF LinkName, Still, env
<1>3. PICK x \in NextNames(f.names) :
        /\ pathOf' = [pathOf EXCEPT ![x] = f.path]
        /\ contested' = IF pathOf[x] \in {NoPath, f.path} THEN contested ELSE contested \cup {x}
        /\ Continue(w, Linking([f EXCEPT !.names = @ \ {x}]))
  BY DEF LinkName
<1>4. x \in f.names /\ f.path \in KgnFiles
  BY <1>1, NextSubset DEF LocalsOK
<1>5. f.mtime <= mtime[f.path]
  BY <1>1, FilesApart DEF TypeInv, FramesTyped
<1> DEFINE h == [f EXCEPT !.names = @ \ {x}]
<1>6. h \in FrameType /\ Alike(f, h) /\ h.names = f.names \ {x} /\ h.ends = f.ends
  BY <1>1 DEF FrameType, Alike
<1>7. f.path \notin KgnFiles => h.names = {}
  BY <1>4
<1>8. f.path \notin KgeFiles => h.ends = {}
  BY <1>1, <1>6 DEF LocalsOK
<1>9. /\ Linking(h) \in Frames /\ (Linking(h) = Idle \/ Alike(f, Linking(h)))
      /\ Links(f, Linking(h), h.names, h.ends)
  BY <1>1, <1>6, <1>7, <1>8, LinkingOn
<1>10. FramesTyped' /\ frame'[w] = Linking(h) /\ \A v \in Threads \ {w} : frame'[v] = frame[v]
  BY <1>2, <1>3, <1>5, <1>9, ContinueFrames, IdleFrame DEF Alike
<1>11. QED
  BY <1>1, <1>2, <1>3, <1>4, <1>6, <1>9, <1>10

LEMMA LinkEndStep ==
  ASSUME TypeInv, NEW w \in Threads, LinkEnd(w), NEW f, f = frame[w]
  PROVE  /\ Still /\ UNCHANGED <<nameMaps, edgeMaps>> /\ f.at = "link" /\ f.path \in KgeFiles
         /\ \A v \in Threads \ {w} : frame'[v] = frame[v]
         /\ FramesTyped'
         /\ \E x \in f.ends : NodeAt(x) \in Ids /\ TakesUp(f, frame'[w], "file", NodeAt(x), f.names, f.ends \ {x})
<1>1. f \in FrameType /\ LocalsOK(f) /\ f.at = "link" /\ f.path \in Files
  BY FrameFacts DEF LinkEnd
<1>2. Still /\ UNCHANGED <<nameMaps, edgeMaps>> /\ mtime' = mtime
  BY DEF LinkEnd, Still, env, index
<1>3. PICK x \in NextEnds(f.ends) : Continue(w, [f EXCEPT !.at = "file", !.key = NodeAt(x), !.ends = @ \ {x}])
  BY DEF LinkEnd
<1>4. x \in f.ends /\ f.path \in KgeFiles /\ NodeAt(x) \in Ids
  BY <1>1, NextSubset DEF LocalsOK, FrameType, AnyEnd, NodeAt
<1>5. f.mtime <= mtime[f.path]
  BY <1>1, FilesApart DEF TypeInv, FramesTyped
<1> DEFINE g == [f EXCEPT !.at = "file", !.key = NodeAt(x), !.ends = @ \ {x}]
<1>6. /\ g \in Frames /\ g.mtime = f.mtime /\ g.path = f.path
      /\ TakesUp(f, g, "file", NodeAt(x), f.names, f.ends \ {x})
  BY <1>1, <1>4, FilesApart DEF Frames, FrameType, LocalsOK, TakesUp, Alike
<1>7. FramesTyped' /\ frame'[w] = g /\ \A v \in Threads \ {w} : frame'[v] = frame[v]
  BY <1>2, <1>3, <1>5, <1>6, ContinueFrames
<1>8. QED
  BY <1>1, <1>2, <1>4, <1>6, <1>7

LEMMA FileStep ==
  ASSUME TypeInv, NEW w \in Threads, File(w), NEW f, f = frame[w]
  PROVE  /\ Still /\ UNCHANGED nameMaps /\ f.at = "file" /\ f.path \in KgeFiles
         /\ \A v \in Threads \ {w} : frame'[v] = frame[v]
         /\ FramesTyped'
         /\ \/ f.key = NoId /\ UNCHANGED edgeMaps
            \/ /\ f.key \in Ids
               /\ reverseRefs' = [reverseRefs EXCEPT ![f.key] = @ \cup {f.path}]
               /\ lost' = lost \ {<<f.path, f.key>>}
         /\ Links(f, frame'[w], f.names, f.ends)
<1>1. f \in FrameType /\ LocalsOK(f) /\ f.at = "file" /\ f.path \in Files /\ f.path \in KgeFiles
  BY FrameFacts DEF File, LocalsOK
<1>2. Still /\ UNCHANGED nameMaps /\ mtime' = mtime
  BY DEF File, Still, env
<1>3. f.mtime <= mtime[f.path]
  BY <1>1, FilesApart DEF TypeInv, FramesTyped
<1> DEFINE h == [f EXCEPT !.key = NoId]
<1>4. h \in FrameType /\ Alike(f, h) /\ h.names = f.names /\ h.ends = f.ends
  BY <1>1 DEF FrameType, Alike
<1>5. f.path \notin KgnFiles => h.names = {}
  BY <1>1, <1>4 DEF LocalsOK
<1>6. /\ Linking(h) \in Frames /\ (Linking(h) = Idle \/ Alike(f, Linking(h)))
      /\ Links(f, Linking(h), h.names, h.ends)
  BY <1>1, <1>4, <1>5, LinkingOn
<1>7. Continue(w, Linking(h))
  BY DEF File
<1>8. FramesTyped' /\ frame'[w] = Linking(h) /\ \A v \in Threads \ {w} : frame'[v] = frame[v]
  BY <1>2, <1>3, <1>6, <1>7, ContinueFrames, IdleFrame DEF Alike
<1>9. f.key \in Ids \cup {NoId}
  BY <1>1 DEF LocalsOK
<1>10. QED
  BY <1>1, <1>2, <1>4, <1>6, <1>8, <1>9 DEF File

LEMMA EnterStep ==
  ASSUME TypeInv, NEW w \in Threads, Enter(w), NEW f, f = frame[w], NEW p, p = f.path
  PROVE  /\ UNCHANGED <<env, notice, nameMaps, edgeMaps, cache, scanVars>>
         /\ f.at = "enter" /\ p \in Files /\ f.names = {} /\ f.ends = {}
         /\ \A v \in Threads \ {w} : frame'[v] = frame[v]
         /\ FramesTyped' /\ IndexTyped'
         /\ suspect' = IF Indexed(p) THEN suspect \cup {p} ELSE suspect
         /\ \/ /\ p \in KgnFiles /\ IdIn(f.text) = NoId /\ frame'[w] = Idle
               /\ meta' = meta /\ edgeIndex' = edgeIndex /\ overlaid' = overlaid
            \/ /\ p \in KgnFiles /\ IdIn(f.text) \in Ids
               /\ meta' = [meta EXCEPT ![p] = IdIn(f.text)] /\ edgeIndex' = edgeIndex
               /\ overlaid' = IF Indexed(p) THEN overlaid \cup {p} ELSE overlaid
               /\ Alike(f, frame'[w]) /\ frame'[w].at = "link" /\ frame'[w].ends = {}
               /\ frame'[w].names = {Slug[p], IdIn(f.text)}
            \/ /\ p \in KgeFiles /\ f.text \in EdgeTexts
               /\ edgeIndex' = [edgeIndex EXCEPT ![p] = EdgesIn[f.text]] /\ meta' = meta
               /\ overlaid' = IF Indexed(p) THEN overlaid \cup {p} ELSE overlaid
               /\ Links(f, frame'[w], {}, Ends(EdgesIn[f.text]))
<1>1. /\ f \in FrameType /\ LocalsOK(f) /\ f.at = "enter" /\ p \in Files /\ f.names = {} /\ f.ends = {}
      /\ f.mtime <= mtime[p] /\ f.text \in IF p \in KgnFiles THEN Ids \cup {Garbled} ELSE EdgeTexts
  BY FrameFacts, FilesApart DEF Enter, LocalsOK, TypeInv, FramesTyped
<1>2. /\ UNCHANGED <<env, notice, nameMaps, edgeMaps, cache, scanVars>> /\ mtime' = mtime
      /\ suspect' = IF Indexed(p) THEN suspect \cup {p} ELSE suspect
      /\ pathOf' = pathOf /\ contested' = contested /\ reverseRefs' = reverseRefs /\ lost' = lost
  BY DEF Enter, env, nameMaps, edgeMaps
<1>3. CASE p \in KgnFiles /\ IdIn(f.text) = NoId /\ Done(w) /\ UNCHANGED <<meta, edgeIndex, overlaid>>
  <2>1. FramesTyped' /\ frame'[w] = Idle /\ \A v \in Threads \ {w} : frame'[v] = frame[v]
    BY <1>2, <1>3, ContinueFrames, IdleFrame DEF Done
  <2>2. IndexTyped'
    BY <1>2, <1>3 DEF TypeInv, IndexTyped
  <2>3. QED
    BY <1>1, <1>2, <1>3, <2>1, <2>2
<1>4. CASE /\ p \in KgnFiles /\ IdIn(f.text) # NoId
           /\ meta' = [meta EXCEPT ![p] = IdIn(f.text)]
           /\ overlaid' = IF Indexed(p) THEN overlaid \cup {p} ELSE overlaid
           /\ Continue(w, Linking([f EXCEPT !.names = {Slug[p], IdIn(f.text)}]))
           /\ UNCHANGED edgeIndex
  <2> DEFINE h == [f EXCEPT !.names = {Slug[p], IdIn(f.text)}]
  <2>1. IdIn(f.text) \in Ids /\ Slug[p] \in Slugs
    BY <1>4, TextFacts, FilesApart
  <2>2. h \in FrameType /\ Alike(f, h) /\ h.names = {Slug[p], IdIn(f.text)} /\ h.ends = {}
    BY <1>1, <2>1, FilesApart DEF FrameType, Alike
  <2>3. f.path \notin KgnFiles => h.names = {}
    BY <1>4
  <2>4. /\ Linking(h) \in Frames /\ Alike(f, Linking(h)) /\ Links(f, Linking(h), h.names, h.ends)
        /\ Linking(h).at = "link" /\ Linking(h).names = h.names /\ Linking(h).ends = {}
    BY <1>1, <2>2, <2>3, LinkingOn DEF Links
  <2>5. FramesTyped' /\ frame'[w] = Linking(h) /\ \A v \in Threads \ {w} : frame'[v] = frame[v]
    BY <1>1, <1>2, <1>4, <2>4, ContinueFrames DEF Alike
  <2>6. IndexTyped'
    BY <1>2, <1>4, <2>1 DEF TypeInv, IndexTyped
  <2>7. QED
    BY <1>1, <1>2, <1>4, <2>1, <2>2, <2>4, <2>5, <2>6
<1>5. CASE /\ p \in KgeFiles
           /\ edgeIndex' = [edgeIndex EXCEPT ![p] = EdgesIn[f.text]]
           /\ overlaid' = IF Indexed(p) THEN overlaid \cup {p} ELSE overlaid
           /\ Continue(w, Linking([f EXCEPT !.ends = Ends(EdgesIn[f.text])]))
           /\ UNCHANGED meta
  <2> DEFINE h == [f EXCEPT !.ends = Ends(EdgesIn[f.text])]
  <2>1. f.text \in EdgeTexts /\ EdgesIn[f.text] \in SUBSET (Ids \X Ids)
    BY <1>1, <1>5, TextFacts, FilesApart
  <2>2. h \in FrameType /\ Alike(f, h) /\ h.names = {} /\ h.ends = Ends(EdgesIn[f.text])
    BY <1>1, <2>1 DEF FrameType, Alike, Ends, AnyEnd
  <2>3. f.path \notin KgeFiles => h.ends = {}
    BY <1>5
  <2>4. /\ Linking(h) \in Frames /\ (Linking(h) = Idle \/ Alike(f, Linking(h)))
        /\ Links(f, Linking(h), h.names, h.ends)
    BY <1>1, <2>2, <2>3, LinkingOn
  <2>5. FramesTyped' /\ frame'[w] = Linking(h) /\ \A v \in Threads \ {w} : frame'[v] = frame[v]
    BY <1>1, <1>2, <1>5, <2>4, ContinueFrames, IdleFrame DEF Alike
  <2>6. IndexTyped'
    BY <1>2, <1>5, <2>1 DEF TypeInv, IndexTyped
  <2>7. QED
    BY <1>1, <1>2, <1>5, <2>1, <2>2, <2>4, <2>5, <2>6
<1>6. QED
  BY <1>3, <1>4, <1>5 DEF Enter

\* The thread goes on with the same file, and nothing is left to unlink or link.
GoesOn(f, g, at) == g.path = f.path /\ g.why = f.why /\ g.at = at /\ g.names = {} /\ g.ends = {}

LEMMA StatStep ==
  ASSUME TypeInv, NEW w \in Threads, Stat(w), NEW f, f = frame[w], NEW p, p = f.path
  PROVE  /\ UNCHANGED <<env, notice, index, cache, scanVars, history>>
         /\ f.at = "stat" /\ p \in KgnFiles /\ p \in Files /\ f.names = {} /\ f.ends = {} /\ f.why # "edit"
         /\ \A v \in Threads \ {w} : frame'[v] = frame[v]
         /\ FramesTyped'
         /\ \/ disk[p] = Missing /\ frame'[w] = Idle
            \/ GoesOn(f, frame'[w], "read") /\ frame'[w].mtime = mtime[p]
            \/ \E c \in cache : /\ c.path = p /\ c.mtime = mtime[p]
                                /\ GoesOn(f, frame'[w], "enter") /\ frame'[w].text = c.text
<1>1. /\ f \in FrameType /\ LocalsOK(f) /\ f.at = "stat" /\ p \in KgnFiles /\ p \in Files
      /\ f.names = {} /\ f.ends = {} /\ f.mtime <= mtime[p] /\ mtime[p] \in Nat /\ f.why # "edit"
  BY FrameFacts, FilesApart DEF Stat, LocalsOK, TypeInv, FramesTyped, WorldTyped
<1>2. UNCHANGED <<env, notice, index, cache, scanVars, history>> /\ mtime' = mtime
  BY DEF Stat, env
<1>3. CASE disk[p] = Missing /\ Done(w)
  BY <1>1, <1>2, <1>3, ContinueFrames, IdleFrame DEF Done
<1>4. CASE Continue(w, [f EXCEPT !.at = "read", !.mtime = mtime[p]])
  <2> DEFINE g == [f EXCEPT !.at = "read", !.mtime = mtime[p]]
  <2>1. g \in Frames /\ GoesOn(f, g, "read") /\ g.mtime = mtime[p] /\ g.path = p
    BY <1>1, FilesApart DEF Frames, FrameType, LocalsOK, GoesOn
  <2>2. g.mtime <= mtime[g.path]
    <3> HIDE DEF g
    <3>1. QED
      BY <1>1, <2>1
  <2>3. FramesTyped' /\ frame'[w] = g /\ \A v \in Threads \ {w} : frame'[v] = frame[v]
    BY <1>2, <1>4, <2>1, <2>2, ContinueFrames
  <2>4. QED
    BY <1>1, <1>2, <2>1, <2>3
<1>5. ASSUME NEW c \in cache, c.path = p, c.mtime = mtime[p], Continue(w, [f EXCEPT !.at = "enter", !.text = c.text])
      PROVE  /\ \A v \in Threads \ {w} : frame'[v] = frame[v]
             /\ FramesTyped'
             /\ GoesOn(f, frame'[w], "enter") /\ frame'[w].text = c.text
  <2> DEFINE g == [f EXCEPT !.at = "enter", !.text = c.text]
  <2>1. c.text \in Ids \cup {Garbled} /\ c.text \in AnyText
    BY DEF TypeInv, CacheTyped, CacheType, AnyText
  <2>2. g \in Frames /\ GoesOn(f, g, "enter") /\ g.text = c.text /\ g.mtime = f.mtime /\ g.path = p
    BY <1>1, <2>1, FilesApart DEF Frames, FrameType, LocalsOK, GoesOn
  <2>3. FramesTyped' /\ frame'[w] = g /\ \A v \in Threads \ {w} : frame'[v] = frame[v]
    BY <1>1, <1>2, <1>5, <2>2, ContinueFrames
  <2>4. QED
    BY <2>2, <2>3
<1>6. \/ disk[p] = Missing /\ Done(w)
      \/ Continue(w, [f EXCEPT !.at = "read", !.mtime = mtime[p]])
      \/ \E c \in cache : /\ c.path = p /\ c.mtime = mtime[p]
                          /\ Continue(w, [f EXCEPT !.at = "enter", !.text = c.text])
  BY DEF Stat
<1>7. QED
  BY <1>1, <1>2, <1>3, <1>4, <1>5, <1>6

LEMMA RaiseStep ==
  ASSUME TypeInv, NEW w \in Threads, NEW p, p = frame[w].path, p \in Files, Raise(w), disk' = disk, mtime' = mtime
  PROVE  /\ frame'[w] = Idle
         /\ \A v \in Threads \ {w} : frame'[v] = frame[v]
         /\ FramesTyped' /\ NoticeTyped' /\ ScanTyped' /\ HistoryTyped'
         /\ overlaid' = overlaid /\ suspect \subseteq suspect' /\ p \in suspect'
         /\ \A q \in Files : notice'[q] = notice[q] \/ (notice'[q] = "none" /\ q \in suspect')
<1>1. FramesTyped' /\ frame'[w] = Idle /\ \A v \in Threads \ {w} : frame'[v] = frame[v]
  BY ContinueFrames, IdleFrame DEF Raise, Done
<1>2. /\ suspect \subseteq Files /\ overlaid \subseteq Files /\ todo \subseteq Files /\ overlaid' = overlaid
      /\ notice \in [Files -> {"none", "created", "changed", "deleted"}]
  BY DEF TypeInv, HistoryTyped, ScanTyped, NoticeTyped, Raise
<1>3. /\ suspect \cup {p} \subseteq suspect' /\ suspect' \subseteq Files
      /\ notice' \in [Files -> {"none", "created", "changed", "deleted"}]
      /\ \A q \in Files : notice'[q] = notice[q] \/ (notice'[q] = "none" /\ q \in suspect')
      /\ scan' \in {"off", "running", "done", "failed"} /\ todo' \subseteq Files
      /\ w # "scan" => scan' = scan /\ todo' = todo
      /\ w = "scan" => todo' = {}
  <2>1. CASE w = "scan"
    BY <1>2, <2>1 DEF Raise
  <2>2. CASE w # "scan"
    <3>1. PICK dropped \in SUBSET Files : /\ notice' = [q \in Files |-> IF q \in dropped THEN "none" ELSE notice[q]]
                                          /\ suspect' = suspect \cup dropped \cup {p}
                                          /\ UNCHANGED scanVars
      BY <2>2 DEF Raise
    <3>2. scan' = scan /\ todo' = todo
      BY <3>1 DEF scanVars
    <3>3. QED
      BY <1>2, <2>2, <3>1, <3>2 DEF TypeInv, ScanTyped
  <2>3. QED
    BY <2>1, <2>2
<1>4. ScanTyped'
  BY <1>1, <1>3, IdleFrame DEF TypeInv, ScanTyped, Threads
<1>5. NoticeTyped'
  BY <1>3 DEF TypeInv, NoticeTyped
<1>6. QED
  BY <1>1, <1>2, <1>3, <1>4, <1>5 DEF HistoryTyped

LEMMA ReadStep ==
  ASSUME TypeInv, NEW w \in Threads, Read(w), NEW f, f = frame[w], NEW p, p = f.path
  PROVE  /\ UNCHANGED <<env, index, cache>>
         /\ f.at = "read" /\ p \in Files /\ f.names = {} /\ f.ends = {} /\ f.why # "edit"
         /\ \A v \in Threads \ {w} : frame'[v] = frame[v]
         /\ FramesTyped'
         /\ \/ /\ UNCHANGED <<notice, scanVars, history>>
               /\ \/ /\ GoesOn(f, frame'[w], IF p \in KgnFiles THEN "put" ELSE "enter")
                     /\ frame'[w].mtime = f.mtime /\ frame'[w].text = disk[p]
                  \/ /\ p \in KgeFiles /\ disk[p] \notin EdgeTexts /\ frame'[w] = Idle
            \/ Raise(w)
<1>1. /\ f \in FrameType /\ LocalsOK(f) /\ f.at = "read" /\ p \in Files
      /\ f.names = {} /\ f.ends = {} /\ f.mtime <= mtime[p] /\ f.why # "edit"
  BY FrameFacts, FilesApart DEF Read, LocalsOK, TypeInv, FramesTyped
<1>2. UNCHANGED <<env, index, cache>> /\ mtime' = mtime /\ disk' = disk
  BY DEF Read, env
<1>3. CASE /\ disk[p] \notin IF p \in KgnFiles THEN {Missing, Undecodable} ELSE {Missing, Undecodable, Garbled}
           /\ Continue(w, [f EXCEPT !.at = IF p \in KgnFiles THEN "put" ELSE "enter", !.text = disk[p]])
           /\ UNCHANGED <<notice, scanVars, history>>
  <2> DEFINE g == [f EXCEPT !.at = IF p \in KgnFiles THEN "put" ELSE "enter", !.text = disk[p]]
  <2>1. disk[p] \in (IF p \in KgnFiles THEN Ids \cup {Garbled} ELSE EdgeTexts) /\ disk[p] \in AnyText
    <3>1. disk[p] \in Texts(p) \cup {Missing} /\ disk[p] \in AnyText
      BY <1>1 DEF TypeInv, WorldTyped
    <3>2. CASE p \in KgnFiles
      BY <1>3, <3>1, <3>2, TextFacts
    <3>3. CASE p \in KgeFiles
      BY <1>3, <3>1, <3>3, TextFacts, FilesApart
    <3>4. QED
      BY <1>1, <3>1, <3>2, <3>3 DEF Files
  <2>2. /\ g \in Frames /\ GoesOn(f, g, IF p \in KgnFiles THEN "put" ELSE "enter")
        /\ g.mtime = f.mtime /\ g.text = disk[p] /\ g.path = p
    <3>1. g \in FrameType /\ GoesOn(f, g, IF p \in KgnFiles THEN "put" ELSE "enter") /\ g.text = disk[p]
      BY <1>1, <2>1 DEF FrameType, GoesOn
    <3>2. LocalsOK(g)
      BY <1>1, <2>1, FilesApart DEF FrameType, LocalsOK
    <3>3. QED
      BY <1>1, <3>1, <3>2 DEF Frames, FrameType
  <2>3. FramesTyped' /\ frame'[w] = g /\ \A v \in Threads \ {w} : frame'[v] = frame[v]
    BY <1>1, <1>2, <1>3, <2>2, ContinueFrames
  <2>4. QED
    BY <1>1, <1>2, <1>3, <2>2, <2>3
<1>4. CASE /\ disk[p] \in (IF p \in KgnFiles THEN {Missing, Undecodable} ELSE {Missing, Undecodable, Garbled})
           /\ p \in KgeFiles /\ Done(w) /\ UNCHANGED <<notice, scanVars, history>>
  <2>1. FramesTyped' /\ frame'[w] = Idle /\ \A v \in Threads \ {w} : frame'[v] = frame[v]
    BY <1>2, <1>4, ContinueFrames, IdleFrame DEF Done
  <2>2. disk[p] \notin EdgeTexts
    BY <1>4, FilesApart, LspIndexAssumption DEF LspIndexAssumption
  <2>3. QED
    BY <1>1, <1>2, <1>4, <2>1, <2>2
<1>5. CASE Raise(w)
  BY <1>1, <1>2, <1>5, RaiseStep
<1>6. QED
  BY <1>3, <1>4, <1>5 DEF Read

LEMMA PutStep ==
  ASSUME TypeInv, NEW w \in Threads, Put(w), NEW f, f = frame[w], NEW p, p = f.path
  PROVE  /\ UNCHANGED <<env, notice, index, scanVars, history>>
         /\ f.at = "put" /\ p \in KgnFiles /\ p \in Files /\ f.names = {} /\ f.ends = {} /\ f.why # "edit"
         /\ \A v \in Threads \ {w} : frame'[v] = frame[v]
         /\ FramesTyped' /\ CacheTyped'
         /\ \A c \in cache' : c \in cache \/ c.path = p
         /\ GoesOn(f, frame'[w], "enter") /\ frame'[w].text = f.text
<1>1. /\ f \in FrameType /\ LocalsOK(f) /\ f.at = "put" /\ p \in KgnFiles /\ p \in Files /\ f.why # "edit"
      /\ f.names = {} /\ f.ends = {} /\ f.mtime <= mtime[p] /\ f.text \in Ids \cup {Garbled}
  BY FrameFacts, FilesApart DEF Put, LocalsOK, TypeInv, FramesTyped
<1>2. UNCHANGED <<env, notice, index, scanVars, history>> /\ mtime' = mtime
  BY DEF Put, env
<1> DEFINE g == [f EXCEPT !.at = "enter"]
           entry == [path |-> p, mtime |-> f.mtime, text |-> f.text]
<1>3. g \in Frames /\ GoesOn(f, g, "enter") /\ g.text = f.text /\ g.mtime = f.mtime /\ g.path = p
  BY <1>1, FilesApart DEF Frames, FrameType, LocalsOK, GoesOn
<1>4. FramesTyped' /\ frame'[w] = g /\ \A v \in Threads \ {w} : frame'[v] = frame[v]
  BY <1>1, <1>2, <1>3, ContinueFrames DEF Put
<1>5. entry \in CacheType /\ entry.path = p /\ entry.mtime <= mtime[p]
  BY <1>1 DEF CacheType, FrameType
<1>6. cache' \subseteq cache \cup {entry}
  BY DEF Put
<1>7. CacheTyped'
  BY <1>2, <1>5, <1>6 DEF TypeInv, CacheTyped
<1>8. \A c \in cache' : c \in cache \/ c.path = p
  BY <1>5, <1>6
<1> HIDE DEF g, entry
<1>9. QED
  BY <1>1, <1>2, <1>3, <1>4, <1>7, <1>8

LEMMA EvictStep ==
  ASSUME TypeInv, Evict, NEW f, f = frame["loop"], NEW p, p = f.path
  PROVE  /\ UNCHANGED <<env, notice, index, scanVars, history>>
         /\ f.at = "evict" /\ p \in KgnFiles /\ p \in Files /\ f.names = {} /\ f.ends = {}
         /\ \A v \in Threads \ {"loop"} : frame'[v] = frame[v]
         /\ FramesTyped' /\ cache' = Evicted(p)
         /\ \/ f.why = "deleted" /\ frame'["loop"] = Idle
            \/ f.why = "changed" /\ GoesOn(f, frame'["loop"], "stat")
<1>1. /\ f \in FrameType /\ LocalsOK(f) /\ f.at = "evict" /\ p \in KgnFiles /\ p \in Files /\ "loop" \in Threads
      /\ f.names = {} /\ f.ends = {} /\ f.mtime <= mtime[p] /\ f.why \in {"changed", "deleted"}
  BY FrameFacts, FilesApart DEF Evict, LocalsOK, TypeInv, FramesTyped, Threads
<1>2. UNCHANGED <<env, notice, index, scanVars, history>> /\ mtime' = mtime /\ cache' = Evicted(p)
  BY DEF Evict, env
<1>3. CASE f.why = "deleted"
  <2>1. Continue("loop", Idle)
    BY <1>3 DEF Evict
  <2>2. QED
    BY <1>1, <1>2, <1>3, <2>1, ContinueFrames, IdleFrame
<1>4. CASE f.why = "changed"
  <2> DEFINE g == [f EXCEPT !.at = "stat"]
  <2>1. g \in Frames /\ GoesOn(f, g, "stat") /\ g.mtime = f.mtime /\ g.path = p
    BY <1>1, <1>4, FilesApart DEF Frames, FrameType, LocalsOK, GoesOn
  <2>2. Continue("loop", g)
    BY <1>4 DEF Evict
  <2>3. FramesTyped' /\ frame'["loop"] = g /\ \A v \in Threads \ {"loop"} : frame'[v] = frame[v]
    BY <1>1, <1>2, <2>1, <2>2, ContinueFrames
  <2>4. QED
    BY <1>1, <1>2, <1>4, <2>1, <2>3
<1>5. QED
  BY <1>1, <1>3, <1>4

LEMMA BeginStep ==
  ASSUME TypeInv, NEW w \in Threads, NEW p \in Files, NEW why \in {"scan", "created"}, Begin(w, p, why), mtime' = mtime
  PROVE  /\ FramesTyped'
         /\ \A v \in Threads \ {w} : frame'[v] = frame[v]
         /\ frame'[w].path = p /\ frame'[w].at = Stage(p) /\ frame'[w].why = why
         /\ frame'[w].names = {} /\ frame'[w].ends = {}
<1> DEFINE g == [Idle EXCEPT !.at = Stage(p), !.why = why, !.path = p]
<1>1. /\ g \in Frames /\ g.path = p /\ g.at = Stage(p) /\ g.why = why /\ g.names = {} /\ g.ends = {} /\ g.mtime = 0
  BY FilesApart DEF Idle, Frames, FrameType, LocalsOK, AnyText, Stage
<1>2. 0 <= mtime[p]
  BY DEF TypeInv, WorldTyped
<1>3. QED
  BY <1>1, <1>2, ContinueFrames DEF Begin

\* The entries of the other files.
SameEntry(q) == IF q \in KgnFiles THEN meta'[q] = meta[q] ELSE edgeIndex'[q] = edgeIndex[q]

LEMMA PopStep ==
  ASSUME TypeInv, NEW p \in Files, NEW why \in {"changed", "deleted", "edit", "close"},
         why = "edit" => p \in KgnFiles, NEW t \in AnyText, Pop(p, why, t), mtime' = mtime
  PROVE  /\ UNCHANGED <<nameMaps, edgeMaps>> /\ IndexTyped' /\ FramesTyped'
         /\ frame'["scan"] = frame["scan"]
         /\ ~Indexed(p)' /\ \A q \in Files \ {p} : SameEntry(q)
         /\ \E f : /\ f.path = p /\ f.why = why /\ f.text = t
                   /\ Unlinks(f, frame'["loop"], NamesOf(p), EndsOf(p))
<1>1. UNCHANGED <<nameMaps, edgeMaps>>
  BY DEF Pop
<1>2. /\ pathOf' = pathOf /\ contested' = contested /\ reverseRefs' = reverseRefs /\ lost' = lost
  BY <1>1 DEF nameMaps, edgeMaps
<1>3. /\ meta' = IF p \in KgnFiles THEN [meta EXCEPT ![p] = NoId] ELSE meta
      /\ edgeIndex' = IF p \in KgnFiles THEN edgeIndex ELSE [edgeIndex EXCEPT ![p] = {}]
  BY DEF Pop
<1>4. IndexTyped'
  BY <1>2, <1>3 DEF TypeInv, IndexTyped
<1>5. ~Indexed(p)' /\ \A q \in Files \ {p} : SameEntry(q)
  BY <1>3, FilesApart DEF TypeInv, IndexTyped, Indexed, SameEntry
<1> DEFINE f == [Idle EXCEPT !.at = "unlink", !.why = why, !.path = p, !.text = t]
           h == [Idle EXCEPT !.why = why, !.path = p, !.text = t, !.names = NamesOf(p), !.ends = EndsOf(p)]
<1>6. NamesOf(p) \in SUBSET Names /\ EndsOf(p) \in SUBSET AnyEnd
  BY FilesApart DEF NamesOf, EndsOf, TypeInv, IndexTyped, Ends, AnyEnd
<1>7. (p \notin KgnFiles => NamesOf(p) = {}) /\ (p \notin KgeFiles => EndsOf(p) = {})
  BY DEF NamesOf, EndsOf
<1>8. /\ h \in FrameType /\ h.path = p /\ h.why = why /\ h.text = t /\ h.mtime = 0
      /\ h.names = NamesOf(p) /\ h.ends = EndsOf(p)
      /\ f.path = p /\ f.why = why /\ f.text = t /\ f.mtime = 0
  BY <1>6 DEF Idle, FrameType
<1>9. Continue("loop", Unlinking(h))
  BY DEF Pop
<1> HIDE DEF f, h
<1>10. /\ Unlinking(h) \in Frames
       /\ \/ /\ Alike(h, Unlinking(h)) /\ Unlinking(h).at = "unlink"
             /\ Unlinking(h).names = h.names /\ Unlinking(h).ends = h.ends
          \/ h.names = {} /\ h.ends = {} /\ Unlinking(h) = AfterRemoval(h) /\ After(h, Unlinking(h))
  BY <1>7, <1>8, UnlinkingFrame
<1>11. /\ Unlinks(f, Unlinking(h), NamesOf(p), EndsOf(p))
       /\ Unlinking(h) = Idle \/ Alike(h, Unlinking(h))
  BY <1>8, <1>10 DEF Unlinks, Alike, After
<1>12. "loop" \in Threads /\ "scan" \in Threads \ {"loop"} /\ 0 <= mtime[p]
  BY DEF Threads, TypeInv, WorldTyped
<1>13. Unlinking(h).path # NoPath => Unlinking(h).mtime <= mtime[Unlinking(h).path]
  BY <1>8, <1>11, <1>12, IdleFrame DEF Alike
<1>14. FramesTyped' /\ frame'["loop"] = Unlinking(h) /\ frame'["scan"] = frame["scan"]
  BY <1>9, <1>10, <1>12, <1>13, ContinueFrames
<1>15. QED
  BY <1>1, <1>4, <1>5, <1>8, <1>11, <1>14

-----------------------------------------------------------------------------
(***************************************************************************)
(* Types hold; two threads at one file mark it; a file whose entry is      *)
(* being removed has none, unless it is marked.                            *)
(***************************************************************************)
Marked(p) == p \in suspect /\ p \in overlaid
Crossed == \A p \in Files : On("loop", p) /\ On("scan", p) => Marked(p)
Emptied == \A p \in Files : On("loop", p) /\ frame["loop"].at \in {"unlink", "del"} => ~Indexed(p) \/ Marked(p)
BaseInv == TypeInv /\ Crossed /\ Emptied

LEMMA QuietTypes ==
  ASSUME TypeInv, UNCHANGED <<env, notice, scanVars>>, FramesTyped', IndexTyped', CacheTyped', HistoryTyped',
         frame'["scan"].at # "idle" => frame["scan"].at # "idle"
  PROVE  TypeInv'
<1>1. disk' = disk /\ mtime' = mtime /\ buffer' = buffer /\ scan' = scan /\ todo' = todo /\ notice' = notice
  BY DEF env, scanVars
<1>2. WorldTyped'
  BY <1>1 DEF TypeInv, WorldTyped
<1>3. NoticeTyped'
  BY <1>1 DEF TypeInv, NoticeTyped
<1>4. ScanTyped'
  BY <1>1 DEF TypeInv, ScanTyped
<1>5. QED
  BY <1>2, <1>3, <1>4 DEF TypeInv

\* Only file s, if any, is begun.
LEMMA StillCrossed ==
  ASSUME Crossed, NEW s, suspect \ {s} \subseteq suspect', overlaid \subseteq overlaid',
         \A w \in Threads : frame'[w].path \in {frame[w].path, NoPath, s},
         s \in Files /\ frame'["loop"].path = s /\ frame'["scan"].path = s => s \in suspect' /\ s \in overlaid'
  PROVE  Crossed'
<1> SUFFICES ASSUME NEW p \in Files, frame'["loop"].path = p, frame'["scan"].path = p
             PROVE  p \in suspect' /\ p \in overlaid'
  BY DEF Crossed, On, Marked
<1>1. CASE p = s
  BY <1>1
<1>2. CASE p # s
  <2>1. frame["loop"].path = p /\ frame["scan"].path = p
    BY <1>2, FilesApart DEF Threads
  <2>2. QED
    BY <1>2, <2>1 DEF Crossed, Marked, On
<1>3. QED
  BY <1>1, <1>2

\* Nothing is popped.  Where an entry is made, the loop is not removing, or
\* the file is marked.
LEMMA StillEmptied ==
  ASSUME Emptied, NEW s, suspect \ {s} \subseteq suspect', overlaid \subseteq overlaid',
         frame'["loop"].at \in {"unlink", "del"} =>
           frame["loop"].at \in {"unlink", "del"} /\ frame'["loop"].path = frame["loop"].path,
         \A p \in Files : frame'["loop"].path = p /\ frame'["loop"].at \in {"unlink", "del"} =>
           (p # s /\ SameEntry(p)) \/ (p \in suspect' /\ p \in overlaid')
  PROVE  Emptied'
<1> SUFFICES ASSUME NEW p \in Files, frame'["loop"].path = p, frame'["loop"].at \in {"unlink", "del"},
                    ~(p \in suspect' /\ p \in overlaid')
             PROVE  ~Indexed(p)'
  BY DEF Emptied, On, Marked
<1>1. frame["loop"].path = p /\ frame["loop"].at \in {"unlink", "del"} /\ p # s /\ SameEntry(p)
  OBVIOUS
<1>2. ~Indexed(p)
  BY <1>1 DEF Emptied, On, Marked
<1>3. QED
  BY <1>1, <1>2 DEF Indexed, SameEntry

\* Removing and linking.
LEMMA StillBase ==
  ASSUME BaseInv, Still, FramesTyped', IndexTyped', frame'["scan"].at # "idle" => frame["scan"].at # "idle",
         \A w \in Threads : frame'[w].path \in {frame[w].path, NoPath},
         frame'["loop"].at \in {"unlink", "del"} =>
           frame["loop"].at \in {"unlink", "del"} /\ frame'["loop"].path = frame["loop"].path
  PROVE  BaseInv'
<1>1. /\ disk' = disk /\ mtime' = mtime /\ notice' = notice /\ meta' = meta /\ edgeIndex' = edgeIndex
      /\ cache' = cache /\ suspect' = suspect /\ overlaid' = overlaid
      /\ UNCHANGED <<env, notice, scanVars>>
  BY StillFacts DEF Still
<1>2. TypeInv'
  <2>1. CacheTyped' /\ HistoryTyped'
    BY <1>1 DEF BaseInv, TypeInv, CacheTyped, HistoryTyped
  <2>2. QED
    BY <1>1, <2>1, QuietTypes DEF BaseInv
<1>3. Crossed'
  BY <1>1, StillCrossed, FilesApart DEF BaseInv
<1>4. \A p \in Files : p # NoPath /\ SameEntry(p)
  BY <1>1, FilesApart DEF SameEntry
<1>5. Emptied'
  BY <1>1, <1>4, StillEmptied DEF BaseInv
<1>6. QED
  BY <1>2, <1>3, <1>5 DEF BaseInv

LEMMA UnlinksFacts ==
  ASSUME NEW f, NEW g, NEW names, NEW ends, Unlinks(f, g, names, ends)
  PROVE  /\ g.path \in {f.path, NoPath}
         /\ g.at \in {"unlink", "del"} => g.path = f.path /\ g.at = "unlink" /\ g.names = names /\ g.ends = ends
         /\ g.at \notin {"unlink", "del"} => names = {} /\ ends = {} /\ After(f, g)
         /\ g.at # "link"
BY IdleFrame DEF Unlinks, After, Alike, Idle, Stage

LEMMA UnlinkNameBase == BaseInv /\ UnlinkName => BaseInv'
<1> SUFFICES ASSUME BaseInv, UnlinkName PROVE BaseInv'
  OBVIOUS
<1> PICK f : f = frame["loop"]
  OBVIOUS
<1>1. /\ Still /\ UNCHANGED <<nameMaps, edgeMaps>> /\ f.at = "unlink"
      /\ frame'["scan"] = frame["scan"] /\ FramesTyped'
  BY UnlinkNameStep DEF BaseInv
<1>2. /\ frame'["loop"].path \in {f.path, NoPath}
      /\ frame'["loop"].at \in {"unlink", "del"} => frame'["loop"].path = f.path
  <2>1. PICK x \in f.names : \/ TakesUp(f, frame'["loop"], "del", x, f.names \ {x}, f.ends)
                             \/ Unlinks(f, frame'["loop"], f.names \ {x}, f.ends)
    BY UnlinkNameStep DEF BaseInv
  <2>2. CASE TakesUp(f, frame'["loop"], "del", x, f.names \ {x}, f.ends)
    BY <2>2 DEF TakesUp, Alike
  <2>3. CASE Unlinks(f, frame'["loop"], f.names \ {x}, f.ends)
    BY <2>3, UnlinksFacts
  <2>4. QED
    BY <2>1, <2>2, <2>3
<1>3. IndexTyped'
  BY <1>1 DEF BaseInv, TypeInv, IndexTyped, Still, nameMaps, edgeMaps
<1>4. QED
  BY <1>1, <1>2, <1>3, StillBase DEF Threads

LEMMA DelNameBase == BaseInv /\ DelName => BaseInv'
<1> SUFFICES ASSUME BaseInv, DelName PROVE BaseInv'
  OBVIOUS
<1> PICK f : f = frame["loop"]
  OBVIOUS
<1>1. /\ Still /\ UNCHANGED <<contested, edgeMaps>> /\ f.at = "del"
      /\ frame'["scan"] = frame["scan"] /\ FramesTyped'
      /\ pathOf' = [pathOf EXCEPT ![f.key] = NoPath]
      /\ Unlinks(f, frame'["loop"], f.names, f.ends)
  BY DelNameStep DEF BaseInv
<1>2. /\ frame'["loop"].path \in {f.path, NoPath}
      /\ frame'["loop"].at \in {"unlink", "del"} => frame'["loop"].path = f.path
  BY <1>1, UnlinksFacts
<1>3. IndexTyped'
  BY <1>1 DEF BaseInv, TypeInv, IndexTyped, Still, edgeMaps
<1>4. QED
  BY <1>1, <1>2, <1>3, StillBase DEF Threads

LEMMA UnlinkEndBase == BaseInv /\ UnlinkEnd => BaseInv'
<1> SUFFICES ASSUME BaseInv, UnlinkEnd PROVE BaseInv'
  OBVIOUS
<1> PICK f : f = frame["loop"]
  OBVIOUS
<1>1. /\ Still /\ UNCHANGED <<nameMaps, lost>> /\ f.at = "unlink"
      /\ frame'["scan"] = frame["scan"] /\ FramesTyped'
  BY UnlinkEndStep DEF BaseInv
<1>2. PICK x \in f.ends :
        /\ NodeAt(x) \in Ids
        /\ reverseRefs' = [reverseRefs EXCEPT ![NodeAt(x)] = @ \ {f.path}]
        /\ \/ TakesUp(f, frame'["loop"], "del", NodeAt(x), f.names, f.ends \ {x})
           \/ Unlinks(f, frame'["loop"], f.names, f.ends \ {x})
  BY UnlinkEndStep DEF BaseInv
<1>3. /\ frame'["loop"].path \in {f.path, NoPath}
      /\ frame'["loop"].at \in {"unlink", "del"} => frame'["loop"].path = f.path
  <2>1. CASE TakesUp(f, frame'["loop"], "del", NodeAt(x), f.names, f.ends \ {x})
    BY <2>1 DEF TakesUp, Alike
  <2>2. CASE Unlinks(f, frame'["loop"], f.names, f.ends \ {x})
    BY <2>2, UnlinksFacts
  <2>3. QED
    BY <1>2, <2>1, <2>2
<1>4. IndexTyped'
  BY <1>1, <1>2 DEF BaseInv, TypeInv, IndexTyped, Still, nameMaps
<1>5. QED
  BY <1>1, <1>3, <1>4, StillBase DEF Threads

LEMMA DelSetBase == BaseInv /\ DelSet => BaseInv'
<1> SUFFICES ASSUME BaseInv, DelSet PROVE BaseInv'
  OBVIOUS
<1> PICK f : f = frame["loop"]
  OBVIOUS
<1>1. /\ Still /\ UNCHANGED nameMaps /\ f.at = "del" /\ f.path \in KgeFiles
      /\ reverseRefs' = [reverseRefs EXCEPT ![f.key] = {}]
      /\ lost' = lost \cup ((reverseRefs[f.key] \cup HeldFor(f.key)) \X {f.key})
      /\ Unlinks(f, frame'["loop"], f.names, f.ends)
      /\ frame'["scan"] = IF HeldByScan(f.key) THEN [frame["scan"] EXCEPT !.key = NoId] ELSE frame["scan"]
      /\ FramesTyped'
  BY DelSetStep DEF BaseInv
<1>2. /\ frame'["loop"].path \in {f.path, NoPath}
      /\ frame'["loop"].at \in {"unlink", "del"} => frame'["loop"].path = f.path
  BY <1>1, UnlinksFacts
<1>3. frame["scan"] \in FrameType /\ LocalsOK(frame["scan"]) /\ LocalsOK(f)
  BY FrameFacts DEF BaseInv, Threads
<1>4. frame'["scan"].path = frame["scan"].path /\ frame'["scan"].at = frame["scan"].at
  BY <1>1, <1>3 DEF FrameType
<1>5. reverseRefs \in [Ids -> SUBSET KgeFiles] /\ lost \subseteq KgeFiles \X Ids
  BY DEF BaseInv, TypeInv, IndexTyped
<1>6. f.key \in Ids /\ HeldFor(f.key) \subseteq KgeFiles
  BY <1>1, <1>3 DEF LocalsOK, HeldFor, HeldByScan
<1>7. IndexTyped'
  BY <1>1, <1>5, <1>6 DEF BaseInv, TypeInv, IndexTyped, Still, nameMaps
<1>8. QED
  BY <1>1, <1>2, <1>4, <1>7, StillBase DEF Threads

LEMMA LinkNameBase == ASSUME BaseInv, NEW w \in Threads, LinkName(w) PROVE BaseInv'
<1> PICK f : f = frame[w]
  OBVIOUS
<1>1. /\ Still /\ UNCHANGED edgeMaps /\ f.at = "link"
      /\ \A v \in Threads \ {w} : frame'[v] = frame[v]
      /\ FramesTyped'
  BY LinkNameStep DEF BaseInv
<1>2. PICK x \in f.names :
        /\ pathOf' = [pathOf EXCEPT ![x] = f.path]
        /\ contested' = IF pathOf[x] \in {NoPath, f.path} THEN contested ELSE contested \cup {x}
        /\ Links(f, frame'[w], f.names \ {x}, f.ends)
  BY LinkNameStep DEF BaseInv
<1>3. f \in FrameType /\ f.path \in KgnFiles /\ x \in Names
  BY <1>1, FrameFacts, LinkNameStep DEF BaseInv, FrameType
<1>4. frame'[w].path \in {f.path, NoPath} /\ frame'[w].at \in {"link", "idle"}
  BY <1>2, IdleFrame DEF Links, Alike
<1>5. IndexTyped'
  <2>1. meta' = meta /\ edgeIndex' = edgeIndex /\ reverseRefs' = reverseRefs /\ lost' = lost
    BY <1>1 DEF Still, edgeMaps
  <2>2. IndexTyped
    BY DEF BaseInv, TypeInv
  <2>3. contested' \subseteq Names
    BY <1>2, <1>3, <2>2 DEF IndexTyped
  <2>4. pathOf' \in [Names -> KgnFiles \cup {NoPath}]
    BY <1>2, <1>3, <2>2 DEF IndexTyped
  <2>5. QED
    BY <2>1, <2>2, <2>3, <2>4 DEF IndexTyped
<1>6. QED
  BY <1>1, <1>4, <1>5, StillBase DEF Threads

LEMMA LinkEndBase == ASSUME BaseInv, NEW w \in Threads, LinkEnd(w) PROVE BaseInv'
<1> PICK f : f = frame[w]
  OBVIOUS
<1>1. /\ Still /\ UNCHANGED <<nameMaps, edgeMaps>> /\ f.at = "link"
      /\ \A v \in Threads \ {w} : frame'[v] = frame[v]
      /\ FramesTyped'
  BY LinkEndStep DEF BaseInv
<1>2. PICK x \in f.ends : TakesUp(f, frame'[w], "file", NodeAt(x), f.names, f.ends \ {x})
  BY LinkEndStep DEF BaseInv
<1>3. frame'[w].path = f.path /\ frame'[w].at = "file"
  BY <1>2 DEF TakesUp, Alike
<1>4. IndexTyped'
  BY <1>1 DEF BaseInv, TypeInv, IndexTyped, Still, nameMaps, edgeMaps
<1>5. QED
  BY <1>1, <1>3, <1>4, StillBase, IdleFrame DEF Threads

LEMMA FileBase == ASSUME BaseInv, NEW w \in Threads, File(w) PROVE BaseInv'
<1> PICK f : f = frame[w]
  OBVIOUS
<1>1. /\ Still /\ UNCHANGED nameMaps /\ f.at = "file" /\ f.path \in KgeFiles
      /\ \A v \in Threads \ {w} : frame'[v] = frame[v]
      /\ FramesTyped'
      /\ \/ f.key = NoId /\ UNCHANGED edgeMaps
         \/ /\ f.key \in Ids
            /\ reverseRefs' = [reverseRefs EXCEPT ![f.key] = @ \cup {f.path}]
            /\ lost' = lost \ {<<f.path, f.key>>}
      /\ Links(f, frame'[w], f.names, f.ends)
  BY FileStep DEF BaseInv
<1>2. frame'[w].path \in {f.path, NoPath} /\ frame'[w].at \in {"link", "idle"}
  BY <1>1, IdleFrame DEF Links, Alike
<1>3. IndexTyped'
  BY <1>1 DEF BaseInv, TypeInv, IndexTyped, Still, nameMaps, edgeMaps
<1>4. QED
  BY <1>1, <1>2, <1>3, StillBase DEF Threads

LEMMA EnterBase == ASSUME BaseInv, NEW w \in Threads, Enter(w) PROVE BaseInv'
<1> PICK f : f = frame[w]
  OBVIOUS
<1> PICK p : p = f.path
  OBVIOUS
<1>1. /\ UNCHANGED <<env, notice, nameMaps, edgeMaps, cache, scanVars>>
      /\ f.at = "enter" /\ p \in Files
      /\ \A v \in Threads \ {w} : frame'[v] = frame[v]
      /\ FramesTyped' /\ IndexTyped'
      /\ suspect' = IF Indexed(p) THEN suspect \cup {p} ELSE suspect
      /\ frame'[w].at \in {"link", "idle"} /\ frame'[w].path \in {p, NoPath}
      /\ overlaid' \in {overlaid, overlaid \cup {p}}
      /\ \A q \in Files \ {p} : SameEntry(q)
  <2>1. \/ /\ frame'[w] = Idle
           /\ meta' = meta /\ edgeIndex' = edgeIndex /\ overlaid' = overlaid
        \/ /\ meta' = [meta EXCEPT ![p] = IdIn(f.text)] /\ edgeIndex' = edgeIndex
           /\ overlaid' = IF Indexed(p) THEN overlaid \cup {p} ELSE overlaid
           /\ Alike(f, frame'[w]) /\ frame'[w].at = "link"
        \/ /\ edgeIndex' = [edgeIndex EXCEPT ![p] = EdgesIn[f.text]] /\ meta' = meta
           /\ overlaid' = IF Indexed(p) THEN overlaid \cup {p} ELSE overlaid
           /\ Links(f, frame'[w], {}, Ends(EdgesIn[f.text]))
    BY EnterStep DEF BaseInv
  <2>2. frame'[w].at \in {"link", "idle"} /\ frame'[w].path \in {p, NoPath}
    BY <2>1, IdleFrame DEF Links, Alike
  <2>3. \A q \in Files \ {p} : SameEntry(q)
    BY <2>1, FilesApart DEF SameEntry, BaseInv, TypeInv, IndexTyped
  <2>4. overlaid' \in {overlaid, overlaid \cup {p}}
    BY <2>1
  <2>5. QED
    BY <2>2, <2>3, <2>4, EnterStep DEF BaseInv
<1>2. TypeInv'
  <2>1. CacheTyped' /\ HistoryTyped'
    BY <1>1 DEF BaseInv, TypeInv, CacheTyped, HistoryTyped, env
  <2>2. frame'["scan"].at # "idle" => frame["scan"].at # "idle"
    BY <1>1 DEF Threads
  <2>3. QED
    BY <1>1, <2>1, <2>2, QuietTypes DEF BaseInv
<1>3. suspect \ {NoPath} \subseteq suspect' /\ overlaid \subseteq overlaid' /\ NoPath \notin Files
  BY <1>1, FilesApart
<1>4. \A v \in Threads : frame'[v].path \in {frame[v].path, NoPath}
  BY <1>1
<1>5. Crossed'
  BY <1>3, <1>4, StillCrossed DEF BaseInv
<1>6. frame'["loop"].at \in {"unlink", "del"} => frame'["loop"] = frame["loop"] /\ w = "scan"
  BY <1>1 DEF Threads
<1>7. ASSUME NEW q \in Files, frame'["loop"].path = q, frame'["loop"].at \in {"unlink", "del"}
      PROVE  (q # NoPath /\ SameEntry(q)) \/ (q \in suspect' /\ q \in overlaid')
  <2>1. CASE q = p
    <3>1. On("loop", p) /\ On("scan", p)
      BY <1>6, <1>7, <2>1 DEF On
    <3>2. QED
      BY <1>1, <2>1, <3>1, <1>3 DEF BaseInv, Crossed, Marked
  <2>2. CASE q # p
    BY <1>1, <1>3, <2>2
  <2>3. QED
    BY <2>1, <2>2
<1>8. Emptied'
  BY <1>3, <1>6, <1>7, StillEmptied DEF BaseInv
<1>9. QED
  BY <1>2, <1>5, <1>8 DEF BaseInv

\* No entry is made or popped, and only s, if any, is begun.
LEMMA QuietBase ==
  ASSUME BaseInv, WorldTyped', CacheTyped', FramesTyped', NoticeTyped', ScanTyped', HistoryTyped', UNCHANGED index,
         NEW s, suspect \ {s} \subseteq suspect', overlaid \subseteq overlaid',
         \A w \in Threads : frame'[w].path \in {frame[w].path, NoPath, s},
         s \in Files /\ frame'["loop"].path = s /\ frame'["scan"].path = s => s \in suspect' /\ s \in overlaid',
         frame'["loop"].at \in {"unlink", "del"} =>
           frame["loop"].at \in {"unlink", "del"} /\ frame'["loop"].path = frame["loop"].path,
         s \in Files /\ frame'["loop"].path = s /\ frame'["loop"].at \in {"unlink", "del"} =>
           s \in suspect' /\ s \in overlaid'
  PROVE  BaseInv'
<1>1. /\ meta' = meta /\ edgeIndex' = edgeIndex /\ pathOf' = pathOf /\ contested' = contested
      /\ reverseRefs' = reverseRefs /\ lost' = lost
  BY DEF index, nameMaps, edgeMaps
<1>2. IndexTyped'
  BY <1>1 DEF BaseInv, TypeInv, IndexTyped
<1>3. Crossed'
  BY StillCrossed DEF BaseInv
<1>4. \A p \in Files : SameEntry(p)
  BY <1>1 DEF SameEntry
<1>5. Emptied'
  BY <1>4, StillEmptied DEF BaseInv
<1>6. QED
  BY <1>2, <1>3, <1>5 DEF BaseInv, TypeInv

\* A thread goes on or ends with its file.
LEMMA GoOnBase ==
  ASSUME BaseInv, UNCHANGED <<env, index>>, FramesTyped', CacheTyped', NoticeTyped', ScanTyped', HistoryTyped',
         suspect \subseteq suspect', overlaid' = overlaid, NEW w \in Threads,
         \A v \in Threads \ {w} : frame'[v] = frame[v],
         frame'[w].path \in {frame[w].path, NoPath}, frame'[w].at \notin {"unlink", "del"}
  PROVE  BaseInv'
<1>1. WorldTyped'
  BY DEF BaseInv, TypeInv, WorldTyped, env
<1>2. \A v \in Threads : frame'[v].path \in {frame[v].path, NoPath}
  OBVIOUS
<1>3. frame'["loop"].at \in {"unlink", "del"} => frame'["loop"] = frame["loop"]
  BY DEF Threads
<1>4. NoPath \notin Files
  BY FilesApart
<1>5. QED
  BY <1>1, <1>2, <1>3, <1>4, QuietBase

LEMMA SameTypes ==
  ASSUME BaseInv, UNCHANGED <<env, notice, scanVars, history>>, frame'["scan"].at # "idle" => frame["scan"].at # "idle"
  PROVE  NoticeTyped' /\ ScanTyped' /\ HistoryTyped'
BY DEF BaseInv, TypeInv, NoticeTyped, ScanTyped, HistoryTyped, env, scanVars, history

LEMMA StatBase == ASSUME BaseInv, NEW w \in Threads, Stat(w) PROVE BaseInv'
<1> PICK f : f = frame[w]
  OBVIOUS
<1>1. /\ UNCHANGED <<env, notice, index, cache, scanVars, history>> /\ f.at = "stat"
      /\ \A v \in Threads \ {w} : frame'[v] = frame[v]
      /\ FramesTyped'
      /\ frame'[w].path \in {f.path, NoPath} /\ frame'[w].at \in {"idle", "read", "enter"}
  BY StatStep, IdleFrame DEF BaseInv, GoesOn
<1>2. CacheTyped' /\ suspect \subseteq suspect' /\ overlaid' = overlaid
  BY <1>1 DEF BaseInv, TypeInv, CacheTyped, env, history
<1>3. NoticeTyped' /\ ScanTyped' /\ HistoryTyped'
  BY <1>1, SameTypes DEF Threads
<1>4. QED
  BY <1>1, <1>2, <1>3, GoOnBase

LEMMA RaiseBase ==
  ASSUME BaseInv, NEW w \in Threads, frame[w].path \in Files, Raise(w), UNCHANGED <<env, index, cache>>
  PROVE  BaseInv'
<1>1. disk' = disk /\ mtime' = mtime
  BY DEF env
<1>2. /\ frame'[w] = Idle
      /\ \A v \in Threads \ {w} : frame'[v] = frame[v]
      /\ FramesTyped' /\ NoticeTyped' /\ ScanTyped' /\ HistoryTyped'
      /\ overlaid' = overlaid /\ suspect \subseteq suspect'
  BY <1>1, RaiseStep DEF BaseInv
<1>3. CacheTyped'
  BY <1>1 DEF BaseInv, TypeInv, CacheTyped
<1>4. QED
  BY <1>2, <1>3, GoOnBase, IdleFrame

LEMMA ReadBase == ASSUME BaseInv, NEW w \in Threads, Read(w) PROVE BaseInv'
<1> PICK f : f = frame[w]
  OBVIOUS
<1>1. /\ UNCHANGED <<env, index, cache>> /\ f.at = "read" /\ f.path \in Files
      /\ \A v \in Threads \ {w} : frame'[v] = frame[v]
      /\ FramesTyped'
      /\ \/ /\ UNCHANGED <<notice, scanVars, history>>
            /\ frame'[w].path \in {f.path, NoPath} /\ frame'[w].at \in {"idle", "put", "enter"}
         \/ Raise(w)
  BY ReadStep, IdleFrame DEF BaseInv, GoesOn
<1>2. CASE Raise(w)
  BY <1>1, <1>2, RaiseBase
<1>3. CASE /\ UNCHANGED <<notice, scanVars, history>>
           /\ frame'[w].path \in {f.path, NoPath} /\ frame'[w].at \in {"idle", "put", "enter"}
  <2>1. CacheTyped' /\ suspect \subseteq suspect' /\ overlaid' = overlaid
    BY <1>1, <1>3 DEF BaseInv, TypeInv, CacheTyped, env, history
  <2>2. NoticeTyped' /\ ScanTyped' /\ HistoryTyped'
    BY <1>1, <1>3, SameTypes DEF Threads
  <2>3. QED
    BY <1>1, <1>3, <2>1, <2>2, GoOnBase
<1>4. QED
  BY <1>1, <1>2, <1>3

LEMMA PutBase == ASSUME BaseInv, NEW w \in Threads, Put(w) PROVE BaseInv'
<1> PICK f : f = frame[w]
  OBVIOUS
<1>1. /\ UNCHANGED <<env, notice, index, scanVars, history>> /\ f.at = "put"
      /\ \A v \in Threads \ {w} : frame'[v] = frame[v]
      /\ FramesTyped' /\ CacheTyped'
      /\ frame'[w].path = f.path /\ frame'[w].at = "enter"
  BY PutStep DEF BaseInv, GoesOn
<1>2. suspect \subseteq suspect' /\ overlaid' = overlaid
  BY <1>1 DEF history
<1>3. NoticeTyped' /\ ScanTyped' /\ HistoryTyped'
  BY <1>1, SameTypes DEF Threads
<1>4. QED
  BY <1>1, <1>2, <1>3, GoOnBase

LEMMA EvictBase == BaseInv /\ Evict => BaseInv'
<1> SUFFICES ASSUME BaseInv, Evict PROVE BaseInv'
  OBVIOUS
<1> PICK f : f = frame["loop"]
  OBVIOUS
<1>1. /\ UNCHANGED <<env, notice, index, scanVars, history>>
      /\ \A v \in Threads \ {"loop"} : frame'[v] = frame[v]
      /\ FramesTyped' /\ cache' = Evicted(f.path)
      /\ frame'["loop"].path \in {f.path, NoPath} /\ frame'["loop"].at \in {"stat", "idle"}
  BY EvictStep, IdleFrame DEF BaseInv, GoesOn
<1>2. CacheTyped' /\ suspect \subseteq suspect' /\ overlaid' = overlaid
  BY <1>1 DEF BaseInv, TypeInv, CacheTyped, Evicted, env, history
<1>3. NoticeTyped' /\ ScanTyped' /\ HistoryTyped'
  BY <1>1, SameTypes DEF Threads
<1>4. QED
  BY <1>1, <1>2, <1>3, GoOnBase DEF Threads

LEMMA EvictRaisesFacts ==
  ASSUME TypeInv, EvictRaises
  PROVE  /\ UNCHANGED <<env, index, cache>>
         /\ \E w \in Threads : frame[w].path \in Files /\ frame[w].at \in {"stat", "put", "evict"} /\ Raise(w)
<1>1. PICK w \in Threads : frame[w].at \in {"stat", "put", "evict"} /\ Raise(w) /\ UNCHANGED <<env, index, cache>>
  BY DEF EvictRaises, Threads
<1>2. frame[w].path \in Files
  BY <1>1, FrameFacts
<1>3. QED
  BY <1>1, <1>2

LEMMA EvictRaisesBase == BaseInv /\ EvictRaises => BaseInv'
<1> SUFFICES ASSUME BaseInv, EvictRaises PROVE BaseInv'
  OBVIOUS
<1>1. PICK w \in Threads : frame[w].path \in Files /\ Raise(w) /\ UNCHANGED <<env, index, cache>>
  BY EvictRaisesFacts DEF BaseInv
<1>2. QED
  BY <1>1, RaiseBase

LEMMA IdleNowhere == ASSUME TypeInv, NEW w \in Threads, frame[w].at = "idle" PROVE frame[w].path = NoPath
BY FrameFacts DEF LocalsOK

LEMMA PopBase ==
  ASSUME BaseInv, NEW p \in Files, NEW why \in {"changed", "deleted", "edit", "close"},
         why = "edit" => p \in KgnFiles, NEW t \in AnyText, Handler, Pop(p, why, t), mtime' = mtime,
         WorldTyped', CacheTyped', NoticeTyped', UNCHANGED scanVars,
         suspect \ {p} \subseteq suspect', suspect' \subseteq suspect \cup {p},
         overlaid \subseteq overlaid', overlaid' \subseteq overlaid \cup {p},
         On("scan", p) => p \in suspect' /\ p \in overlaid'
  PROVE  BaseInv'
<1>1. /\ IndexTyped' /\ FramesTyped' /\ frame'["scan"] = frame["scan"]
      /\ ~Indexed(p)' /\ \A q \in Files \ {p} : SameEntry(q)
  BY PopStep DEF BaseInv
<1>2. frame'["loop"].path \in {p, NoPath}
  <2>1. PICK f : f.path = p /\ Unlinks(f, frame'["loop"], NamesOf(p), EndsOf(p))
    BY PopStep DEF BaseInv
  <2>2. QED
    BY <2>1, UnlinksFacts
<1>3. ScanTyped' /\ HistoryTyped'
  BY <1>1 DEF BaseInv, TypeInv, ScanTyped, HistoryTyped, scanVars
<1>4. TypeInv'
  BY <1>1, <1>3 DEF TypeInv
<1>5. Crossed'
  BY <1>1, <1>2, StillCrossed DEF BaseInv, On, Threads
<1>6. Emptied'
  BY <1>1, <1>2, FilesApart DEF Emptied, On
<1>7. QED
  BY <1>4, <1>5, <1>6 DEF BaseInv

LEMMA TakeFacts ==
  ASSUME BaseInv, NEW p \in Files, NEW kind, Take(p, kind)
  PROVE  /\ UNCHANGED <<env, cache, scanVars>> /\ Handler
         /\ disk' = disk /\ mtime' = mtime /\ buffer' = buffer
         /\ notice[p] = kind
         /\ \A q \in Files \ {p} : notice'[q] = notice[q]
         /\ notice'[p] = "none"
         /\ WorldTyped' /\ CacheTyped' /\ NoticeTyped'
<1>1. /\ UNCHANGED <<env, cache, scanVars>> /\ Handler
      /\ disk' = disk /\ mtime' = mtime /\ buffer' = buffer /\ cache' = cache /\ notice[p] = kind
      /\ notice' = [notice EXCEPT ![p] = "none"]
  BY DEF Take, env
<1>2. NoticeTyped' /\ (\A q \in Files \ {p} : notice'[q] = notice[q]) /\ notice'[p] = "none"
  BY <1>1 DEF BaseInv, TypeInv, NoticeTyped
<1>3. WorldTyped' /\ CacheTyped'
  BY <1>1 DEF BaseInv, TypeInv, WorldTyped, CacheTyped
<1>4. QED
  BY <1>1, <1>2, <1>3

LEMMA OnFileGoneBase ==
  ASSUME BaseInv, NEW p \in Files, OnFileChanged(p) \/ OnFileDeleted(p)
  PROVE  BaseInv'
<1>1. PICK kind \in {"changed", "deleted"} : Take(p, kind) /\ Pop(p, kind, Missing) /\ StartOver(p, InEditor(p))
  BY DEF OnFileChanged, OnFileDeleted
<1>2. /\ suspect \ {p} \subseteq suspect' /\ suspect' \subseteq suspect \cup {p}
      /\ overlaid \subseteq overlaid' /\ overlaid' \subseteq overlaid \cup {p}
      /\ On("scan", p) => p \in suspect' /\ p \in overlaid'
  BY <1>1 DEF StartOver
<1>3. UNCHANGED scanVars /\ Handler /\ mtime' = mtime /\ WorldTyped' /\ CacheTyped' /\ NoticeTyped'
  BY <1>1, TakeFacts
<1>4. Missing \in AnyText
  BY DEF AnyText
<1>5. QED
  BY <1>1, <1>2, <1>3, <1>4, PopBase

LEMMA OnFileCreatedBase == ASSUME BaseInv, NEW p \in Files, OnFileCreated(p) PROVE BaseInv'
<1>1. Take(p, "created") /\ Begin("loop", p, "created") /\ UNCHANGED index
      /\ StartOver(p, InEditor(p) \/ Indexed(p) \/ ~CacheFresh(p))
  BY DEF OnFileCreated
<1>2. /\ suspect \ {p} \subseteq suspect' /\ suspect' \subseteq suspect \cup {p}
      /\ overlaid \subseteq overlaid' /\ overlaid' \subseteq overlaid \cup {p}
      /\ On("scan", p) => p \in suspect' /\ p \in overlaid'
  BY <1>1 DEF StartOver
<1>3. UNCHANGED scanVars /\ mtime' = mtime /\ WorldTyped' /\ CacheTyped' /\ NoticeTyped'
  BY <1>1, TakeFacts
<1>4. /\ FramesTyped' /\ \A v \in Threads \ {"loop"} : frame'[v] = frame[v]
      /\ frame'["loop"].path = p /\ frame'["loop"].at = Stage(p)
  BY <1>1, <1>3, BeginStep DEF BaseInv, Threads
<1>5. ScanTyped' /\ HistoryTyped'
  BY <1>2, <1>3, <1>4 DEF BaseInv, TypeInv, ScanTyped, HistoryTyped, scanVars, Threads
<1>6. frame'["loop"].at \notin {"unlink", "del"} /\ \A v \in Threads : frame'[v].path \in {frame[v].path, NoPath, p}
  BY <1>4 DEF Stage
<1>7. frame'["scan"].path = p => p \in suspect' /\ p \in overlaid'
  BY <1>2, <1>4 DEF On, Threads
<1>8. QED
  BY <1>1, <1>2, <1>3, <1>4, <1>5, <1>6, <1>7, QuietBase

LEMMA ScanNextBase == ASSUME BaseInv, NEW p \in Files, ScanNext(p) PROVE BaseInv'
<1>1. /\ Begin("scan", p, "scan") /\ UNCHANGED <<env, notice, index, cache>> /\ scan' = scan /\ scan = "running"
      /\ todo' \subseteq todo /\ disk' = disk /\ mtime' = mtime /\ buffer' = buffer
  BY DEF ScanNext, env
<1>2. /\ suspect \ {p} \subseteq suspect' /\ suspect' \subseteq suspect \cup {p}
      /\ overlaid \subseteq overlaid' /\ overlaid' \subseteq overlaid \cup {p}
      /\ frame["loop"].path = p => p \in suspect' /\ p \in overlaid'
  BY DEF ScanNext, On
<1>3. /\ FramesTyped' /\ \A v \in Threads \ {"scan"} : frame'[v] = frame[v]
      /\ frame'["scan"].path = p /\ frame'["scan"].at = Stage(p)
  BY <1>1, BeginStep DEF BaseInv, Threads
<1>4. WorldTyped' /\ CacheTyped' /\ NoticeTyped' /\ ScanTyped' /\ HistoryTyped'
  BY <1>1, <1>2 DEF BaseInv, TypeInv, WorldTyped, CacheTyped, NoticeTyped, ScanTyped, HistoryTyped
<1>5. /\ frame'["loop"] = frame["loop"]
      /\ \A v \in Threads : frame'[v].path \in {frame[v].path, NoPath, p}
  BY <1>3 DEF Threads
<1>6. QED
  BY <1>1, <1>2, <1>3, <1>4, <1>5, QuietBase

LEMMA ScanBoundsBase == BaseInv /\ (ScanStart \/ ScanEnd) => BaseInv'
<1> SUFFICES ASSUME BaseInv, ScanStart \/ ScanEnd PROVE BaseInv'
  OBVIOUS
<1>1. UNCHANGED <<env, notice, index, cache, frame, history>>
  BY DEF ScanStart, ScanEnd
<1>2. /\ scan' \in {"running", "done"} /\ todo' \subseteq Files
      /\ scan' = "running" \/ (todo' = {} /\ frame["scan"].at = "idle")
  BY DEF ScanStart, ScanEnd, BaseInv, TypeInv, ScanTyped
<1>3. WorldTyped' /\ CacheTyped' /\ NoticeTyped' /\ ScanTyped' /\ HistoryTyped' /\ FramesTyped'
  BY <1>1, <1>2 DEF BaseInv, TypeInv, WorldTyped, CacheTyped, NoticeTyped, ScanTyped, HistoryTyped, FramesTyped, env, history
<1>4. suspect' = suspect /\ overlaid' = overlaid /\ NoPath \notin Files
  BY <1>1, FilesApart DEF history
<1>5. QED
  BY <1>1, <1>3, <1>4, QuietBase

LEMMA BufferTyped ==
  ASSUME BaseInv, NEW p \in Files, NEW t \in BufferTexts(p) \cup {Missing}, buffer' = [buffer EXCEPT ![p] = t],
         disk' = disk, mtime' = mtime, cache' = cache, notice' = notice
  PROVE  /\ WorldTyped' /\ CacheTyped' /\ NoticeTyped' /\ t \in AnyText
         /\ buffer'[p] = t /\ \A q \in Files \ {p} : buffer'[q] = buffer[q]
<1>1. WorldTyped
  BY DEF BaseInv, TypeInv
<1>2. t \in AnyText
  BY DEF BufferTexts, Texts, AnyText
<1>3. WorldTyped' /\ buffer'[p] = t /\ \A q \in Files \ {p} : buffer'[q] = buffer[q]
  BY <1>1, <1>2 DEF WorldTyped
<1>4. CacheTyped' /\ NoticeTyped'
  BY DEF BaseInv, TypeInv, CacheTyped, NoticeTyped
<1>5. QED
  BY <1>2, <1>3, <1>4

LEMMA EditBase == ASSUME BaseInv, NEW p \in Files, NEW t \in BufferTexts(p), Edit(p, t) PROVE BaseInv'
<1>1. /\ Handler /\ buffer' = [buffer EXCEPT ![p] = t]
      /\ disk' = disk /\ mtime' = mtime /\ cache' = cache /\ notice' = notice /\ UNCHANGED scanVars
      /\ IF p \in KgnFiles THEN Pop(p, "edit", t) /\ StartOver(p, FALSE) ELSE UNCHANGED <<index, frame, history>>
  BY DEF Edit
<1>2. WorldTyped' /\ CacheTyped' /\ NoticeTyped' /\ t \in AnyText
  BY <1>1, BufferTyped
<1>3. CASE p \in KgnFiles
  <2>1. /\ suspect \ {p} \subseteq suspect' /\ suspect' \subseteq suspect \cup {p}
        /\ overlaid \subseteq overlaid' /\ overlaid' \subseteq overlaid \cup {p}
        /\ On("scan", p) => p \in suspect' /\ p \in overlaid'
    BY <1>1, <1>3 DEF StartOver
  <2>2. QED
    BY <1>1, <1>2, <1>3, <2>1, PopBase
<1>4. CASE p \notin KgnFiles
  <2>1. UNCHANGED <<index, frame>> /\ suspect' = suspect /\ overlaid' = overlaid /\ NoPath \notin Files
    BY <1>1, <1>4, FilesApart DEF history
  <2>2. FramesTyped' /\ ScanTyped' /\ HistoryTyped'
    BY <1>1, <2>1 DEF BaseInv, TypeInv, FramesTyped, ScanTyped, HistoryTyped, scanVars
  <2>3. QED
    BY <1>2, <2>1, <2>2, QuietBase
<1>5. QED
  BY <1>3, <1>4

LEMMA DidCloseBase == ASSUME BaseInv, NEW p \in Files, DidClose(p) PROVE BaseInv'
<1>1. /\ Handler /\ buffer' = [buffer EXCEPT ![p] = Missing]
      /\ disk' = disk /\ mtime' = mtime /\ cache' = cache /\ notice' = notice /\ UNCHANGED scanVars
      /\ Pop(p, "close", Missing) /\ StartOver(p, ~CacheFresh(p))
  BY DEF DidClose
<1>2. WorldTyped' /\ CacheTyped' /\ NoticeTyped' /\ Missing \in AnyText
  BY <1>1, BufferTyped
<1>3. /\ suspect \ {p} \subseteq suspect' /\ suspect' \subseteq suspect \cup {p}
      /\ overlaid \subseteq overlaid' /\ overlaid' \subseteq overlaid \cup {p}
      /\ On("scan", p) => p \in suspect' /\ p \in overlaid'
  BY <1>1 DEF StartOver
<1>4. QED
  BY <1>1, <1>2, <1>3, PopBase

\* What is known of a write or a deletion.
LEMMA TouchFacts ==
  ASSUME BaseInv, NEW p \in Files, NEW t \in Texts(p) \cup {Missing}, NEW told \in {"created", "changed", "deleted"},
         told = "deleted" => t = Missing, Touch(p, t, told)
  PROVE  /\ UNCHANGED <<index, frame>> /\ cache' = cache /\ UNCHANGED scanVars
         /\ suspect' = suspect /\ overlaid' = overlaid /\ buffer' = buffer
         /\ notice'[p] # "none"
         /\ \A q \in Files \ {p} : disk'[q] = disk[q] /\ mtime'[q] = mtime[q] /\ notice'[q] = notice[q]
         /\ WorldTyped' /\ CacheTyped' /\ NoticeTyped' /\ FramesTyped'
<1>1. /\ disk' = [disk EXCEPT ![p] = t] /\ notice' = [notice EXCEPT ![p] = told]
      /\ buffer' = buffer /\ UNCHANGED <<index, frame>> /\ frame' = frame
      /\ cache' = cache /\ UNCHANGED scanVars /\ suspect' = suspect /\ overlaid' = overlaid
  BY DEF Touch, history
<1>2. PICK m \in {mtime[p], mtime[p] + 1} : mtime' = [mtime EXCEPT ![p] = m]
  BY DEF Touch
<1>3. t \in AnyText
  BY TextFacts DEF AnyText
<1>4. /\ disk \in [Files -> AnyText] /\ mtime \in [Files -> Nat] /\ buffer \in [Files -> AnyText]
      /\ \A q \in Files : disk[q] \in Texts(q) \cup {Missing} /\ buffer[q] \in BufferTexts(q) \cup {Missing}
      /\ notice \in [Files -> {"none", "created", "changed", "deleted"}]
  BY DEF BaseInv, TypeInv, WorldTyped, NoticeTyped
<1>5. mtime' \in [Files -> Nat] /\ \A q \in Files : mtime[q] <= mtime'[q]
  BY <1>2, <1>4
<1>6. WorldTyped'
  BY <1>1, <1>3, <1>4, <1>5 DEF WorldTyped
<1>7. FramesTyped'
  <2> SUFFICES ASSUME NEW v \in Threads, frame[v].path # NoPath PROVE frame[v].mtime <= mtime'[frame[v].path]
    BY <1>1 DEF BaseInv, TypeInv, FramesTyped
  <2>1. frame[v] \in FrameType /\ frame[v].mtime <= mtime[frame[v].path]
    BY FrameFacts DEF BaseInv, TypeInv, FramesTyped
  <2>2. QED
    BY <1>4, <1>5, <2>1 DEF FrameType
<1>8. CacheTyped'
  <2> SUFFICES ASSUME NEW c \in cache PROVE c.mtime <= mtime'[c.path]
    BY <1>1 DEF BaseInv, TypeInv, CacheTyped
  <2>1. c.path \in Files /\ c.mtime \in Nat /\ c.mtime <= mtime[c.path]
    BY FilesApart DEF BaseInv, TypeInv, CacheTyped, CacheType
  <2>2. QED
    BY <1>4, <1>5, <2>1
<1>9. NoticeTyped'
  BY <1>1, <1>4 DEF BaseInv, TypeInv, NoticeTyped
<1>10. \A q \in Files \ {p} : disk'[q] = disk[q] /\ mtime'[q] = mtime[q] /\ notice'[q] = notice[q]
  BY <1>1, <1>2, <1>4
<1>11. QED
  BY <1>1, <1>4, <1>6, <1>7, <1>8, <1>9, <1>10

LEMMA TouchBase ==
  ASSUME BaseInv, NEW p \in Files, NEW t \in Texts(p) \cup {Missing}, NEW told \in {"created", "changed", "deleted"},
         told = "deleted" => t = Missing, Touch(p, t, told)
  PROVE  BaseInv'
<1>1. /\ UNCHANGED <<index, frame>> /\ UNCHANGED scanVars /\ suspect' = suspect /\ overlaid' = overlaid
      /\ WorldTyped' /\ CacheTyped' /\ NoticeTyped' /\ FramesTyped'
  BY TouchFacts
<1>2. ScanTyped' /\ HistoryTyped' /\ NoPath \notin Files
  BY <1>1, FilesApart DEF BaseInv, TypeInv, ScanTyped, HistoryTyped, scanVars
<1>3. QED
  BY <1>1, <1>2, QuietBase

LEMMA StutterBase == BaseInv /\ UNCHANGED vars => BaseInv'
<1> SUFFICES ASSUME BaseInv, UNCHANGED vars PROVE BaseInv'
  OBVIOUS
<1>1. UNCHANGED <<env, notice, index, cache, frame, scanVars, history>>
  BY DEF vars
<1>2. WorldTyped' /\ CacheTyped' /\ FramesTyped' /\ NoticeTyped' /\ ScanTyped' /\ HistoryTyped'
  BY <1>1 DEF BaseInv, TypeInv, WorldTyped, CacheTyped, FramesTyped, NoticeTyped, ScanTyped, HistoryTyped, env, scanVars, history
<1>3. suspect' = suspect /\ overlaid' = overlaid /\ NoPath \notin Files
  BY <1>1, FilesApart DEF history
<1>4. QED
  BY <1>1, <1>2, <1>3, QuietBase

LEMMA InitBase == Init => BaseInv
<1> SUFFICES ASSUME Init PROVE BaseInv
  OBVIOUS
<1>1. WorldTyped
  BY DEF Init, WorldTyped, AnyText
<1>2. IndexTyped /\ CacheTyped
  BY DEF Init, IndexTyped, CacheTyped
<1>3. FramesTyped /\ NoticeTyped /\ ScanTyped /\ HistoryTyped
  BY IdleFrame DEF Init, FramesTyped, NoticeTyped, ScanTyped, HistoryTyped, Threads
<1>4. Crossed /\ Emptied
  BY IdleFrame, FilesApart DEF Init, Crossed, Emptied, On, Threads
<1>5. QED
  BY <1>1, <1>2, <1>3, <1>4 DEF BaseInv, TypeInv

LEMMA BaseInvariant == Spec => []BaseInv
<1>1. BaseInv /\ [Next]_vars => BaseInv'
  <2> SUFFICES ASSUME BaseInv, [Next]_vars PROVE BaseInv'
    OBVIOUS
  <2>1. CASE RemoveStep
    BY <2>1, UnlinkNameBase, DelNameBase, UnlinkEndBase, DelSetBase, EvictBase, EvictRaisesBase DEF RemoveStep
  <2>2. ASSUME NEW w \in Threads, IndexStep(w) PROVE BaseInv'
    BY <2>2, StatBase, ReadBase, PutBase, EnterBase, LinkNameBase, LinkEndBase, FileBase DEF IndexStep
  <2>3. CASE ScanStart \/ ScanEnd
    BY <2>3, ScanBoundsBase
  <2>4. ASSUME NEW p \in Files, ScanNext(p) \/ OnFileCreated(p) \/ OnFileChanged(p) \/ OnFileDeleted(p) \/ DidClose(p)
        PROVE  BaseInv'
    BY <2>4, ScanNextBase, OnFileCreatedBase, OnFileGoneBase, DidCloseBase
  <2>5. ASSUME NEW p \in Files, NEW t \in BufferTexts(p), DidOpen(p, t) \/ DidChange(p, t) PROVE BaseInv'
    BY <2>5, EditBase DEF DidOpen, DidChange
  <2>6. ASSUME NEW p \in Files, NEW t \in Texts(p), Write(p, t) PROVE BaseInv'
    BY <2>6, TouchBase DEF Write
  <2>7. ASSUME NEW p \in Files, Delete(p) PROVE BaseInv'
    BY <2>7, TouchBase DEF Delete
  <2>8. QED
    BY <2>1, <2>2, <2>3, <2>4, <2>5, <2>6, <2>7, StutterBase DEF Next
<1>2. QED
  BY InitBase, <1>1, PTL DEF Spec

\* The variables and the locals of the two threads have their types.
THEOREM IndexTypes == Spec => []TypeOK
<1>1. BaseInv => TypeOK
  <2> SUFFICES ASSUME BaseInv PROVE TypeOK
    OBVIOUS
  <2>1. \A c \in cache : c.path \in KgnFiles /\ c.text \in BufferTexts(c.path) /\ c.mtime <= mtime[c.path]
    BY TextFacts DEF BaseInv, TypeInv, CacheTyped, CacheType
  <2>2. \A w \in Threads : frame[w].at = "idle" <=> frame[w].path = NoPath
    BY FrameFacts DEF BaseInv, LocalsOK
  <2>3. QED
    BY <2>1, <2>2 DEF TypeOK, BaseInv, TypeInv, WorldTyped, IndexTyped, NoticeTyped, ScanTyped, HistoryTyped
<1>2. QED
  BY <1>1, BaseInvariant, PTL

-----------------------------------------------------------------------------
(***************************************************************************)
(* The entry of a file: when it is not suspect and no notice of it is      *)
(* outstanding, either nobody is at it and the entry is right, or one      *)
(* thread is, which will make it right.                                    *)
(***************************************************************************)
Current(p) == IF p \in KgnFiles THEN meta[p] = Expected(p) ELSE edgeIndex[p] = ExpectedEdges(p)

\* w alone is at p: it has removed the entry and will make, or has made, the
\* one that is right.
Underway(w, p) ==
  /\ \A v \in Threads : On(v, p) => v = w
  /\ frame[w].why = "edit" => InEditor(p) /\ frame[w].text = buffer[p]
  /\ frame[w].why # "edit" => ~InEditor(p)
  /\ frame[w].why = "deleted" => disk[p] = Missing
  /\ frame[w].at \in {"link", "file"} => Current(p)
  /\ frame[w].at \notin {"link", "file"} => ~Indexed(p)
  /\ frame[w].at = "stat" \/ (frame[w].why = "close" /\ frame[w].at \in {"unlink", "del"}) => CacheFresh(p)
  /\ frame[w].at \in {"put", "enter"} /\ frame[w].why # "edit" => frame[w].text = disk[p]

Right(p) ==
  p \notin suspect /\ notice[p] = "none" =>
    /\ (\A w \in Threads : ~On(w, p)) => Current(p)
    /\ \A w \in Threads : On(w, p) => Underway(w, p)

RightInv == BaseInv /\ \A p \in Files : Right(p)

\* A file that a step does not concern.
Same(q) == /\ disk'[q] = disk[q] /\ buffer'[q] = buffer[q] /\ mtime'[q] = mtime[q]
           /\ SameEntry(q)
           /\ \A c \in cache' : c.path = q => c \in cache
           /\ \A w \in Threads : frame[w].path = q \/ frame'[w].path = q =>
                Alike(frame[w], frame'[w]) /\ frame'[w].at = frame[w].at
           /\ q \notin suspect' /\ notice'[q] = "none" => q \notin suspect /\ notice[q] = "none"

LEMMA SameCurrent ==
  ASSUME NEW q, disk'[q] = disk[q], buffer'[q] = buffer[q], SameEntry(q)
  PROVE  Current(q)' <=> Current(q)
BY DEF Current, SameEntry, Expected, ExpectedEdges, InEditor

LEMMA SameRight ==
  ASSUME NEW q \in Files, Right(q), Same(q)
  PROVE  Right(q)'
<1> SUFFICES ASSUME q \notin suspect', notice'[q] = "none"
             PROVE  /\ (\A w \in Threads : ~On(w, q)') => Current(q)'
                    /\ \A w \in Threads : On(w, q)' => Underway(w, q)'
  BY DEF Right
<1>1. /\ (\A w \in Threads : ~On(w, q)) => Current(q)
      /\ \A w \in Threads : On(w, q) => Underway(w, q)
  BY DEF Right, Same
<1>2. \A w \in Threads : On(w, q)' <=> On(w, q)
  BY DEF On, Same, Alike
<1>3. Current(q)' <=> Current(q)
  BY SameCurrent DEF Same
<1>4. ASSUME NEW w \in Threads, On(w, q)' PROVE Underway(w, q)'
  <2>1. On(w, q) /\ Underway(w, q) /\ Alike(frame[w], frame'[w]) /\ frame'[w].at = frame[w].at
    BY <1>1, <1>2, <1>4 DEF Same, On
  <2>2. frame'[w].why = frame[w].why /\ frame'[w].text = frame[w].text
    BY <2>1 DEF Alike
  <2>3. InEditor(q)' = InEditor(q) /\ (~Indexed(q)' <=> ~Indexed(q)) /\ (CacheFresh(q) => CacheFresh(q)')
    BY DEF InEditor, Indexed, CacheFresh, Same, SameEntry
  <2>4. \A v \in Threads : On(v, q)' => v = w
    BY <1>2, <2>1 DEF Underway
  <2>5. disk'[q] = disk[q] /\ buffer'[q] = buffer[q]
    BY DEF Same
  <2>6. QED
    BY <1>3, <2>1, <2>2, <2>3, <2>4, <2>5 DEF Underway
<1>5. QED
  BY <1>1, <1>2, <1>3, <1>4

\* A step that concerns file p only has to be looked at there.
LEMMA RightSteps ==
  ASSUME RightInv, BaseInv', NEW p, \A q \in Files \ {p} : Same(q), p \in Files => Right(p)'
  PROVE  RightInv'
BY SameRight DEF RightInv

LEMMA AloneUnderway ==
  ASSUME RightInv, NEW w \in Threads, NEW p \in Files, frame[w].path = p, p \notin suspect, notice[p] = "none"
  PROVE  Underway(w, p)
BY DEF RightInv, Right, On

\* The thread that had the file alone is done with it.
LEMMA FinishRight ==
  ASSUME NEW w \in Threads, NEW p \in Files, frame'[w] = Idle,
         \A v \in Threads \ {w} : frame'[v].path = frame[v].path,
         p \notin suspect' /\ notice'[p] = "none" => Underway(w, p) /\ Current(p)'
  PROVE  Right(p)'
<1> SUFFICES ASSUME p \notin suspect', notice'[p] = "none"
             PROVE  Current(p)' /\ \A v \in Threads : ~On(v, p)'
  BY DEF Right
<1>1. \A v \in Threads \ {w} : ~On(v, p)
  BY DEF Underway
<1>2. \A v \in Threads : ~On(v, p)'
  BY <1>1, IdleFrame, FilesApart DEF On
<1>3. QED
  BY <1>2

\* It goes on with it.
LEMMA OnRight ==
  ASSUME NEW w \in Threads, NEW p \in Files, frame'[w].path = p,
         \A v \in Threads \ {w} : frame'[v].path = frame[v].path,
         p \notin suspect' /\ notice'[p] = "none" =>
           /\ \A v \in Threads \ {w} : ~On(v, p)
           /\ frame'[w].why = "edit" => InEditor(p)' /\ frame'[w].text = buffer'[p]
           /\ frame'[w].why # "edit" => ~InEditor(p)'
           /\ frame'[w].why = "deleted" => disk'[p] = Missing
           /\ frame'[w].at \in {"link", "file"} => Current(p)'
           /\ frame'[w].at \notin {"link", "file"} => ~Indexed(p)'
           /\ frame'[w].at = "stat" \/ (frame'[w].why = "close" /\ frame'[w].at \in {"unlink", "del"}) => CacheFresh(p)'
           /\ frame'[w].at \in {"put", "enter"} /\ frame'[w].why # "edit" => frame'[w].text = disk'[p]
  PROVE  Right(p)'
<1> SUFFICES ASSUME p \notin suspect', notice'[p] = "none"
             PROVE  On(w, p)' /\ \A v \in Threads : On(v, p)' => Underway(v, p)'
  BY DEF Right
<1>1. On(w, p)' /\ \A v \in Threads : On(v, p)' => v = w
  BY DEF On
<1>2. Underway(w, p)'
  BY <1>1 DEF Underway
<1>3. QED
  BY <1>1, <1>2

\* Without an entry, a file that is gone or not open is indexed as it should be.
LEMMA GoneCurrent ==
  ASSUME NEW p \in Files, ~Indexed(p)', ~InEditor(p)', disk'[p] = Missing
  PROVE  Current(p)'
BY TextFacts, LspIndexAssumption DEF Current, Expected, ExpectedEdges, Indexed, LspIndexAssumption

LEMMA OtherFiles == \A p, q : q \in Files \ {p} => q \in Files /\ q # p /\ q # NoPath
BY FilesApart

\* Removing.
LEMMA RemoveRight ==
  ASSUME RightInv, BaseInv', Still, NEW f, f = frame["loop"], f.at \in {"unlink", "del"}, f.path \in Files,
         Alike(frame["scan"], frame'["scan"]), frame'["scan"].at = frame["scan"].at,
         \/ Alike(f, frame'["loop"]) /\ frame'["loop"].at \in {"unlink", "del"}
         \/ After(f, frame'["loop"])
  PROVE  RightInv'
<1> PICK p \in Files : p = f.path
  OBVIOUS
<1>1. /\ disk' = disk /\ mtime' = mtime /\ buffer' = buffer /\ notice' = notice /\ meta' = meta
      /\ edgeIndex' = edgeIndex /\ cache' = cache /\ suspect' = suspect
  BY StillFacts
<1>2. /\ \A q : Indexed(q)' <=> Indexed(q)
      /\ \A q : InEditor(q)' <=> InEditor(q)
      /\ \A q : CacheFresh(q)' <=> CacheFresh(q)
      /\ \A q : Current(q)' <=> Current(q)
      /\ \A q : SameEntry(q)
  BY <1>1 DEF Indexed, InEditor, CacheFresh, Current, Expected, ExpectedEdges, SameEntry
<1>3. "loop" \in Threads /\ \A v \in Threads \ {"loop"} : v = "scan" /\ frame'[v].path = frame[v].path
  BY DEF Threads, Alike
<1>4. frame'["loop"] = Idle \/ Alike(f, frame'["loop"])
  BY DEF After
<1>5. \A q \in Files \ {p} : Same(q)
  <2> SUFFICES ASSUME NEW q \in Files \ {p} PROVE Same(q)
    OBVIOUS
  <2>1. f.path # q /\ frame'["loop"].path # q
    BY <1>4, IdleFrame, FilesApart DEF Alike
  <2>2. \A w \in Threads : frame[w].path = q \/ frame'[w].path = q =>
          Alike(frame[w], frame'[w]) /\ frame'[w].at = frame[w].at
    BY <1>3, <2>1
  <2>3. QED
    BY <1>1, <1>2, <2>2 DEF Same
<1>6. p \notin suspect /\ notice[p] = "none" => Underway("loop", p) /\ ~Indexed(p)
  BY <1>3, AloneUnderway DEF Underway
<1>7. Right(p)'
  <2>1. CASE frame'["loop"] = Idle
    <3>1. \/ f.why = "edit" /\ IdIn(f.text) = NoId
          \/ f.why = "close" /\ disk[p] = Missing
          \/ f.why = "deleted"
      BY <2>1, IdleFrame, FilesApart DEF After, Alike
    <3>2. ASSUME p \notin suspect', notice'[p] = "none" PROVE Current(p)'
      <4>1. Underway("loop", p) /\ ~Indexed(p)
        BY <1>1, <1>6, <3>2
      <4>2. CASE f.why = "edit" /\ IdIn(f.text) = NoId
        <5>1. InEditor(p) /\ f.text = buffer[p]
          BY <4>1, <4>2 DEF Underway
        <5>2. p \in KgnFiles /\ meta[p] = NoId /\ Expected(p) = NoId
          BY <4>1, <4>2, <5>1 DEF InEditor, Indexed, Expected
        <5>3. QED
          BY <1>2, <5>2 DEF Current
      <4>3. CASE f.why \in {"close", "deleted"}
        <5>1. disk[p] = Missing /\ ~InEditor(p)
          BY <3>1, <4>1, <4>3 DEF Underway
        <5>2. QED
          BY <1>1, <1>2, <4>1, <5>1, GoneCurrent
      <4>4. QED
        BY <3>1, <4>2, <4>3
    <3>3. QED
      BY <1>1, <1>3, <1>6, <2>1, <3>2, FinishRight
  <2>2. CASE Alike(f, frame'["loop"]) /\ frame'["loop"].at \in {"unlink", "del"}
    <3>1. frame'["loop"].path = p /\ frame'["loop"].why = f.why /\ frame'["loop"].text = f.text
      BY <2>2 DEF Alike
    <3>2. QED
      BY <1>1, <1>2, <1>3, <1>6, <2>2, <3>1, OnRight DEF Underway
  <2>3. CASE frame'["loop"] # Idle /\ After(f, frame'["loop"])
    <3>1. /\ frame'["loop"].path = p /\ frame'["loop"].why = f.why /\ frame'["loop"].text = f.text
          /\ \/ f.why = "edit" /\ frame'["loop"].at = "enter"
             \/ f.why = "close" /\ frame'["loop"].at = Stage(p)
             \/ frame'["loop"].at \in {"read", "evict"}
      BY <2>3 DEF Alike, After
    <3>2. frame'["loop"].at \notin {"unlink", "del", "put", "link", "file"}
      BY <3>1 DEF Stage
    <3>3. frame'["loop"].at = "enter" => f.why = "edit"
      BY <3>1 DEF Stage
    <3>4. frame'["loop"].at = "stat" => f.why = "close"
      BY <3>1
    <3>5. QED
      BY <1>1, <1>2, <1>3, <1>6, <3>1, <3>2, <3>3, <3>4, OnRight DEF Underway
  <2>4. QED
    BY <2>1, <2>2, <2>3
<1>8. QED
  BY <1>5, <1>7, RightSteps

\* Linking.
LEMMA LinkRight ==
  ASSUME RightInv, BaseInv', Still, NEW w \in Threads, NEW f, f = frame[w], f.at \in {"link", "file"}, f.path \in Files,
         \A v \in Threads \ {w} : frame'[v] = frame[v],
         frame'[w] = Idle \/ (Alike(f, frame'[w]) /\ frame'[w].at \in {"link", "file"})
  PROVE  RightInv'
<1> PICK p \in Files : p = f.path
  OBVIOUS
<1>1. /\ disk' = disk /\ mtime' = mtime /\ buffer' = buffer /\ notice' = notice /\ meta' = meta
      /\ edgeIndex' = edgeIndex /\ cache' = cache /\ suspect' = suspect
  BY StillFacts
<1>2. /\ \A q : InEditor(q)' <=> InEditor(q)
      /\ \A q : Current(q)' <=> Current(q)
      /\ \A q : SameEntry(q)
  BY <1>1 DEF InEditor, Current, Expected, ExpectedEdges, SameEntry
<1>3. \A q \in Files \ {p} : Same(q)
  <2> SUFFICES ASSUME NEW q \in Files \ {p} PROVE Same(q)
    OBVIOUS
  <2>1. f.path # q /\ frame'[w].path # q
    BY IdleFrame, FilesApart DEF Alike
  <2>2. \A v \in Threads : frame[v].path = q \/ frame'[v].path = q =>
          Alike(frame[v], frame'[v]) /\ frame'[v].at = frame[v].at
    BY <2>1 DEF Alike
  <2>3. QED
    BY <1>1, <1>2, <2>2 DEF Same
<1>4. p \notin suspect /\ notice[p] = "none" => Underway(w, p) /\ Current(p)
  BY AloneUnderway DEF Underway
<1>5. Right(p)'
  <2>1. CASE frame'[w] = Idle
    BY <1>1, <1>2, <1>4, <2>1, FinishRight
  <2>2. CASE Alike(f, frame'[w]) /\ frame'[w].at \in {"link", "file"}
    <3>1. frame'[w].path = p /\ frame'[w].why = f.why /\ frame'[w].text = f.text
      BY <2>2 DEF Alike
    <3>2. QED
      BY <1>1, <1>2, <1>4, <2>2, <3>1, OnRight DEF Underway
  <2>3. QED
    BY <2>1, <2>2
<1>6. QED
  BY <1>3, <1>5, RightSteps

LEMMA RemovalRight ==
  ASSUME RightInv, BaseInv', UnlinkName \/ DelName \/ UnlinkEnd \/ DelSet
  PROVE  RightInv'
<1> PICK f : f = frame["loop"]
  OBVIOUS
<1>1. TypeInv /\ f.path \in Files /\ f.at \in {"unlink", "del"}
  BY FrameFacts DEF RightInv, BaseInv, UnlinkName, DelName, UnlinkEnd, DelSet, Threads
<1>2. \A names, ends, g : Unlinks(f, g, names, ends) => (Alike(f, g) /\ g.at \in {"unlink", "del"}) \/ After(f, g)
  BY DEF Unlinks
<1>3. \A at, key, names, ends, g : TakesUp(f, g, at, key, names, ends) => Alike(f, g) /\ g.at = at
  BY DEF TakesUp
<1>4. Alike(frame["scan"], frame["scan"])
  BY DEF Alike
<1>5. CASE UnlinkName
  <2>1. Still /\ frame'["scan"] = frame["scan"]
    BY <1>1, <1>5, UnlinkNameStep
  <2>2. (Alike(f, frame'["loop"]) /\ frame'["loop"].at \in {"unlink", "del"}) \/ After(f, frame'["loop"])
    <3>1. \E x \in f.names : \/ TakesUp(f, frame'["loop"], "del", x, f.names \ {x}, f.ends)
                             \/ Unlinks(f, frame'["loop"], f.names \ {x}, f.ends)
      BY <1>1, <1>5, UnlinkNameStep
    <3>2. QED
      BY <1>2, <1>3, <3>1
  <2>3. QED
    BY <1>1, <1>4, <2>1, <2>2, RemoveRight
<1>6. CASE DelName
  <2>1. Still /\ frame'["scan"] = frame["scan"] /\ Unlinks(f, frame'["loop"], f.names, f.ends)
    BY <1>1, <1>6, DelNameStep
  <2>2. QED
    BY <1>1, <1>2, <1>4, <2>1, RemoveRight
<1>7. CASE UnlinkEnd
  <2>1. Still /\ frame'["scan"] = frame["scan"]
    BY <1>1, <1>7, UnlinkEndStep
  <2>2. (Alike(f, frame'["loop"]) /\ frame'["loop"].at \in {"unlink", "del"}) \/ After(f, frame'["loop"])
    <3>1. \E x \in f.ends : \/ TakesUp(f, frame'["loop"], "del", NodeAt(x), f.names, f.ends \ {x})
                            \/ Unlinks(f, frame'["loop"], f.names, f.ends \ {x})
      BY <1>1, <1>7, UnlinkEndStep
    <3>2. QED
      BY <1>2, <1>3, <3>1
  <2>3. QED
    BY <1>1, <1>4, <2>1, <2>2, RemoveRight
<1>8. CASE DelSet
  <2>1. /\ Still /\ Unlinks(f, frame'["loop"], f.names, f.ends)
        /\ frame'["scan"] = IF HeldByScan(f.key) THEN [frame["scan"] EXCEPT !.key = NoId] ELSE frame["scan"]
    BY <1>1, <1>8, DelSetStep
  <2>2. frame["scan"] \in FrameType
    BY <1>1, FrameFacts DEF Threads
  <2>3. Alike(frame["scan"], frame'["scan"]) /\ frame'["scan"].at = frame["scan"].at
    BY <2>1, <2>2 DEF Alike, FrameType
  <2>4. QED
    BY <1>1, <1>2, <2>1, <2>3, RemoveRight
<1>9. QED
  BY <1>5, <1>6, <1>7, <1>8

LEMMA LinkingRight ==
  ASSUME RightInv, BaseInv', NEW w \in Threads, LinkName(w) \/ LinkEnd(w) \/ File(w)
  PROVE  RightInv'
<1> PICK f : f = frame[w]
  OBVIOUS
<1>1. TypeInv /\ f.path \in Files /\ f.at \in {"link", "file"}
  BY FrameFacts DEF RightInv, BaseInv, LinkName, LinkEnd, File
<1>2. \A names, ends, g : Links(f, g, names, ends) => g = Idle \/ (Alike(f, g) /\ g.at \in {"link", "file"})
  BY DEF Links
<1>3. CASE LinkName(w)
  <2>1. /\ Still /\ \A v \in Threads \ {w} : frame'[v] = frame[v]
        /\ \E x \in f.names : Links(f, frame'[w], f.names \ {x}, f.ends)
    BY <1>1, <1>3, LinkNameStep
  <2>2. QED
    BY <1>1, <1>2, <2>1, LinkRight
<1>4. CASE LinkEnd(w)
  <2>1. /\ Still /\ \A v \in Threads \ {w} : frame'[v] = frame[v]
        /\ Alike(f, frame'[w]) /\ frame'[w].at = "file"
    BY <1>1, <1>4, LinkEndStep DEF TakesUp
  <2>2. QED
    BY <1>1, <2>1, LinkRight
<1>5. CASE File(w)
  <2>1. /\ Still /\ \A v \in Threads \ {w} : frame'[v] = frame[v]
        /\ Links(f, frame'[w], f.names, f.ends)
    BY <1>1, <1>5, FileStep
  <2>2. QED
    BY <1>1, <1>2, <2>1, LinkRight
<1>6. QED
  BY <1>3, <1>4, <1>5

\* A thread moves on with file p, whose entry stays.
LEMMA OthersSame ==
  ASSUME NEW w \in Threads, NEW p, \A v \in Threads \ {w} : frame'[v] = frame[v],
         frame[w].path \in {p, NoPath}, frame'[w].path \in {p, NoPath},
         NEW q \in Files \ {p}, SameEntry(q), disk'[q] = disk[q], buffer'[q] = buffer[q], mtime'[q] = mtime[q],
         \A c \in cache' : c.path = q => c \in cache,
         q \notin suspect' /\ notice'[q] = "none" => q \notin suspect /\ notice[q] = "none"
  PROVE  Same(q)
<1>1. frame[w].path # q /\ frame'[w].path # q
  BY FilesApart
<1>2. \A v \in Threads : frame[v].path = q \/ frame'[v].path = q =>
        Alike(frame[v], frame'[v]) /\ frame'[v].at = frame[v].at
  BY <1>1 DEF Alike
<1>3. QED
  BY <1>2 DEF Same

LEMMA EnvIndexSame ==
  ASSUME UNCHANGED <<env, index>>
  PROVE  /\ disk' = disk /\ mtime' = mtime /\ buffer' = buffer /\ meta' = meta /\ edgeIndex' = edgeIndex
         /\ \A q : SameEntry(q)
         /\ \A q : Indexed(q)' <=> Indexed(q)
         /\ \A q : InEditor(q)' <=> InEditor(q)
         /\ \A q : Current(q)' <=> Current(q)
BY DEF env, index, Indexed, InEditor, Current, Expected, ExpectedEdges, SameEntry

LEMMA StatRight == ASSUME RightInv, BaseInv', NEW w \in Threads, Stat(w) PROVE RightInv'
<1> PICK f : f = frame[w]
  OBVIOUS
<1> PICK p : p = f.path
  OBVIOUS
<1>1. /\ UNCHANGED <<env, index>> /\ cache' = cache /\ notice' = notice /\ suspect' = suspect
      /\ f.at = "stat" /\ p \in KgnFiles /\ p \in Files /\ f.why # "edit"
      /\ \A v \in Threads \ {w} : frame'[v] = frame[v]
      /\ \/ disk[p] = Missing /\ frame'[w] = Idle
         \/ GoesOn(f, frame'[w], "read")
         \/ \E c \in cache : /\ c.path = p /\ c.mtime = mtime[p]
                             /\ GoesOn(f, frame'[w], "enter") /\ frame'[w].text = c.text
  BY StatStep DEF RightInv, BaseInv, history
<1>2. /\ disk' = disk /\ mtime' = mtime /\ buffer' = buffer
      /\ \A q : SameEntry(q)
      /\ \A q : Indexed(q)' <=> Indexed(q)
      /\ \A q : InEditor(q)' <=> InEditor(q)
      /\ \A q : Current(q)' <=> Current(q)
  BY <1>1, EnvIndexSame
<1>3. frame'[w].path \in {p, NoPath}
  BY <1>1, IdleFrame DEF GoesOn
<1>4. \A q \in Files \ {p} : Same(q)
  BY <1>1, <1>2, <1>3, OthersSame
<1>5. p \notin suspect /\ notice[p] = "none" => Underway(w, p) /\ ~Indexed(p) /\ ~InEditor(p) /\ CacheFresh(p)
  BY <1>1, AloneUnderway DEF Underway
<1>6. Right(p)'
  <2>1. CASE disk[p] = Missing /\ frame'[w] = Idle
    <3>1. ASSUME p \notin suspect, notice[p] = "none" PROVE Current(p)'
      BY <1>1, <1>2, <1>5, <2>1, <3>1, GoneCurrent
    <3>2. QED
      BY <1>1, <1>5, <2>1, <3>1, FinishRight
  <2>2. CASE GoesOn(f, frame'[w], "read")
    <3>1. frame'[w].path = p /\ frame'[w].why = f.why /\ frame'[w].at = "read"
      BY <2>2 DEF GoesOn
    <3>2. QED
      BY <1>1, <1>2, <1>5, <3>1, OnRight DEF Underway
  <2>3. ASSUME NEW c \in cache, c.path = p, c.mtime = mtime[p], GoesOn(f, frame'[w], "enter"), frame'[w].text = c.text
        PROVE  Right(p)'
    <3>1. frame'[w].path = p /\ frame'[w].why = f.why /\ frame'[w].at = "enter"
      BY <2>3 DEF GoesOn
    <3>2. CacheFresh(p) => c.text = disk[p]
      BY <2>3 DEF CacheFresh
    <3>3. QED
      BY <1>1, <1>2, <1>5, <2>3, <3>1, <3>2, OnRight DEF Underway
  <2>4. QED
    BY <1>1, <2>1, <2>2, <2>3
<1>7. QED
  BY <1>4, <1>6, RightSteps

LEMMA RaiseRight ==
  ASSUME RightInv, BaseInv', NEW w \in Threads, NEW p \in Files, p = frame[w].path, Raise(w), UNCHANGED <<env, index, cache>>
  PROVE  RightInv'
<1>1. /\ disk' = disk /\ mtime' = mtime /\ buffer' = buffer /\ \A q : SameEntry(q)
  BY EnvIndexSame
<1>2. /\ frame'[w] = Idle
      /\ \A v \in Threads \ {w} : frame'[v] = frame[v]
      /\ suspect \subseteq suspect' /\ p \in suspect'
      /\ \A q \in Files : notice'[q] = notice[q] \/ (notice'[q] = "none" /\ q \in suspect')
  BY <1>1, RaiseStep DEF RightInv, BaseInv
<1>3. \A q \in Files \ {p} : Same(q)
  BY <1>1, <1>2, IdleFrame, OthersSame
<1>4. Right(p)'
  BY <1>2 DEF Right
<1>5. QED
  BY <1>3, <1>4, RightSteps

LEMMA ReadRight == ASSUME RightInv, BaseInv', NEW w \in Threads, Read(w) PROVE RightInv'
<1> PICK f : f = frame[w]
  OBVIOUS
<1> PICK p : p = f.path
  OBVIOUS
<1>1. /\ UNCHANGED <<env, index, cache>> /\ UNCHANGED <<env, index>> /\ cache' = cache
      /\ f.at = "read" /\ p \in Files /\ f.why # "edit"
      /\ \A v \in Threads \ {w} : frame'[v] = frame[v]
      /\ \/ /\ notice' = notice /\ suspect' = suspect
            /\ \/ /\ GoesOn(f, frame'[w], IF p \in KgnFiles THEN "put" ELSE "enter")
                  /\ frame'[w].text = disk[p]
               \/ /\ p \in KgeFiles /\ disk[p] \notin EdgeTexts /\ frame'[w] = Idle
         \/ Raise(w)
  BY ReadStep DEF RightInv, BaseInv, history
<1>2. /\ disk' = disk /\ mtime' = mtime /\ buffer' = buffer
      /\ \A q : SameEntry(q)
      /\ \A q : Indexed(q)' <=> Indexed(q)
      /\ \A q : InEditor(q)' <=> InEditor(q)
      /\ \A q : Current(q)' <=> Current(q)
  BY <1>1, EnvIndexSame
<1>3. p \notin suspect /\ notice[p] = "none" => Underway(w, p) /\ ~Indexed(p) /\ ~InEditor(p)
  BY <1>1, AloneUnderway DEF Underway
<1>4. CASE Raise(w)
  BY <1>1, <1>4, RaiseRight
<1>5. CASE /\ notice' = notice /\ suspect' = suspect
           /\ GoesOn(f, frame'[w], IF p \in KgnFiles THEN "put" ELSE "enter") /\ frame'[w].text = disk[p]
  <2>1. frame'[w].path = p /\ frame'[w].why = f.why /\ frame'[w].at \in {"put", "enter"}
    BY <1>5 DEF GoesOn
  <2>2. \A q \in Files \ {p} : Same(q)
    BY <1>1, <1>2, <1>5, <2>1, OthersSame
  <2>3. Right(p)'
    BY <1>1, <1>2, <1>3, <1>5, <2>1, OnRight DEF Underway
  <2>4. QED
    BY <2>2, <2>3, RightSteps
<1>6. CASE /\ notice' = notice /\ suspect' = suspect
           /\ p \in KgeFiles /\ disk[p] \notin EdgeTexts /\ frame'[w] = Idle
  <2>1. \A q \in Files \ {p} : Same(q)
    BY <1>1, <1>2, <1>6, IdleFrame, OthersSame
  <2>2. ASSUME p \notin suspect, notice[p] = "none" PROVE Current(p)'
    BY <1>2, <1>3, <1>6, <2>2, FilesApart DEF Current, Indexed, ExpectedEdges
  <2>3. Right(p)'
    BY <1>1, <1>3, <1>6, <2>2, FinishRight
  <2>4. QED
    BY <2>1, <2>3, RightSteps
<1>7. QED
  BY <1>1, <1>4, <1>5, <1>6

LEMMA PutRight == ASSUME RightInv, BaseInv', NEW w \in Threads, Put(w) PROVE RightInv'
<1> PICK f : f = frame[w]
  OBVIOUS
<1> PICK p : p = f.path
  OBVIOUS
<1>1. /\ UNCHANGED <<env, index>> /\ notice' = notice /\ suspect' = suspect
      /\ f.at = "put" /\ p \in Files /\ f.why # "edit"
      /\ \A v \in Threads \ {w} : frame'[v] = frame[v]
      /\ \A c \in cache' : c \in cache \/ c.path = p
      /\ frame'[w].path = p /\ frame'[w].why = f.why /\ frame'[w].at = "enter" /\ frame'[w].text = f.text
  BY PutStep DEF RightInv, BaseInv, history, GoesOn
<1>2. /\ disk' = disk /\ mtime' = mtime /\ buffer' = buffer
      /\ \A q : SameEntry(q)
      /\ \A q : Indexed(q)' <=> Indexed(q)
      /\ \A q : InEditor(q)' <=> InEditor(q)
  BY <1>1, EnvIndexSame
<1>3. \A q \in Files \ {p} : \A c \in cache' : c.path = q => c \in cache
  BY <1>1
<1>4. \A q \in Files \ {p} : Same(q)
  BY <1>1, <1>2, <1>3, OthersSame
<1>5. p \notin suspect /\ notice[p] = "none" => Underway(w, p) /\ ~Indexed(p) /\ ~InEditor(p) /\ f.text = disk[p]
  BY <1>1, AloneUnderway DEF Underway
<1>6. Right(p)'
  BY <1>1, <1>2, <1>5, OnRight DEF Underway
<1>7. QED
  BY <1>4, <1>6, RightSteps

LEMMA EnterRight == ASSUME RightInv, BaseInv', NEW w \in Threads, Enter(w) PROVE RightInv'
<1> PICK f : f = frame[w]
  OBVIOUS
<1> PICK p : p = f.path
  OBVIOUS
<1>1. /\ UNCHANGED <<env, notice, cache>> /\ f.at = "enter" /\ p \in Files
      /\ \A v \in Threads \ {w} : frame'[v] = frame[v]
      /\ suspect' = IF Indexed(p) THEN suspect \cup {p} ELSE suspect
      /\ \/ /\ p \in KgnFiles /\ IdIn(f.text) = NoId /\ frame'[w] = Idle
            /\ meta' = meta /\ edgeIndex' = edgeIndex
         \/ /\ p \in KgnFiles /\ IdIn(f.text) \in Ids
            /\ meta' = [meta EXCEPT ![p] = IdIn(f.text)] /\ edgeIndex' = edgeIndex
            /\ Alike(f, frame'[w]) /\ frame'[w].at = "link"
         \/ /\ p \in KgeFiles /\ f.text \in EdgeTexts
            /\ edgeIndex' = [edgeIndex EXCEPT ![p] = EdgesIn[f.text]] /\ meta' = meta
            /\ Links(f, frame'[w], {}, Ends(EdgesIn[f.text]))
  BY EnterStep DEF RightInv, BaseInv
<1>2. disk' = disk /\ mtime' = mtime /\ buffer' = buffer /\ cache' = cache /\ notice' = notice
  BY <1>1 DEF env
<1>3. frame'[w] = Idle \/ (Alike(f, frame'[w]) /\ frame'[w].at = "link")
  BY <1>1 DEF Links
<1>4. \A q \in Files \ {p} : SameEntry(q)
  BY <1>1, FilesApart DEF SameEntry, RightInv, BaseInv, TypeInv, IndexTyped
<1>5. frame'[w].path \in {p, NoPath}
  BY <1>3, IdleFrame DEF Alike
<1>6. \A q \in Files \ {p} : Same(q)
  BY <1>1, <1>2, <1>4, <1>5, OthersSame
<1>7. ASSUME p \notin suspect', notice'[p] = "none"
      PROVE  Underway(w, p) /\ Current(p)'
  <2>1. p \notin suspect /\ notice[p] = "none"
    BY <1>1, <1>2, <1>7
  <2>2. Underway(w, p) /\ ~Indexed(p)
    BY <1>1, <2>1, AloneUnderway DEF Underway
  <2>3. CASE p \in KgnFiles
    <3>1. meta'[p] = IdIn(f.text)
      BY <1>1, <2>2, <2>3, FilesApart DEF Indexed, RightInv, BaseInv, TypeInv, IndexTyped
    <3>2. IdIn(f.text) = Expected(p)'
      BY <1>1, <1>2, <2>2 DEF Underway, Expected, InEditor
    <3>3. QED
      BY <2>2, <2>3, <3>1, <3>2 DEF Current
  <2>4. CASE p \in KgeFiles
    <3>1. edgeIndex'[p] = EdgesIn[f.text] /\ f.text \in EdgeTexts
      BY <1>1, <2>4, FilesApart DEF RightInv, BaseInv, TypeInv, IndexTyped
    <3>2. f.why # "edit"
      BY <2>2, <2>4, FilesApart DEF Underway, InEditor
    <3>3. f.text = disk'[p]
      BY <1>1, <1>2, <2>2, <3>2 DEF Underway
    <3>4. QED
      BY <2>2, <2>4, <3>1, <3>3, FilesApart DEF Current, ExpectedEdges
  <2>5. QED
    BY <1>1, <2>3, <2>4
<1>8. Right(p)'
  <2>1. CASE frame'[w] = Idle
    BY <1>1, <1>7, <2>1, FinishRight
  <2>2. CASE Alike(f, frame'[w]) /\ frame'[w].at = "link"
    <3>1. frame'[w].path = p /\ frame'[w].why = f.why /\ frame'[w].text = f.text
      BY <2>2 DEF Alike
    <3>2. \A q : InEditor(q)' <=> InEditor(q)
      BY <1>2 DEF InEditor
    <3>3. QED
      BY <1>1, <1>2, <1>7, <2>2, <3>1, <3>2, OnRight DEF Underway
  <2>3. QED
    BY <1>3, <2>1, <2>2
<1>9. QED
  BY <1>6, <1>8, RightSteps

LEMMA EvictRight == ASSUME RightInv, BaseInv', Evict PROVE RightInv'
<1> PICK f : f = frame["loop"]
  OBVIOUS
<1> PICK p : p = f.path
  OBVIOUS
<1>1. /\ UNCHANGED <<env, index>> /\ notice' = notice /\ suspect' = suspect /\ "loop" \in Threads
      /\ f.at = "evict" /\ p \in Files
      /\ \A v \in Threads \ {"loop"} : frame'[v] = frame[v]
      /\ cache' = Evicted(p)
      /\ \/ f.why = "deleted" /\ frame'["loop"] = Idle
         \/ f.why = "changed" /\ GoesOn(f, frame'["loop"], "stat")
  BY EvictStep DEF RightInv, BaseInv, history, Threads
<1>2. /\ disk' = disk /\ mtime' = mtime /\ buffer' = buffer
      /\ \A q : SameEntry(q)
      /\ \A q : Indexed(q)' <=> Indexed(q)
      /\ \A q : InEditor(q)' <=> InEditor(q)
  BY <1>1, EnvIndexSame
<1>3. \A c \in cache' : c \in cache /\ c.path # p
  BY <1>1 DEF Evicted
<1>4. frame'["loop"].path \in {p, NoPath}
  BY <1>1, IdleFrame DEF GoesOn
<1>5. \A q \in Files \ {p} : Same(q)
  BY <1>1, <1>2, <1>3, <1>4, OthersSame
<1>6. p \notin suspect /\ notice[p] = "none" => Underway("loop", p) /\ ~Indexed(p) /\ ~InEditor(p)
  BY <1>1, AloneUnderway DEF Underway
<1>7. Right(p)'
  <2>1. CASE f.why = "deleted" /\ frame'["loop"] = Idle
    <3>1. ASSUME p \notin suspect, notice[p] = "none" PROVE Current(p)'
      <4>1. disk[p] = Missing
        BY <1>6, <2>1, <3>1 DEF Underway
      <4>2. QED
        BY <1>1, <1>2, <1>6, <3>1, <4>1, GoneCurrent
    <3>2. QED
      BY <1>1, <1>6, <2>1, <3>1, FinishRight
  <2>2. CASE f.why = "changed" /\ GoesOn(f, frame'["loop"], "stat")
    <3>1. frame'["loop"].path = p /\ frame'["loop"].why = "changed" /\ frame'["loop"].at = "stat"
      BY <2>2 DEF GoesOn
    <3>2. CacheFresh(p)'
      BY <1>3 DEF CacheFresh
    <3>3. QED
      BY <1>1, <1>2, <1>6, <3>1, <3>2, OnRight DEF Underway
  <2>3. QED
    BY <1>1, <2>1, <2>2
<1>8. QED
  BY <1>5, <1>7, RightSteps

LEMMA EvictRaisesRight == ASSUME RightInv, BaseInv', EvictRaises PROVE RightInv'
<1>1. PICK w \in Threads : frame[w].path \in Files /\ Raise(w) /\ UNCHANGED <<env, index, cache>>
  BY EvictRaisesFacts DEF RightInv, BaseInv
<1>2. QED
  BY <1>1, RaiseRight


\* A handler pops the entry of file p.
LEMMA PopRight ==
  ASSUME RightInv, BaseInv', NEW p \in Files, NEW why \in {"changed", "deleted", "edit", "close"},
         why = "edit" => p \in KgnFiles, NEW t \in AnyText, Handler, Pop(p, why, t),
         disk' = disk, mtime' = mtime, cache' = cache,
         \A q \in Files \ {p} : buffer'[q] = buffer[q] /\ notice'[q] = notice[q],
         suspect \ {p} \subseteq suspect', On("scan", p) => p \in suspect',
         p \notin suspect' /\ notice'[p] = "none" =>
           /\ why = "edit" => InEditor(p)' /\ t = buffer'[p]
           /\ why # "edit" => ~InEditor(p)'
           /\ why = "deleted" => disk[p] = Missing
           /\ why = "close" => CacheFresh(p)
  PROVE  RightInv'
<1>1. TypeInv /\ frame["loop"].path = NoPath /\ "loop" \in Threads
  BY IdleNowhere DEF RightInv, BaseInv, Handler, Threads
<1>2. /\ frame'["scan"] = frame["scan"] /\ ~Indexed(p)' /\ \A q \in Files \ {p} : SameEntry(q)
      /\ \E f : f.path = p /\ f.why = why /\ f.text = t /\ Unlinks(f, frame'["loop"], NamesOf(p), EndsOf(p))
  BY <1>1, PopStep
<1>3. \A v \in Threads \ {"loop"} : v = "scan" /\ frame'[v] = frame[v]
  BY <1>2 DEF Threads
<1>4. PICK f : f.path = p /\ f.why = why /\ f.text = t /\ Unlinks(f, frame'["loop"], NamesOf(p), EndsOf(p))
  BY <1>2
<1>5. frame'["loop"] = Idle \/ Alike(f, frame'["loop"])
  BY <1>4 DEF Unlinks, After
<1>6. frame'["loop"].path \in {p, NoPath}
  BY <1>4, <1>5, IdleFrame DEF Alike
<1>7. \A q \in Files \ {p} : Same(q)
  BY <1>1, <1>2, <1>3, <1>6, OthersSame
<1>8. CacheFresh(p)' <=> CacheFresh(p)
  BY DEF CacheFresh
<1>9. ASSUME p \notin suspect' PROVE \A v \in Threads \ {"loop"} : ~On(v, p)
  BY <1>3, <1>9
<1>10. Right(p)'
  <2>1. CASE frame'["loop"] = Idle
    <3> SUFFICES ASSUME p \notin suspect', notice'[p] = "none"
                 PROVE  Current(p)' /\ \A v \in Threads : ~On(v, p)'
      BY DEF Right
    <3>1. \A v \in Threads : ~On(v, p)'
      BY <1>3, <1>9, <2>1, IdleFrame, FilesApart DEF On
    <3>2. \/ why = "edit" /\ IdIn(t) = NoId
          \/ why = "close" /\ disk[p] = Missing
          \/ why = "deleted"
      BY <1>4, <2>1, IdleFrame, FilesApart DEF Unlinks, After, Alike
    <3>3. CASE why = "edit"
      <4>1. InEditor(p)' /\ Expected(p)' = NoId /\ p \in KgnFiles
        BY <3>2, <3>3 DEF Expected
      <4>2. meta'[p] = NoId
        BY <1>2, <4>1 DEF Indexed
      <4>3. QED
        BY <3>1, <4>1, <4>2 DEF Current
    <3>4. CASE why # "edit"
      <4>1. ~InEditor(p)' /\ disk'[p] = Missing
        BY <3>2, <3>4
      <4>2. QED
        BY <1>2, <3>1, <4>1, GoneCurrent
    <3>5. QED
      BY <3>3, <3>4
  <2>2. CASE Alike(f, frame'["loop"]) /\ frame'["loop"].at = "unlink"
    <3>1. frame'["loop"].path = p /\ frame'["loop"].why = why /\ frame'["loop"].text = t
      BY <1>4, <2>2 DEF Alike
    <3>2. QED
      BY <1>1, <1>2, <1>3, <1>8, <1>9, <2>2, <3>1, OnRight
  <2>3. CASE frame'["loop"] # Idle /\ After(f, frame'["loop"])
    <3>1. /\ frame'["loop"].path = p /\ frame'["loop"].why = why /\ frame'["loop"].text = t
          /\ \/ why = "edit" /\ frame'["loop"].at = "enter"
             \/ why = "close" /\ frame'["loop"].at = Stage(p)
             \/ frame'["loop"].at \in {"read", "evict"}
      BY <1>4, <2>3 DEF Alike, After
    <3>2. /\ frame'["loop"].at \notin {"unlink", "del", "put", "link", "file"}
          /\ frame'["loop"].at = "enter" => why = "edit"
          /\ frame'["loop"].at = "stat" => why = "close"
      BY <3>1 DEF Stage
    <3>3. QED
      BY <1>1, <1>2, <1>3, <1>8, <1>9, <3>1, <3>2, OnRight
  <2>4. QED
    BY <1>4, <2>1, <2>2, <2>3 DEF Unlinks
<1>11. QED
  BY <1>7, <1>10, RightSteps

LEMMA OnFileGoneRight ==
  ASSUME RightInv, BaseInv', NEW p \in Files, OnFileChanged(p) \/ OnFileDeleted(p)
  PROVE  RightInv'
<1>1. PICK kind \in {"changed", "deleted"} : Take(p, kind) /\ Pop(p, kind, Missing) /\ StartOver(p, InEditor(p))
  BY DEF OnFileChanged, OnFileDeleted
<1>2. /\ Handler /\ disk' = disk /\ mtime' = mtime /\ buffer' = buffer /\ notice[p] = kind
      /\ \A q \in Files \ {p} : notice'[q] = notice[q]
  BY <1>1, TakeFacts DEF RightInv
<1>3. cache' = cache /\ Missing \in AnyText
  BY <1>1 DEF Take, AnyText
<1>4. /\ suspect \ {p} \subseteq suspect' /\ (On("scan", p) => p \in suspect')
      /\ p \notin suspect' => ~InEditor(p)
  BY <1>1 DEF StartOver
<1>5. kind = "deleted" => disk[p] = Missing
  BY <1>2 DEF RightInv, BaseInv, TypeInv, NoticeTyped
<1>6. InEditor(p)' <=> InEditor(p)
  BY <1>2 DEF InEditor
<1>7. QED
  BY <1>1, <1>2, <1>3, <1>4, <1>5, <1>6, PopRight

LEMMA EditRight == ASSUME RightInv, BaseInv', NEW p \in Files, NEW t \in BufferTexts(p), Edit(p, t) PROVE RightInv'
<1>1. /\ Handler /\ buffer' = [buffer EXCEPT ![p] = t]
      /\ disk' = disk /\ mtime' = mtime /\ cache' = cache /\ notice' = notice
      /\ IF p \in KgnFiles THEN Pop(p, "edit", t) /\ StartOver(p, FALSE) ELSE UNCHANGED <<index, frame, history>>
  BY DEF Edit
<1>2. /\ t \in AnyText /\ buffer'[p] = t /\ \A q \in Files \ {p} : buffer'[q] = buffer[q]
  BY <1>1, BufferTyped DEF RightInv
<1>3. CASE p \in KgnFiles
  <2>1. suspect \ {p} \subseteq suspect' /\ (On("scan", p) => p \in suspect')
    BY <1>1, <1>3 DEF StartOver
  <2>2. InEditor(p)'
    BY <1>2, <1>3, TextFacts DEF InEditor
  <2>3. QED
    BY <1>1, <1>2, <1>3, <2>1, <2>2, PopRight
<1>4. CASE p \notin KgnFiles
  <2>1. meta' = meta /\ edgeIndex' = edgeIndex /\ frame' = frame /\ suspect' = suspect
    BY <1>1, <1>4 DEF index, history
  <2>2. \A q \in Files \ {p} : Same(q)
    BY <1>1, <1>2, <2>1 DEF Same, SameEntry, Alike
  <2>3. /\ ~InEditor(p) /\ ~InEditor(p)' /\ (Indexed(p)' <=> Indexed(p)) /\ (CacheFresh(p)' <=> CacheFresh(p))
        /\ (Current(p)' <=> Current(p)) /\ \A v \in Threads : On(v, p)' <=> On(v, p)
    BY <1>1, <1>4, <2>1 DEF InEditor, Indexed, CacheFresh, Current, ExpectedEdges, On
  <2>4. ASSUME NEW w \in Threads, On(w, p), Underway(w, p) PROVE Underway(w, p)'
    BY <1>1, <2>1, <2>3, <2>4 DEF Underway
  <2>5. Right(p)'
    BY <1>1, <2>1, <2>3, <2>4 DEF Right, RightInv
  <2>6. QED
    BY <2>2, <2>5, RightSteps
<1>5. QED
  BY <1>3, <1>4

LEMMA DidCloseRight == ASSUME RightInv, BaseInv', NEW p \in Files, DidClose(p) PROVE RightInv'
<1>1. /\ Handler /\ buffer' = [buffer EXCEPT ![p] = Missing]
      /\ disk' = disk /\ mtime' = mtime /\ cache' = cache /\ notice' = notice
      /\ Pop(p, "close", Missing) /\ StartOver(p, ~CacheFresh(p))
  BY DEF DidClose
<1>2. /\ Missing \in AnyText /\ buffer'[p] = Missing /\ \A q \in Files \ {p} : buffer'[q] = buffer[q]
  BY <1>1, BufferTyped DEF RightInv
<1>3. /\ suspect \ {p} \subseteq suspect' /\ (On("scan", p) => p \in suspect')
      /\ p \notin suspect' => CacheFresh(p)
  BY <1>1 DEF StartOver
<1>4. ~InEditor(p)'
  BY <1>2 DEF InEditor
<1>5. QED
  BY <1>1, <1>2, <1>3, <1>4, PopRight

\* Thread w, which is idle, begins file p.
LEMMA BeginRight ==
  ASSUME RightInv, BaseInv', NEW w \in Threads, NEW p \in Files, NEW why \in {"scan", "created"}, Begin(w, p, why),
         frame[w].at = "idle", UNCHANGED <<env, index>>, cache' = cache,
         \A q \in Files \ {p} : notice'[q] = notice[q],
         suspect \ {p} \subseteq suspect',
         (\E v \in Threads \ {w} : On(v, p)) \/ InEditor(p) \/ Indexed(p) \/ ~CacheFresh(p) => p \in suspect'
  PROVE  RightInv'
<1>1. /\ disk' = disk /\ mtime' = mtime /\ buffer' = buffer
      /\ \A q : SameEntry(q)
      /\ \A q : Indexed(q)' <=> Indexed(q)
      /\ \A q : InEditor(q)' <=> InEditor(q)
  BY EnvIndexSame
<1>2. /\ \A v \in Threads \ {w} : frame'[v] = frame[v]
      /\ frame'[w].path = p /\ frame'[w].at = Stage(p) /\ frame'[w].why = why
  BY <1>1, BeginStep DEF RightInv, BaseInv
<1>3. frame[w].path = NoPath
  BY IdleNowhere DEF RightInv, BaseInv
<1>4. \A q \in Files \ {p} : Same(q)
  BY <1>1, <1>2, <1>3, OthersSame
<1>5. CacheFresh(p)' <=> CacheFresh(p)
  BY <1>1 DEF CacheFresh
<1>6. Right(p)'
  BY <1>1, <1>2, <1>5, OnRight DEF Stage
<1>7. QED
  BY <1>4, <1>6, RightSteps

LEMMA OnFileCreatedRight == ASSUME RightInv, BaseInv', NEW p \in Files, OnFileCreated(p) PROVE RightInv'
<1>1. Take(p, "created") /\ Begin("loop", p, "created") /\ UNCHANGED index
      /\ StartOver(p, InEditor(p) \/ Indexed(p) \/ ~CacheFresh(p))
  BY DEF OnFileCreated
<1>2. /\ UNCHANGED <<env, index>> /\ cache' = cache /\ frame["loop"].at = "idle"
      /\ \A q \in Files \ {p} : notice'[q] = notice[q]
  BY <1>1, TakeFacts DEF RightInv, Handler, Take
<1>3. /\ suspect \ {p} \subseteq suspect'
      /\ (\E v \in Threads \ {"loop"} : On(v, p)) \/ InEditor(p) \/ Indexed(p) \/ ~CacheFresh(p) => p \in suspect'
  BY <1>1 DEF StartOver, Threads
<1>4. QED
  BY <1>1, <1>2, <1>3, BeginRight DEF Threads

LEMMA ScanNextRight == ASSUME RightInv, BaseInv', NEW p \in Files, ScanNext(p) PROVE RightInv'
<1>1. /\ Begin("scan", p, "scan") /\ UNCHANGED <<env, index>> /\ cache' = cache /\ frame["scan"].at = "idle"
      /\ notice' = notice
      /\ suspect \ {p} \subseteq suspect'
  BY DEF ScanNext
<1>2. (\E v \in Threads \ {"scan"} : On(v, p)) \/ InEditor(p) \/ Indexed(p) \/ ~CacheFresh(p) => p \in suspect'
  BY DEF ScanNext, Threads
<1>3. QED
  BY <1>1, <1>2, BeginRight DEF Threads

LEMMA StillRight ==
  ASSUME RightInv, BaseInv', UNCHANGED <<env, notice, index, cache, frame, history>>
  PROVE  RightInv'
<1>1. /\ disk' = disk /\ buffer' = buffer /\ mtime' = mtime /\ cache' = cache /\ notice' = notice
      /\ frame' = frame /\ suspect' = suspect /\ meta' = meta /\ edgeIndex' = edgeIndex
  BY DEF env, index, history
<1>2. \A q \in Files : Same(q)
  BY <1>1 DEF Same, SameEntry, Alike
<1>3. QED
  BY <1>2, SameRight DEF RightInv

LEMMA ScanBoundsRight == ASSUME RightInv, BaseInv', ScanStart \/ ScanEnd PROVE RightInv'
BY StillRight DEF ScanStart, ScanEnd

LEMMA TouchRight ==
  ASSUME RightInv, BaseInv', NEW p \in Files, NEW t \in Texts(p) \cup {Missing}, NEW told \in {"created", "changed", "deleted"},
         told = "deleted" => t = Missing, Touch(p, t, told)
  PROVE  RightInv'
<1>1. /\ UNCHANGED <<index, frame>> /\ cache' = cache /\ suspect' = suspect /\ buffer' = buffer
      /\ notice'[p] # "none"
      /\ \A q \in Files \ {p} : disk'[q] = disk[q] /\ mtime'[q] = mtime[q] /\ notice'[q] = notice[q]
  BY TouchFacts DEF RightInv
<1>2. frame' = frame /\ meta' = meta /\ edgeIndex' = edgeIndex
  BY <1>1 DEF index
<1>3. \A q \in Files \ {p} : Same(q)
  BY <1>1, <1>2 DEF Same, SameEntry, Alike
<1>4. Right(p)'
  BY <1>1 DEF Right
<1>5. QED
  BY <1>3, <1>4, RightSteps

LEMMA RightInvariant == Spec => []RightInv
<1>1. Init => RightInv
  <2> SUFFICES ASSUME Init PROVE RightInv
    OBVIOUS
  <2>1. BaseInv
    BY InitBase
  <2>2. ASSUME NEW p \in Files PROVE Right(p)
    <3> SUFFICES ASSUME p \notin suspect PROVE Current(p) /\ \A w \in Threads : ~On(w, p)
      BY DEF Right
    <3>1. \A w \in Threads : ~On(w, p)
      BY IdleFrame, FilesApart DEF Init, On, Threads
    <3>2. disk[p] = Missing /\ buffer[p] = Missing
      BY DEF Init
    <3>3. ~InEditor(p)
      BY <3>2 DEF InEditor
    <3>4. p \in KgnFiles => meta[p] = NoId
      BY DEF Init
    <3>5. p \notin KgnFiles => edgeIndex[p] = {}
      BY FilesApart DEF Init
    <3>6. QED
      BY <3>1, <3>2, <3>3, <3>4, <3>5, TextFacts, LspIndexAssumption
         DEF Current, Expected, ExpectedEdges, LspIndexAssumption
  <2>3. QED
    BY <2>1, <2>2 DEF RightInv
<1>2. RightInv /\ BaseInv' /\ [Next]_vars => RightInv'
  <2> SUFFICES ASSUME RightInv, BaseInv', [Next]_vars PROVE RightInv'
    OBVIOUS
  <2>1. CASE RemoveStep
    BY <2>1, RemovalRight, EvictRight, EvictRaisesRight DEF RemoveStep
  <2>2. ASSUME NEW w \in Threads, IndexStep(w) PROVE RightInv'
    BY <2>2, StatRight, ReadRight, PutRight, EnterRight, LinkingRight DEF IndexStep
  <2>3. CASE ScanStart \/ ScanEnd
    BY <2>3, ScanBoundsRight
  <2>4. ASSUME NEW p \in Files, ScanNext(p) \/ OnFileCreated(p) \/ OnFileChanged(p) \/ OnFileDeleted(p) \/ DidClose(p)
        PROVE  RightInv'
    BY <2>4, ScanNextRight, OnFileCreatedRight, OnFileGoneRight, DidCloseRight
  <2>5. ASSUME NEW p \in Files, NEW t \in BufferTexts(p), DidOpen(p, t) \/ DidChange(p, t) PROVE RightInv'
    BY <2>5, EditRight DEF DidOpen, DidChange
  <2>6. ASSUME NEW p \in Files, NEW t \in Texts(p), Write(p, t) PROVE RightInv'
    BY <2>6, TouchRight DEF Write
  <2>7. ASSUME NEW p \in Files, Delete(p) PROVE RightInv'
    BY <2>7, TouchRight DEF Delete
  <2>8. CASE UNCHANGED vars
    BY <2>8, StillRight DEF vars
  <2>9. QED
    BY <2>1, <2>2, <2>3, <2>4, <2>5, <2>6, <2>7, <2>8 DEF Next
<1>3. QED
  BY <1>1, <1>2, BaseInvariant, PTL DEF Spec

\* Once the notices of a file are handled, its entry says what the editor
\* holds, or the disk when it is not open there, however the two threads'
\* statements and the writes to the disk fell; but for suspect files.
THEOREM EntriesAreCurrent == Spec => []IndexCurrent
<1>1. RightInv => IndexCurrent
  BY FilesApart DEF RightInv, Right, Current, IndexCurrent, Settled, Free
<1>2. QED
  BY <1>1, RightInvariant, PTL

-----------------------------------------------------------------------------
(***************************************************************************)
(* The names of a file.                                                    *)
(***************************************************************************)
Naming == {"unlink", "del", "link"}

\* The file is indexed under name x; a thread is still to link it, or unlink it.
Named(p, x) == meta[p] # NoId /\ x \in {Slug[p], meta[p]}
ToLink(p, x) == \E w \in Threads : On(w, p) /\ frame[w].at = "link" /\ x \in frame[w].names
ToUnlink(p, x) == /\ On("loop", p)
                  /\ \/ frame["loop"].at \in {"unlink", "del"} /\ x \in frame["loop"].names
                     \/ frame["loop"].at = "del" /\ x = frame["loop"].key
Deletes(p) == On("loop", p) /\ frame["loop"].at = "del"

NamesOK(p) ==
  /\ \A x \in Names : p \notin suspect /\ Named(p, x) => x \in contested \/ ToLink(p, x) \/ pathOf[x] = p
  /\ \A x \in Names : p \notin overlaid /\ pathOf[x] = p => Named(p, x) \/ ToUnlink(p, x)
  /\ \A x \in Names : p \notin overlaid /\ ToLink(p, x) => Named(p, x)
  /\ Deletes(p) => \E x \in Names : frame["loop"].key = x /\ (pathOf[x] = p \/ x \in contested)

NamesInv == BaseInv /\ \A p \in KgnFiles : NamesOK(p)

\* What the invariant sees of file q does not change.
SameNames(q) ==
  /\ \A x \in Names : /\ Named(q, x)' <=> Named(q, x)
                      /\ ToLink(q, x)' <=> ToLink(q, x)
                      /\ ToUnlink(q, x)' <=> ToUnlink(q, x)
  /\ Deletes(q)' => Deletes(q) /\ frame'["loop"].key = frame["loop"].key
  /\ q \notin suspect' => q \notin suspect \/ ~Indexed(q)
  /\ q \notin overlaid' => q \notin overlaid

LEMMA NamesSeen ==
  ASSUME NEW q \in KgnFiles, meta'[q] = meta[q],
         \A w \in Threads : \/ frame'[w] = frame[w]
                            \/ /\ frame[w].path = q => frame[w].at \notin Naming
                               /\ frame'[w].path = q => frame'[w].at \notin Naming,
         q \notin suspect' => q \notin suspect \/ ~Indexed(q),
         q \notin overlaid' => q \notin overlaid
  PROVE  SameNames(q)
<1>1. \A x \in Names : Named(q, x)' <=> Named(q, x)
  BY DEF Named
<1>2. ASSUME NEW x \in Names PROVE ToLink(q, x)' <=> ToLink(q, x)
  BY DEF ToLink, On, Naming
<1>3. ASSUME NEW x \in Names PROVE ToUnlink(q, x)' <=> ToUnlink(q, x)
  BY DEF ToUnlink, On, Naming, Threads
<1>4. Deletes(q)' => Deletes(q) /\ frame'["loop"].key = frame["loop"].key
  BY DEF Deletes, On, Naming, Threads
<1>5. QED
  BY <1>1, <1>2, <1>3, <1>4 DEF SameNames

\* A name is taken from file q only to become contested.
LEMMA NamesStay ==
  ASSUME BaseInv, NEW q \in KgnFiles, NamesOK(q), SameNames(q), contested \subseteq contested',
         \A x \in Names : pathOf'[x] = pathOf[x] \/ (pathOf'[x] # q /\ (pathOf[x] # q \/ x \in contested'))
  PROVE  NamesOK(q)'
<1>1. ASSUME NEW x \in Names, q \notin suspect', Named(q, x)' PROVE (x \in contested \/ ToLink(q, x) \/ pathOf[x] = q)'
  <2>1. Named(q, x) /\ q \notin suspect
    BY <1>1 DEF SameNames, Named, Indexed
  <2>2. x \in contested \/ ToLink(q, x) \/ pathOf[x] = q
    BY <2>1 DEF NamesOK
  <2>3. QED
    BY <2>2 DEF SameNames
<1>2. ASSUME NEW x \in Names, q \notin overlaid', pathOf'[x] = q PROVE (Named(q, x) \/ ToUnlink(q, x))'
  BY <1>2 DEF NamesOK, SameNames
<1>3. ASSUME NEW x \in Names, q \notin overlaid', ToLink(q, x)' PROVE Named(q, x)'
  BY <1>3 DEF NamesOK, SameNames
<1>4. ASSUME Deletes(q)' PROVE \E x \in Names : frame'["loop"].key = x /\ (pathOf'[x] = q \/ x \in contested')
  <2>1. Deletes(q) /\ frame'["loop"].key = frame["loop"].key
    BY <1>4 DEF SameNames
  <2>2. PICK x \in Names : frame["loop"].key = x /\ (pathOf[x] = q \/ x \in contested)
    BY <2>1 DEF NamesOK
  <2>3. QED
    BY <2>1, <2>2
<1>5. QED
  BY <1>1, <1>2, <1>3, <1>4 DEF NamesOK

\* A step that concerns no names.
LEMMA QuietNames ==
  ASSUME NamesInv, BaseInv', pathOf' = pathOf, contested' = contested,
         \A q \in KgnFiles : meta'[q] = meta[q],
         \A w \in Threads : \/ frame'[w] = frame[w]
                            \/ /\ frame[w].path \in KgnFiles => frame[w].at \notin Naming
                               /\ frame'[w].path \in KgnFiles => frame'[w].at \notin Naming,
         \A q \in KgnFiles : q \in suspect /\ q \notin suspect' => ~Indexed(q),
         overlaid \subseteq overlaid'
  PROVE  NamesInv'
<1> SUFFICES ASSUME NEW q \in KgnFiles PROVE NamesOK(q)'
  BY DEF NamesInv
<1>1. SameNames(q)
  BY NamesSeen
<1>2. QED
  BY <1>1, NamesStay DEF NamesInv

\* A step of thread w that concerns names, on file p.
LEMMA NamesSteps ==
  ASSUME NamesInv, BaseInv', NEW w \in Threads, NEW p \in KgnFiles,
         frame[w].path \in {p, NoPath}, frame'[w].path \in {p, NoPath},
         \A v \in Threads \ {w} : frame'[v] = frame[v],
         \A q \in KgnFiles \ {p} : meta'[q] = meta[q],
         suspect \ {p} \subseteq suspect', overlaid \subseteq overlaid', contested \subseteq contested',
         \A q \in KgnFiles \ {p} : \A x \in Names :
           pathOf'[x] = pathOf[x] \/ (pathOf'[x] # q /\ (pathOf[x] # q \/ x \in contested')),
         NamesOK(p)'
  PROVE  NamesInv'
<1> SUFFICES ASSUME NEW q \in KgnFiles \ {p} PROVE NamesOK(q)'
  BY DEF NamesInv
<1>1. frame[w].path # q /\ frame'[w].path # q
  BY FilesApart
<1>2. SameNames(q)
  BY <1>1, NamesSeen
<1>3. QED
  BY <1>2, NamesStay DEF NamesInv

LEMMA EmptyNamed == ASSUME NEW p \in KgnFiles, ~Indexed(p) PROVE \A x \in Names : ~Named(p, x)
BY DEF Indexed, Named

LEMMA UnlinkNameNames == ASSUME NamesInv, BaseInv', UnlinkName PROVE NamesInv'
<1> PICK f : f = frame["loop"]
  OBVIOUS
<1> PICK p : p = f.path
  OBVIOUS
<1>1. /\ Still /\ pathOf' = pathOf /\ contested' = contested /\ f.at = "unlink" /\ p \in KgnFiles
      /\ frame'["scan"] = frame["scan"]
  BY UnlinkNameStep DEF NamesInv, BaseInv, nameMaps
<1>2. PICK x \in f.names :
              \/ /\ pathOf[x] = p
                 /\ TakesUp(f, frame'["loop"], "del", x, f.names \ {x}, f.ends)
              \/ /\ pathOf[x] # p
                 /\ Unlinks(f, frame'["loop"], f.names \ {x}, f.ends)
  BY UnlinkNameStep DEF NamesInv, BaseInv
<1>3. meta' = meta /\ suspect' = suspect /\ overlaid' = overlaid
  BY <1>1, StillFacts
<1>4. "loop" \in Threads /\ (\A v \in Threads \ {"loop"} : v = "scan" /\ frame'[v] = frame[v]) /\ x \in Names
  BY <1>1, <1>2, FrameFacts DEF Threads, NamesInv, BaseInv, FrameType
<1>5. frame'["loop"].path \in {p, NoPath}
  BY <1>2, UnlinksFacts DEF TakesUp, Alike
<1>6. frame'["loop"].at # "link"
  BY <1>2, UnlinksFacts DEF TakesUp
<1>7. \A y \in Names : (Named(p, y)' <=> Named(p, y)) /\ (ToLink(p, y)' <=> ToLink(p, y))
  BY <1>1, <1>3, <1>4, <1>6 DEF Named, ToLink, On
<1>8. NamesOK(p)
  BY <1>1 DEF NamesInv
<1>9. NamesOK(p)'
  <2>1. CASE pathOf[x] = p /\ TakesUp(f, frame'["loop"], "del", x, f.names \ {x}, f.ends)
    <3>1. frame'["loop"].path = p /\ frame'["loop"].at = "del" /\ frame'["loop"].key = x /\ frame'["loop"].names = f.names \ {x}
      BY <2>1 DEF TakesUp, Alike
    <3>2. \A y \in Names : ToUnlink(p, y) => ToUnlink(p, y)'
      BY <1>1, <3>1 DEF ToUnlink, On
    <3>3. QED
      BY <1>1, <1>3, <1>4, <1>7, <1>8, <2>1, <3>1, <3>2 DEF NamesOK, Deletes
  <2>2. CASE pathOf[x] # p /\ Unlinks(f, frame'["loop"], f.names \ {x}, f.ends)
    <3>1. \A y \in Names : ToUnlink(p, y) /\ y # x => ToUnlink(p, y)'
      <4> SUFFICES ASSUME NEW y \in Names, ToUnlink(p, y), y # x PROVE ToUnlink(p, y)'
        OBVIOUS
      <4>1. y \in f.names \ {x}
        BY <1>1 DEF ToUnlink
      <4>2. frame'["loop"].path = p /\ frame'["loop"].at = "unlink" /\ frame'["loop"].names = f.names \ {x}
        BY <2>2, <4>1 DEF Unlinks, Alike
      <4>3. QED
        BY <4>1, <4>2 DEF ToUnlink, On
    <3>2. ~Deletes(p)'
      BY <2>2, UnlinksFacts DEF Deletes
    <3>3. QED
      BY <1>1, <1>3, <1>7, <1>8, <2>2, <3>1, <3>2 DEF NamesOK
  <2>3. QED
    BY <1>2, <2>1, <2>2
<1>10. QED
  BY <1>1, <1>3, <1>4, <1>5, <1>9, NamesSteps

LEMMA DelNameNames == ASSUME NamesInv, BaseInv', DelName PROVE NamesInv'
<1> PICK f : f = frame["loop"]
  OBVIOUS
<1> PICK p : p = f.path
  OBVIOUS
<1>1. /\ Still /\ contested' = contested /\ f.at = "del" /\ p \in KgnFiles /\ p \in Files
      /\ frame'["scan"] = frame["scan"]
      /\ pathOf' = [pathOf EXCEPT ![f.key] = NoPath]
      /\ Unlinks(f, frame'["loop"], f.names, f.ends)
  BY DelNameStep, FilesApart DEF NamesInv, BaseInv
<1>2. NamesOK(p) /\ Deletes(p)
  BY <1>1 DEF NamesInv, Deletes, On
<1>3. PICK x \in Names : f.key = x /\ (pathOf[x] = p \/ x \in contested)
  BY <1>2 DEF NamesOK
<1>4. pathOf'[x] = NoPath /\ \A y \in Names \ {x} : pathOf'[y] = pathOf[y]
  BY <1>1, <1>3 DEF NamesInv, BaseInv, TypeInv, IndexTyped
<1>5. meta' = meta /\ suspect' = suspect /\ overlaid' = overlaid
  BY <1>1, StillFacts
<1>6. /\ "loop" \in Threads /\ (\A v \in Threads \ {"loop"} : v = "scan" /\ frame'[v] = frame[v])
      /\ frame'["loop"].path \in {p, NoPath} /\ frame'["loop"].at \notin {"link", "del"}
  BY <1>1, UnlinksFacts DEF Threads
<1>7. \A y \in Names : (Named(p, y)' <=> Named(p, y)) /\ (ToLink(p, y)' <=> ToLink(p, y))
  BY <1>1, <1>5, <1>6 DEF Named, ToLink, On
<1>8. p \notin suspect => \A y \in Names : ~Named(p, y)
  BY <1>1, EmptyNamed DEF NamesInv, BaseInv, Emptied, Marked, On
<1>9. \A y \in Names : ToUnlink(p, y) /\ y # x => ToUnlink(p, y)'
  <2> SUFFICES ASSUME NEW y \in Names, ToUnlink(p, y), y # x PROVE ToUnlink(p, y)'
    OBVIOUS
  <2>1. y \in f.names
    BY <1>3 DEF ToUnlink
  <2>2. frame'["loop"].path = p /\ frame'["loop"].at = "unlink" /\ frame'["loop"].names = f.names
    BY <1>1, <2>1 DEF Unlinks, Alike
  <2>3. QED
    BY <2>1, <2>2 DEF ToUnlink, On
<1>10. NamesOK(p)'
  <2>1. \A y \in Names : p \notin overlaid /\ pathOf'[y] = p => (Named(p, y) \/ ToUnlink(p, y))'
    BY <1>1, <1>2, <1>4, <1>7, <1>9, FilesApart DEF NamesOK
  <2>2. ~Deletes(p)'
    BY <1>6 DEF Deletes
  <2>3. QED
    BY <1>2, <1>5, <1>7, <1>8, <2>1, <2>2 DEF NamesOK
<1>11. \A q \in KgnFiles \ {p} : \A y \in Names :
         pathOf'[y] = pathOf[y] \/ (pathOf'[y] # q /\ (pathOf[y] # q \/ y \in contested'))
  BY <1>1, <1>3, <1>4, FilesApart
<1>12. QED
  BY <1>1, <1>5, <1>6, <1>10, <1>11, NamesSteps

LEMMA LinkNameNames == ASSUME NamesInv, BaseInv', NEW w \in Threads, LinkName(w) PROVE NamesInv'
<1> PICK f : f = frame[w]
  OBVIOUS
<1> PICK p : p = f.path
  OBVIOUS
<1>1. /\ Still /\ f.at = "link" /\ p \in KgnFiles
      /\ \A v \in Threads \ {w} : frame'[v] = frame[v]
  BY LinkNameStep DEF NamesInv, BaseInv
<1>2. PICK x \in f.names :
              /\ pathOf' = [pathOf EXCEPT ![x] = p]
              /\ contested' = IF pathOf[x] \in {NoPath, p} THEN contested ELSE contested \cup {x}
              /\ Links(f, frame'[w], f.names \ {x}, f.ends)
  BY LinkNameStep DEF NamesInv, BaseInv
<1>3. x \in Names /\ pathOf'[x] = p /\ \A y \in Names \ {x} : pathOf'[y] = pathOf[y]
  BY <1>2, FrameFacts DEF NamesInv, BaseInv, TypeInv, IndexTyped, FrameType
<1>4. meta' = meta /\ suspect' = suspect /\ overlaid' = overlaid /\ contested \subseteq contested'
  BY <1>1, <1>2, StillFacts
<1>5. frame'[w].path \in {p, NoPath} /\ frame'[w].at \in {"link", "idle"}
  BY <1>2, IdleFrame DEF Links, Alike
<1>6. \A y \in Names : Named(p, y)' <=> Named(p, y)
  BY <1>4 DEF Named
<1>7. \A y \in Names : ToLink(p, y)' => ToLink(p, y)
  <2> SUFFICES ASSUME NEW y \in Names, NEW v \in Threads, frame'[v].path = p, frame'[v].at = "link", y \in frame'[v].names
               PROVE  ToLink(p, y)
    BY DEF ToLink, On
  <2>1. CASE v # w
    BY <1>1, <2>1 DEF ToLink, On
  <2>2. CASE v = w
    <3>1. y \in f.names
      BY <1>2, <2>2, IdleFrame DEF Links
    <3>2. QED
      BY <1>1, <2>2, <3>1 DEF ToLink, On
  <2>3. QED
    BY <2>1, <2>2
<1>8. \A y \in Names : ToLink(p, y) /\ y # x => ToLink(p, y)'
  <2> SUFFICES ASSUME NEW y \in Names, y # x, NEW v \in Threads, frame[v].path = p, frame[v].at = "link", y \in frame[v].names
               PROVE  ToLink(p, y)'
    BY DEF ToLink, On
  <2>1. CASE v # w
    BY <1>1, <2>1 DEF ToLink, On
  <2>2. CASE v = w
    <3>1. frame'[w].path = p /\ frame'[w].at = "link" /\ y \in frame'[w].names
      BY <1>2, <2>2 DEF Links, Alike
    <3>2. QED
      BY <3>1 DEF ToLink, On
  <2>3. QED
    BY <2>1, <2>2
<1>9. \A y \in Names : ToUnlink(p, y)' <=> ToUnlink(p, y)
  BY <1>1, <1>5 DEF ToUnlink, On, Threads
<1>10. Deletes(p)' => Deletes(p) /\ frame'["loop"].key = frame["loop"].key
  BY <1>1, <1>5 DEF Deletes, On, Threads
<1>11. NamesOK(p) /\ ToLink(p, x)
  BY <1>1 DEF NamesInv, ToLink, On
<1>12. NamesOK(p)'
  <2>1. \A y \in Names : p \notin suspect /\ Named(p, y) => (y \in contested \/ ToLink(p, y) \/ pathOf[y] = p)'
    BY <1>3, <1>4, <1>8, <1>11 DEF NamesOK
  <2>2. \A y \in Names : p \notin overlaid /\ pathOf'[y] = p => Named(p, y) \/ ToUnlink(p, y)
    BY <1>3, <1>11 DEF NamesOK
  <2>3. \A y \in Names : p \notin overlaid /\ ToLink(p, y)' => Named(p, y)
    BY <1>7, <1>11 DEF NamesOK
  <2>4. Deletes(p)' => \E y \in Names : frame'["loop"].key = y /\ (pathOf'[y] = p \/ y \in contested')
    BY <1>3, <1>4, <1>10, <1>11 DEF NamesOK
  <2>5. QED
    BY <1>4, <1>6, <1>9, <2>1, <2>2, <2>3, <2>4 DEF NamesOK
<1>13. \A q \in KgnFiles \ {p} : \A y \in Names :
         pathOf'[y] = pathOf[y] \/ (pathOf'[y] # q /\ (pathOf[y] # q \/ y \in contested'))
  BY <1>2, <1>3, FilesApart
<1>14. QED
  BY <1>1, <1>4, <1>5, <1>12, <1>13, NamesSteps

LEMMA EnterNames == ASSUME NamesInv, BaseInv', NEW w \in Threads, Enter(w) PROVE NamesInv'
<1> PICK f : f = frame[w]
  OBVIOUS
<1> PICK p : p = f.path
  OBVIOUS
<1>1. /\ pathOf' = pathOf /\ contested' = contested /\ f.at = "enter" /\ p \in Files
      /\ \A v \in Threads \ {w} : frame'[v] = frame[v]
      /\ suspect' = IF Indexed(p) THEN suspect \cup {p} ELSE suspect
      /\ overlaid \subseteq overlaid' /\ TypeInv
      /\ \/ /\ p \in KgnFiles /\ IdIn(f.text) = NoId /\ frame'[w] = Idle
            /\ meta' = meta
         \/ /\ p \in KgnFiles /\ IdIn(f.text) \in Ids
            /\ meta' = [meta EXCEPT ![p] = IdIn(f.text)]
            /\ overlaid' = IF Indexed(p) THEN overlaid \cup {p} ELSE overlaid
            /\ Alike(f, frame'[w]) /\ frame'[w].at = "link" /\ frame'[w].names = {Slug[p], IdIn(f.text)}
         \/ /\ p \in KgeFiles /\ meta' = meta
            /\ frame'[w] = Idle \/ Alike(f, frame'[w])
  BY EnterStep DEF NamesInv, BaseInv, nameMaps, Links
<1>2. CASE meta' = meta /\ (frame'[w] = Idle \/ (p \in KgeFiles /\ Alike(f, frame'[w])))
  <2>1. /\ frame[w].path \in KgnFiles => frame[w].at \notin Naming
        /\ frame'[w].path \in KgnFiles => frame'[w].at \notin Naming
    BY <1>1, <1>2, IdleFrame, FilesApart DEF Naming, Alike
  <2>2. \A v \in Threads : \/ frame'[v] = frame[v]
                           \/ /\ frame[v].path \in KgnFiles => frame[v].at \notin Naming
                              /\ frame'[v].path \in KgnFiles => frame'[v].at \notin Naming
    BY <1>1, <2>1
  <2>3. QED
    BY <1>1, <1>2, <2>2, QuietNames
<1>3. CASE /\ p \in KgnFiles /\ IdIn(f.text) \in Ids
           /\ meta' = [meta EXCEPT ![p] = IdIn(f.text)]
           /\ overlaid' = IF Indexed(p) THEN overlaid \cup {p} ELSE overlaid
           /\ Alike(f, frame'[w]) /\ frame'[w].at = "link" /\ frame'[w].names = {Slug[p], IdIn(f.text)}
  <2>1. meta'[p] = IdIn(f.text) /\ \A q \in KgnFiles \ {p} : meta'[q] = meta[q]
    BY <1>1, <1>3 DEF TypeInv, IndexTyped
  <2>2. \A x \in Names : Named(p, x)' <=> x \in {Slug[p], IdIn(f.text)}
    BY <1>3, <2>1, FilesApart DEF Named
  <2>3. frame'[w].path = p
    BY <1>3 DEF Alike
  <2>4. \A x \in Names : Named(p, x)' => ToLink(p, x)'
    BY <1>3, <2>2, <2>3 DEF ToLink, On
  <2>5. p \notin overlaid' => \A v \in Threads \ {w} : frame[v].path # p
    BY <1>1 DEF NamesInv, BaseInv, Crossed, On, Marked, Threads
  <2>6. ASSUME p \notin overlaid' PROVE \A x \in Names : ~ToUnlink(p, x) /\ ~Named(p, x)
    <3>1. ~Indexed(p)
      BY <1>3, <2>6
    <3>2. \A x \in Names : ~ToUnlink(p, x)
      BY <1>1, <2>5, <2>6 DEF ToUnlink, On, Threads
    <3>3. QED
      BY <1>3, <3>1, <3>2, EmptyNamed
  <2>7. \A x \in Names : p \notin overlaid' => pathOf[x] # p
    BY <1>1, <1>3, <2>6 DEF NamesInv, NamesOK
  <2>8. \A x \in Names : p \notin overlaid' /\ ToLink(p, x)' => Named(p, x)'
    BY <1>1, <1>3, <2>2, <2>5 DEF ToLink, On
  <2>9. Deletes(p)' => Deletes(p) /\ frame'["loop"].key = frame["loop"].key
    BY <1>1, <1>3 DEF Deletes, On, Threads
  <2>10. NamesOK(p)'
    BY <1>1, <1>3, <2>4, <2>7, <2>8, <2>9 DEF NamesOK, NamesInv
  <2>11. QED
    BY <1>1, <1>3, <2>1, <2>3, <2>10, NamesSteps
<1>4. QED
  BY <1>1, <1>2, <1>3

LEMMA PopNames ==
  ASSUME NamesInv, BaseInv', NEW p \in Files, NEW why \in {"changed", "deleted", "edit", "close"},
         why = "edit" => p \in KgnFiles, NEW t \in AnyText, Handler, Pop(p, why, t), mtime' = mtime,
         suspect \ {p} \subseteq suspect', overlaid \subseteq overlaid', On("scan", p) => p \in overlaid'
  PROVE  NamesInv'
<1>1. TypeInv /\ frame["loop"].path = NoPath /\ "loop" \in Threads
  BY IdleNowhere DEF NamesInv, BaseInv, Handler, Threads
<1>2. /\ pathOf' = pathOf /\ contested' = contested
      /\ frame'["scan"] = frame["scan"] /\ ~Indexed(p)' /\ \A q \in Files \ {p} : SameEntry(q)
      /\ \E f : f.path = p /\ f.why = why /\ f.text = t /\ Unlinks(f, frame'["loop"], NamesOf(p), EndsOf(p))
  BY <1>1, PopStep DEF nameMaps
<1>3. \A v \in Threads \ {"loop"} : v = "scan" /\ frame'[v] = frame[v]
  BY <1>2 DEF Threads
<1>4. PICK f : f.path = p /\ Unlinks(f, frame'["loop"], NamesOf(p), EndsOf(p))
  BY <1>2
<1>5. frame'["loop"].path \in {p, NoPath} /\ frame'["loop"].at \notin {"link", "del"}
  BY <1>4, UnlinksFacts
<1>6. CASE p \in KgnFiles
  <2>1. \A x \in Names : ~Named(p, x)'
    BY <1>2, <1>6 DEF Indexed, Named
  <2>2. \A x \in Names : p \notin overlaid' => ~ToLink(p, x)'
    BY <1>3, <1>5 DEF ToLink, On
  <2>3. ~Deletes(p)'
    BY <1>5 DEF Deletes
  <2>4. ASSUME NEW x \in Names, p \notin overlaid', pathOf[x] = p PROVE ToUnlink(p, x)'
    <3>1. Named(p, x)
      BY <1>1, <1>6, <2>4, FilesApart DEF NamesInv, NamesOK, ToUnlink, On
    <3>2. x \in NamesOf(p)
      BY <1>6, <3>1 DEF Named, NamesOf
    <3>3. frame'["loop"].path = p /\ frame'["loop"].at = "unlink" /\ frame'["loop"].names = NamesOf(p)
      BY <1>4, <3>2 DEF Unlinks, Alike
    <3>4. QED
      BY <3>2, <3>3 DEF ToUnlink, On
  <2>5. NamesOK(p)'
    BY <1>2, <2>1, <2>2, <2>3, <2>4 DEF NamesOK
  <2>6. \A q \in KgnFiles \ {p} : meta'[q] = meta[q]
    BY <1>2, FilesApart DEF SameEntry
  <2>7. QED
    BY <1>1, <1>2, <1>3, <1>5, <1>6, <2>5, <2>6, NamesSteps
<1>7. CASE p \notin KgnFiles
  <2>1. \A q \in KgnFiles : meta'[q] = meta[q]
    BY <1>2, <1>7, FilesApart DEF SameEntry
  <2>2. \A w \in Threads : \/ frame'[w] = frame[w]
                           \/ /\ frame[w].path \in KgnFiles => frame[w].at \notin Naming
                              /\ frame'[w].path \in KgnFiles => frame'[w].at \notin Naming
    BY <1>1, <1>3, <1>5, <1>7, FilesApart
  <2>3. QED
    BY <1>2, <1>7, <2>1, <2>2, QuietNames
<1>8. QED
  BY <1>6, <1>7

\* The steps that concern no names.
LEMMA EdgeStepsNames ==
  ASSUME NamesInv, BaseInv', UnlinkEnd \/ DelSet \/ \E w \in Threads : LinkEnd(w) \/ File(w)
  PROVE  NamesInv'
<1> DEFINE Off == /\ pathOf' = pathOf /\ contested' = contested /\ meta' = meta /\ suspect' = suspect /\ overlaid' = overlaid
                  /\ \A v \in Threads : \/ frame'[v] = frame[v]
                                        \/ frame[v].path \notin KgnFiles /\ frame'[v].path \notin KgnFiles
<1>1. TypeInv /\ NoPath \notin KgnFiles
  BY FilesApart DEF NamesInv, BaseInv
<1>2. ASSUME UnlinkEnd PROVE Off
  <2> PICK f : f = frame["loop"]
    OBVIOUS
  <2>1. Still /\ UNCHANGED nameMaps /\ f.path \in KgeFiles /\ frame'["scan"] = frame["scan"]
    BY <1>1, <1>2, UnlinkEndStep DEF nameMaps
  <2>2. PICK x \in f.ends : \/ TakesUp(f, frame'["loop"], "del", NodeAt(x), f.names, f.ends \ {x})
                            \/ Unlinks(f, frame'["loop"], f.names, f.ends \ {x})
    BY <1>1, <1>2, UnlinkEndStep
  <2>3. frame'["loop"].path \in {f.path, NoPath}
    BY <2>2, UnlinksFacts DEF TakesUp, Alike
  <2>4. QED
    BY <1>1, <2>1, <2>3, StillFacts, FilesApart DEF nameMaps, Threads
<1>3. ASSUME DelSet PROVE Off
  <2> PICK f : f = frame["loop"]
    OBVIOUS
  <2>1. /\ Still /\ UNCHANGED nameMaps /\ f.path \in KgeFiles
        /\ frame'["scan"] = IF HeldByScan(f.key) THEN [frame["scan"] EXCEPT !.key = NoId] ELSE frame["scan"]
        /\ frame'["loop"].path \in {f.path, NoPath}
    BY <1>1, <1>3, DelSetStep, UnlinksFacts
  <2>2. frame["scan"] \in FrameType /\ (frame["scan"].at = "file" => frame["scan"].path \in KgeFiles)
    BY <1>1, FrameFacts DEF Threads, LocalsOK
  <2>3. frame'["scan"] = frame["scan"] \/ (frame["scan"].path \in KgeFiles /\ frame'["scan"].path = frame["scan"].path)
    BY <2>1, <2>2 DEF HeldByScan, FrameType
  <2>4. QED
    BY <1>1, <2>1, <2>3, StillFacts, FilesApart DEF nameMaps, Threads
<1>4. ASSUME NEW w \in Threads, LinkEnd(w) PROVE Off
  <2> PICK f : f = frame[w]
    OBVIOUS
  <2>1. /\ Still /\ UNCHANGED nameMaps /\ f.path \in KgeFiles /\ frame'[w].path = f.path
        /\ \A v \in Threads \ {w} : frame'[v] = frame[v]
    BY <1>1, <1>4, LinkEndStep DEF TakesUp, Alike, nameMaps
  <2>2. QED
    BY <1>1, <2>1, StillFacts, FilesApart DEF nameMaps
<1>5. ASSUME NEW w \in Threads, File(w) PROVE Off
  <2> PICK f : f = frame[w]
    OBVIOUS
  <2>1. /\ Still /\ UNCHANGED nameMaps /\ f.path \in KgeFiles
        /\ \A v \in Threads \ {w} : frame'[v] = frame[v]
        /\ Links(f, frame'[w], f.names, f.ends)
    BY <1>1, <1>5, FileStep
  <2>2. frame'[w].path \in {f.path, NoPath}
    BY <2>1, IdleFrame DEF Links, Alike
  <2>3. QED
    BY <1>1, <2>1, <2>2, StillFacts, FilesApart DEF nameMaps
<1>6. Off
  BY <1>2, <1>3, <1>4, <1>5
<1>7. QED
  BY <1>6, QuietNames

LEMMA ReadingNames ==
  ASSUME NamesInv, BaseInv', Evict \/ EvictRaises \/ \E w \in Threads : Stat(w) \/ Read(w) \/ Put(w)
  PROVE  NamesInv'
<1> DEFINE Off(w) == /\ UNCHANGED index /\ suspect \subseteq suspect' /\ overlaid' = overlaid
                     /\ frame[w].at \notin Naming /\ frame'[w].at \notin Naming
                     /\ \A v \in Threads \ {w} : frame'[v] = frame[v]
<1>1. TypeInv
  BY DEF NamesInv, BaseInv
<1>2. ASSUME NEW w \in Threads, frame[w].path \in Files, frame[w].at \notin Naming, Raise(w), UNCHANGED <<env, index>> PROVE Off(w)
  <2>1. disk' = disk /\ mtime' = mtime
    BY <1>2 DEF env
  <2>2. QED
    BY <1>1, <1>2, <2>1, RaiseStep, IdleFrame DEF Naming
<1>3. ASSUME Evict PROVE Off("loop")
  BY <1>1, <1>3, EvictStep, IdleFrame DEF Naming, GoesOn, history
<1>4. ASSUME EvictRaises PROVE \E w \in Threads : Off(w)
  <2>1. PICK w \in Threads : /\ frame[w].path \in Files /\ frame[w].at \in {"stat", "put", "evict"}
                             /\ Raise(w) /\ UNCHANGED <<env, index>>
    BY <1>1, <1>4, EvictRaisesFacts
  <2>2. QED
    BY <1>2, <2>1 DEF Naming
<1>5. ASSUME NEW w \in Threads, Stat(w) PROVE Off(w)
  BY <1>1, <1>5, StatStep, IdleFrame DEF Naming, GoesOn, history
<1>6. ASSUME NEW w \in Threads, Read(w) PROVE Off(w)
  <2>1. /\ UNCHANGED <<env, index>> /\ frame[w].path \in Files /\ frame[w].at \notin Naming
    BY <1>1, <1>6, ReadStep DEF Naming
  <2>2. CASE Raise(w)
    BY <1>2, <2>1, <2>2
  <2>3. CASE ~Raise(w)
    BY <1>1, <1>6, <2>1, <2>3, ReadStep, IdleFrame DEF Naming, GoesOn, history
  <2>4. QED
    BY <2>2, <2>3
<1>7. ASSUME NEW w \in Threads, Put(w) PROVE Off(w)
  BY <1>1, <1>7, PutStep DEF Naming, GoesOn, history
<1>8. PICK w \in Threads : Off(w)
  BY <1>3, <1>4, <1>5, <1>6, <1>7 DEF Threads
<1>9. QED
  BY <1>8, QuietNames DEF index, nameMaps

\* A thread begins a file; a suspect one that starts over has no entry.
LEMMA BeginNames ==
  ASSUME NamesInv, BaseInv', NEW w \in Threads, NEW p \in Files, NEW why \in {"scan", "created"}, Begin(w, p, why),
         mtime' = mtime, UNCHANGED index, frame[w].at = "idle",
         suspect \ {p} \subseteq suspect', Indexed(p) => p \in suspect', overlaid \subseteq overlaid'
  PROVE  NamesInv'
<1>1. /\ \A v \in Threads \ {w} : frame'[v] = frame[v]
      /\ frame'[w].at = Stage(p)
  BY BeginStep DEF NamesInv, BaseInv
<1>2. frame[w].at \notin Naming /\ frame'[w].at \notin Naming
  BY <1>1 DEF Naming, Stage
<1>3. QED
  BY <1>1, <1>2, QuietNames DEF index, nameMaps

LEMMA StillNames ==
  ASSUME NamesInv, BaseInv', UNCHANGED <<index, frame>>, suspect' = suspect, overlaid' = overlaid
  PROVE  NamesInv'
BY QuietNames DEF index, nameMaps

\* What a handler, or the scan when it turns to a file, does to the two layers
\* that remain is one of four steps.
Popped(p) == /\ Handler /\ mtime' = mtime /\ suspect \ {p} \subseteq suspect' /\ overlaid \subseteq overlaid'
             /\ On("scan", p) => p \in overlaid'
             /\ \E why \in {"changed", "deleted", "edit", "close"} : \E t \in AnyText :
                  Pop(p, why, t) /\ (why = "edit" => p \in KgnFiles)
Begun(w, p) == /\ mtime' = mtime /\ UNCHANGED index /\ frame[w].at = "idle"
               /\ suspect \ {p} \subseteq suspect' /\ (Indexed(p) => p \in suspect') /\ overlaid \subseteq overlaid'
               /\ \E why \in {"scan", "created"} : Begin(w, p, why)
Untouched == UNCHANGED <<index, frame>> /\ suspect' = suspect /\ overlaid' = overlaid

LEMMA HandlerSteps ==
  ASSUME BaseInv, NEW p \in Files,
         \/ ScanNext(p) \/ OnFileCreated(p) \/ OnFileChanged(p) \/ OnFileDeleted(p) \/ DidClose(p)
         \/ \E t \in BufferTexts(p) : DidOpen(p, t) \/ DidChange(p, t)
         \/ \E t \in Texts(p) : Write(p, t)
         \/ Delete(p)
  PROVE  Popped(p) \/ Untouched \/ \E w \in Threads : Begun(w, p)
<1>1. CASE ScanNext(p)
  BY <1>1 DEF ScanNext, Begun, env, Threads
<1>2. CASE OnFileCreated(p)
  BY <1>2, TakeFacts DEF OnFileCreated, StartOver, Begun, Handler, Threads
<1>3. CASE OnFileChanged(p)
  BY <1>3, TakeFacts DEF OnFileChanged, StartOver, Popped, AnyText
<1>4. CASE OnFileDeleted(p)
  BY <1>4, TakeFacts DEF OnFileDeleted, StartOver, Popped, AnyText
<1>5. CASE DidClose(p)
  BY <1>5 DEF DidClose, StartOver, Popped, AnyText
<1>6. ASSUME NEW t \in BufferTexts(p), Edit(p, t) PROVE Popped(p) \/ Untouched
  <2>1. t \in AnyText
    BY DEF BufferTexts, Texts, AnyText
  <2>2. CASE p \in KgnFiles
    BY <1>6, <2>1, <2>2 DEF Edit, StartOver, Popped
  <2>3. CASE p \notin KgnFiles
    BY <1>6, <2>3 DEF Edit, Untouched, history
  <2>4. QED
    BY <2>2, <2>3
<1>7. CASE (\E t \in Texts(p) : Write(p, t)) \/ Delete(p)
  BY <1>7 DEF Write, Delete, Touch, Untouched, history
<1>8. QED
  BY <1>1, <1>2, <1>3, <1>4, <1>5, <1>6, <1>7 DEF DidOpen, DidChange

LEMMA NamesInvariant == Spec => []NamesInv
<1>1. Init => NamesInv
  <2> SUFFICES ASSUME Init PROVE NamesInv
    OBVIOUS
  <2>1. ASSUME NEW p \in KgnFiles PROVE NamesOK(p)
    <3>1. /\ meta[p] = NoId /\ (\A x \in Names : pathOf[x] = NoPath)
          /\ \A w \in Threads : ~On(w, p)
      BY IdleFrame, FilesApart DEF Init, On, Threads
    <3>2. QED
      BY <3>1, FilesApart DEF NamesOK, Named, ToLink, Deletes, Threads
  <2>2. QED
    BY <2>1, InitBase DEF NamesInv
<1>2. NamesInv /\ BaseInv' /\ [Next]_vars => NamesInv'
  <2> SUFFICES ASSUME NamesInv, BaseInv', [Next]_vars PROVE NamesInv'
    OBVIOUS
  <2>1. CASE RemoveStep
    BY <2>1, UnlinkNameNames, DelNameNames, EdgeStepsNames, ReadingNames DEF RemoveStep
  <2>2. ASSUME NEW w \in Threads, IndexStep(w) PROVE NamesInv'
    BY <2>2, LinkNameNames, EnterNames, EdgeStepsNames, ReadingNames DEF IndexStep
  <2>3. CASE ScanStart \/ ScanEnd
    BY <2>3, StillNames DEF ScanStart, ScanEnd, history
  <2>4. ASSUME NEW p \in Files, Popped(p) PROVE NamesInv'
    BY <2>4, PopNames DEF Popped
  <2>5. ASSUME NEW p \in Files, NEW w \in Threads, Begun(w, p) PROVE NamesInv'
    BY <2>5, BeginNames DEF Begun
  <2>6. CASE Untouched
    BY <2>6, StillNames DEF Untouched
  <2>7. CASE UNCHANGED vars
    BY <2>7, StillNames DEF vars, history
  <2>8. QED
    BY <2>1, <2>2, <2>3, <2>4, <2>5, <2>6, <2>7, HandlerSteps DEF Next, NamesInv
<1>3. QED
  BY <1>1, <1>2, BaseInvariant, PTL DEF Spec

\* The id and the slug of an indexed file lead to it, and a file that an id or
\* a slug leads to is indexed with it, however the statements of the scan and
\* of the handlers fell; but for contested names and the files that NamesResolve
\* excepts.
THEOREM NamesLeadToTheirFiles == Spec => []NamesResolve
<1>1. NamesInv => NamesResolve
  <2> SUFFICES ASSUME NamesInv PROVE NamesResolve
    OBVIOUS
  <2>1. ASSUME NEW p \in KgnFiles, meta[p] # NoId, p \notin suspect, Free(p), NEW x \in {Slug[p], meta[p]}, x \notin contested
        PROVE  pathOf[x] = p
    <3>1. Named(p, x) /\ ~ToLink(p, x) /\ x \in Names
      BY <2>1, FilesApart DEF Named, ToLink, Free, NamesInv, BaseInv, TypeInv, IndexTyped
    <3>2. QED
      BY <2>1, <3>1 DEF NamesInv, NamesOK
  <2>2. ASSUME NEW p \in KgnFiles \ overlaid, Free(p), NEW x \in Names, pathOf[x] = p
        PROVE  meta[p] # NoId /\ x \in {Slug[p], meta[p]}
    <3>1. ~ToUnlink(p, x)
      BY <2>2 DEF ToUnlink, Free, Threads
    <3>2. Named(p, x)
      BY <2>2, <3>1 DEF NamesInv, NamesOK
    <3>3. QED
      BY <3>2 DEF Named
  <2>3. ASSUME NEW p \in KgnFiles \ overlaid, Free(p), NEW i \in Ids, pathOf[i] = p PROVE Hover(i) = i
    <3>1. meta[p] = i
      BY <2>2, <2>3, FilesApart
    <3>2. QED
      BY <2>3, <3>1, FilesApart DEF Hover
  <2>4. ASSUME NEW p \in KgnFiles \ overlaid, Free(p), NEW s \in Slugs, pathOf[s] = p PROVE Slug[p] = s /\ meta[p] # NoId
    BY <2>2, <2>4, FilesApart DEF NamesInv, BaseInv, TypeInv, IndexTyped
  <2>5. QED
    BY <2>1, <2>3, <2>4 DEF NamesResolve, Definition
<1>2. QED
  BY <1>1, NamesInvariant, PTL

-----------------------------------------------------------------------------
(***************************************************************************)
(* The back references of a file.                                          *)
(***************************************************************************)
Filing == {"unlink", "del", "link", "file"}

\* The file is indexed with an edge at node i; a thread is still to file it
\* there, or to discard it.
Refers(p, i) == i \in Touches(edgeIndex[p])
EndAt(ends, i) == \E x \in ends : NodeAt(x) = i
ToFile(p, i) == \E w \in Threads :
                  /\ On(w, p)
                  /\ \/ frame[w].at \in {"link", "file"} /\ EndAt(frame[w].ends, i)
                     \/ frame[w].at = "file" /\ frame[w].key = i
ToDrop(p, i) == /\ On("loop", p)
                /\ \/ frame["loop"].at \in {"unlink", "del"} /\ EndAt(frame["loop"].ends, i)
                   \/ frame["loop"].at = "del" /\ frame["loop"].key = i

EdgesOK(p) ==
  /\ \A i \in Ids : p \notin suspect /\ Refers(p, i) => p \in reverseRefs[i] \/ <<p, i>> \in lost \/ ToFile(p, i)
  /\ \A i \in Ids : p \notin overlaid /\ p \in reverseRefs[i] => Refers(p, i) \/ ToDrop(p, i)
  /\ \A i \in Ids : p \notin overlaid /\ ToFile(p, i) => Refers(p, i)

EdgesInv == BaseInv /\ \A p \in KgeFiles : EdgesOK(p)

LEMMA EndsTouch ==
  ASSUME NEW edges \in SUBSET (Ids \X Ids), NEW i
  PROVE  i \in Touches(edges) <=> EndAt(Ends(edges), i)
<1>1. ASSUME i \in Touches(edges) PROVE EndAt(Ends(edges), i)
  <2>1. PICK e \in edges : i \in {e[1], e[2]}
    BY <1>1 DEF Touches
  <2>2. PICK k \in {1, 2} : i = e[k]
    BY <2>1
  <2>3. <<e, k>> \in Ends(edges) /\ NodeAt(<<e, k>>) = i
    BY <2>2 DEF Ends, NodeAt
  <2>4. QED
    BY <2>3 DEF EndAt
<1>2. ASSUME EndAt(Ends(edges), i) PROVE i \in Touches(edges)
  <2>1. PICK x \in Ends(edges) : NodeAt(x) = i
    BY <1>2 DEF EndAt
  <2>2. x[1] \in edges /\ i = x[1][x[2]] /\ x[2] \in {1, 2}
    BY <2>1 DEF Ends, NodeAt
  <2>3. QED
    BY <2>2 DEF Touches
<1>3. QED
  BY <1>1, <1>2

LEMMA EmptyTouches == ASSUME NEW p \in KgeFiles, ~Indexed(p) PROVE \A i : ~Refers(p, i)
BY FilesApart DEF Indexed, Refers, Touches

\* What the invariant sees of file q does not change, but that what is still to
\* be filed under an id may be lost.
SameEdges(q) ==
  /\ \A i \in Ids : /\ Refers(q, i)' <=> Refers(q, i)
                    /\ ToFile(q, i)' => ToFile(q, i)
                    /\ ToFile(q, i) => ToFile(q, i)' \/ <<q, i>> \in lost'
                    /\ ToDrop(q, i)' <=> ToDrop(q, i)
  /\ q \notin suspect' => q \notin suspect \/ ~Indexed(q)
  /\ q \notin overlaid' => q \notin overlaid

LEMMA EdgesSeen ==
  ASSUME NEW q \in KgeFiles, edgeIndex'[q] = edgeIndex[q],
         \A w \in Threads : \/ frame'[w] = frame[w]
                            \/ /\ frame[w].path = q => frame[w].at \notin Filing
                               /\ frame'[w].path = q => frame'[w].at \notin Filing,
         q \notin suspect' => q \notin suspect \/ ~Indexed(q),
         q \notin overlaid' => q \notin overlaid
  PROVE  SameEdges(q)
<1>1. \A i \in Ids : Refers(q, i)' <=> Refers(q, i)
  BY DEF Refers
<1>2. ASSUME NEW i \in Ids PROVE ToFile(q, i)' <=> ToFile(q, i)
  BY DEF ToFile, On, Filing
<1>3. ASSUME NEW i \in Ids PROVE ToDrop(q, i)' <=> ToDrop(q, i)
  BY DEF ToDrop, On, Filing, Threads
<1>4. QED
  BY <1>1, <1>2, <1>3 DEF SameEdges

\* File q is discarded from a set only to be lost.
LEMMA EdgesStay ==
  ASSUME NEW q \in KgeFiles, EdgesOK(q), SameEdges(q),
         \A i \in Ids : /\ <<q, i>> \in lost => <<q, i>> \in lost'
                        /\ q \in reverseRefs'[i] => q \in reverseRefs[i]
                        /\ q \in reverseRefs[i] => q \in reverseRefs'[i] \/ <<q, i>> \in lost'
  PROVE  EdgesOK(q)'
<1>1. ASSUME NEW i \in Ids, q \notin suspect', Refers(q, i)' PROVE (q \in reverseRefs[i] \/ <<q, i>> \in lost \/ ToFile(q, i))'
  <2>1. Refers(q, i) /\ q \notin suspect
    BY <1>1, EmptyTouches DEF SameEdges
  <2>2. q \in reverseRefs[i] \/ <<q, i>> \in lost \/ ToFile(q, i)
    BY <2>1 DEF EdgesOK
  <2>3. QED
    BY <2>2 DEF SameEdges
<1>2. ASSUME NEW i \in Ids, q \notin overlaid', q \in reverseRefs'[i] PROVE (Refers(q, i) \/ ToDrop(q, i))'
  BY <1>2 DEF EdgesOK, SameEdges
<1>3. ASSUME NEW i \in Ids, q \notin overlaid', ToFile(q, i)' PROVE Refers(q, i)'
  BY <1>3 DEF EdgesOK, SameEdges
<1>4. QED
  BY <1>1, <1>2, <1>3 DEF EdgesOK

\* A step that concerns no back references.
LEMMA QuietEdges ==
  ASSUME EdgesInv, BaseInv', reverseRefs' = reverseRefs, lost' = lost,
         \A q \in KgeFiles : edgeIndex'[q] = edgeIndex[q],
         \A w \in Threads : \/ frame'[w] = frame[w]
                            \/ /\ frame[w].path \in KgeFiles => frame[w].at \notin Filing
                               /\ frame'[w].path \in KgeFiles => frame'[w].at \notin Filing,
         \A q \in KgeFiles : q \in suspect /\ q \notin suspect' => ~Indexed(q),
         overlaid \subseteq overlaid'
  PROVE  EdgesInv'
<1> SUFFICES ASSUME NEW q \in KgeFiles PROVE EdgesOK(q)'
  BY DEF EdgesInv
<1>1. SameEdges(q)
  BY EdgesSeen
<1>2. QED
  BY <1>1, EdgesStay DEF EdgesInv

\* A step of thread w that concerns back references, of file p.
SameRefs(q) == \A i \in Ids : /\ <<q, i>> \in lost => <<q, i>> \in lost'
                              /\ q \in reverseRefs'[i] <=> q \in reverseRefs[i]

LEMMA EdgesSteps ==
  ASSUME EdgesInv, BaseInv', NEW w \in Threads, NEW p \in KgeFiles,
         frame[w].path \in {p, NoPath}, frame'[w].path \in {p, NoPath},
         \A v \in Threads \ {w} : frame'[v] = frame[v],
         \A q \in KgeFiles \ {p} : edgeIndex'[q] = edgeIndex[q],
         suspect \ {p} \subseteq suspect', overlaid \subseteq overlaid',
         \A q \in KgeFiles \ {p} : SameRefs(q),
         EdgesOK(p)'
  PROVE  EdgesInv'
<1> SUFFICES ASSUME NEW q \in KgeFiles \ {p} PROVE EdgesOK(q)'
  BY DEF EdgesInv
<1>1. frame[w].path # q /\ frame'[w].path # q
  BY FilesApart
<1>2. SameEdges(q)
  BY <1>1, EdgesSeen
<1>3. QED
  BY <1>2, EdgesStay DEF EdgesInv, SameRefs

LEMMA UnlinkEndEdges == ASSUME EdgesInv, BaseInv', UnlinkEnd PROVE EdgesInv'
<1> PICK f : f = frame["loop"]
  OBVIOUS
<1> PICK p : p = f.path
  OBVIOUS
<1>1. /\ Still /\ lost' = lost /\ f.at = "unlink" /\ p \in KgeFiles /\ p \in Files
      /\ frame'["scan"] = frame["scan"]
  BY UnlinkEndStep, FilesApart DEF EdgesInv, BaseInv
<1>2. PICK x \in f.ends :
              /\ NodeAt(x) \in Ids
              /\ reverseRefs' = [reverseRefs EXCEPT ![NodeAt(x)] = @ \ {f.path}]
              /\ \/ TakesUp(f, frame'["loop"], "del", NodeAt(x), f.names, f.ends \ {x})
                 \/ Unlinks(f, frame'["loop"], f.names, f.ends \ {x})
  BY UnlinkEndStep DEF EdgesInv, BaseInv
<1>3. /\ reverseRefs'[NodeAt(x)] = reverseRefs[NodeAt(x)] \ {p}
      /\ \A i \in Ids \ {NodeAt(x)} : reverseRefs'[i] = reverseRefs[i]
  BY <1>2 DEF EdgesInv, BaseInv, TypeInv, IndexTyped
<1>4. edgeIndex' = edgeIndex /\ suspect' = suspect /\ overlaid' = overlaid
  BY <1>1, StillFacts
<1>5. "loop" \in Threads /\ (\A v \in Threads \ {"loop"} : v = "scan" /\ frame'[v] = frame[v])
  BY <1>1 DEF Threads
<1>6. /\ frame'["loop"].path \in {p, NoPath}
      /\ frame'["loop"].at \in {"unlink", "del"} => frame'["loop"].ends = f.ends \ {x}
      /\ frame'["loop"].at = "del" => frame'["loop"].key = NodeAt(x)
      /\ f.ends \ {x} # {} => frame'["loop"].path = p /\ frame'["loop"].at \in {"unlink", "del"}
  <2>1. CASE TakesUp(f, frame'["loop"], "del", NodeAt(x), f.names, f.ends \ {x})
    BY <2>1 DEF TakesUp, Alike
  <2>2. CASE Unlinks(f, frame'["loop"], f.names, f.ends \ {x})
    BY <2>2, UnlinksFacts
  <2>3. QED
    BY <1>2, <2>1, <2>2
<1>7. frame'["loop"].at \notin {"link", "file"}
  <2>1. CASE TakesUp(f, frame'["loop"], "del", NodeAt(x), f.names, f.ends \ {x})
    BY <2>1 DEF TakesUp
  <2>2. CASE Unlinks(f, frame'["loop"], f.names, f.ends \ {x})
    BY <2>2, IdleFrame DEF Unlinks, After, Stage
  <2>3. QED
    BY <1>2, <2>1, <2>2
<1>8. \A i \in Ids : ToFile(p, i)' <=> ToFile(p, i)
  BY <1>1, <1>5, <1>7 DEF ToFile, On
<1>9. \A i \in Ids : Refers(p, i)' <=> Refers(p, i)
  BY <1>4 DEF Refers
<1>10. \A i \in Ids : ToDrop(p, i) /\ i # NodeAt(x) => ToDrop(p, i)'
  <2> SUFFICES ASSUME NEW i \in Ids, ToDrop(p, i), i # NodeAt(x) PROVE ToDrop(p, i)'
    OBVIOUS
  <2>1. PICK y \in f.ends : NodeAt(y) = i
    BY <1>1 DEF ToDrop, EndAt
  <2>2. y \in f.ends \ {x}
    BY <2>1
  <2>3. QED
    BY <1>6, <2>1, <2>2 DEF ToDrop, EndAt, On
<1>11. p \notin suspect => \A i \in Ids : ~Refers(p, i)
  BY <1>1, EmptyTouches DEF EdgesInv, BaseInv, Emptied, Marked, On
<1>12. EdgesOK(p)'
  BY <1>1, <1>3, <1>4, <1>8, <1>9, <1>10, <1>11 DEF EdgesOK, EdgesInv
<1>13. \A q \in KgeFiles \ {p} : SameRefs(q)
  BY <1>1, <1>3 DEF SameRefs
<1>14. QED
  BY <1>1, <1>4, <1>5, <1>6, <1>12, <1>13, EdgesSteps

LEMMA DelSetEdges == ASSUME EdgesInv, BaseInv', DelSet PROVE EdgesInv'
<1> PICK f : f = frame["loop"]
  OBVIOUS
<1> PICK p : p = f.path
  OBVIOUS
<1> PICK i : i = f.key
  OBVIOUS
<1>1. /\ Still /\ f.at = "del" /\ p \in KgeFiles /\ p \in Files
      /\ reverseRefs' = [reverseRefs EXCEPT ![i] = {}]
      /\ lost' = lost \cup ((reverseRefs[i] \cup HeldFor(i)) \X {i})
      /\ Unlinks(f, frame'["loop"], f.names, f.ends)
      /\ frame'["scan"] = IF HeldByScan(i) THEN [frame["scan"] EXCEPT !.key = NoId] ELSE frame["scan"]
  BY DelSetStep, FilesApart DEF EdgesInv, BaseInv
<1>2. /\ i \in Ids /\ frame["scan"] \in FrameType /\ "loop" \in Threads /\ "scan" \in Threads
      /\ \A v \in Threads : v = "loop" \/ v = "scan"
  BY <1>1, FrameFacts DEF EdgesInv, BaseInv, LocalsOK, Threads
<1>3. reverseRefs'[i] = {} /\ \A j \in Ids \ {i} : reverseRefs'[j] = reverseRefs[j]
  BY <1>1, <1>2 DEF EdgesInv, BaseInv, TypeInv, IndexTyped
<1>4. edgeIndex' = edgeIndex /\ suspect' = suspect /\ overlaid' = overlaid
  BY <1>1, StillFacts
<1>5. /\ frame'["scan"].path = frame["scan"].path /\ frame'["scan"].at = frame["scan"].at
      /\ frame'["scan"].ends = frame["scan"].ends
      /\ frame'["scan"].key = IF HeldByScan(i) THEN NoId ELSE frame["scan"].key
  BY <1>1, <1>2 DEF FrameType
<1>6. /\ frame'["loop"].path \in {p, NoPath} /\ frame'["loop"].at \notin {"link", "file", "del"}
      /\ frame'["loop"].at = "unlink" => frame'["loop"].ends = f.ends
      /\ f.ends # {} => frame'["loop"].path = p /\ frame'["loop"].at = "unlink"
  BY <1>1, UnlinksFacts, IdleFrame DEF Unlinks, Alike, After, Stage
<1>7. \A q \in KgeFiles : \A j \in Ids : ToFile(q, j)' => ToFile(q, j)
  <2> SUFFICES ASSUME NEW q \in KgeFiles, NEW j \in Ids, ToFile(q, j)' PROVE ToFile(q, j)
    OBVIOUS
  <2>1. /\ frame'["scan"].path = q
        /\ \/ frame'["scan"].at \in {"link", "file"} /\ EndAt(frame'["scan"].ends, j)
           \/ frame'["scan"].at = "file" /\ frame'["scan"].key = j
    BY <1>2, <1>6 DEF ToFile, On
  <2>2. /\ frame["scan"].path = q
        /\ \/ frame["scan"].at \in {"link", "file"} /\ EndAt(frame["scan"].ends, j)
           \/ frame["scan"].at = "file" /\ frame["scan"].key = j
    BY <1>5, <2>1, FilesApart
  <2>3. QED
    BY <1>2, <2>2 DEF ToFile, On
<1>8. \A q \in KgeFiles : \A j \in Ids : ToFile(q, j) => ToFile(q, j)' \/ <<q, j>> \in lost'
  <2> SUFFICES ASSUME NEW q \in KgeFiles, NEW j \in Ids, ToFile(q, j), <<q, j>> \notin lost' PROVE ToFile(q, j)'
    OBVIOUS
  <2>1. /\ frame["scan"].path = q
        /\ \/ frame["scan"].at \in {"link", "file"} /\ EndAt(frame["scan"].ends, j)
           \/ frame["scan"].at = "file" /\ frame["scan"].key = j
    BY <1>1, <1>2 DEF ToFile, On
  <2>2. HeldByScan(i) => <<q, i>> \in lost'
    BY <1>1, <2>1 DEF HeldFor
  <2>3. frame["scan"].at = "file" /\ frame["scan"].key = j => ~HeldByScan(i)
    BY <2>2 DEF HeldByScan
  <2>4. /\ frame'["scan"].path = q
        /\ \/ frame'["scan"].at \in {"link", "file"} /\ EndAt(frame'["scan"].ends, j)
           \/ frame'["scan"].at = "file" /\ frame'["scan"].key = j
    BY <1>5, <2>1, <2>3
  <2>5. QED
    BY <1>2, <2>4 DEF ToFile, On
<1>9. ASSUME NEW q \in KgeFiles, NEW j \in Ids
      PROVE  /\ <<q, j>> \in lost => <<q, j>> \in lost'
             /\ q \in reverseRefs'[j] => q \in reverseRefs[j]
             /\ q \in reverseRefs[j] => q \in reverseRefs'[j] \/ <<q, j>> \in lost'
  BY <1>1, <1>3
<1>10. ASSUME NEW q \in KgeFiles, q # p PROVE EdgesOK(q)'
  <2>1. \A j \in Ids : ~ToDrop(q, j) /\ ~ToDrop(q, j)'
    BY <1>6, <1>10, FilesApart DEF ToDrop, On
  <2>2. \A j \in Ids : Refers(q, j)' <=> Refers(q, j)
    BY <1>4 DEF Refers
  <2>3. SameEdges(q)
    BY <1>4, <1>7, <1>8, <2>1, <2>2 DEF SameEdges
  <2>4. QED
    BY <1>9, <2>3, EdgesStay DEF EdgesInv
<1>11. EdgesOK(p)'
  <2>1. p \notin suspect => \A j \in Ids : ~Refers(p, j)
    BY <1>1, EmptyTouches DEF EdgesInv, BaseInv, Emptied, Marked, On
  <2>2. \A j \in Ids : Refers(p, j)' <=> Refers(p, j)
    BY <1>4 DEF Refers
  <2>3. \A j \in Ids : ToDrop(p, j) /\ j # i => ToDrop(p, j)'
    <3> SUFFICES ASSUME NEW j \in Ids, ToDrop(p, j), j # i PROVE ToDrop(p, j)'
      OBVIOUS
    <3>1. EndAt(f.ends, j) /\ f.ends # {}
      BY <1>1 DEF ToDrop, EndAt
    <3>2. QED
      BY <1>6, <3>1 DEF ToDrop, On
  <2>4. EdgesOK(p)
    BY <1>1 DEF EdgesInv
  <2>5. ASSUME NEW j \in Ids, p \notin overlaid', p \in reverseRefs'[j] PROVE (Refers(p, j) \/ ToDrop(p, j))'
    BY <1>3, <1>4, <2>2, <2>3, <2>4, <2>5 DEF EdgesOK
  <2>6. QED
    BY <1>1, <1>4, <1>7, <2>1, <2>2, <2>4, <2>5 DEF EdgesOK
<1>12. QED
  BY <1>10, <1>11 DEF EdgesInv

LEMMA LinkEndEdges == ASSUME EdgesInv, BaseInv', NEW w \in Threads, LinkEnd(w) PROVE EdgesInv'
<1> PICK f : f = frame[w]
  OBVIOUS
<1> PICK p : p = f.path
  OBVIOUS
<1>1. /\ Still /\ reverseRefs' = reverseRefs /\ lost' = lost /\ f.at = "link" /\ p \in KgeFiles
      /\ \A v \in Threads \ {w} : frame'[v] = frame[v]
  BY LinkEndStep DEF EdgesInv, BaseInv, edgeMaps
<1>2. PICK x \in f.ends : NodeAt(x) \in Ids /\ TakesUp(f, frame'[w], "file", NodeAt(x), f.names, f.ends \ {x})
  BY LinkEndStep DEF EdgesInv, BaseInv
<1>3. /\ frame'[w].path = p /\ frame'[w].at = "file" /\ frame'[w].key = NodeAt(x) /\ frame'[w].ends = f.ends \ {x}
  BY <1>2 DEF TakesUp, Alike
<1>4. edgeIndex' = edgeIndex /\ suspect' = suspect /\ overlaid' = overlaid
  BY <1>1, StillFacts
<1>5. \A i \in Ids : EndAt(f.ends, i) <=> EndAt(f.ends \ {x}, i) \/ NodeAt(x) = i
  BY <1>2 DEF EndAt
<1>6. \A i \in Ids : ToFile(p, i)' <=> ToFile(p, i)
  <2> SUFFICES ASSUME NEW i \in Ids,
                      NEW v \in Threads
               PROVE  (/\ frame'[v].path = p
                       /\ \/ frame'[v].at \in {"link", "file"} /\ EndAt(frame'[v].ends, i)
                          \/ frame'[v].at = "file" /\ frame'[v].key = i)
                      <=> (/\ frame[v].path = p
                           /\ \/ frame[v].at \in {"link", "file"} /\ EndAt(frame[v].ends, i)
                              \/ frame[v].at = "file" /\ frame[v].key = i)
    BY DEF ToFile, On
  <2>1. CASE v # w
    BY <1>1, <2>1
  <2>2. CASE v = w
    BY <1>1, <1>3, <1>5, <2>2
  <2>3. QED
    BY <2>1, <2>2
<1>7. \A i \in Ids : ToDrop(p, i)' <=> ToDrop(p, i)
  BY <1>1, <1>3 DEF ToDrop, On, Threads
<1>8. SameEdges(p)
  BY <1>4, <1>6, <1>7 DEF SameEdges, Refers
<1>9. EdgesOK(p)'
  BY <1>1, <1>8, EdgesStay DEF EdgesInv
<1>10. \A q \in KgeFiles \ {p} : SameRefs(q)
  BY <1>1 DEF SameRefs
<1>11. QED
  BY <1>1, <1>3, <1>4, <1>9, <1>10, EdgesSteps

LEMMA FileEdges == ASSUME EdgesInv, BaseInv', NEW w \in Threads, File(w) PROVE EdgesInv'
<1> PICK f : f = frame[w]
  OBVIOUS
<1> PICK p : p = f.path
  OBVIOUS
<1>1. /\ Still /\ f.at = "file" /\ p \in KgeFiles
      /\ \A v \in Threads \ {w} : frame'[v] = frame[v]
      /\ Links(f, frame'[w], f.names, f.ends)
      /\ \/ f.key = NoId /\ UNCHANGED edgeMaps
         \/ /\ f.key \in Ids
            /\ reverseRefs' = [reverseRefs EXCEPT ![f.key] = @ \cup {f.path}]
            /\ lost' = lost \ {<<f.path, f.key>>}
  BY FileStep DEF EdgesInv, BaseInv
<1>2. \A i \in Ids : /\ reverseRefs'[i] = IF i = f.key THEN reverseRefs[i] \cup {p} ELSE reverseRefs[i]
                     /\ \A q \in KgeFiles : <<q, i>> \in lost' \/ (q = p /\ i = f.key) <=>
                                            <<q, i>> \in lost \/ (q = p /\ i = f.key)
  BY <1>1, FilesApart DEF EdgesInv, BaseInv, TypeInv, IndexTyped, edgeMaps
<1>3. edgeIndex' = edgeIndex /\ suspect' = suspect /\ overlaid' = overlaid
  BY <1>1, StillFacts
<1>4. /\ frame'[w].path \in {p, NoPath} /\ frame'[w].at \in {"link", "idle"}
      /\ frame'[w].at = "link" => frame'[w].ends = f.ends
      /\ f.ends # {} => frame'[w].path = p /\ frame'[w].at = "link"
  BY <1>1, IdleFrame DEF Links, Alike
<1>5. \A i \in Ids : ToFile(p, i)' => ToFile(p, i)
  <2> SUFFICES ASSUME NEW i \in Ids, NEW v \in Threads, frame'[v].path = p,
                      \/ frame'[v].at \in {"link", "file"} /\ EndAt(frame'[v].ends, i)
                      \/ frame'[v].at = "file" /\ frame'[v].key = i
               PROVE  ToFile(p, i)
    BY DEF ToFile, On
  <2>1. CASE v # w
    BY <1>1, <2>1 DEF ToFile, On
  <2>2. CASE v = w
    BY <1>1, <1>4, <2>2 DEF ToFile, On
  <2>3. QED
    BY <2>1, <2>2
<1>6. \A i \in Ids : ToFile(p, i) /\ i # f.key => ToFile(p, i)'
  <2> SUFFICES ASSUME NEW i \in Ids, i # f.key, NEW v \in Threads, frame[v].path = p,
                      \/ frame[v].at \in {"link", "file"} /\ EndAt(frame[v].ends, i)
                      \/ frame[v].at = "file" /\ frame[v].key = i
               PROVE  ToFile(p, i)'
    BY DEF ToFile, On
  <2>1. CASE v # w
    BY <1>1, <2>1 DEF ToFile, On
  <2>2. CASE v = w
    <3>1. EndAt(f.ends, i) /\ f.ends # {}
      BY <2>2 DEF EndAt
    <3>2. QED
      BY <1>4, <3>1 DEF ToFile, On
  <2>3. QED
    BY <2>1, <2>2
<1>7. \A i \in Ids : ToDrop(p, i)' <=> ToDrop(p, i)
  BY <1>1, <1>4 DEF ToDrop, On, Threads
<1>8. \A i \in Ids : Refers(p, i)' <=> Refers(p, i)
  BY <1>3 DEF Refers
<1>9. \A i \in Ids : i = f.key => ToFile(p, i)
  BY <1>1 DEF ToFile, On
<1>10. EdgesOK(p)
  BY <1>1 DEF EdgesInv
<1>11. EdgesOK(p)'
  <2>1. ASSUME NEW i \in Ids, p \notin suspect, Refers(p, i) PROVE (p \in reverseRefs[i] \/ <<p, i>> \in lost \/ ToFile(p, i))'
    <3>1. p \in reverseRefs[i] \/ <<p, i>> \in lost \/ ToFile(p, i)
      BY <1>10, <2>1 DEF EdgesOK
    <3>2. QED
      BY <1>1, <1>2, <1>6, <3>1
  <2>2. ASSUME NEW i \in Ids, p \notin overlaid, p \in reverseRefs'[i] PROVE Refers(p, i) \/ ToDrop(p, i)
    BY <1>2, <1>9, <1>10, <2>2 DEF EdgesOK
  <2>3. QED
    BY <1>3, <1>5, <1>7, <1>8, <1>10, <2>1, <2>2 DEF EdgesOK
<1>12. \A q \in KgeFiles \ {p} : SameRefs(q)
  BY <1>2 DEF SameRefs
<1>13. QED
  BY <1>1, <1>3, <1>4, <1>11, <1>12, EdgesSteps

LEMMA EnterEdges == ASSUME EdgesInv, BaseInv', NEW w \in Threads, Enter(w) PROVE EdgesInv'
<1> PICK f : f = frame[w]
  OBVIOUS
<1> PICK p : p = f.path
  OBVIOUS
<1>1. /\ reverseRefs' = reverseRefs /\ lost' = lost /\ f.at = "enter" /\ p \in Files
      /\ \A v \in Threads \ {w} : frame'[v] = frame[v]
      /\ suspect' = IF Indexed(p) THEN suspect \cup {p} ELSE suspect
      /\ overlaid \subseteq overlaid' /\ TypeInv
      /\ \/ /\ p \in KgnFiles /\ edgeIndex' = edgeIndex /\ (frame'[w] = Idle \/ Alike(f, frame'[w]))
         \/ /\ p \in KgeFiles /\ f.text \in EdgeTexts
            /\ edgeIndex' = [edgeIndex EXCEPT ![p] = EdgesIn[f.text]]
            /\ overlaid' = IF Indexed(p) THEN overlaid \cup {p} ELSE overlaid
            /\ Links(f, frame'[w], {}, Ends(EdgesIn[f.text]))
  BY EnterStep DEF EdgesInv, BaseInv, edgeMaps
<1>2. CASE p \in KgnFiles /\ edgeIndex' = edgeIndex /\ (frame'[w] = Idle \/ Alike(f, frame'[w]))
  <2>1. frame[w].path \notin KgeFiles /\ frame'[w].path \notin KgeFiles
    BY <1>2, IdleFrame, FilesApart DEF Alike
  <2>2. \A v \in Threads : \/ frame'[v] = frame[v]
                           \/ /\ frame[v].path \in KgeFiles => frame[v].at \notin Filing
                              /\ frame'[v].path \in KgeFiles => frame'[v].at \notin Filing
    BY <1>1, <2>1
  <2>3. QED
    BY <1>1, <1>2, <2>2, QuietEdges
<1>3. CASE /\ p \in KgeFiles /\ f.text \in EdgeTexts
           /\ edgeIndex' = [edgeIndex EXCEPT ![p] = EdgesIn[f.text]]
           /\ overlaid' = IF Indexed(p) THEN overlaid \cup {p} ELSE overlaid
           /\ Links(f, frame'[w], {}, Ends(EdgesIn[f.text]))
  <2>1. /\ edgeIndex'[p] = EdgesIn[f.text] /\ EdgesIn[f.text] \in SUBSET (Ids \X Ids)
        /\ \A q \in KgeFiles \ {p} : edgeIndex'[q] = edgeIndex[q]
    BY <1>1, <1>3, TextFacts DEF TypeInv, IndexTyped
  <2>2. \A i : Refers(p, i)' <=> EndAt(Ends(EdgesIn[f.text]), i)
    BY <2>1, EndsTouch DEF Refers
  <2>3. /\ frame'[w].path \in {p, NoPath} /\ frame'[w].at \in {"link", "idle"}
        /\ frame'[w].at = "link" => frame'[w].ends = Ends(EdgesIn[f.text])
        /\ Ends(EdgesIn[f.text]) # {} => frame'[w].path = p /\ frame'[w].at = "link"
    BY <1>3, IdleFrame DEF Links, Alike
  <2>4. \A i \in Ids : Refers(p, i)' => ToFile(p, i)'
    <3> SUFFICES ASSUME NEW i \in Ids, EndAt(Ends(EdgesIn[f.text]), i) PROVE ToFile(p, i)'
      BY <2>2
    <3>1. Ends(EdgesIn[f.text]) # {}
      BY DEF EndAt
    <3>2. QED
      BY <2>3, <3>1 DEF ToFile, On
  <2>5. p \notin overlaid' => \A v \in Threads \ {w} : frame[v].path # p
    BY <1>1 DEF EdgesInv, BaseInv, Crossed, On, Marked, Threads
  <2>6. ASSUME p \notin overlaid' PROVE \A i \in Ids : ~ToDrop(p, i) /\ ~Refers(p, i)
    <3>1. ~Indexed(p)
      BY <1>3, <2>6
    <3>2. \A i \in Ids : ~ToDrop(p, i)
      BY <1>1, <2>5, <2>6 DEF ToDrop, On, Threads
    <3>3. QED
      BY <1>3, <3>1, <3>2, EmptyTouches
  <2>7. \A i \in Ids : p \notin overlaid' => p \notin reverseRefs[i]
    BY <1>1, <1>3, <2>6 DEF EdgesInv, EdgesOK
  <2>8. \A i \in Ids : p \notin overlaid' /\ ToFile(p, i)' => Refers(p, i)'
    BY <1>1, <2>2, <2>3, <2>5 DEF ToFile, On
  <2>9. EdgesOK(p)'
    BY <1>1, <2>4, <2>7, <2>8 DEF EdgesOK
  <2>10. \A q \in KgeFiles \ {p} : SameRefs(q)
    BY <1>1 DEF SameRefs
  <2>11. QED
    BY <1>1, <1>3, <2>1, <2>3, <2>9, <2>10, EdgesSteps
<1>4. QED
  BY <1>1, <1>2, <1>3

LEMMA PopEdges ==
  ASSUME EdgesInv, BaseInv', NEW p \in Files, NEW why \in {"changed", "deleted", "edit", "close"},
         why = "edit" => p \in KgnFiles, NEW t \in AnyText, Handler, Pop(p, why, t), mtime' = mtime,
         suspect \ {p} \subseteq suspect', overlaid \subseteq overlaid', On("scan", p) => p \in overlaid'
  PROVE  EdgesInv'
<1>1. TypeInv /\ frame["loop"].path = NoPath /\ "loop" \in Threads
  BY IdleNowhere DEF EdgesInv, BaseInv, Handler, Threads
<1>2. /\ reverseRefs' = reverseRefs /\ lost' = lost
      /\ frame'["scan"] = frame["scan"] /\ ~Indexed(p)' /\ \A q \in Files \ {p} : SameEntry(q)
      /\ \E f : f.path = p /\ f.why = why /\ f.text = t /\ Unlinks(f, frame'["loop"], NamesOf(p), EndsOf(p))
  BY <1>1, PopStep DEF edgeMaps
<1>3. \A v \in Threads \ {"loop"} : v = "scan" /\ frame'[v] = frame[v]
  BY <1>2 DEF Threads
<1>4. PICK f : f.path = p /\ Unlinks(f, frame'["loop"], NamesOf(p), EndsOf(p))
  BY <1>2
<1>5. frame'["loop"].path \in {p, NoPath} /\ frame'["loop"].at \notin {"link", "file", "del"}
  BY <1>4, UnlinksFacts, IdleFrame DEF Unlinks, After, Stage
<1>6. CASE p \in KgeFiles
  <2>1. \A i \in Ids : ~Refers(p, i)'
    BY <1>2, <1>6, FilesApart DEF Indexed, Refers, Touches
  <2>2. \A i \in Ids : p \notin overlaid' => ~ToFile(p, i)'
    BY <1>3, <1>5 DEF ToFile, On
  <2>3. ASSUME NEW i \in Ids, p \notin overlaid', p \in reverseRefs[i] PROVE ToDrop(p, i)'
    <3>1. Refers(p, i)
      BY <1>1, <1>6, <2>3, FilesApart DEF EdgesInv, EdgesOK, ToDrop, On
    <3>2. edgeIndex[p] \in SUBSET (Ids \X Ids)
      BY <1>1, <1>6 DEF TypeInv, IndexTyped
    <3>3. EndAt(EndsOf(p), i)
      BY <1>6, <3>1, <3>2, EndsTouch DEF Refers, EndsOf
    <3>4. frame'["loop"].path = p /\ frame'["loop"].at = "unlink" /\ frame'["loop"].ends = EndsOf(p)
      BY <1>4, <3>3 DEF Unlinks, Alike, EndAt
    <3>5. QED
      BY <3>3, <3>4 DEF ToDrop, On
  <2>4. EdgesOK(p)'
    BY <1>2, <2>1, <2>2, <2>3 DEF EdgesOK
  <2>5. \A q \in KgeFiles \ {p} : edgeIndex'[q] = edgeIndex[q]
    BY <1>2, FilesApart DEF SameEntry
  <2>6. \A q \in KgeFiles \ {p} : SameRefs(q)
    BY <1>2 DEF SameRefs
  <2>7. QED
    BY <1>1, <1>2, <1>3, <1>5, <1>6, <2>4, <2>5, <2>6, EdgesSteps
<1>7. CASE p \notin KgeFiles
  <2>1. \A q \in KgeFiles : edgeIndex'[q] = edgeIndex[q]
    BY <1>2, <1>7, FilesApart DEF SameEntry
  <2>2. \A w \in Threads : \/ frame'[w] = frame[w]
                           \/ /\ frame[w].path \in KgeFiles => frame[w].at \notin Filing
                              /\ frame'[w].path \in KgeFiles => frame'[w].at \notin Filing
    BY <1>1, <1>3, <1>5, <1>7, FilesApart
  <2>3. QED
    BY <1>2, <1>7, <2>1, <2>2, QuietEdges
<1>8. QED
  BY <1>6, <1>7

\* The steps that concern no back references.
LEMMA NameStepsEdges ==
  ASSUME EdgesInv, BaseInv', UnlinkName \/ DelName \/ \E w \in Threads : LinkName(w)
  PROVE  EdgesInv'
<1> DEFINE Off == /\ reverseRefs' = reverseRefs /\ lost' = lost /\ edgeIndex' = edgeIndex
                  /\ suspect' = suspect /\ overlaid' = overlaid
                  /\ \A v \in Threads : \/ frame'[v] = frame[v]
                                        \/ frame[v].path \notin KgeFiles /\ frame'[v].path \notin KgeFiles
<1>1. TypeInv /\ NoPath \notin KgeFiles
  BY FilesApart DEF EdgesInv, BaseInv
<1>2. ASSUME UnlinkName PROVE Off
  <2> PICK f : f = frame["loop"]
    OBVIOUS
  <2>1. Still /\ UNCHANGED edgeMaps /\ f.path \in KgnFiles /\ frame'["scan"] = frame["scan"]
    BY <1>1, <1>2, UnlinkNameStep DEF edgeMaps
  <2>2. PICK x \in f.names : \/ TakesUp(f, frame'["loop"], "del", x, f.names \ {x}, f.ends)
                             \/ Unlinks(f, frame'["loop"], f.names \ {x}, f.ends)
    BY <1>1, <1>2, UnlinkNameStep
  <2>3. frame'["loop"].path \in {f.path, NoPath}
    BY <2>2, UnlinksFacts DEF TakesUp, Alike
  <2>4. QED
    BY <1>1, <2>1, <2>3, StillFacts, FilesApart DEF edgeMaps, Threads
<1>3. ASSUME DelName PROVE Off
  <2> PICK f : f = frame["loop"]
    OBVIOUS
  <2>1. /\ Still /\ UNCHANGED edgeMaps /\ f.path \in KgnFiles /\ frame'["scan"] = frame["scan"]
        /\ frame'["loop"].path \in {f.path, NoPath}
    BY <1>1, <1>3, DelNameStep, UnlinksFacts DEF edgeMaps
  <2>2. QED
    BY <1>1, <2>1, StillFacts, FilesApart DEF edgeMaps, Threads
<1>4. ASSUME NEW w \in Threads, LinkName(w) PROVE Off
  <2> PICK f : f = frame[w]
    OBVIOUS
  <2>1. /\ Still /\ UNCHANGED edgeMaps /\ f.path \in KgnFiles
        /\ \A v \in Threads \ {w} : frame'[v] = frame[v]
        /\ \E x \in f.names : Links(f, frame'[w], f.names \ {x}, f.ends)
    BY <1>1, <1>4, LinkNameStep
  <2>2. frame'[w].path \in {f.path, NoPath}
    BY <2>1, IdleFrame DEF Links, Alike
  <2>3. QED
    BY <1>1, <2>1, <2>2, StillFacts, FilesApart DEF edgeMaps
<1>5. Off
  BY <1>2, <1>3, <1>4
<1>6. QED
  BY <1>5, QuietEdges

LEMMA ReadingEdges ==
  ASSUME EdgesInv, BaseInv', Evict \/ EvictRaises \/ \E w \in Threads : Stat(w) \/ Read(w) \/ Put(w)
  PROVE  EdgesInv'
<1> DEFINE Off(w) == /\ UNCHANGED index /\ suspect \subseteq suspect' /\ overlaid' = overlaid
                     /\ frame[w].at \notin Filing /\ frame'[w].at \notin Filing
                     /\ \A v \in Threads \ {w} : frame'[v] = frame[v]
<1>1. TypeInv
  BY DEF EdgesInv, BaseInv
<1>2. ASSUME NEW w \in Threads, frame[w].path \in Files, frame[w].at \notin Filing, Raise(w), UNCHANGED <<env, index>> PROVE Off(w)
  <2>1. disk' = disk /\ mtime' = mtime
    BY <1>2 DEF env
  <2>2. QED
    BY <1>1, <1>2, <2>1, RaiseStep, IdleFrame DEF Filing
<1>3. ASSUME Evict PROVE Off("loop")
  BY <1>1, <1>3, EvictStep, IdleFrame DEF Filing, GoesOn, history
<1>4. ASSUME EvictRaises PROVE \E w \in Threads : Off(w)
  <2>1. PICK w \in Threads : /\ frame[w].path \in Files /\ frame[w].at \in {"stat", "put", "evict"}
                             /\ Raise(w) /\ UNCHANGED <<env, index>>
    BY <1>1, <1>4, EvictRaisesFacts
  <2>2. QED
    BY <1>2, <2>1 DEF Filing
<1>5. ASSUME NEW w \in Threads, Stat(w) PROVE Off(w)
  BY <1>1, <1>5, StatStep, IdleFrame DEF Filing, GoesOn, history
<1>6. ASSUME NEW w \in Threads, Read(w) PROVE Off(w)
  <2>1. /\ UNCHANGED <<env, index>> /\ frame[w].path \in Files /\ frame[w].at \notin Filing
    BY <1>1, <1>6, ReadStep DEF Filing
  <2>2. CASE Raise(w)
    BY <1>2, <2>1, <2>2
  <2>3. CASE ~Raise(w)
    BY <1>1, <1>6, <2>1, <2>3, ReadStep, IdleFrame DEF Filing, GoesOn, history
  <2>4. QED
    BY <2>2, <2>3
<1>7. ASSUME NEW w \in Threads, Put(w) PROVE Off(w)
  BY <1>1, <1>7, PutStep DEF Filing, GoesOn, history
<1>8. PICK w \in Threads : Off(w)
  BY <1>3, <1>4, <1>5, <1>6, <1>7 DEF Threads
<1>9. QED
  BY <1>8, QuietEdges DEF index, edgeMaps

LEMMA BeginEdges == ASSUME EdgesInv, BaseInv', NEW w \in Threads, NEW p \in Files, Begun(w, p) PROVE EdgesInv'
<1>1. /\ \A v \in Threads \ {w} : frame'[v] = frame[v]
      /\ frame'[w].at = Stage(p)
  BY BeginStep DEF EdgesInv, BaseInv, Begun
<1>2. frame[w].at \notin Filing /\ frame'[w].at \notin Filing
  BY <1>1 DEF Filing, Stage, Begun
<1>3. QED
  BY <1>1, <1>2, QuietEdges DEF index, edgeMaps, Begun

LEMMA StillEdges ==
  ASSUME EdgesInv, BaseInv', UNCHANGED <<index, frame>>, suspect' = suspect, overlaid' = overlaid
  PROVE  EdgesInv'
BY QuietEdges DEF index, edgeMaps

LEMMA EdgesInvariant == Spec => []EdgesInv
<1>1. Init => EdgesInv
  <2> SUFFICES ASSUME Init PROVE EdgesInv
    OBVIOUS
  <2>1. ASSUME NEW p \in KgeFiles PROVE EdgesOK(p)
    <3>1. /\ edgeIndex[p] = {} /\ (\A i \in Ids : reverseRefs[i] = {})
          /\ \A w \in Threads : ~On(w, p)
      BY IdleFrame, FilesApart DEF Init, On, Threads
    <3>2. QED
      BY <3>1 DEF EdgesOK, Refers, Touches, ToFile
  <2>2. QED
    BY <2>1, InitBase DEF EdgesInv
<1>2. EdgesInv /\ BaseInv' /\ [Next]_vars => EdgesInv'
  <2> SUFFICES ASSUME EdgesInv, BaseInv', [Next]_vars PROVE EdgesInv'
    OBVIOUS
  <2>1. CASE RemoveStep
    BY <2>1, UnlinkEndEdges, DelSetEdges, NameStepsEdges, ReadingEdges DEF RemoveStep
  <2>2. ASSUME NEW w \in Threads, IndexStep(w) PROVE EdgesInv'
    BY <2>2, LinkEndEdges, FileEdges, EnterEdges, NameStepsEdges, ReadingEdges DEF IndexStep
  <2>3. CASE ScanStart \/ ScanEnd
    BY <2>3, StillEdges DEF ScanStart, ScanEnd, history
  <2>4. ASSUME NEW p \in Files, Popped(p) PROVE EdgesInv'
    BY <2>4, PopEdges DEF Popped
  <2>5. ASSUME NEW p \in Files, NEW w \in Threads, Begun(w, p) PROVE EdgesInv'
    BY <2>5, BeginEdges
  <2>6. CASE Untouched
    BY <2>6, StillEdges DEF Untouched
  <2>7. CASE UNCHANGED vars
    BY <2>7, StillEdges DEF vars, history
  <2>8. QED
    BY <2>1, <2>2, <2>3, <2>4, <2>5, <2>6, <2>7, HandlerSteps DEF Next, EdgesInv
<1>3. QED
  BY <1>1, <1>2, BaseInvariant, PTL DEF Spec

\* Every edge of a file is found from both of its ends, but for a back
\* reference that was lost; and when none was, the references of a node are the
\* files that name it, however the statements of the scan and of the handlers
\* fell.
THEOREM ReferencesAreComplete == Spec => []ReferencesFound
<1>1. RightInv /\ EdgesInv => ReferencesFound
  <2> SUFFICES ASSUME RightInv, EdgesInv PROVE ReferencesFound
    OBVIOUS
  <2>1. IndexTyped
    BY DEF EdgesInv, BaseInv, TypeInv
  <2>2. ASSUME NEW p \in KgeFiles, p \notin suspect, Free(p), NEW i \in Ids, Refers(p, i), <<p, i>> \notin lost
        PROVE  p \in reverseRefs[i]
    <3>1. ~ToFile(p, i)
      BY <2>2 DEF ToFile, Free
    <3>2. QED
      BY <2>2, <3>1 DEF EdgesInv, EdgesOK
  <2>3. ASSUME NEW p \in KgeFiles, p \notin suspect, Free(p), NEW e \in edgeIndex[p], NEW i \in {e[1], e[2]}, <<p, i>> \notin lost
        PROVE  e \in AllEdgesFor(i)
    <3>1. i \in Ids /\ Refers(p, i)
      BY <2>1, <2>3 DEF IndexTyped, Refers, Touches
    <3>2. p \in reverseRefs[i]
      BY <2>2, <2>3, <3>1
    <3>3. QED
      BY <2>3, <3>2 DEF AllEdgesFor
  <2>4. ASSUME \A p \in KgeFiles : Settled(p) /\ disk[p] # Undecodable, lost = {}, NEW i \in Ids
        PROVE  /\ FindReferences(i) = {p \in KgeFiles : i \in Touches(ExpectedEdges(p))}
               /\ overlaid \cap KgeFiles = {} => ReferenceLens(i) = Cardinality(FindReferences(i))
    <3>1. \A p \in KgeFiles : edgeIndex[p] = ExpectedEdges(p) /\ p \notin suspect /\ Free(p)
      BY <2>4, FilesApart DEF RightInv, Settled, Right, Current, Free
    <3>2. reverseRefs[i] \subseteq KgeFiles
      BY <2>1 DEF IndexTyped
    <3>3. Touches({}) = {}
      BY DEF Touches
    <3>4. FindReferences(i) = {p \in reverseRefs[i] : disk[p] \in EdgeTexts /\ i \in Touches(EdgesIn[disk[p]])}
      BY <2>4, <3>2 DEF FindReferences
    <3>5. \A p \in KgeFiles : i \in Touches(ExpectedEdges(p)) <=> disk[p] \in EdgeTexts /\ i \in Touches(EdgesIn[disk[p]])
      BY <3>3 DEF ExpectedEdges
    <3>6. \A p \in KgeFiles : i \in Touches(ExpectedEdges(p)) => p \in reverseRefs[i]
      BY <2>2, <2>4, <3>1 DEF Refers
    <3>7. FindReferences(i) = {p \in KgeFiles : i \in Touches(ExpectedEdges(p))}
      BY <3>2, <3>4, <3>5, <3>6
    <3>8. ASSUME overlaid \cap KgeFiles = {} PROVE reverseRefs[i] = {p \in KgeFiles : i \in Touches(ExpectedEdges(p))}
      <4>1. ASSUME NEW p \in reverseRefs[i] PROVE i \in Touches(ExpectedEdges(p))
        <5>1. p \in KgeFiles /\ p \notin overlaid /\ ~ToDrop(p, i)
          BY <3>1, <3>2, <3>8 DEF ToDrop, Free, Threads
        <5>2. Refers(p, i)
          BY <5>1 DEF EdgesInv, EdgesOK
        <5>3. QED
          BY <3>1, <5>1, <5>2 DEF Refers
      <4>2. QED
        BY <3>2, <3>6, <4>1
    <3>9. QED
      BY <3>7, <3>8 DEF ReferenceLens
  <2>5. QED
    BY <2>3, <2>4 DEF ReferencesFound
<1>2. QED
  BY <1>1, RightInvariant, EdgesInvariant, PTL


(***************************************************************************)
(* The diagnostics: _pending_tasks never leaks, for any number of tasks    *)
(* and texts.  Nothing of the index is used.                               *)
(***************************************************************************)
TaskStatuses == Live \cup {"none", "dropped", "cancelled", "done"}

\* The entry names a task that exists and is neither finished nor cancelled.
PendingInv == /\ status \in [Tasks -> TaskStatuses]
              /\ pending \in Tasks \cup {NoTask}
              /\ PendingIsLive

USE DEF TaskStatuses, Live, Waiting

LEMMA StatusAfterCancelType ==
  ASSUME PendingInv PROVE StatusAfterCancel \in [Tasks -> TaskStatuses]
BY DEF PendingInv, StatusAfterCancel, Cancelled

LEMMA SchedulePending ==
  ASSUME PendingInv, NEW v, NEW delay, ScheduleDiagnostics(v, delay) PROVE PendingInv'
<1>1. PICK t \in Tasks : /\ status' = [StatusAfterCancel EXCEPT ![t] = "new"]
                         /\ pending' = t
  BY DEF ScheduleDiagnostics
<1>2. status' \in [Tasks -> TaskStatuses] /\ status'[t] = "new"
  BY <1>1, StatusAfterCancelType
<1>3. QED
  BY <1>1, <1>2 DEF PendingInv, PendingIsLive

LEMMA CancelKeepsPending == ASSUME PendingInv, CancelPending PROVE PendingInv'
BY StatusAfterCancelType DEF PendingInv, CancelPending, PendingIsLive

LEMMA StepPending ==
  ASSUME PendingInv, NEW t \in Tasks,
         Start(t) \/ Resume(t) \/ Publish(t) \/ Unwind(t) \/ Drop(t)
  PROVE  PendingInv'
<1>1. CASE Start(t)
  BY <1>1 DEF Start, Run, Become, PendingInv, PendingIsLive
<1>2. CASE Resume(t)
  BY <1>2 DEF Resume, Run, Become, PendingInv, PendingIsLive
<1>3. CASE Publish(t)
  BY <1>3 DEF Publish, Run, Become, PendingInv, PendingIsLive
<1>4. CASE Unwind(t)
  BY <1>4 DEF Unwind, Run, Become, PendingInv, PendingIsLive
<1>5. CASE Drop(t)
  BY <1>5 DEF Drop, Run, Become, PendingInv, PendingIsLive
<1>6. QED
  BY <1>1, <1>2, <1>3, <1>4, <1>5

LEMMA WakePending ==
  ASSUME PendingInv, NEW t \in Tasks, WindowEnds(t) \/ ParseEnds(t) PROVE PendingInv'
BY DEF WindowEnds, ParseEnds, Wake, Become, PendingInv, PendingIsLive

LEMMA NextPending == PendingInv /\ [DiagnosticsNext]_diagnosticsVars => PendingInv'
<1> SUFFICES ASSUME PendingInv, [DiagnosticsNext]_diagnosticsVars PROVE PendingInv'
  OBVIOUS
<1>1. CASE OnOpen \/ OnChange \/ OnSave
  BY <1>1, SchedulePending DEF OnOpen, OnChange, OnSave
<1>2. CASE OnClose \/ OnShutdown
  BY <1>2, CancelKeepsPending DEF OnClose, OnShutdown
<1>3. CASE Step
  BY <1>3, StepPending DEF Step
<1>4. CASE \E t \in Tasks : WindowEnds(t) \/ ParseEnds(t)
  BY <1>4, WakePending
<1>5. CASE UNCHANGED diagnosticsVars
  BY <1>5 DEF diagnosticsVars, taskVars, PendingInv, PendingIsLive
<1>6. QED
  BY <1>1, <1>2, <1>3, <1>4, <1>5 DEF DiagnosticsNext

\* The entry of a document in _pending_tasks is always a task that can still be
\* cancelled, although the finally of any task may remove it.
THEOREM NoPendingLeak == DiagnosticsSpec => []PendingIsLive
<1>1. DiagnosticsInit => PendingInv
  BY DEF DiagnosticsInit, PendingInv, PendingIsLive
<1>2. PendingInv => PendingIsLive
  BY DEF PendingInv
<1>3. QED
  BY <1>1, <1>2, NextPending, PTL DEF DiagnosticsSpec
=============================================================================
