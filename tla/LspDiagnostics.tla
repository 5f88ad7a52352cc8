-------------------------- MODULE LspDiagnostics ---------------------------
(***************************************************************************)
(* The diagnostics of one document in the language server: didOpen,        *)
(* didChange, didSave and didClose schedule, debounce and cancel asyncio   *)
(* tasks that parse the text in a thread and publish what it finds.        *)
(* _pending_tasks has one entry per document, so documents do not disturb  *)
(* each other.  The handlers also keep the workspace index up to date,     *)
(* which shares no state with the diagnostics and is left out here.        *)
(*                                                                         *)
(* The event loop is external: it runs the tasks that are ready first in,  *)
(* first out, each to its next await; a handler runs between two of them.  *)
(* Cancelling a task that waits makes it ready, with a CancelledError to   *)
(* raise; one cancelled before its first step never enters its body.       *)
(***************************************************************************)
EXTENDS Naturals, Sequences

CONSTANTS MaxTasks,  \* bound: tasks created
          MaxTexts   \* bound: texts the buffer holds one after the other

ASSUME LspAssumption == MaxTasks \in Nat /\ MaxTexts \in Nat

Tasks == 1 .. MaxTasks
NoTask == 0
Closed == 0   \* no buffer, and no diagnostics

VARIABLES
  text,     \* the number of the text in the buffer, Closed when there is none
  texts,    \* how many texts there were
  status,   \* of each task; "none" until it is created
  source,   \* the text that each task was created with
  delayed,  \* the tasks that wait for the debounce window first
  ready,    \* the event loop's queue of tasks to step
  pending,  \* the document's entry in _pending_tasks
  shown,    \* the text whose diagnostics were published last
  down      \* the client has asked for shutdown

taskVars == <<status, source, delayed, ready, pending>>
diagnosticsVars == <<text, texts, taskVars, shown, down>>

Waiting == {"sleeping", "parsing"}
Live == {"new", "awake", "parsed"} \cup Waiting

\* task.cancel()
Cancelled(t) == [status EXCEPT ![t] = IF @ = "new" THEN "dropped" ELSE "cancelled"]
Woken(t) == IF status[t] \in Waiting THEN Append(ready, t) ELSE ready

StatusAfterCancel == IF pending # NoTask /\ status[pending] \in Live THEN Cancelled(pending) ELSE status
ReadyAfterCancel == IF pending # NoTask /\ status[pending] \in Live THEN Woken(pending) ELSE ready

-----------------------------------------------------------------------------
(***************************************************************************)
(* Handlers.                                                               *)
(***************************************************************************)
\* Mutant of ScheduleDiagnostics: the new task replaces the entry before the
\* pending one is cancelled.
ScheduleThenCancel(v, delay) ==
  \E t \in Tasks :
    /\ \A u \in Tasks : status[u] = "none" <=> u >= t
    /\ status' = [status EXCEPT ![t] = "dropped"]
    /\ ready' = Append(ready, t)
    /\ pending' = NoTask
    /\ source' = [source EXCEPT ![t] = v]
    /\ delayed' = IF delay THEN delayed \cup {t} ELSE delayed

\* The pending task is cancelled and a new one takes its place.
ScheduleDiagnostics(v, delay) ==
  \E t \in Tasks :
    /\ \A u \in Tasks : status[u] = "none" <=> u >= t
    /\ status' = [StatusAfterCancel EXCEPT ![t] = "new"]
    /\ ready' = Append(ReadyAfterCancel, t)
    /\ pending' = t
    /\ source' = [source EXCEPT ![t] = v]
    /\ delayed' = IF delay THEN delayed \cup {t} ELSE delayed

CancelPending == /\ status' = StatusAfterCancel
                 /\ ready' = ReadyAfterCancel
                 /\ pending' = NoTask
                 /\ UNCHANGED <<source, delayed>>

NewText == /\ ~down
           /\ texts < MaxTexts
           /\ texts' = texts + 1
           /\ text' = texts + 1

OnOpen == /\ text = Closed
          /\ NewText
          /\ ScheduleDiagnostics(texts + 1, FALSE)
          /\ UNCHANGED <<shown, down>>

OnChange == /\ text # Closed
            /\ NewText
            /\ ScheduleDiagnostics(texts + 1, TRUE)
            /\ UNCHANGED <<shown, down>>

OnSave == /\ ~down
          /\ text # Closed
          /\ ScheduleDiagnostics(text, FALSE)
          /\ UNCHANGED <<text, texts, shown, down>>

OnClose == /\ ~down
           /\ text # Closed
           /\ text' = Closed
           /\ shown' = Closed
           /\ CancelPending
           /\ UNCHANGED <<texts, down>>

OnShutdown == /\ ~down
              /\ down' = TRUE
              /\ CancelPending
              /\ UNCHANGED <<text, texts, shown>>

-----------------------------------------------------------------------------
(***************************************************************************)
(* The tasks: _debounced_run and _run_diagnostics.                         *)
(***************************************************************************)
Become(t, new) == status' = [status EXCEPT ![t] = new]

\* The loop runs the first ready task, which is in one of the statuses S.
Run(t, S) == /\ ready # <<>>
             /\ t = Head(ready)
             /\ status[t] \in S
             /\ ready' = Tail(ready)
             /\ UNCHANGED <<text, texts, source, delayed, down>>

Start(t) == /\ Run(t, {"new"})
            /\ Become(t, IF t \in delayed THEN "sleeping" ELSE "parsing")
            /\ UNCHANGED <<pending, shown>>

Resume(t) == /\ Run(t, {"awake"})
             /\ Become(t, "parsing")
             /\ UNCHANGED <<pending, shown>>

\* Mutant of Publish: the entry is left in _pending_tasks.
PublishOnly(t) == /\ Run(t, {"parsed"})
                  /\ Become(t, "done")
                  /\ shown' = source[t]
                  /\ UNCHANGED pending

\* finally: the document's entry is removed, be it this task's or not.
Publish(t) == /\ Run(t, {"parsed"})
              /\ Become(t, "done")
              /\ shown' = source[t]
              /\ pending' = NoTask

\* except CancelledError; finally.
Unwind(t) == /\ Run(t, {"cancelled"})
             /\ Become(t, "done")
             /\ pending' = NoTask
             /\ UNCHANGED shown

Drop(t) == /\ Run(t, {"dropped"})
           /\ Become(t, "done")
           /\ UNCHANGED <<pending, shown>>

Step == \E t \in Tasks : Start(t) \/ Resume(t) \/ Publish(t) \/ Unwind(t) \/ Drop(t)

Wake(t, new) == /\ Become(t, new)
                /\ ready' = Append(ready, t)
                /\ UNCHANGED <<text, texts, source, delayed, pending, shown, down>>

\* All windows are equally long: they end in the order they began.
WindowEnds(t) == /\ status[t] = "sleeping"
                 /\ \A u \in Tasks : status[u] = "sleeping" => t <= u
                 /\ Wake(t, "awake")

\* The threads of the pool finish in any order.
ParseEnds(t) == status[t] = "parsing" /\ Wake(t, "parsed")

-----------------------------------------------------------------------------
DiagnosticsInit == /\ text = Closed
                   /\ texts = 0
                   /\ status = [t \in Tasks |-> "none"]
                   /\ source = [t \in Tasks |-> Closed]
                   /\ delayed = {}
                   /\ ready = <<>>
                   /\ pending = NoTask
                   /\ shown = Closed
                   /\ down = FALSE

DiagnosticsNext == \/ OnOpen \/ OnChange \/ OnSave \/ OnClose \/ OnShutdown
                   \/ Step
                   \/ \E t \in Tasks : WindowEnds(t) \/ ParseEnds(t)

DiagnosticsSpec == DiagnosticsInit /\ [][DiagnosticsNext]_diagnosticsVars

\* The event loop runs, timers fire and threads finish.  No handler need ever
\* be called.
DiagnosticsFairness ==
  /\ WF_diagnosticsVars(Step)
  /\ \A t \in Tasks : WF_diagnosticsVars(WindowEnds(t)) /\ WF_diagnosticsVars(ParseEnds(t))

DiagnosticsFairSpec == DiagnosticsSpec /\ DiagnosticsFairness

-----------------------------------------------------------------------------
(***************************************************************************)
(* Properties.                                                             *)
(***************************************************************************)
\* Locals have their types, and a task is in the event loop's queue, once,
\* exactly when it has something to do.
DiagnosticsTypeOK ==
  /\ text \in 0 .. MaxTexts
  /\ texts \in 0 .. MaxTexts
  /\ status \in [Tasks -> Live \cup {"none", "dropped", "cancelled", "done"}]
  /\ source \in [Tasks -> 0 .. MaxTexts]
  /\ delayed \subseteq Tasks
  /\ pending \in Tasks \cup {NoTask}
  /\ shown \in 0 .. MaxTexts
  /\ down \in BOOLEAN
  /\ \A i, j \in 1 .. Len(ready) : ready[i] = ready[j] => i = j
  /\ \A t \in Tasks : (\E i \in 1 .. Len(ready) : ready[i] = t)
                        <=> status[t] \in {"new", "awake", "parsed", "dropped", "cancelled"}

\* _pending_tasks does not leak: its entry is always a task that is neither
\* finished nor cancelled, whichever task removed or replaced it last.
PendingIsLive == pending # NoTask => status[pending] \in Live

\* No text is forgotten: the newest task publishes its diagnostics, unless the
\* document is closed, the server shuts down or a newer task takes over first.
NewestDiagnosed ==
  \A t \in Tasks : status[t] \notin {"none", "done"} ~>
    shown = source[t] \/ text = Closed \/ down \/ \E u \in Tasks : u > t /\ status[u] # "none"
=============================================================================
