------------------------------ MODULE MCEditor ------------------------------
(***************************************************************************)
(* An instance for TLC of the two modules about what an editor is shown:   *)
(* Subgraph and LspDiagnostics.  They share no state, so a behaviour is    *)
(* one of either, while the other stays as it began.                       *)
(***************************************************************************)
EXTENDS Subgraph, LspDiagnostics

VARIABLE part  \* the module whose behaviour this is

editorVars == <<part, subgraphVars, diagnosticsVars>>

\* Every graph over Nodes; the diagnostics need none.
EditorInit == /\ part \in {"subgraph", "diagnostics"}
              /\ SubgraphInit
              /\ DiagnosticsInit
              /\ part = "diagnostics" => adjacency = {} /\ start = CHOOSE n \in Nodes : TRUE

EditorNext == /\ \/ part = "subgraph" /\ SubgraphNext /\ UNCHANGED diagnosticsVars
                 \/ part = "diagnostics" /\ DiagnosticsNext /\ UNCHANGED subgraphVars
              /\ UNCHANGED part

EditorSpec == EditorInit /\ [][EditorNext]_editorVars /\ DiagnosticsFairness
=============================================================================
