----------------------------- MODULE MCWorkflow -----------------------------
(* A design and an issue: two runs of the built-in templates. *)
EXTENDS Workflow, TLC

CONSTANTS w, ad  \* a worker and an admin

MCTemplateOf == <<DESIGN_TO_IMPL, ISSUE_RESOLUTION>>
MCTriggers == {[type |-> "GOAL", status |-> "ACTIVE"], [type |-> "ISSUE", status |-> "ACTIVE"],
               [type |-> "GOAL", status |-> "DEPRECATED"]}

MCNodes == {<<1, "spec">>, <<1, "arch">>, <<1, "impl">>, <<1, "review">>,
            <<2, "fix">>, <<2, "review">>}
MCTaskNodes == {<<1, "impl">>, <<1, "review">>, <<2, "fix">>, <<2, "review">>}
MCRoleTags == [n \in MCNodes |-> CASE n[2] \in {"spec", "arch"} -> {"genesis"}
                                   [] n[2] \in {"impl", "fix"} -> {"worker"}
                                   [] n[2] = "review" -> {"reviewer"}]
MCRoleOf == [a \in Agents |-> IF a = ad THEN "admin" ELSE "worker"]

MCBatches == {StepNodes(i) : i \in Runs}

\* The review of the design may come to wait for the fix, too.
MCEdgeChoices == {<<<<1, "review">>, <<2, "fix">>>>}
=============================================================================
