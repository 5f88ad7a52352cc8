----------------------------- MODULE MCGitSync -----------------------------
(* Instances of GitSync for TLC. *)
EXTENDS GitSync

CONSTANTS a, b,       \* sites
          node, edge  \* items
=============================================================================
