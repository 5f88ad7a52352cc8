------------------------------ MODULE KgnText ------------------------------
(***************************************************************************)
(* The text of a .kgn file and the two parsers that read it: the strict    *)
(* one of the ingest, with the validation rules that follow it, and the    *)
(* fault-tolerant one of the editor.  A text is a record of what the       *)
(* parsers tell apart:                                                     *)
(*   layout    "blank"; "plain": does not start with ---; "unclosed": has  *)
(*             no second ---; "framed"                                     *)
(*   yaml      what stands between (or after) the ---: a "mapping", a      *)
(*             "scalar" or list, "empty", a "syntax" error, "unbuildable": *)
(*             composes but has a value that safe_load refuses, such as an *)
(*             unknown tag, "raises": a value on which it fails otherwise, *)
(*             such as the date 2024-13-01, "oddkeys": a mapping with a    *)
(*             key that is no string                                       *)
(*   faults    the fields that the Pydantic model refuses                  *)
(*   version, id, hollow  fields, and whether a required one is blank      *)
(*   archived  its status                                                  *)
(*   body      the rest                                                    *)
(***************************************************************************)
EXTENDS Naturals, FiniteSets

CONSTANTS Named,     \* node ids that texts give
          Slugs,     \* ids of the form new:<slug>
          Malformed, \* an id that is neither
          Bodies     \* what makes two editions of a text

ASSUME TextAssumption == /\ Named \cap Slugs = {}
                         /\ Malformed \notin Named \cup Slugs

Fields == {"kgn_version", "id", "type", "title", "status", "confidence", "tags"}

AllTexts == [layout : {"blank", "plain", "unclosed", "framed"},
             yaml : {"mapping", "scalar", "empty", "syntax", "unbuildable", "raises", "oddkeys"},
             faults : SUBSET Fields,
             version : {"0.1", "other"},
             id : Named \cup Slugs \cup {Malformed},
             hollow : BOOLEAN,
             archived : BOOLEAN,
             body : Bodies]

-----------------------------------------------------------------------------
(***************************************************************************)
(* The strict parser: "parsed", KgnParseError, or another exception, which *)
(* its callers do not expect.                                              *)
(***************************************************************************)
ParseStrict(t) ==
  CASE t.layout # "framed" -> "KgnParseError"
    [] t.layout = "framed" /\ t.yaml \in {"syntax", "unbuildable", "empty", "scalar"} -> "KgnParseError"
    [] t.layout = "framed" /\ t.yaml \in {"raises", "oddkeys"} -> "Exception"
    [] t.layout = "framed" /\ t.yaml = "mapping" -> IF t.faults = {} THEN "parsed" ELSE "KgnParseError"

\* validate_kgn: the rules that are no part of the parse.  V4, V5 and V9
\* are the model's, V10 only warns.
Violations(t) == (IF t.version = "0.1" THEN {} ELSE {"V2"})
                   \cup (IF t.hollow THEN {"V3"} ELSE {})
                   \cup (IF t.id = Malformed THEN {"V6"} ELSE {})

Valid(t) == ParseStrict(t) = "parsed" /\ Violations(t) = {}

-----------------------------------------------------------------------------
(***************************************************************************)
(* The tolerant parser: the rules it reports and whether there is a front  *)
(* matter in the result.                                                   *)
(***************************************************************************)
Rule(field) == CASE field = "kgn_version" -> "V2"
                 [] field = "id" -> "V6"
                 [] field = "type" -> "V4"
                 [] field = "status" -> "V5"
                 [] field = "title" -> "V3"
                 [] field = "confidence" -> "V9"
                 [] field = "tags" -> "VALIDATE"

\* _yaml_compose_safe, and the catch-all around everything.
YamlRules(t) == CASE t.yaml \in {"syntax", "empty", "scalar"} -> {"YAML_ERROR"}
                  [] t.yaml \in {"raises", "oddkeys"} -> {"INTERNAL"}
                  [] t.yaml = "unbuildable" -> {}
                  [] t.yaml = "mapping" -> {Rule(f) : f \in t.faults}

\* Mutant of Rules: with no second --- the rest is parsed, but V1 is lost.
ForgetsUnclosed(t) ==
  CASE t.layout \in {"blank", "plain"} -> {"V1"}
    [] t.layout \in {"unclosed", "framed"} -> YamlRules(t)

\* After an unclosed ---, the rest of the text is tried as YAML, if there is any.
Rules(t) ==
  CASE t.layout \in {"blank", "plain"} -> {"V1"}
    [] t.layout = "unclosed" -> {"V1"} \cup (IF t.yaml = "empty" THEN {} ELSE YamlRules(t))
    [] t.layout = "framed" -> YamlRules(t)

HasFrontMatter(t) ==
  t.layout \in {"unclosed", "framed"} /\ t.yaml = "mapping" /\ t.faults = {}

\* What the ingest refuses behind the editor's back: a text with a value that
\* composes and cannot be built, which only the ingest's parser builds; and one
\* that parses but breaks V2 (another version), V3 (a blank field) or V6 (a
\* malformed id), since the editor does not run validate_kgn.
UnseenByEditor(t) == \/ t.layout = "framed" /\ t.yaml = "unbuildable"
                     \/ ParseStrict(t) = "parsed" /\ Violations(t) # {}

\* How far the editor, which calls its diagnostics authoritative, agrees with
\* the ingest: what it complains about are exactly the texts that the ingest
\* refuses, but for those it does not see; and it has a front matter without a
\* complaint exactly when the ingest's parser has one.
ParsersAgree(t) ==
  /\ Rules(t) # {} <=> ~Valid(t) /\ ~UnseenByEditor(t)
  /\ HasFrontMatter(t) /\ Rules(t) = {} <=> ParseStrict(t) = "parsed"
=============================================================================
