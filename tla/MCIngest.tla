------------------------------ MODULE MCIngest ------------------------------
EXTENDS Ingest, TLC

CONSTANTS a, b, s, g1, g2, g3, F1, F2, E1

MCNamed == {a, b}
MCSlugs == {s}
MCGenerated == {g1, g2, g3}
MCKgnOrder == <<F1, F2>>
MCKgeOrder == <<E1>>

Sound(id, body) == [layout |-> "framed", yaml |-> "mapping", faults |-> {}, version |-> "0.1",
                    id |-> id, hollow |-> FALSE, archived |-> FALSE, body |-> body]

Node == Sound(a, 1)

\* Texts of two nodes, in two editions, and damaged ones: what the parser,
\* the rules and the callers refuse, each in its own way.
MCTexts == {Node, Sound(a, 2), Sound(s, 1), Sound(s, 2), [Sound(b, 1) EXCEPT !.archived = TRUE]}
  \cup {[Node EXCEPT !.yaml = "raises"], [Node EXCEPT !.faults = {"type", "title"}],
        [Node EXCEPT !.id = Malformed]}

MCEdgeTexts == {[parse |-> "parsed", edges |-> <<<<a, s>>, <<s, b>>>>],
                [parse |-> "parsed", edges |-> <<<<s, a>>, <<a, Malformed>>>>],
                [parse |-> "KgeParseError", edges |-> <<>>]}

MCFirstDisks == {(F1 :> x) @@ (F2 :> y) @@ (E1 :> e) :
                   x \in {Node}, y \in {Sound(a, 2), Sound(s, 1)}, e \in MCEdgeTexts}
=============================================================================
