------------------------------ MODULE MCWebGraph ------------------------------
(* The layout document of the graph pages, and a graph page with its runner: *)
(* two parts that meet in the page only through the saved fold and the phase *)
(* of the document, which the page takes from anywhere.  A behaviour is one  *)
(* of either.                                                                *)
EXTENDS LayoutSaver, GraphPage

VARIABLE part

MCUserOf == [f \in {"s1", "s2", "s3"} |-> IF f = "s2" THEN "bob" ELSE "ann"]

Graph(open, some, top) == [f \in Folds |-> CASE f = "open" -> open [] f = "some" -> some [] f = "top" -> top]

\* Nothing to draw; and over the limit until some or all of it is folded.
MCGraphs == {Graph(0, 0, 0), Graph(4, 2, 1)}

WebGraphInit == part \in {"document", "page"} /\ SaverInit /\ PageInit

WebGraphNext ==
    \/ part = "document" /\ SaverNext /\ UNCHANGED <<part, pageVars>>
    \/ part = "page" /\ PageNext /\ UNCHANGED <<part, saverVars>>

WebGraphSpec ==
    WebGraphInit /\ [][WebGraphNext]_<<part, saverVars, pageVars>> /\ SaverFairness /\ RunnerFairness
=============================================================================
