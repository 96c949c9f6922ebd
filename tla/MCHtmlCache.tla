------------------------------ MODULE MCHtmlCache ---------------------------
(* The values of the constants of HtmlCache that a cfg cannot write.       *)
EXTENDS HtmlCache

CONSTANTS f1, f2, a, b, c

\* Two names of one file, and one of another.
TwoNamesOfOne == (a :> f1) @@ (b :> f1) @@ (c :> f2)
OneChange == (f1 :> 1) @@ (f2 :> 0)
TwoPagesAndIndex == {<<a>>, <<b>>, <<c, a>>}

Symmetry == Permutations(Block) \cup Permutations(Session)
=============================================================================
