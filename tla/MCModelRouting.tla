--------------------------- MODULE MCModelRouting ---------------------------
(* The calls and the candidates in the runs of ModelRouting.                *)
EXTENDS ModelRouting, TLC
CONSTANTS c1, c2, c3, c4, local, cloud

OneCall == {c1}
TwoCalls == {c1, c2}
FourCalls == {c1, c2, c3, c4}
\* Calls that do not stream are alike.
Alike == Permutations({c2, c3, c4})
OneModel == <<cloud>>
TwoModels == <<local, cloud>>
=============================================================================
