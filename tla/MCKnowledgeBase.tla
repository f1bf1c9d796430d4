--------------------------- MODULE MCKnowledgeBase ---------------------------
(* Instances of KnowledgeBase for TLC.                                      *)
EXTENDS KnowledgeBase, TLC

CONSTANTS u1, d1, d2

OneUpload == {u1}
TwoDeletes == {d1, d2}
=============================================================================
