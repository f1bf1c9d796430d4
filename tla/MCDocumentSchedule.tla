------------------------- MODULE MCDocumentSchedule -------------------------
(* Instances of DocumentSchedule for TLC.                                   *)
EXTENDS DocumentSchedule, TLC

CONSTANTS n1, n2, u1

TwoNodes == {n1, n2}
OneUser == {u1}
=============================================================================
