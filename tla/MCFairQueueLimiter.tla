------------------------ MODULE MCFairQueueLimiter ------------------------
(* Instances of FairQueueLimiter for TLC.                                   *)
EXTENDS FairQueueLimiter, TLC

CONSTANTS t1, t2, t3

MCTickets == {t1, t2, t3}
First == {t1}
Second == {t2}
FirstTwo == {t1, t2}
None == {}
============================================================================
