------------------------ MODULE MCConversationMemory ------------------------
(* Instances of ConversationMemory for TLC.                                 *)
EXTENDS ConversationMemory, TLC

CONSTANTS p1, p2, c1, c2

TwoProcesses == {p1, p2}
TwoChats == {c1, c2}
OneEach == c1 :> p1 @@ c2 :> p2
=============================================================================
