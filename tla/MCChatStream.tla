---------------------------- MODULE MCChatStream ----------------------------
(* Who stops the task in the runs of ChatStream.                            *)
EXTENDS ChatStream, TLC
CONSTANTS c1, c2, asker, other

Two == {c1, c2}
OwnerAndOther == c1 :> asker @@ c2 :> other
=============================================================================
