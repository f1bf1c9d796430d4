---------------------------- MODULE MCDocumentChunk ----------------------------
(* Instances of DocumentChunk for TLC.                                       *)
EXTENDS DocumentChunk, TLC

CONSTANTS r1, r2, r3, r4

Idle == r3 :> "none" @@ r4 :> "none"
Queue == r1 :> "queued" @@ r2 :> "queued" @@ Idle
Edit == r1 :> "queued" @@ r2 :> "delete" @@ r3 :> "on" @@ r4 :> "none"
Inlined == r1 :> "inline" @@ r2 :> "off" @@ r3 :> "on" @@ r4 :> "none"

Sound(k) == [kind |-> k, frail |-> FALSE]
Frail(k) == [kind |-> k, frail |-> TRUE]

OnlyQueue == {Sound(Queue)}
QueueOrEdit == {Sound(Queue), Frail(Edit), Frail(Inlined)}
=============================================================================
