---------------------------- MODULE KnowledgeBase ----------------------------
(* The life of one knowledge base (biz/knowledge/service/knowledge_base.go):  *)
(* documents are uploaded into it, chunked and deleted, while users delete    *)
(* the base, which must be empty.  Its vectors and files are cleaned up by    *)
(* the consumer of a transactional message (framework/mq/rocketmq.go), or by  *)
(* the request itself where there is no queue.  Each document is chunked once *)
(* and left alone meanwhile: DocumentChunk is about what may overlap there.   *)
EXTENDS Integers, FiniteSets

CONSTANTS Uploads,      \* one document each
          Deletes,      \* requests to delete the base
          MaxAttempts,  \* the broker's deliveries of a message
          Faults,       \* what may go wrong, once each
          MaxFaults     \* how many of the Faults may happen

AllFaults == {"send",      \* the message cannot be sent, or so it seems
              "database",  \* the base's row cannot be updated
              "reply",     \* it is updated, but that seems to have failed
              "lost",      \* the broker does not hear of the commit or rollback
              "store",     \* a file or vectors cannot be written or deleted
              "crash"}     \* the process dies

ASSUME BaseAssumption == /\ Uploads \cap Deletes = {} /\ Faults \subseteq AllFaults
                         /\ MaxAttempts \in Nat /\ MaxFaults \in Nat

VARIABLES
    queued,         \* is there a queue?
    base,           \* the base's row
    docs,           \* the documents' rows
    files, vectors, \* the documents of which the collection has any
    pc,             \* the uploads with their chunk tasks, and the deletions
    msg, attempts,  \* the deletions' messages
    cleanup,        \* the clean-ups, and
    failed,         \*   the ones of which a step has failed
    late,           \* documents inserted after a deletion had counted them
    revived,        \* has a failed deletion restored what another had deleted?
    faults

space == <<files, vectors>>
message == <<msg, attempts>>
cleaning == <<cleanup, failed>>
vars == <<queued, base, docs, space, pc, message, cleaning, late, revived, faults>>

Steps == {"look", "insert", "put", "uploaded", "persist", "index", "chunked",
          "wipe", "delete file", "find", "count", "send", "local", "commit",
          "restore", "clean", "done"}

\* The variables have their types, and no message is delivered too often.
TypeOK ==
    /\ queued \in BOOLEAN /\ base \in {"live", "deleted"}
    /\ docs \in [Uploads -> {"none", "live", "gone"}]
    /\ files \subseteq Uploads /\ vectors \subseteq Uploads
    /\ pc \in [Uploads \cup Deletes -> Steps]
    /\ msg \in [Deletes -> {"none", "half", "ready", "over"}]
    /\ attempts \in [Deletes -> 0 .. MaxAttempts]
    /\ cleanup \in [Deletes -> {"none", "vectors", "files"}]
    /\ failed \subseteq Deletes /\ late \subseteq Uploads /\ revived \in BOOLEAN
    /\ faults \subseteq Faults

Init ==
    /\ queued \in BOOLEAN /\ base = "live"
    /\ docs = [u \in Uploads |-> "none"] /\ files = {} /\ vectors = {}
    /\ pc = [r \in Uploads \cup Deletes |-> IF r \in Uploads THEN "look" ELSE "find"]
    /\ msg = [d \in Deletes |-> "none"] /\ attempts = [d \in Deletes |-> 0]
    /\ cleanup = [d \in Deletes |-> "none"] /\ failed = {} /\ late = {}
    /\ revived = FALSE /\ faults = {}

Step(r, from, to) == pc[r] = from /\ pc' = [pc EXCEPT ![r] = to]
Fault(f) == /\ f \in Faults \ faults /\ Cardinality(faults) < MaxFaults
            /\ faults' = faults \cup {f}
Sound == UNCHANGED faults

------------------------------------------------------------------------------
(* A document: upload, chunking, deletion.                                  *)

Document == UNCHANGED <<queued, base, message, cleaning, revived>>

\* The handler and CreateDocument look for the base, and the row comes later.
Look(u) == /\ Step(u, "look", IF base = "live" THEN "insert" ELSE "done")
           /\ UNCHANGED <<docs, space, late>> /\ Sound /\ Document

\* Has a deletion counted the documents before?
Counted == base = "deleted"
           \/ \E d \in Deletes : pc[d] \in {"send", "local", "commit", "clean"}

Insert(u) == /\ Step(u, "insert", "put") /\ docs' = [docs EXCEPT ![u] = "live"]
             /\ late' = IF Counted THEN late \cup {u} ELSE late
             /\ UNCHANGED space /\ Sound /\ Document

\* An upload whose file is not stored is refused, and leaves its row.
Put(u) ==
    /\ \/ Step(u, "put", "uploaded") /\ files' = files \cup {u} /\ Sound
       \/ Step(u, "put", "done") /\ UNCHANGED files /\ Fault("store")
    /\ UNCHANGED <<docs, vectors, late>> /\ Document

\* runChunkProcess: the file, and the base for its embedding model.
Process(u) ==
    /\ pc[u] = "uploaded" /\ docs[u] = "live"
    /\ Step(u, "uploaded", IF u \in files /\ base = "live" THEN "persist" ELSE "done")
    /\ UNCHANGED <<docs, space, late>> /\ Sound /\ Document

\* persistChunksAndVectors looks for the base again, then writes the rows.
Persist(u) == /\ Step(u, "persist", IF base = "live" THEN "index" ELSE "done")
              /\ UNCHANGED <<docs, space, late>> /\ Sound /\ Document

Index(u) ==
    /\ \/ Step(u, "index", "chunked") /\ vectors' = vectors \cup {u} /\ Sound
       \/ Step(u, "index", "done") /\ vectors' = vectors \ {u} /\ Fault("store")
    /\ UNCHANGED <<docs, files, late>> /\ Document

\* DeleteDocument: the row, then the vectors if there is a base, then the file.
DeleteDocument(u) ==
    /\ docs[u] = "live" /\ pc[u] \in {"uploaded", "chunked", "done"}
    /\ docs' = [docs EXCEPT ![u] = "gone"] /\ Step(u, pc[u], "wipe")
    /\ UNCHANGED <<space, late>> /\ Sound /\ Document

DeleteVectors(u) ==
    /\ \/ /\ Step(u, "wipe", IF base = "live" THEN "delete file" ELSE "done") /\ Sound
          /\ vectors' = IF base = "live" THEN vectors \ {u} ELSE vectors
       \/ Step(u, "wipe", "done") /\ UNCHANGED vectors /\ Fault("store")
    /\ UNCHANGED <<docs, files, late>> /\ Document

DeleteFile(u) ==
    /\ Step(u, "delete file", "done")
    /\ \/ files' = files \ {u} /\ Sound
       \/ UNCHANGED files /\ Fault("store")
    /\ UNCHANGED <<docs, vectors, late>> /\ Document

------------------------------------------------------------------------------
(* KnowledgeBaseService.Delete.                                             *)

Deletion == UNCHANGED <<queued, docs, space, attempts, failed, late>>

Find(d) == /\ Step(d, "find", IF base = "live" THEN "count" ELSE "done")
           /\ UNCHANGED <<base, msg, cleanup, revived>> /\ Sound /\ Deletion

\* Mutant: only the documents that have been chunked count.
CountChunked(d) ==
    /\ Step(d, "count", IF \E u \in Uploads : docs[u] = "live" /\ pc[u] = "chunked"
                        THEN "done" ELSE IF queued THEN "send" ELSE "local")
    /\ UNCHANGED <<base, msg, cleanup, revived>> /\ Sound /\ Deletion

Count(d) ==
    /\ Step(d, "count", IF \E u \in Uploads : docs[u] = "live"
                        THEN "done" ELSE IF queued THEN "send" ELSE "local")
    /\ UNCHANGED <<base, msg, cleanup, revived>> /\ Sound /\ Deletion

\* The half message.
Send(d) ==
    /\ \/ Step(d, "send", "local") /\ msg' = [msg EXCEPT ![d] = "half"] /\ Sound
       \/ /\ Step(d, "send", "restore") /\ Fault("send")
          /\ \E m \in {"none", "half"} : msg' = [msg EXCEPT ![d] = m]
    /\ UNCHANGED <<base, cleanup, revived>> /\ Deletion

\* The local transaction: it deletes the row, whether it still was there or not.
SoftDelete(d) ==
    /\ \/ /\ base' = "deleted" /\ Sound
          /\ Step(d, "local", IF queued THEN "commit" ELSE "clean")
          /\ cleanup' = IF queued THEN cleanup
                                  ELSE [cleanup EXCEPT ![d] = "vectors"]
          /\ UNCHANGED msg
       \/ /\ Step(d, "local", IF queued THEN "restore" ELSE "done")
          /\ msg' = IF queued THEN [msg EXCEPT ![d] = "over"] ELSE msg
          /\ UNCHANGED cleanup
          /\ \/ UNCHANGED base /\ Fault("database")
             \/ base' = "deleted" /\ Fault("reply")
    /\ UNCHANGED revived /\ Deletion

\* One-way: the message is ready if the broker hears of it.
Commit(d) ==
    /\ Step(d, "commit", "done")
    /\ \/ msg' = [msg EXCEPT ![d] = IF @ = "half" THEN "ready" ELSE @] /\ Sound
       \/ UNCHANGED msg /\ Fault("lost")
    /\ UNCHANGED <<base, cleanup, revived>> /\ Deletion

\* After any failure the row is restored, whoever deleted it.
Restore(d) ==
    /\ Step(d, "restore", "done")
    /\ \/ base' = "live" /\ revived' = (revived \/ base = "deleted") /\ Sound
       \/ UNCHANGED <<base, revived>> /\ Fault("database")
    /\ UNCHANGED <<msg, cleanup>> /\ Deletion

------------------------------------------------------------------------------
(* The message and the clean-up.                                            *)

\* CheckCleanupTransaction.  The broker asks long after the half message, when
\* the local transaction is over.
Asked(d) == msg[d] = "half" /\ pc[d] # "local"
Answer(d, m) == /\ msg' = [msg EXCEPT ![d] = m]
                /\ UNCHANGED <<queued, base, docs, space, pc, attempts, cleaning,
                               late, revived, faults>>

\* Mutant: a message that the broker holds is there to be delivered.
CheckAlways(d) == Asked(d) /\ Answer(d, "ready")

CheckBack(d) ==
    Asked(d) /\ Answer(d, IF base = "deleted" THEN "ready" ELSE "over")

\* Mutant: a message is delivered again while it is being consumed.
DeliverAgain(d) ==
    /\ msg[d] = "ready" /\ attempts' = [attempts EXCEPT ![d] = @ + 1]
    /\ cleanup' = [cleanup EXCEPT ![d] = "vectors"] /\ failed' = failed \ {d}
    /\ UNCHANGED <<queued, base, docs, space, pc, msg, late, revived, faults>>

Deliver(d) ==
    /\ msg[d] = "ready" /\ cleanup[d] = "none" /\ attempts[d] < MaxAttempts
    /\ attempts' = [attempts EXCEPT ![d] = @ + 1]
    /\ cleanup' = [cleanup EXCEPT ![d] = "vectors"] /\ failed' = failed \ {d}
    /\ UNCHANGED <<queued, base, docs, space, pc, msg, late, revived, faults>>

Cleanup == UNCHANGED <<queued, base, docs, attempts, late, revived>>

\* cleanupPhysicalResources deletes the files even if the vectors stay.
DropVectors(d) ==
    /\ cleanup[d] = "vectors" /\ cleanup' = [cleanup EXCEPT ![d] = "files"]
    /\ \/ vectors' = {} /\ UNCHANGED failed /\ Sound
       \/ UNCHANGED vectors /\ failed' = failed \cup {d} /\ Fault("store")
    /\ UNCHANGED <<files, pc, msg>> /\ Cleanup

\* The clean-up's end: what failed is delivered again, if it was a delivery.
End(d, ok) ==
    /\ cleanup' = [cleanup EXCEPT ![d] = "none"]
    /\ msg' = IF ok /\ msg[d] = "ready" THEN [msg EXCEPT ![d] = "over"] ELSE msg
    /\ pc' = IF queued THEN pc ELSE [pc EXCEPT ![d] = "done"]

\* Mutant: what happened to the vectors is forgotten.
DeleteKnowledgeSpaceOnly(d) ==
    /\ cleanup[d] = "files"
    /\ \/ files' = {} /\ End(d, TRUE) /\ UNCHANGED failed /\ Sound
       \/ UNCHANGED files /\ End(d, FALSE) /\ UNCHANGED failed /\ Fault("store")
    /\ UNCHANGED vectors /\ Cleanup

DeleteKnowledgeSpace(d) ==
    /\ cleanup[d] = "files"
    /\ \/ files' = {} /\ End(d, d \notin failed) /\ UNCHANGED failed /\ Sound
       \/ UNCHANGED files /\ End(d, FALSE) /\ UNCHANGED failed /\ Fault("store")
    /\ UNCHANGED vectors /\ Cleanup

\* One process of several dies, its requests R and their clean-ups or, with a
\* queue, its deliveries D with it.
Crash(R, D) ==
    /\ Fault("crash")
    /\ pc' = [r \in Uploads \cup Deletes |-> IF r \in R THEN "done" ELSE pc[r]]
    /\ LET lost == IF queued THEN D ELSE R
       IN cleanup' = [d \in Deletes |-> IF d \in lost THEN "none" ELSE cleanup[d]]
    /\ UNCHANGED <<queued, base, docs, space, message, failed, late, revived>>

------------------------------------------------------------------------------
Upload(u) == \/ Look(u) \/ Insert(u) \/ Put(u) \/ Process(u) \/ Persist(u) \/ Index(u)
             \/ DeleteDocument(u) \/ DeleteVectors(u) \/ DeleteFile(u)
Delete(d) == Find(d) \/ Count(d) \/ Send(d) \/ SoftDelete(d) \/ Commit(d) \/ Restore(d)
Consume(d) == \/ CheckBack(d) \/ Deliver(d) \/ DropVectors(d)
              \/ DeleteKnowledgeSpace(d)

Next == \/ \E u \in Uploads : Upload(u)
        \/ \E d \in Deletes : Delete(d) \/ Consume(d)
        \/ \E R \in SUBSET (Uploads \cup Deletes), D \in SUBSET Deletes : Crash(R, D)

Spec == Init /\ [][Next]_vars

\* Requests go on and end, and the broker asks and delivers.
FairSpec == Spec /\ \A d \in Deletes : WF_vars(Delete(d)) /\ WF_vars(Consume(d))

------------------------------------------------------------------------------
(* Safety                                                                   *)

\* A base that was not deleted and restored has the file of each document that
\* was uploaded into it, and the vectors of each that was chunked: no clean-up
\* is for a living base, whatever the broker is told and whoever crashes.
LiveIsWhole ==
    base = "live" /\ ~revived =>
        \A u \in Uploads : docs[u] = "live" =>
            /\ pc[u] \in {"uploaded", "persist", "index", "chunked"} => u \in files
            /\ pc[u] = "chunked" => u \in vectors

\* docs/DEVLOG.md:201: no orphans.  A document of a deleted base was uploaded
\* while the base was being deleted, not before.
NoOrphans ==
    base = "deleted" => \A u \in Uploads : docs[u] = "live" => u \in late

------------------------------------------------------------------------------
(* Liveness                                                                 *)

\* With a queue, what a deletion leaves in the collection is cleaned up, unless
\* the base is restored: after a crash, a lost commit or a failed clean-up too.
\* A deletion misled by a lost reply rolls its message back, and its process may
\* die before it restores the row: then nobody cleans up.
DeletedIsCleaned ==
    queued /\ base = "deleted" ~> \/ base = "live" \/ "reply" \in faults
                                  \/ vectors \cup files \subseteq late
=============================================================================
