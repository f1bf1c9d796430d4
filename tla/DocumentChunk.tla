---------------------------- MODULE DocumentChunk ----------------------------
(* The life of one knowledge document while requests chunk it, delete it    *)
(* and switch it on and off (biz/knowledge/service/knowledge_document.go):  *)
(* the row and its chunks in the database, its vectors in the vector store, *)
(* the chunk lock in Redis, the transactional message that starts a queued  *)
(* run and its consumer with the consume guard (mq_consumers.go,            *)
(* framework/idempotent/consume.go), and the recovery of stuck documents.   *)
EXTENDS Naturals

CONSTANTS Requests,     \* the requests of the run
          Workloads,    \* what the requests may ask for, see workload
          None,         \* no chunks
          MaxAttempts,  \* deliveries of a message before the broker gives up
          MaxCrashes    \* crashes of a process that runs a chunk task

Kinds == {"queued",     \* StartChunk through the message queue
          "inline",     \* RunChunkNow, and StartChunk without a queue
          "delete", "on", "off",
          "none"}       \* no request

Settings == [kind : [Requests -> Kinds], frail : BOOLEAN]

ASSUME DocumentAssumption ==
    /\ None \notin Requests \X Nat /\ Workloads \subseteq Settings
    /\ MaxAttempts \in Nat \ {0} /\ MaxCrashes \in Nat

VARIABLES
    workload,                   \* what the requests ask for in this behaviour
    status, deleted, enabled,   \* the document's row
    chunks,                     \* the version of the live chunk rows
    chunksOn,                   \* are they enabled?
    vectors,                    \* the versions whose vectors the store holds
    lock,                       \* knowledge:chunk:lock:{docId}
    guard,                      \* the consume guard's key of the document
    pc, held,                   \* the requests; who believes to hold the lock
    saw,                        \* the chunks a request loaded to index them
    msg, attempts,              \* the messages
    exec,                       \* the chunk tasks (executeChunk)
    crashes

world == <<workload, crashes>>
row == <<status, deleted, enabled>>
data == <<chunks, chunksOn, vectors>>
request == <<pc, held, saw>>
queue == <<msg, attempts, guard>>
vars == <<row, data, lock, request, queue, exec, world>>

\* kind[r]: what r asks for; may the deletion of old vectors fail?
kind == workload.kind
frail == workload.frail
Queued == {r \in Requests : kind[r] = "queued"}
Inline == {r \in Requests : kind[r] = "inline"}

\* Every run of a task gives its chunks new identifiers: a new version.
Version(r) == <<r, attempts[r]>>
Versions == Requests \X (0 .. MaxAttempts)

\* The variables have their types; a message waiting for its consumer has a
\* delivery left.
TypeOK ==
    /\ workload \in Workloads
    /\ status \in {"pending", "running", "success", "failed"}
    /\ deleted \in BOOLEAN /\ enabled \in BOOLEAN /\ chunksOn \in BOOLEAN
    /\ chunks \in Versions \cup {None} /\ vectors \subseteq Versions
    /\ lock \in BOOLEAN /\ guard \in {"none", "consuming", "consumed"}
    /\ pc \in [Requests -> {"idle", "load", "claim", "unlock", "rows", "row",
                            "switch", "wipe", "read", "index", "done"}]
    /\ held \in [Requests -> BOOLEAN]
    /\ saw \in [Requests -> Versions \cup {None}]
    /\ msg \in [Requests -> {"none", "half", "ready", "acked", "dropped",
                             "dead"}]
    /\ attempts \in [Requests -> 0 .. MaxAttempts]
    /\ exec \in [Requests -> {"none", "find", "process", "persist", "wipe",
                              "index", "fail", "nack", "ack", "over"}]
    /\ crashes \in 0 .. MaxCrashes
    /\ \A r \in Requests : msg[r] = "ready" /\ exec[r] = "none"
                           => attempts[r] < MaxAttempts

Init ==
    /\ workload \in Workloads
    /\ status = "pending" /\ deleted = FALSE /\ enabled = TRUE
    /\ chunks = None /\ chunksOn = TRUE /\ vectors = {}
    /\ lock = FALSE /\ guard = "none"
    /\ pc = [r \in Requests |-> "idle"] /\ held = [r \in Requests |-> FALSE]
    /\ saw = [r \in Requests |-> None]
    /\ msg = [r \in Requests |-> "none"] /\ attempts = [r \in Requests |-> 0]
    /\ exec = [r \in Requests |-> "none"] /\ crashes = 0

Step(r, from, to) == pc[r] = from /\ pc' = [pc EXCEPT ![r] = to]
Running(r) == exec[r] \notin {"none", "over"}

------------------------------------------------------------------------------
(* startChunk: lock, look, claim the row, unlock.                           *)

StartsChunk(r) == r \in Queued \cup Inline

\* Without an answer from Redis the request goes on with the database alone.
Lock(r) ==
    /\ StartsChunk(r)
    /\ \/ /\ ~lock /\ Step(r, "idle", "load")
          /\ lock' = TRUE /\ held' = [held EXCEPT ![r] = TRUE]
       \/ lock /\ Step(r, "idle", "done") /\ UNCHANGED <<lock, held>>
       \/ Step(r, "idle", "load") /\ UNCHANGED <<lock, held>>
    /\ UNCHANGED <<row, data, saw, queue, exec, world>>

Load(r) ==
    /\ StartsChunk(r)
    /\ Step(r, "load", IF deleted \/ status = "running" THEN "unlock"
                                                      ELSE "claim")
    /\ UNCHANGED <<row, data, lock, held, saw, queue, exec, world>>

\* The conditional update, alone or as the message's local transaction: it may
\* fail, also with its commit's answer lost ("dropped"), and the broker may not
\* hear whether to commit or to roll back ("half").
Claim(r) ==
    /\ StartsChunk(r) /\ Step(r, "claim", "unlock")
    /\ \E claims \in {FALSE, status # "running" /\ (r \in Inline \/ ~deleted)} :
          /\ status' = IF claims THEN "running" ELSE status
          /\ IF r \in Inline
             THEN /\ exec' \in {exec} \cup
                        (IF claims THEN {[exec EXCEPT ![r] = "find"]} ELSE {})
                  /\ UNCHANGED msg
             ELSE /\ \E m \in {"half"} \cup
                        (IF claims THEN {"ready", "dropped"} ELSE {"none"}) :
                        msg' = [msg EXCEPT ![r] = m]
                  /\ UNCHANGED exec
    /\ UNCHANGED <<deleted, enabled, data, lock, held, saw, attempts, guard,
                   world>>

\* Release deletes the key, whoever holds it by now.
Unlock(r) ==
    /\ StartsChunk(r) /\ Step(r, "unlock", "done")
    /\ lock' = (lock /\ ~held[r]) /\ held' = [held EXCEPT ![r] = FALSE]
    /\ UNCHANGED <<row, data, saw, queue, exec, world>>

LockExpires == /\ lock /\ lock' = FALSE
               /\ UNCHANGED <<row, data, request, queue, exec, world>>

\* CheckChunkTransaction: the broker asks about a message it has not heard of,
\* and the document's status answers.
CheckBack(r) ==
    /\ msg[r] = "half"
    /\ msg' = [msg EXCEPT ![r] = IF ~deleted /\ status = "running"
                                 THEN "ready" ELSE "none"]
    /\ UNCHANGED <<row, data, lock, request, attempts, guard, exec, world>>

------------------------------------------------------------------------------
(* The consumer: TryBegin, the task, Complete or Fail.                      *)

Go(r, from, to) == exec[r] = from /\ exec' = [exec EXCEPT ![r] = to]

\* The broker gives a message up after its last delivery.
AfterDelivery(n) == IF n >= MaxAttempts THEN "dead" ELSE "ready"

\* Mutant: "consuming" is no obstacle.
DeliverTwice(r) ==
    /\ msg[r] = "ready" /\ exec[r] = "none"
    /\ attempts' = [attempts EXCEPT ![r] = @ + 1]
    /\ guard' = "consuming" /\ Go(r, "none", "find") /\ UNCHANGED msg
    /\ UNCHANGED <<row, data, lock, request, world>>

\* Mutant: a busy document's message is not left to the broker's count.
DeliverUncounted(r) ==
    /\ msg[r] = "ready" /\ exec[r] = "none"
    /\ attempts' = [attempts EXCEPT ![r] = @ + 1]
    /\ \/ guard = "none" /\ guard' = "consuming" /\ Go(r, "none", "find")
       \/ guard = "consuming" /\ UNCHANGED <<exec, guard>>
    /\ UNCHANGED <<row, data, lock, request, msg, world>>

\* A delivery: the task begins, or the document's other run is not over
\* (ErrConsuming, try again later), or it is (ErrConsumed, nothing to do).
Deliver(r) ==
    /\ msg[r] = "ready" /\ exec[r] = "none"
    /\ attempts' = [attempts EXCEPT ![r] = @ + 1]
    /\ \/ /\ guard = "none" /\ guard' = "consuming"
          /\ Go(r, "none", "find") /\ UNCHANGED msg
       \/ /\ guard = "consuming"
          /\ msg' = [msg EXCEPT ![r] = AfterDelivery(attempts[r] + 1)]
          /\ UNCHANGED <<exec, guard>>
       \/ /\ guard = "consumed"
          /\ msg' = [msg EXCEPT ![r] = "dropped"]
          /\ UNCHANGED <<exec, guard>>
    /\ UNCHANGED <<row, data, lock, request, world>>

Complete(r) ==
    /\ Go(r, "ack", IF r \in Queued THEN "none" ELSE "over")
    /\ IF r \in Queued
       THEN guard' = "consumed" /\ msg' = [msg EXCEPT ![r] = "acked"]
       ELSE UNCHANGED <<guard, msg>>
    /\ UNCHANGED <<row, data, lock, request, attempts, world>>

Fail(r) ==
    /\ Go(r, "nack", IF r \in Queued THEN "none" ELSE "over")
    /\ IF r \in Queued
       THEN /\ guard' = "none"
            /\ msg' = [msg EXCEPT ![r] = AfterDelivery(attempts[r])]
       ELSE UNCHANGED <<guard, msg>>
    /\ UNCHANGED <<row, data, lock, request, attempts, world>>

\* Mutant: the message is acknowledged before its task is over.
CrashAcked(r) ==
    /\ Running(r) /\ crashes < MaxCrashes
    /\ crashes' = crashes + 1 /\ UNCHANGED workload
    /\ exec' = [exec EXCEPT ![r] = IF r \in Queued THEN "none" ELSE "over"]
    /\ msg' = IF r \in Queued THEN [msg EXCEPT ![r] = "acked"] ELSE msg
    /\ UNCHANGED <<row, data, lock, request, attempts, guard>>

\* The process dies: the key stays, and the broker delivers again.
Crash(r) ==
    /\ Running(r) /\ crashes < MaxCrashes
    /\ crashes' = crashes + 1 /\ UNCHANGED workload
    /\ exec' = [exec EXCEPT ![r] = IF r \in Queued THEN "none" ELSE "over"]
    /\ msg' = IF r \in Queued
              THEN [msg EXCEPT ![r] = AfterDelivery(attempts[r])] ELSE msg
    /\ UNCHANGED <<row, data, lock, request, attempts, guard>>

\* The key lasts an hour, which no task exceeds.
GuardExpires ==
    /\ guard # "none" /\ \A r \in Queued : ~Running(r)
    /\ guard' = "none"
    /\ UNCHANGED <<row, data, lock, request, msg, attempts, exec, world>>

------------------------------------------------------------------------------
(* executeChunk, outside of the pipeline mode.                              *)

Elsewhere == UNCHANGED <<lock, request, queue, world>>

\* A document that is gone is an error, and its row is left alone.
Find(r) == /\ Go(r, "find", IF deleted THEN "nack" ELSE "process")
           /\ UNCHANGED <<row, data>> /\ Elsewhere

\* runChunkProcess reads, parses, splits and embeds: it writes nothing.
Process(r) == /\ \E to \in {"persist", "fail"} : Go(r, "process", to)
              /\ UNCHANGED <<row, data>> /\ Elsewhere

\* The transaction: old rows out, new rows in, status.
Persist(r) ==
    /\ Go(r, "persist", "wipe")
    /\ chunks' = Version(r) /\ chunksOn' = TRUE /\ status' = "success"
    /\ UNCHANGED <<deleted, enabled, vectors>> /\ Elsewhere

\* The transaction fails.
PersistFails(r) == /\ Go(r, "persist", "fail")
                   /\ UNCHANGED <<row, data>> /\ Elsewhere

\* Mutant: the new vectors are added to the old ones.
WipeNothing(r) == /\ Go(r, "wipe", "index")
                  /\ UNCHANGED <<row, data>> /\ Elsewhere

\* Outside of it: the old vectors, whose deletion may fail unnoticed...
Wipe(r) ==
    /\ Go(r, "wipe", "index")
    /\ vectors' \in {{}} \cup (IF frail THEN {vectors} ELSE {})
    /\ UNCHANGED <<row, chunks, chunksOn>> /\ Elsewhere

\* ... and the new ones.
Index(r) ==
    /\ \/ Go(r, "index", "ack") /\ vectors' = vectors \cup {Version(r)}
       \/ Go(r, "index", "fail") /\ UNCHANGED vectors
    /\ UNCHANGED <<row, chunks, chunksOn>> /\ Elsewhere

MarkChunkFailed(r) ==
    /\ Go(r, "fail", "nack") /\ status' = "failed"
    /\ UNCHANGED <<deleted, enabled, data>> /\ Elsewhere

\* Mutant: the wrong documents are recovered.
RecoverDisabled ==
    /\ status = "running" /\ ~enabled /\ ~deleted /\ status' = "failed"
    /\ UNCHANGED <<deleted, enabled, data, exec>> /\ Elsewhere

\* RecoverStuckRunningDocuments: some documents only look stuck.
RecoverStuckRunning ==
    /\ status = "running" /\ enabled /\ ~deleted /\ status' = "failed"
    /\ UNCHANGED <<deleted, enabled, data, exec>> /\ Elsewhere

------------------------------------------------------------------------------
(* DeleteDocument and ToggleDocument: look first, then act.                 *)

Edits(r, kinds) == kind[r] \in kinds
NoTask == UNCHANGED <<lock, held, queue, exec, world>>

Look(r) ==
    /\ Edits(r, {"delete", "on", "off"})
    /\ Step(r, "idle", IF deleted \/ status = "running" THEN "done"
                       ELSE IF kind[r] = "delete" THEN "rows" ELSE "switch")
    /\ UNCHANGED <<row, data, saw>> /\ NoTask

DeleteChunks(r) ==
    /\ Step(r, "rows", "row") /\ chunks' = None
    /\ UNCHANGED <<row, chunksOn, vectors, saw>> /\ NoTask

SoftDelete(r) ==
    /\ Step(r, "row", "wipe") /\ deleted' = TRUE
    /\ UNCHANGED <<status, enabled, data, saw>> /\ NoTask

\* The transaction of a switch, for a document that is still there.
Switch(r) ==
    /\ Step(r, "switch", IF deleted THEN "done" ELSE "wipe")
    /\ IF deleted THEN UNCHANGED <<enabled, chunksOn>>
       ELSE enabled' = (kind[r] = "on") /\ chunksOn' = (kind[r] = "on")
    /\ UNCHANGED <<status, deleted, chunks, vectors, saw>> /\ NoTask

\* An error ends the request here.
DeleteVectors(r) ==
    /\ \/ /\ Step(r, "wipe", IF kind[r] = "on" THEN "read" ELSE "done")
          /\ vectors' = {}
       \/ frail /\ Step(r, "wipe", "done") /\ UNCHANGED vectors
    /\ UNCHANGED <<row, chunks, chunksOn, saw>> /\ NoTask

\* syncDocumentVectors loads the chunks, embeds them and writes them back.
LoadChunks(r) ==
    /\ Step(r, "read", IF chunks = None THEN "done" ELSE "index")
    /\ saw' = [saw EXCEPT ![r] = chunks]
    /\ UNCHANGED <<row, data>> /\ NoTask

IndexChunks(r) ==
    /\ Step(r, "index", "done")
    /\ vectors' \in {vectors, vectors \cup {saw[r]}}
    /\ UNCHANGED <<row, chunks, chunksOn, saw>> /\ NoTask

------------------------------------------------------------------------------
Task(r) == \/ Find(r) \/ Process(r) \/ Persist(r) \/ PersistFails(r) \/ Wipe(r)
           \/ Index(r) \/ MarkChunkFailed(r) \/ Complete(r) \/ Fail(r)

Serve(r) ==
    \/ Load(r) \/ Claim(r) \/ Unlock(r)
    \/ DeleteChunks(r) \/ SoftDelete(r) \/ Switch(r)
    \/ DeleteVectors(r) \/ LoadChunks(r) \/ IndexChunks(r)

Broker(r) == CheckBack(r) \/ Deliver(r)

Next ==
    \/ \E r \in Requests : \/ Lock(r) \/ Look(r) \/ Serve(r) \/ Broker(r)
                           \/ Task(r) \/ Crash(r)
    \/ LockExpires \/ GuardExpires \/ RecoverStuckRunning

Spec == Init /\ [][Next]_vars

\* The tasks, the broker and the recovery job go on; nobody has to ask.
FairSpec ==
    /\ Spec
    /\ \A r \in Requests :
           WF_vars(Serve(r)) /\ WF_vars(Broker(r)) /\ WF_vars(Task(r))
    /\ WF_vars(GuardExpires) /\ WF_vars(RecoverStuckRunning)

------------------------------------------------------------------------------
(* Safety                                                                   *)

\* However often a message is delivered, and whatever crashes, one queued task
\* at most runs for a document, and it holds the consume guard.
SingleRun ==
    /\ \A r \in Queued : Running(r) => guard = "consuming"
    /\ \A r, s \in Queued : Running(r) /\ Running(s) => r = s

Quiet == \A r \in Requests :
            /\ ~Running(r) /\ msg[r] \notin {"half", "ready"}
            /\ pc[r] \in {"idle", "done"}

\* Once everything has come to rest, an enabled document that says "success" is
\* found by exactly its live chunks.  This holds of documents that are chunked
\* through the queue and never switched on, unless a deletion of vectors failed
\* unnoticed or the broker gave a message up: an inline run excludes others only
\* until it has saved its chunks, and nothing repeats it after a crash; switching
\* on may bring back vectors of chunks that a run has replaced.
SearchIsWhole ==
    /\ Quiet /\ status = "success" /\ ~deleted /\ enabled
    /\ ~frail /\ Inline = {}
    /\ \A r \in Requests : kind[r] # "on" /\ msg[r] # "dead"
    => vectors = {chunks}

\* A document that is chunked through the queue says "running" only while a task
\* runs for it or its message will bring one, through check-backs, crashes,
\* redeliveries and recoveries: unless the broker gave a message up, or a message
\* was settled without a task, by the guard or by a commit whose answer was lost.
RunningIsTended ==
    /\ Inline = {} /\ status = "running" /\ ~deleted
    /\ \A r \in Queued : msg[r] \notin {"dead", "dropped"}
    => \E r \in Queued : Running(r) \/ msg[r] \in {"half", "ready"}

\* "更新为 running → 异步执行分块任务" (knowledge_document.go:773): as long as no
\* message is given up, a "running" document has a task that runs or will.
RunningHasTask ==
    status = "running" /\ ~deleted /\ (\A r \in Queued : msg[r] # "dead")
        => \E r \in Requests : Running(r) \/ msg[r] \in {"half", "ready"}

------------------------------------------------------------------------------
(* Liveness                                                                 *)

\* An accepted start comes to an end, whatever crashes: its message is settled
\* and the document, as long as it is there and enabled, no longer "running".
Settled(r) == msg[r] \in {"none", "acked", "dropped", "dead"}
StartsSettle ==
    \A r \in Requests :
        ~Settled(r) ~> Settled(r) /\ (status = "running" => ~enabled \/ deleted)
=============================================================================
