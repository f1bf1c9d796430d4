-------------------------- MODULE DocumentSchedule --------------------------
(* The periodic refresh of one document fetched from a URL                  *)
(* (biz/knowledge/service/knowledge_document_schedule.go): every process    *)
(* scans the schedule table, claims the due row with a lease, fetches the   *)
(* page, saves and chunks it, and writes the outcome back if it still owns  *)
(* the row, while users chunk the document through the message queue and    *)
(* close its schedule.  Vectors, the consume guard and the pipeline mode    *)
(* are left out: see DocumentChunk.                                         *)
(* Time is told by two facts about the row: is it due, is its lease live?   *)
EXTENDS Integers, FiniteSets

CONSTANTS Nodes,        \* processes that run DocumentScheduleService.Run
          Users,        \* requests of users to chunk the document
          Nobody,       \* "": no lock_owner
          MaxVersion,   \* versions of the remote page
          MaxRow,       \* identities of the schedule's row
          Faults,       \* what may happen, once each
          MaxFaults     \* how many of the Faults may happen

AllFaults == {"crash",  \* a process dies
              "stall",  \* a lease runs out: renewals fail, or the batch is long
              "close",  \* a user closes the schedule, perhaps to open it again
              "pause",  \* a user disables the document, perhaps to enable it again
              "slow",   \* a chunk task runs longer than runningTimeout
              "again",  \* the queue delivers a user's start again, repeatedly
              "index",  \* chunks are saved and their vectors are not, repeatedly
              "full"}   \* the batch exceeds scheduleQueueCapacity

ASSUME ScheduleAssumption ==
    /\ Nobody \notin Nodes /\ Nodes \cap Users = {} /\ Faults \subseteq AllFaults
    /\ MaxVersion \in Nat \ {0} /\ MaxRow \in Nat \ {0} /\ MaxFaults \in Nat

VARIABLES
    remote,             \* the version at the source
    row,                \* t_knowledge_document_schedule; row.id = 0: none
    lastId,             \* the last identity given to the row
    status, file,       \* the document's row, and its stored file
    chunks,             \* the version its chunk rows are of
    pc,                 \* the refresh of each process
    job,                \* the row as the process claimed it
    busy, fetched,      \* was the document running when it was loaded?
    fresh,              \* is its lease renewed in time?
    task, text,         \* the chunk tasks of refreshes and users; what they read
    faults,             \* what has happened
    unread              \* versions recorded for a document that was busy

page == <<remote, faults, unread>>
schedule == <<row, lastId>>
document == <<status, file, chunks>>
refresh == <<pc, job, busy, fetched, fresh>>
tasks == <<task, text>>
vars == <<page, schedule, document, refresh, tasks>>

Versions == 1 .. MaxVersion
NoVersion == 0
Tasks == Nodes \cup Users
NoRow == [id |-> 0, enabled |-> FALSE, due |-> FALSE,
          owner |-> Nobody, leased |-> FALSE, hash |-> NoVersion]
Rows == [id : 0 .. MaxRow, enabled : BOOLEAN, due : BOOLEAN,
         owner : Nodes \cup {Nobody}, leased : BOOLEAN, hash : NoVersion .. remote]
NoJob == [id |-> 0, hash |-> NoVersion]
Jobs == [id : 0 .. MaxRow, hash : NoVersion .. remote]
NewRow(id) == [NoRow EXCEPT !.id = id, !.enabled = TRUE]

\* The variables have their types; a version that is saved or recorded was at
\* the source before; a lease has an owner, a heartbeat a refresh.
TypeOK ==
    /\ remote \in Versions /\ faults \subseteq Faults /\ unread \subseteq Versions
    /\ row \in Rows
    /\ lastId \in row.id .. MaxRow
    /\ status \in {"pending", "running", "success", "failed"}
    /\ file \in NoVersion .. remote /\ chunks \in NoVersion .. remote
    /\ pc \in [Nodes -> {"idle", "queued", "fetch", "unchanged", "busy", "save",
                         "chunk", "settle", "fail"}]
    /\ job \in [Nodes -> Jobs]
    /\ busy \in [Nodes -> BOOLEAN] /\ fresh \in [Nodes -> BOOLEAN]
    /\ fetched \in [Nodes -> NoVersion .. remote]
    /\ task \in [Tasks -> {"none", "read", "persist", "index", "done",
                           "failed"}]
    /\ text \in [Tasks -> NoVersion .. remote]
    /\ row.leased => row.owner \in Nodes
    /\ \A n \in Nodes : fresh[n] => pc[n] # "idle"

Init ==
    /\ remote = 1 /\ faults = {} /\ unread = {}
    /\ row = NewRow(1) /\ lastId = 1
    /\ status = "pending" /\ file = NoVersion /\ chunks = NoVersion
    /\ pc = [n \in Nodes |-> "idle"]
    /\ job = [n \in Nodes |-> NoJob]
    /\ busy = [n \in Nodes |-> FALSE] /\ fresh = [n \in Nodes |-> FALSE]
    /\ fetched = [n \in Nodes |-> NoVersion]
    /\ task = [a \in Tasks |-> "none"] /\ text = [a \in Tasks |-> NoVersion]

Repeated == {"again", "index"}
Fault(f) == /\ f \in Faults
            /\ IF f \in faults THEN f \in Repeated
                              ELSE Cardinality(faults) < MaxFaults
            /\ faults' = faults \cup {f} /\ UNCHANGED <<remote, unread>>
Step(n, from, to) == pc[n] = from /\ pc' = [pc EXCEPT ![n] = to]
\* Mutant: the heartbeat survives the refresh.
OverButFresh(n) ==
    /\ pc' = [pc EXCEPT ![n] = "idle"] /\ job' = [job EXCEPT ![n] = NoJob]
    /\ busy' = [busy EXCEPT ![n] = FALSE]
    /\ fetched' = [fetched EXCEPT ![n] = NoVersion]
    /\ UNCHANGED fresh
\* A refresh is over, with all it knew and with its heartbeat.
Over(n) == /\ pc' = [pc EXCEPT ![n] = "idle"] /\ job' = [job EXCEPT ![n] = NoJob]
           /\ busy' = [busy EXCEPT ![n] = FALSE]
           /\ fetched' = [fetched EXCEPT ![n] = NoVersion]
           /\ fresh' = [fresh EXCEPT ![n] = FALSE]

------------------------------------------------------------------------------
(* The world: the page changes, time passes.                                *)

Publish == /\ remote < MaxVersion /\ remote' = remote + 1
           /\ UNCHANGED <<faults, unread, schedule, document, refresh, tasks>>

\* next_run_time comes.
FallDue == /\ row.enabled /\ ~row.due /\ row' = [row EXCEPT !.due = TRUE]
           /\ UNCHANGED <<page, lastId, document, refresh, tasks>>

\* lock_until passes, three heartbeats after the last renewal: only if the
\* holder is dead or stalls.
Lapse == /\ row.leased /\ (\A n \in Nodes : row.owner = n => ~fresh[n])
         /\ row' = [row EXCEPT !.leased = FALSE]
         /\ UNCHANGED <<page, lastId, document, refresh, tasks>>

------------------------------------------------------------------------------
(* ScanDue and ClaimDue.                                                    *)

\* Mutant: a lock is only free when its owner has cleared it.
ClaimCleared(n) ==
    /\ pc[n] = "idle" /\ row.enabled /\ row.due /\ row.owner = Nobody
    /\ row' = [row EXCEPT !.owner = n, !.leased = TRUE]
    /\ job' = [job EXCEPT ![n] = [id |-> row.id, hash |-> row.hash]]
    /\ pc' = [pc EXCEPT ![n] = "queued"] /\ fresh' = [fresh EXCEPT ![n] = TRUE]
    /\ UNCHANGED <<page, lastId, document, busy, fetched, tasks>>

\* Mutant: the lease is not asked.
ClaimLeased(n) ==
    /\ pc[n] = "idle" /\ row.enabled /\ row.due /\ row.owner # n
    /\ row' = [row EXCEPT !.owner = n, !.leased = TRUE]
    /\ job' = [job EXCEPT ![n] = [id |-> row.id, hash |-> row.hash]]
    /\ pc' = [pc EXCEPT ![n] = "queued"] /\ fresh' = [fresh EXCEPT ![n] = TRUE]
    /\ UNCHANGED <<page, lastId, document, busy, fetched, tasks>>

\* The row is selected and then updated under the same conditions: whoever
\* settled it in between has moved next_run_time past this scan's time.  The
\* claimed rows wait for a worker.  ScanDue waits for them all.
ClaimDue(n) ==
    /\ pc[n] = "idle" /\ row.enabled /\ row.due /\ ~row.leased
    /\ row' = [row EXCEPT !.owner = n, !.leased = TRUE]
    /\ job' = [job EXCEPT ![n] = [id |-> row.id, hash |-> row.hash]]
    /\ pc' = [pc EXCEPT ![n] = "queued"] /\ fresh' = [fresh EXCEPT ![n] = TRUE]
    /\ UNCHANGED <<page, lastId, document, busy, fetched, tasks>>

\* updateScheduleIfOwned: by identity and lock_owner.  lock_until is not asked.
Owns(n) == row.id = job[n].id /\ row.owner = n
Released == [row EXCEPT !.owner = Nobody, !.leased = FALSE]

\* Mutant: the row is written by its identity alone.
WriteUnowned(n, new) == row' = IF row.id = job[n].id THEN new ELSE row

WriteIfOwned(n, new) == row' = IF Owns(n) THEN new ELSE row

\* releaseSchedule: the batch's queue is full, the row stays due.
QueueFull(n) ==
    /\ pc[n] = "queued" /\ Over(n) /\ Fault("full") /\ WriteIfOwned(n, Released)
    /\ UNCHANGED <<lastId, document, tasks>>

\* startLockHeartbeat: a renewal that finds another owner ends the heartbeat
\* and only the heartbeat; one that fails is repeated at the next tick.
Renew(n) ==
    /\ pc[n] \notin {"idle", "queued", "settle"}
    /\ Owns(n) /\ (row.leased => ~fresh[n])
    /\ row' = [row EXCEPT !.leased = TRUE] /\ fresh' = [fresh EXCEPT ![n] = TRUE]
    /\ UNCHANGED <<page, lastId, document, pc, job, busy, fetched, tasks>>

\* No renewal for a whole lease: the database does not answer, or the row is
\* still waiting for a worker, where no heartbeat runs yet.
Stall(n) == /\ fresh[n] /\ Fault("stall") /\ fresh' = [fresh EXCEPT ![n] = FALSE]
            /\ UNCHANGED <<schedule, document, pc, job, busy, fetched, tasks>>

------------------------------------------------------------------------------
(* refreshOne.                                                              *)

\* The heartbeat starts and the document is loaded.  Its schedule may have been
\* closed since the claim: skipped, with nothing to write to.  Or the database
\* fails.
Find(n) ==
    /\ \/ row.id # 0 /\ Step(n, "queued", "fetch")
       \/ Step(n, "queued", "fail")
    /\ busy' = [busy EXCEPT ![n] = (status = "running")]
    /\ UNCHANGED <<page, schedule, document, job, fetched, fresh, tasks>>

\* The page is compared with what the claimed row recorded last, by etag or by
\* hash.
Fetch(n) ==
    /\ \/ Step(n, "fetch", "fail") /\ UNCHANGED fetched
       \/ /\ remote = job[n].hash /\ Step(n, "fetch", "unchanged")
          /\ UNCHANGED fetched
       \/ /\ remote # job[n].hash
          /\ Step(n, "fetch", IF busy[n] THEN "busy" ELSE "save")
          /\ fetched' = [fetched EXCEPT ![n] = remote]
    /\ UNCHANGED <<page, schedule, document, job, busy, fresh, tasks>>

\* The file, then the document's row (updateDocumentAfterFetch).
Save(n) ==
    /\ \/ Step(n, "save", "chunk") /\ file' = fetched[n]
       \/ Step(n, "save", "fail") /\ file' \in {file, fetched[n]}
    /\ UNCHANGED <<page, schedule, status, chunks, job, busy, fetched, fresh,
                   tasks>>

\* RunChunkNow is over.  The heartbeat stops before a success is written.
Chunked(n) ==
    /\ \/ task[n] = "done" /\ Step(n, "chunk", "settle")
       \/ task[n] = "failed" /\ Step(n, "chunk", "fail")
    /\ task' = [task EXCEPT ![n] = "none"]
    /\ UNCHANGED <<page, schedule, document, job, busy, fetched, fresh, text>>

\* The end of a refresh, with next_run_time in the future.
End(n, from, new) ==
    /\ pc[n] = from /\ Over(n) /\ WriteIfOwned(n, [new EXCEPT !.due = FALSE])
    /\ UNCHANGED <<remote, faults, lastId, document, tasks>>

Settle(n) == /\ End(n, "settle", [Released EXCEPT !.hash = fetched[n]])
             /\ UNCHANGED unread

\* Mutant: the failed content is recorded too.
FailWithHash(n) == /\ End(n, "fail", [Released EXCEPT !.hash = fetched[n]])
                   /\ UNCHANGED unread

\* markFailed records no content: the next run fetches it again.
MarkFailed(n) == End(n, "fail", Released) /\ UNCHANGED unread

\* markSkipped for an unchanged page, and for a document that was being chunked
\* when it was loaded: there the content that is not saved is recorded.
SkipUnchanged(n) == /\ End(n, "unchanged", [Released EXCEPT !.hash = job[n].hash])
                    /\ UNCHANGED unread
SkipBusy(n) == /\ End(n, "busy", [Released EXCEPT !.hash = fetched[n]])
               /\ unread' = IF Owns(n) THEN unread \cup {fetched[n]} ELSE unread

------------------------------------------------------------------------------
(* startChunk and executeChunk, of refreshes and users (see DocumentChunk). *)

Go(a, from, to) == task[a] = from /\ task' = [task EXCEPT ![a] = to]
Unscheduled == UNCHANGED <<schedule, refresh>>

\* The conditional update claims the document, or the request fails.  A user's
\* start is queued, and its transaction gives an existing schedule its
\* next_run_time anew (syncDocumentScheduleIfExistsTx).
StartChunk(a) ==
    /\ a \in Nodes => pc[a] = "chunk"
    /\ \/ /\ status # "running" /\ status' = "running" /\ Go(a, "none", "read")
          /\ row' = IF a \in Users THEN [row EXCEPT !.due = FALSE] ELSE row
       \/ Go(a, "none", "failed") /\ UNCHANGED <<status, row>>
    /\ UNCHANGED <<file, chunks, text, page, lastId, refresh>>

ReadFile(a) ==
    /\ \/ /\ Go(a, "read", "persist") /\ text' = [text EXCEPT ![a] = file]
          /\ UNCHANGED status
       \/ Go(a, "read", "failed") /\ status' = "failed" /\ UNCHANGED text
    /\ UNCHANGED <<file, chunks, page>> /\ Unscheduled

\* The transaction: the new chunk rows and the status, whoever runs by now.
Persist(a) ==
    /\ \/ Go(a, "persist", "index") /\ status' = "success" /\ chunks' = text[a]
       \/ Go(a, "persist", "failed") /\ status' = "failed" /\ UNCHANGED chunks
    /\ text' = [text EXCEPT ![a] = NoVersion]
    /\ UNCHANGED <<file, page>> /\ Unscheduled

\* The vectors follow outside of it: other tasks may start meanwhile, and a
\* failure marks the document, whoever runs by now.
Index(a) ==
    /\ \/ Go(a, "index", "done") /\ UNCHANGED <<status, page>>
       \/ Go(a, "index", "failed") /\ status' = "failed" /\ Fault("index")
    /\ UNCHANGED <<file, chunks, text>> /\ Unscheduled

\* A user's message is dropped: the consume guard remembers an earlier one.
Drop(u) == /\ Go(u, "read", "failed")
           /\ UNCHANGED <<document, text, page>> /\ Unscheduled

\* The queue delivers it again, after a failure or a lost acknowledgement:
\* executeChunk claims nothing.
Redeliver(u) == /\ task[u] \in {"done", "failed"} /\ Fault("again")
                /\ task' = [task EXCEPT ![u] = "read"]
                /\ UNCHANGED <<document, text>> /\ Unscheduled

\* RecoverStuckRunningDocuments, for enabled documents: a task has died, or
\* takes too long.
RecoverStuckRunning ==
    /\ status = "running" /\ (row.id # 0 => row.enabled) /\ status' = "failed"
    /\ \/ (\A a \in Tasks : task[a] \notin {"read", "persist"}) /\ UNCHANGED page
       \/ Fault("slow")
    /\ UNCHANGED <<file, chunks, schedule, refresh, tasks>>

------------------------------------------------------------------------------
(* Crashes, and what users do to the schedule.                              *)

\* The process comes back and scans again.  An outcome that cannot be written
\* is a crash, as far as the row can tell.
Crash(n) ==
    /\ pc[n] # "idle" /\ Over(n) /\ Fault("crash")
    /\ task' = [task EXCEPT ![n] = "none"] /\ text' = [text EXCEPT ![n] = NoVersion]
    /\ UNCHANGED <<schedule, document>>

\* The consumer of a user's message dies.
Die(u) ==
    /\ task[u] \in {"read", "persist", "index"} /\ Fault("crash")
    /\ task' = [task EXCEPT ![u] = "failed"]
    /\ text' = [text EXCEPT ![u] = NoVersion]
    /\ UNCHANGED document /\ Unscheduled

\* UpdateDocument, refused while the document is running: the row is deleted,
\* and inserted anew.
Close == /\ status # "running" /\ row.id # 0 /\ Fault("close") /\ row' = NoRow
         /\ UNCHANGED <<lastId, document, refresh, tasks>>
Open == /\ status # "running" /\ row.id = 0 /\ lastId < MaxRow
        /\ lastId' = lastId + 1 /\ row' = NewRow(lastId + 1)
        /\ UNCHANGED <<page, document, refresh, tasks>>

\* ToggleDocument (syncDocumentScheduleIfExistsTx): the row keeps its owner and
\* its lease, next_run_time is null or starts over.
Pause == /\ status # "running" /\ row.enabled /\ Fault("pause")
         /\ row' = [row EXCEPT !.enabled = FALSE, !.due = FALSE]
         /\ UNCHANGED <<lastId, document, refresh, tasks>>
Resume == /\ status # "running" /\ row.id # 0 /\ ~row.enabled
          /\ row' = [row EXCEPT !.enabled = TRUE, !.due = FALSE]
          /\ UNCHANGED <<page, lastId, document, refresh, tasks>>

------------------------------------------------------------------------------
Refresh(n) == \/ Find(n) \/ Fetch(n) \/ Save(n) \/ Chunked(n)
              \/ Settle(n) \/ MarkFailed(n) \/ SkipUnchanged(n) \/ SkipBusy(n)
Work(a) == ReadFile(a) \/ Persist(a) \/ Index(a)

Next == \/ Publish \/ FallDue \/ Lapse \/ RecoverStuckRunning
        \/ Close \/ Open \/ Pause \/ Resume
        \/ \E n \in Nodes : \/ ClaimDue(n) \/ QueueFull(n) \/ Renew(n) \/ Stall(n)
                            \/ Refresh(n) \/ Crash(n)
        \/ \E a \in Tasks : StartChunk(a) \/ Work(a)
        \/ \E u \in Users : Drop(u) \/ Redeliver(u) \/ Die(u)

Spec == Init /\ [][Next]_vars

\* Scans, refreshes, tasks and clocks go on; pages and users need not move.
FairSpec ==
    /\ Spec /\ WF_vars(Lapse) /\ WF_vars(RecoverStuckRunning)
    /\ \A n \in Nodes : /\ WF_vars(ClaimDue(n)) /\ WF_vars(Renew(n))
                        /\ WF_vars(Refresh(n)) /\ WF_vars(StartChunk(n))
    /\ \A a \in Tasks : WF_vars(Work(a))

------------------------------------------------------------------------------
(* Safety                                                                   *)

\* As long as leases are renewed in time and the row is not replaced, one
\* process at a time refreshes the document (DEVLOG.md:255).
OneRefresh ==
    faults \cap {"stall", "close"} = {}
        => \A m, n \in Nodes : pc[m] # "idle" /\ pc[n] # "idle" => m = n

\* What a refresh records has been chunked when it is recorded, and its chunks
\* are not replaced by older content later, whatever crashes: unless the
\* document was busy, or a task may overlap another one: leases are lost, the
\* schedule is replaced, a live task is taken for dead, or a user's start is
\* delivered again or fails after its chunks are saved.
RecordedIsChunked ==
    faults \cap {"stall", "close", "slow", "again", "index"} = {}
        => row.hash \in unread \/ row.hash <= chunks

\* Whatever fails, a refresh that lost its lease does not write its older
\* content over what its successor recorded.
RecordNeverGoesBack == [][row'.id = row.id => row'.hash >= row.hash]_vars

------------------------------------------------------------------------------
(* Liveness                                                                 *)

\* A due schedule is refreshed, or closed, even if its holder dies.
DueIsServed == row.due ~> ~row.due

------------------------------------------------------------------------------
(* What a message says and the code does not do.                            *)

\* "远程文件未变化" (knowledge_document_schedule.go:296): the stored file is the
\* remote one.
UnchangedIsStored ==
    [][\A n \in Nodes : pc[n] = "fetch" /\ pc'[n] = "unchanged"
                          => file = remote]_vars
=============================================================================
