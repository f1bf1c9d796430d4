------------------------- MODULE DocumentChunkProofs -------------------------
(* Proofs about DocumentChunk, for any number of requests of any kind, any   *)
(* number of deliveries and crashes.                                         *)
EXTENDS DocumentChunk, TLAPS

USE DocumentAssumption

\* A message that is not sent or not committed was never delivered, and no
\* request indexes chunks it has not loaded.
Undelivered ==
    \A r \in Requests :
        /\ pc[r] \in {"idle", "load", "claim"}
              => msg[r] = "none" /\ attempts[r] = 0 /\ exec[r] = "none"
        /\ msg[r] = "half" => attempts[r] = 0
        /\ pc[r] = "index" => saw[r] # None

TypeInv == TypeOK /\ Undelivered

------------------------------------------------------------------------------
(* Type correctness, one lemma for each part of the next-state relation.     *)

LEMMA InitTyped == Init => TypeInv
<1>1. {} \subseteq Versions /\ 0 \in 0 .. MaxAttempts /\ 0 \in 0 .. MaxCrashes
  OBVIOUS
<1>2. Init => TypeOK
  BY <1>1 DEF Init, TypeOK
<1>3. Init => Undelivered
  BY DEF Init, Undelivered
<1> QED BY <1>2, <1>3 DEF TypeInv

\* What the requests ask for does not change.
LEMMA WorkloadFixed ==
    [Next]_vars => workload' = workload /\ Queued' = Queued /\ Inline' = Inline
<1> SUFFICES ASSUME [Next]_vars PROVE workload' = workload
  BY DEF Queued, Inline, kind
<1> USE DEF world, NoTask, Elsewhere
<1>1. ASSUME NEW r \in Requests,
             \/ Lock(r) \/ Load(r) \/ Claim(r) \/ Unlock(r) \/ Look(r)
             \/ CheckBack(r) \/ Deliver(r) \/ Complete(r) \/ Fail(r) \/ Crash(r)
      PROVE  workload' = workload
  BY <1>1 DEF Lock, Load, Claim, Unlock, Look, CheckBack, Deliver, Complete, Fail, Crash
<1>2. ASSUME NEW r \in Requests,
             \/ Find(r) \/ Process(r) \/ Persist(r) \/ PersistFails(r) \/ Wipe(r)
             \/ Index(r) \/ MarkChunkFailed(r)
      PROVE  workload' = workload
  BY <1>2 DEF Find, Process, Persist, PersistFails, Wipe, Index, MarkChunkFailed
<1>3. ASSUME NEW r \in Requests,
             \/ DeleteChunks(r) \/ SoftDelete(r) \/ Switch(r)
             \/ DeleteVectors(r) \/ LoadChunks(r) \/ IndexChunks(r)
      PROVE  workload' = workload
  BY <1>3 DEF DeleteChunks, SoftDelete, Switch, DeleteVectors, LoadChunks, IndexChunks
<1>4. CASE LockExpires \/ GuardExpires \/ RecoverStuckRunning \/ UNCHANGED vars
  BY <1>4 DEF LockExpires, GuardExpires, RecoverStuckRunning, vars
<1> QED BY <1>1, <1>2, <1>3, <1>4 DEF Next, Serve, Broker, Task

LEMMA StartTyped ==
    ASSUME TypeInv, NEW r \in Requests, Lock(r) \/ Load(r) \/ Claim(r) \/ Unlock(r)
    PROVE  TypeInv'
<1> USE DEF TypeInv, TypeOK, Undelivered, Versions, row, data, request, queue, world,
            Step, StartsChunk, Queued, Inline, Kinds
<1>1. CASE Lock(r)
  BY <1>1 DEF Lock
<1>2. CASE Load(r)
  BY <1>2 DEF Load
<1>3. CASE Claim(r)
  BY <1>3 DEF Claim
<1>4. CASE Unlock(r)
  BY <1>4 DEF Unlock
<1> QED BY <1>1, <1>2, <1>3, <1>4

LEMMA QueueTyped ==
    ASSUME TypeInv, NEW r \in Requests,
           CheckBack(r) \/ Deliver(r) \/ Complete(r) \/ Fail(r) \/ Crash(r)
    PROVE  TypeInv'
<1> USE DEF TypeInv, TypeOK, Undelivered, Versions, row, data, request, queue, world,
            Go, Running, AfterDelivery
<1>1. CASE CheckBack(r)
  BY <1>1 DEF CheckBack
<1>2. CASE Deliver(r)
  BY <1>2 DEF Deliver
<1>3. CASE Complete(r)
  BY <1>3 DEF Complete
<1>4. CASE Fail(r)
  BY <1>4 DEF Fail
<1>5. CASE Crash(r)
  BY <1>5 DEF Crash
<1> QED BY <1>1, <1>2, <1>3, <1>4, <1>5

LEMMA ChunkTyped ==
    ASSUME TypeInv, NEW r \in Requests,
           \/ Find(r) \/ Process(r) \/ Persist(r) \/ PersistFails(r) \/ Wipe(r)
           \/ Index(r) \/ MarkChunkFailed(r)
    PROVE  TypeInv'
<1> USE DEF TypeInv, TypeOK, Undelivered, Versions, Version, row, data, request,
            queue, world, Go, Elsewhere
<1>1. CASE Find(r)
  BY <1>1 DEF Find
<1>2. CASE Process(r)
  BY <1>2 DEF Process
<1>3. CASE Persist(r)
  BY <1>3 DEF Persist
<1>4. CASE PersistFails(r)
  BY <1>4 DEF PersistFails
<1>5. CASE Wipe(r)
  BY <1>5 DEF Wipe
<1>6. CASE Index(r)
  BY <1>6 DEF Index
<1>7. CASE MarkChunkFailed(r)
  BY <1>7 DEF MarkChunkFailed
<1> QED BY <1>1, <1>2, <1>3, <1>4, <1>5, <1>6, <1>7

LEMMA EditTyped ==
    ASSUME TypeInv, NEW r \in Requests,
           \/ Look(r) \/ DeleteChunks(r) \/ SoftDelete(r) \/ Switch(r)
           \/ DeleteVectors(r) \/ LoadChunks(r) \/ IndexChunks(r)
    PROVE  TypeInv'
<1> USE DEF TypeInv, TypeOK, Undelivered, Versions, row, data, request, queue, world,
            Step, NoTask, Edits
<1>1. CASE Look(r)
  BY <1>1 DEF Look
<1>2. CASE DeleteChunks(r)
  BY <1>2 DEF DeleteChunks
<1>3. CASE SoftDelete(r)
  BY <1>3 DEF SoftDelete
<1>4. CASE Switch(r)
  BY <1>4 DEF Switch
<1>5. CASE DeleteVectors(r)
  BY <1>5 DEF DeleteVectors
<1>6. CASE LoadChunks(r)
  BY <1>6 DEF LoadChunks
<1>7. CASE IndexChunks(r)
  BY <1>7 DEF IndexChunks
<1> QED BY <1>1, <1>2, <1>3, <1>4, <1>5, <1>6, <1>7

LEMMA TypeStep == TypeInv /\ [Next]_vars => TypeInv'
<1> SUFFICES ASSUME TypeInv, [Next]_vars PROVE TypeInv'
  OBVIOUS
<1> USE DEF TypeInv, TypeOK, Undelivered, Versions, row, data, request, queue, world
<1>1. ASSUME NEW r \in Requests, Task(r) PROVE TypeInv'
  BY <1>1, ChunkTyped, QueueTyped DEF Task
<1>2. ASSUME NEW r \in Requests, Serve(r) PROVE TypeInv'
  BY <1>2, StartTyped, EditTyped DEF Serve
<1>3. ASSUME NEW r \in Requests, Lock(r) \/ Look(r) \/ Broker(r) \/ Crash(r)
      PROVE  TypeInv'
  BY <1>3, StartTyped, EditTyped, QueueTyped DEF Broker
<1>4. CASE LockExpires
  BY <1>4 DEF LockExpires
<1>5. CASE GuardExpires
  BY <1>5 DEF GuardExpires
<1>6. CASE RecoverStuckRunning
  BY <1>6 DEF RecoverStuckRunning, Elsewhere
<1>7. CASE UNCHANGED vars
  BY <1>7 DEF vars
<1> QED BY <1>1, <1>2, <1>3, <1>4, <1>5, <1>6, <1>7 DEF Next

\* Every variable keeps its type, and no message is delivered more often than
\* the broker allows (the retries of mq_consumers.go).
THEOREM TypeCorrect == Spec => []TypeOK
<1>1. TypeInv => TypeOK
  BY DEF TypeInv
<1> QED BY InitTyped, TypeStep, <1>1, PTL DEF Spec

------------------------------------------------------------------------------
(* One queued task at a time.                                                *)

\* Whoever runs holds the guard; so a task that begins finds nobody running, and
\* the guard is only given back by the one that runs.
LEMMA SingleRunStep ==
    TypeInv /\ SingleRun /\ [Next]_vars => SingleRun'
<1> SUFFICES ASSUME TypeInv, SingleRun, [Next]_vars PROVE SingleRun'
  OBVIOUS
<1>1. exec \in [Requests -> {"none", "find", "process", "persist", "wipe", "index",
                             "fail", "nack", "ack", "over"}]
  BY DEF TypeInv, TypeOK
<1>w. Queued' = Queued /\ Queued \subseteq Requests
  BY WorkloadFixed DEF Queued
<1>2. CASE UNCHANGED <<exec, guard>>
  BY <1>2, <1>w DEF SingleRun, Running
<1>3. ASSUME NEW r \in Requests, Task(r), guard' = guard,
             Running(r), exec' = [exec EXCEPT ![r] = exec'[r]]
      PROVE  SingleRun'
  BY <1>1, <1>3, <1>w DEF SingleRun, Running
<1>4. ASSUME NEW r \in Requests,
             \/ Find(r) \/ Process(r) \/ Persist(r) \/ PersistFails(r) \/ Wipe(r)
             \/ Index(r) \/ MarkChunkFailed(r)
      PROVE  SingleRun'
  <2>1. guard' = guard
    BY <1>4 DEF Find, Process, Persist, PersistFails, Wipe, Index, MarkChunkFailed,
                Elsewhere, queue
  <2>2. Running(r) /\ exec' = [exec EXCEPT ![r] = exec'[r]]
    BY <1>1, <1>4 DEF Find, Process, Persist, PersistFails, Wipe, Index,
                      MarkChunkFailed, Go, Running
  <2> QED BY <1>3, <1>4, <2>1, <2>2 DEF Task
<1>5. ASSUME NEW r \in Requests, Complete(r) \/ Fail(r) PROVE SingleRun'
  <2>1. Running(r) /\ exec'[r] \in {"none", "over"}
        /\ \A s \in Requests \ {r} : exec'[s] = exec[s]
    BY <1>1, <1>5 DEF Complete, Fail, Go, Running
  <2>2. CASE r \in Queued
    <3>1. \A s \in Queued : ~Running(s)'
      BY <2>1, <2>2, <1>w DEF SingleRun, Running
    <3> QED BY <3>1, <1>w DEF SingleRun
  <2>3. CASE r \notin Queued
    <3>1. guard' = guard
      BY <1>5, <2>3 DEF Complete, Fail
    <3> QED BY <2>1, <2>3, <3>1, <1>w DEF SingleRun, Running
  <2> QED BY <2>2, <2>3
<1>6. ASSUME NEW r \in Requests, Crash(r) PROVE SingleRun'
  <2>1. guard' = guard /\ exec'[r] \in {"none", "over"}
        /\ \A s \in Requests \ {r} : exec'[s] = exec[s]
    BY <1>1, <1>6 DEF Crash
  <2> QED BY <2>1, <1>w DEF SingleRun, Running
<1>7. ASSUME NEW r \in Requests, Deliver(r) PROVE SingleRun'
  <2>1. CASE guard = "none"
    <3>1. \A s \in Queued : ~Running(s)
      BY <2>1 DEF SingleRun
    <3>2. guard' = "consuming" /\ \A s \in Requests \ {r} : exec'[s] = exec[s]
      BY <1>1, <1>7, <2>1 DEF Deliver, Go
    <3> QED BY <3>1, <3>2, <1>w DEF SingleRun, Running
  <2>2. CASE guard # "none"
    BY <1>7, <2>2, <1>2 DEF Deliver
  <2> QED BY <2>1, <2>2
<1>8. ASSUME NEW r \in Requests, Claim(r) PROVE SingleRun'
  <2>1. guard' = guard /\ \A s \in Queued : exec'[s] = exec[s]
    BY <1>1, <1>8 DEF Claim, Queued, Inline
  <2> QED BY <2>1, <1>w DEF SingleRun, Running
<1>9. CASE GuardExpires
  BY <1>9, <1>w DEF GuardExpires, SingleRun, Running
<1>10. ASSUME NEW r \in Requests,
              Lock(r) \/ Load(r) \/ Unlock(r) \/ CheckBack(r) \/ Look(r)
       PROVE  SingleRun'
  BY <1>2, <1>10 DEF Lock, Load, Unlock, CheckBack, Look, queue, NoTask
<1>11. ASSUME NEW r \in Requests,
              \/ DeleteChunks(r) \/ SoftDelete(r) \/ Switch(r)
              \/ DeleteVectors(r) \/ LoadChunks(r) \/ IndexChunks(r)
       PROVE  SingleRun'
  BY <1>2, <1>11 DEF DeleteChunks, SoftDelete, Switch, DeleteVectors, LoadChunks,
                     IndexChunks, queue, NoTask
<1>12. CASE LockExpires \/ RecoverStuckRunning \/ UNCHANGED vars
  BY <1>2, <1>12 DEF LockExpires, RecoverStuckRunning, Elsewhere, vars, queue
<1> QED
  BY <1>4, <1>5, <1>6, <1>7, <1>8, <1>9, <1>10, <1>11, <1>12
     DEF Next, Serve, Broker, Task

\* At most one queued task runs for the document at any time, and it holds the
\* consume guard (RegisterKnowledgeDocumentChunkConsumer, TryBegin).
THEOREM SingleRunCorrect == Spec => []SingleRun
<1>1. Init => SingleRun
  BY DEF Init, SingleRun, Running, Queued
<1>2. TypeInv /\ [Next]_vars => TypeInv'
  BY TypeStep
<1> QED BY InitTyped, <1>1, <1>2, SingleRunStep, PTL DEF Spec

------------------------------------------------------------------------------
(* Chunks and vectors.                                                       *)

\* Which requests can be where, and which have a message or a task.
Places ==
    \A r \in Requests :
        /\ exec[r] # "none" => StartsChunk(r)
        /\ msg[r] # "none" => r \in Queued
        /\ r \in Queued => exec[r] # "over" /\ (Running(r) => msg[r] = "ready")
        /\ pc[r] \in {"load", "claim", "unlock"} => StartsChunk(r)
        /\ pc[r] \in {"rows", "row"} => kind[r] = "delete"
        /\ pc[r] = "switch" => kind[r] \in {"on", "off"}
        /\ pc[r] = "wipe" => kind[r] \in {"delete", "on", "off"}
        /\ pc[r] \in {"read", "index"} => kind[r] = "on"

\* A workload of queued starts, deletions and switches off, on a vector store
\* whose deletions succeed, and a document that nobody has begun to take away.
Clean == ~frail /\ \A r \in Requests : kind[r] \notin {"inline", "on"}
Cold == ~deleted /\ enabled /\ \A r \in Requests : pc[r] # "row"

\* A task that has yet to make good what it or another one left behind; a
\* delivery that will start one; a message given up.
Busy == \E r \in Queued : exec[r] \in {"find", "process", "persist", "wipe", "index",
                                       "fail", "nack"}
Due == guard # "consumed" /\ \E r \in Queued : msg[r] = "ready"
Lost == \E r \in Requests : msg[r] = "dead"

\* What a task knows of the chunks and the vectors at its three last steps.
Placed(r) ==
    /\ exec[r] \in {"wipe", "index"} => chunks = Version(r)
    /\ exec[r] = "index" => vectors = {}
    /\ exec[r] = "ack" /\ status = "success" => vectors = {chunks}

WholeInv ==
    Clean => /\ \A r \in Requests : pc[r] = "wipe" => deleted \/ ~enabled
             /\ Cold => /\ \A r \in Queued : Placed(r)
                        /\ status = "success"
                               => vectors = {chunks} \/ Busy \/ Due \/ Lost

LEMMA PlacesInit == Init => Places
<1>1. ASSUME Init, NEW r \in Requests
      PROVE  pc[r] = "idle" /\ msg[r] = "none" /\ exec[r] = "none"
  BY <1>1 DEF Init
<1> QED BY <1>1, Zenon DEF Places, Running

LEMMA PlacesStep ==
    ASSUME TypeInv, Places, [Next]_vars
    PROVE  Places'
<1> USE DEF TypeInv, TypeOK, Undelivered, Places, StartsChunk, Running, row, data,
            request, queue, world
<1>w. workload' = workload /\ Queued' = Queued /\ Inline' = Inline /\ kind' = kind
  BY WorkloadFixed DEF kind
<1>1. ASSUME NEW r \in Requests, Lock(r) \/ Load(r) \/ Unlock(r) \/ Look(r)
      PROVE  Places'
  BY <1>1, <1>w DEF Lock, Load, Unlock, Look, Step, NoTask, Edits
<1>2. ASSUME NEW r \in Requests, Claim(r) PROVE Places'
  BY <1>2, <1>w DEF Claim, Step, Queued, Inline
<1>3. ASSUME NEW r \in Requests, CheckBack(r) \/ Deliver(r) PROVE Places'
  BY <1>3, <1>w DEF CheckBack, Deliver, Go, AfterDelivery
<1>4. ASSUME NEW r \in Requests, Complete(r) \/ Fail(r) \/ Crash(r) PROVE Places'
  BY <1>4, <1>w DEF Complete, Fail, Crash, Go, AfterDelivery
<1>5. ASSUME NEW r \in Requests,
             \/ Find(r) \/ Process(r) \/ Persist(r) \/ PersistFails(r) \/ Wipe(r)
             \/ Index(r) \/ MarkChunkFailed(r)
      PROVE  Places'
  BY <1>5, <1>w DEF Find, Process, Persist, PersistFails, Wipe, Index,
                    MarkChunkFailed, Go, Elsewhere
<1>6. ASSUME NEW r \in Requests,
             \/ DeleteChunks(r) \/ SoftDelete(r) \/ Switch(r)
             \/ DeleteVectors(r) \/ LoadChunks(r) \/ IndexChunks(r)
      PROVE  Places'
  BY <1>6, <1>w DEF DeleteChunks, SoftDelete, Switch, DeleteVectors, LoadChunks,
                    IndexChunks, Step, NoTask
<1>7. CASE LockExpires \/ GuardExpires \/ RecoverStuckRunning \/ UNCHANGED vars
  BY <1>7, <1>w DEF LockExpires, GuardExpires, RecoverStuckRunning, Elsewhere, vars
<1> QED BY <1>1, <1>2, <1>3, <1>4, <1>5, <1>6, <1>7 DEF Next, Serve, Broker, Task

\* Nobody takes back a deletion or a switch, and vectors are deleted only after
\* one of them.
LEMMA StaysHot ==
    ASSUME TypeInv, Places, Clean, WholeInv, [Next]_vars
    PROVE  /\ Cold' => Cold
           /\ \A s \in Requests : pc'[s] = "wipe" => deleted' \/ ~enabled'
<1> DEFINE Hot == \A s \in Requests : pc'[s] = "wipe" => deleted' \/ ~enabled'
<1> USE DEF TypeInv, TypeOK, Places, Clean, Cold, row, data, request, queue, world
<1>0. \A s \in Requests : pc[s] = "wipe" => deleted \/ ~enabled
  BY DEF WholeInv
<1>1. ASSUME NEW r \in Requests,
             Lock(r) \/ Load(r) \/ Claim(r) \/ Unlock(r) \/ Look(r)
      PROVE  (Cold' => Cold) /\ Hot
  BY <1>0, <1>1 DEF Lock, Load, Claim, Unlock, Look, Step, Edits
<1>2. ASSUME UNCHANGED <<deleted, enabled, pc>> PROVE (Cold' => Cold) /\ Hot
  BY <1>0, <1>2
<1>3. ASSUME NEW r \in Requests, Task(r) \/ Broker(r) \/ Crash(r)
      PROVE  UNCHANGED <<deleted, enabled, pc>>
  BY <1>3 DEF Task, Broker, CheckBack, Deliver, Complete, Fail, Crash, Find, Process,
              Persist, PersistFails, Wipe, Index, MarkChunkFailed, Elsewhere
<1>4. ASSUME NEW r \in Requests,
             DeleteChunks(r) \/ SoftDelete(r) \/ Switch(r) \/ DeleteVectors(r)
      PROVE  (Cold' => Cold) /\ Hot
  BY <1>0, <1>4 DEF DeleteChunks, SoftDelete, Switch, DeleteVectors, Step
<1>5. ASSUME NEW r \in Requests, LoadChunks(r) \/ IndexChunks(r) PROVE FALSE
  BY <1>5 DEF LoadChunks, IndexChunks, Step
<1>6. CASE LockExpires \/ GuardExpires \/ RecoverStuckRunning \/ UNCHANGED vars
  BY <1>2, <1>6 DEF LockExpires, GuardExpires, RecoverStuckRunning, Elsewhere, vars
<1> QED BY <1>1, <1>2, <1>3, <1>4, <1>5, <1>6 DEF Next, Serve

\* A step that leaves the data and the tasks alone, and makes no document
\* successful, keeps what is said of them.
LEMMA Aside ==
    ASSUME Clean => Clean', UNCHANGED <<chunks, vectors, exec, attempts, Queued>>,
           status' = "success" => status = "success", Due => Due', Lost => Lost',
           \A r \in Queued : Placed(r),
           status = "success" => vectors = {chunks} \/ Busy \/ Due \/ Lost
    PROVE  /\ \A r \in Queued' : Placed(r)'
           /\ status' = "success" => (vectors = {chunks} \/ Busy \/ Due \/ Lost)'
  BY DEF Placed, Version, Busy

LEMMA WholeStep ==
    ASSUME TypeInv, Places, SingleRun, WholeInv, [Next]_vars
    PROVE  WholeInv'
<1> DEFINE Body == /\ \A r \in Queued : Placed(r)
                   /\ status = "success" => vectors = {chunks} \/ Busy \/ Due \/ Lost
<1>w. workload' = workload /\ Queued' = Queued /\ Inline' = Inline /\ Clean' = Clean
  BY WorkloadFixed DEF Clean, kind, frail
<1> SUFFICES ASSUME Clean, Cold, Cold' PROVE Body'
  BY <1>w, StaysHot DEF WholeInv
<1>b. Body
  BY DEF WholeInv
<1>q. Queued \subseteq Requests /\ \A r \in Requests : StartsChunk(r) => r \in Queued
  BY DEF Clean, StartsChunk, Queued, Inline
<1> USE DEF TypeInv, TypeOK, row, data, request, queue, world
<1>1. ASSUME NEW r \in Requests,
             Lock(r) \/ Load(r) \/ Unlock(r) \/ Look(r)
      PROVE  Body'
  <2>1. UNCHANGED <<chunks, vectors, exec, attempts, status, guard, msg>>
    BY <1>1 DEF Lock, Load, Unlock, Look, NoTask
  <2> QED BY <2>1, <1>b, <1>w, Aside DEF Due, Lost
<1>2. ASSUME NEW r \in Requests, Claim(r) PROVE Body'
  <2>1. r \in Queued /\ r \notin Inline
    BY <1>2, <1>q DEF Claim, Clean, Inline
  <2>2. UNCHANGED <<chunks, vectors, exec, attempts, guard>>
        /\ (status' = "success" => status = "success")
    BY <1>2, <2>1 DEF Claim
  <2>3. msg[r] = "none" /\ \A s \in Requests \ {r} : msg'[s] = msg[s]
    BY <1>2, <2>1 DEF Claim, Undelivered, Step
  <2>4. (Due => Due') /\ (Lost => Lost')
    BY <2>2, <2>3, <1>w, <1>q DEF Due, Lost
  <2> QED BY <2>2, <2>4, <1>b, <1>w, Aside
<1>3. ASSUME NEW r \in Requests, CheckBack(r) PROVE Body'
  <2>1. UNCHANGED <<chunks, vectors, exec, attempts, status, guard>>
    BY <1>3 DEF CheckBack
  <2>2. msg[r] = "half" /\ \A s \in Requests \ {r} : msg'[s] = msg[s]
    BY <1>3 DEF CheckBack
  <2>3. (Due => Due') /\ (Lost => Lost')
    BY <2>1, <2>2, <1>w, <1>q DEF Due, Lost
  <2> QED BY <2>1, <2>3, <1>b, <1>w, Aside
<1>4. ASSUME NEW r \in Requests, Deliver(r) PROVE Body'
  <2>1. r \in Queued /\ msg[r] = "ready" /\ exec[r] = "none"
    BY <1>4, <1>q DEF Deliver, Places
  <2>2. UNCHANGED <<chunks, vectors, status>> /\ \A s \in Requests \ {r} :
            attempts'[s] = attempts[s] /\ exec'[s] = exec[s] /\ msg'[s] = msg[s]
    BY <1>4 DEF Deliver, Go
  <2>3. exec'[r] \in {"none", "find"}
    BY <1>4 DEF Deliver, Go
  <2>4. \A s \in Queued : Placed(s)'
    BY <2>1, <2>2, <2>3, <1>b, <1>q DEF Placed, Version
  <2>5. CASE guard = "none"
    <3>1. exec'[r] = "find"
      BY <1>4, <2>5 DEF Deliver, Go
    <3> QED BY <3>1, <2>1, <2>4, <1>w DEF Busy
  <2>6. CASE guard = "consuming"
    <3>1. UNCHANGED <<exec, guard>> /\ msg'[r] \in {"ready", "dead"}
      BY <1>4, <2>6 DEF Deliver, AfterDelivery
    <3>2. (Busy => Busy') /\ (Lost => Lost')
      BY <3>1, <2>1, <2>2, <1>w DEF Busy, Lost
    <3>3. Due => Due' \/ Lost'
      BY <3>1, <2>1, <1>w, <1>q, <2>6 DEF Due, Lost
    <3> QED BY <3>2, <3>3, <2>2, <2>4, <1>b, <1>w
  <2>7. CASE guard = "consumed"
    <3>1. UNCHANGED <<exec, guard>>
      BY <1>4, <2>7 DEF Deliver
    <3>2. (Busy => Busy') /\ (Lost => Lost') /\ ~Due
      BY <3>1, <2>1, <2>2, <2>7, <1>w DEF Busy, Lost, Due
    <3> QED BY <3>2, <2>2, <2>4, <1>b, <1>w
  <2> QED BY <2>5, <2>6, <2>7
<1>5. ASSUME NEW r \in Requests, Running(r)
      PROVE  /\ r \in Queued /\ msg[r] = "ready" /\ guard = "consuming"
             /\ \A s \in Queued \ {r} : exec[s] \in {"none", "over"}
  <2>1. r \in Queued
    BY <1>5, <1>q DEF Places, Running
  <2> QED BY <1>5, <2>1, <1>q DEF Places, SingleRun, Running
<1>6. ASSUME NEW r \in Requests, Complete(r) PROVE Body'
  <2>1. exec[r] = "ack"
    BY <1>6 DEF Complete, Go
  <2>2. r \in Queued /\ \A s \in Queued \ {r} : exec[s] \in {"none", "over"}
    BY <2>1, <1>5 DEF Running
  <2>3. status = "success" => vectors = {chunks}
    BY <2>1, <2>2, <1>b DEF Placed
  <2>4. UNCHANGED <<chunks, vectors, status>>
        /\ \A s \in Queued : exec'[s] \in {"none", "over"}
    BY <1>6, <2>2, <1>q DEF Complete, Go
  <2> QED BY <2>3, <2>4, <1>w DEF Placed
<1>7. ASSUME NEW r \in Requests, Fail(r) \/ Crash(r) PROVE Body'
  <2>1. Running(r) /\ (exec[r] = "ack" \/ exec[r] \in {"find", "process", "persist",
                                           "wipe", "index", "fail", "nack"})
    BY <1>7 DEF Fail, Crash, Go, Running
  <2>2. /\ r \in Queued /\ msg[r] = "ready" /\ guard = "consuming"
        /\ \A s \in Queued \ {r} : exec[s] \in {"none", "over"}
    BY <2>1, <1>5
  <2>3. /\ UNCHANGED <<chunks, vectors, status>>
        /\ \A s \in Queued : exec'[s] \in {"none", "over"}
        /\ guard' # "consumed" /\ msg'[r] \in {"ready", "dead"}
    BY <1>7, <2>2, <1>q DEF Fail, Crash, Go, AfterDelivery
  <2> QED BY <2>2, <2>3, <1>w, <1>q DEF Placed, Due, Lost
<1>8. ASSUME NEW r \in Requests,
             \/ Find(r) \/ Process(r) \/ Persist(r) \/ PersistFails(r) \/ Wipe(r)
             \/ Index(r) \/ MarkChunkFailed(r)
      PROVE  Body'
  <2>1. Running(r)
    BY <1>8 DEF Find, Process, Persist, PersistFails, Wipe, Index, MarkChunkFailed,
                Go, Running
  <2>2. r \in Queued /\ \A s \in Queued \ {r} : exec[s] \in {"none", "over"}
    BY <2>1, <1>5
  <2>3. attempts' = attempts /\ \A s \in Queued \ {r} : exec'[s] = exec[s]
    BY <1>8, <1>q DEF Find, Process, Persist, PersistFails, Wipe, Index,
                      MarkChunkFailed, Go, Elsewhere
  <2>4. \A s \in Queued \ {r} : Placed(s)'
    BY <2>2, <2>3 DEF Placed
  <2>5. CASE Find(r) \/ Process(r) \/ PersistFails(r) \/ MarkChunkFailed(r)
    <3>1. exec'[r] \in {"process", "persist", "fail", "nack"}
      BY <2>5, <1>q, <2>2 DEF Find, Process, PersistFails, MarkChunkFailed, Go
    <3> QED BY <3>1, <2>2, <2>4, <1>w DEF Placed, Busy
  <2>6. CASE Persist(r)
    <3>1. exec'[r] = "wipe" /\ chunks' = Version(r)
      BY <2>6 DEF Persist, Go
    <3> QED BY <3>1, <2>2, <2>3, <2>4, <1>w DEF Placed, Busy, Version
  <2>7. CASE Wipe(r)
    <3>1. exec[r] = "wipe" /\ exec'[r] = "index" /\ chunks' = chunks /\ vectors' = {}
      BY <2>7 DEF Wipe, Go, Clean
    <3> QED BY <3>1, <2>2, <2>3, <2>4, <1>b, <1>w DEF Placed, Busy, Version
  <2>8. CASE Index(r)
    <3>1. exec[r] = "index" /\ chunks = Version(r) /\ vectors = {} /\ chunks' = chunks
      BY <2>8, <2>2, <1>b DEF Index, Go, Placed
    <3>2. CASE exec'[r] = "ack" /\ vectors' = {chunks'}
      BY <3>2, <2>2, <2>4, <1>w DEF Placed
    <3>3. CASE exec'[r] = "fail"
      BY <3>3, <2>2, <2>4, <1>w DEF Placed, Busy
    <3> QED BY <2>8, <3>1, <3>2, <3>3 DEF Index, Go
  <2> QED BY <1>8, <2>5, <2>6, <2>7, <2>8
<1>9. ASSUME NEW r \in Requests, SoftDelete(r) \/ DeleteVectors(r) PROVE FALSE
  BY <1>9 DEF SoftDelete, DeleteVectors, Step, Cold, WholeInv
<1>10. ASSUME NEW r \in Requests, DeleteChunks(r) PROVE FALSE
  BY <1>10 DEF DeleteChunks, Step, Cold
<1>11. ASSUME NEW r \in Requests, Switch(r) PROVE FALSE
  BY <1>11 DEF Switch, Step, Cold, Places, Clean
<1>12. ASSUME NEW r \in Requests, LoadChunks(r) \/ IndexChunks(r) PROVE FALSE
  BY <1>12 DEF LoadChunks, IndexChunks, Step, Places, Clean
<1>13. CASE LockExpires \/ GuardExpires \/ RecoverStuckRunning \/ UNCHANGED vars
  <2>1. /\ UNCHANGED <<chunks, vectors, exec, attempts, msg>>
        /\ status' = "success" => status = "success"
        /\ guard' = guard \/ guard' = "none"
    BY <1>13 DEF LockExpires, GuardExpires, RecoverStuckRunning, Elsewhere, vars
  <2> QED BY <2>1, <1>b, <1>w, Aside DEF Due, Lost
<1> QED BY <1>1, <1>2, <1>3, <1>4, <1>6, <1>7, <1>8, <1>9, <1>10, <1>11, <1>12, <1>13
        DEF Next, Serve, Broker, Task

\* A document at rest in "success" is found by exactly its live chunks, although
\* rows and vectors are replaced in three separate steps and any of them may be
\* the last of its process (persistChunksAndVectors, the consumer's retries).
THEOREM SearchCorrect == Spec => []SearchIsWhole
<1>1. Init => Places /\ SingleRun /\ WholeInv
  <2>1. Init => SingleRun
    BY DEF Init, SingleRun, Running, Queued
  <2>2. Init => Places
    BY PlacesInit
  <2>3. Init => WholeInv
    BY DEF Init, WholeInv, Placed, Queued
  <2> QED BY <2>1, <2>2, <2>3
<1>2. TypeInv /\ Places /\ SingleRun /\ WholeInv /\ [Next]_vars
        => TypeInv' /\ Places' /\ SingleRun' /\ WholeInv'
  BY TypeStep, PlacesStep, SingleRunStep, WholeStep
<1>3. WholeInv => SearchIsWhole
  <2> SUFFICES ASSUME WholeInv, Quiet, status = "success", ~deleted, enabled, ~frail,
                      Inline = {}, \A r \in Requests : kind[r] # "on" /\ msg[r] # "dead"
               PROVE  vectors = {chunks}
    BY DEF SearchIsWhole
  <2>1. Clean /\ Cold
    BY DEF Clean, Cold, Quiet, Inline
  <2>2. ~Busy /\ ~Due /\ ~Lost
    BY DEF Busy, Due, Lost, Quiet, Running, Queued
  <2> QED BY <2>1, <2>2 DEF WholeInv
<1> QED BY InitTyped, <1>1, <1>2, <1>3, PTL DEF Spec

------------------------------------------------------------------------------
(* Documents that say "running".                                             *)

\* The message of a start that may still change the status its document has.
Waits(r) == msg[r] \in {"half", "ready"} /\ exec[r] \notin {"wipe", "index", "ack"}
GivenUp(r) == msg[r] \in {"dead", "dropped"}
Attended == \E r \in Queued : Waits(r) \/ GivenUp(r)
TendedInv == Inline = {} /\ status = "running" /\ ~deleted => Attended

\* A message waits or is given up as long as it is not settled by the end of a
\* task, and that task has written the status: whoever claimed the document since
\* has a message of its own.
LEMMA TendedStep ==
    ASSUME TypeInv, Places, TendedInv, [Next]_vars
    PROVE  TendedInv'
<1>w. Queued' = Queued /\ Inline' = Inline /\ Queued \subseteq Requests
  BY WorkloadFixed DEF Queued
<1> SUFFICES ASSUME Inline = {}, status' = "running", ~deleted' PROVE Attended'
  BY <1>w DEF TendedInv
<1> USE DEF TypeInv, TypeOK, row, data, request, queue, world
<1>a. status = "running" /\ ~deleted => Attended
  BY DEF TendedInv
<1>1. ASSUME UNCHANGED <<status, deleted, msg, exec>> PROVE Attended'
  BY <1>1, <1>a, <1>w DEF Attended, Waits, GivenUp
<1>2. ASSUME NEW r \in Requests,
             Lock(r) \/ Load(r) \/ Unlock(r) \/ Look(r)
      PROVE  Attended'
  BY <1>1, <1>2 DEF Lock, Load, Unlock, Look, NoTask
<1>3. ASSUME NEW r \in Requests,
             \/ DeleteChunks(r) \/ SoftDelete(r) \/ Switch(r)
             \/ DeleteVectors(r) \/ LoadChunks(r) \/ IndexChunks(r)
      PROVE  Attended'
  <2>1. CASE SoftDelete(r)
    BY <2>1 DEF SoftDelete
  <2> QED BY <1>1, <1>3, <2>1 DEF DeleteChunks, Switch, DeleteVectors, LoadChunks,
                                  IndexChunks, NoTask
<1>4. ASSUME NEW r \in Requests, Claim(r) PROVE Attended'
  <2>1. r \in Queued /\ msg[r] = "none" /\ exec[r] = "none"
    BY <1>4 DEF Claim, StartsChunk, Step, Undelivered
  <2>c. PICK claims \in {FALSE, status # "running" /\ (r \in Inline \/ ~deleted)} :
            /\ status' = IF claims THEN "running" ELSE status
            /\ exec' = exec
            /\ \E m \in {"half"} \cup
                    (IF claims THEN {"ready", "dropped"} ELSE {"none"}) :
                 msg' = [msg EXCEPT ![r] = m]
    BY <1>4 DEF Claim
  <2>2. exec' = exec /\ deleted' = deleted /\ \A s \in Queued \ {r} : msg'[s] = msg[s]
    BY <1>4, <2>c, <1>w DEF Claim
  <2>3. status = "running" \/ msg'[r] \in {"half", "ready", "dropped"}
    BY <2>c, <2>1, <1>w
  <2>4. CASE status = "running"
    <3>1. PICK s \in Queued : Waits(s) \/ GivenUp(s)
      BY <2>2, <2>4, <1>a DEF Attended
    <3>2. s # r
      BY <2>1, <3>1 DEF Waits, GivenUp
    <3> QED BY <3>1, <3>2, <2>2, <1>w DEF Attended, Waits, GivenUp
  <2>5. CASE msg'[r] \in {"half", "ready", "dropped"}
    BY <2>1, <2>2, <2>5, <1>w DEF Attended, Waits, GivenUp
  <2> QED BY <2>3, <2>4, <2>5
<1>5. ASSUME NEW r \in Requests, UNCHANGED <<status, deleted>>,
             \A s \in Requests \ {r} : msg'[s] = msg[s] /\ exec'[s] = exec[s],
             r \in Queued /\ (Waits(r) \/ GivenUp(r)) => Waits(r)' \/ GivenUp(r)'
      PROVE  Attended'
  <2>1. PICK s \in Queued : Waits(s) \/ GivenUp(s)
    BY <1>5, <1>a DEF Attended
  <2>2. CASE s = r
    BY <1>5, <2>1, <2>2, <1>w DEF Attended
  <2>3. CASE s # r
    BY <1>5, <2>1, <2>3, <1>w DEF Attended, Waits, GivenUp
  <2> QED BY <2>2, <2>3
<1>6. ASSUME NEW r \in Requests, CheckBack(r) \/ Deliver(r) PROVE Attended'
  <2>1. UNCHANGED <<status, deleted>>
        /\ \A s \in Requests \ {r} : msg'[s] = msg[s] /\ exec'[s] = exec[s]
    BY <1>6 DEF CheckBack, Deliver, Go
  <2>2. msg'[r] \in {"ready", "dead", "dropped"}
    BY <1>6, <2>1 DEF CheckBack, Deliver, AfterDelivery
  <2>3. exec'[r] = exec[r] \/ exec'[r] = "find"
    BY <1>6 DEF CheckBack, Deliver, Go
  <2>4. Waits(r) \/ GivenUp(r) => Waits(r)' \/ GivenUp(r)'
    BY <1>6, <2>2, <2>3 DEF Waits, GivenUp, CheckBack, Deliver
  <2> QED BY <1>5, <2>1, <2>4
<1>7. ASSUME NEW r \in Requests, Complete(r) \/ Fail(r) \/ Crash(r) PROVE Attended'
  <2>1. Running(r)
    BY <1>7 DEF Complete, Fail, Crash, Go, Running
  <2>2. r \in Queued /\ msg[r] = "ready"
    BY <2>1 DEF Places, StartsChunk, Running
  <2>3. UNCHANGED <<status, deleted>>
        /\ \A s \in Requests \ {r} : msg'[s] = msg[s] /\ exec'[s] = exec[s]
    BY <1>7, <2>2 DEF Complete, Fail, Crash, Go
  <2>4. CASE Complete(r)
    BY <1>5, <2>2, <2>3, <2>4 DEF Complete, Go, Waits, GivenUp
  <2>5. CASE Fail(r) \/ Crash(r)
    <3>1. msg'[r] \in {"ready", "dead"} /\ exec'[r] = "none"
      BY <2>2, <2>5 DEF Fail, Crash, Go, AfterDelivery
    <3> QED BY <1>5, <2>3, <3>1 DEF Waits, GivenUp
  <2> QED BY <1>7, <2>4, <2>5
<1>8. ASSUME NEW r \in Requests,
             \/ Find(r) \/ Process(r) \/ PersistFails(r) \/ Wipe(r) \/ Index(r)
      PROVE  Attended'
  <2>1. UNCHANGED <<status, deleted, msg>> /\ \A s \in Requests \ {r} : exec'[s] = exec[s]
    BY <1>8 DEF Find, Process, PersistFails, Wipe, Index, Go, Elsewhere
  <2>2. exec[r] \in {"wipe", "index"}
        \/ exec'[r] \in {"process", "persist", "fail", "nack"}
    BY <1>8 DEF Find, Process, PersistFails, Wipe, Index, Go
  <2>3. Waits(r) \/ GivenUp(r) => Waits(r)' \/ GivenUp(r)'
    BY <2>1, <2>2 DEF Waits, GivenUp
  <2> QED BY <1>5, <2>1, <2>3
<1>9. ASSUME NEW r \in Requests, Persist(r) \/ MarkChunkFailed(r) PROVE FALSE
  BY <1>9 DEF Persist, MarkChunkFailed
<1>10. CASE LockExpires \/ GuardExpires \/ UNCHANGED vars
  BY <1>1, <1>10 DEF LockExpires, GuardExpires, vars
<1>11. CASE RecoverStuckRunning
  BY <1>11 DEF RecoverStuckRunning
<1> QED BY <1>2, <1>3, <1>4, <1>6, <1>7, <1>8, <1>9, <1>10, <1>11
        DEF Next, Serve, Broker, Task

\* A document that is chunked through the queue says "running" only while a task
\* runs or will, unless a message was given up or settled without a task
\* (startChunk's transaction, CheckChunkTransaction, the consumer's retries).
THEOREM RunningTended == Spec => []RunningIsTended
<1>1. Init => Places /\ TendedInv
  <2>1. Init => Places
    BY PlacesInit
  <2>2. Init => TendedInv
    BY DEF Init, TendedInv
  <2> QED BY <2>1, <2>2
<1>2. TypeInv /\ Places /\ TendedInv /\ [Next]_vars => TypeInv' /\ Places' /\ TendedInv'
  BY TypeStep, PlacesStep, TendedStep
<1>3. TendedInv => RunningIsTended
  BY DEF TendedInv, RunningIsTended, Attended, Waits, GivenUp
<1> QED BY InitTyped, <1>1, <1>2, <1>3, PTL DEF Spec
=============================================================================
