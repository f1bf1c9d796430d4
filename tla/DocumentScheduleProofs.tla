----------------------- MODULE DocumentScheduleProofs -----------------------
(* Proofs about DocumentSchedule, for any number of processes, users,       *)
(* versions and faults.                                                     *)
EXTENDS DocumentSchedule, TLAPS

USE ScheduleAssumption

\* A row that is not there has no owner, and only a refresh has claimed a row.
RowInv == /\ row.id = 0 => row.owner = Nobody /\ ~row.enabled
          /\ \A n \in Nodes : pc[n] = "idle" <=> job[n].id = 0
          /\ \A n \in Nodes : task[n] # "none" => pc[n] = "chunk"
          /\ \A n \in Nodes : pc[n] = "busy" => fetched[n] # NoVersion
TypeInv == TypeOK /\ RowInv

------------------------------------------------------------------------------
(* Type correctness.                                                        *)

LEMMA RowTyped ==
    ASSUME TypeInv
    PROVE  /\ row \in Rows /\ remote \in Versions
           /\ row = [id |-> row.id, enabled |-> row.enabled, due |-> row.due,
                     owner |-> row.owner, leased |-> row.leased, hash |-> row.hash]
           /\ row.id \in 0 .. MaxRow /\ row.enabled \in BOOLEAN /\ row.due \in BOOLEAN
           /\ row.owner \in Nodes \cup {Nobody} /\ row.leased \in BOOLEAN
           /\ row.hash \in NoVersion .. remote
<1>1. row \in Rows /\ remote \in Versions
  BY DEF TypeInv, TypeOK
<1> QED BY <1>1 DEF Rows

\* The types only depend on the source.
LEMMA SameTypes == remote' = remote => Rows' = Rows /\ Jobs' = Jobs
  BY DEF Rows, Jobs

LEMMA MoreTypes ==
    ASSUME TypeInv, remote' = remote + 1
    PROVE  row \in Rows' /\ job \in [Nodes -> Jobs']
<1>1. remote \in Nat /\ NoVersion .. remote \subseteq NoVersion .. (remote + 1)
  BY RowTyped DEF Versions, NoVersion
<1>2. Jobs \subseteq Jobs' /\ Rows \subseteq Rows'
  BY <1>1 DEF Jobs, Rows
<1> QED BY <1>2 DEF TypeInv, TypeOK

LEMMA InitTyped == Init => TypeInv
<1> SUFFICES ASSUME Init PROVE TypeInv
  OBVIOUS
<1>1. row = [id |-> 1, enabled |-> TRUE, due |-> FALSE, owner |-> Nobody,
             leased |-> FALSE, hash |-> 0]
  BY DEF Init, NewRow, NoRow, NoVersion
<1>2. remote = 1 /\ lastId = 1 /\ 1 \in 0 .. MaxRow /\ 0 \in NoVersion .. remote
  BY DEF Init, NoVersion
<1>7. row \in Rows /\ lastId \in row.id .. MaxRow /\ ~row.leased
  BY <1>1, <1>2 DEF Rows
<1>3. job \in [Nodes -> Jobs]
  BY DEF Init, Jobs, NoJob, NoVersion
<1>4. remote \in Versions /\ 0 \in NoVersion .. remote
  BY DEF Init, Versions, NoVersion
<1>5. TypeOK
  BY <1>7, <1>3, <1>4 DEF Init, TypeOK, NoVersion
<1>6. RowInv
  BY <1>1 DEF Init, RowInv, Tasks, NoJob
<1> QED BY <1>5, <1>6 DEF TypeInv

\* A row whose flags change.
LEMMA RowKept ==
    ASSUME TypeInv
    PROVE  /\ \A l \in BOOLEAN : [row EXCEPT !.leased = l] \in Rows
           /\ \A d \in BOOLEAN : [row EXCEPT !.due = d] \in Rows
           /\ \A e, d \in BOOLEAN : [row EXCEPT !.enabled = e, !.due = d] \in Rows
  BY RowTyped DEF Rows

LEMMA CloseTyped ==
    ASSUME TypeInv, Close
    PROVE  TypeInv'
<1>1. row' = [id |-> 0, enabled |-> FALSE, due |-> FALSE,
              owner |-> Nobody, leased |-> FALSE, hash |-> 0]
  BY DEF Close, NoRow, NoVersion
<1>2. remote' = remote /\ faults' \subseteq Faults /\ unread' = unread
      /\ UNCHANGED <<lastId, document, refresh, tasks>>
  BY DEF Close, Fault, TypeInv, TypeOK
<1>3. row' \in Rows' /\ row'.id = 0 /\ ~row'.leased /\ row'.owner = Nobody
  BY <1>1, <1>2, RowTyped DEF Rows, NoVersion, Versions
<1>4. lastId' \in row'.id .. MaxRow
  BY <1>2, <1>3, RowTyped DEF TypeInv, TypeOK
<1>5. TypeOK'
  BY <1>2, <1>3, <1>4, SameTypes DEF TypeInv, TypeOK, document, refresh, tasks
<1>6. RowInv'
  BY <1>1, <1>2, <1>3 DEF TypeInv, RowInv, refresh, tasks
<1> QED BY <1>5, <1>6 DEF TypeInv

LEMMA OpenTyped ==
    ASSUME TypeInv, Open
    PROVE  TypeInv'
<1>1. row' = [id |-> lastId + 1, enabled |-> TRUE, due |-> FALSE,
              owner |-> Nobody, leased |-> FALSE, hash |-> 0]
  BY DEF Open, NewRow, NoRow, NoVersion
<1>2. lastId' = lastId + 1 /\ lastId + 1 \in 1 .. MaxRow /\ remote' = remote
  BY RowTyped DEF Open, TypeInv, TypeOK, page, Rows
<1>3. row' \in Rows' /\ lastId' \in row'.id .. MaxRow
  BY <1>1, <1>2 DEF Rows, TypeInv, TypeOK, NoVersion, Versions
<1>4. TypeOK'
  BY <1>1, <1>2, <1>3, SameTypes
     DEF Open, TypeInv, TypeOK, page, document, refresh, tasks
<1>5. RowInv'
  BY <1>1, <1>2 DEF Open, TypeInv, RowInv, refresh, tasks
<1> QED BY <1>4, <1>5 DEF TypeInv

LEMMA WorldTyped ==
    ASSUME TypeInv, \/ Publish \/ FallDue \/ Lapse \/ RecoverStuckRunning
                    \/ Close \/ Open \/ Pause \/ Resume
    PROVE  TypeInv'
<1> USE DEF TypeInv, TypeOK, RowInv, page, schedule, document, refresh, tasks, Versions,
            NoVersion, NoRow, NewRow, Fault
<1>1. CASE Publish
  BY <1>1, MoreTypes DEF Publish
<1>2. CASE FallDue
  BY <1>2, SameTypes, RowTyped, RowKept DEF FallDue
<1>3. CASE Lapse
  BY <1>3, SameTypes, RowTyped, RowKept DEF Lapse
<1>4. CASE RecoverStuckRunning
  BY <1>4, SameTypes DEF RecoverStuckRunning
<1>5. CASE Close
  BY <1>5, CloseTyped
<1>6. CASE Open
  BY <1>6, OpenTyped
<1>7. CASE Pause
  BY <1>7, SameTypes, RowTyped, RowKept DEF Pause
<1>8. CASE Resume
  BY <1>8, SameTypes, RowTyped, RowKept DEF Resume
<1> QED BY <1>1, <1>2, <1>3, <1>4, <1>5, <1>6, <1>7, <1>8

LEMMA ClaimTyped ==
    ASSUME TypeInv, NEW n \in Nodes, ClaimDue(n)
    PROVE  TypeInv'
<1>1. row' = [id |-> row.id, enabled |-> row.enabled, due |-> row.due,
              owner |-> n, leased |-> TRUE, hash |-> row.hash]
  BY RowTyped DEF ClaimDue
<1>2. row.id # 0 /\ remote' = remote /\ lastId' = lastId
  BY RowTyped DEF ClaimDue, TypeInv, RowInv, page
<1>3. row' \in Rows' /\ row'.id = row.id
  BY <1>1, <1>2, RowTyped DEF Rows
<1>4. job' \in [Nodes -> Jobs']
      /\ job'[n].id = row.id /\ \A m \in Nodes \ {n} : job'[m] = job[m]
  <2>1. [id |-> row.id, hash |-> row.hash] \in Jobs'
    BY <1>2, RowTyped DEF Jobs
  <2> QED BY <1>2, <2>1, SameTypes DEF ClaimDue, TypeInv, TypeOK
<1>5. TypeOK'
  BY <1>1, <1>2, <1>3, <1>4, SameTypes
     DEF ClaimDue, TypeInv, TypeOK, page, document, tasks
<1>6. RowInv'
  BY <1>1, <1>2, <1>3, <1>4 DEF ClaimDue, TypeInv, TypeOK, RowInv, tasks
<1> QED BY <1>5, <1>6 DEF TypeInv

\* What a refresh writes at its end.
FreeOf(r) == /\ r \in Rows /\ r.id = row.id /\ r.enabled = row.enabled
             /\ r.owner = Nobody /\ ~r.leased

LEMMA ReleasedRow ==
    ASSUME TypeInv, NEW h \in NoVersion .. remote
    PROVE  /\ FreeOf([[Released EXCEPT !.hash = h] EXCEPT !.due = FALSE])
           /\ FreeOf([Released EXCEPT !.due = FALSE])
           /\ FreeOf(Released)
<1>1. FreeOf(Released)
  BY RowTyped DEF Rows, Released, FreeOf
<1>2. \A r : FreeOf(r) => FreeOf([r EXCEPT !.hash = h])
  BY DEF Rows, FreeOf
<1>3. \A r : FreeOf(r) => FreeOf([r EXCEPT !.due = FALSE])
  BY DEF Rows, FreeOf
<1> QED BY <1>1, <1>2, <1>3

LEMMA EndTyped ==
    ASSUME TypeInv, NEW n \in Nodes, pc[n] # "chunk", Over(n),
           row' = row \/ (\E r : FreeOf(r) /\ row' = r),
           remote' = remote, faults' \subseteq Faults, unread' \subseteq Versions,
           UNCHANGED <<lastId, document, tasks>>
    PROVE  TypeInv'
<1>1. row' \in Rows' /\ row'.id = row.id
      /\ (row'.leased => row'.owner \in Nodes)
      /\ (row'.owner = row.owner \/ row'.owner = Nobody)
      /\ row'.enabled = row.enabled
  <2>1. CASE row' = row
    BY <2>1, RowTyped, SameTypes DEF TypeInv, TypeOK
  <2>2. CASE row' # row
    BY <2>2, SameTypes DEF FreeOf
  <2> QED BY <2>1, <2>2
<1>2. /\ pc' \in [Nodes -> {"idle", "queued", "fetch", "unchanged", "busy", "save",
                          "chunk", "settle", "fail"}]
      /\ job' \in [Nodes -> Jobs']
      /\ busy' \in [Nodes -> BOOLEAN] /\ fresh' \in [Nodes -> BOOLEAN]
      /\ fetched' \in [Nodes -> NoVersion .. remote]
      /\ pc'[n] = "idle" /\ job'[n].id = 0 /\ ~fresh'[n]
      /\ \A m \in Nodes \ {n} : /\ pc'[m] = pc[m] /\ job'[m] = job[m]
                                /\ fresh'[m] = fresh[m] /\ fetched'[m] = fetched[m]
    <2>1. NoJob \in Jobs' /\ NoJob.id = 0 /\ NoVersion \in NoVersion .. remote
      BY RowTyped DEF NoJob, Jobs, NoVersion, Versions
    <2> QED BY <2>1, SameTypes DEF TypeInv, TypeOK, Over
<1>3. TypeOK'
  BY <1>1, <1>2 DEF TypeInv, TypeOK, document, tasks
<1>4. RowInv'
  BY <1>1, <1>2 DEF TypeInv, RowInv, tasks
<1> QED BY <1>3, <1>4 DEF TypeInv

LEMMA QueueTyped ==
    ASSUME TypeInv, NEW n \in Nodes, QueueFull(n)
    PROVE  TypeInv'
<1>1. pc[n] # "chunk" /\ Over(n) /\ remote' = remote /\ faults' \subseteq Faults
      /\ unread' \subseteq Versions /\ UNCHANGED <<lastId, document, tasks>>
      /\ WriteIfOwned(n, Released)
  BY DEF QueueFull, Fault, TypeInv, TypeOK
<1>2. row' = row \/ row' = Released
  BY <1>1 DEF WriteIfOwned
<1> QED BY <1>1, <1>2, ReleasedRow, RowTyped, EndTyped

LEMMA OutcomeTyped ==
    ASSUME TypeInv, NEW n \in Nodes,
           Settle(n) \/ MarkFailed(n) \/ SkipUnchanged(n) \/ SkipBusy(n)
    PROVE  TypeInv'
<1>1. fetched[n] \in NoVersion .. remote /\ job[n].hash \in NoVersion .. remote
      /\ row.hash \in NoVersion .. remote
  BY RowTyped DEF TypeInv, TypeOK, Jobs
<1>2. pc[n] # "chunk" /\ Over(n) /\ remote' = remote /\ faults' \subseteq Faults
      /\ UNCHANGED <<lastId, document, tasks>>
  BY DEF Settle, MarkFailed, SkipUnchanged, SkipBusy, End, TypeInv, TypeOK
<1>3. unread' \subseteq Versions
  BY DEF Settle, MarkFailed, SkipUnchanged, SkipBusy, End, TypeInv, TypeOK, RowInv,
         Versions, NoVersion
<1>4. CASE Settle(n)
  BY <1>1, <1>2, <1>3, <1>4, ReleasedRow, EndTyped DEF Settle, End, WriteIfOwned
<1>5. CASE MarkFailed(n)
  BY <1>1, <1>2, <1>3, <1>5, ReleasedRow, EndTyped DEF MarkFailed, End, WriteIfOwned
<1>6. CASE SkipUnchanged(n)
  BY <1>1, <1>2, <1>3, <1>6, ReleasedRow, EndTyped DEF SkipUnchanged, End, WriteIfOwned
<1>7. CASE SkipBusy(n)
  BY <1>1, <1>2, <1>3, <1>7, ReleasedRow, EndTyped DEF SkipBusy, End, WriteIfOwned
<1> QED BY <1>4, <1>5, <1>6, <1>7

LEMMA CrashTyped ==
    ASSUME TypeInv, NEW n \in Nodes, Crash(n)
    PROVE  TypeInv'
<1>1. NoJob \in Jobs /\ NoJob.id = 0 /\ NoVersion \in NoVersion .. remote
  BY RowTyped DEF NoJob, Jobs, NoVersion, Versions
<1>2. remote' = remote /\ Jobs' = Jobs /\ Rows' = Rows /\ row' = row /\ lastId' = lastId
  BY SameTypes DEF Crash, Fault, schedule
<1>3. TypeOK'
  BY <1>1, <1>2 DEF Crash, Fault, Over, TypeInv, TypeOK, document, Tasks
<1>4. RowInv'
  BY <1>1, <1>2 DEF Crash, Over, TypeInv, TypeOK, RowInv, Tasks
<1> QED BY <1>3, <1>4 DEF TypeInv

LEMMA LeaseTyped ==
    ASSUME TypeInv, NEW n \in Nodes,
           ClaimDue(n) \/ QueueFull(n) \/ Renew(n) \/ Stall(n) \/ Crash(n)
    PROVE  TypeInv'
<1> USE DEF TypeInv, TypeOK, RowInv, page, schedule, document, refresh, tasks, Versions,
            NoVersion, NoJob, Fault, Over, WriteIfOwned, Released, Owns, Tasks
<1>1. CASE ClaimDue(n)
  BY <1>1, ClaimTyped
<1>2. CASE QueueFull(n)
  BY <1>2, QueueTyped
<1>3. CASE Renew(n)
  BY <1>3, SameTypes, RowTyped, RowKept DEF Renew
<1>4. CASE Stall(n)
  BY <1>4, SameTypes DEF Stall
<1>5. CASE Crash(n)
  BY <1>5, CrashTyped
<1> QED BY <1>1, <1>2, <1>3, <1>4, <1>5

LEMMA RefreshTyped ==
    ASSUME TypeInv, NEW n \in Nodes, Refresh(n)
    PROVE  TypeInv'
<1> USE DEF TypeInv, TypeOK, RowInv, page, schedule, document, refresh, tasks, Versions,
            NoVersion, NoJob, Step, Over, WriteIfOwned, Released, Owns, End, Tasks
<1>1. CASE Find(n)
  BY <1>1, SameTypes DEF Find
<1>2. CASE Fetch(n)
  BY <1>2, SameTypes DEF Fetch
<1>3. CASE Save(n)
  BY <1>3, SameTypes DEF Save
<1>4. CASE Chunked(n)
  BY <1>4, SameTypes DEF Chunked
<1>5. CASE Settle(n) \/ MarkFailed(n) \/ SkipUnchanged(n) \/ SkipBusy(n)
  BY <1>5, OutcomeTyped
<1> QED BY <1>1, <1>2, <1>3, <1>4, <1>5 DEF Refresh

\* A step of a task, or of the queue that carries a user's.
TaskStep(a) == \/ StartChunk(a) \/ Work(a)
               \/ a \in Users /\ (Drop(a) \/ Redeliver(a) \/ Die(a))

\* What such a step does to the schedule: a start may put it off.
LEMMA TaskFacts ==
    ASSUME TypeInv, NEW a \in Tasks, TaskStep(a)
    PROVE  /\ UNCHANGED <<remote, unread, lastId, file, refresh>>
           /\ faults \subseteq faults' /\ faults' \subseteq Faults
           /\ row' \in Rows /\ row'.id = row.id /\ row'.enabled = row.enabled
           /\ row'.owner = row.owner /\ row'.leased = row.leased
           /\ row'.hash = row.hash
<1> USE DEF Unscheduled, page, schedule, document
<1>1. CASE StartChunk(a)
  <2>1. row' = row \/ row' = [row EXCEPT !.due = FALSE]
    BY <1>1 DEF StartChunk
  <2>2. row' \in Rows /\ row'.id = row.id /\ row'.enabled = row.enabled
        /\ row'.owner = row.owner /\ row'.leased = row.leased /\ row'.hash = row.hash
    BY <2>1, RowTyped, RowKept DEF Rows
  <2> QED BY <1>1, <2>2 DEF StartChunk, TypeInv, TypeOK
<1>2. CASE Work(a)
  BY <1>2, RowTyped DEF Work, ReadFile, Persist, Index, Fault, TypeInv, TypeOK
<1>3. CASE a \in Users /\ (Drop(a) \/ Redeliver(a) \/ Die(a))
  BY <1>3, RowTyped DEF Drop, Redeliver, Die, Fault, TypeInv, TypeOK
<1> QED BY <1>1, <1>2, <1>3 DEF TaskStep

LEMMA TaskTyped ==
    ASSUME TypeInv, NEW a \in Tasks, TaskStep(a)
    PROVE  TypeInv'
<1> USE DEF TypeInv, TypeOK, RowInv, document, tasks, NoVersion, Go
<1>1. status' \in {"pending", "running", "success", "failed"}
      /\ task' \in [Tasks -> {"none", "read", "persist", "index", "done", "failed"}]
      /\ chunks' \in NoVersion .. remote /\ text' \in [Tasks -> NoVersion .. remote]
  <2>1. CASE StartChunk(a)
    BY <2>1 DEF StartChunk
  <2>2. CASE ReadFile(a)
    BY <2>2 DEF ReadFile
  <2>3. CASE Persist(a)
    BY <2>3 DEF Persist, Versions
  <2>4. CASE Index(a)
    BY <2>4 DEF Index
  <2>5. CASE Drop(a) \/ Redeliver(a) \/ Die(a)
    BY <2>5 DEF Drop, Redeliver, Die, Versions
  <2> QED BY <2>1, <2>2, <2>3, <2>4, <2>5 DEF TaskStep, Work
<1>2. \A n \in Nodes : task'[n] # "none" => pc[n] = "chunk"
  BY DEF TaskStep, StartChunk, Work, ReadFile, Persist, Index, Drop, Redeliver, Die, Tasks
<1>3. Rows' = Rows /\ Jobs' = Jobs
  BY TaskFacts, SameTypes
<1>4. TypeOK'
  BY <1>1, <1>3, TaskFacts DEF refresh
<1>5. RowInv'
  BY <1>2, TaskFacts DEF refresh
<1> QED BY <1>4, <1>5

LEMMA TypeStep == TypeInv /\ [Next]_vars => TypeInv'
<1> SUFFICES ASSUME TypeInv, [Next]_vars PROVE TypeInv'
  OBVIOUS
<1>1. CASE UNCHANGED vars
  BY <1>1, SameTypes
     DEF vars, page, schedule, document, refresh, tasks, TypeInv, TypeOK, RowInv
<1> QED BY <1>1, WorldTyped, LeaseTyped, RefreshTyped, TaskTyped
       DEF Next, TaskStep, Tasks

\* Every variable keeps its type: in particular nothing is recorded or chunked
\* that was never at the source, and no lease is kept without a refresh.
THEOREM TypeCorrect == Spec => []TypeOK
<1>1. TypeInv => TypeOK
  BY DEF TypeInv
<1> QED BY InitTyped, TypeStep, <1>1, PTL DEF Spec

------------------------------------------------------------------------------
(* One refresh at a time.                                                   *)

\* Without stalls and with the same row, whoever refreshes holds the live lease.
Overlap == {"stall", "close"}
Led(n) == pc[n] # "idle" => /\ row.owner = n /\ row.id = job[n].id
                            /\ row.leased /\ fresh[n]
LeadInv == faults \cap Overlap = {} => \A n \in Nodes : Led(n)

\* What the end of a refresh does: the row is released if it is still owned.
LEMMA EndFacts ==
    ASSUME TypeInv, NEW n \in Nodes,
           QueueFull(n) \/ Settle(n) \/ MarkFailed(n) \/ SkipUnchanged(n) \/ SkipBusy(n)
    PROVE  /\ pc' = [pc EXCEPT ![n] = "idle"] /\ job' = [job EXCEPT ![n] = NoJob]
           /\ fresh' = [fresh EXCEPT ![n] = FALSE] /\ faults \subseteq faults'
           /\ fetched' = [fetched EXCEPT ![n] = NoVersion]
           /\ pc[n] # "idle" /\ UNCHANGED <<lastId, document, tasks>>
           /\ ~Owns(n) => row' = row
           /\ Owns(n) => row'.id = row.id /\ row'.owner = Nobody
  BY RowTyped
     DEF QueueFull, Settle, MarkFailed, SkipUnchanged, SkipBusy, End, Over, Fault,
         WriteIfOwned, Released, Rows

LEMMA LeadEnd ==
    ASSUME TypeInv, LeadInv, NEW n \in Nodes,
           QueueFull(n) \/ Settle(n) \/ MarkFailed(n) \/ SkipUnchanged(n) \/ SkipBusy(n)
    PROVE  LeadInv'
<1> SUFFICES ASSUME faults' \cap Overlap = {}, NEW m \in Nodes, pc'[m] # "idle"
             PROVE  Led(m)'
  BY DEF LeadInv, Led
<1>1. m # n /\ pc[m] # "idle" /\ pc[n] # "idle"
  BY EndFacts DEF TypeInv, TypeOK
<1>2. Led(m) /\ Led(n)
  BY EndFacts DEF LeadInv
<1> QED BY <1>1, <1>2 DEF Led

LEMMA LeadLease ==
    ASSUME TypeInv, LeadInv, NEW n \in Nodes,
           ClaimDue(n) \/ Renew(n) \/ Stall(n) \/ Crash(n)
    PROVE  LeadInv'
<1> SUFFICES ASSUME faults' \cap Overlap = {}, NEW m \in Nodes, pc'[m] # "idle"
             PROVE  Led(m)'
  BY DEF LeadInv, Led
<1>1. faults \subseteq faults' /\ \A k \in Nodes : Led(k)
  BY DEF LeadInv, ClaimDue, Renew, Stall, Crash, Fault, page
<1>2. CASE ClaimDue(n)
  <2>1. \A k \in Nodes : pc[k] = "idle"
    BY <1>1, <1>2 DEF ClaimDue, Led
  <2>2. m = n
    BY <1>2, <2>1 DEF ClaimDue, TypeInv, TypeOK
  <2> QED BY <1>2, <2>2, RowTyped DEF ClaimDue, Led, TypeInv, TypeOK
<1>3. CASE Renew(n)
  BY <1>1, <1>3, RowTyped DEF Renew, Led, TypeInv, TypeOK
<1>4. CASE Stall(n)
  BY <1>4 DEF Stall, Fault, Overlap
<1>5. CASE Crash(n)
  BY <1>1, <1>5 DEF Crash, Over, Led, schedule, TypeInv, TypeOK
<1> QED BY <1>2, <1>3, <1>4, <1>5

LEMMA LeadWorld ==
    ASSUME TypeInv, LeadInv,
           \/ Publish \/ FallDue \/ Lapse \/ RecoverStuckRunning
           \/ Close \/ Open \/ Pause \/ Resume
    PROVE  LeadInv'
<1> SUFFICES ASSUME faults' \cap Overlap = {}, NEW m \in Nodes, pc'[m] # "idle"
             PROVE  Led(m)'
  BY DEF LeadInv, Led
<1>1. faults \subseteq faults' /\ UNCHANGED refresh
  BY DEF Publish, FallDue, Lapse, RecoverStuckRunning, Close, Open, Pause, Resume,
         Fault, page
<1>2. Led(m) /\ pc[m] # "idle"
  BY <1>1 DEF LeadInv, refresh
<1>3. CASE Publish \/ RecoverStuckRunning
  BY <1>1, <1>2, <1>3 DEF Publish, RecoverStuckRunning, Led, schedule, refresh
<1>4. CASE FallDue \/ Pause \/ Resume
  BY <1>1, <1>2, <1>4, RowTyped DEF FallDue, Pause, Resume, Led, refresh
<1>5. CASE Lapse
  BY <1>2, <1>5 DEF Lapse, Led
<1>6. CASE Close
  BY <1>6 DEF Close, Fault, Overlap
<1>7. CASE Open
  BY <1>2, <1>7 DEF Open, Led, TypeInv, RowInv
<1> QED BY <1>3, <1>4, <1>5, <1>6, <1>7

LEMMA LeadWork ==
    ASSUME TypeInv, LeadInv,
           \/ \E n \in Nodes : Find(n) \/ Fetch(n) \/ Save(n) \/ Chunked(n)
           \/ \E a \in Tasks : TaskStep(a)
    PROVE  LeadInv'
<1>1. UNCHANGED <<job, fresh>> /\ faults \subseteq faults'
      /\ row'.id = row.id /\ row'.owner = row.owner /\ row'.leased = row.leased
      /\ \A m \in Nodes : pc'[m] # "idle" => pc[m] # "idle"
  BY TaskFacts
     DEF Find, Fetch, Save, Chunked, Step, page, schedule, refresh, TypeInv, TypeOK
<1> QED BY <1>1 DEF LeadInv, Led

LEMMA LeadStep == TypeInv /\ LeadInv /\ [Next]_vars => LeadInv'
<1> SUFFICES ASSUME TypeInv, LeadInv, [Next]_vars PROVE LeadInv'
  OBVIOUS
<1>1. CASE UNCHANGED vars
  BY <1>1 DEF vars, page, schedule, refresh, LeadInv, Led
<1> QED BY <1>1, LeadEnd, LeadLease, LeadWorld, LeadWork
       DEF Next, Refresh, TaskStep, Tasks

LEMMA LeadOne == TypeInv /\ LeadInv => OneRefresh
  BY DEF TypeInv, LeadInv, Led, OneRefresh, Overlap

\* As long as leases are renewed in time and the row is not replaced, one
\* process at a time refreshes the document.
THEOREM RefreshIsExclusive == Spec => []OneRefresh
<1>1. Init => LeadInv
  BY DEF Init, LeadInv, Led
<1> QED BY <1>1, InitTyped, TypeStep, LeadStep, LeadOne, PTL DEF Spec

------------------------------------------------------------------------------
(* The record.                                                              *)

\* The row of its owner still holds what the owner has read; what it has fetched
\* is no older.
Kept(n) == Owns(n) => /\ row.hash = job[n].hash
                      /\ pc[n] \in {"busy", "save", "chunk", "settle"}
                            => fetched[n] >= row.hash
KeptInv == \A n \in Nodes : Kept(n)

LEMMA OwnerWorks == TypeInv => \A n \in Nodes : Owns(n) => pc[n] # "idle" /\ row.id # 0
  BY DEF TypeInv, RowInv, Owns

\* The record only changes when its owner ends, to something no older.
LEMMA EndRecord ==
    ASSUME TypeInv, KeptInv, NEW n \in Nodes, Owns(n),
           QueueFull(n) \/ Settle(n) \/ MarkFailed(n) \/ SkipUnchanged(n) \/ SkipBusy(n)
    PROVE  /\ row'.hash \in Nat /\ row.hash \in Nat /\ row'.hash >= row.hash
           /\ pc[n] \in {"settle", "busy"} => row'.hash = fetched[n]
           /\ pc[n] \notin {"settle", "busy"} => row'.hash = row.hash
           /\ SkipBusy(n) => row'.hash \in unread'
<1> DEFINE ended(r) == [r EXCEPT !.due = FALSE]
<1>1. Released \in Rows /\ Released.hash = row.hash
  BY RowTyped DEF Released, Rows
<1>2. \A h \in NoVersion .. remote : ended([Released EXCEPT !.hash = h]).hash = h
  BY <1>1 DEF Rows
<1>3. ended(Released).hash = row.hash
  BY <1>1 DEF Rows
<1>4. /\ fetched[n] \in NoVersion .. remote /\ job[n].hash \in NoVersion .. remote
      /\ row.hash \in Nat /\ NoVersion .. remote \subseteq Nat
  BY RowTyped DEF TypeInv, TypeOK, Jobs, NoVersion, Versions
<1>5. row.hash = job[n].hash
      /\ (pc[n] \in {"settle", "busy"} => fetched[n] >= row.hash)
  BY DEF KeptInv, Kept
<1>6. CASE QueueFull(n)
  BY <1>1, <1>4, <1>6 DEF QueueFull, WriteIfOwned, SkipBusy, End
<1>7. CASE Settle(n)
  BY <1>2, <1>4, <1>5, <1>7 DEF Settle, End, WriteIfOwned, SkipBusy
<1>8. CASE MarkFailed(n)
  BY <1>3, <1>4, <1>8 DEF MarkFailed, End, WriteIfOwned, SkipBusy
<1>9. CASE SkipUnchanged(n)
  BY <1>2, <1>4, <1>5, <1>9 DEF SkipUnchanged, End, WriteIfOwned, SkipBusy
<1>10. CASE SkipBusy(n)
  BY <1>2, <1>4, <1>5, <1>10 DEF SkipBusy, End, WriteIfOwned
<1> QED BY <1>6, <1>7, <1>8, <1>9, <1>10

LEMMA KeptEnd ==
    ASSUME TypeInv, KeptInv, NEW n \in Nodes,
           QueueFull(n) \/ Settle(n) \/ MarkFailed(n) \/ SkipUnchanged(n) \/ SkipBusy(n)
    PROVE  KeptInv' /\ (row'.id = row.id => row'.hash >= row.hash)
<1>1. CASE Owns(n)
  BY <1>1, EndFacts, EndRecord DEF KeptInv, Kept, Owns
<1>2. CASE ~Owns(n)
  <2>1. row' = row /\ row.hash \in Nat
    BY <1>2, EndFacts, RowTyped DEF NoVersion
  <2>2. ASSUME NEW m \in Nodes, Owns(m)' PROVE Kept(m)'
    <3>1. CASE m = n
      BY <2>1, <2>2, <3>1, EndFacts DEF Owns, NoJob, TypeInv, TypeOK, RowInv
    <3>2. CASE m # n
      BY <2>1, <2>2, <3>2, EndFacts DEF Owns, KeptInv, Kept, TypeInv, TypeOK
    <3> QED BY <3>1, <3>2
  <2> QED BY <2>1, <2>2 DEF KeptInv, Kept
<1> QED BY <1>1, <1>2

LEMMA KeptLease ==
    ASSUME TypeInv, KeptInv, NEW n \in Nodes,
           ClaimDue(n) \/ Renew(n) \/ Stall(n) \/ Crash(n)
    PROVE  KeptInv' /\ row'.hash = row.hash
<1>1. CASE ClaimDue(n)
  BY <1>1, RowTyped DEF ClaimDue, KeptInv, Kept, Owns, TypeInv, TypeOK
<1>2. CASE Renew(n)
  BY <1>2, RowTyped DEF Renew, KeptInv, Kept, Owns
<1>3. CASE Stall(n)
  BY <1>3 DEF Stall, KeptInv, Kept, Owns, schedule
<1>4. CASE Crash(n)
  <2>1. row' = row /\ NoJob.id = 0 /\ pc[n] # "idle"
    BY <1>4 DEF Crash, schedule, NoJob
  <2>2. ASSUME NEW m \in Nodes, Owns(m)' PROVE Kept(m)'
    <3>1. CASE m = n
      BY <1>4, <2>1, <2>2, <3>1 DEF Crash, Over, Owns, TypeInv, TypeOK, RowInv
    <3>2. CASE m # n
      BY <1>4, <2>1, <2>2, <3>2 DEF Crash, Over, Owns, KeptInv, Kept, TypeInv, TypeOK
    <3> QED BY <3>1, <3>2
  <2> QED BY <2>1, <2>2 DEF KeptInv, Kept
<1> QED BY <1>1, <1>2, <1>3, <1>4

LEMMA KeptWorld ==
    ASSUME TypeInv, KeptInv,
           \/ Publish \/ FallDue \/ Lapse \/ RecoverStuckRunning
           \/ Close \/ Open \/ Pause \/ Resume
    PROVE  KeptInv' /\ (row'.id = row.id => row'.hash >= row.hash)
<1>1. UNCHANGED refresh /\ row.hash \in Nat /\ row.id \in Nat
  BY RowTyped
     DEF Publish, FallDue, Lapse, RecoverStuckRunning, Close, Open, Pause, Resume, NoVersion
<1>2. CASE Publish \/ RecoverStuckRunning
  BY <1>1, <1>2 DEF Publish, RecoverStuckRunning, schedule, refresh, KeptInv, Kept, Owns
<1>3. CASE FallDue \/ Lapse \/ Pause \/ Resume
  <2>1. row'.id = row.id /\ row'.owner = row.owner /\ row'.hash = row.hash
    BY <1>3, RowTyped DEF FallDue, Lapse, Pause, Resume, Rows
  <2> QED BY <1>1, <2>1 DEF refresh, KeptInv, Kept, Owns
<1>4. CASE Close \/ Open
  <2>1. ASSUME Close PROVE row'.owner = Nobody /\ row'.id # row.id
    <3>1. row' = [id |-> 0, enabled |-> FALSE, due |-> FALSE,
                  owner |-> Nobody, leased |-> FALSE, hash |-> 0] /\ row.id # 0
      BY <2>1 DEF Close, NoRow, NoVersion
    <3> QED BY <3>1
  <2>2. ASSUME Open PROVE row'.owner = Nobody /\ row'.id # row.id
    <3>1. row' = [id |-> lastId + 1, enabled |-> TRUE, due |-> FALSE,
                  owner |-> Nobody, leased |-> FALSE, hash |-> 0] /\ row.id = 0
      BY <2>2 DEF Open, NewRow, NoRow, NoVersion
    <3>2. lastId \in Nat
      BY RowTyped DEF TypeInv, TypeOK
    <3> QED BY <3>1, <3>2
  <2>3. row'.owner = Nobody /\ row'.id # row.id
    BY <1>4, <2>1, <2>2
  <2>4. \A n \in Nodes : ~Owns(n)'
    BY <2>3 DEF Owns
  <2> QED BY <2>3, <2>4 DEF KeptInv, Kept
<1> QED BY <1>2, <1>3, <1>4

LEMMA KeptWork ==
    ASSUME TypeInv, KeptInv,
           \/ \E n \in Nodes : Find(n) \/ Fetch(n) \/ Save(n) \/ Chunked(n)
           \/ \E a \in Tasks : TaskStep(a)
    PROVE  KeptInv' /\ row'.id = row.id /\ row'.hash = row.hash
<1>1. /\ row'.id = row.id /\ row'.hash = row.hash /\ row'.owner = row.owner
      /\ job' = job
  BY TaskFacts DEF Find, Fetch, Save, Chunked, schedule, refresh
<1>2. CASE \E a \in Tasks : TaskStep(a)
  BY <1>1, <1>2, TaskFacts DEF refresh, KeptInv, Kept, Owns
<1>3. ASSUME NEW n \in Nodes, Find(n) \/ Save(n) \/ Chunked(n), NEW m \in Nodes
      PROVE  Kept(m)'
  <2>1. /\ fetched' = fetched
        /\ pc'[m] \in {"busy", "save", "chunk", "settle"}
               => pc[m] \in {"busy", "save", "chunk", "settle"}
    BY <1>3 DEF Find, Save, Chunked, Step, refresh, TypeInv, TypeOK
  <2>2. Owns(m)' => Owns(m)
    BY <1>1 DEF Owns
  <2> QED BY <1>1, <2>1, <2>2 DEF KeptInv, Kept
<1>4. ASSUME NEW n \in Nodes, Fetch(n), NEW m \in Nodes PROVE Kept(m)'
  <2>1. remote \in Nat /\ row.hash \in Nat /\ remote >= row.hash
    BY RowTyped DEF NoVersion, Versions
  <2>2. \/ pc'[m] = pc[m] /\ fetched'[m] = fetched[m]
        \/ pc'[m] \in {"fail", "unchanged"}
        \/ fetched'[m] = remote
    BY <1>4 DEF Fetch, Step, TypeInv, TypeOK
  <2>3. Owns(m)' => Owns(m)
    BY <1>1 DEF Owns
  <2> QED BY <1>1, <2>1, <2>2, <2>3 DEF KeptInv, Kept
<1> QED BY <1>1, <1>2, <1>3, <1>4 DEF KeptInv

LEMMA KeptStep ==
    TypeInv /\ KeptInv /\ [Next]_vars
        => KeptInv' /\ (row'.id = row.id => row'.hash >= row.hash)
<1> SUFFICES ASSUME TypeInv, KeptInv, [Next]_vars
             PROVE  KeptInv' /\ (row'.id = row.id => row'.hash >= row.hash)
  OBVIOUS
<1>1. row.hash >= row.hash
  BY RowTyped DEF NoVersion
<1>2. CASE UNCHANGED vars
  BY <1>1, <1>2 DEF vars, page, schedule, refresh, KeptInv, Kept, Owns
<1> QED BY <1>1, <1>2, KeptEnd, KeptLease, KeptWorld, KeptWork
       DEF Next, Refresh, TaskStep, Tasks

\* Whatever fails, a refresh that lost its lease does not write its older
\* content over what its successor recorded.
THEOREM RecordIsMonotone == Spec => RecordNeverGoesBack
<1>1. Init => KeptInv
  BY InitTyped, OwnerWorks DEF Init, KeptInv, Kept, Owns
<1>2. TypeInv /\ KeptInv /\ [Next]_vars
        => [row'.id = row.id => row'.hash >= row.hash]_vars
  BY KeptStep
<1> QED BY <1>1, <1>2, InitTyped, TypeStep, KeptStep, PTL DEF Spec, RecordNeverGoesBack

------------------------------------------------------------------------------
(* What is recorded is chunked.                                             *)

\* As long as no live task is taken for dead and none is delivered again or
\* fails after its chunks are saved, one task at a time reads and saves, while
\* the status says so.
Working(a) == task[a] \in {"read", "persist"}
OneTask ==
    faults \cap {"slow", "again", "index"} = {}
        => \A a, b \in Tasks : Working(a) /\ Working(b) => a = b /\ status = "running"

LEMMA OneTaskStep == TypeInv /\ OneTask /\ [Next]_vars => OneTask'
<1> SUFFICES ASSUME TypeInv, OneTask, [Next]_vars,
                    faults' \cap {"slow", "again", "index"} = {}
             PROVE  \A a, b \in Tasks : Working(a)' /\ Working(b)'
                                             => a = b /\ status' = "running"
  BY DEF OneTask
<1> USE DEF Working
<1>1. CASE UNCHANGED vars
  BY <1>1 DEF vars, page, document, tasks, OneTask
<1>2. CASE Publish \/ FallDue \/ Lapse \/ Close \/ Open \/ Pause \/ Resume
  BY <1>2 DEF Publish, FallDue, Lapse, Close, Open, Pause, Resume, Fault, page, document,
              tasks, OneTask
<1>3. CASE RecoverStuckRunning
  BY <1>3 DEF RecoverStuckRunning, Fault, page, tasks
<1>4. ASSUME NEW n \in Nodes, \/ ClaimDue(n) \/ QueueFull(n) \/ Renew(n) \/ Stall(n)
                              \/ Refresh(n) /\ ~Chunked(n)
      PROVE  /\ UNCHANGED <<status, tasks>> /\ faults \subseteq faults'
  BY <1>4 DEF ClaimDue, QueueFull, Renew, Stall, Refresh, Find, Fetch, Save, Settle,
              MarkFailed, SkipUnchanged, SkipBusy, End, Fault, page, document
<1>5. ASSUME NEW n \in Nodes, Chunked(n) \/ Crash(n)
      PROVE  /\ status' = status /\ faults \subseteq faults'
             /\ \A a \in Tasks : task'[a] \in {"none", task[a]}
  BY <1>5 DEF Chunked, Crash, Fault, page, document, Tasks, TypeInv, TypeOK
<1>6. ASSUME NEW a \in Tasks, TaskStep(a)
      PROVE  \A b, c \in Tasks : Working(b)' /\ Working(c)'
                                      => b = c /\ status' = "running"
  <2>1. \A b, c \in Tasks : Working(b) /\ Working(c) => b = c /\ status = "running"
    BY <1>6, TaskFacts DEF OneTask
  <2>2. CASE StartChunk(a)
    BY <2>1, <2>2 DEF StartChunk, Go, TypeInv, TypeOK
  <2>3. CASE ReadFile(a) \/ Persist(a)
    BY <2>1, <2>3 DEF ReadFile, Persist, Go, TypeInv, TypeOK
  <2>4. CASE Index(a)
    BY <2>1, <2>4 DEF Index, Go, Fault, TypeInv, TypeOK
  <2>5. CASE Drop(a) \/ Die(a)
    BY <2>1, <2>5 DEF Drop, Die, Go, document, TypeInv, TypeOK
  <2>6. CASE Redeliver(a)
    BY <2>6 DEF Redeliver, Fault
  <2> QED BY <1>6, <2>2, <2>3, <2>4, <2>5, <2>6 DEF TaskStep, Work
<1>7. ASSUME NEW n \in Nodes, \/ ClaimDue(n) \/ QueueFull(n) \/ Renew(n) \/ Stall(n)
                              \/ Refresh(n) \/ Crash(n)
      PROVE  \A b, c \in Tasks : Working(b)' /\ Working(c)'
                                      => b = c /\ status' = "running"
  BY <1>4, <1>5, <1>7 DEF tasks, OneTask
<1> QED BY <1>1, <1>2, <1>3, <1>6, <1>7 DEF Next, TaskStep, Tasks

\* Version h is chunked and cannot be replaced by an older one.
Stored(h) == /\ h <= chunks /\ h <= file
             /\ \A a \in Tasks : task[a] = "persist" => h <= text[a]
Chunking(n) ==
    /\ pc[n] = "chunk" => file = fetched[n]
    /\ pc[n] = "chunk" /\ task[n] = "persist" => text[n] = fetched[n]
    /\ pc[n] = "chunk" /\ task[n] \in {"index", "done"}
           => Stored(fetched[n])
    /\ pc[n] = "settle" => Stored(fetched[n])
Calm == faults \cap {"stall", "close", "slow", "again", "index"} = {}
StoredInv ==
    Calm
        => /\ row.hash \in unread \/ Stored(row.hash)
           /\ \A n \in Nodes : Chunking(n)

StoredAll == TypeInv /\ LeadInv /\ KeptInv /\ OneTask /\ StoredInv

\* In a calm state a refresh excludes every other one.
LEMMA CalmFacts ==
    ASSUME StoredAll, Calm, NEW n \in Nodes, pc[n] # "idle"
    PROVE  /\ Owns(n) /\ \A m \in Nodes \ {n} : pc[m] = "idle"
           /\ row.hash \in unread \/ Stored(row.hash)
           /\ Chunking(n)
           /\ pc[n] \in {"busy", "save", "chunk", "settle"} => fetched[n] >= row.hash
<1>1. \A m \in Nodes : Led(m)
  BY DEF StoredAll, LeadInv, Calm, Overlap
<1> QED BY <1>1 DEF StoredAll, Led, Owns, KeptInv, Kept, StoredInv

LEMMA StoredWorld ==
    ASSUME StoredAll, Calm', 
           \/ Publish \/ FallDue \/ Lapse \/ RecoverStuckRunning
           \/ Close \/ Open \/ Pause \/ Resume
    PROVE  StoredInv'
<1>1. CASE Close
  BY <1>1 DEF Close, Fault, Calm
<1>2. CASE ~Close
  <2>1. /\ Calm /\ UNCHANGED <<unread, file, chunks, refresh, tasks>>
        /\ \/ row'.hash = row.hash \/ row'.hash = NoVersion
    BY <1>2, RowTyped
       DEF Publish, FallDue, Lapse, RecoverStuckRunning, Open, Pause, Resume, Fault,
           Calm, page, schedule, document, NewRow, NoRow, Rows, StoredAll
  <2>2. row.hash \in unread \/ Stored(row.hash)
    BY <2>1 DEF StoredAll, StoredInv
  <2>3. Stored(NoVersion)
    BY DEF Stored, StoredAll, TypeInv, TypeOK, NoVersion, Versions
  <2>4. \A h : Stored(h)' <=> Stored(h)
    BY <2>1 DEF Stored, tasks
  <2>5. \A m \in Nodes : Chunking(m)'
    BY <2>1, <2>4 DEF Chunking, StoredAll, StoredInv, refresh, tasks
  <2> QED BY <2>1, <2>2, <2>3, <2>4, <2>5 DEF StoredInv
<1> QED BY <1>1, <1>2

LEMMA StoredClaim ==
    ASSUME StoredAll, Calm', NEW n \in Nodes, ClaimDue(n) \/ Renew(n) \/ Stall(n)
    PROVE  StoredInv'
<1>1. /\ Calm /\ UNCHANGED <<unread, file, chunks, fetched, tasks>>
      /\ row'.hash = row.hash
      /\ \A m \in Nodes : pc'[m] \in {pc[m], "queued"}
  BY RowTyped
     DEF ClaimDue, Renew, Stall, Fault, Calm, page, schedule, document, StoredAll,
         TypeInv, TypeOK
<1>2. \A h : Stored(h)' <=> Stored(h)
  BY <1>1 DEF Stored, tasks
<1>3. \A m \in Nodes : Chunking(m)'
  BY <1>1, <1>2 DEF Chunking, StoredAll, StoredInv, tasks
<1> QED BY <1>1, <1>2, <1>3 DEF StoredAll, StoredInv

LEMMA StoredEnd ==
    ASSUME StoredAll, Calm', NEW n \in Nodes,
           QueueFull(n) \/ Settle(n) \/ MarkFailed(n) \/ SkipUnchanged(n) \/ SkipBusy(n)
    PROVE  StoredInv'
<1>1. Calm /\ pc[n] # "idle" /\ UNCHANGED <<document, tasks>> /\ unread \subseteq unread'
  BY EndFacts
     DEF StoredAll, Calm, QueueFull, Settle, MarkFailed, SkipUnchanged, SkipBusy, End, Fault
<1>2. \A h : Stored(h)' <=> Stored(h)
  BY <1>1 DEF Stored, document, tasks
<1>3. row'.hash \in unread' \/ Stored(row'.hash)
  BY <1>1, EndRecord, CalmFacts
     DEF StoredAll, Chunking, QueueFull, Settle, MarkFailed, SkipUnchanged, SkipBusy, End
<1>4. \A m \in Nodes : pc'[m] = "idle"
  BY <1>1, EndFacts, CalmFacts DEF StoredAll, TypeInv, TypeOK
<1> QED BY <1>2, <1>3, <1>4 DEF StoredInv, Chunking

LEMMA StoredCrash ==
    ASSUME StoredAll, Calm', NEW n \in Nodes, Crash(n)
    PROVE  StoredInv'
<1>1. Calm /\ pc[n] # "idle" /\ UNCHANGED <<unread, row, document>>
  BY DEF Crash, Fault, Calm, schedule
<1>2. \A m \in Nodes : pc'[m] = "idle"
  BY <1>1, CalmFacts DEF Crash, Over, StoredAll, TypeInv, TypeOK
<1>3. \A a \in Tasks : task'[a] = "persist" => task[a] = "persist" /\ text'[a] = text[a]
  BY DEF Crash, StoredAll, TypeInv, TypeOK, Tasks
<1>4. \A h : Stored(h) => Stored(h)'
  BY <1>1, <1>3 DEF Stored, document
<1> QED BY <1>1, <1>2, <1>4, CalmFacts DEF StoredInv, Chunking

LEMMA StoredRefresh ==
    ASSUME StoredAll, Calm', NEW n \in Nodes,
           Find(n) \/ Fetch(n) \/ Save(n) \/ Chunked(n)
    PROVE  StoredInv'
<1>1. Calm /\ pc[n] # "idle" /\ UNCHANGED <<unread, row, chunks, text>>
  BY DEF Find, Fetch, Save, Chunked, Step, Calm, page, schedule, document, tasks
<1>2. \A m \in Nodes \ {n} : pc'[m] = "idle"
  BY <1>1, CalmFacts
     DEF Find, Fetch, Save, Chunked, Step, StoredAll, TypeInv, TypeOK
<1>3. \A a \in Tasks : task'[a] = "persist" => task[a] = "persist"
  BY DEF Find, Fetch, Save, Chunked, tasks, Tasks, StoredAll, TypeInv, TypeOK
<1>4. \A h : Stored(h) /\ h <= file' => Stored(h)'
  BY <1>1, <1>3 DEF Stored
<1>5. row.hash \in Nat /\ (Stored(row.hash) => row.hash <= file')
  <2>1. row.hash \in Nat /\ file \in Nat /\ fetched[n] \in Nat
    BY RowTyped DEF StoredAll, TypeInv, TypeOK, NoVersion, Versions
  <2>2. file' = file \/ (pc[n] = "save" /\ file' = fetched[n])
    BY DEF Find, Fetch, Save, Chunked, Step, document
  <2> QED BY <1>1, <2>1, <2>2, CalmFacts DEF Stored
<1>6. Chunking(n)'
  <2>1. CASE Find(n) \/ Fetch(n)
    BY <2>1 DEF Find, Fetch, Step, Chunking, StoredAll, TypeInv, TypeOK
  <2>2. CASE Save(n)
    BY <2>2 DEF Save, Step, Chunking, tasks, StoredAll, TypeInv, TypeOK, RowInv
  <2>3. CASE Chunked(n)
    BY <1>1, <1>4, <2>3, CalmFacts
       DEF Chunked, Step, Chunking, Stored, document, StoredAll, TypeInv, TypeOK
  <2> QED BY <2>1, <2>2, <2>3
<1> QED BY <1>1, <1>2, <1>4, <1>5, <1>6, CalmFacts DEF StoredInv, Chunking

\* What a task does to what it has read, in a calm state.
LEMMA StoredText ==
    ASSUME StoredAll, Calm', NEW a \in Tasks, TaskStep(a)
    PROVE  /\ Calm /\ UNCHANGED <<unread, file, refresh>> /\ row'.hash = row.hash
           /\ \A b \in Tasks \ {a} : task'[b] = task[b] /\ text'[b] = text[b]
           /\ task'[a] = "persist" => text'[a] = file
           /\ task'[a] = "index" => task[a] = "persist" /\ chunks' = text[a]
           /\ task'[a] # "index" => chunks' = chunks
           /\ task'[a] = "done" => task[a] = "index"
<1> USE DEF StoredAll, TypeInv, TypeOK, Go, document
<1>1. Calm /\ UNCHANGED <<unread, file, refresh>> /\ row'.hash = row.hash
  BY TaskFacts DEF Calm
<1>2. CASE StartChunk(a) \/ ReadFile(a)
  BY <1>1, <1>2 DEF StartChunk, ReadFile
<1>3. CASE Persist(a)
  BY <1>1, <1>3 DEF Persist
<1>4. CASE Index(a)
  BY <1>1, <1>4 DEF Index
<1>5. CASE Drop(a) \/ Redeliver(a) \/ Die(a)
  BY <1>1, <1>5 DEF Drop, Redeliver, Die
<1> QED BY <1>2, <1>3, <1>4, <1>5 DEF TaskStep, Work

LEMMA StoredTask ==
    ASSUME StoredAll, Calm', NEW a \in Tasks, TaskStep(a)
    PROVE  StoredInv'
<1>1. Calm /\ UNCHANGED <<unread, file, refresh>> /\ row'.hash = row.hash
  BY StoredText
<1>2. \A h \in Nat : Stored(h) => Stored(h)'
  <2> SUFFICES ASSUME NEW h \in Nat, Stored(h) PROVE Stored(h)'
    OBVIOUS
  <2>1. h <= chunks'
    BY StoredText DEF Stored
  <2>2. \A b \in Tasks : task'[b] = "persist" => h <= text'[b]
    BY StoredText DEF Stored
  <2> QED BY <1>1, <2>1, <2>2 DEF Stored
<1>3. ASSUME NEW m \in Nodes, pc[m] \in {"chunk", "settle"} PROVE Chunking(m)'
  <2>1. Chunking(m) /\ fetched[m] \in Nat /\ pc'[m] = pc[m] /\ fetched'[m] = fetched[m]
    BY <1>1, <1>3, CalmFacts
       DEF StoredAll, TypeInv, TypeOK, refresh, NoVersion, Versions
  <2>2. CASE a # m
    <3>1. task'[m] = task[m] /\ text'[m] = text[m]
      BY <2>2, StoredText DEF Tasks
    <3> QED BY <1>1, <1>2, <2>1, <3>1 DEF Chunking
  <2>3. CASE a = m /\ task'[m] # "index"
    <3>1. task'[m] = "done" => Stored(fetched[m])
      BY <2>1, <2>3, StoredText DEF Chunking, StoredAll, TypeInv, RowInv
    <3> QED BY <1>1, <1>2, <2>1, <2>3, <3>1, StoredText DEF Chunking
  <2>4. CASE a = m /\ task'[m] = "index"
    <3>1. /\ task[m] = "persist" /\ pc[m] = "chunk" /\ file' = fetched[m]
          /\ chunks' = fetched[m]
      BY <1>1, <2>1, <2>4, StoredText DEF Chunking, StoredAll, TypeInv, RowInv
    <3>2. \A b \in Tasks : task'[b] # "persist"
      BY <1>1, <2>4, <3>1, StoredText DEF OneTask, Working, Calm, StoredAll
    <3>3. Stored(fetched[m])'
      BY <2>1, <3>1, <3>2 DEF Stored
    <3> QED BY <2>1, <2>4, <3>1, <3>3 DEF Chunking
  <2> QED BY <2>2, <2>3, <2>4
<1>4. \A m \in Nodes : Chunking(m)'
  BY <1>1, <1>3 DEF Chunking, refresh
<1>5. row.hash \in unread \/ Stored(row.hash)
  BY <1>1 DEF StoredAll, StoredInv
<1>6. row.hash \in Nat
  BY RowTyped DEF StoredAll, NoVersion
<1> QED BY <1>1, <1>2, <1>4, <1>5, <1>6 DEF StoredInv

LEMMA StoredStep == StoredAll /\ [Next]_vars => StoredInv'
<1> SUFFICES ASSUME StoredAll, [Next]_vars, Calm' PROVE StoredInv'
  BY DEF StoredInv
<1>1. CASE UNCHANGED vars
  BY <1>1 DEF vars, page, schedule, document, refresh, tasks, StoredAll, StoredInv, Calm,
              Chunking, Stored
<1> QED BY <1>1, StoredWorld, StoredClaim, StoredEnd, StoredCrash, StoredRefresh,
           StoredTask DEF Next, Refresh, TaskStep, Tasks

\* What a refresh records has been chunked when it is recorded and its chunks
\* are not replaced by older content later, whatever crashes: unless the
\* document was busy, or a task may overlap another one.
THEOREM RecordIsChunked == Spec => []RecordedIsChunked
<1>1. Init => KeptInv /\ LeadInv /\ OneTask /\ StoredInv
  BY InitTyped, OwnerWorks
     DEF Init, KeptInv, Kept, Owns, LeadInv, Led, OneTask, Working, StoredInv, Stored,
         Chunking, NewRow, NoRow, NoVersion, Tasks
<1>2. StoredAll => RecordedIsChunked
  BY DEF StoredAll, StoredInv, Stored, Calm, RecordedIsChunked
<1>3. StoredAll /\ [Next]_vars => StoredAll'
  BY TypeStep, LeadStep, KeptStep, OneTaskStep, StoredStep DEF StoredAll
<1> QED BY <1>1, <1>2, <1>3, InitTyped, PTL DEF Spec, StoredAll
=============================================================================
