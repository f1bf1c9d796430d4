# A verification development for go-base-agent

TLA+ modules of the concurrent core of this repository, TLC configurations that
model-check them on small instances, and theorems about them checked by TLAPS.
`PROJECT.json` is the machine-readable index: components, runs, mutants, the map
from each definition to its source lines, findings, hazards and theorems.  All
source paths below are relative to `src/`; `knowledge_document.go:853` and the
like name a line of it.

Contents: 1 inventory, 2 plan, 3 modules, 4 runs, 5 findings, 6 proofs,
7 what is only model-checked, 8 what is not modelled.

## 1. Inventory

go-base-agent is a RAG service: users upload documents into knowledge bases, the
service chunks and embeds them, and answers questions over them in streamed
chats.  Several instances of the service run side by side and share a relational
database, a vector store, Redis and (optionally) RocketMQ.

| Component | State it keeps | Operations | Hard behaviour |
|---|---|---|---|
| Fair queue limiter `internal/framework/ratelimit/limiter.go`, `queue_claim_atomic.lua` | in Redis a ZSET of waiting tickets, one marker key per waiter, a sequence, one counter of permits with a lease; per ticket an atomic state, a poller, a goroutine that watches its context | `Acquire`, `tryClaim`, claim script, `releasePermit`, `cleanup`, `cancelOnDisconnect` | many instances claim at once on stale counts; cancellation, deadline and grant race for the ticket; processes die in line or with a permit; commands or their answers are lost; leases run out |
| Streamed chat `internal/biz/rag` (`controller.go`, `queued_chat_service.go`, `pipeline.go`, `stream_task_manager.go`, `sse.go`) | task table and its owner/cancellation keys in Redis, the task's flags, the context, the model call's handle, the SSE sender, stored messages | `StreamChat`, `register`, `cancelByUser`, `publishCancel`, the pub/sub listener, `bindHandle`, `cancelTask`, `OnContent/OnComplete/OnError` | up to four goroutines end the same response; a stop may come before the registration, from another user, on another node; the model hangs; Redis commands fail and are only logged |
| Model routing `internal/infra/model`, `internal/infra/chat` | per model a breaker (state, failures, open-until, probe in flight, token) under a mutex; per call the candidate it is at, its permit, its first-packet probe, its streams | `AcquirePermit`, `MarkSuccess`, `MarkFailure`, `ReleaseHalfOpenPermit`, `ExecuteWithFallback`, `StreamChat`, `AwaitFirstPacket`, `ProbeBridge` | a probe slot must come back on every way out; old permits meet new rounds; abandoned streams still call back |
| Document chunking `internal/biz/knowledge/service/knowledge_document.go`, `mq_consumers.go`, `internal/framework/idempotent/consume.go`, `framework/lock`, `framework/mq` | the document's row, its chunk rows, its vectors, a Redis lock, a transactional message, a consume guard | `StartChunk`, `RunChunkNow`, `CheckChunkTransaction`, the consumer, `executeChunk`, `DeleteDocument`, `ToggleDocument`, `RecoverStuckRunningDocuments` | three stores and no common transaction; redelivery, crashes, lost commit answers, expiring locks; edits that look first and act later |
| Document schedule `internal/biz/knowledge/service/knowledge_document_schedule.go`, `repo/knowledge_document_schedule.go` | schedule rows with next run, lock owner and lock-until, the hash of the last page; the stored file | scan, claim, heartbeat, refresh, mark skipped or failed, settle, recover stuck | many instances scan at once; a refresh outlives its lease; users chunk the document, close, open and pause its schedule meanwhile |
| Expirable semaphore `framework/ratelimit/expirable_semaphore.go` | ZSET of permits by expiry | acquire, release | expiry while the holder runs |
| Distributed lock `framework/lock` | a key with TTL | `Acquire`, `Release`, `RunWithLock` | TTL shorter than the work; release by someone else |
| Message queue `framework/mq` | broker state | `Send`, `SendInTransaction`, check-back, subscribe | lost answers, redelivery |
| Request idempotency `framework/idempotent/idempotent.go` | keys with TTL | run once per key | none beyond one SETNX |
| Knowledge base lifecycle `internal/biz/knowledge/service/knowledge_base.go`, `mq_consumers.go` | the base's row, its documents' rows, files and vectors, the clean-up's message | `Delete`, `CheckCleanupTransaction`, `cleanupPhysicalResources`; create, update, list | uploads between the count and the deletion; failed sends, lost commits, crashes, half a clean-up; two deletions of one base |
| Conversations and memory `internal/biz/conversation`, `internal/biz/rag/memory*.go` | the conversation's row, messages, summaries, a task queue per process, a lock in Redis | `AppendMessage`, `maybeUpdateSummary`, `runSummaryCompression`, `LoadHistory`, `DeleteConversation`; titles, feedback | compressions of several processes, one that outlasts its lock, tasks given up, a deletion in the middle of a turn |
| Ingestion engine `biz/core/ingestion`, `biz/ingestion` | pipelines, tasks, node runs | run a node graph | a node fails in between |
| Caches `framework/cache`, `biz/rag/*_cache.go` | keys with TTL | cache-aside | stale entries |
| Snowflake ids `framework/snowflake` | node number, sequence, clock | allocate node, next id | clock moving back, node reuse |
| Chunkers, parsers, retrieval, reranking, prompting | none | text and scores | none for a model checker |
| Intent tree, users, audit, admin, MCP tools, agents, crawler, code questions, log agent, HTTP and configuration plumbing | rows; connections | CRUD and I/O | little |

How they interact.  A chat request passes the limiter (`QueuedChatService` calls
`Acquire`; the pipeline is its `OnAcquire` callback, the rejection its
`OnTimeout`), then the pipeline registers its task, prepares a prompt and calls
the router, which walks the candidate models under the breaker; the stream's
goroutine calls the pipeline's callback through the router's `ProbeBridge`.  Stop
requests reach the task over Redis from any node.  A chunk request takes the
Redis lock, claims the row, and hands over to the queue, whose consumer runs the
chunk task under the consume guard; the schedule's recovery job marks stuck
documents failed.  A scheduled refresh saves the page and runs the chunk task in
its own process.  The chats append their messages to the conversation and leave
its compression to a queue.  The deletion of a base sends a transactional message
that only its clean-up consumes.  The components with a module share no state
beyond these calls, so they are modelled one by one, each with its neighbours
reduced to what they can do to it: the limiter's caller is an environment that cancels,
waits or dies; the chat's model is one that streams, fails or hangs; the chunk
task's parser and embedder succeed or fail; a refresh's source publishes new
versions; a base's documents are chunked once each.

What makes each component correct:

- limiter: never more than `max-concurrent` callbacks, no permit lost but by
  death, a grant cancelled or an error of Redis, no waiter forgotten, no dead entry
  blocking the line, every call ends in exactly one way, and a patient call is
  served.
- chat: only its owner stops a stream; once stopped nothing streams on; a stop or the
  deadline ends the response; one that is not stopped is over only when its client was
  told the end.
- routing: a probe slot always has a holder and is freed by nobody else; a
  breaker never stays open; failover reaches the client.
- chunking: one run at a time, a successful document is found by exactly its
  chunks, a running one has a task or a message that will bring one, every accepted
  start ends.
- schedule: one refresh of a document at a time, what is recorded as seen has been
  chunked, an old holder never writes over its successor, a due row is served.
- memory: a summary tells of all messages up to its mark and of no other, one
  compression at a time, window and summary together leave nothing out, a deleted
  conversation stays deleted.
- knowledge bases: only an empty base is deleted, nothing cleans up a living one,
  and what a deletion leaves is cleaned up.

## 2. Plan

The modules were written in this order, the most important behaviour first, each
with its `MC` module and its `...Proofs` module: `TicketQueue` and
`FairQueueLimiter`, `ChatStream`, `ModelRouting`, `DocumentChunk`,
`DocumentSchedule`, `ConversationMemory`, `KnowledgeBase`, and then
`CircuitBreaker`, the abstract specification that `ModelRouting` implements.

What could follow, none of it begun: manual chunk edits and the pipeline mode in
`DocumentChunk`; the change of a base's embedding model against a running chunk
task; an abstract "one response, one ending" that `ChatStream` would implement
only if a full answer and a cancellation could not both end it, which the code
allows.

## 3. Modules

`MC...` modules only give constants values; `...Proofs` modules hold theorems.
A definition commented "Mutant" is a plausible bug in the definition that follows
it, named in `PROJECT.json` with the property that catches it; no specification
uses it.

### TicketQueue
What the limiter promises its callers: a call waits, runs and is served, or times
out, is cancelled or dies; at most `MaxConcurrent` run, counting permits lost
with a dead process, with a call cancelled in the very moment of its grant, or with
an answer nobody heard (`stray`).

### FairQueueLimiter
`limiter.go` and `queue_claim_atomic.lua`.

- `ahead`, `queued`, `marked` are the ZSET `<name>:queue` (order of scores,
  members) and the entry markers; `counter`, `leased` the semaphore key and its
  TTL; `state` is `ticket.state`, `poller` the entry in `l.pollers`, `janitor`
  the goroutine of `cancelOnDisconnect`; `pc` names the Redis command of
  `Acquire`/`tryClaim` in flight.
- A step is one Redis command (a Lua script is one) or one atomic operation on
  the state.  A command that takes the request's context is not sent any more
  once the context is done (`NotSent`, `Send`); one in flight still takes effect.
- `Mark`, `Zadd`: enqueue, and put back after a claim that found no permit;
  `Probe`: `availablePermits`; `Claim`: the script with its window of
  `avail + Slack` entries and the removal of entries without marker; `Take`:
  `acquireLua`; `Grant`/`LoseGrant`: the CAS; `Release`: the deferred
  `releasePermit`; `Leave...`, `JanitorCancel`: the other two CAS.
- The environment: `Cancel`, `DeadlinePasses` (MaxWait), `Crash`, `MarkerExpiry`
  (a dead process leaves a marker to expire, or a failed cleanup), `LeaseExpiry`.
- `MarkFails`, `ZaddFails`, `ProbeFails`, `ClaimFails`, `TakeFails`, `ReleaseFails`
  and the second branch of `Cleanup` are commands that fail on a live context,
  before or after they take effect; the code goes on as if they had not been sent.
  So a claim whose answer is lost leaves the ticket out of the line, a permit may be
  counted for nobody (`stray`), and a score that is not told is the head of the line
  (`ScoreFirst`).  `failed` remembers whose commands failed.
- Abstracted: notifications over pub/sub and the poll ticker both only make a
  waiter try again (`Poll`); scores are an order; a limiter with `max = 0` calls
  its callback at once and is left out.

### ChatStream
One task, since tasks meet only in tables keyed by their id.

- `shared` is `"none"` without Redis, `"sound"` or `"failing"`; `ownerKey`, `marker` are the task's
  two keys; `local`..`snap` the `streamTask` and its context; `script[a]` is what
  is left of the ending that goroutine `a` performs (the handler, the reader, the
  one that runs `cancelTask`, the limiter's `OnTimeout` goroutine), so that
  endings interleave send by send; `got` are the ending events sent before the
  handler returned.
- Handler: `TimeOutInQueue`, `Register`, `PersistOwner`, `Review` (the three
  steps of `register`), `Guide`, `AnswerFromCache`, `Prepare`, `FallBack` (the
  pipeline's exits), `CheckContext`, `Open`/`Refuse`/`FirstPacket`/`GiveUp` (the
  router as the pipeline sees it), `Bind`, `Wait`, `Unregister`, `Forget`.
- Reader: `Content`, `Complete`, `StreamError`, `ContextError`, `StopReading`.  A
  line whose handling began before the handle was cut may call back after it.
- Stop: `CheckOwner`, `Mark`, `Publish`, `Hear`, `StopHere` (without Redis).
- `RedisFails` lets each Redis command fail the way the code handles it: it logs
  and goes on (`OrFails`); a broadcast may stay undelivered for ever.

### CircuitBreaker
What `HealthStore` promises those who call models (`health.go`): a closed model
takes any call, an open one none until its time has passed, and then one probe at a
time, whose end is known.  Any success closes a model, a failure ends a probe and
opens the model again, a caller that goes away decides nothing and takes back only
its own probe.  Failure counts, permits and tokens are not in it, nor the way of a
call from model to model.

### ModelRouting
- `breaker`..`token` are `HealthStore.data`; its operations run under the mutex,
  one step each.  `pc`, `place`, `targets`, `probe`, `first` are a call inside
  `ExecuteWithFallback` or `streamChatWithTier`; `stream`, `cut`, `packet`,
  `ended` the streams it opened, one per model it tried.
- `AwaitFirstPacket` is `FirstPacket`, `NoPacket` (failure or timeout) and
  `Abort` (end of the context): of those that are ready, any is taken, as Go's
  select does.
- `Scan`, `OnContent`, `OnComplete`, `OnError`, `Drop` are the goroutine of
  `StreamExecutor` with `ProbeBridge` between it and the callback.
- `Mode`, `At`, `Prober` are what `CircuitBreaker` sees of all this: an open model
  whose time has passed counts as half open, though the code only makes it so when a
  call comes; the calls that are at a model; the holder of its probe slot.

### DocumentChunk
- `status`, `deleted`, `enabled`: the row; `chunks`, `chunksOn`: the live chunk
  rows, as one version; `vectors`: the versions the vector store holds; `lock`:
  the Redis lock; `guard`: the consume guard; `msg`, `attempts`: the messages;
  `exec`: the chunk tasks; `pc`, `held`, `saw`: the requests.
- `Lock`..`Unlock`: `startChunk`, inline or queued; without an answer from Redis
  the request goes on, as the code does.  `Claim` of a queued start is the local
  transaction of the message; the broker may miss its outcome (`"half"`) and ask
  (`CheckBack`).
- `Deliver`, `Complete`, `Fail`: the consumer with its guard.  `Crash` is the
  death of the process during the task; a `Complete` or `Fail` whose Redis
  command fails, or a `markChunkFailed` that fails, has the same effect.
- `Find`..`MarkChunkFailed`: `executeChunk`; `Persist` is its transaction,
  `Wipe` and `Index` come after it.
- `Look`..`IndexChunks`: delete and switch.  `RecoverStuckRunning` may take a
  task that is merely slow for stuck.
- The update of `Claim` may fail, or commit with its answer lost: then the message is
  rolled back (`"dropped"`) and the row stays `running`.
- `workload` is one of the `Workloads` of the instance, chosen at the start: what
  the requests ask for, and whether there is a queue.
- The guard's hour is longer than any task (`GuardExpires`).  The guard is
  optional in the code; the model has it on, as the application wires it.

### DocumentSchedule
One document fetched from a URL, refreshed by several processes.

- `row` is the schedule's row: `id` tells a row from one opened later in its
  place, `due` stands for the next run time, `leased` for a lock-until in the
  future.  `job` is the row as a process claimed it, `fresh` whether it renews the
  lease in time, `fetched` the version it downloaded, `busy` whether the document
  was running when it was loaded; `task`, `text` are the chunk tasks and what they
  read; `unread` keeps the versions recorded for a busy document, which finding
  `schedule_skip` is about.
- `ClaimDue` is the select and the conditional update; `QueueFull` the batch's
  channel at its limit; `Renew`, `Stall`, `Lapse` the heartbeat, its failure and
  the end of a lease; `Find`, `Fetch`, `Save`, `Chunked`, `Settle`, `SkipUnchanged`,
  `SkipBusy`, `MarkFailed` the refresh, each write under the conditional update
  (`WriteIfOwned`).
- Users chunk the document: `StartChunk` claims the row and moves the schedule's next
  run time; the queue may drop the message (`Drop`), deliver it again without a new
  claim (`Redeliver`), and its consumer may die (`Die`).  `ReadFile`, `Persist`,
  `Index` are the task: the rows and the status in one transaction, the vectors after
  it, when others may already start.
- Users close, open, pause and resume the schedule; the status check of
  `UpdateDocument` and `ToggleDocument` and their write are one step.  The recovery
  job fails stuck documents, and with the fault "slow" one that runs.
- `chunks` is the version the rows are of; vectors, the consume guard and the pipeline
  mode are left to `DocumentChunk`.
- Time is two facts on the row.  That a lease is renewed before it ends unless a
  fault happens is the code's ratio of three heartbeats to one lease.

### ConversationMemory
One conversation, its chats on several processes.

- A message is its number; `asked` are the questions; `gone` the deleted prefix;
  `summary` the latest summary with the messages it tells of; `queue` the tasks of
  each process; `step`, `job` the compressions, which run in the worker of a
  process or, when its queue is full, in the chat itself.
- `Find`, `Create`, `Insert`: `AppendMessage`; `MaybeUpdateSummary`, `Enqueue`,
  `Take`: the task's way to the worker; `Acquire`, `LoadLatestSummary`,
  `LoadWindowedHistory`, `Generate`, `Release`: the compression under
  `RunWithLock`, with its cutoff in the middle of the window; `LockExpires` lets a
  compression outlast its lock; `Window`, `Remembered`: what the model is told.
- An error of the database or of Redis may keep a question or an answer from being
  stored, a task from being started (the questions cannot be counted) or locked, or
  end it; `gap` remembers that a task was not started or was given up.
- The numbers are in the order of `create_time`: clocks of processes in step.

### KnowledgeBase
One base, its uploads and deletions.

- `base` and `docs` are the rows, `files` and `vectors` the documents of which the
  collection has any; `msg`, `attempts` the message of each deletion; `cleanup`,
  `failed` the clean-ups; `pc` the upload with its chunk task and deletion, and the
  deletion of the base.  `late` and `revived` are history: documents inserted after
  a deletion had counted, and a base that a failed deletion restored although
  another one had deleted it.
- `Find`, `Count`, `Send`, `SoftDelete`, `Commit`, `Restore`: `Delete` with its
  local transaction; `CheckBack` and `Deliver` the broker's side; `DropVectors`,
  `DeleteKnowledgeSpace` the clean-up, which goes on after a failure of its first
  step and reports it (`End`); without a queue the request runs it.
- `SoftDelete` may fail, or take effect and seem to fail (the fault "reply"): then the
  message is rolled back and the row restored.
- The broker asks only after the local transaction is over: it waits far longer
  than one update takes.
- `Look`, `Insert`, `Put` the upload; `Process`, `Persist`, `Index` the three looks
  of the chunk task at the base; `DeleteDocument`, `DeleteVectors`, `DeleteFile`.

## 4. Runs

| Run | Instance | States | Question |
|---|---|---|---|
| `limiter_safety` | 3 calls, 1 permit, window 1; one may be cancelled and have one command fail, one may time out | 1 309 309 | permits accounted, nobody lost in line, no ghost, no cleanup after the grant, implements `TicketQueue` |
| `limiter_served` | 2 calls, 1 permit; the first may be cancelled, late, dead, and any of its commands may fail; leases expire | 95 568 | a leaving call returns; the staying one is served |
| `chat_stream` | owner and stranger each stop once; no Redis, a sound and a failing one; queue time-out | 216 256 | only the owner stops; no stream survives its stop; no request returns before its end was sent; a stop or the deadline ends the response |
| `routing_safety` | 1 stream and 3 plain calls, 1 model, threshold 1 | 631 882 | probe slots have holders, only the holder frees, implements `CircuitBreaker` |
| `routing_recovery` | 1 stream and 1 plain call, 2 models, threshold 1 | 285 154 | an unavailable model becomes available |
| `routing_fallback` (violation) | 1 stream, 2 models | | a failed candidate's end reaches the callback |
| `chunk_requests` | 2 queued starts, or a start with a delete and a switch on, or an inline start with both switches; 2 deliveries, 1 crash, failing vector store | 81 168 | one run at a time, search is whole, a running document has a task to come, starts settle |
| `chunk_dropped` (violation) | 2 queued starts | | the second start's message is swallowed |
| `schedule_refresh` | 2 processes, 1 user, 2 versions, 2 rows, 1 fault of any kind | 514 977 | one refresh at a time, what is recorded has been chunked, records never go back, due rows are served |
| `schedule_skip` (violation) | the same | | a page recorded while the document was busy is skipped as unchanged |
| `memory_summary` | 2 processes with a chat each, window 3, first summary at 4, 6 questions, queue of 1, 1 fault of any kind | 1 352 185 | summaries are prefixes, one compression at a time, nothing forgotten, the summary never goes back, a deleted conversation stays gone |
| `base_delete` | 1 upload, 2 deletions, 3 deliveries, 2 faults of different kinds, with and without a queue | 182 533 | no living base is cleaned up, no document forgotten, what is deleted is cleaned up |

Why the bounds suffice.

- Limiter: with one permit every claim after the first contends.  Three calls let
  one hold, one claim on a stale count and one be re-ordered by the other's
  return to the tail; `Slack = 0` keeps the script's window smaller than the line,
  where `16` would make it larger than any small instance.  One failed command
  (`FailAgain = FALSE`) meets the two others at every point; liveness lets any number
  of the first call's commands fail, at most those it sends.  Liveness uses two
  calls, which already lose a claim to each other and return to the tail (the
  mutant `TakeAndForget` fails there).
- Chat: one task; two stops are enough for the second to meet the first in any
  state, and to overwrite its marker.
- Routing: a stale permit that meets a foreign probe needs four calls on one
  model: one to open the breaker, one whose probe is taken away by the verdict of
  an older third, and a fourth with the new probe.  A threshold of one makes each
  failure open the breaker; the mutant `CountOn` shows that counting matters even
  so.  Plain calls are interchangeable and symmetry is used in the safety run
  only.
- Chunking: two starts of one document are the smallest race.  Two deliveries
  and one crash cover crash, redelivery against a running task, and redelivery
  after success or failure.
- Schedule: two processes are enough for a successor to meet an old holder, two
  versions for an older write to meet a newer record, two rows for a holder to
  meet the row opened in the place of its own.  "again" and "index" may happen any number of
  times once they have happened, so that one user's start can run late beside any
  refresh.  Two users have been tried for the safety properties, and pass
  (1 320 836 states with symmetry).
- Memory: with a window of three and a first summary at the fourth question, six
  questions make two compressions with a cutoff in the middle, so that a late one
  may start from an old summary; a queue of one overflows into the chat at once.
  Window 2, first summary at 3, four questions and two faults pass too.
- Knowledge base: two deletions are the smallest race, one document is enough to be
  counted, forgotten or wiped.  Two faults make a document leave its vectors behind
  and their clean-up fail, or a lost reply meet a crash; three deliveries are one more than the faults can spoil,
  as the broker's sixteen are for any fault that ends.

Deadlock checking is off everywhere: every behaviour ends when all calls are over.

Fairness.

- Limiter `FairSpec`: goroutines run on once started, callbacks return, Redis
  expires keys, timers fire (weak fairness); leaving the waiting loop is strongly
  fair, because Go's `select` picks at random among ready cases, so a deadline or
  a cancellation ready again and again is taken although polls are ready too.
  Nobody has to call, cancel or die, and no command has to
  fail; a call whose commands fail owes its own service nothing (`Faulty`).
- Chat `FairSpec`: the handler, the endings, and the stop requests after their
  owner check go on; a blocked read ends with its context.  The model need not
  send anything, nobody has to stop, and the deadline need not pass for the stop
  to work; `ResponseEnds` starts from the deadline having passed.
- Routing `FairSpec`: each attempt of a call ends, and time passes.  A stream has the
  first-packet timeout or its context; a plain call (`ChatWithModel`,
  `routing.go:194`) has no timeout of its own, only its caller's context and its HTTP
  client's: that a plain attempt ends is an assumption on these.  The models owe
  nothing otherwise.
- Schedule `FairSpec`: the scan, heartbeats, refreshes and tasks go on, leases end,
  the recovery job runs.  Nobody has to publish, close or chunk anything.
- Knowledge base `FairSpec`: deletions go on, the broker asks and delivers, and
  clean-ups end.  Uploads and deletions of documents owe nothing.
- Memory has no liveness property: that the summary catches up was tried, and is
  only true as long as questions go on, each of which brings a task.
- Chunking `FairSpec`: requests that hold or have passed the lock, the broker,
  the tasks and the recovery job go on, keys expire.  Nobody has to ask, and
  nobody has to crash.

## 5. Findings

Three runs state what a document or a comment of the repository says, and TLC
shows a behaviour of the code that contradicts it.

- `routing_fallback`, `FallbackIsHeard`: `ProbeBridge` passes the end of a model
  that produced nothing on to the pipeline's callback (`routing.go:83`), which
  closes the sender; the model the router falls back to answers into it.
- `chunk_dropped`, `RunningHasTask`: the guard's key names the document and
  outlives the run by up to an hour (`mq_consumers.go:68`); a second start within
  it sets the row to running and its message is skipped.  Only the recovery job
  ends that state, as failed.
- `schedule_skip`, `UnchangedIsStored`: a refresh that finds the document running
  does not save the page, but hands its hash to `markSkipped`
  (`knowledge_document_schedule.go:311`), which records it; the next refresh skips
  the page as "远程文件未变化" (`:308`) although nobody stored it.

Read in the code while modelling, each visible in the behaviours of a model but
without a run of its own: a context that ends between the INCR and the CAS of the
limiter loses its permit until the lease ends (`limiter.go:208`; modelled as
`leaked`); when the lease ends before the callbacks do, their DECRs make the
counter negative (`limiter.go:237`; why `PermitsAccounted` and the refinement are
stated for leases that hold); `OnTimeout`'s events race the handler's return like
those of `cancelTask` (`limiter.go:155`); a stranger's marker may replace the
owner's before the registration (`stream_task_manager.go:168`; why
`StopEndsStream` ends with a stranger's stop); a probe's failure may be counted although the
request was cancelled (`routing.go:260`); an inline chunk run that dies between
its transaction and the vector store leaves a successful document without vectors
(`knowledge_document.go:1934`), and a recovery or an expired lock lets another run
begin beside it (why `SearchIsWhole` and `RunningIsTended` are about documents
without inline starts; `chunk_requests` has them for the other properties); a start
that is delivered again, or fails after its transaction, runs beside the task of a
refresh and may put older chunks back (`knowledge_document.go:1023`, `:1934`; why
`RecordedIsChunked` leaves these out); a start whose commit's answer is lost leaves
the document in running without a task (`:840`); a claim of the limiter whose answer
is lost leaves its ticket out of the line for good (`limiter.go:177`); an answer whose
count of questions fails starts no task, so that a message may fall out of the window
before the next one is started (`conversation.go:624`; `gap`); a deletion of a base
that loses the reply of its update and then dies leaves the base deleted and its
collection in place (`knowledge_base.go:286`); a compression that finds the lock busy is given up,
although the comment at `conversation.go:29` wants no task lost (the next answer
brings another one); a document uploaded while its base is deleted survives the
base (`knowledge_base.go:259`; `late`); a deletion whose message fails restores a
base that another one deleted (`:291`; `revived`); without a queue a failed
clean-up is reported and never repeated; `cancelTask` wakes the handler before it
stores and sends (`stream_task_manager.go:318`), and the handler does not wait for it,
so that the client of a stopped response may get neither `cancel` nor `done`, against
`docs/DEVLOG.md:612`; `DeleteDocument` checks the status once and deletes without
asking it again, so that a document may be deleted while it runs
(`knowledge_document.go:2206`, against `docs/DEVLOG.md:258`); a refresh asks the status
it loaded before the download and saves the page although a start has claimed the
document since (`knowledge_document_schedule.go:310`, against
`docs/AGENTIC_RAG_PLAN.md:184`).

## 6. Proofs

All theorems hold for every value of the constants that satisfies the named
assumption of the module.

- `FairQueueLimiterProofs`: `TypeCorrect`.  `TicketsCorrect` proves `TicketInv`,
  which ties a ticket's state to the points its three goroutines can be at; it is
  inductive with the types, and `NoPanic` (`NoCleanupAfterGrant`) follows.
  `NobodyForgotten` (`WaitersAreInLine`) and `NoGhosts` (`NoGhostInLine`) by
  `LineInv`, which follows one ticket's entry and marker through its commands and
  the cleanups that may overtake them, for tickets none of whose commands failed; of
  a foreign ticket's step it needs only that a claim drops no entry that has a marker.
  `PermitsCorrect` (`PermitsAccounted`): the count is inductive only together with
  `TicketInv` and `LeakInv` (a leaked permit belongs to a call that never holds one
  again), else a leaked holder would be counted twice; the proof tracks the
  cardinality of the holders through each step.  `Refinement`
  (`ImplementsTicketQueue`, under `~LeaseExpires`): each step maps to a step of
  `TicketQueue` or a stutter under `Phase`; `Room` shows that a ticket about to be
  granted finds a permit left among the running ones, and so does a stray one.
- `ChatStreamProofs`: `TypeCorrect`; its strengthening `CallHasReader` says the
  handler reaches its model call only by starting the reader.  `OnlyOwnersStop`
  (`OnlyAllowedStop`): with `MarkerHasAuthor`, which says that a marker was left by
  a request that passed the owner check of its node, both ways into `cancelTask`
  are guarded by `Allowed`.  No assumption on Redis: its commands may fail.
  `CancelledIsCut` (`NoOrphanStream`) by `CutInv`: a cancelled task is cut, or
  `cancelTask` is about to cut it and has seen the handle, unless `bindHandle` cut
  it first.
  `TheEndIsHeard` (`EndIsHeard`) by `EndInv`: while a task that nobody cancelled is
  served, what is left of each ending and what was sent before make a whole end, the
  sender is closed after one only, and the call is cut off only by a handler that
  ends the response itself, so that the reader the others wait for has done it.
- `ModelRoutingProofs`: `TypeCorrect`; `ProbesHaveHolders` (`ProbeHasHolder`) by
  induction for one model at a time (`Held`), the steps of a call sorted into those
  at the model and those elsewhere; `HoldersRelease` (`OnlyHolderReleases`), an
  action property from the type invariant.  `BreakerImplemented`
  (`ImplementsBreaker`): each step at one model is a step of `CircuitBreaker` there
  and leaves the other models alone; `ProbesHaveHolders` says that only a half-open
  model has a probe, and that its token is that of a call still at the model.
- `DocumentChunkProofs`: `TypeCorrect` with `Undelivered` (a message that is not
  sent or not committed was never delivered); `SingleRunCorrect` (`SingleRun`), inductive as
  it stands because its first conjunct ties a running task to the guard;
  `SearchCorrect` (`SearchIsWhole`) by `WholeInv`: as long as nobody has begun to
  take the document away, a successful row whose vectors are not those of its chunks
  has a task that will put it right, a delivery that will start one, or a message
  given up; `Places` says which requests can be where.  `RunningTended`
  (`RunningIsTended`), inductive with it: who sets the row to running has a message on
  its way, and a task ends only with its message or with the row's status.
- `DocumentScheduleProofs`: `TypeCorrect` with `RowInv` (no row, no owner; a
  process is busy exactly while it has a claimed row).  `RefreshIsExclusive`
  (`OneRefresh`): `LeadInv` says that without the two faults that break it, a
  process at work owns a leased row that it keeps renewing.  `RecordIsMonotone`
  (`RecordNeverGoesBack`), under every fault: `KeptInv`, what an owner claimed is
  still what is recorded, and what it fetched is no older.  `RecordIsChunked`
  (`RecordedIsChunked`): on top of these, `OneTask` (one chunk task at a time
  without the faults that let tasks overlap) and `StoredInv`, which follows a page from the file
  through the task to the chunks and keeps the recorded version below all three.
- `ConversationMemoryProofs`: `TypeCorrect`; `CompressionIsExclusive`
  (`OneCompression`) by `LockInv`: who compresses holds the lock or has outlasted
  it; `SummariesArePrefixes` (`SummaryIsPrefix`) by `PrefixInv`, which says the same
  of the summaries being made: it is what lets a late compression, whose lock is
  lost, still save a prefix; `DeletedConversationStaysGone` (`DeletedStaysGone`) by
  `BelatedInv`: a question asked after the deletion never gets past `Create`.
  `HistoryIsRemembered` (`NothingForgotten`) is a counting argument.  In a calm
  conversation one chat is at work (`PaceInv`), every answer but one at most follows
  its question (`PairInv`), and a question comes next after what a summary tells of
  (`MarkInv`).  `GoodInv`: a task is on its way to look at the last turns, or the
  summary, the latest or the one being made, leaves fewer than a window of questions
  out.  A look makes it so (`LookIsGood`), as its cutoff is the middle of the last
  turns; fewer than a window of questions are fewer than two windows of messages
  (`FewAfter`), and that many are loaded (`WindowReaches`).
  `SummariesMoveOn` (`SummaryNeverGoesBack`) by `AheadInv`: as long as locks hold, a
  summary ends where half of the last turns was left when it was made, new questions
  never make that more than half, and so the next cutoff is no earlier.
- `KnowledgeBaseProofs`: `TypeCorrect`; `NoDocumentIsOrphaned` (`NoOrphans`) with
  `CountInv`: what a deletion knows since its count stays true but for late
  documents; `LivingBaseIsWhole` (`LiveIsWhole`) with `CleanInv`: nothing that may
  end in a clean-up is under way for a living base that was not revived.

## 7. Only model-checked

Liveness (`AllServed`, `CallsReturn`, `StopEndsStream`, `ResponseEnds`,
`BreakerRecovers`, `StartsSettle`, `DueIsServed`, `DeletedIsCleaned`) is out of the
prover's reach.  Every invariant, action property and refinement that a passing run
checks is proved.

What the properties leave out on purpose: `PermitsAccounted` and the refinement
hold for leases that hold; `WaitersAreInLine`, `NoGhostInLine` and `AllServed`
exclude the tickets whose own commands failed, not the others beside them;
`OneRefresh` and `RecordedIsChunked` exclude the faults that break a lease, the second
one also tasks that overlap ("slow", "again", "index"), `RecordNeverGoesBack` and
`DueIsServed` none; `SearchIsWhole` is about documents without inline starts and
switches on, `RunningIsTended` about those without inline starts and without a message
given up or settled without a task; claimed rows wait
in the batch's channel without a heartbeat, which is the fault "stall";
`EndIsHeard` is about tasks that are not cancelled: the events of a cancellation may
come after the handler's return (section 5), like those of a rejection in the queue;
`NothingForgotten` excludes questions that overlap, compressions that outlast the
lock and tasks given up or not started since the last one began, and, with one question per window
(`Keep = 1`), the fault "error": an answer whose question could not be stored then
fills the window with answers only, which `normalizeMemoryMessages` drops, and TLC
finds the property violated there; `SummaryNeverGoesBack` excludes compressions that
outlast the lock, since a late one may save an older summary, and the deletion of the
conversation, which deletes its summary too; `LiveIsWhole` excludes a revived
base, `DeletedIsCleaned` the fault "reply".

## 8. Not modelled

- The components without a module in section 1.  The semaphore, the request
  guard and the allocation of snowflake nodes are one atomic script or command
  each, and a module would restate it; the caches are cache-aside, where a reader
  that loaded before a change may leave a stale entry after its invalidation; the
  others are text processing, CRUD and I/O without concurrent state of their own.
- In the chat: what retrieval, rewriting and prompting compute, suggestions,
  heartbeats, traces, and content events.  Partial answers are told apart only as
  empty or not; the unsynchronised read of the answer's buffer in
  `pipeline.go:872` changes bytes the model does not have.
- In routing: how the selector sorts candidates (an order is given), capabilities,
  tiers.
- In chunking: pipeline mode, folder documents, manual chunk edits, document
  updates, the chunk log.  Files are in `KnowledgeBase` only.
- In the schedule: the pages of an internal URL's tree, cron expressions, the run
  log.
- In the memory: what a summary says, titles, feedback, recommended questions.
- In the knowledge base: creating, renaming and listing; the change of the
  embedding model, refused once a document is chunked (`knowledge_base.go:153`),
  which a chunk task under way may outrun.
- Clashes of request ids that are clock readings (`limiter.go:111`): tickets are
  distinct values.
