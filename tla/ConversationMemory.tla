------------------------- MODULE ConversationMemory -------------------------
(* The memory of one conversation (biz/conversation/service/conversation.go *)
(* and rag/memory_service.go): questions and answers are appended by the    *)
(* chats of several processes; after an answer a task compresses the older  *)
(* messages into a summary, in a queue of the process and under a lock in   *)
(* Redis (framework/lock/lock.go); a user may delete the conversation.      *)
(* What the model is told is the summary and a window of the last messages. *)
(* A message is its identifier: 1, 2, ... in the order of the snowflake ids *)
(* and of create_time, which clocks in step make the same.                  *)
EXTENDS Integers, FiniteSets

CONSTANTS Processes,  \* each with one worker for its compressions
          Chats,      \* clients that ask, one question at a time each
          Home,       \* Home[c]: the process that serves c
          Nobody,     \* the lock is free
          Keep,       \* historyKeepTurns
          Start,      \* summaryStartTurns
          Capacity,   \* summaryTaskQueueCapacity
          MaxTurns,   \* questions of the conversation
          Faults,     \* what may happen, once each
          MaxFaults   \* how many of the Faults may happen

AllFaults == {"overlap",  \* a question is asked before the last one is answered
              "error",    \* the model, the database or Redis fails
              "lapse",    \* a compression takes longer than its lock
              "crash",    \* a process dies
              "delete"}   \* the user deletes the conversation

Runners == Processes \cup Chats

ASSUME MemoryAssumption ==
    /\ IsFiniteSet(Runners) /\ Processes \cap Chats = {} /\ Nobody \notin Runners
    /\ Home \in [Chats -> Processes] /\ Faults \subseteq AllFaults
    /\ Keep \in Nat \ {0} /\ Start \in Nat /\ Start > Keep
    /\ Capacity \in Nat /\ MaxTurns \in Nat /\ MaxFaults \in Nat

VARIABLES
    conv,           \* the conversation's row
    size, asked,    \* the messages 1 .. size; the ones that are questions
    gone,           \* the first `gone' messages are deleted
    summary,        \* the latest summary: its LastMessageID, what it tells of
    lock,           \* ragent:memory:summary:<user>:<conversation>
    queue,          \* the tasks that wait in each process
    pc, role,       \* the chats; the message each is about to append
    step, job,      \* the compressions of workers, and of chats that run their own
    deleting,       \* DeleteConversation
    faults,
    lapsed,         \* compressions that have outlasted their lock
    gap,            \* has a task been given up, or not been started because of
                    \* an error, since the last one began?
    belated         \* chats whose question came after the deletion

messages == <<size, asked, gone>>
chat == <<conv, messages, pc, role, belated>>
compression == <<summary, lock, step, job, lapsed>>
vars == <<chat, compression, queue, deleting, faults, gap>>

Live == gone + 1 .. size
NoSummary == [last |-> 0, covers |-> {}]
Summaries == [last : 0 .. size, covers : SUBSET (1 .. size)]

\* The variables have their types; no more tasks wait than the queue holds.
TypeOK ==
    /\ conv \in {"none", "live", "deleted"}
    /\ size \in Nat /\ asked \subseteq 1 .. size /\ gone \in 0 .. size
    /\ summary \in Summaries /\ lock \in Runners \cup {Nobody}
    /\ queue \in [Processes -> 0 .. Capacity]
    /\ pc \in [Chats -> {"idle", "find", "create", "insert", "count", "run"}]
    /\ role \in [Chats -> {"user", "assistant"}]
    /\ step \in [Runners -> {"idle", "lock", "summary", "turns", "generate",
                             "release"}]
    /\ job \in [Runners -> Summaries]
    /\ deleting \in {"no", "messages", "summaries", "done"}
    /\ faults \subseteq Faults /\ gap \in BOOLEAN /\ belated \subseteq Chats
    /\ lapsed \subseteq Runners

Init ==
    /\ conv = "none" /\ size = 0 /\ asked = {} /\ gone = 0
    /\ summary = NoSummary /\ lock = Nobody
    /\ queue = [p \in Processes |-> 0]
    /\ pc = [c \in Chats |-> "idle"] /\ role = [c \in Chats |-> "user"]
    /\ step = [r \in Runners |-> "idle"] /\ job = [r \in Runners |-> NoSummary]
    /\ deleting = "no" /\ faults = {} /\ gap = FALSE
    /\ belated = {} /\ lapsed = {}

Fault(f) == /\ f \in Faults \ faults /\ Cardinality(faults) < MaxFaults
            /\ faults' = faults \cup {f}
Goto(c, from, to) == pc[c] = from /\ pc' = [pc EXCEPT ![c] = to]
Go(r, from, to) == step[r] = from /\ step' = [step EXCEPT ![r] = to]

\* The k last messages of a set.
Recent(S, k) == {i \in S : Cardinality({j \in S : j > i}) < k}

------------------------------------------------------------------------------
(* AppendMessage: find the conversation, create it if need be, insert.      *)

NotAppending == UNCHANGED <<compression, queue, deleting, gap>>

Ask(c) ==
    /\ Goto(c, "idle", "find") /\ Cardinality(asked) < MaxTurns
    /\ role' = [role EXCEPT ![c] = "user"]
    /\ belated' = IF conv = "deleted" THEN belated \cup {c} ELSE belated \ {c}
    /\ \/ (\A d \in Chats : pc[d] = "idle") /\ UNCHANGED faults
       \/ Fault("overlap")
    /\ UNCHANGED <<conv, messages>> /\ NotAppending

\* After the question the pipeline goes on, whether it was stored or not: to an
\* answer, or to none.
Appended(c) ==
    IF role[c] = "user"
    THEN \/ role' = [role EXCEPT ![c] = "assistant"] /\ Goto(c, pc[c], "find")
         \/ Goto(c, pc[c], "idle") /\ UNCHANGED role
    ELSE Goto(c, pc[c], "idle") /\ UNCHANGED role

Find(c) ==
    /\ Goto(c, "find", IF conv = "live" THEN "insert" ELSE "create")
    /\ UNCHANGED <<conv, messages, role, belated, faults>> /\ NotAppending

\* Mutant: a deleted row is no obstacle.
CreateAgain(c) ==
    /\ Goto(c, "create", "insert") /\ conv' = "live"
    /\ UNCHANGED <<role, messages, belated, faults>> /\ NotAppending

\* The unique index counts deleted rows too.
Create(c) ==
    /\ pc[c] = "create"
    /\ \/ conv = "none" /\ Goto(c, "create", "insert") /\ conv' = "live"
          /\ UNCHANGED role
       \/ conv # "none" /\ Appended(c) /\ UNCHANGED conv
    /\ UNCHANGED <<messages, belated, faults>> /\ NotAppending

\* An answer that is stored may call for a summary.
Insert(c) ==
    /\ pc[c] = "insert" /\ size' = size + 1
    /\ IF role[c] = "user"
       THEN Appended(c) /\ asked' = asked \cup {size + 1}
       ELSE Goto(c, "insert", "count") /\ UNCHANGED <<role, asked>>
    /\ UNCHANGED <<conv, gone, belated, faults>> /\ NotAppending

InsertFails(c) == /\ pc[c] \in {"find", "insert"} /\ Appended(c) /\ Fault("error")
                  /\ UNCHANGED <<conv, messages, belated>> /\ NotAppending

------------------------------------------------------------------------------
(* maybeUpdateSummary and NewSummaryTaskRunner.                             *)

Due == Cardinality(asked \cap Live) >= Start

\* Mutant: the queue has no end.
EnqueueAlways(c) == /\ queue' = [queue EXCEPT ![Home[c]] = @ + 1]
                    /\ Goto(c, "count", "idle") /\ UNCHANGED step

\* A full queue makes the caller run the task.
Enqueue(c) ==
    \/ /\ queue[Home[c]] < Capacity
       /\ queue' = [queue EXCEPT ![Home[c]] = @ + 1]
       /\ Goto(c, "count", "idle") /\ UNCHANGED step
    \/ /\ queue[Home[c]] = Capacity /\ Goto(c, "count", "run")
       /\ Go(c, "idle", "lock") /\ UNCHANGED queue

\* If CountUserMessages fails, the answer is stored and no task is started.
MaybeUpdateSummary(c) ==
    /\ pc[c] = "count"
    /\ \/ Due /\ Enqueue(c) /\ UNCHANGED <<faults, gap>>
       \/ ~Due /\ Goto(c, "count", "idle") /\ UNCHANGED <<queue, step, faults, gap>>
       \/ /\ Goto(c, "count", "idle") /\ Fault("error") /\ gap' = TRUE
          /\ UNCHANGED <<queue, step>>
    /\ UNCHANGED <<conv, messages, role, belated, summary, lock, job, lapsed,
                   deleting>>

\* The worker takes the next task.
Take(p) ==
    /\ queue[p] > 0 /\ queue' = [queue EXCEPT ![p] = @ - 1]
    /\ Go(p, "idle", "lock")
    /\ UNCHANGED <<chat, summary, lock, job, lapsed, deleting, faults, gap>>

------------------------------------------------------------------------------
(* runSummaryCompression: RunWithLock around doSummaryCompression.          *)

\* A chat that runs a task itself goes on when it is over.
Over(r) == /\ step' = [step EXCEPT ![r] = "idle"]
           /\ job' = [job EXCEPT ![r] = NoSummary] /\ lapsed' = lapsed \ {r}
           /\ pc' = IF r \in Chats THEN [pc EXCEPT ![r] = "idle"] ELSE pc
           /\ UNCHANGED <<conv, messages, role, belated>>
Task == UNCHANGED <<chat, queue, deleting>>

\* Mutant: SET without NX.
AcquireAnyway(r) == /\ lock' = r /\ Go(r, "lock", "summary") /\ gap' = FALSE
                    /\ UNCHANGED <<summary, job, lapsed, chat, queue, deleting, faults>>

\* SETNX.  A busy lock is an error, and the task is given up; so it is when
\* Redis does not answer, whether it has set the key or not.
Acquire(r) ==
    /\ \/ /\ lock = Nobody /\ lock' = r /\ Go(r, "lock", "summary")
          /\ gap' = FALSE /\ UNCHANGED <<job, lapsed, chat, faults>>
       \/ /\ lock # Nobody /\ step[r] = "lock" /\ Over(r)
          /\ gap' = TRUE /\ UNCHANGED <<lock, faults>>
       \/ /\ step[r] = "lock" /\ Over(r) /\ Fault("error") /\ gap' = TRUE
          /\ lock' \in {lock, IF lock = Nobody THEN r ELSE lock}
    /\ UNCHANGED <<summary, queue, deleting>>

\* A summary that cannot be read counts as none: all is told anew.
LoadLatestSummary(r) ==
    /\ Go(r, "summary", "turns")
    /\ \/ job' = [job EXCEPT ![r] = summary] /\ UNCHANGED faults
       \/ job' = [job EXCEPT ![r] = NoSummary] /\ Fault("error")
    /\ UNCHANGED <<summary, lock, lapsed, gap>> /\ Task

\* loadWindowedHistoryForSummary: the last turns, of which the newer half stays
\* out; nothing to do while the summary reaches into them.  The two queries are
\* one step: between them only a deletion could tell them apart, and it leaves
\* the second one nothing to find.
Turns == Recent(asked \cap Live, Keep)
UpToDate(last) == Turns = {} \/ \E i \in Turns : i <= last
Middle(i, turns) == Cardinality({j \in turns : j > i})
                      = (Cardinality(turns) - 1) \div 2
History(last, cutoff) == {i \in Live : last < i /\ i < cutoff}

Windowed(r, done, previous) ==
    /\ \/ done /\ Go(r, "turns", "release") /\ UNCHANGED job
       \/ /\ ~done /\ step[r] = "turns"
          /\ LET turns == Turns
             IN  \E i \in turns :
                   /\ Middle(i, turns)
                   /\ IF History(job[r].last, i) = {}
                      THEN Go(r, "turns", "release") /\ UNCHANGED job
                      ELSE /\ Go(r, "turns", "generate")
                           /\ job' = [job EXCEPT ![r] =
                                [last |-> i - 1,
                                 covers |-> previous \cup History(@.last, i)]]
    /\ UNCHANGED <<summary, lock, lapsed, faults, gap>> /\ Task

\* Mutants: a summary is made once; the last summary is not told to the model.
LoadWindowedHistoryOnce(r) ==
    Windowed(r, UpToDate(job[r].last) \/ job[r].last > 0, job[r].covers)
LoadWindowedHistoryAlone(r) == Windowed(r, UpToDate(job[r].last), {})

LoadWindowedHistory(r) == Windowed(r, UpToDate(job[r].last), job[r].covers)

\* The model's answer is a new summary, the latest by its id.
Generate(r) ==
    /\ Go(r, "generate", "release") /\ summary' = job[r]
    /\ UNCHANGED <<lock, job, lapsed, faults, gap>> /\ Task

CompressionFails(r) ==
    /\ Go(r, "turns", "release") \/ Go(r, "generate", "release")
    /\ Fault("error") /\ gap' = TRUE
    /\ UNCHANGED <<summary, lock, job, lapsed>> /\ Task

\* Mutant: whoever holds the lock.
ReleaseAny(r) == /\ step[r] = "release" /\ Over(r) /\ lock' = Nobody
                 /\ UNCHANGED <<summary, queue, deleting, faults, gap>>

\* releaseIfStillHeld compares the token.
Release(r) == /\ step[r] = "release" /\ Over(r)
              /\ lock' = IF lock = r THEN Nobody ELSE lock
              /\ UNCHANGED <<summary, queue, deleting, faults, gap>>

Holds(r) == step[r] \notin {"idle", "lock"}

\* The TTL, which outlasts a compression but for a fault.
LockExpires ==
    /\ lock # Nobody /\ lock' = Nobody
    /\ \/ ~Holds(lock) /\ UNCHANGED <<faults, lapsed>>
       \/ Holds(lock) /\ Fault("lapse") /\ lapsed' = lapsed \cup {lock}
    /\ UNCHANGED <<chat, summary, step, job, queue, deleting, gap>>

------------------------------------------------------------------------------
(* DeleteConversation, and crashes.                                         *)

DeleteConversation ==
    /\ \/ /\ deleting = "no" /\ conv = "live" /\ conv' = "deleted"
          /\ deleting' = "messages" /\ Fault("delete") /\ UNCHANGED <<gone, summary>>
       \/ /\ deleting = "messages" /\ gone' = size /\ deleting' = "summaries"
          /\ UNCHANGED <<conv, summary, faults>>
       \/ /\ deleting = "summaries" /\ summary' = NoSummary /\ deleting' = "done"
          /\ UNCHANGED <<conv, gone, faults>>
    /\ UNCHANGED <<size, asked, pc, role, belated, lock, step, job, lapsed,
                   queue, gap>>

\* The tasks of the process are lost with it.
Crash(p) ==
    /\ Fault("crash") /\ gap' = TRUE
    /\ LET lost == {p} \cup {c \in Chats : Home[c] = p}
       IN  /\ pc' = [c \in Chats |-> IF c \in lost THEN "idle" ELSE pc[c]]
           /\ step' = [r \in Runners |-> IF r \in lost THEN "idle" ELSE step[r]]
           /\ job' = [r \in Runners |-> IF r \in lost THEN NoSummary ELSE job[r]]
           /\ lapsed' = lapsed \ lost
    /\ queue' = [queue EXCEPT ![p] = 0]
    /\ UNCHANGED <<conv, messages, role, belated, summary, lock, deleting>>

------------------------------------------------------------------------------
Append(c) == Find(c) \/ Create(c) \/ Insert(c) \/ MaybeUpdateSummary(c)
Compress(r) == \/ Acquire(r) \/ LoadLatestSummary(r) \/ LoadWindowedHistory(r)
               \/ Generate(r) \/ Release(r)

Next == \/ \E c \in Chats : Ask(c) \/ Append(c) \/ InsertFails(c)
        \/ \E r \in Runners : Compress(r) \/ CompressionFails(r)
        \/ \E p \in Processes : Take(p) \/ Crash(p)
        \/ LockExpires \/ DeleteConversation

Spec == Init /\ [][Next]_vars

------------------------------------------------------------------------------
(* Safety                                                                   *)

\* LoadHistory: the latest summary, and the last messages from a question on.
Window == LET recent == Recent(Live, 2 * Keep)
          IN  {i \in recent : \E q \in recent \cap asked : q <= i}
Remembered == Live \subseteq Window \cup summary.covers

\* A summary tells of every message up to its LastMessageID, and of no other,
\* however many processes compress at once.
SummaryIsPrefix ==
    conv = "live" => summary.covers = 1 .. summary.last

\* Two compressions of the conversation run at once only if one has outlasted
\* its lock: the late one does not release the lock of its successor.
OneCompression ==
    \A r, s \in Runners : Holds(r) /\ Holds(s) /\ r # s => {r, s} \cap lapsed # {}

\* With no turn or task under way, the model is told of every message of a long
\* conversation, window and summary leave no gap: unless a task has been given
\* up, or not been started after a failed count, since the last one began.
\* (After a question without an answer they may; so may they after a question
\* that could not be stored, when the window is of one question.)
Settled == /\ \A p \in Processes : queue[p] = 0
           /\ \A r \in Runners : step[r] = "idle"
           /\ \A c \in Chats : pc[c] = "idle"
NothingForgotten ==
    /\ Settled /\ Due /\ size \notin asked
    /\ ~gap /\ faults \cap {"overlap", "lapse", "delete"} = {}
    /\ Keep > 1 \/ "error" \notin faults
    => Remembered

\* The latest summary never tells of less than one before it, whatever fails,
\* crashes or overlaps, as long as compressions end before their lock does: each
\* one reads the questions after the last one has written.
SummaryNeverGoesBack ==
    [][conv' # "deleted" /\ "lapse" \notin faults'
           => summary.last <= summary'.last]_vars

\* A question asked after the deletion does not bring the conversation back.
DeletedStaysGone ==
    [][\A c \in Chats : pc[c] = "insert" /\ size' # size /\ pc'[c] # "insert"
                          => c \notin belated]_vars

=============================================================================
