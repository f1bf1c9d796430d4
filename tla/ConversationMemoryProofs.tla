----------------------- MODULE ConversationMemoryProofs -----------------------
(* Type correctness of ConversationMemory; a compression holds its lock or  *)
(* has outlasted it; a summary tells of a prefix of the conversation, and   *)
(* the next one of no less; a conversation that was deleted takes no more   *)
(* questions; the summary and the window of a calm one leave nothing out.   *)
EXTENDS ConversationMemory, FiniteSetTheorems, TLAPS

\* Whoever compresses holds the lock, or has outlasted it.
LockInv == \A r \in Runners : Holds(r) => lock = r \/ r \in lapsed

\* A question that came after the deletion does not get to the insertion.
BelatedInv ==
    \A c \in belated : conv = "deleted" /\ pc[c] \in {"idle", "find", "create"}

Prefix(s) == s.covers = 1 .. s.last

\* Until the deletion no message is gone, and the latest summary and the ones
\* being made tell of a prefix each.
PrefixInv ==
    conv # "deleted" => /\ gone = 0 /\ deleting = "no"
                        /\ Prefix(summary)
                        /\ \A r \in Runners : Prefix(job[r])

------------------------------------------------------------------------------
(* Type correctness.                                                        *)

\* A summary may be of any message, and stays one while messages are added.
LEMMA SummaryTypes ==
    ASSUME size \in Nat
    PROVE  /\ NoSummary \in Summaries
           /\ size' = size => Summaries' = Summaries
           /\ size' = size + 1 => Summaries \subseteq Summaries'
           /\ \A s \in Summaries : /\ s.last \in 0 .. size
                                   /\ s.covers \subseteq 1 .. size
<1>1. NoSummary \in Summaries
  BY DEF Summaries, NoSummary
<1>2. size' = size => Summaries' = Summaries
  BY DEF Summaries
<1>3. ASSUME size' = size + 1
      PROVE  Summaries \subseteq Summaries'
  <2>1. 0 .. size \subseteq 0 .. size' /\ 1 .. size \subseteq 1 .. size'
    BY <1>3
  <2> QED BY <2>1 DEF Summaries
<1>4. \A s \in Summaries : s.last \in 0 .. size /\ s.covers \subseteq 1 .. size
  BY DEF Summaries
<1> QED BY <1>1, <1>2, <1>3, <1>4

\* What a chat's own steps leave of the types.
LEMMA CompressionKept ==
    ASSUME TypeOK, UNCHANGED <<compression, queue, deleting, gap>>,
           size' \in {size, size + 1}, gone' = gone,
           conv' \in {"none", "live", "deleted"}, asked' \subseteq 1 .. size',
           pc' \in [Chats -> {"idle", "find", "create", "insert", "count", "run"}],
           role' \in [Chats -> {"user", "assistant"}],
           faults' \subseteq Faults, belated' \subseteq Chats
    PROVE  TypeOK'
<1>1. summary \in Summaries' /\ job \in [Runners -> Summaries']
  BY SummaryTypes DEF TypeOK
<1>2. size' \in Nat /\ gone' \in 0 .. size'
  BY DEF TypeOK
<1> QED BY <1>1, <1>2 DEF TypeOK, compression

LEMMA ChatTyped ==
    ASSUME TypeOK, NEW c \in Chats, \/ Ask(c) \/ Find(c) \/ Create(c)
                                    \/ Insert(c) \/ InsertFails(c)
    PROVE  TypeOK'
<1> USE DEF NotAppending, messages, Goto
<1>1. CASE Ask(c)
  <2>1. faults' \subseteq Faults
    BY <1>1 DEF Ask, Fault, TypeOK
  <2> QED BY <1>1, <2>1, CompressionKept DEF Ask, TypeOK
<1>2. CASE Find(c)
  BY <1>2, CompressionKept DEF Find, TypeOK
<1>3. CASE Create(c)
  BY <1>3, CompressionKept DEF Create, Appended, TypeOK
<1>4. CASE Insert(c)
  <2>1. asked' \subseteq 1 .. size'
    <3>1. asked' \subseteq asked \cup {size + 1} /\ size' = size + 1
      BY <1>4 DEF Insert
    <3>2. asked \subseteq 1 .. size /\ size \in Nat
      BY DEF TypeOK
    <3> QED BY <3>1, <3>2
  <2>2. /\ pc' \in [Chats -> {"idle", "find", "create", "insert", "count", "run"}]
        /\ role' \in [Chats -> {"user", "assistant"}]
    BY <1>4 DEF Insert, Appended, TypeOK
  <2> QED BY <1>4, <2>1, <2>2, CompressionKept DEF Insert, TypeOK
<1>5. CASE InsertFails(c)
  BY <1>5, CompressionKept DEF InsertFails, Appended, Fault, TypeOK
<1> QED BY <1>1, <1>2, <1>3, <1>4, <1>5

LEMMA UpdateTyped ==
    ASSUME TypeOK, NEW c \in Chats, MaybeUpdateSummary(c)
    PROVE  TypeOK'
<1>1. c \in Runners /\ Home[c] \in Processes
  BY MemoryAssumption DEF Runners
<1>2. queue' \in [Processes -> 0 .. Capacity]
  BY <1>1, MemoryAssumption DEF MaybeUpdateSummary, Enqueue, TypeOK
<1>3. /\ pc' \in [Chats -> {"idle", "find", "create", "insert", "count", "run"}]
      /\ step' \in [Runners -> {"idle", "lock", "summary", "turns", "generate",
                                "release"}]
  BY <1>1 DEF MaybeUpdateSummary, Enqueue, Goto, Go, TypeOK
<1> QED BY <1>2, <1>3, SummaryTypes DEF MaybeUpdateSummary, Fault, TypeOK, messages

LEMMA OverTyped ==
    ASSUME TypeOK, NEW r \in Runners, Over(r)
    PROVE  /\ pc' \in [Chats -> {"idle", "find", "create", "insert", "count", "run"}]
           /\ step' \in [Runners -> {"idle", "lock", "summary", "turns", "generate",
                                     "release"}]
           /\ job' \in [Runners -> Summaries'] /\ Summaries' = Summaries
           /\ lapsed' \subseteq Runners
  BY SummaryTypes DEF Over, TypeOK, messages

LEMMA CompressTyped ==
    ASSUME TypeOK, NEW r \in Runners, Compress(r) \/ CompressionFails(r)
    PROVE  TypeOK'
<1> USE DEF Task, Go, chat, messages
<1>1. CASE Acquire(r)
  <2>1. CASE Over(r)
    BY <1>1, <2>1, OverTyped DEF Acquire, Fault, TypeOK, Over
  <2>2. CASE ~Over(r)
    BY <1>1, <2>2, SummaryTypes DEF Acquire, TypeOK
  <2> QED BY <2>1, <2>2
<1>2. CASE LoadLatestSummary(r)
  BY <1>2, SummaryTypes DEF LoadLatestSummary, Fault, TypeOK
<1>3. CASE LoadWindowedHistory(r)
  <2>1. job' \in [Runners -> Summaries]
    <3>1. CASE job' = job
      BY <3>1 DEF TypeOK
    <3>2. CASE job' # job
      <4>1. PICK i \in Turns : job' = [job EXCEPT ![r] =
                                 [last |-> i - 1,
                                  covers |-> job[r].covers \cup History(job[r].last, i)]]
        BY <1>3, <3>2 DEF LoadWindowedHistory, Windowed
      <4>2. i - 1 \in 0 .. size
        BY <4>1 DEF Turns, Recent, TypeOK
      <4>3. job[r].covers \cup History(job[r].last, i) \subseteq 1 .. size
        BY SummaryTypes DEF History, Live, TypeOK
      <4>4. [last |-> i - 1, covers |-> job[r].covers \cup History(job[r].last, i)]
              \in Summaries
        BY <4>2, <4>3 DEF Summaries
      <4> QED BY <4>1, <4>4 DEF TypeOK
    <3> QED BY <3>1, <3>2
  <2>2. step' \in [Runners -> {"idle", "lock", "summary", "turns", "generate",
                               "release"}]
    BY <1>3 DEF LoadWindowedHistory, Windowed, TypeOK
  <2>3. UNCHANGED <<chat, queue, deleting, summary, lock, lapsed, faults, gap>>
    BY <1>3 DEF LoadWindowedHistory, Windowed
  <2> QED BY <2>1, <2>2, <2>3, SummaryTypes DEF TypeOK
<1>4. CASE Generate(r)
  BY <1>4, SummaryTypes DEF Generate, TypeOK
<1>5. CASE Release(r)
  BY <1>5, OverTyped DEF Release, Over, TypeOK
<1>6. CASE CompressionFails(r)
  BY <1>6, SummaryTypes DEF CompressionFails, Fault, TypeOK
<1> QED BY <1>1, <1>2, <1>3, <1>4, <1>5, <1>6 DEF Compress

LEMMA WorldTyped ==
    ASSUME TypeOK, \/ \E p \in Processes : Take(p) \/ Crash(p)
                   \/ LockExpires \/ DeleteConversation
    PROVE  TypeOK'
<1> USE DEF chat, messages
<1>1. ASSUME NEW p \in Processes, Take(p)
      PROVE  TypeOK'
  <2>1. p \in Runners
    BY DEF Runners
  <2>2. queue' \in [Processes -> 0 .. Capacity]
    BY <1>1, MemoryAssumption DEF Take, TypeOK
  <2> QED BY <1>1, <2>1, <2>2, SummaryTypes DEF Take, Go, TypeOK
<1>2. ASSUME NEW p \in Processes, Crash(p)
      PROVE  TypeOK'
  <2>1. /\ pc' \in [Chats -> {"idle", "find", "create", "insert", "count", "run"}]
        /\ step' \in [Runners -> {"idle", "lock", "summary", "turns", "generate",
                                  "release"}]
    BY <1>2 DEF Crash, TypeOK
  <2>2. job' \in [Runners -> Summaries'] /\ summary' \in Summaries'
    BY <1>2, SummaryTypes DEF Crash, TypeOK
  <2>3. lapsed' \subseteq Runners /\ queue' \in [Processes -> 0 .. Capacity]
    BY <1>2, MemoryAssumption DEF Crash, TypeOK
  <2>4. /\ UNCHANGED <<conv, size, asked, gone, role, belated, lock, deleting>>
        /\ faults' \subseteq Faults /\ gap' \in BOOLEAN
    BY <1>2 DEF Crash, Fault, TypeOK
  <2> QED BY <2>1, <2>2, <2>3, <2>4 DEF TypeOK
<1>3. CASE LockExpires
  BY <1>3, SummaryTypes DEF LockExpires, Fault, TypeOK
<1>4. CASE DeleteConversation
  BY <1>4, SummaryTypes DEF DeleteConversation, Fault, TypeOK
<1> QED BY <1>1, <1>2, <1>3, <1>4

\* The variables have their types at any time, and no more tasks wait than the
\* queue holds.
THEOREM TypeCorrect == Spec => []TypeOK
<1>1. Init => TypeOK
  <2> SUFFICES ASSUME Init PROVE TypeOK
    OBVIOUS
  <2>1. size = 0 /\ asked = {} /\ gone = 0 /\ 0 \in 0 .. Capacity
    BY MemoryAssumption DEF Init
  <2>2. summary \in Summaries /\ job \in [Runners -> Summaries]
    BY <2>1, SummaryTypes DEF Init
  <2>3. queue \in [Processes -> 0 .. Capacity]
    BY <2>1 DEF Init
  <2>4. size \in Nat /\ asked \subseteq 1 .. size /\ gone \in 0 .. size
    BY <2>1
  <2>5. /\ pc \in [Chats -> {"idle", "find", "create", "insert", "count", "run"}]
        /\ role \in [Chats -> {"user", "assistant"}]
        /\ step \in [Runners -> {"idle", "lock", "summary", "turns", "generate",
                                 "release"}]
    BY DEF Init
  <2> QED BY <2>2, <2>3, <2>4, <2>5 DEF Init, TypeOK
<1>2. TypeOK /\ [Next]_vars => TypeOK'
  <2> SUFFICES ASSUME TypeOK, [Next]_vars PROVE TypeOK'
    OBVIOUS
  <2>1. CASE \E c \in Chats : Ask(c) \/ Append(c) \/ InsertFails(c)
    BY <2>1, ChatTyped, UpdateTyped DEF Append
  <2>2. CASE \E r \in Runners : Compress(r) \/ CompressionFails(r)
    BY <2>2, CompressTyped
  <2>3. CASE (\E p \in Processes : Take(p) \/ Crash(p)) \/ LockExpires
             \/ DeleteConversation
    BY <2>3, WorldTyped
  <2>4. CASE UNCHANGED vars
    BY <2>4, SummaryTypes DEF vars, chat, compression, messages, TypeOK
  <2> QED BY <2>1, <2>2, <2>3, <2>4 DEF Next
<1> QED BY <1>1, <1>2, PTL DEF Spec

------------------------------------------------------------------------------
(* The lock.                                                                *)

LEMMA LockKept ==
    ASSUME TypeOK, LockInv, [Next]_vars
    PROVE  LockInv'
<1> USE DEF LockInv, Holds, compression, Go, Goto
<1>1. ASSUME NEW c \in Chats, Ask(c) \/ Find(c) \/ Create(c) \/ Insert(c)
                              \/ InsertFails(c)
      PROVE  LockInv'
  BY <1>1 DEF Ask, Find, Create, Insert, InsertFails, NotAppending
<1>2. ASSUME NEW c \in Chats, MaybeUpdateSummary(c)
      PROVE  LockInv'
  BY <1>2 DEF MaybeUpdateSummary, Enqueue, TypeOK
<1>3. ASSUME NEW r \in Runners, Acquire(r)
      PROVE  LockInv'
  BY <1>3, MemoryAssumption DEF Acquire, Over, TypeOK
<1>4. ASSUME NEW r \in Runners, \/ LoadLatestSummary(r) \/ LoadWindowedHistory(r)
                                \/ Generate(r) \/ CompressionFails(r)
      PROVE  LockInv'
  BY <1>4 DEF LoadLatestSummary, LoadWindowedHistory, Windowed, Generate,
              CompressionFails, TypeOK
<1>5. ASSUME NEW r \in Runners, Release(r)
      PROVE  LockInv'
  BY <1>5 DEF Release, Over, TypeOK
<1>6. ASSUME NEW p \in Processes, Take(p)
      PROVE  LockInv'
  BY <1>6 DEF Take, TypeOK, Runners
<1>7. ASSUME NEW p \in Processes, Crash(p)
      PROVE  LockInv'
  BY <1>7 DEF Crash, TypeOK
<1>8. CASE LockExpires
  BY <1>8, MemoryAssumption DEF LockExpires, TypeOK
<1>9. CASE DeleteConversation
  BY <1>9 DEF DeleteConversation
<1>10. CASE UNCHANGED vars
  BY <1>10 DEF vars
<1> QED BY <1>1, <1>2, <1>3, <1>4, <1>5, <1>6, <1>7, <1>8, <1>9, <1>10
        DEF Next, Append, Compress

LEMMA LockHeld == Spec => []LockInv
<1>1. Init => LockInv
  BY DEF Init, LockInv, Holds
<1> QED BY <1>1, LockKept, TypeCorrect, PTL DEF Spec

\* Two compressions of the conversation run at once only if one has outlasted
\* its lock: the token keeps a late one from releasing its successor's lock.
THEOREM CompressionIsExclusive == Spec => []OneCompression
<1>1. LockInv => OneCompression
  BY DEF LockInv, OneCompression
<1> QED BY <1>1, LockHeld, PTL

------------------------------------------------------------------------------
(* Deleted conversations.                                                   *)

LEMMA BelatedKept ==
    ASSUME TypeOK, BelatedInv, [Next]_vars
    PROVE  BelatedInv' /\ (\A c \in Chats : pc[c] = "insert" => c \notin belated)
<1> USE DEF BelatedInv, Goto
<1>1. \A c \in Chats : pc[c] = "insert" => c \notin belated
  OBVIOUS
<1>2. ASSUME NEW c \in Chats, Ask(c)
      PROVE  BelatedInv'
  BY <1>2 DEF Ask, TypeOK, messages
<1>3. ASSUME NEW c \in Chats, Find(c) \/ Insert(c) \/ InsertFails(c)
      PROVE  BelatedInv'
  BY <1>3 DEF Find, Insert, InsertFails, Appended, TypeOK, messages
<1>4. ASSUME NEW c \in Chats, Create(c)
      PROVE  BelatedInv'
  BY <1>4 DEF Create, Appended, TypeOK, messages
<1>5. ASSUME NEW c \in Chats, MaybeUpdateSummary(c)
      PROVE  BelatedInv'
  BY <1>5 DEF MaybeUpdateSummary, Enqueue, TypeOK, messages
<1>6. ASSUME NEW r \in Runners, Acquire(r) \/ Release(r)
      PROVE  BelatedInv'
  BY <1>6 DEF Acquire, Release, Over, TypeOK, chat, messages
<1>7. ASSUME NEW r \in Runners, \/ LoadLatestSummary(r) \/ LoadWindowedHistory(r)
                                \/ Generate(r) \/ CompressionFails(r)
      PROVE  BelatedInv'
  BY <1>7 DEF LoadLatestSummary, LoadWindowedHistory, Windowed, Generate,
              CompressionFails, Task, chat
<1>8. ASSUME NEW p \in Processes, Take(p) \/ Crash(p)
      PROVE  BelatedInv'
  BY <1>8 DEF Take, Crash, TypeOK, chat
<1>9. CASE LockExpires \/ UNCHANGED vars
  BY <1>9 DEF LockExpires, vars, chat
<1>10. CASE DeleteConversation
  BY <1>10 DEF DeleteConversation
<1> QED BY <1>1, <1>2, <1>3, <1>4, <1>5, <1>6, <1>7, <1>8, <1>9, <1>10
        DEF Next, Append, Compress

\* No question that is asked after the deletion is stored: neither finding the
\* conversation nor creating it again lets it pass.
THEOREM DeletedConversationStaysGone == Spec => DeletedStaysGone
<1>1. Init => BelatedInv
  BY DEF Init, BelatedInv
<1>2. BelatedInv /\ TypeOK /\ [Next]_vars
      => /\ BelatedInv'
         /\ [\A c \in Chats : pc[c] = "insert" /\ size' # size /\ pc'[c] # "insert"
                                => c \notin belated]_vars
  BY BelatedKept
<1> QED BY <1>1, <1>2, TypeCorrect, PTL DEF Spec, DeletedStaysGone

------------------------------------------------------------------------------
(* Summaries.                                                               *)

LEMMA WindowedPrefix ==
    ASSUME TypeOK, NEW r \in Runners, LoadWindowedHistory(r), Prefix(job[r]), gone = 0
    PROVE  Prefix(job'[r])
<1>1. CASE job' = job
  BY <1>1 DEF Prefix
<1>2. CASE job' # job
  <2>1. PICK i \in Turns :
          /\ ~UpToDate(job[r].last)
          /\ job' = [job EXCEPT ![r] =
                       [last |-> i - 1,
                        covers |-> job[r].covers \cup History(job[r].last, i)]]
    BY <1>2 DEF LoadWindowedHistory, Windowed
  <2>2. job[r].last \in Nat /\ i \in 1 .. size /\ size \in Nat
    <3>1. job[r] \in Summaries /\ size \in Nat
      BY DEF TypeOK
    <3>2. job[r].last \in 0 .. size
      BY <3>1, SummaryTypes
    <3>3. i \in 1 .. size
      BY DEF Turns, Recent, TypeOK
    <3> QED BY <3>1, <3>2, <3>3
  <2>3. job[r].last < i
    BY <2>1, <2>2 DEF UpToDate
  <2>4. History(job[r].last, i) = job[r].last + 1 .. i - 1
    BY <2>2 DEF History, Live
  <2>5. (1 .. job[r].last) \cup (job[r].last + 1 .. i - 1) = 1 .. i - 1
    BY <2>2, <2>3
  <2>6. job'[r] = [last |-> i - 1,
                   covers |-> job[r].covers \cup History(job[r].last, i)]
    BY <2>1 DEF TypeOK
  <2> QED BY <2>4, <2>5, <2>6 DEF Prefix
<1> QED BY <1>1, <1>2

LEMMA PrefixKept ==
    ASSUME TypeOK, PrefixInv, [Next]_vars
    PROVE  PrefixInv'
<1> SUFFICES ASSUME conv' # "deleted"
             PROVE  /\ gone' = 0 /\ deleting' = "no" /\ Prefix(summary')
                    /\ \A r \in Runners : Prefix(job'[r])
  BY DEF PrefixInv, Prefix
<1> USE DEF compression, messages, chat
<1>0. Prefix(NoSummary)
  BY DEF Prefix, NoSummary
<1>1. ASSUME conv # "deleted"
      PROVE  /\ gone = 0 /\ deleting = "no" /\ Prefix(summary)
             /\ \A r \in Runners : Prefix(job[r])
  BY <1>1 DEF PrefixInv
<1>2. ASSUME NEW c \in Chats, \/ Ask(c) \/ Find(c) \/ Create(c) \/ Insert(c)
                              \/ InsertFails(c) \/ MaybeUpdateSummary(c)
      PROVE  UNCHANGED <<gone, deleting, summary, job>> /\ conv # "deleted"
  BY <1>2 DEF Ask, Find, Create, Insert, InsertFails, MaybeUpdateSummary, Enqueue,
              NotAppending
<1>3. ASSUME NEW r \in Runners, Acquire(r) \/ Release(r)
      PROVE  /\ UNCHANGED <<gone, deleting, summary>> /\ conv # "deleted"
             /\ \A s \in Runners : job'[s] = job[s] \/ job'[s] = NoSummary
  BY <1>3 DEF Acquire, Release, Over, TypeOK
<1>4. ASSUME NEW r \in Runners, LoadLatestSummary(r)
      PROVE  /\ UNCHANGED <<gone, deleting, summary>> /\ conv # "deleted"
             /\ \A s \in Runners : job'[s] \in {job[s], summary, NoSummary}
  BY <1>4 DEF LoadLatestSummary, Task, TypeOK
<1>5. ASSUME NEW r \in Runners, LoadWindowedHistory(r)
      PROVE  /\ UNCHANGED <<gone, deleting, summary>> /\ conv # "deleted"
             /\ \A s \in Runners \ {r} : job'[s] = job[s]
  BY <1>5 DEF LoadWindowedHistory, Windowed, Task, TypeOK
<1>6. ASSUME NEW r \in Runners, Generate(r) \/ CompressionFails(r)
      PROVE  /\ UNCHANGED <<gone, deleting, job>> /\ conv # "deleted"
             /\ summary' = summary \/ summary' = job[r]
  BY <1>6 DEF Generate, CompressionFails, Task
<1>7. ASSUME NEW p \in Processes, Take(p) \/ Crash(p)
      PROVE  /\ UNCHANGED <<gone, deleting, summary>> /\ conv # "deleted"
             /\ \A s \in Runners : job'[s] = job[s] \/ job'[s] = NoSummary
  BY <1>7 DEF Take, Crash, TypeOK
<1>8. CASE LockExpires \/ UNCHANGED vars
  BY <1>1, <1>8 DEF LockExpires, vars
<1>9. CASE DeleteConversation
  BY <1>1, <1>9 DEF DeleteConversation
<1>10. ASSUME NEW r \in Runners, LoadWindowedHistory(r)
       PROVE  /\ gone' = 0 /\ deleting' = "no" /\ Prefix(summary')
              /\ \A s \in Runners : Prefix(job'[s])
  BY <1>1, <1>5, <1>10, WindowedPrefix
<1>11. CASE \E c \in Chats : Ask(c) \/ Append(c) \/ InsertFails(c)
  BY <1>1, <1>2, <1>11 DEF Append
<1>12. CASE \E r \in Runners : Compress(r) \/ CompressionFails(r)
  BY <1>0, <1>1, <1>3, <1>4, <1>6, <1>10, <1>12 DEF Compress
<1>13. CASE \E p \in Processes : Take(p) \/ Crash(p)
  BY <1>0, <1>1, <1>7, <1>13
<1> QED BY <1>8, <1>9, <1>11, <1>12, <1>13 DEF Next

\* The summary of a live conversation tells of every message up to its
\* LastMessageID and of no other, however many processes compress at once and
\* whatever fails.
THEOREM SummariesArePrefixes == Spec => []SummaryIsPrefix
<1>1. Init => PrefixInv
  BY DEF Init, PrefixInv, Prefix, NoSummary
<1>2. PrefixInv => SummaryIsPrefix
  BY DEF PrefixInv, Prefix, SummaryIsPrefix
<1> QED BY <1>1, <1>2, PrefixKept, TypeCorrect, PTL DEF Spec

------------------------------------------------------------------------------
(* Nothing is forgotten.                                                    *)

Calm == faults \cap {"overlap", "lapse", "delete"} = {}

\* In a calm conversation one chat at most is at work, a compression of a chat
\* is one the chat waits for, and only the first message creates the row.
PaceInv ==
    Calm => /\ conv # "deleted" /\ lapsed = {}
            /\ \A c, d \in Chats : pc[c] # "idle" /\ pc[d] # "idle" => c = d
            /\ \A c \in Chats : /\ pc[c] = "create" => conv = "none"
                                /\ step[c] # "idle" => pc[c] = "run"

\* No fault is forgotten.
LEMMA FaultsStay ==
    ASSUME [Next]_vars
    PROVE  faults \subseteq faults' /\ (Calm' => Calm)
  BY DEF Next, vars, Ask, Append, Find, Create, Insert, InsertFails,
         MaybeUpdateSummary, Compress, Acquire, LoadLatestSummary,
         LoadWindowedHistory, Windowed, Generate, Release, CompressionFails, Take,
         Crash, LockExpires, DeleteConversation, Fault, Calm, NotAppending

LEMMA PaceKept ==
    ASSUME TypeOK, PrefixInv, PaceInv, [Next]_vars, Calm'
    PROVE  PaceInv'
<1> USE DEF Calm, Goto, Go, compression, messages, chat
<1>0. Calm
  BY FaultsStay
<1>1. /\ conv # "deleted" /\ lapsed = {} /\ deleting = "no"
      /\ \A c, d \in Chats : pc[c] # "idle" /\ pc[d] # "idle" => c = d
      /\ \A c \in Chats : /\ pc[c] = "create" => conv = "none"
                          /\ step[c] # "idle" => pc[c] = "run"
  BY <1>0 DEF PaceInv, PrefixInv
<1> USE DEF PaceInv
<1>2. ASSUME NEW c \in Chats, Ask(c)
      PROVE  /\ UNCHANGED <<conv, step, lapsed>>
             /\ \A d \in Chats : pc[d] = "idle"
             /\ pc' = [pc EXCEPT ![c] = "find"]
  BY <1>2 DEF Ask, NotAppending, Fault
<1>3. ASSUME NEW c \in Chats, Ask(c)
      PROVE  PaceInv'
  BY <1>1, <1>2, <1>3 DEF TypeOK
<1>4. ASSUME NEW c \in Chats, Find(c) \/ Create(c) \/ Insert(c) \/ InsertFails(c)
      PROVE  PaceInv'
  <2>1. /\ UNCHANGED <<step, lapsed>> /\ pc[c] \notin {"idle", "run"}
        /\ \E x \in {"find", "insert", "create", "idle", "count"} :
             /\ pc' = [pc EXCEPT ![c] = x]
             /\ x = "create" => conv # "live" /\ conv' = conv
        /\ conv' \in {conv, "live"}
    BY <1>4 DEF Find, Create, Insert, InsertFails, Appended, NotAppending
  <2>2. \A d \in Chats : pc[d] # "idle" => d = c
    BY <1>1, <2>1
  <2>3. \A d \in Chats : d # c => pc'[d] = "idle"
    BY <2>1, <2>2 DEF TypeOK
  <2>4. /\ pc'[c] = "create" => conv' = "none"
        /\ step'[c] = "idle"
    BY <1>1, <2>1 DEF TypeOK
  <2>5. \A d \in Chats : d # c => step'[d] = "idle"
    BY <1>1, <2>1, <2>2
  <2> QED BY <1>1, <2>1, <2>3, <2>4, <2>5
<1>5. ASSUME NEW c \in Chats, MaybeUpdateSummary(c)
      PROVE  PaceInv'
  BY <1>1, <1>5 DEF MaybeUpdateSummary, Enqueue, TypeOK, Runners
<1>6. ASSUME NEW r \in Runners, Acquire(r) \/ Release(r)
      PROVE  PaceInv'
  BY <1>1, <1>6 DEF Acquire, Release, Over, TypeOK, Runners
<1>7. ASSUME NEW r \in Runners, \/ LoadLatestSummary(r) \/ LoadWindowedHistory(r)
                                \/ Generate(r) \/ CompressionFails(r)
      PROVE  PaceInv'
  <2>1. /\ UNCHANGED <<conv, pc, lapsed>> /\ step[r] # "idle"
        /\ \E x \in {"turns", "release", "generate"} : step' = [step EXCEPT ![r] = x]
    BY <1>7 DEF LoadLatestSummary, LoadWindowedHistory, Windowed, Generate,
                CompressionFails, Task
  <2> QED BY <1>1, <2>1 DEF TypeOK, Runners
<1>8. ASSUME NEW p \in Processes, Take(p)
      PROVE  PaceInv'
  <2>1. UNCHANGED <<conv, pc, lapsed>> /\ step' = [step EXCEPT ![p] = "lock"]
    BY <1>8 DEF Take
  <2>2. p \notin Chats
    BY MemoryAssumption
  <2> QED BY <1>1, <2>1, <2>2 DEF TypeOK
<1>9. ASSUME NEW p \in Processes, Crash(p)
      PROVE  PaceInv'
  <2> DEFINE lost == {p} \cup {c \in Chats : Home[c] = p}
  <2>1. /\ pc' = [c \in Chats |-> IF c \in lost THEN "idle" ELSE pc[c]]
        /\ step' = [r \in Runners |-> IF r \in lost THEN "idle" ELSE step[r]]
        /\ lapsed' = lapsed \ lost /\ conv' = conv
    BY <1>9 DEF Crash
  <2> HIDE DEF lost
  <2> QED BY <1>1, <2>1 DEF Runners
<1>10. CASE LockExpires
  BY <1>1, <1>10 DEF LockExpires, Fault
<1>11. CASE DeleteConversation
  BY <1>1, <1>11 DEF DeleteConversation, Fault
<1>12. CASE UNCHANGED vars
  BY <1>1, <1>12 DEF vars
<1> QED BY <1>3, <1>4, <1>5, <1>6, <1>7, <1>8, <1>9, <1>10, <1>11, <1>12
        DEF Next, Append, Compress

\* The answers that follow no question: one at most, after an error.
Alone == {i \in 1 .. size \ asked : i - 1 \notin asked}

\* In a calm conversation a question is next to its answer, but for one that
\* could not be stored.
PairInv ==
    Calm => /\ \A i, j \in Alone : i = j
            /\ Alone # {} => "error" \in faults
            /\ \A c \in Chats :
                 pc[c] \in {"find", "create", "insert"} /\ role[c] = "assistant"
                 => size \in asked \/ ("error" \in faults /\ Alone = {})

\* What an insertion makes of the answers that follow no question.
LEMMA AloneInserted ==
    ASSUME TypeOK, size' = size + 1
    PROVE  /\ asked' = asked \cup {size + 1} => Alone' = Alone
           /\ asked' = asked /\ size \in asked => Alone' = Alone
           /\ asked' = asked /\ size \notin asked => Alone' = Alone \cup {size + 1}
<1>1. size \in Nat /\ asked \subseteq 1 .. size
  BY DEF TypeOK
<1>2. 1 .. size' = (1 .. size) \cup {size + 1} /\ size + 1 \notin asked
  BY <1>1
<1>3. ASSUME asked' = asked \cup {size + 1}
      PROVE  Alone' = Alone
  BY <1>1, <1>2, <1>3 DEF Alone
<1>4. ASSUME asked' = asked
      PROVE  Alone' = Alone \cup {i \in {size + 1} : i - 1 \notin asked}
  BY <1>1, <1>2, <1>4 DEF Alone
<1>5. {i \in {size + 1} : i - 1 \notin asked}
        = IF size \in asked THEN {} ELSE {size + 1}
  BY <1>1
<1> QED BY <1>3, <1>4, <1>5

LEMMA PairKept ==
    ASSUME TypeOK, PrefixInv, PaceInv, PairInv, [Next]_vars, Calm'
    PROVE  PairInv'
<1> USE DEF Goto, messages, chat
<1>0. Calm /\ faults \subseteq faults'
  BY FaultsStay
<1>1. /\ \A c, d \in Chats : pc[c] # "idle" /\ pc[d] # "idle" => c = d
      /\ \A c \in Chats : pc[c] = "create" => conv = "none"
  BY <1>0 DEF PaceInv
<1>2. /\ \A i, j \in Alone : i = j
      /\ Alone # {} => "error" \in faults
      /\ \A c \in Chats :
           pc[c] \in {"find", "create", "insert"} /\ role[c] = "assistant"
           => size \in asked \/ ("error" \in faults /\ Alone = {})
  BY <1>0 DEF PairInv
<1>3. UNCHANGED <<size, asked>> => Alone' = Alone
  BY DEF Alone
<1>4. ASSUME UNCHANGED <<size, asked, role>>,
             \A c \in Chats : pc'[c] = pc[c] \/ pc'[c] \in {"idle", "run"}
      PROVE  PairInv'
  BY <1>0, <1>2, <1>3, <1>4 DEF PairInv
<1>5. ASSUME NEW c \in Chats, Ask(c)
      PROVE  PairInv'
  <2>1. /\ UNCHANGED <<size, asked>> /\ pc' = [pc EXCEPT ![c] = "find"]
        /\ role' = [role EXCEPT ![c] = "user"]
    BY <1>5 DEF Ask
  <2> QED BY <1>0, <1>2, <1>3, <2>1 DEF PairInv, TypeOK
<1>6. ASSUME NEW c \in Chats, Find(c) \/ Create(c)
      PROVE  PairInv'
  <2>1. /\ UNCHANGED <<size, asked, role>> /\ pc[c] \in {"find", "create"}
        /\ \E x \in {"insert", "create"} : pc' = [pc EXCEPT ![c] = x]
    BY <1>1, <1>6 DEF Find, Create
  <2> QED BY <1>0, <1>2, <1>3, <2>1 DEF PairInv, TypeOK
<1>7. ASSUME NEW c \in Chats, InsertFails(c)
      PROVE  PairInv'
  <2>1. UNCHANGED <<size, asked>> /\ "error" \notin faults /\ "error" \in faults'
    BY <1>7 DEF InsertFails, Fault
  <2> QED BY <1>2, <1>3, <2>1 DEF PairInv
<1>8. ASSUME NEW c \in Chats, Insert(c)
      PROVE  PairInv'
  <2>1. /\ pc[c] = "insert" /\ size' = size + 1 /\ size \in Nat
        /\ \A d \in Chats : d # c => pc[d] = "idle"
    BY <1>1, <1>8 DEF Insert, TypeOK
  <2>2. CASE role[c] = "user"
    <3>1. asked' = asked \cup {size + 1} /\ Alone' = Alone
      BY <1>8, <2>2, AloneInserted DEF Insert
    <3>2. size' \in asked'
      BY <2>1, <3>1
    <3> QED BY <1>0, <1>2, <3>1, <3>2 DEF PairInv
  <2>3. CASE role[c] # "user"
    <3>1. /\ asked' = asked /\ pc' = [pc EXCEPT ![c] = "count"]
          /\ role[c] = "assistant"
      BY <1>8, <2>3 DEF Insert, TypeOK
    <3>2. \A d \in Chats : pc'[d] \in {"idle", "count"}
      BY <2>1, <3>1 DEF TypeOK
    <3>3. Alone' = Alone \/ ("error" \in faults /\ Alone' = {size + 1})
      BY <1>2, <2>1, <3>1, AloneInserted
    <3> QED BY <1>0, <1>2, <3>2, <3>3 DEF PairInv
  <2> QED BY <2>2, <2>3
<1>9. ASSUME NEW c \in Chats, MaybeUpdateSummary(c)
      PROVE  PairInv'
  BY <1>4, <1>9 DEF MaybeUpdateSummary, Enqueue, TypeOK
<1>10. ASSUME NEW r \in Runners, Acquire(r) \/ Release(r)
       PROVE  PairInv'
  BY <1>4, <1>10 DEF Acquire, Release, Over, TypeOK
<1>11. ASSUME NEW r \in Runners, \/ LoadLatestSummary(r) \/ LoadWindowedHistory(r)
                                 \/ Generate(r) \/ CompressionFails(r)
       PROVE  PairInv'
  BY <1>4, <1>11 DEF LoadLatestSummary, LoadWindowedHistory, Windowed, Generate,
                     CompressionFails, Task
<1>12. ASSUME NEW p \in Processes, Take(p) \/ Crash(p)
       PROVE  PairInv'
  BY <1>4, <1>12 DEF Take, Crash, TypeOK
<1>13. CASE LockExpires \/ DeleteConversation \/ UNCHANGED vars
  BY <1>4, <1>13 DEF LockExpires, DeleteConversation, vars
<1> QED BY <1>5, <1>6, <1>7, <1>8, <1>9, <1>10, <1>11, <1>12, <1>13
        DEF Next, Append, Compress

\* There is a last question, once there is one.
Newest == asked = {} \/ \E m \in asked : \A q \in asked : q <= m

LEMMA MessagesMove ==
    ASSUME TypeOK, [Next]_vars
    PROVE  \/ UNCHANGED <<size, asked>>
           \/ size' = size + 1 /\ asked' \in {asked, asked \cup {size + 1}}
  BY DEF Next, vars, chat, messages, Ask, Append, Find, Create, Insert, InsertFails,
         MaybeUpdateSummary, Compress, Acquire, LoadLatestSummary,
         LoadWindowedHistory, Windowed, Generate, Release, Over, CompressionFails,
         Take, Crash, LockExpires, DeleteConversation, Task

LEMMA NewestKept ==
    ASSUME TypeOK, Newest, [Next]_vars
    PROVE  Newest'
<1>1. CASE asked' = asked
  BY <1>1 DEF Newest
<1>2. CASE asked' = asked \cup {size + 1}
  <2>1. size \in Nat /\ asked \subseteq 1 .. size
    BY DEF TypeOK
  <2>2. \A q \in asked' : q <= size + 1
    BY <1>2, <2>1
  <2> QED BY <1>2, <2>2 DEF Newest
<1> QED BY <1>1, <1>2, MessagesMove

\* After what a summary tells of comes a question.
Marked(s) == s.last = 0 \/ s.last + 1 \in asked

\* In a calm conversation this is so of every summary, and one that is being
\* read is the latest, or none.
MarkInv ==
    Calm => /\ Marked(summary)
            /\ \A r \in Runners : Marked(job[r])
            /\ \A r \in Runners : step[r] = "turns" => job[r].last <= summary.last

\* In a calm conversation no two compressions run at once.
LEMMA CalmIsExclusive ==
    ASSUME TypeOK, LockInv, PaceInv, Calm, NEW r \in Runners, Holds(r)
    PROVE  \A s \in Runners : Holds(s) => s = r
  BY DEF LockInv, PaceInv

LEMMA MarkKept ==
    ASSUME TypeOK, LockInv, PrefixInv, PaceInv, MarkInv, [Next]_vars, Calm'
    PROVE  MarkInv'
<1> USE DEF Go, chat, messages, compression
<1>0. Calm
  BY FaultsStay
<1>1. /\ Marked(summary) /\ \A r \in Runners : Marked(job[r])
      /\ \A r \in Runners : step[r] = "turns" => job[r].last <= summary.last
      /\ conv # "deleted" /\ gone = 0 /\ deleting = "no"
  BY <1>0 DEF MarkInv, PaceInv, PrefixInv
<1>2. asked \subseteq asked'
  BY MessagesMove
<1>3. \A s : Marked(s) => s.last = 0 \/ s.last + 1 \in asked'
  BY <1>2 DEF Marked
<1>4. NoSummary.last = 0 /\ summary.last \in Nat
  BY SummaryTypes DEF NoSummary, TypeOK
<1>5. ASSUME NEW c \in Chats, \/ Ask(c) \/ Find(c) \/ Create(c) \/ Insert(c)
                              \/ InsertFails(c)
      PROVE  MarkInv'
  <2>1. UNCHANGED <<summary, job, step>>
    BY <1>5 DEF Ask, Find, Create, Insert, InsertFails, NotAppending
  <2> QED BY <1>1, <1>3, <2>1 DEF MarkInv, Marked
<1>6. ASSUME NEW c \in Chats, MaybeUpdateSummary(c)
      PROVE  MarkInv'
  <2>1. UNCHANGED <<summary, job>>
        /\ \A r \in Runners : step'[r] \in {step[r], "lock"}
    BY <1>6 DEF MaybeUpdateSummary, Enqueue, TypeOK, Runners
  <2> QED BY <1>1, <1>3, <2>1 DEF MarkInv, Marked
<1>7. ASSUME NEW r \in Runners, Acquire(r) \/ Release(r)
      PROVE  MarkInv'
  <2>1. /\ UNCHANGED summary
        /\ \A s \in Runners : /\ job'[s] \in {job[s], NoSummary}
                              /\ step'[s] = "turns" => step[s] = "turns"
    BY <1>7 DEF Acquire, Release, Over, TypeOK
  <2> QED BY <1>1, <1>3, <1>4, <2>1 DEF MarkInv, Marked
<1>8. ASSUME NEW r \in Runners, LoadLatestSummary(r)
      PROVE  MarkInv'
  <2>1. /\ UNCHANGED summary /\ job'[r] \in {summary, NoSummary}
        /\ \A s \in Runners \ {r} : job'[s] = job[s] /\ step'[s] = step[s]
    BY <1>8 DEF LoadLatestSummary, TypeOK
  <2> QED BY <1>1, <1>3, <1>4, <2>1 DEF MarkInv, Marked
<1>9. ASSUME NEW r \in Runners, LoadWindowedHistory(r)
       PROVE  MarkInv'
  <2>1. /\ UNCHANGED summary /\ step'[r] # "turns"
        /\ \A s \in Runners \ {r} : job'[s] = job[s] /\ step'[s] = step[s]
    BY <1>9 DEF LoadWindowedHistory, Windowed, TypeOK
  <2>2. \/ job'[r] = job[r]
        \/ \E i \in Turns : job'[r].last = i - 1
    BY <1>9 DEF LoadWindowedHistory, Windowed, TypeOK
  <2>3. \A i \in Turns : i \in asked /\ i \in Nat
    BY DEF Turns, Recent, TypeOK
  <2>4. job'[r].last = 0 \/ job'[r].last + 1 \in asked'
    BY <1>1, <1>2, <1>3, <2>2, <2>3
  <2> QED BY <1>1, <1>3, <2>1, <2>4 DEF MarkInv, Marked
<1>10. ASSUME NEW r \in Runners, Generate(r)
       PROVE  MarkInv'
  <2>1. /\ summary' = job[r] /\ job' = job /\ step[r] = "generate"
        /\ step' = [step EXCEPT ![r] = "release"]
    BY <1>10 DEF Generate
  <2>2. \A s \in Runners : step[s] = "turns" => s = r
    BY <1>0, <2>1, CalmIsExclusive DEF Holds
  <2>3. \A s \in Runners : step'[s] # "turns"
    BY <2>1, <2>2 DEF TypeOK
  <2> QED BY <1>1, <1>3, <2>1, <2>3 DEF MarkInv, Marked
<1>11. ASSUME NEW r \in Runners, CompressionFails(r)
       PROVE  MarkInv'
  <2>1. /\ UNCHANGED <<summary, job>>
        /\ \A s \in Runners : step'[s] \in {step[s], "release"}
    BY <1>11 DEF CompressionFails, TypeOK
  <2> QED BY <1>1, <1>3, <2>1 DEF MarkInv, Marked
<1>12. ASSUME NEW p \in Processes, Take(p) \/ Crash(p)
       PROVE  MarkInv'
  <2>1. /\ UNCHANGED summary
        /\ \A s \in Runners : /\ job'[s] \in {job[s], NoSummary}
                              /\ step'[s] = "turns"
                                 => step[s] = "turns" /\ job'[s] = job[s]
    BY <1>12 DEF Take, Crash, TypeOK
  <2> QED BY <1>1, <1>3, <1>4, <2>1 DEF MarkInv, Marked
<1>13. CASE LockExpires \/ UNCHANGED vars
  BY <1>1, <1>3, <1>13 DEF LockExpires, vars, MarkInv, Marked
<1>14. CASE DeleteConversation
  BY <1>1, <1>14 DEF DeleteConversation, Calm, Fault
<1> QED BY <1>5, <1>6, <1>7, <1>8, <1>9, <1>10, <1>11, <1>12, <1>13, <1>14
        DEF Next, Append, Compress, MarkInv

\* How many questions came after message t.
Later(t) == Cardinality({q \in asked : q > t})

LEMMA AskedFinite ==
    ASSUME TypeOK
    PROVE  IsFiniteSet(asked) /\ \A S \in SUBSET asked : IsFiniteSet(S)
<1>1. IsFiniteSet(1 .. size) /\ asked \in SUBSET (1 .. size)
  BY FS_Interval DEF TypeOK
<1>2. IsFiniteSet(asked)
  BY <1>1, FS_Subset
<1> QED BY <1>2, FS_Subset

LEMMA LaterFalls ==
    ASSUME TypeOK, NEW t \in Int
    PROVE  /\ Later(t) \in Nat
           /\ \A u \in asked : t < u => Later(u) + 1 <= Later(t)
<1>1. /\ IsFiniteSet({q \in asked : q > t})
      /\ \A u \in asked : IsFiniteSet({q \in asked : q > u})
  BY AskedFinite
<1>2. Later(t) \in Nat
  BY <1>1, FS_CardinalityType DEF Later
<1>3. ASSUME NEW u \in asked, t < u
      PROVE  Later(u) + 1 <= Later(t)
  <2> DEFINE S == {q \in asked : q > u}
             T == {q \in asked : q > t}
  <2>1. asked \subseteq Int
    BY DEF TypeOK
  <2>2. S \cup {u} \in SUBSET T /\ u \notin S
    <3>1. \A q \in S : q \in asked /\ q > u /\ q > t
      BY <1>3, <2>1
    <3>2. u \in T /\ ~(u > u)
      BY <1>3, <2>1
    <3> QED BY <3>1, <3>2
  <2>3. IsFiniteSet(S) /\ IsFiniteSet(T)
    BY <1>1
  <2>4. Cardinality(S \cup {u}) <= Cardinality(T)
    BY <2>2, <2>3, FS_Subset
  <2>5. Cardinality(S \cup {u}) = Cardinality(S) + 1
    BY <2>2, <2>3, FS_AddElement
  <2> QED BY <2>4, <2>5 DEF Later
<1> QED BY <1>2, <1>3

\* Of the questions, the k last are the ones with less than k after them.
LEMMA TurnsAreLast ==
    ASSUME TypeOK, gone = 0
    PROVE  /\ asked \cap Live = asked
           /\ Turns = {i \in asked : Later(i) < Keep}
<1>1. asked \cap Live = asked
  <2>1. asked \subseteq 1 .. size /\ Live = 1 .. size
    BY DEF Live, TypeOK
  <2> QED BY <2>1
<1> QED BY <1>1 DEF Turns, Recent, Later

LEMMA TurnsExist ==
    ASSUME TypeOK, Newest, gone = 0, asked # {}
    PROVE  Turns # {}
<1>1. PICK m \in asked : \A q \in asked : q <= m
  BY DEF Newest
<1>2. {q \in asked : q > m} = {}
  <2>1. asked \subseteq Int
    BY DEF TypeOK
  <2>2. \A q \in asked : ~(q > m)
    BY <1>1, <2>1
  <2> QED BY <2>2
<1>3. Later(m) = 0
  BY <1>2, FS_EmptySet DEF Later
<1> QED BY <1>1, <1>3, TurnsAreLast, MemoryAssumption

\* A summary is good when window and summary leave no gap.
Good(s) == \E t \in asked : t <= s.last + 1 /\ (Later(t) = 0 \/ Later(t) + 1 < Keep)

\* A summary that reaches into the last turns is good.
LEMMA UpToDateIsGood ==
    ASSUME TypeOK, gone = 0, Marked(summary), NEW i \in Turns, i <= summary.last
    PROVE  Good(summary)
<1>1. summary.last \in Nat /\ i \in asked /\ i \in Nat \ {0} /\ Later(i) < Keep
  <2>1. summary.last \in 0 .. size /\ size \in Nat /\ asked \subseteq 1 .. size
    BY SummaryTypes DEF TypeOK
  <2>2. i \in asked /\ Later(i) < Keep
    BY TurnsAreLast
  <2> QED BY <2>1, <2>2
<1>2. summary.last + 1 \in asked /\ i < summary.last + 1
  BY <1>1 DEF Marked
<1>3. Later(summary.last + 1) + 1 <= Later(i) /\ Later(i) \in Nat
      /\ Later(summary.last + 1) \in Nat
  BY <1>1, <1>2, LaterFalls
<1>4. Later(summary.last + 1) + 1 < Keep
  BY <1>1, <1>3, MemoryAssumption
<1> QED BY <1>1, <1>2, <1>4 DEF Good

\* The middle of the last turns is one from which the window can go on.
LEMMA MiddleIsNear ==
    ASSUME TypeOK, gone = 0, NEW i \in Turns, Middle(i, Turns)
    PROVE  Later(i) = 0 \/ Later(i) + 1 < Keep
<1> DEFINE S == {j \in Turns : j > i}
<1>1. /\ i \in asked /\ Later(i) < Keep /\ asked \subseteq Int
      /\ \A j \in Turns : j \in asked /\ Later(j) < Keep
  BY TurnsAreLast DEF TypeOK
<1>2. /\ Later(i) \in Nat
      /\ \A j \in asked : Later(j) \in Nat
      /\ \A j, u \in asked : j < u => Later(u) + 1 <= Later(j)
  BY <1>1, LaterFalls
<1>3. S = {q \in asked : q > i}
  <2>1. ASSUME NEW q \in asked, q > i
        PROVE  q \in Turns
    <3>1. Later(q) + 1 <= Later(i) /\ Later(q) \in Nat
      BY <1>1, <1>2, <2>1
    <3> QED BY <1>1, <1>2, <3>1, TurnsAreLast, MemoryAssumption
  <2> QED BY <1>1, <2>1
<1>4. Later(i) = (Cardinality(Turns) - 1) \div 2
  BY <1>3 DEF Middle, Later
<1>5. ASSUME Later(i) + 1 = Keep
      PROVE  Later(i) = 0
  <2>1. \A j \in Turns : j >= i
    <3> SUFFICES ASSUME NEW j \in Turns, j < i
                 PROVE  FALSE
      BY <1>1
    <3>1. Later(i) + 1 <= Later(j) /\ Later(j) \in Nat
      BY <1>1, <1>2
    <3> QED BY <1>1, <1>2, <1>5, <3>1, MemoryAssumption
  <2>2. Turns = S \cup {i} /\ i \notin S
    <3>1. \A j \in Turns : j = i \/ j > i
      BY <1>1, <2>1
    <3>2. ~(i > i)
      BY <1>1
    <3> QED BY <3>1, <3>2
  <2>3. IsFiniteSet(S) /\ Cardinality(S) = Later(i)
    BY <1>3, AskedFinite DEF Later
  <2>4. Cardinality(S \cup {i}) = Later(i) + 1
    BY <2>2, <2>3, FS_AddElement
  <2>5. Cardinality(Turns) = Later(i) + 1
    BY <2>2, <2>4
  <2>6. Later(i) = Later(i) \div 2
    BY <1>2, <1>4, <2>5
  <2> QED BY <1>2, <2>6
<1> QED BY <1>1, <1>2, <1>5, MemoryAssumption

\* There is a turn or a task on its way to look at the last turns.
Pending == \/ \E c \in Chats : pc[c] = "count"
           \/ \E p \in Processes : queue[p] > 0
           \/ \E r \in Runners : step[r] \in {"lock", "summary", "turns"}

\* In a calm and long conversation, after an answer and with no task given up,
\* somebody is on the way to look, or the latest summary is good, or will be.
GoodInv ==
    Calm /\ ~gap /\ Cardinality(asked) >= Start /\ size \notin asked
    => \/ Pending
       \/ /\ \A r \in Runners : step[r] = "generate" => Good(job[r])
          /\ Good(summary) \/ \E r \in Runners : step[r] = "generate"

\* A look at the last turns leaves a good summary, or one that is being made.
LEMMA LookIsGood ==
    ASSUME TypeOK, LockInv, PrefixInv, PaceInv, MarkInv, Newest,
           Calm, Cardinality(asked) >= Start,
           NEW r \in Runners, LoadWindowedHistory(r)
    PROVE  \/ step' = [step EXCEPT ![r] = "release"] /\ Good(summary)
           \/ step' = [step EXCEPT ![r] = "generate"] /\ Good(job'[r])
<1>1. /\ gone = 0 /\ step[r] = "turns" /\ Marked(summary)
      /\ job[r].last <= summary.last
      /\ asked' = asked /\ job[r].last \in Nat /\ summary.last \in Nat
  <2>1. gone = 0 /\ step[r] = "turns" /\ asked' = asked
    BY DEF PrefixInv, PaceInv, LoadWindowedHistory, Windowed, Go, Task, chat, messages
  <2>2. job[r].last \in 0 .. size /\ summary.last \in 0 .. size /\ size \in Nat
    BY SummaryTypes DEF TypeOK
  <2> QED BY <2>1, <2>2 DEF MarkInv
<1>2. asked # {}
  BY FS_EmptySet, MemoryAssumption
<1>3. \A i \in Turns : i \in asked /\ i \in Nat
  BY DEF Turns, Recent, TypeOK
<1>4. CASE UpToDate(job[r].last)
  <2>1. PICK i \in Turns : i <= job[r].last
    BY <1>1, <1>2, <1>4, TurnsExist DEF UpToDate
  <2>2. i <= summary.last
    BY <1>1, <1>3, <2>1
  <2> QED BY <1>1, <1>4, <2>2, UpToDateIsGood DEF LoadWindowedHistory, Windowed, Go
<1>5. CASE ~UpToDate(job[r].last)
  <2>1. PICK i \in Turns :
          /\ Middle(i, Turns)
          /\ \/ /\ History(job[r].last, i) = {}
                /\ step' = [step EXCEPT ![r] = "release"]
             \/ /\ step' = [step EXCEPT ![r] = "generate"]
                /\ job'[r].last = i - 1
    BY <1>5 DEF LoadWindowedHistory, Windowed, Go, TypeOK
  <2>2. Later(i) = 0 \/ Later(i) + 1 < Keep
    BY <1>1, <2>1, MiddleIsNear
  <2>3. job[r].last < i
    BY <1>1, <1>3, <1>5, <2>1 DEF UpToDate
  <2>4. CASE History(job[r].last, i) = {} /\ step' = [step EXCEPT ![r] = "release"]
    <3>1. job[r].last + 1 >= i
      <4>1. i \in 1 .. size /\ size \in Nat
        BY <1>3 DEF TypeOK
      <4>2. i - 1 > job[r].last => i - 1 \in History(job[r].last, i)
        BY <1>1, <4>1 DEF History, Live
      <4> QED BY <1>1, <2>4, <4>1, <4>2
    <3>2. i <= summary.last + 1
      BY <1>1, <1>3, <3>1
    <3> QED BY <1>3, <2>2, <2>4, <3>2 DEF Good
  <2>5. CASE step' = [step EXCEPT ![r] = "generate"] /\ job'[r].last = i - 1
    <3>1. i \in asked /\ i <= job'[r].last + 1
      BY <1>3, <2>5
    <3> QED BY <2>2, <2>5, <3>1 DEF Good
  <2> QED BY <2>1, <2>4, <2>5
<1> QED BY <1>4, <1>5

LEMMA GoodKept ==
    ASSUME TypeOK, LockInv, PrefixInv, PaceInv, MarkInv, Newest, GoodInv, [Next]_vars,
           TypeOK'
    PROVE  GoodInv'
<1> DEFINE Told == \/ Pending'
                   \/ /\ \A r \in Runners : step'[r] = "generate" => Good(job[r])'
                      /\ \/ Good(summary)'
                         \/ \E r \in Runners : step'[r] = "generate"
<1> SUFFICES ASSUME Calm', ~gap', Cardinality(asked') >= Start, size' \notin asked'
             PROVE  Told
  BY DEF GoodInv
<1> USE DEF Goto, Go, messages, chat, compression
<1>0. Calm
  BY FaultsStay
<1>1. ASSUME UNCHANGED <<size, asked, summary>>, gap = gap',
             \A s \in Runners :
               /\ step[s] = "generate" <=> step'[s] = "generate"
               /\ step'[s] = "generate" => job'[s] = job[s],
             Pending => Pending'
      PROVE  Told
  BY <1>0, <1>1 DEF GoodInv, Good, Later
<1>2. ASSUME NEW c \in Chats, Ask(c) \/ Find(c) \/ Create(c) \/ InsertFails(c)
      PROVE  Told
  <2>1. /\ UNCHANGED <<size, asked, summary, gap, step, job, queue>>
        /\ \A d \in Chats : pc[d] = "count" => pc'[d] = "count"
    BY <1>2 DEF Ask, Find, Create, InsertFails, Appended, NotAppending, TypeOK
  <2> QED BY <1>1, <2>1 DEF Pending
<1>3. ASSUME NEW c \in Chats, Insert(c)
      PROVE  Told
  <2>1. CASE role[c] = "user"
    BY <1>3, <2>1 DEF Insert
  <2>2. CASE role[c] # "user"
    BY <1>3, <2>2 DEF Insert, Pending, TypeOK
  <2> QED BY <2>1, <2>2
<1>4. ASSUME NEW c \in Chats, MaybeUpdateSummary(c)
      PROVE  Told
  <2>1. gone = 0 /\ asked' = asked
    BY <1>0, <1>4 DEF PrefixInv, PaceInv, MaybeUpdateSummary
  <2>2. Due
    BY <2>1, TurnsAreLast DEF Due
  <2>3. Enqueue(c) /\ c \in Runners /\ Home[c] \in Processes
    BY <1>4, <2>2, MemoryAssumption DEF MaybeUpdateSummary, Runners
  <2>4. \/ queue'[Home[c]] > 0
        \/ step'[c] = "lock"
    BY <2>3, MemoryAssumption DEF Enqueue, TypeOK
  <2> QED BY <2>3, <2>4 DEF Pending
<1>5. ASSUME NEW r \in Runners, Acquire(r)
      PROVE  Told
  <2>1. step' = [step EXCEPT ![r] = "summary"]
    BY <1>5 DEF Acquire
  <2> QED BY <2>1 DEF Pending, TypeOK
<1>6. ASSUME NEW r \in Runners, LoadLatestSummary(r)
      PROVE  Told
  BY <1>6 DEF LoadLatestSummary, Pending, TypeOK
<1>7. ASSUME NEW r \in Runners, LoadWindowedHistory(r)
      PROVE  Told
  <2>1. UNCHANGED <<asked, summary>>
    BY <1>7 DEF LoadWindowedHistory, Windowed, Task
  <2>2. \A s \in Runners : step[s] = "generate" => s = r
    BY <1>0, <1>7, CalmIsExclusive DEF LoadWindowedHistory, Windowed, Holds
  <2>3. \/ step' = [step EXCEPT ![r] = "release"] /\ Good(summary)
        \/ step' = [step EXCEPT ![r] = "generate"] /\ Good(job'[r])
    BY <1>0, <1>7, <2>1, LookIsGood
  <2>4. \A s \in Runners : step'[s] = "generate" => s = r
    BY <2>2, <2>3 DEF TypeOK
  <2>5. CASE step' = [step EXCEPT ![r] = "release"] /\ Good(summary)
    BY <2>1, <2>4, <2>5 DEF Good, Later, TypeOK
  <2>6. CASE step' = [step EXCEPT ![r] = "generate"] /\ Good(job'[r])
    BY <2>1, <2>4, <2>6 DEF Good, Later, TypeOK
  <2> QED BY <2>3, <2>5, <2>6
<1>8. ASSUME NEW r \in Runners, Generate(r)
      PROVE  Told
  <2>1. /\ UNCHANGED <<size, asked, gap, queue, pc>> /\ summary' = job[r]
        /\ step[r] = "generate" /\ step' = [step EXCEPT ![r] = "release"]
    BY <1>8 DEF Generate, Task
  <2>2. \A s \in Runners : step[s] = "generate" => s = r
    BY <1>0, <2>1, CalmIsExclusive DEF Holds
  <2>3. Pending \/ Good(job[r])
    BY <1>0, <2>1 DEF GoodInv
  <2>4. \A s \in Runners : step'[s] # "generate"
    BY <2>1, <2>2 DEF TypeOK
  <2>5. CASE Pending
    BY <2>1, <2>5 DEF Pending, TypeOK
  <2>6. CASE Good(job[r])
    BY <2>1, <2>4, <2>6 DEF Good, Later
  <2> QED BY <2>3, <2>5, <2>6
<1>9. ASSUME NEW r \in Runners, Release(r)
      PROVE  Told
  <2>1. /\ UNCHANGED <<size, asked, summary, gap, queue>> /\ step[r] = "release"
        /\ \A s \in Runners : /\ s # r => step'[s] = step[s] /\ job'[s] = job[s]
                              /\ step'[r] = "idle"
        /\ \A c \in Chats : c # r => pc'[c] = pc[c]
    BY <1>9 DEF Release, Over, TypeOK
  <2>2. \A c \in Chats : pc[c] = "count" => c # r
    BY <1>0, <2>1 DEF PaceInv
  <2>3. Pending => Pending'
    BY <2>1, <2>2 DEF Pending
  <2> QED BY <1>1, <2>1, <2>3
<1>10. ASSUME NEW r \in Runners, CompressionFails(r)
       PROVE  Told
  BY <1>10 DEF CompressionFails
<1>11. ASSUME NEW p \in Processes, Take(p)
       PROVE  Told
  BY <1>11 DEF Take, Pending, TypeOK, Runners
<1>12. ASSUME NEW p \in Processes, Crash(p)
       PROVE  Told
  BY <1>12 DEF Crash
<1>13. CASE LockExpires \/ UNCHANGED vars
  BY <1>1, <1>13 DEF LockExpires, vars, Pending
<1>14. CASE DeleteConversation
  BY <1>0, <1>14 DEF DeleteConversation, Calm, Fault, PrefixInv, PaceInv
<1> QED BY <1>2, <1>3, <1>4, <1>5, <1>6, <1>7, <1>8, <1>9, <1>10, <1>11, <1>12,
           <1>13, <1>14 DEF Next, Append, Compress

LEMMA UnionBound ==
    ASSUME NEW S, NEW T, IsFiniteSet(S), IsFiniteSet(T)
    PROVE  /\ IsFiniteSet(S \cup T) /\ Cardinality(S \cup T) \in Nat
           /\ Cardinality(S \cup T) <= Cardinality(S) + Cardinality(T)
<1>1. IsFiniteSet(S \cup T) /\ IsFiniteSet(S \cap T)
  BY FS_Union, FS_Subset
<1>2. /\ Cardinality(S) \in Nat /\ Cardinality(T) \in Nat
      /\ Cardinality(S \cup T) \in Nat /\ Cardinality(S \cap T) \in Nat
  BY <1>1, FS_CardinalityType
<1>3. Cardinality(S \cup T) = Cardinality(S) + Cardinality(T) - Cardinality(S \cap T)
  BY FS_Union
<1> QED BY <1>1, <1>2, <1>3

\* Where few questions follow, few messages do.
LEMMA FewAfter ==
    ASSUME TypeOK, NEW t \in asked, Later(t) = 0 \/ Later(t) + 1 < Keep,
           \A i, j \in Alone : i = j, Alone = {} \/ Keep > 1
    PROVE  /\ IsFiniteSet({j \in 1 .. size : j > t})
           /\ Cardinality({j \in 1 .. size : j > t}) < 2 * Keep
<1> DEFINE S == {j \in 1 .. size : j > t}
           Q == {q \in asked : q > t}
           P == {j \in S \ asked : j - 1 \in asked}
           U == {j \in Alone : j > t}
<1>1. size \in Nat /\ asked \subseteq 1 .. size /\ t \in 1 .. size
  BY DEF TypeOK
<1>2. S = (Q \cup P) \cup U
  <2>1. \A j \in S : j \in Q \/ j \in P \/ j \in U
    BY DEF Alone
  <2>2. \A j \in Q \cup P \cup U : j \in S
    BY <1>1 DEF Alone
  <2> QED BY <2>1, <2>2
<1>3. IsFiniteSet(S) /\ IsFiniteSet(Q) /\ IsFiniteSet(P) /\ IsFiniteSet(U)
  <2>1. IsFiniteSet(1 .. size) /\ S \in SUBSET (1 .. size)
    BY <1>1, FS_Interval
  <2>2. IsFiniteSet(S)
    BY <2>1, FS_Subset
  <2>3. Q \in SUBSET S /\ P \in SUBSET S /\ U \in SUBSET S
    BY <1>2
  <2> QED BY <2>2, <2>3, FS_Subset
<1>4. Cardinality(P) <= Cardinality(Q) + 1
  <2> DEFINE f == [j \in P |-> j - 1]
  <2>1. Cardinality(Q \cup {t}) = Cardinality(Q) + 1 /\ IsFiniteSet(Q \cup {t})
    <3>1. ~(t > t)
      BY <1>1
    <3>2. t \notin Q
      BY <3>1
    <3> QED BY <1>3, <3>2, FS_AddElement
  <2>2. f \in [P -> Q \cup {t}]
    <3>1. \A j \in P : j - 1 \in asked /\ j - 1 >= t
      BY <1>1
    <3>2. \A j \in P : j - 1 = t \/ j - 1 > t
      BY <1>1, <3>1
    <3> QED BY <3>1, <3>2
  <2>3. \A i, j \in P : f[i] = f[j] => i = j
    BY <1>1
  <2>4. f \in Injection(P, Q \cup {t})
    BY <2>2, <2>3 DEF Injection, IsInjective
  <2> HIDE DEF f
  <2> QED BY <2>1, <2>4, FS_Injection
<1>5. Cardinality(U) <= 1 /\ (Alone = {} => Cardinality(U) = 0)
  <2>1. U = {} \/ \E j : U = {j}
    OBVIOUS
  <2>2. Alone = {} => U = {}
    OBVIOUS
  <2> HIDE DEF U
  <2>3. Cardinality({}) = 0 /\ \A j : Cardinality({j}) = 1
    BY FS_EmptySet, FS_Singleton
  <2> QED BY <2>1, <2>2, <2>3
<1>6. Cardinality(S) <= Cardinality(Q) + Cardinality(P) + Cardinality(U)
  <2> HIDE DEF S, Q, P, U
  <2>1. /\ IsFiniteSet(Q \cup P) /\ Cardinality(Q \cup P) \in Nat
        /\ Cardinality(Q \cup P) <= Cardinality(Q) + Cardinality(P)
    BY <1>3, UnionBound
  <2>2. Cardinality((Q \cup P) \cup U) <= Cardinality(Q \cup P) + Cardinality(U)
    BY <1>3, <2>1, UnionBound
  <2>3. Cardinality(S) \in Nat /\ Cardinality(Q) \in Nat /\ Cardinality(P) \in Nat
        /\ Cardinality(U) \in Nat
    BY <1>3, FS_CardinalityType
  <2> QED BY <1>2, <2>1, <2>2, <2>3
<1>7. /\ Cardinality(S) \in Nat /\ Cardinality(P) \in Nat /\ Cardinality(U) \in Nat
      /\ Cardinality(Q) = Later(t) /\ Later(t) \in Nat
  BY <1>3, FS_CardinalityType DEF Later
<1> HIDE DEF S, Q, P, U
<1>8. Cardinality(S) < 2 * Keep
  BY <1>4, <1>5, <1>6, <1>7, MemoryAssumption
<1> QED BY <1>3, <1>8 DEF S

\* The window goes back to any question with few messages after it.
LEMMA WindowReaches ==
    ASSUME TypeOK, gone = 0, NEW t \in asked,
           IsFiniteSet({j \in 1 .. size : j > t}),
           Cardinality({j \in 1 .. size : j > t}) < 2 * Keep
    PROVE  t .. size \subseteq Window
<1>1. Live = 1 .. size /\ t \in 1 .. size /\ size \in Nat
  BY DEF Live, TypeOK
<1>2. ASSUME NEW i \in t .. size
      PROVE  i \in Recent(Live, 2 * Keep)
  <2> DEFINE S == {j \in 1 .. size : j > i}
             T == {j \in 1 .. size : j > t}
  <2>1. S \in SUBSET T
    BY <1>1
  <2>2. Cardinality(S) <= Cardinality(T) /\ Cardinality(S) \in Nat
        /\ Cardinality(T) \in Nat
    BY <2>1, FS_Subset, FS_CardinalityType
  <2>3. Cardinality(S) < 2 * Keep
    BY <2>2, MemoryAssumption
  <2>4. i \in 1 .. size
    BY <1>1
  <2> QED BY <1>1, <2>3, <2>4 DEF Recent
<1>3. t \in t .. size
  BY <1>1
<1> QED BY <1>1, <1>2, <1>3 DEF Window

LEMMA GoodIsRemembered ==
    ASSUME TypeOK, PrefixInv, PaceInv, PairInv, GoodInv
    PROVE  NothingForgotten
<1> SUFFICES ASSUME Settled, Due, size \notin asked, ~gap, Calm,
                    Keep > 1 \/ "error" \notin faults
             PROVE  Remembered
  BY DEF NothingForgotten, Calm
<1>1. gone = 0 /\ summary.covers = 1 .. summary.last
  BY DEF PaceInv, PrefixInv, Prefix
<1>2. Cardinality(asked) >= Start
  BY <1>1, TurnsAreLast DEF Due
<1>3. ~Pending /\ \A r \in Runners : step[r] # "generate"
  BY DEF Settled, Pending
<1>4. PICK t \in asked : /\ t <= summary.last + 1
                         /\ Later(t) = 0 \/ Later(t) + 1 < Keep
  BY <1>2, <1>3 DEF GoodInv, Good
<1>5. (\A i, j \in Alone : i = j) /\ (Alone = {} \/ Keep > 1)
  BY DEF PairInv
<1>6. t .. size \subseteq Window
  BY <1>1, <1>4, <1>5, FewAfter, WindowReaches
<1>7. Live = 1 .. size /\ t \in 1 .. size /\ size \in Nat
      /\ summary.last \in 0 .. size
  BY <1>1, SummaryTypes DEF Live, TypeOK
<1>8. \A i \in Live : i \in t .. size \/ i \in summary.covers
  BY <1>1, <1>4, <1>7
<1> QED BY <1>6, <1>8 DEF Remembered

LEMMA MemoryKept == Spec => [](PaceInv /\ PairInv /\ MarkInv /\ Newest /\ GoodInv)
<1> DEFINE Base == TypeOK /\ LockInv /\ PrefixInv
           Inv == PaceInv /\ PairInv /\ MarkInv /\ Newest /\ GoodInv
<1>1. Init => Inv
  <2> SUFFICES ASSUME Init PROVE Inv
    OBVIOUS
  <2>1. /\ size = 0 /\ asked = {} /\ conv = "none" /\ lapsed = {} /\ faults = {}
        /\ summary = NoSummary
        /\ \A r \in Runners : job[r] = NoSummary /\ step[r] = "idle"
        /\ \A c \in Chats : pc[c] = "idle"
    BY DEF Init
  <2>2. PaceInv /\ Newest
    BY <2>1 DEF PaceInv, Newest, Runners
  <2>3. PairInv
    BY <2>1 DEF PairInv, Alone
  <2>4. MarkInv
    BY <2>1 DEF MarkInv, Marked, NoSummary
  <2>5. GoodInv
    BY <2>1, FS_EmptySet, MemoryAssumption DEF GoodInv
  <2> QED BY <2>2, <2>3, <2>4, <2>5
<1>2. Base /\ Base' /\ Inv /\ [Next]_vars => Inv'
  <2> SUFFICES ASSUME Base, TypeOK', Inv, [Next]_vars PROVE Inv'
    OBVIOUS
  <2>1. CASE Calm'
    BY <2>1, PaceKept, PairKept, MarkKept, NewestKept, GoodKept
  <2>2. CASE ~Calm'
    BY <2>2, NewestKept DEF PaceInv, PairInv, MarkInv, GoodInv
  <2> QED BY <2>1, <2>2
<1>3. Spec => []Base
  <2>1. Init => PrefixInv
    BY DEF Init, PrefixInv, Prefix, NoSummary
  <2> QED BY <2>1, PrefixKept, TypeCorrect, LockHeld, PTL DEF Spec
<1> QED BY <1>1, <1>2, <1>3, PTL DEF Spec

\* In a long conversation that is at rest, with no task given up, window and
\* summary together tell of every message, whatever the sizes of the window, of
\* the queues and of the first summary are.
THEOREM HistoryIsRemembered == Spec => []NothingForgotten
<1>1. Init => PrefixInv
  BY DEF Init, PrefixInv, Prefix, NoSummary
<1> QED BY <1>1, PrefixKept, TypeCorrect, MemoryKept, GoodIsRemembered, PTL DEF Spec

------------------------------------------------------------------------------
(* The latest summary never goes back.                                      *)

\* Of the last turns, about half at most came before message t.
Ahead(t) == Cardinality(Turns) <= 2 * Later(t) + 2
Cutoff(s) == s.last = 0 \/ (s.last + 1 \in asked /\ Ahead(s.last + 1))

\* While locks hold, the latest summary and the one that is being made end where
\* half of the last turns was left once; the new one ends no earlier.
AheadInv ==
    /\ lapsed = {} \/ "lapse" \in faults
    /\ conv # "deleted" /\ "lapse" \notin faults
       => /\ Cutoff(summary)
          /\ \A r \in Runners : step[r] = "generate"
                                => Cutoff(job[r]) /\ summary.last <= job[r].last

\* A new question is one more after t, and one more of the last turns at most.
LEMMA AheadStays ==
    ASSUME TypeOK, TypeOK', gone = 0, gone' = 0, [Next]_vars, NEW t \in asked, Ahead(t)
    PROVE  t \in asked' /\ Ahead(t)'
<1>1. size \in Nat /\ asked \subseteq 1 .. size /\ t \in Int /\ t <= size
  BY DEF TypeOK
<1>2. CASE UNCHANGED <<size, asked>>
  <2>1. Turns' = Turns /\ Later(t)' = Later(t)
    BY <1>2 DEF Turns, Recent, Live, Later
  <2> QED BY <1>2, <2>1 DEF Ahead
<1>3. CASE asked' = asked /\ size' = size + 1
  <2>1. Turns' = Turns /\ Later(t)' = Later(t)
    <3>1. asked' \cap Live' = asked \cap Live
      BY <1>1, <1>3 DEF Live
    <3> QED BY <1>3, <3>1 DEF Turns, Recent, Later
  <2> QED BY <1>3, <2>1 DEF Ahead
<1>4. CASE asked' = asked \cup {size + 1}
  <2>1. ASSUME NEW i \in asked
        PROVE  Later(i)' = Later(i) + 1 /\ Later(i) \in Nat
    <3> DEFINE S == {q \in asked : q > i}
    <3>1. i <= size /\ i \in Int
      BY <1>1, <2>1
    <3>2. {q \in asked' : q > i} = S \cup {size + 1} /\ size + 1 \notin S
      BY <1>1, <1>4, <3>1
    <3>3. IsFiniteSet(S)
      BY AskedFinite
    <3>4. Cardinality(S \cup {size + 1}) = Cardinality(S) + 1 /\ Cardinality(S) \in Nat
      <4> HIDE DEF S
      <4> QED BY <3>2, <3>3, FS_AddElement, FS_CardinalityType
    <3>5. Later(i)' = Cardinality(S \cup {size + 1})
      BY <3>2 DEF Later
    <3> QED BY <3>4, <3>5 DEF Later
  <2>2. Turns = {i \in asked : Later(i) < Keep}
    BY TurnsAreLast
  <2>3. Turns' = {i \in asked' : Later(i)' < Keep}
    <3>1. asked' \subseteq 1 .. size' /\ Live' = 1 .. size'
      BY DEF TypeOK, Live
    <3>2. asked' \cap Live' = asked'
      BY <3>1
    <3> QED BY <3>2 DEF Turns, Recent, Later
  <2>4. Turns' \in SUBSET (Turns \cup {size + 1})
    <3>1. \A i \in asked : Later(i)' < Keep => Later(i) < Keep
      BY <2>1, MemoryAssumption
    <3> QED BY <1>4, <2>2, <2>3, <3>1
  <2>5. /\ IsFiniteSet(Turns) /\ Cardinality(Turns) \in Nat
        /\ Cardinality(Turns') \in Nat
        /\ Cardinality(Turns') <= Cardinality(Turns) + 1
    <3>1. IsFiniteSet(Turns) /\ Cardinality(Turns) \in Nat
      BY <2>2, AskedFinite, FS_CardinalityType
    <3>2. /\ IsFiniteSet(Turns \cup {size + 1})
          /\ Cardinality(Turns \cup {size + 1}) \in {Cardinality(Turns), Cardinality(Turns) + 1}
      BY <3>1, FS_AddElement
    <3>3. IsFiniteSet(Turns') /\ Cardinality(Turns') <= Cardinality(Turns \cup {size + 1})
      BY <2>4, <3>2, FS_Subset
    <3>4. Cardinality(Turns') \in Nat
      BY <3>3, FS_CardinalityType
    <3> QED BY <3>1, <3>2, <3>3, <3>4
  <2> QED BY <1>4, <2>1, <2>5 DEF Ahead
<1> QED BY <1>2, <1>3, <1>4, MessagesMove

\* The middle of the last turns is not before an earlier middle.
LEMMA MiddleIsAhead ==
    ASSUME TypeOK, gone = 0, NEW i \in Turns, Middle(i, Turns)
    PROVE  i \in asked /\ Ahead(i) /\ \A t \in asked : Ahead(t) => t <= i
<1>1. /\ i \in asked /\ asked \subseteq Int
      /\ \A j \in Turns : j \in asked /\ Later(j) < Keep
  BY TurnsAreLast DEF TypeOK
<1>2. \A j \in asked : /\ Later(j) \in Nat
                       /\ \A u \in asked : j < u => Later(u) + 1 <= Later(j)
  BY <1>1, LaterFalls
<1>3. {j \in Turns : j > i} = {q \in asked : q > i}
  <2>1. ASSUME NEW q \in asked, q > i
        PROVE  q \in Turns
    <3>1. Later(q) + 1 <= Later(i) /\ Later(q) \in Nat /\ Later(i) \in Nat
      BY <1>1, <1>2, <2>1
    <3> QED BY <1>1, <3>1, TurnsAreLast, MemoryAssumption
  <2> QED BY <1>1, <2>1
<1>4. Later(i) = (Cardinality(Turns) - 1) \div 2
  BY <1>3 DEF Middle, Later
<1>5. Cardinality(Turns) \in Nat
  BY TurnsAreLast, AskedFinite, FS_CardinalityType
<1>6. Ahead(i)
  BY <1>4, <1>5 DEF Ahead
<1>7. ASSUME NEW t \in asked, Ahead(t)
      PROVE  t <= i
  <2>1. Later(t) \in Nat
    BY <1>2
  <2>2. Later(i) <= Later(t)
    BY <1>4, <1>5, <1>7, <2>1 DEF Ahead
  <2>3. i < t => Later(t) + 1 <= Later(i)
    BY <1>1, <1>2
  <2>4. Later(i) \in Nat /\ i \in Int /\ t \in Int
    BY <1>1, <1>2
  <2> QED BY <2>1, <2>2, <2>3, <2>4
<1> QED BY <1>1, <1>6, <1>7

LEMMA CutoffStays ==
    ASSUME TypeOK, TypeOK', gone = 0, gone' = 0, [Next]_vars, NEW s, Cutoff(s)
    PROVE  s.last = 0 \/ (s.last + 1 \in asked' /\ Ahead(s.last + 1)')
  BY AheadStays DEF Cutoff

\* Where a summary that is made from now on ends.
LEMMA LookIsAhead ==
    ASSUME TypeOK, gone = 0, Cutoff(summary), NEW r \in Runners,
           LoadWindowedHistory(r), step'[r] = "generate"
    PROVE  /\ job'[r].last + 1 \in asked /\ Ahead(job'[r].last + 1)
           /\ summary.last <= job'[r].last
<1>1. PICK i \in Turns : Middle(i, Turns) /\ job'[r].last = i - 1
  BY DEF LoadWindowedHistory, Windowed, Go, TypeOK
<1>2. i \in asked /\ Ahead(i) /\ \A t \in asked : Ahead(t) => t <= i
  BY <1>1, MiddleIsAhead
<1>3. i \in Nat \ {0} /\ summary.last \in Nat
  <2>1. summary.last \in 0 .. size /\ size \in Nat /\ asked \subseteq 1 .. size
    BY SummaryTypes DEF TypeOK
  <2> QED BY <1>2, <2>1
<1>4. (i - 1) + 1 = i
  BY <1>3
<1>5. summary.last <= i - 1
  BY <1>2, <1>3 DEF Cutoff
<1> QED BY <1>1, <1>2, <1>4, <1>5

LEMMA AheadKept ==
    ASSUME TypeOK, TypeOK', LockInv, PrefixInv, PrefixInv', AheadInv, [Next]_vars
    PROVE  /\ AheadInv'
           /\ conv' # "deleted" /\ "lapse" \notin faults'
              => summary.last <= summary'.last
<1> USE DEF Go, chat, messages, compression
<1>1. lapsed' = {} \/ "lapse" \in faults'
  BY DEF AheadInv, Next, vars, Ask, Append, Find, Create, Insert, InsertFails,
         MaybeUpdateSummary, Compress, Acquire, LoadLatestSummary,
         LoadWindowedHistory, Windowed, Generate, Release, Over, CompressionFails,
         Take, Crash, LockExpires, DeleteConversation, Fault, NotAppending
<1>2. conv = "deleted" => conv' = "deleted"
  BY DEF Next, vars, Ask, Append, Find, Create, Insert, InsertFails,
         MaybeUpdateSummary, Compress, Acquire, LoadLatestSummary,
         LoadWindowedHistory, Windowed, Generate, Release, Over, CompressionFails,
         Take, Crash, LockExpires, DeleteConversation, Task
<1> SUFFICES ASSUME conv' # "deleted", "lapse" \notin faults'
             PROVE  /\ Cutoff(summary)' /\ summary.last <= summary'.last
                    /\ \A s \in Runners :
                          step'[s] = "generate"
                          => Cutoff(job[s])' /\ summary'.last <= job'[s].last
  BY <1>1 DEF AheadInv
<1>3. /\ conv # "deleted" /\ "lapse" \notin faults /\ lapsed = {}
      /\ gone = 0 /\ gone' = 0 /\ deleting = "no"
  BY <1>1, <1>2, FaultsStay DEF AheadInv, PrefixInv
<1>4. /\ Cutoff(summary)
      /\ \A s \in Runners : step[s] = "generate"
                            => Cutoff(job[s]) /\ summary.last <= job[s].last
  BY <1>3 DEF AheadInv
<1>5. \A s : Cutoff(s) => s.last = 0 \/ (s.last + 1 \in asked' /\ Ahead(s.last + 1)')
  BY <1>3, CutoffStays
<1>6. summary.last \in Int
  BY SummaryTypes DEF TypeOK
<1>7. ASSUME UNCHANGED summary,
             \A s \in Runners : step'[s] = "generate"
                                => step[s] = "generate" /\ job'[s] = job[s]
      PROVE  /\ Cutoff(summary)' /\ summary.last <= summary'.last
             /\ \A s \in Runners : step'[s] = "generate"
                                   => Cutoff(job[s])' /\ summary'.last <= job'[s].last
  BY <1>4, <1>5, <1>6, <1>7 DEF Cutoff
<1> DEFINE Advances ==
      /\ Cutoff(summary)' /\ summary.last <= summary'.last
      /\ \A s \in Runners : step'[s] = "generate"
                            => Cutoff(job[s])' /\ summary'.last <= job'[s].last
<1>8. ASSUME NEW c \in Chats, \/ Ask(c) \/ Find(c) \/ Create(c) \/ Insert(c)
                              \/ InsertFails(c)
      PROVE  Advances
  BY <1>7, <1>8 DEF Ask, Find, Create, Insert, InsertFails, NotAppending
<1>9. ASSUME NEW c \in Chats, MaybeUpdateSummary(c)
      PROVE  Advances
  BY <1>7, <1>9 DEF MaybeUpdateSummary, Enqueue, TypeOK
<1>10. ASSUME NEW r \in Runners, Acquire(r) \/ LoadLatestSummary(r) \/ Release(r)
                                 \/ CompressionFails(r)
       PROVE  Advances
  BY <1>7, <1>10 DEF Acquire, LoadLatestSummary, Release, Over, CompressionFails, TypeOK
<1>11. ASSUME NEW r \in Runners, LoadWindowedHistory(r)
       PROVE  Advances
  <2>1. /\ UNCHANGED <<asked, size, gone, summary>>
        /\ \A s \in Runners \ {r} : step'[s] = step[s] /\ job'[s] = job[s]
    BY <1>11 DEF LoadWindowedHistory, Windowed, Task, TypeOK
  <2>2. step'[r] = "generate" => Cutoff(job[r])' /\ summary'.last <= job'[r].last
    <3> SUFFICES ASSUME step'[r] = "generate"
                 PROVE  Cutoff(job[r])' /\ summary'.last <= job'[r].last
      OBVIOUS
    <3>1. /\ job'[r].last + 1 \in asked /\ Ahead(job'[r].last + 1)
          /\ summary.last <= job'[r].last
      BY <1>3, <1>4, <1>11, LookIsAhead
    <3>2. Ahead(job'[r].last + 1) => Ahead(job[r].last + 1)'
      BY <2>1 DEF Ahead, Turns, Recent, Live, Later
    <3> QED BY <2>1, <3>1, <3>2 DEF Cutoff
  <2>3. Cutoff(summary)' /\ summary.last <= summary'.last
    BY <1>4, <1>5, <1>6, <2>1 DEF Cutoff
  <2>4. \A s \in Runners \ {r} : step'[s] = "generate"
                                 => Cutoff(job[s])' /\ summary'.last <= job'[s].last
    BY <1>4, <1>5, <2>1 DEF Cutoff
  <2> QED BY <2>2, <2>3, <2>4
<1>12. ASSUME NEW r \in Runners, Generate(r)
       PROVE  Advances
  <2>1. /\ summary' = job[r] /\ step[r] = "generate"
        /\ step' = [step EXCEPT ![r] = "release"]
    BY <1>12 DEF Generate
  <2>2. \A s \in Runners : step[s] = "generate" => s = r
    BY <1>3, <2>1 DEF LockInv, Holds
  <2>3. \A s \in Runners : step'[s] # "generate"
    BY <2>1, <2>2 DEF TypeOK
  <2> QED BY <1>4, <1>5, <2>1, <2>3 DEF Cutoff
<1>13. ASSUME NEW p \in Processes, Take(p) \/ Crash(p)
       PROVE  Advances
  BY <1>7, <1>13 DEF Take, Crash, TypeOK
<1>14. CASE LockExpires \/ UNCHANGED vars
  BY <1>7, <1>14 DEF LockExpires, vars
<1>15. CASE DeleteConversation
  BY <1>3, <1>15 DEF DeleteConversation
<1> QED BY <1>8, <1>9, <1>10, <1>11, <1>12, <1>13, <1>14, <1>15
        DEF Next, Append, Compress

\* While compressions end before their lock, the latest summary never tells of
\* less than one before it: the lock makes each one read the questions after the
\* last one has written, and the middle of the last turns only moves on.
THEOREM SummariesMoveOn == Spec => SummaryNeverGoesBack
<1>1. Init => AheadInv /\ PrefixInv
  BY DEF Init, AheadInv, Cutoff, PrefixInv, Prefix, NoSummary
<1>2. /\ TypeOK /\ TypeOK' /\ LockInv /\ PrefixInv /\ PrefixInv' /\ AheadInv
      /\ [Next]_vars
      => /\ AheadInv'
         /\ [conv' # "deleted" /\ "lapse" \notin faults'
                => summary.last <= summary'.last]_vars
  BY AheadKept
<1> QED BY <1>1, <1>2, PrefixKept, TypeCorrect, LockHeld, PTL
        DEF Spec, SummaryNeverGoesBack

==============================================================================
