-------------------------- MODULE FairQueueLimiter --------------------------
(* framework/ratelimit/limiter.go with queue_claim_atomic.lua: the waiting  *)
(* line in front of a counter of permits, both in Redis, shared by every    *)
(* instance of the service.                                                 *)
(*                                                                          *)
(* A step is one Redis command (a Lua script is one command) or one atomic  *)
(* operation on a ticket's state.  A command that takes the request's       *)
(* context is not sent once the context is done; one already sent completes *)
(* on the server, so `pc' names the command in flight and a cancellation    *)
(* may come before or after it takes effect.  Pub/sub wake-ups and the      *)
(* poll timer both only make a waiter try again: Poll stands for them.      *)
(* A command may also fail, before or after it takes effect.                *)
EXTENDS Integers, FiniteSets

CONSTANTS Tickets,        \* the calls of Acquire, over all instances
          MaxConcurrent,  \* LimiterConfig.MaxConcurrent
          Slack,          \* extra heads the claim script inspects (16)
          Cancellable,    \* tickets whose context may be cancelled
          Impatient,      \* tickets whose MaxWait may elapse
          Mortal,         \* tickets whose process may die
          Faulty,         \* tickets whose Redis commands may fail
          FailAgain,      \* may they fail more than once for a ticket?
          LeaseExpires    \* may the counter's key outlive its lease?

ASSUME LimiterAssumption ==
    /\ MaxConcurrent \in Nat \ {0} /\ Slack \in Nat
    /\ Cancellable \subseteq Tickets /\ Impatient \subseteq Tickets
    /\ Mortal \subseteq Tickets /\ Faulty \subseteq Tickets
    /\ {LeaseExpires, FailAgain} \subseteq BOOLEAN /\ IsFiniteSet(Tickets)

VARIABLES
    \* Redis
    ahead,    \* ahead[t]: the tickets with a smaller score than t's
    queued,   \* members of the ZSET <name>:queue
    marked,   \* tickets whose <name>:entry:<id> key exists
    counter,  \* <name>:semaphore, 0 when the key is absent
    leased,   \* does the counter's key carry a TTL?
    \* the ticket and the goroutine inside Acquire
    state,    \* ticket.state
    pc,       \* the command in flight or the point reached
    avail,    \* the permits tryClaim saw before it claimed
    poller,   \* "none" before l.pollers[id] is set, "in", "out" when deleted
    janitor,  \* the goroutine of cancelOnDisconnect
    \* the environment
    ctxDone, late,
    \* history
    leaked,   \* tickets whose permit no one will give back
    stray,    \* permits counted for a ticket that did not learn of it
    failed    \* tickets that had a command fail

queue == <<ahead, queued, marked>>
permits == <<counter, leased>>
call == <<state, avail, poller, janitor>>
env == <<ctxDone, late>>
history == <<leaked, stray, failed>>
vars == <<queue, permits, pc, call, env, history>>

States == {"Pending", "Granted", "Timeout", "Cancelled"}
Points == {"new", "mark", "zadd", "probe", "claim", "take", "remark", "rezadd",
           "won", "running", "register", "wait", "clean", "done", "dead"}

TypeOK ==
    /\ ahead \in [Tickets -> SUBSET Tickets]
    /\ \A t, u \in Tickets : t \in ahead[u] => u \notin ahead[t]
    /\ queued \subseteq Tickets
    /\ marked \subseteq Tickets /\ counter \in Int /\ leased \in BOOLEAN
    /\ state \in [Tickets -> States] /\ pc \in [Tickets -> Points]
    /\ avail \in [Tickets -> Int]
    /\ poller \in [Tickets -> {"none", "in", "out"}]
    /\ janitor \in [Tickets -> {"idle", "clean", "done"}]
    /\ ctxDone \in [Tickets -> BOOLEAN] /\ late \in [Tickets -> BOOLEAN]
    /\ leaked \subseteq Tickets /\ stray \in Nat /\ failed \subseteq Faulty

\* A permit has been counted for these and not yet given back.
Holders == {t \in Tickets : pc[t] \in {"won", "running"}}

Init ==
    /\ ahead = [t \in Tickets |-> {}] /\ queued = {} /\ marked = {} /\ counter = 0
    /\ leased = FALSE
    /\ state = [t \in Tickets |-> "Pending"] /\ pc = [t \in Tickets |-> "new"]
    /\ avail = [t \in Tickets |-> 0]
    /\ poller = [t \in Tickets |-> "none"]
    /\ janitor = [t \in Tickets |-> "idle"]
    /\ ctxDone = [t \in Tickets |-> FALSE] /\ late = [t \in Tickets |-> FALSE]
    /\ leaked = {} /\ stray = 0 /\ failed = {}

------------------------------------------------------------------------------
(* Helpers.                                                                 *)

Goto(t, point) == pc' = [pc EXCEPT ![t] = point]

\* Where tryClaim's caller goes on when it returns false.
Back(t) == IF poller[t] = "none" THEN "register" ELSE "wait"

\* Send the next command, unless the context is already done: then it and
\* all that follow it in tryClaim fail at once.
Send(t, command) == Goto(t, IF ctxDone[t] THEN Back(t) ELSE command)

\* The command was not sent: the context ended just before.
NotSent(t) == /\ pc[t] \in {"mark", "zadd", "probe", "claim", "take",
                            "remark", "rezadd"}
              /\ ctxDone[t]
              /\ Goto(t, Back(t))
              /\ UNCHANGED <<queue, permits, call, env, history>>

\* A command fails; its effect is lost, or only its answer.
Errs(t) == /\ t \in Faulty /\ (FailAgain \/ t \notin failed)
           /\ failed' = failed \cup {t}

\* Mutant: only the local poller is dropped.
CleanupLocal(t) == /\ poller' = [poller EXCEPT ![t] = IF @ = "in" THEN "out" ELSE @]
                   /\ UNCHANGED <<queued, marked, failed>>

\* l.cleanup(t): with a context of its own, so that only an error keeps its two
\* commands from Redis.
Cleanup(t) == /\ \/ /\ queued' = queued \ {t} /\ marked' = marked \ {t}
                    /\ UNCHANGED failed
                 \/ /\ queued' \in {queued, queued \ {t}}
                    /\ marked' \in {marked, marked \ {t}}
                    /\ Errs(t)
              /\ poller' = [poller EXCEPT ![t] = IF @ = "in" THEN "out" ELSE @]

------------------------------------------------------------------------------
(* Acquire and tryClaim.                                                    *)

\* Acquire is called: the ticket exists, its janitor waits for the context.
Start(t) == /\ pc[t] = "new"
            /\ Send(t, "mark")
            /\ UNCHANGED <<queue, permits, call, env, history>>

\* Mutant: the score of an earlier stay in line is not replaced.
ScoreAgain(t) == [ahead EXCEPT ![t] = Tickets \ {t}]
\* INCR of the sequence: t's new score is greater than all others.
ScoreLast(t) == [u \in Tickets |-> IF u = t THEN Tickets \ {t} ELSE ahead[u] \ {t}]

\* Mutant: the marker the claim script deleted is not set again.
MarkOnce(t) == /\ pc[t] \in {"mark", "remark"}
               /\ marked' = IF pc[t] = "mark" THEN marked \cup {t} ELSE marked
               /\ ahead' = IF ctxDone[t] THEN ahead ELSE ScoreLast(t)
               /\ Send(t, IF pc[t] = "mark" THEN "zadd" ELSE "rezadd")
               /\ UNCHANGED <<queued, permits, call, env, history>>

\* SET the entry marker, then take a score: the same two commands enqueue a
\* new ticket and put one back at the tail.
Mark(t) == /\ pc[t] \in {"mark", "remark"}
           /\ marked' = marked \cup {t}
           /\ ahead' = IF ctxDone[t] THEN ahead ELSE ScoreLast(t)
           /\ Send(t, IF pc[t] = "mark" THEN "zadd" ELSE "rezadd")
           /\ UNCHANGED <<queued, permits, call, env, history>>

\* ZADD of a new ticket; tryClaim follows.
Zadd(t) == /\ pc[t] = "zadd"
           /\ queued' = queued \cup {t}
           /\ Send(t, "probe")
           /\ UNCHANGED <<ahead, marked, permits, call, env, history>>

\* availablePermits: the number is only a hint by the time it is used.
Probe(t) == /\ pc[t] = "probe"
            /\ avail' = [avail EXCEPT ![t] = MaxConcurrent - counter]
            /\ IF counter >= MaxConcurrent THEN Goto(t, Back(t))
                                           ELSE Send(t, "claim")
            /\ UNCHANGED <<queue, permits, state, poller, janitor, env,
                           history>>

\* The claim script: drop entries without a marker from the window it looks
\* at, and leave the queue if fewer than `avail' live entries are ahead.
Window(t) == {u \in queued : Cardinality(ahead[u] \cap queued) < avail[t] + Slack}
HeadsFor(t) == LET live == Window(t) \cap marked
               IN  {u \in live : Cardinality(ahead[u] \cap live) < avail[t]}
Zombies(t) == Window(t) \ marked

Claim(t) == /\ pc[t] = "claim"
            /\ \/ /\ t \in HeadsFor(t)
                  /\ queued' = queued \ (Zombies(t) \cup {t})
                  /\ marked' = marked \ {t}
                  /\ Send(t, "take")
               \/ /\ t \notin HeadsFor(t)
                  /\ queued' = queued \ Zombies(t)
                  /\ Goto(t, Back(t))
                  /\ UNCHANGED marked
            /\ UNCHANGED <<ahead, permits, call, env, history>>

\* Mutant: the permit is counted on the strength of the earlier look.
TakeUnchecked(t) == /\ pc[t] = "take"
                    /\ counter' = counter + 1
                    /\ leased' = TRUE
                    /\ Goto(t, "won")
                    /\ UNCHANGED <<queue, call, env, history>>

\* Mutant: a ticket that finds no permit is not put back.
TakeAndForget(t) == /\ pc[t] = "take"
                    /\ \/ /\ counter < MaxConcurrent
                          /\ counter' = counter + 1
                          /\ leased' = TRUE
                          /\ Goto(t, "won")
                       \/ /\ counter >= MaxConcurrent
                          /\ Goto(t, Back(t))
                          /\ UNCHANGED <<permits>>
                    /\ UNCHANGED <<queue, call, env, history>>

\* acquireLua: count a permit, or put the ticket back at the tail.
Take(t) == /\ pc[t] = "take"
           /\ \/ /\ counter < MaxConcurrent
                 /\ counter' = counter + 1
                 /\ leased' = TRUE
                 /\ Goto(t, "won")
              \/ /\ counter >= MaxConcurrent
                 /\ Send(t, "remark")
                 /\ UNCHANGED <<permits>>
           /\ UNCHANGED <<queue, call, env, history>>

\* ZADD of a ticket put back.  The removal that follows when the ticket is no
\* longer pending uses the request's context; only its cancellation can have
\* changed the state, so the two commands are never sent.
Rezadd(t) == /\ pc[t] = "rezadd"
             /\ queued' = queued \cup {t}
             /\ Goto(t, Back(t))
             /\ UNCHANGED <<ahead, marked, permits, call, env, history>>

\* Mutant: the state is stored, not compared and swapped.
GrantBlindly(t) == /\ pc[t] = "won"
                   /\ state' = [state EXCEPT ![t] = "Granted"]
                   /\ poller' = [poller EXCEPT ![t] = IF @ = "in" THEN "out" ELSE @]
                   /\ Goto(t, "running")
                   /\ UNCHANGED <<queue, permits, avail, janitor, env, history>>

\* The permit is counted: the ticket is granted and OnAcquire starts.
Grant(t) == /\ pc[t] = "won"
            /\ state[t] = "Pending"
            /\ state' = [state EXCEPT ![t] = "Granted"]
            /\ poller' = [poller EXCEPT ![t] = IF @ = "in" THEN "out" ELSE @]
            /\ Goto(t, "running")
            /\ UNCHANGED <<queue, permits, avail, janitor, env, history>>

\* The janitor cancelled the ticket first.  releasePermit is called with the
\* request's context, which is done: its DECR fails.
LoseGrant(t) == /\ pc[t] = "won"
                /\ state[t] # "Pending"
                /\ leaked' = leaked \cup {t}
                /\ Cleanup(t)
                /\ Goto(t, Back(t))
                /\ UNCHANGED <<ahead, permits, state, avail, janitor, env, stray>>

\* OnAcquire returns; the deferred releasePermit has a context of its own.
Release(t) == /\ pc[t] = "running"
              /\ counter' = counter - 1
              /\ Goto(t, "done")
              /\ UNCHANGED <<queue, leased, call, env, history>>

------------------------------------------------------------------------------
(* Commands that fail although the context is live.  Nobody repeats them.   *)

\* Without an answer nextSeq returns 0: the head of the line.
ScoreFirst(t) == [u \in Tickets |-> IF u = t THEN {} ELSE ahead[u] \cup {t}]

MarkFails(t) == /\ pc[t] \in {"mark", "remark"} /\ Errs(t)
                /\ marked' \in {marked, marked \cup {t}}
                /\ ahead' \in {ScoreLast(t), ScoreFirst(t)}
                /\ Send(t, IF pc[t] = "mark" THEN "zadd" ELSE "rezadd")
                /\ UNCHANGED <<queued, permits, call, env, leaked, stray>>

ZaddFails(t) == /\ pc[t] \in {"zadd", "rezadd"} /\ Errs(t)
                /\ IF pc[t] = "zadd" THEN Send(t, "probe") ELSE Goto(t, Back(t))
                /\ UNCHANGED <<queue, permits, call, env, leaked, stray>>

ProbeFails(t) == /\ pc[t] = "probe" /\ Errs(t) /\ Goto(t, Back(t))
                 /\ UNCHANGED <<queue, permits, call, env, leaked, stray>>

\* The script may have claimed the place: the ticket waits on, out of the line.
ClaimFails(t) ==
    /\ pc[t] = "claim" /\ Errs(t) /\ Goto(t, Back(t))
    /\ \/ UNCHANGED <<queued, marked>>
       \/ /\ queued' = queued \ (Zombies(t) \cup (HeadsFor(t) \cap {t}))
          /\ marked' = marked \ (HeadsFor(t) \cap {t})
    /\ UNCHANGED <<ahead, permits, call, env, leaked, stray>>

\* The permit may have been counted: it comes back with the lease's end.
TakeFails(t) == /\ pc[t] = "take" /\ Errs(t) /\ Send(t, "remark")
                /\ \/ UNCHANGED <<permits, stray>>
                   \/ /\ counter < MaxConcurrent
                      /\ counter' = counter + 1 /\ stray' = stray + 1
                      /\ leased' = TRUE
                /\ UNCHANGED <<queue, call, env, leaked>>

ReleaseFails(t) == /\ pc[t] = "running" /\ Errs(t) /\ Goto(t, "done")
                   /\ leaked' = leaked \cup {t}
                   /\ UNCHANGED <<queue, permits, call, env, stray>>

------------------------------------------------------------------------------
(* The waiting loop and the janitor.                                        *)

Register(t) == /\ pc[t] = "register"
               /\ poller' = [poller EXCEPT ![t] = "in"]
               /\ Goto(t, "wait")
               /\ UNCHANGED <<queue, permits, state, avail, janitor, env,
                              history>>

Poll(t) == /\ pc[t] = "wait"
           /\ ~ctxDone[t]
           /\ Goto(t, "probe")
           /\ UNCHANGED <<queue, permits, call, env, history>>

\* Mutant: who loses the CAS waits on.
LeaveIfFirst(t, final) ==
    /\ pc[t] = "wait" /\ state[t] = "Pending"
    /\ state' = [state EXCEPT ![t] = final]
    /\ Goto(t, "clean")
    /\ UNCHANGED <<queue, permits, avail, poller, janitor, env, history>>

\* Leave the loop: the CAS decides who cleans up.
Leave(t, final) ==
    /\ pc[t] = "wait"
    /\ \/ /\ state[t] = "Pending"
          /\ state' = [state EXCEPT ![t] = final]
          /\ Goto(t, "clean")
       \/ /\ state[t] # "Pending"
          /\ Goto(t, "done")
          /\ UNCHANGED state
    /\ UNCHANGED <<queue, permits, avail, poller, janitor, env, history>>

LeaveTimeout(t) == late[t] /\ Leave(t, "Timeout")
LeaveCancelled(t) == ctxDone[t] /\ Leave(t, "Cancelled")

LeaveClean(t) == /\ pc[t] = "clean"
                 /\ Cleanup(t)
                 /\ Goto(t, "done")
                 /\ UNCHANGED <<ahead, permits, state, avail, janitor, env,
                                leaked, stray>>

\* Mutant: the janitor cleans up without asking for the state.
JanitorCancelAny(t) ==
    /\ janitor[t] = "idle" /\ ctxDone[t] /\ pc[t] # "new"
    /\ state' = [state EXCEPT ![t] = IF @ = "Pending" THEN "Cancelled" ELSE @]
    /\ janitor' = [janitor EXCEPT ![t] = "clean"]
    /\ UNCHANGED <<queue, permits, pc, avail, poller, env, history>>

\* cancelOnDisconnect.
JanitorCancel(t) ==
    /\ janitor[t] = "idle" /\ ctxDone[t] /\ pc[t] # "new"
    /\ \/ /\ state[t] = "Pending"
          /\ state' = [state EXCEPT ![t] = "Cancelled"]
          /\ janitor' = [janitor EXCEPT ![t] = "clean"]
       \/ /\ state[t] # "Pending"
          /\ janitor' = [janitor EXCEPT ![t] = "done"]
          /\ UNCHANGED state
    /\ UNCHANGED <<queue, permits, pc, avail, poller, env, history>>

JanitorClean(t) == /\ janitor[t] = "clean"
                   /\ Cleanup(t)
                   /\ janitor' = [janitor EXCEPT ![t] = "done"]
                   /\ UNCHANGED <<ahead, permits, state, pc, avail, env,
                                  leaked, stray>>

------------------------------------------------------------------------------
(* The environment.                                                         *)

Cancel(t) == /\ t \in Cancellable /\ ~ctxDone[t]
             /\ ctxDone' = [ctxDone EXCEPT ![t] = TRUE]
             /\ UNCHANGED <<queue, permits, call, pc, late, history>>

DeadlinePasses(t) == /\ t \in Impatient /\ ~late[t] /\ pc[t] # "new"
                     /\ late' = [late EXCEPT ![t] = TRUE]
                     /\ UNCHANGED <<queue, permits, call, pc, ctxDone, history>>

\* No acquire for LeaseSeconds: Redis deletes the counter.
LeaseExpiry == /\ LeaseExpires /\ leased
               /\ counter' = 0 /\ leased' = FALSE
               /\ leaked' = {} /\ stray' = 0
               /\ UNCHANGED <<queue, call, pc, env, failed>>

Crash(t) == /\ t \in Mortal /\ pc[t] \notin {"new", "done", "dead"}
            /\ Goto(t, "dead")
            /\ janitor' = [janitor EXCEPT ![t] = "done"]
            /\ leaked' = IF t \in Holders THEN leaked \cup {t} ELSE leaked
            /\ UNCHANGED <<queue, permits, state, avail, poller, env, stray,
                           failed>>

\* The TTL of a marker exceeds MaxWait: a dead process leaves one behind, or a
\* failed cleanup.
MarkerExpiry(t) == /\ pc[t] \in {"done", "dead"} /\ t \in marked
                   /\ marked' = marked \ {t}
                   /\ UNCHANGED <<ahead, queued, permits, call, pc, env,
                                  history>>

------------------------------------------------------------------------------
Serving(t) == \/ Start(t) \/ NotSent(t) \/ Mark(t) \/ Zadd(t) \/ Probe(t)
              \/ Claim(t) \/ Take(t) \/ Rezadd(t) \/ Grant(t) \/ LoseGrant(t)
              \/ Register(t) \/ Poll(t) \/ LeaveTimeout(t)
              \/ LeaveCancelled(t) \/ LeaveClean(t)
Janitor(t) == JanitorCancel(t) \/ JanitorClean(t)
RedisFails(t) == \/ MarkFails(t) \/ ZaddFails(t) \/ ProbeFails(t)
                 \/ ClaimFails(t) \/ TakeFails(t) \/ ReleaseFails(t)

Next == \/ \E t \in Tickets : \/ Serving(t) \/ Release(t) \/ Janitor(t)
                              \/ Cancel(t) \/ DeadlinePasses(t)
                              \/ Crash(t) \/ MarkerExpiry(t) \/ RedisFails(t)
        \/ LeaseExpiry

Spec == Init /\ [][Next]_vars

\* Goroutines run on, callbacks return, Redis expires keys.  `select' picks
\* among its ready cases at random, so a case ready again and again is taken.
Fairness == /\ \A t \in Tickets :
                 /\ WF_vars(Serving(t) /\ pc[t] # "new") /\ WF_vars(Release(t))
                 /\ WF_vars(Janitor(t)) /\ WF_vars(DeadlinePasses(t))
                 /\ SF_vars(LeaveTimeout(t)) /\ SF_vars(LeaveCancelled(t))
                 /\ WF_vars(MarkerExpiry(t))
            /\ WF_vars(LeaseExpiry)
FairSpec == Spec /\ Fairness

------------------------------------------------------------------------------
(* Safety.                                                                  *)

\* As long as no lease runs out, the Redis counter is the number of callbacks
\* that run or are about to, plus the permits lost with a dead process, a
\* cancelled grant or a failed command, and never exceeds max: claims are made on
\* a stale count of permits, and many instances make them at once.
PermitsAccounted ==
    ~LeaseExpires =>
        /\ counter = Cardinality(Holders) + Cardinality(leaked) + stray
        /\ counter <= MaxConcurrent

\* A waiter that can still be served stands in line with a live marker, whatever
\* claims it won and lost before and whatever fails for the others: none whose
\* own commands reached Redis is forgotten.
WaitersAreInLine ==
    \A t \in Tickets \ failed :
        (pc[t] \in {"register", "wait"} /\ state[t] = "Pending" /\ ~ctxDone[t])
            => t \in queued \cap marked

\* An entry the claim script takes for alive is a ticket that can be served,
\* or is being removed: no ghost blocks the head of the line, unless a command of
\* its own failed, and then only until its marker expires.
NoGhostInLine ==
    \A t \in (queued \cap marked) \ failed :
        state[t] = "Pending" \/ pc[t] \in {"clean", "dead"} \/ janitor[t] = "clean"

\* Grant closes ticket.done, and Cleanup sends on it: a cleanup of a granted
\* ticket, from any of its three callers, would panic.
NoCleanupAfterGrant ==
    \A t \in Tickets : state[t] = "Granted" => pc[t] # "clean" /\ janitor[t] # "clean"

------------------------------------------------------------------------------
(* Liveness.                                                                *)

\* A call whose caller leaves or whose deadline passes returns, unless served
\* or dead.
CallsReturn == \A t \in Cancellable \cup Impatient :
                  (ctxDone[t] \/ late[t]) ~> pc[t] \in {"new", "done", "dead"}

\* A call that stays is served, whatever becomes of the others: also when they
\* lose a race for a permit, die while they wait or hold one, or leave entries
\* and permits behind because Redis fails them.
AllServed == \A t \in Tickets \ (Cancellable \cup Impatient \cup Faulty) :
                pc[t] # "new" ~> \/ pc[t] = "done" /\ state[t] = "Granted"
                                \/ pc[t] = "dead"

------------------------------------------------------------------------------
(* Refinement: the calls, seen from outside.                                *)

Unserved == [Pending |-> "waiting", Timeout |-> "timedOut", Cancelled |-> "cancelled"]
Phase(t) == IF pc[t] = "dead" THEN "dead"
            ELSE IF state[t] # "Granted" THEN Unserved[state[t]]
            ELSE IF pc[t] = "running" THEN "running" ELSE "served"

Calls == INSTANCE TicketQueue WITH phase <- [t \in Tickets |-> Phase(t)],
                                   lost <- leaked, stray <- stray

\* The limiter is the waiting line it promises to be (leases not running out).
ImplementsTicketQueue == Calls!Spec
=============================================================================
