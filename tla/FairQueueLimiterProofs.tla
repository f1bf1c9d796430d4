----------------------- MODULE FairQueueLimiterProofs -----------------------
(* Theorems about FairQueueLimiter, for any number of calls and permits.    *)
EXTENDS FairQueueLimiter, FiniteSetTheorems, TLAPS

\* Where each state of a ticket can be met.  A ticket is cancelled only by a
\* context that is done, so no command of a cancelled ticket is sent any more.
TicketInv ==
    \A t \in Tickets :
        /\ state[t] = "Granted" => pc[t] \in {"running", "done", "dead"}
        /\ state[t] = "Timeout" => pc[t] \in {"clean", "done", "dead"}
        /\ state[t] = "Cancelled" => ctxDone[t]
        /\ pc[t] = "running" => state[t] = "Granted"
        /\ pc[t] = "clean" => state[t] \in {"Timeout", "Cancelled"}
        /\ janitor[t] = "clean" => state[t] = "Cancelled"

\* A leaked permit belongs to a ticket that will never hold one again.
LeakInv ==
    \A t \in leaked :
        \/ pc[t] \in {"done", "dead"}
        \/ ctxDone[t] /\ pc[t] \in {"register", "wait", "clean"}

------------------------------------------------------------------------------
(* Type correctness.                                                        *)

USE DEF queue, permits, call, env, history

LEMMA TypeInit == Init => TypeOK
  <1> SUFFICES ASSUME Init PROVE TypeOK
    OBVIOUS
  <1>1. ahead \in [Tickets -> SUBSET Tickets]
    BY DEF Init
  <1>2. \A t, u \in Tickets : t \in ahead[u] => u \notin ahead[t]
    BY DEF Init
  <1>3. /\ state \in [Tickets -> States] /\ pc \in [Tickets -> Points]
        /\ avail \in [Tickets -> Int]
        /\ poller \in [Tickets -> {"none", "in", "out"}]
        /\ janitor \in [Tickets -> {"idle", "clean", "done"}]
        /\ ctxDone \in [Tickets -> BOOLEAN] /\ late \in [Tickets -> BOOLEAN]
    BY DEF Init, States, Points
  <1>4. leased \in BOOLEAN
    BY DEF Init
  <1>5. queued \subseteq Tickets /\ marked \subseteq Tickets /\ counter \in Int
    BY DEF Init
  <1>6. leaked \subseteq Tickets /\ stray \in Nat /\ failed \subseteq Faulty
    BY DEF Init
  <1>7. QED
    BY <1>1, <1>2, <1>3, <1>4, <1>5, <1>6 DEF TypeOK

LEMMA TypeNext == TypeOK /\ [Next]_vars => TypeOK'
  <1> SUFFICES ASSUME TypeOK, [Next]_vars PROVE TypeOK'
    OBVIOUS
  <1> USE DEF TypeOK, States, Points
  <1>1. CASE UNCHANGED vars
    BY <1>1 DEF vars
  <1>2. CASE LeaseExpiry
    <2>1. leased' \in BOOLEAN
      BY <1>2 DEF LeaseExpiry
    <2>2. leaked' \subseteq Tickets /\ stray' \in Nat /\ failed' \subseteq Faulty
      BY <1>2 DEF LeaseExpiry
    <2>3. QED
      BY <1>2, <2>1, <2>2 DEF LeaseExpiry
  <1>3. ASSUME NEW t \in Tickets, Serving(t) PROVE TypeOK'
    <2>1. CASE Start(t)
      BY <2>1 DEF Start, Send, Goto, Back
    <2>2. CASE NotSent(t)
      BY <2>2 DEF NotSent, Goto, Back
    <2>3. CASE Mark(t)
      <3>1. ahead' \in [Tickets -> SUBSET Tickets]
        BY <2>3 DEF Mark, ScoreLast
      <3>2. \A u, v \in Tickets : u \in ahead'[v] => v \notin ahead'[u]
        BY <2>3 DEF Mark, ScoreLast
      <3>3. QED
        BY <2>3, <3>1, <3>2 DEF Mark, Send, Goto, Back
    <2>4. CASE Zadd(t)
      BY <2>4 DEF Zadd, Send, Goto, Back
    <2>5. CASE Probe(t)
      BY <2>5, LimiterAssumption DEF Probe, Send, Goto, Back
    <2>6. CASE Claim(t)
      BY <2>6 DEF Claim, Send, Goto, Back
    <2>7. CASE Take(t)
      <3>1. leased' \in BOOLEAN
        BY <2>7 DEF Take
      <3>2. counter' \in Int /\ pc' \in [Tickets -> Points]
        BY <2>7 DEF Take, Send, Goto, Back
      <3>3. QED
        BY <2>7, <3>1, <3>2 DEF Take
    <2>8. CASE Rezadd(t)
      BY <2>8 DEF Rezadd, Goto, Back
    <2>9. CASE Grant(t)
      BY <2>9 DEF Grant, Goto
    <2>10. CASE LoseGrant(t)
      BY <2>10 DEF LoseGrant, Cleanup, Errs, Goto, Back
    <2>11. CASE Register(t)
      BY <2>11 DEF Register, Goto
    <2>12. CASE Poll(t)
      BY <2>12 DEF Poll, Goto
    <2>13. CASE LeaveTimeout(t)
      BY <2>13 DEF LeaveTimeout, Leave, Goto
    <2>14. CASE LeaveCancelled(t)
      BY <2>14 DEF LeaveCancelled, Leave, Goto
    <2>15. CASE LeaveClean(t)
      BY <2>15 DEF LeaveClean, Cleanup, Errs, Goto
    <2>16. QED
      BY <1>3, <2>1, <2>2, <2>3, <2>4, <2>5, <2>6, <2>7, <2>8, <2>9, <2>10,
         <2>11, <2>12, <2>13, <2>14, <2>15 DEF Serving
  <1>4. ASSUME NEW t \in Tickets, Release(t) PROVE TypeOK'
    BY <1>4 DEF Release, Goto
  <1>5. ASSUME NEW t \in Tickets, Janitor(t) PROVE TypeOK'
    BY <1>5 DEF Janitor, JanitorCancel, JanitorClean, Cleanup, Errs
  <1>6. ASSUME NEW t \in Tickets, Cancel(t) \/ DeadlinePasses(t) PROVE TypeOK'
    BY <1>6 DEF Cancel, DeadlinePasses
  <1>7. ASSUME NEW t \in Tickets, Crash(t) \/ MarkerExpiry(t) PROVE TypeOK'
    BY <1>7 DEF Crash, MarkerExpiry, Goto
  <1>8. ASSUME NEW t \in Tickets, RedisFails(t) PROVE TypeOK'
    <2>1. CASE MarkFails(t)
      <3>1. ahead' \in [Tickets -> SUBSET Tickets]
        BY <2>1 DEF MarkFails, ScoreLast, ScoreFirst
      <3>2. \A u, v \in Tickets : u \in ahead'[v] => v \notin ahead'[u]
        BY <2>1 DEF MarkFails, ScoreLast, ScoreFirst
      <3>3. QED
        BY <2>1, <3>1, <3>2 DEF MarkFails, Errs, Send, Goto, Back
    <2>2. CASE ZaddFails(t) \/ ProbeFails(t)
      BY <2>2 DEF ZaddFails, ProbeFails, Errs, Send, Goto, Back
    <2>3. CASE ClaimFails(t)
      BY <2>3 DEF ClaimFails, Errs, Goto, Back
    <2>4. CASE TakeFails(t)
      <3>1. counter' \in Int /\ stray' \in Nat
        BY <2>4 DEF TakeFails, permits
      <3>2. leased' \in BOOLEAN
        BY <2>4, Zenon DEF TakeFails, permits
      <3>3. QED
        BY <2>4, <3>1, <3>2 DEF TakeFails, queue, call, env, Errs, Send, Goto, Back
    <2>5. CASE ReleaseFails(t)
      BY <2>5 DEF ReleaseFails, Errs, Goto
    <2>6. QED
      BY <1>8, <2>1, <2>2, <2>3, <2>4, <2>5 DEF RedisFails
  <1>9. QED
    BY <1>1, <1>2, <1>3, <1>4, <1>5, <1>6, <1>7, <1>8 DEF Next

\* Every variable keeps its type, and the scores order the queue strictly.
THEOREM TypeCorrect == Spec => []TypeOK
  BY TypeInit, TypeNext, PTL DEF Spec

------------------------------------------------------------------------------
(* Tickets.                                                                 *)

LEMMA TicketNext == TypeOK /\ TicketInv /\ [Next]_vars => TicketInv'
  <1> SUFFICES ASSUME TypeOK, TicketInv, [Next]_vars PROVE TicketInv'
    OBVIOUS
  <1> USE DEF TypeOK, TicketInv
  <1>1. CASE UNCHANGED vars
    BY <1>1 DEF vars
  <1>2. CASE LeaseExpiry
    BY <1>2 DEF LeaseExpiry
  <1>3. ASSUME NEW t \in Tickets, Serving(t) PROVE TicketInv'
    <2>1. CASE Start(t) \/ NotSent(t) \/ Mark(t) \/ Zadd(t) \/ Probe(t)
      BY <2>1 DEF Start, NotSent, Mark, Zadd, Probe, Send, Goto, Back
    <2>2. CASE Claim(t)
      BY <2>2 DEF Claim, Send, Goto, Back
    <2>3. CASE Take(t) \/ Rezadd(t)
      BY <2>3 DEF Take, Rezadd, Send, Goto, Back
    <2>4. CASE Grant(t)
      BY <2>4 DEF Grant, Goto
    <2>5. CASE LoseGrant(t)
      BY <2>5 DEF LoseGrant, Cleanup, Goto, Back
    <2>6. CASE Register(t) \/ Poll(t)
      BY <2>6 DEF Register, Poll, Goto
    <2>7. CASE LeaveTimeout(t) \/ LeaveCancelled(t)
      BY <2>7 DEF LeaveTimeout, LeaveCancelled, Leave, Goto, States
    <2>8. CASE LeaveClean(t)
      BY <2>8 DEF LeaveClean, Cleanup, Goto
    <2>9. QED
      BY <1>3, <2>1, <2>2, <2>3, <2>4, <2>5, <2>6, <2>7, <2>8 DEF Serving
  <1>4. ASSUME NEW t \in Tickets, Release(t) PROVE TicketInv'
    BY <1>4 DEF Release, Goto
  <1>5. ASSUME NEW t \in Tickets, Janitor(t) PROVE TicketInv'
    <2>1. CASE JanitorCancel(t)
      BY <1>5, <2>1 DEF JanitorCancel
    <2>2. CASE JanitorClean(t)
      BY <1>5, <2>2 DEF JanitorClean, Cleanup
    <2>3. QED
      BY <1>5, <2>1, <2>2 DEF Janitor
  <1>6. ASSUME NEW t \in Tickets, Cancel(t) \/ DeadlinePasses(t) PROVE TicketInv'
    BY <1>6 DEF Cancel, DeadlinePasses
  <1>7. ASSUME NEW t \in Tickets, Crash(t) \/ MarkerExpiry(t) PROVE TicketInv'
    BY <1>7 DEF Crash, MarkerExpiry, Goto
  <1>8. ASSUME NEW t \in Tickets, RedisFails(t) PROVE TicketInv'
    <2>1. CASE MarkFails(t) \/ ZaddFails(t) \/ ProbeFails(t)
      BY <2>1 DEF MarkFails, ZaddFails, ProbeFails, Send, Goto, Back
    <2>2. CASE ClaimFails(t) \/ TakeFails(t) \/ ReleaseFails(t)
      BY <2>2 DEF ClaimFails, TakeFails, ReleaseFails, Send, Goto, Back
    <2>3. QED
      BY <1>8, <2>1, <2>2 DEF RedisFails
  <1>9. QED
    BY <1>1, <1>2, <1>3, <1>4, <1>5, <1>6, <1>7, <1>8 DEF Next

\* Each state of a ticket is met only where Acquire, tryClaim and
\* cancelOnDisconnect can be with it: the inductive invariant of the rest.
THEOREM TicketsCorrect == Spec => [](TypeOK /\ TicketInv)
  <1>1. Init => TicketInv
    BY DEF Init, TicketInv
  <1>2. QED
    BY <1>1, TypeInit, TypeNext, TicketNext, PTL DEF Spec

\* The done channel of a granted ticket, which Grant closes, is never sent to.
THEOREM NoPanic == Spec => []NoCleanupAfterGrant
  <1>1. TicketInv => NoCleanupAfterGrant
    BY DEF TicketInv, NoCleanupAfterGrant
  <1>2. QED
    BY <1>1, TicketsCorrect, PTL

------------------------------------------------------------------------------
(* The waiting line.                                                        *)

\* A ticket is out of the ZSET from its claim to its return, and for good once
\* granted; its marker is set before its entry and removed no earlier.  A
\* cleanup that overtakes a command in flight leaves the entry or the marker
\* behind, never both.  So it is for tickets whose commands have not failed.
Lined(t) ==
    /\ pc[t] \in {"new", "mark", "zadd", "take", "won", "remark", "rezadd"}
           => t \notin queued
    /\ state[t] = "Granted" => t \notin queued \/ pc[t] = "dead"
    /\ pc[t] \in {"zadd", "rezadd"} /\ state[t] # "Pending"
           => t \notin marked \/ janitor[t] = "clean"
    /\ t \in queued /\ t \in marked
           => state[t] = "Pending" \/ pc[t] \in {"clean", "dead"} \/ janitor[t] = "clean"
    /\ state[t] = "Pending" /\ ~ctxDone[t] /\ pc[t] \in {"zadd", "rezadd"}
           => t \in marked
    /\ (/\ state[t] = "Pending" /\ ~ctxDone[t]
        /\ pc[t] \in {"probe", "claim", "register", "wait"})
           => t \in queued /\ t \in marked
LineInv == \A t \in Tickets \ failed : Lined(t)

\* What a step of another ticket may do to a place in line: the claim script
\* drops the entries that have no marker.
LEMMA OthersInLine ==
    ASSUME NEW u \in Tickets, Lined(u),
           pc'[u] = pc[u], state'[u] = state[u], janitor'[u] = janitor[u],
           ctxDone'[u] = ctxDone[u], u \in marked' <=> u \in marked,
           u \in queued' => u \in queued,
           u \in queued /\ u \in marked => u \in queued'
    PROVE  Lined(u)'
  BY DEF Lined

\* What a ticket whose commands fail does to the others: its entry and its marker
\* are its own, and its claim drops what any claim would.
LEMMA FailedStep ==
    ASSUME TypeOK, NEW t \in Tickets, RedisFails(t), NEW u \in Tickets \ {t}
    PROVE  /\ pc'[u] = pc[u] /\ state'[u] = state[u] /\ janitor'[u] = janitor[u]
           /\ ctxDone'[u] = ctxDone[u]
           /\ u \in marked' <=> u \in marked
           /\ u \in queued' => u \in queued
           /\ u \in queued /\ u \in marked => u \in queued'
           /\ t \in failed'
  <1> USE DEF TypeOK, Send, Goto, Errs
  <1>1. CASE MarkFails(t) \/ ZaddFails(t) \/ ProbeFails(t)
    BY <1>1 DEF MarkFails, ZaddFails, ProbeFails
  <1>2. CASE ClaimFails(t)
    BY <1>2 DEF ClaimFails, Zombies
  <1>3. CASE TakeFails(t) \/ ReleaseFails(t)
    BY <1>3 DEF TakeFails, ReleaseFails
  <1> QED BY <1>1, <1>2, <1>3 DEF RedisFails

LEMMA FailedGrows == [Next]_vars => failed \subseteq failed'
  <1> SUFFICES ASSUME [Next]_vars PROVE failed \subseteq failed'
    OBVIOUS
  <1>1. ASSUME NEW t \in Tickets, Serving(t) PROVE failed \subseteq failed'
    BY <1>1 DEF Serving, Start, NotSent, Mark, Zadd, Probe, Claim, Take, Rezadd,
       Grant, LoseGrant, Cleanup, Errs, Register, Poll, LeaveTimeout,
       LeaveCancelled, Leave, LeaveClean
  <1>2. ASSUME NEW t \in Tickets, Release(t) \/ Janitor(t) \/ RedisFails(t)
        PROVE  failed \subseteq failed'
    BY <1>2 DEF Release, Janitor, JanitorCancel, JanitorClean, Cleanup, Errs,
       RedisFails, MarkFails, ZaddFails, ProbeFails, ClaimFails, TakeFails,
       ReleaseFails
  <1>3. ASSUME NEW t \in Tickets,
               Cancel(t) \/ DeadlinePasses(t) \/ Crash(t) \/ MarkerExpiry(t)
        PROVE  failed \subseteq failed'
    BY <1>3 DEF Cancel, DeadlinePasses, Crash, MarkerExpiry
  <1>4. CASE LeaseExpiry \/ UNCHANGED vars
    BY <1>4 DEF LeaseExpiry, vars
  <1> QED BY <1>1, <1>2, <1>3, <1>4 DEF Next

LEMMA LineNext == TypeOK /\ TicketInv /\ LineInv /\ [Next]_vars => LineInv'
  <1> SUFFICES ASSUME TypeOK, TicketInv, LineInv, [Next]_vars PROVE LineInv'
    OBVIOUS
  <1> USE DEF TypeOK
  <1>m. failed \subseteq failed'
    BY FailedGrows
  <1>1. CASE UNCHANGED vars \/ LeaseExpiry
    BY <1>1 DEF vars, LeaseExpiry, LineInv, Lined
  <1>2. ASSUME NEW t \in Tickets, Serving(t) PROVE LineInv'
    <2> USE DEF Send, Goto, Back
    <2>1. ASSUME NEW u \in Tickets \ failed', u # t PROVE Lined(u)'
      <3>1. /\ pc'[u] = pc[u] /\ state'[u] = state[u] /\ janitor'[u] = janitor[u]
            /\ ctxDone'[u] = ctxDone[u]
        BY <1>2, <2>1 DEF Serving, Start, NotSent, Mark, Zadd, Probe, Claim, Take,
           Rezadd, Grant, LoseGrant, Cleanup, Register, Poll, LeaveTimeout,
           LeaveCancelled, Leave, LeaveClean
      <3>2. /\ u \in marked' <=> u \in marked
            /\ u \in queued' => u \in queued
            /\ u \in queued /\ u \in marked => u \in queued'
        BY <1>2, <2>1 DEF Serving, Start, NotSent, Mark, Zadd, Probe, Claim, Zombies,
           Take, Rezadd, Grant, LoseGrant, Cleanup, Register, Poll, LeaveTimeout,
           LeaveCancelled, Leave, LeaveClean
      <3> QED BY <1>m, <3>1, <3>2, OthersInLine DEF LineInv
    <2>2. ASSUME t \notin failed' PROVE Lined(t)'
      <3>0. Lined(t)
        BY <1>m, <2>2 DEF LineInv
      <3> USE DEF Lined, TicketInv, States
      <3>1. CASE Start(t) \/ NotSent(t) \/ Register(t) \/ Poll(t)
        BY <3>0, <3>1 DEF Start, NotSent, Register, Poll
      <3>2. CASE Mark(t)
        BY <3>0, <3>2 DEF Mark
      <3>3. CASE Zadd(t) \/ Rezadd(t)
        BY <3>0, <3>3 DEF Zadd, Rezadd
      <3>4. CASE Probe(t) \/ Take(t)
        BY <3>0, <3>4 DEF Probe, Take
      <3>5. CASE Claim(t)
        BY <3>0, <3>5 DEF Claim, Zombies
      <3>6. CASE Grant(t)
        BY <3>0, <3>6 DEF Grant
      <3>7. CASE LoseGrant(t)
        BY <2>2, <3>0, <3>7 DEF LoseGrant, Cleanup, Errs
      <3>8. ASSUME NEW final \in {"Timeout", "Cancelled"}, Leave(t, final)
            PROVE  Lined(t)'
        BY <3>0, <3>8 DEF Leave
      <3>9. CASE LeaveClean(t)
        BY <2>2, <3>0, <3>9 DEF LeaveClean, Cleanup, Errs
      <3> QED BY <1>2, <3>1, <3>2, <3>3, <3>4, <3>5, <3>6, <3>7, <3>8, <3>9
              DEF Serving, LeaveTimeout, LeaveCancelled
    <2> QED BY <2>1, <2>2 DEF LineInv
  <1>3. ASSUME NEW t \in Tickets,
               \/ Release(t) \/ Janitor(t) \/ Cancel(t) \/ DeadlinePasses(t)
               \/ Crash(t) \/ MarkerExpiry(t)
        PROVE  LineInv'
    <2>1. ASSUME NEW u \in Tickets \ failed', u # t PROVE Lined(u)'
      BY <1>m, <1>3, <2>1, OthersInLine DEF Release, Janitor, JanitorCancel,
         JanitorClean, Cleanup, Cancel, DeadlinePasses, Crash, MarkerExpiry, Goto,
         LineInv
    <2>2. ASSUME t \notin failed' PROVE Lined(t)'
      <3>0. Lined(t)
        BY <1>m, <2>2 DEF LineInv
      <3> USE DEF Lined, TicketInv, States
      <3>1. CASE Release(t)
        BY <3>0, <3>1 DEF Release, Goto
      <3>4. CASE DeadlinePasses(t) \/ Cancel(t)
        BY <3>0, <3>4 DEF DeadlinePasses, Cancel
      <3>2. CASE Janitor(t)
        BY <2>2, <3>0, <3>2 DEF Janitor, JanitorCancel, JanitorClean, Cleanup, Errs
      <3>3. CASE Crash(t) \/ MarkerExpiry(t)
        BY <3>0, <3>3 DEF Crash, MarkerExpiry, Goto
      <3> QED BY <1>3, <3>1, <3>2, <3>3, <3>4
    <2> QED BY <2>1, <2>2 DEF LineInv
  <1>4. ASSUME NEW t \in Tickets, RedisFails(t) PROVE LineInv'
    <2>1. ASSUME NEW u \in Tickets \ failed' PROVE Lined(u)'
      <3>1. u # t /\ u \in Tickets \ failed
        BY <1>m, <1>4 DEF RedisFails, MarkFails, ZaddFails, ProbeFails, ClaimFails,
           TakeFails, ReleaseFails, Errs
      <3> QED BY <1>4, <3>1, FailedStep, OthersInLine DEF LineInv
    <2> QED BY <2>1 DEF LineInv
  <1> QED BY <1>1, <1>2, <1>3, <1>4 DEF Next

LEMMA LineSafe == Spec => []LineInv
  <1>1. Init => LineInv
    BY DEF Init, LineInv, Lined
  <1> QED BY <1>1, TicketsCorrect, LineNext, PTL DEF Spec

\* A waiter that can still be served is in line with its marker, whatever
\* claims it lost and whatever entries the claims of others dropped.
THEOREM NobodyForgotten == Spec => []WaitersAreInLine
  <1>1. LineInv => WaitersAreInLine
    BY DEF LineInv, Lined, WaitersAreInLine
  <1> QED BY <1>1, LineSafe, PTL

\* No entry that the claim script counts belongs to a ticket that is over and
\* that nobody is about to remove.
THEOREM NoGhosts == Spec => []NoGhostInLine
  <1>1. TypeOK /\ LineInv => NoGhostInLine
    BY DEF TypeOK, LineInv, Lined, NoGhostInLine
  <1> QED BY <1>1, TypeCorrect, LineSafe, PTL

------------------------------------------------------------------------------
(* Permits.                                                                 *)

\* A step that moves no ticket between holding and not holding, and leaks
\* nothing, keeps the count of permits in use.
LEMMA SameHolders ==
  ASSUME Holders' = Holders, UNCHANGED <<leaked, stray, counter>>, PermitsAccounted
  PROVE  PermitsAccounted'
  BY DEF PermitsAccounted

LEMMA HoldersFinite == TypeOK => IsFiniteSet(Holders) /\ IsFiniteSet(leaked)
  BY FS_Subset, LimiterAssumption DEF TypeOK, Holders

LEMMA PermitNext ==
  TypeOK /\ TicketInv /\ LeakInv /\ PermitsAccounted /\ [Next]_vars
    => LeakInv' /\ PermitsAccounted'
  <1> SUFFICES ASSUME TypeOK, TicketInv, LeakInv, PermitsAccounted, [Next]_vars
               PROVE  LeakInv' /\ PermitsAccounted'
    OBVIOUS
  <1>f. IsFiniteSet(Holders) /\ IsFiniteSet(leaked)
    BY HoldersFinite
  <1>1. CASE UNCHANGED vars
    BY <1>1 DEF vars, LeakInv, PermitsAccounted, Holders
  <1>2. CASE LeaseExpiry
    BY <1>2 DEF LeaseExpiry, LeakInv, PermitsAccounted
  <1>3. ASSUME NEW t \in Tickets,
               \/ Start(t) \/ NotSent(t) \/ Mark(t) \/ Zadd(t) \/ Probe(t)
               \/ Claim(t) \/ Rezadd(t) \/ Grant(t) \/ Register(t) \/ Poll(t)
               \/ LeaveTimeout(t) \/ LeaveCancelled(t) \/ LeaveClean(t)
        PROVE  LeakInv' /\ PermitsAccounted'
    <2>1. UNCHANGED <<leaked, stray, counter, ctxDone>>
      BY <1>3 DEF Start, NotSent, Mark, Zadd, Probe, Claim, Rezadd, Grant,
         Register, Poll, LeaveTimeout, LeaveCancelled, Leave, LeaveClean
    <2>2. \A u \in Tickets \ {t} : pc'[u] = pc[u]
      BY <1>3 DEF Start, NotSent, Mark, Zadd, Probe, Claim, Rezadd, Grant,
         Register, Poll, LeaveTimeout, LeaveCancelled, Leave, LeaveClean, Send,
         Goto, TypeOK
    <2>3. pc'[t] \in {"won", "running"} <=> pc[t] \in {"won", "running"}
      BY <1>3 DEF Start, NotSent, Mark, Zadd, Probe, Claim, Rezadd, Grant,
         Register, Poll, LeaveTimeout, LeaveCancelled, Leave, LeaveClean, Send,
         Goto, Back, TypeOK
    <2>4. t \in leaked =>
              \/ pc'[t] \in {"done", "dead"}
              \/ ctxDone[t] /\ pc'[t] \in {"register", "wait", "clean"}
      BY <1>3 DEF Start, NotSent, Mark, Zadd, Probe, Claim, Rezadd, Grant,
         Register, Poll, LeaveTimeout, LeaveCancelled, Leave, LeaveClean, Send,
         Goto, Back, TypeOK, LeakInv
    <2>5. Holders' = Holders
      BY <2>2, <2>3 DEF Holders
    <2>6. LeakInv'
      BY <2>1, <2>2, <2>4 DEF LeakInv, TypeOK
    <2>7. QED
      BY <2>1, <2>5, <2>6, SameHolders
  <1>4. ASSUME NEW t \in Tickets, Take(t) PROVE LeakInv' /\ PermitsAccounted'
    <2>1. t \notin leaked /\ t \notin Holders
      BY <1>4 DEF Take, LeakInv, Holders
    <2>2. LeakInv'
      BY <1>4, <2>1 DEF Take, Send, Goto, LeakInv, TypeOK
    <2>3. CASE counter < MaxConcurrent
      <3>1. Holders' = Holders \cup {t}
        BY <1>4, <2>3, LimiterAssumption DEF Take, Goto, Holders, TypeOK
      <3>2. Cardinality(Holders') = Cardinality(Holders) + 1
        BY <3>1, <2>1, <1>f, FS_AddElement
      <3>3. counter' = counter + 1 /\ leaked' = leaked /\ stray' = stray
        BY <1>4, <2>3, LimiterAssumption DEF Take, TypeOK
      <3>4. QED
        BY <2>2, <2>3, <3>2, <3>3, <1>f, FS_CardinalityType, LimiterAssumption
           DEF PermitsAccounted, TypeOK
    <2>4. CASE counter >= MaxConcurrent
      <3>1. Holders' = Holders
        BY <1>4, <2>4, LimiterAssumption
           DEF Take, Send, Goto, Back, Holders, TypeOK
      <3>2. UNCHANGED <<leaked, stray, counter>>
        BY <1>4, <2>4, LimiterAssumption DEF Take, TypeOK
      <3>3. QED
        BY <2>2, <3>1, <3>2, SameHolders
    <2>5. QED
      BY <2>3, <2>4, LimiterAssumption DEF TypeOK
  <1>5. ASSUME NEW t \in Tickets, LoseGrant(t) PROVE LeakInv' /\ PermitsAccounted'
    <2>1. t \in Holders /\ t \notin leaked /\ ctxDone[t]
      BY <1>5 DEF LoseGrant, Holders, LeakInv, TicketInv, TypeOK, States
    <2>2. Holders' = Holders \ {t} /\ leaked' = leaked \cup {t}
      BY <1>5 DEF LoseGrant, Goto, Back, Holders, TypeOK
    <2>3. LeakInv'
      BY <1>5, <2>1 DEF LoseGrant, Goto, Back, LeakInv, TypeOK
    <2>4. /\ Cardinality(Holders') = Cardinality(Holders) - 1
          /\ Cardinality(leaked') = Cardinality(leaked) + 1
      BY <1>f, <2>1, <2>2, FS_AddElement, FS_RemoveElement
    <2>5. counter' = counter /\ stray' = stray
      BY <1>5 DEF LoseGrant
    <2>6. QED
      BY <1>f, <2>3, <2>4, <2>5, FS_CardinalityType DEF PermitsAccounted, TypeOK
  <1>6. ASSUME NEW t \in Tickets, Release(t) PROVE LeakInv' /\ PermitsAccounted'
    <2>1. t \in Holders /\ t \notin leaked
      BY <1>6 DEF Release, Holders, LeakInv
    <2>2. /\ Holders' = Holders \ {t} /\ leaked' = leaked /\ stray' = stray
          /\ counter' = counter - 1
      BY <1>6 DEF Release, Goto, Holders, TypeOK
    <2>3. LeakInv'
      BY <1>6, <2>1 DEF Release, Goto, LeakInv, TypeOK
    <2>4. Cardinality(Holders') = Cardinality(Holders) - 1
      BY <1>f, <2>1, <2>2, FS_RemoveElement
    <2>5. QED
      BY <1>f, <2>2, <2>3, <2>4, FS_CardinalityType, LimiterAssumption
         DEF PermitsAccounted, TypeOK
  <1>7. ASSUME NEW t \in Tickets, Crash(t) PROVE LeakInv' /\ PermitsAccounted'
    <2>1. Holders' = Holders \ {t} /\ counter' = counter /\ stray' = stray
      BY <1>7 DEF Crash, Goto, Holders, TypeOK
    <2>2. LeakInv'
      BY <1>7 DEF Crash, Goto, LeakInv, TypeOK
    <2>3. CASE t \in Holders
      <3>1. t \notin leaked /\ leaked' = leaked \cup {t}
        BY <1>7, <2>3 DEF Crash, LeakInv, Holders
      <3>2. /\ Cardinality(Holders') = Cardinality(Holders) - 1
            /\ Cardinality(leaked') = Cardinality(leaked) + 1
        BY <1>f, <2>1, <2>3, <3>1, FS_AddElement, FS_RemoveElement
      <3>3. QED
        BY <1>f, <2>1, <2>2, <3>2, FS_CardinalityType DEF PermitsAccounted,
           TypeOK
    <2>4. CASE t \notin Holders
      <3>1. Holders' = Holders /\ leaked' = leaked
        BY <1>7, <2>1, <2>4 DEF Crash
      <3>2. QED
        BY <2>1, <2>2, <3>1, SameHolders
    <2>5. QED
      BY <2>3, <2>4
  <1>8. ASSUME NEW t \in Tickets,
               Janitor(t) \/ Cancel(t) \/ DeadlinePasses(t) \/ MarkerExpiry(t)
        PROVE  LeakInv' /\ PermitsAccounted'
    <2>1. UNCHANGED <<leaked, stray, counter, pc>>
      BY <1>8 DEF Janitor, JanitorCancel, JanitorClean, Cancel, DeadlinePasses,
         MarkerExpiry
    <2>2. \A u \in Tickets : ctxDone[u] => ctxDone'[u]
      BY <1>8 DEF Janitor, JanitorCancel, JanitorClean, Cancel, DeadlinePasses,
         MarkerExpiry, TypeOK
    <2>3. QED
      BY <2>1, <2>2, SameHolders DEF LeakInv, Holders, TypeOK
  <1>9. ASSUME NEW t \in Tickets,
               MarkFails(t) \/ ZaddFails(t) \/ ProbeFails(t) \/ ClaimFails(t)
        PROVE  LeakInv' /\ PermitsAccounted'
    <2>1. UNCHANGED <<leaked, stray, counter, ctxDone>>
      BY <1>9 DEF MarkFails, ZaddFails, ProbeFails, ClaimFails
    <2>2. /\ \A u \in Tickets \ {t} : pc'[u] = pc[u]
          /\ pc[t] \notin {"won", "running"} /\ pc'[t] \notin {"won", "running"}
          /\ pc[t] \notin {"register", "wait", "clean", "done", "dead"}
      BY <1>9 DEF MarkFails, ZaddFails, ProbeFails, ClaimFails, Send, Goto, Back, TypeOK
    <2>3. Holders' = Holders /\ t \notin leaked
      BY <2>2 DEF Holders, LeakInv
    <2>4. LeakInv'
      BY <2>1, <2>2, <2>3 DEF LeakInv, TypeOK
    <2>5. QED
      BY <2>1, <2>3, <2>4, SameHolders
  <1>10. ASSUME NEW t \in Tickets, TakeFails(t) PROVE LeakInv' /\ PermitsAccounted'
    <2>1. t \notin leaked /\ leaked' = leaked
      BY <1>10 DEF TakeFails, LeakInv
    <2>2. Holders' = Holders
      BY <1>10 DEF TakeFails, Send, Goto, Back, Holders, TypeOK
    <2>3. LeakInv'
      BY <1>10, <2>1 DEF TakeFails, Send, Goto, LeakInv, TypeOK
    <2>4. \/ UNCHANGED <<counter, stray>>
          \/ counter < MaxConcurrent /\ counter' = counter + 1 /\ stray' = stray + 1
      BY <1>10 DEF TakeFails
    <2>5. QED
      BY <1>f, <2>1, <2>2, <2>3, <2>4, FS_CardinalityType, LimiterAssumption
         DEF PermitsAccounted, TypeOK
  <1>11. ASSUME NEW t \in Tickets, ReleaseFails(t)
         PROVE  LeakInv' /\ PermitsAccounted'
    <2>1. t \in Holders /\ t \notin leaked
      BY <1>11 DEF ReleaseFails, Holders, LeakInv
    <2>2. /\ Holders' = Holders \ {t} /\ leaked' = leaked \cup {t}
          /\ UNCHANGED <<counter, stray>>
      BY <1>11 DEF ReleaseFails, Goto, Holders, TypeOK
    <2>3. LeakInv'
      BY <1>11, <2>1 DEF ReleaseFails, Goto, LeakInv, TypeOK
    <2>4. /\ Cardinality(Holders') = Cardinality(Holders) - 1
          /\ Cardinality(leaked') = Cardinality(leaked) + 1
      BY <1>f, <2>1, <2>2, FS_AddElement, FS_RemoveElement
    <2>5. QED
      BY <1>f, <2>2, <2>3, <2>4, FS_CardinalityType DEF PermitsAccounted, TypeOK
  <1>12. QED
    BY <1>1, <1>2, <1>3, <1>4, <1>5, <1>6, <1>7, <1>8, <1>9, <1>10, <1>11
       DEF Next, Serving, RedisFails

\* The strengthened invariant holds throughout.
LEMMA PermitInvariant ==
  Spec => [](TypeOK /\ TicketInv /\ LeakInv /\ PermitsAccounted)
  <1>1. Init => LeakInv /\ PermitsAccounted
    <2> SUFFICES ASSUME Init PROVE LeakInv /\ PermitsAccounted
      OBVIOUS
    <2>1. Holders = {} /\ leaked = {} /\ counter = 0 /\ stray = 0
      BY DEF Init, Holders
    <2>2. QED
      BY <2>1, FS_EmptySet, LimiterAssumption DEF LeakInv, PermitsAccounted
  <1>2. QED
    BY <1>1, TypeInit, TypeNext, TicketNext, PermitNext, TicketsCorrect, PTL
       DEF Spec

\* While no lease runs out, the counter in Redis is what is held plus what is
\* lost, and at most MaxConcurrent: for every number of calls and instances.
THEOREM PermitsCorrect == Spec => []PermitsAccounted
  BY PermitInvariant, PTL

------------------------------------------------------------------------------
(* Refinement.                                                              *)

Phases == [t \in Tickets |-> Phase(t)]

LEMMA SameCardinality == \A S : Calls!Cardinality(S) = Cardinality(S)
  BY DEF Calls!Cardinality, Cardinality

LEMMA PhaseInit == Init => Calls!Init
  BY DEF Init, Calls!Init, Phase, Unserved

\* A step after which every call is where it was and nothing more is lost is
\* a stuttering step of TicketQueue.
LEMMA PhaseSame ==
  ASSUME \A t \in Tickets : Phase(t)' = Phase(t), leaked' = leaked, stray' = stray
  PROVE  [Calls!Next]_(Calls!vars)
  BY DEF Calls!vars

\* One call moves.
LEMMA PhaseMove ==
  ASSUME NEW t \in Tickets, \A u \in Tickets \ {t} : Phase(u)' = Phase(u)
  PROVE  Phases' = [Phases EXCEPT ![t] = Phase(t)']
  BY DEF Phases

\* A ticket about to be granted leaves room for it among the running ones.
LEMMA Room ==
  ASSUME TypeOK, TicketInv, PermitsAccounted, ~LeaseExpires,
         NEW t \in Tickets, pc[t] = "won"
  PROVE  Calls!Room
  <1>1. Calls!Running \subseteq Holders \ {t}
    BY DEF Calls!Running, Holders, Phase, Unserved, TypeOK, Points, States
  <1>2. IsFiniteSet(Holders) /\ IsFiniteSet(leaked) /\ t \in Holders
    BY HoldersFinite DEF Holders
  <1>3. IsFiniteSet(Holders \ {t}) /\ Cardinality(Holders \ {t}) = Cardinality(Holders) - 1
    BY <1>2, FS_RemoveElement
  <1>4. /\ Cardinality(Calls!Running) <= Cardinality(Holders) - 1
        /\ Cardinality(Calls!Running) \in Nat
    BY <1>1, <1>3, FS_Subset, FS_CardinalityType
  <1>5. QED
    BY <1>2, <1>4, FS_CardinalityType, LimiterAssumption, SameCardinality
       DEF PermitsAccounted, TypeOK, Calls!Room

\* So does a counter below its maximum.
LEMMA CountedRoom ==
  ASSUME TypeOK, PermitsAccounted, ~LeaseExpires, counter < MaxConcurrent
  PROVE  Calls!Room
  <1>1. Calls!Running \subseteq Holders
    BY DEF Calls!Running, Holders, Phase, Unserved, TypeOK, Points, States
  <1>2. IsFiniteSet(Holders) /\ IsFiniteSet(leaked)
    BY HoldersFinite
  <1>3. /\ Cardinality(Calls!Running) <= Cardinality(Holders)
        /\ Cardinality(Calls!Running) \in Nat
    BY <1>1, <1>2, FS_Subset, FS_CardinalityType
  <1>4. QED
    BY <1>2, <1>3, FS_CardinalityType, LimiterAssumption, SameCardinality
       DEF PermitsAccounted, TypeOK, Calls!Room

LEMMA RefinementNext ==
  ASSUME TypeOK, TicketInv, LeakInv, PermitsAccounted, PermitsAccounted',
         TypeOK', ~LeaseExpires, [Next]_vars
  PROVE  [Calls!Next]_(Calls!vars)
  <1> USE DEF TypeOK, States, Points
  <1>1. CASE UNCHANGED vars
    <2>1. \A t \in Tickets : Phase(t)' = Phase(t)
      BY <1>1 DEF vars, Phase, Unserved
    <2>2. QED
      BY <1>1, <2>1, PhaseSame DEF vars
  <1>2. CASE LeaseExpiry
    BY <1>2 DEF LeaseExpiry
  <1>3. ASSUME NEW t \in Tickets,
               \/ Start(t) \/ NotSent(t) \/ Mark(t) \/ Zadd(t) \/ Probe(t)
               \/ Claim(t) \/ Take(t) \/ Rezadd(t) \/ Register(t) \/ Poll(t)
               \/ LeaveClean(t) \/ Cancel(t) \/ DeadlinePasses(t)
               \/ MarkerExpiry(t) \/ JanitorClean(t)
        PROVE  [Calls!Next]_(Calls!vars)
    <2>1. state' = state /\ leaked' = leaked /\ stray' = stray
      BY <1>3 DEF Start, NotSent, Mark, Zadd, Probe, Claim, Take, Rezadd,
         Register, Poll, LeaveClean, Cancel, DeadlinePasses, MarkerExpiry,
         JanitorClean
    <2>2. \A u \in Tickets : (pc'[u] = "dead" <=> pc[u] = "dead")
            /\ (pc'[u] = "running" <=> pc[u] = "running")
      BY <1>3 DEF Start, NotSent, Mark, Zadd, Probe, Claim, Take, Rezadd,
         Register, Poll, LeaveClean, Cancel, DeadlinePasses, MarkerExpiry,
         JanitorClean, Send, Goto, Back
    <2>3. \A u \in Tickets : Phase(u)' = Phase(u)
      BY <2>1, <2>2 DEF Phase, Unserved
    <2>4. QED
      BY <2>1, <2>3, PhaseSame
  <1>4. ASSUME NEW t \in Tickets, Grant(t) PROVE [Calls!Next]_(Calls!vars)
    <2>1. \A u \in Tickets \ {t} : Phase(u)' = Phase(u)
      BY <1>4 DEF Grant, Goto, Phase, Unserved
    <2>2. /\ Phase(t) = "waiting" /\ Phase(t)' = "running"
          /\ leaked' = leaked /\ stray' = stray
      BY <1>4 DEF Grant, Goto, Phase, Unserved
    <2>3. Calls!Admit(t)
      BY <1>4, <2>1, <2>2, PhaseMove, Room
         DEF Grant, Calls!Admit, Calls!Move, Phases
    <2>4. QED
      BY <2>3 DEF Calls!Next
  <1>5. ASSUME NEW t \in Tickets, LoseGrant(t) PROVE [Calls!Next]_(Calls!vars)
    <2>1. \A u \in Tickets : Phase(u)' = Phase(u)
      BY <1>5 DEF LoseGrant, Goto, Back, Phase, Unserved
    <2>2. Phase(t) = "cancelled" /\ leaked' = leaked \cup {t} /\ stray' = stray
      BY <1>5 DEF LoseGrant, Phase, Unserved, TicketInv
    <2>3. Calls!LosePermit(t)
      BY <1>5, <2>1, <2>2, Room DEF LoseGrant, Calls!LosePermit
    <2>4. QED
      BY <2>3 DEF Calls!Next
  <1>6. ASSUME NEW t \in Tickets, Release(t) \/ ReleaseFails(t)
        PROVE  [Calls!Next]_(Calls!vars)
    <2>1. \A u \in Tickets \ {t} : Phase(u)' = Phase(u)
      BY <1>6 DEF Release, ReleaseFails, Goto, Phase, Unserved
    <2>2. /\ Phase(t) = "running" /\ Phase(t)' = "served" /\ stray' = stray
          /\ leaked' \in {leaked, leaked \cup {t}}
      BY <1>6 DEF Release, ReleaseFails, Goto, Phase, Unserved, TicketInv
    <2>3. Calls!Serve(t)
      BY <2>1, <2>2, PhaseMove DEF Calls!Serve, Calls!Move, Phases
    <2>4. QED
      BY <2>3 DEF Calls!Next
  <1>7. ASSUME NEW t \in Tickets,
               LeaveTimeout(t) \/ LeaveCancelled(t) \/ JanitorCancel(t)
        PROVE  [Calls!Next]_(Calls!vars)
    <2>1. \A u \in Tickets \ {t} : Phase(u)' = Phase(u)
      BY <1>7 DEF LeaveTimeout, LeaveCancelled, Leave, JanitorCancel, Goto,
         Phase, Unserved
    <2>2. leaked' = leaked /\ stray' = stray
      BY <1>7 DEF LeaveTimeout, LeaveCancelled, Leave, JanitorCancel
    <2>3. CASE state[t] # "Pending"
      <3>1. Phase(t)' = Phase(t)
        BY <1>7, <2>3 DEF LeaveTimeout, LeaveCancelled, Leave, JanitorCancel,
           Goto, Phase, Unserved
      <3>2. QED
        BY <2>1, <2>2, <3>1, PhaseSame
    <2>4. CASE state[t] = "Pending" /\ pc[t] = "dead"
      <3>1. Phase(t)' = Phase(t)
        BY <1>7, <2>4 DEF LeaveTimeout, LeaveCancelled, Leave, JanitorCancel,
           Phase, Unserved
      <3>2. QED
        BY <2>1, <2>2, <3>1, PhaseSame
    <2>5. CASE state[t] = "Pending" /\ pc[t] # "dead"
      <3>1. Phase(t) = "waiting" /\ Phase(t)' \in {"timedOut", "cancelled"}
        <4>1. state'[t] \in {"Timeout", "Cancelled"} /\ pc'[t] # "dead"
          BY <1>7, <2>5 DEF LeaveTimeout, LeaveCancelled, Leave, JanitorCancel,
             Goto
        <4>2. QED
          BY <2>5, <4>1 DEF Phase, Unserved
      <3>2. Calls!GiveUp(t)
        BY <2>1, <2>2, <3>1, PhaseMove DEF Calls!GiveUp, Calls!Move, Phases
      <3>3. QED
        BY <3>2 DEF Calls!Next
    <2>6. QED
      BY <2>3, <2>4, <2>5
  <1>8. ASSUME NEW t \in Tickets, Crash(t) PROVE [Calls!Next]_(Calls!vars)
    <2>1. \A u \in Tickets \ {t} : Phase(u)' = Phase(u)
      BY <1>8 DEF Crash, Goto, Phase, Unserved
    <2>2. Phase(t) # "dead" /\ Phase(t)' = "dead"
      BY <1>8 DEF Crash, Goto, Phase, Unserved
    <2>3. leaked' \in {leaked, leaked \cup {t}} /\ stray' = stray
      BY <1>8 DEF Crash
    <2>4. {u \in Tickets : Phase(u)' = "running"} \subseteq Holders'
      BY DEF Phase, Unserved, Holders
    <2>5. IsFiniteSet(Holders') /\ IsFiniteSet(leaked')
      BY HoldersFinite, FS_Subset, LimiterAssumption DEF Holders
    <2>6. Cardinality({u \in Tickets : Phase(u)' = "running"}) <= Cardinality(Holders')
          /\ Cardinality({u \in Tickets : Phase(u)' = "running"}) \in Nat
      BY <2>4, <2>5, FS_Subset, FS_CardinalityType
    <2>7. Cardinality({u \in Tickets : Phase(u)' = "running"})
            + Cardinality(leaked') + stray' <= MaxConcurrent
      BY <2>5, <2>6, FS_CardinalityType, LimiterAssumption DEF PermitsAccounted, TypeOK
    <2>8. Calls!Die(t)
      <3>1. Phases' = [Phases EXCEPT ![t] = "dead"]
        BY <2>1, <2>2, PhaseMove
      <3>2. \A u \in Tickets : Phases'[u] = Phase(u)'
        BY DEF Phases
      <3>3. {u \in Tickets : Phases'[u] = "running"}
              = {u \in Tickets : Phase(u)' = "running"}
        BY <3>2
      <3>4. Phases[t] # "dead"
        BY <2>2 DEF Phases
      <3>5. Cardinality({u \in Tickets : Phases'[u] = "running"})
              + Cardinality(leaked') + stray <= MaxConcurrent
        BY <2>3, <2>7, <3>3
      <3>6. Calls!Cardinality({u \in Tickets : Phases'[u] = "running"})
              + Calls!Cardinality(leaked') + stray <= MaxConcurrent
        BY <3>5, SameCardinality, Zenon
      <3> QED BY <2>3, <3>1, <3>4, <3>6 DEF Calls!Die, Phases
    <2>9. QED
      BY <2>8 DEF Calls!Next
  <1>9. ASSUME NEW t \in Tickets,
               \/ MarkFails(t) \/ ZaddFails(t) \/ ProbeFails(t) \/ ClaimFails(t)
               \/ TakeFails(t)
        PROVE  [Calls!Next]_(Calls!vars)
    <2>1. state' = state /\ leaked' = leaked
      BY <1>9 DEF MarkFails, ZaddFails, ProbeFails, ClaimFails, TakeFails
    <2>2. \A u \in Tickets : (pc'[u] = "dead" <=> pc[u] = "dead")
            /\ (pc'[u] = "running" <=> pc[u] = "running")
      BY <1>9 DEF MarkFails, ZaddFails, ProbeFails, ClaimFails, TakeFails, Send,
         Goto, Back
    <2>3. \A u \in Tickets : Phase(u)' = Phase(u)
      BY <2>1, <2>2 DEF Phase, Unserved
    <2>4. CASE stray' = stray
      BY <2>1, <2>3, <2>4, PhaseSame
    <2>5. CASE stray' # stray
      <3>1. pc[t] = "take" /\ counter < MaxConcurrent /\ stray' = stray + 1
        BY <1>9, <2>5 DEF MarkFails, ZaddFails, ProbeFails, ClaimFails, TakeFails
      <3>2. Calls!Room
        BY <3>1, CountedRoom
      <3>3. Phases' = Phases
        BY <2>3 DEF Phases
      <3>4. Calls!StrayPermit
        BY <2>1, <3>1, <3>2, <3>3 DEF Calls!StrayPermit, Phases
      <3> QED BY <3>4 DEF Calls!Next
    <2>6. QED
      BY <2>4, <2>5
  <1>10. QED
    BY <1>1, <1>2, <1>3, <1>4, <1>5, <1>6, <1>7, <1>8, <1>9
       DEF Next, Serving, Janitor, RedisFails

\* While no lease runs out, the limiter is the waiting line TicketQueue
\* describes: at most MaxConcurrent callbacks at once, and each call ends in
\* one way only.
THEOREM Refinement == ~LeaseExpires => (Spec => ImplementsTicketQueue)
  <1> SUFFICES ASSUME ~LeaseExpires PROVE Spec => ImplementsTicketQueue
    OBVIOUS
  <1>1. TypeOK /\ TicketInv /\ LeakInv /\ PermitsAccounted
          /\ (TypeOK /\ PermitsAccounted)' /\ [Next]_vars
          => [Calls!Next]_(Calls!vars)
    BY RefinementNext
  <1>2. QED
    BY <1>1, PhaseInit, PermitInvariant, PTL DEF Spec, ImplementsTicketQueue,
       Calls!Spec
=============================================================================
