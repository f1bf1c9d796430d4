---------------------------- MODULE TicketQueue ----------------------------
(* What framework/ratelimit promises its callers: a bounded number of       *)
(* callbacks run at once, and each call of Acquire ends in exactly one way. *)
(* Nothing is said of Redis, of the waiting line or of goroutines.          *)
(* FairQueueLimiter implements this specification.                          *)
EXTENDS Naturals, FiniteSets

CONSTANTS Tickets,       \* the calls of Acquire
          MaxConcurrent  \* LimiterConfig.MaxConcurrent, positive

VARIABLES phase,  \* how far each call has come
          lost,   \* calls that took a permit away for good
          stray   \* permits that went to no call

vars == <<phase, lost, stray>>

Phases == {"waiting", "running", "served", "timedOut", "cancelled", "dead"}

TypeOK == /\ phase \in [Tickets -> Phases]
          /\ lost \subseteq Tickets /\ stray \in Nat

Running == {t \in Tickets : phase[t] = "running"}

Init == /\ phase = [t \in Tickets |-> "waiting"]
        /\ lost = {} /\ stray = 0

\* A permit is left.
Room == Cardinality(Running) + Cardinality(lost) + stray < MaxConcurrent

Move(t, from, to) == /\ phase[t] = from
                     /\ phase' = [phase EXCEPT ![t] = to]

\* OnAcquire starts: only while a permit is left.
Admit(t) == /\ Room
            /\ Move(t, "waiting", "running")
            /\ UNCHANGED <<lost, stray>>

\* OnAcquire returns; its permit may stay behind.
Serve(t) == /\ Move(t, "running", "served")
            /\ lost' \in {lost, lost \cup {t}} /\ UNCHANGED stray

\* The call ends without OnAcquire having run.
GiveUp(t) == /\ \E how \in {"timedOut", "cancelled"} : Move(t, "waiting", how)
             /\ UNCHANGED <<lost, stray>>

\* A cancelled call takes the permit it had just been given with it.
LosePermit(t) == /\ phase[t] = "cancelled"
                 /\ Room
                 /\ lost' = lost \cup {t}
                 /\ UNCHANGED <<phase, stray>>

\* A permit is counted, and nobody hears of it.
StrayPermit == Room /\ stray' = stray + 1 /\ UNCHANGED <<phase, lost>>

\* The process that made the call dies.
Die(t) == /\ phase[t] # "dead"
          /\ phase' = [phase EXCEPT ![t] = "dead"]
          /\ lost' \in {lost, lost \cup {t}}
          /\ Cardinality({u \in Tickets : phase'[u] = "running"})
               + Cardinality(lost') + stray <= MaxConcurrent
          /\ UNCHANGED stray

Next == \/ \E t \in Tickets : \/ Admit(t) \/ Serve(t) \/ GiveUp(t)
                              \/ LosePermit(t) \/ Die(t)
        \/ StrayPermit

Spec == Init /\ [][Next]_vars
============================================================================
