--------------------------- MODULE CircuitBreaker ---------------------------
(* What HealthStore promises those who call models: a closed model takes    *)
(* any call, an open one none until its time has passed, and then one probe *)
(* at a time, whose end is known: a verdict, or the end of its caller.      *)
(* Nothing is said of failure counts, permits and tokens, nor of how a call *)
(* goes from model to model.  ModelRouting implements this specification.   *)
CONSTANTS Models, Calls,
          Nobody   \* no probe, not a call

VARIABLES mode,    \* what each model lets in
          at,      \* the calls that are at each model
          prober   \* the one that probes a half-open model

vars == <<mode, at, prober>>

TypeOK == /\ mode \in [Models -> {"closed", "open", "halfOpen"}]
          /\ at \in [Models -> SUBSET Calls]
          /\ prober \in [Models -> Calls \cup {Nobody}]

Init == /\ mode = [m \in Models |-> "closed"]
        /\ at = [m \in Models |-> {}]
        /\ prober = [m \in Models |-> Nobody]

\* A call is at one model at a time.
Enter(c, m) == /\ \A n \in Models : c \notin at[n]
               /\ at' = [at EXCEPT ![m] = @ \cup {c}]
Leave(c, m) == c \in at[m] /\ at' = [at EXCEPT ![m] = @ \ {c}]

Admit(c, m) == mode[m] = "closed" /\ Enter(c, m) /\ UNCHANGED <<mode, prober>>

Probe(c, m) == /\ mode[m] = "halfOpen" /\ prober[m] = Nobody
               /\ Enter(c, m) /\ prober' = [prober EXCEPT ![m] = c]
               /\ UNCHANGED mode

\* A success closes the breaker, whoever's it is.
Succeed(c, m) == /\ Leave(c, m)
                 /\ mode' = [mode EXCEPT ![m] = "closed"]
                 /\ prober' = [prober EXCEPT ![m] = Nobody]

\* A failure may open it, and does so if a probe is under way.
Fail(c, m) == /\ Leave(c, m)
              /\ \/ mode' = [mode EXCEPT ![m] = "open"]
                    /\ prober' = [prober EXCEPT ![m] = Nobody]
                 \/ prober[m] = Nobody /\ UNCHANGED <<mode, prober>>

\* A caller that goes away decides nothing, and gives back its own probe only.
Abandon(c, m) == /\ Leave(c, m) /\ UNCHANGED mode
                 /\ prober' = IF prober[m] = c THEN [prober EXCEPT ![m] = Nobody]
                              ELSE prober

\* The time of an open model passes.
Wait(m) == /\ mode[m] = "open" /\ mode' = [mode EXCEPT ![m] = "halfOpen"]
           /\ UNCHANGED <<at, prober>>

Next == \E m \in Models :
            \/ Wait(m)
            \/ \E c \in Calls : \/ Admit(c, m) \/ Probe(c, m) \/ Succeed(c, m)
                                \/ Fail(c, m) \/ Abandon(c, m)

Spec == Init /\ [][Next]_vars
=============================================================================
