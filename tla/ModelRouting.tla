---------------------------- MODULE ModelRouting ----------------------------
(* Calls routed over candidate models with a circuit breaker per model:     *)
(* HealthStore and RoutingExecutor (infra/model), StreamChat of             *)
(* RoutingLLMService with its first-packet probe and ProbeBridge, and the   *)
(* goroutine of StreamExecutor that feeds a stream's callback (infra/chat). *)
EXTENDS Naturals, Sequences

CONSTANTS Calls,            \* concurrent calls
          Streams,          \* those of them that stream, the rest being Chat
          Order,            \* the candidates, as the selector sorts them
          FailureThreshold, \* failures in a row that open the breaker
          Nobody            \* no probe yet

ASSUME RoutingAssumption ==
    /\ Streams \subseteq Calls /\ Nobody \notin Calls
    /\ FailureThreshold \in Nat \ {0} /\ Len(Order) \in Nat

Places == 1 .. Len(Order)
Models == {Order[i] : i \in Places}

VARIABLES
    \* HealthStore.data.  A probe's token is a fresh number: the call it was
    \* drawn for stands for it, since a call tries each model once.
    breaker,    \* "closed", "open", "halfOpen"
    failures,   \* consecutiveFailures
    cool,       \* has openUntil passed?
    inFlight,   \* halfOpenInFlight
    token,      \* halfOpenToken
    \* the calls
    pc, place,  \* where a call is, and at which candidate
    targets,    \* the candidates the selector let pass
    probe,      \* does the call's permit carry a token?
    ctxDone,    \* is its context over?
    first,      \* the probe result of the current bridge
    \* its streams, one per model it tried
    stream, cut, packet,
    ended       \* the models whose OnComplete or OnError reached the callback

health == <<breaker, failures, cool, inFlight, token>>
call == <<pc, place, targets, probe, first>>
streams == <<stream, cut, packet, ended>>
vars == <<health, call, ctxDone, streams>>

Points == {"new", "pick", "calling", "probing", "answered", "failed"}

TypeOK ==
    /\ breaker \in [Models -> {"closed", "open", "halfOpen"}]
    /\ failures \in [Models -> 0 .. FailureThreshold - 1]
    /\ cool \in [Models -> BOOLEAN] /\ inFlight \in [Models -> BOOLEAN]
    /\ token \in [Models -> Calls \cup {Nobody}]
    /\ pc \in [Calls -> Points]
    /\ place \in [Calls -> 1 .. Len(Order) + 1]
    /\ targets \in [Calls -> SUBSET Models]
    /\ probe \in [Calls -> BOOLEAN] /\ ctxDone \in [Calls -> BOOLEAN]
    /\ first \in [Calls -> {"none", "success", "failure"}]
    /\ stream \in [Streams -> [Models -> {"none", "open", "line", "over"}]]
    /\ cut \in [Streams -> SUBSET Models] /\ packet \in [Streams -> SUBSET Models]
    /\ ended \in [Streams -> SUBSET Models]
    /\ \A c \in Calls : /\ pc[c] \in {"calling", "probing"} => place[c] \in Places
                        /\ pc[c] = "probing" => c \in Streams

Init ==
    /\ breaker = [m \in Models |-> "closed"] /\ failures = [m \in Models |-> 0]
    /\ cool = [m \in Models |-> TRUE] /\ inFlight = [m \in Models |-> FALSE]
    /\ token = [m \in Models |-> Nobody]
    /\ pc = [c \in Calls |-> "new"] /\ place = [c \in Calls |-> 1]
    /\ targets = [c \in Calls |-> {}] /\ probe = [c \in Calls |-> FALSE]
    /\ ctxDone = [c \in Calls |-> FALSE] /\ first = [c \in Calls |-> "none"]
    /\ stream = [c \in Streams |-> [m \in Models |-> "none"]]
    /\ cut = [c \in Streams |-> {}] /\ packet = [c \in Streams |-> {}]
    /\ ended = [c \in Streams |-> {}]

Model(c) == Order[place[c]]
AtCandidate(c) == pc[c] = "pick" /\ place[c] \in Places

------------------------------------------------------------------------------
(* HealthStore: each operation under its mutex.                             *)

Unavailable(m) == \/ breaker[m] = "open" /\ ~cool[m]
                  \/ breaker[m] = "halfOpen" /\ inFlight[m]

\* Mutant: a half-open breaker lets any call through.
AcquireShared(c, m) ==
    /\ ~(breaker[m] = "open" /\ ~cool[m])
    /\ IF breaker[m] = "closed"
       THEN probe' = [probe EXCEPT ![c] = FALSE] /\ UNCHANGED health
       ELSE /\ probe' = [probe EXCEPT ![c] = TRUE]
            /\ breaker' = [breaker EXCEPT ![m] = "halfOpen"]
            /\ inFlight' = [inFlight EXCEPT ![m] = TRUE]
            /\ token' = [token EXCEPT ![m] = c]
            /\ UNCHANGED <<failures, cool>>

\* AcquirePermit refuses exactly the unavailable; the first one through an open
\* or half-open breaker takes the probe slot.
AcquirePermit(c, m) ==
    /\ ~Unavailable(m)
    /\ IF breaker[m] = "closed"
       THEN probe' = [probe EXCEPT ![c] = FALSE] /\ UNCHANGED health
       ELSE /\ probe' = [probe EXCEPT ![c] = TRUE]
            /\ breaker' = [breaker EXCEPT ![m] = "halfOpen"]
            /\ inFlight' = [inFlight EXCEPT ![m] = TRUE]
            /\ token' = [token EXCEPT ![m] = c]
            /\ UNCHANGED <<failures, cool>>

MarkSuccess(m) ==
    /\ breaker' = [breaker EXCEPT ![m] = "closed"]
    /\ failures' = [failures EXCEPT ![m] = 0]
    /\ cool' = [cool EXCEPT ![m] = TRUE]
    /\ inFlight' = [inFlight EXCEPT ![m] = FALSE]
    /\ UNCHANGED token

\* Mutants: the count goes on when the breaker opens; a failed probe keeps its
\* slot.
CountOn(m) ==
    LET opens == breaker[m] = "halfOpen" \/ failures[m] + 1 >= FailureThreshold
    IN  /\ breaker' = IF opens THEN [breaker EXCEPT ![m] = "open"] ELSE breaker
        /\ cool' = IF opens THEN [cool EXCEPT ![m] = FALSE] ELSE cool
        /\ failures' = [failures EXCEPT ![m] = @ + 1]
        /\ inFlight' = IF opens THEN [inFlight EXCEPT ![m] = FALSE] ELSE inFlight
        /\ UNCHANGED token
KeepSlot(m) ==
    LET opens == breaker[m] = "halfOpen" \/ failures[m] + 1 >= FailureThreshold
    IN  /\ breaker' = IF opens THEN [breaker EXCEPT ![m] = "open"] ELSE breaker
        /\ cool' = IF opens THEN [cool EXCEPT ![m] = FALSE] ELSE cool
        /\ failures' = [failures EXCEPT ![m] = IF opens THEN 0 ELSE @ + 1]
        /\ UNCHANGED <<inFlight, token>>

\* A failed probe opens the breaker at once; so does the last failure of a row,
\* also when an older call fails while the breaker is open already.
MarkFailure(m) ==
    LET probing == breaker[m] = "halfOpen"
        opens == probing \/ failures[m] + 1 >= FailureThreshold
    IN  /\ breaker' = IF opens THEN [breaker EXCEPT ![m] = "open"] ELSE breaker
        /\ cool' = IF opens THEN [cool EXCEPT ![m] = FALSE] ELSE cool
        /\ failures' = [failures EXCEPT ![m] = IF opens THEN 0 ELSE @ + 1]
        /\ inFlight' = IF probing THEN [inFlight EXCEPT ![m] = FALSE] ELSE inFlight
        /\ UNCHANGED token

\* Mutants: any probe's permit frees the slot; none does.
ReleaseAny(c, m) ==
    /\ inFlight' = [inFlight EXCEPT ![m] = @ /\ ~(probe[c] /\ breaker[m] = "halfOpen")]
    /\ UNCHANGED <<breaker, failures, cool, token>>
ReleaseNothing(c, m) == UNCHANGED health

\* The permit of an older round frees nothing.
ReleaseHalfOpenPermit(c, m) ==
    /\ inFlight' = [inFlight EXCEPT ![m] =
                       @ /\ ~(probe[c] /\ breaker[m] = "halfOpen" /\ token[m] = c)]
    /\ UNCHANGED <<breaker, failures, cool, token>>

\* openUntil passes.
Elapse(m) == /\ ~cool[m] /\ cool' = [cool EXCEPT ![m] = TRUE]
             /\ UNCHANGED <<breaker, failures, inFlight, token, call, ctxDone, streams>>

------------------------------------------------------------------------------
(* A call: the loop of ExecuteWithFallback and streamChatWithTier.          *)

\* The candidates of the tier in order, less those the breaker refuses; any may
\* be unavailable by the time the loop reaches it.
Select(c) ==
    /\ pc[c] = "new" /\ pc' = [pc EXCEPT ![c] = "pick"]
    /\ targets' = [targets EXCEPT ![c] = {m \in Models : ~Unavailable(m)}]
    /\ UNCHANGED <<health, place, probe, first, ctxDone, streams>>

NextModel(c) == /\ pc' = [pc EXCEPT ![c] = "pick"]
                /\ place' = [place EXCEPT ![c] = @ + 1]
                /\ UNCHANGED <<targets, probe, first, ctxDone>>

Return(c, how) == /\ pc' = [pc EXCEPT ![c] = how]
                  /\ UNCHANGED <<place, targets, probe, first, ctxDone>>

Skip(c) == /\ AtCandidate(c)
           /\ Model(c) \notin targets[c] \/ Unavailable(Model(c))
           /\ NextModel(c) /\ UNCHANGED <<health, streams>>

Exhausted(c) == /\ pc[c] = "pick" /\ place[c] \notin Places
                /\ Return(c, "failed") /\ UNCHANGED <<health, streams>>

Call(c) == /\ AtCandidate(c) /\ Model(c) \in targets[c]
           /\ AcquirePermit(c, Model(c))
           /\ pc' = [pc EXCEPT ![c] = "calling"]
           /\ first' = [first EXCEPT ![c] = "none"]
           /\ UNCHANGED <<place, targets, ctxDone, streams>>

\* Chat: the executor learns no more of a failure than that it is one.
Reply(c) == /\ pc[c] = "calling" /\ c \notin Streams
            /\ MarkSuccess(Model(c)) /\ Return(c, "answered") /\ UNCHANGED streams
ReplyFails(c) == /\ pc[c] = "calling" /\ c \notin Streams
                 /\ MarkFailure(Model(c)) /\ NextModel(c) /\ UNCHANGED streams

\* StreamChat: the provider cannot be reached, or its stream starts.
Refused(c) == /\ pc[c] = "calling" /\ c \in Streams /\ ~ctxDone[c]
              /\ MarkFailure(Model(c)) /\ NextModel(c) /\ UNCHANGED streams
Open(c) == /\ pc[c] = "calling" /\ c \in Streams
           /\ pc' = [pc EXCEPT ![c] = "probing"]
           /\ stream' = [stream EXCEPT ![c][Model(c)] = "open"]
           /\ UNCHANGED <<health, place, targets, probe, first, ctxDone,
                          cut, packet, ended>>

\* AwaitFirstPacket: the first result, the timeout, or the end of the context;
\* of those that are ready, any.
Cut(c) == /\ cut' = [cut EXCEPT ![c] = @ \cup {Model(c)}]
          /\ UNCHANGED <<stream, packet, ended>>

FirstPacket(c) == /\ pc[c] = "probing" /\ first[c] = "success"
                  /\ MarkSuccess(Model(c)) /\ Return(c, "answered")
                  /\ UNCHANGED streams
NoPacket(c) == /\ pc[c] = "probing"
               /\ MarkFailure(Model(c)) /\ NextModel(c) /\ Cut(c)
Abort(c) == /\ ctxDone[c] /\ c \in Streams
            /\ \/ pc[c] = "calling" /\ UNCHANGED streams
               \/ pc[c] = "probing" /\ Cut(c)
            /\ ReleaseHalfOpenPermit(c, Model(c)) /\ Return(c, "failed")

\* The request is cancelled, or its deadline passes.
Cancel(c) == /\ pc[c] # "new" /\ ~ctxDone[c]
             /\ ctxDone' = [ctxDone EXCEPT ![c] = TRUE]
             /\ UNCHANGED <<health, call, streams>>

------------------------------------------------------------------------------
(* The goroutine of a stream, and the bridge it calls.                      *)

Reader == UNCHANGED <<health, pc, place, targets, probe, ctxDone, cut>>

\* Only the first notification of the current bridge is looked at.
Notify(c, m, result) ==
    first' = IF pc[c] = "probing" /\ Model(c) = m /\ first[c] = "none"
             THEN [first EXCEPT ![c] = result] ELSE first

Ends(c, m) == /\ stream' = [stream EXCEPT ![c][m] = "over"]
              /\ ended' = [ended EXCEPT ![c] = @ \cup {m}]
              /\ IF m \in packet[c] THEN UNCHANGED first ELSE Notify(c, m, "failure")
              /\ UNCHANGED packet /\ Reader

\* A line has arrived, and the handle was not cancelled when it was looked at.
Scan(c, m) == /\ stream[c][m] = "open" /\ m \notin cut[c]
              /\ stream' = [stream EXCEPT ![c][m] = "line"]
              /\ UNCHANGED <<first, packet, ended>> /\ Reader
OnContent(c, m) == /\ stream[c][m] = "line"
                   /\ stream' = [stream EXCEPT ![c][m] = "open"]
                   /\ packet' = [packet EXCEPT ![c] = @ \cup {m}]
                   /\ Notify(c, m, "success")
                   /\ UNCHANGED ended /\ Reader
OnComplete(c, m) == stream[c][m] = "line" /\ Ends(c, m)

\* The body breaks or ends without a last event: the handle is looked at before
\* the callback, and not at all when the status was an error.
OnError(c, m) == stream[c][m] = "open" /\ Ends(c, m)

\* The body of a cut stream ends, and no one is called back.
Drop(c, m) == /\ stream[c][m] = "open" /\ m \in cut[c]
              /\ stream' = [stream EXCEPT ![c][m] = "over"]
              /\ UNCHANGED <<first, packet, ended>> /\ Reader

------------------------------------------------------------------------------
Progress(c) == \/ Select(c) \/ Skip(c) \/ Exhausted(c) \/ Call(c)
               \/ Reply(c) \/ ReplyFails(c) \/ Refused(c) \/ Open(c)
               \/ FirstPacket(c) \/ NoPacket(c) \/ Abort(c)
Read(c, m) == Scan(c, m) \/ OnContent(c, m) \/ OnComplete(c, m)
              \/ OnError(c, m) \/ Drop(c, m)

Next == \/ \E c \in Calls : Progress(c) \/ Cancel(c)
        \/ \E c \in Streams, m \in Models : Read(c, m)
        \/ \E m \in Models : Elapse(m)

Spec == Init /\ [][Next]_vars

\* Calls go on: each attempt has a timeout or ends with its context.  Time
\* passes.  A model need not send anything.
FairSpec == /\ Spec
            /\ \A c \in Calls : WF_vars(Progress(c))
            /\ \A m \in Models : WF_vars(Elapse(m))

------------------------------------------------------------------------------
(* What must never happen.                                                  *)

\* A taken probe slot belongs to a call that is still at that model: no call
\* leaves a model behind that nobody may probe again.
ProbeHasHolder ==
    \A m \in Models :
        inFlight[m] => /\ breaker[m] = "halfOpen"
                       /\ token[m] \in Calls
                       /\ pc[token[m]] \in {"calling", "probing"}
                       /\ probe[token[m]] /\ Model(token[m]) = m

\* A slot is freed without a verdict on the model only by the call that holds
\* it, when its request is cancelled (health_test.go: a stale permit's release
\* must not free the new probe slot).
OnlyHolderReleases ==
    [][\A m \in Models :
          inFlight[m] /\ ~inFlight'[m] /\ breaker'[m] = "halfOpen"
              => pc'[token[m]] = "failed" /\ ctxDone[token[m]]]_vars

------------------------------------------------------------------------------
(* The routing implements CircuitBreaker.                                   *)

\* An open model whose time has passed lets a probe in.
Mode(m) == IF breaker[m] = "open" /\ cool[m] THEN "halfOpen" ELSE breaker[m]
At(m) == {c \in Calls : pc[c] \in {"calling", "probing"} /\ Model(c) = m}
Prober(m) == IF inFlight[m] THEN token[m] ELSE Nobody

Breaker == INSTANCE CircuitBreaker WITH mode <- [m \in Models |-> Mode(m)],
                                        at <- [m \in Models |-> At(m)],
                                        prober <- [m \in Models |-> Prober(m)]

\* Whatever the calls do, cancelled or stale ones too, an open model is left alone
\* until its time has passed and then probed by one call at a time.
ImplementsBreaker == Breaker!Spec

------------------------------------------------------------------------------
(* What must happen.                                                        *)

\* A model becomes available again, whatever its calls do.
BreakerRecovers == \A m \in Models : Unavailable(m) ~> ~Unavailable(m)

------------------------------------------------------------------------------
(* What the documents say and the code does not do.                         *)

\* README.md: first-packet probing with failover.  A model that answers finds
\* a callback that has not been told of an end.
FallbackIsHeard ==
    \A c \in Streams : pc[c] = "answered" => ended[c] \subseteq {Model(c)}
=============================================================================
