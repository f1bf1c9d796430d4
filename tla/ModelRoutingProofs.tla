-------------------------- MODULE ModelRoutingProofs --------------------------
(* Proofs about ModelRouting, for any calls, candidates and threshold: its    *)
(* types, its probe slots, and that it implements CircuitBreaker.             *)
EXTENDS ModelRouting, TLAPS

USE RoutingAssumption

------------------------------------------------------------------------------
(* The operations of the health store keep its types.                         *)

HealthTyped ==
    /\ breaker \in [Models -> {"closed", "open", "halfOpen"}]
    /\ failures \in [Models -> 0 .. FailureThreshold - 1]
    /\ cool \in [Models -> BOOLEAN] /\ inFlight \in [Models -> BOOLEAN]
    /\ token \in [Models -> Calls \cup {Nobody}]

\* The routing loop's own variables.
CallTyped ==
    /\ pc \in [Calls -> Points]
    /\ place \in [Calls -> 1 .. Len(Order) + 1]
    /\ targets \in [Calls -> SUBSET Models]
    /\ probe \in [Calls -> BOOLEAN]
    /\ first \in [Calls -> {"none", "success", "failure"}]
    /\ \A c \in Calls : /\ pc[c] \in {"calling", "probing"} => place[c] \in Places
                        /\ pc[c] = "probing" => c \in Streams

StreamTyped ==
    /\ stream \in [Streams -> [Models -> {"none", "open", "line", "over"}]]
    /\ cut \in [Streams -> SUBSET Models] /\ packet \in [Streams -> SUBSET Models]
    /\ ended \in [Streams -> SUBSET Models]

LEMMA TypeParts ==
    TypeOK <=> HealthTyped /\ CallTyped /\ ctxDone \in [Calls -> BOOLEAN] /\ StreamTyped
BY DEF TypeOK, HealthTyped, CallTyped, StreamTyped

LEMMA AcquireTyped ==
    ASSUME HealthTyped, NEW c \in Calls, NEW m \in Models, AcquirePermit(c, m)
    PROVE  HealthTyped'
BY DEF HealthTyped, AcquirePermit, health

LEMMA SuccessTyped ==
    ASSUME HealthTyped, NEW m \in Models, MarkSuccess(m)
    PROVE  HealthTyped'
BY DEF HealthTyped, MarkSuccess

LEMMA FailureTyped ==
    ASSUME HealthTyped, NEW m \in Models, MarkFailure(m)
    PROVE  HealthTyped'
BY DEF HealthTyped, MarkFailure

LEMMA ReleaseTyped ==
    ASSUME HealthTyped, NEW c \in Calls, NEW m \in Models,
           ReleaseHalfOpenPermit(c, m)
    PROVE  HealthTyped'
BY DEF HealthTyped, ReleaseHalfOpenPermit

LEMMA InitTyped == Init => TypeOK
<1>1. Init => HealthTyped
  BY DEF Init, HealthTyped
<1>2. Init => CallTyped
  BY DEF Init, CallTyped, Points
<1>3. Init => ctxDone \in [Calls -> BOOLEAN]
  BY DEF Init
<1>4. Init => StreamTyped
  BY DEF Init, StreamTyped
<1> QED BY <1>1, <1>2, <1>3, <1>4, TypeParts

\* A call moves on to the next candidate from one it is at.
LEMMA NextModelTyped ==
    ASSUME CallTyped, NEW c \in Calls, place[c] \in Places, NextModel(c)
    PROVE  CallTyped'
BY DEF CallTyped, NextModel, Points, Places

LEMMA ReturnTyped ==
    ASSUME CallTyped, NEW c \in Calls, NEW how \in {"answered", "failed"},
           Return(c, how)
    PROVE  CallTyped'
BY DEF CallTyped, Return, Points

LEMMA ProgressTyped ==
    ASSUME TypeOK, NEW c \in Calls, Progress(c)
    PROVE  TypeOK'
<1>1. HealthTyped /\ CallTyped /\ ctxDone \in [Calls -> BOOLEAN] /\ StreamTyped
  BY TypeParts
<1>2. pc[c] \in {"calling", "probing"} => Model(c) \in Models
  BY <1>1 DEF CallTyped, Model, Models
<1>3. pc[c] \in {"calling", "probing"} => place[c] \in Places
  BY <1>1 DEF CallTyped
<1>4. ctxDone' = ctxDone
  BY DEF Progress, Select, Skip, Exhausted, Call, Reply, ReplyFails, Refused, Open,
         FirstPacket, NoPacket, Abort, NextModel, Return
<1>5. HealthTyped'
  <2>1. CASE Call(c)
    <3>1. Model(c) \in Models
      BY <2>1 DEF Call, AtCandidate, Model, Models
    <3> QED BY <1>1, <2>1, <3>1, AcquireTyped DEF Call
  <2>2. CASE Reply(c) \/ FirstPacket(c)
    BY <1>1, <1>2, <2>2, SuccessTyped DEF Reply, FirstPacket
  <2>3. CASE ReplyFails(c) \/ Refused(c) \/ NoPacket(c)
    BY <1>1, <1>2, <2>3, FailureTyped DEF ReplyFails, Refused, NoPacket
  <2>4. CASE Abort(c)
    BY <1>1, <1>2, <2>4, ReleaseTyped DEF Abort
  <2>5. CASE Select(c) \/ Skip(c) \/ Exhausted(c) \/ Open(c)
    BY <1>1, <2>5 DEF Select, Skip, Exhausted, Open, health, HealthTyped
  <2> QED BY <2>1, <2>2, <2>3, <2>4, <2>5 DEF Progress
<1>6. CallTyped'
  <2>1. CASE Skip(c) \/ ReplyFails(c) \/ Refused(c) \/ NoPacket(c)
    BY <1>1, <1>3, <2>1, NextModelTyped
       DEF Skip, ReplyFails, Refused, NoPacket, AtCandidate
  <2>2. CASE Exhausted(c) \/ Reply(c) \/ FirstPacket(c) \/ Abort(c)
    BY <1>1, <2>2, ReturnTyped DEF Exhausted, Reply, FirstPacket, Abort
  <2>3. CASE Select(c)
    BY <1>1, <2>3 DEF Select, CallTyped, Points
  <2>4. CASE Call(c)
    <3>1. probe' \in [Calls -> BOOLEAN]
      BY <1>1, <2>4 DEF Call, AcquirePermit, CallTyped
    <3> QED BY <1>1, <2>4, <3>1 DEF Call, AtCandidate, CallTyped, Points
  <2>5. CASE Open(c)
    BY <1>1, <2>5 DEF Open, CallTyped, Points
  <2> QED BY <2>1, <2>2, <2>3, <2>4, <2>5 DEF Progress
<1>7. StreamTyped'
  <2>1. CASE Open(c)
    BY <1>1, <1>2, <2>1 DEF Open, StreamTyped
  <2>2. CASE Cut(c) /\ c \in Streams /\ pc[c] = "probing"
    BY <1>1, <1>2, <2>2 DEF Cut, StreamTyped
  <2>3. CASE UNCHANGED streams
    BY <1>1, <2>3 DEF streams, StreamTyped
  <2>4. CASE NoPacket(c) \/ Abort(c)
    BY <1>1, <2>2, <2>3, <2>4 DEF NoPacket, Abort, CallTyped
  <2> QED
    BY <2>1, <2>2, <2>3, <2>4
       DEF Progress, Select, Skip, Exhausted, Call, Reply, ReplyFails, Refused,
           FirstPacket
<1> QED BY <1>1, <1>4, <1>5, <1>6, <1>7 DEF TypeOK, HealthTyped, CallTyped, StreamTyped

LEMMA ReadTyped ==
    ASSUME TypeOK, NEW c \in Streams, NEW m \in Models, Read(c, m)
    PROVE  TypeOK'
<1>1. HealthTyped /\ CallTyped /\ ctxDone \in [Calls -> BOOLEAN] /\ StreamTyped
  BY TypeParts
<1>2. UNCHANGED <<health, pc, place, targets, probe, ctxDone, cut>>
  BY DEF Read, Scan, OnContent, OnComplete, OnError, Drop, Ends, Reader
<1>3. first' \in [Calls -> {"none", "success", "failure"}]
  BY <1>1
     DEF Read, Scan, OnContent, OnComplete, OnError, Drop, Ends, Notify, CallTyped
<1>4. StreamTyped'
  <2>1. CASE Scan(c, m)
    BY <1>1, <2>1 DEF Scan, Reader, StreamTyped
  <2>2. CASE OnContent(c, m)
    BY <1>1, <2>2 DEF OnContent, Reader, StreamTyped
  <2>3. CASE OnComplete(c, m) \/ OnError(c, m)
    <3>1. /\ stream' = [stream EXCEPT ![c][m] = "over"]
          /\ ended' = [ended EXCEPT ![c] = @ \cup {m}]
          /\ packet' = packet /\ cut' = cut
      BY <2>3 DEF OnComplete, OnError, Ends, Reader
    <3> QED BY <1>1, <3>1 DEF StreamTyped
  <2>4. CASE Drop(c, m)
    BY <1>1, <2>4 DEF Drop, Reader, StreamTyped
  <2> QED BY <2>1, <2>2, <2>3, <2>4 DEF Read
<1>5. HealthTyped' /\ (ctxDone \in [Calls -> BOOLEAN])'
  BY <1>1, <1>2 DEF HealthTyped, health
<1>6. CallTyped'
  BY <1>1, <1>2, <1>3 DEF CallTyped
<1> QED BY <1>4, <1>5, <1>6 DEF TypeOK, HealthTyped, CallTyped, StreamTyped

LEMMA TypeStep == TypeOK /\ [Next]_vars => TypeOK'
<1> SUFFICES ASSUME TypeOK, [Next]_vars PROVE TypeOK'
  OBVIOUS
<1>1. HealthTyped /\ CallTyped /\ ctxDone \in [Calls -> BOOLEAN] /\ StreamTyped
  BY TypeParts
<1>2. ASSUME NEW c \in Calls, Cancel(c) PROVE TypeOK'
  <2>1. (ctxDone \in [Calls -> BOOLEAN])'
    BY <1>1, <1>2 DEF Cancel
  <2>2. HealthTyped' /\ CallTyped' /\ StreamTyped'
    BY <1>1, <1>2
       DEF Cancel, HealthTyped, CallTyped, StreamTyped, health, call, streams
  <2> QED BY <2>1, <2>2 DEF TypeOK, HealthTyped, CallTyped, StreamTyped
<1>3. ASSUME NEW m \in Models, Elapse(m) PROVE TypeOK'
  <2>1. (cool \in [Models -> BOOLEAN])'
    BY <1>1, <1>3 DEF Elapse, HealthTyped
  <2>2. HealthTyped'
    BY <1>1, <1>3, <2>1 DEF Elapse, HealthTyped
  <2>3. CallTyped' /\ StreamTyped' /\ (ctxDone \in [Calls -> BOOLEAN])'
    BY <1>1, <1>3 DEF Elapse, CallTyped, StreamTyped, call, streams
  <2> QED BY <2>2, <2>3 DEF TypeOK, HealthTyped, CallTyped, StreamTyped
<1>4. CASE UNCHANGED vars
  BY <1>4 DEF vars, health, call, streams, TypeOK
<1> QED BY <1>2, <1>3, <1>4, ProgressTyped, ReadTyped DEF Next

\* Every variable keeps its type; in particular the count of failures in a row
\* stays below the threshold (MarkFailure).
THEOREM TypeCorrect == Spec => []TypeOK
BY InitTyped, TypeStep, PTL DEF Spec

------------------------------------------------------------------------------
(* A taken probe slot has a holder.  Per model, so that a step is looked at   *)
(* where it acts and everywhere else.                                         *)

Held(m) == inFlight[m] => /\ breaker[m] = "halfOpen"
                          /\ token[m] \in Calls
                          /\ pc[token[m]] \in {"calling", "probing"}
                          /\ probe[token[m]] /\ Model(token[m]) = m

\* A model whose slot and holder a step leaves alone.
LEMMA HeldElsewhere ==
    ASSUME TypeOK, NEW m \in Models, Held(m),
           inFlight'[m] = inFlight[m], breaker'[m] = breaker[m], token'[m] = token[m],
           inFlight[m] => /\ pc'[token[m]] \in {"calling", "probing"}
                          /\ probe'[token[m]] = probe[token[m]]
                          /\ place'[token[m]] = place[token[m]]
    PROVE  Held(m)'
BY DEF Held, Model

\* The call that acts on its model, the only one whose slot it may hold.
LEMMA HeldByOthers ==
    ASSUME TypeOK, NEW c \in Calls, NEW m \in Models, Held(m), inFlight[m],
           pc[c] \in {"calling", "probing"} => Model(c) # m
    PROVE  token[m] \in Calls \ {c}
BY DEF Held

LEMMA HeldStep ==
    ASSUME TypeOK, [Next]_vars, NEW m \in Models, Held(m)
    PROVE  Held(m)'
<1>1. ASSUME NEW c \in Calls, Call(c) PROVE Held(m)'
  <2>1. pc[c] = "pick" /\ Model(c) \in Models
        /\ pc' = [pc EXCEPT ![c] = "calling"] /\ place' = place
    BY <1>1 DEF Call, AtCandidate, Model, Models
  <2>2. \A x \in Calls \ {c} : pc'[x] = pc[x] /\ probe'[x] = probe[x]
    BY <1>1, <2>1 DEF Call, AcquirePermit, TypeOK
  <2>3. inFlight[m] => token[m] \in Calls \ {c}
    BY <2>1, HeldByOthers
  <2>4. CASE breaker[Model(c)] = "closed" \/ Model(c) # m
    <3>1. inFlight'[m] = inFlight[m] /\ breaker'[m] = breaker[m]
          /\ token'[m] = token[m]
      BY <1>1, <2>1, <2>4 DEF Call, AcquirePermit, health, TypeOK
    <3> QED BY <2>1, <2>2, <2>3, <3>1, HeldElsewhere DEF Held
  <2>5. CASE breaker[Model(c)] # "closed" /\ Model(c) = m
    <3>1. breaker'[m] = "halfOpen" /\ token'[m] = c /\ probe'[c] = TRUE
      BY <1>1, <2>1, <2>5 DEF Call, AcquirePermit, TypeOK
    <3>2. pc'[c] = "calling" /\ Model(c)' = m
      BY <2>1, <2>5 DEF Model, TypeOK
    <3> QED BY <3>1, <3>2 DEF Held
  <2> QED BY <2>4, <2>5
\* The verdicts free the slot of their model.
<1>2. ASSUME NEW c \in Calls, pc[c] \in {"calling", "probing"},
             MarkSuccess(Model(c)) \/ MarkFailure(Model(c)),
             \A x \in Calls \ {c} :
                pc'[x] = pc[x] /\ probe'[x] = probe[x] /\ place'[x] = place[x]
      PROVE  Held(m)'
  <2>1. CASE Model(c) = m
    <3>1. CASE MarkSuccess(m)
      <4>1. ~inFlight'[m]
        BY <3>1 DEF MarkSuccess, TypeOK
      <4> QED BY <4>1 DEF Held
    <3>2. CASE MarkFailure(m)
      <4>1. CASE breaker[m] = "halfOpen"
        <5>1. ~inFlight'[m]
          BY <3>2, <4>1 DEF MarkFailure, TypeOK
        <5> QED BY <5>1 DEF Held
      <4>2. CASE breaker[m] # "halfOpen"
        <5>1. inFlight' = inFlight /\ ~inFlight[m]
          BY <3>2, <4>2 DEF MarkFailure, Held
        <5> QED BY <5>1 DEF Held
      <4> QED BY <4>1, <4>2
    <3> QED BY <1>2, <2>1, <3>1, <3>2
  <2>2. CASE Model(c) # m
    <3>1. Model(c) \in Models
      BY <1>2 DEF TypeOK, Model, Models
    <3>2. inFlight'[m] = inFlight[m] /\ breaker'[m] = breaker[m]
          /\ token'[m] = token[m]
      BY <1>2, <2>2, <3>1 DEF MarkSuccess, MarkFailure, TypeOK
    <3>3. inFlight[m] => token[m] \in Calls \ {c}
      BY <1>2, <2>2, HeldByOthers
    <3> QED BY <1>2, <3>2, <3>3, HeldElsewhere DEF Held
  <2> QED BY <2>1, <2>2
<1>3. ASSUME NEW c \in Calls,
             Reply(c) \/ FirstPacket(c) \/ ReplyFails(c) \/ Refused(c) \/ NoPacket(c)
      PROVE  Held(m)'
  <2>1. \A x \in Calls \ {c} :
            pc'[x] = pc[x] /\ probe'[x] = probe[x] /\ place'[x] = place[x]
    BY <1>3 DEF Reply, FirstPacket, ReplyFails, Refused, NoPacket, Return, NextModel,
                TypeOK
  <2>2. pc[c] \in {"calling", "probing"}
        /\ (MarkSuccess(Model(c)) \/ MarkFailure(Model(c)))
    BY <1>3 DEF Reply, FirstPacket, ReplyFails, Refused, NoPacket
  <2> QED BY <1>2, <2>1, <2>2
\* A cancelled call frees its own slot, and no other's.
<1>4. ASSUME NEW c \in Calls, Abort(c) PROVE Held(m)'
  <2>1. pc[c] \in {"calling", "probing"} /\ UNCHANGED <<place, probe, breaker, token>>
        /\ \A x \in Calls \ {c} : pc'[x] = pc[x]
    BY <1>4 DEF Abort, Return, ReleaseHalfOpenPermit, TypeOK
  <2>2. Model(c) \in Models
    BY <2>1 DEF TypeOK, Model, Models
  <2>3. CASE inFlight[m] /\ token[m] = c
    <3>1. Model(c) = m /\ breaker[m] = "halfOpen" /\ probe[c]
      BY <2>3 DEF Held
    <3>2. ~inFlight'[m]
      BY <1>4, <2>3, <3>1 DEF Abort, ReleaseHalfOpenPermit, TypeOK
    <3> QED BY <3>2 DEF Held
  <2>4. CASE ~inFlight[m]
    <3>1. ~inFlight'[m]
      BY <1>4, <2>2, <2>4 DEF Abort, ReleaseHalfOpenPermit, TypeOK
    <3> QED BY <3>1 DEF Held
  <2>5. CASE inFlight[m] /\ token[m] # c
    <3>1. inFlight'[m] = inFlight[m]
      BY <1>4, <2>2, <2>5 DEF Abort, ReleaseHalfOpenPermit, TypeOK
    <3>2. token[m] \in Calls \ {c}
      BY <2>5 DEF Held
    <3> QED BY <2>1, <3>1, <3>2, HeldElsewhere DEF Held
  <2> QED BY <2>3, <2>4, <2>5
<1>5. ASSUME NEW c \in Calls, Open(c) PROVE Held(m)'
  <2>1. UNCHANGED <<place, probe, breaker, token, inFlight>>
        /\ \A x \in Calls : pc'[x] = pc[x] \/ pc'[x] = "probing"
    BY <1>5 DEF Open, health, TypeOK
  <2> QED BY <2>1, HeldElsewhere DEF Held
<1>6. ASSUME NEW c \in Calls, Select(c) \/ Skip(c) \/ Exhausted(c) PROVE Held(m)'
  <2>1. pc[c] \in {"new", "pick"} /\ UNCHANGED <<breaker, token, inFlight>>
        /\ \A x \in Calls \ {c} :
              pc'[x] = pc[x] /\ probe'[x] = probe[x] /\ place'[x] = place[x]
    BY <1>6 DEF Select, Skip, Exhausted, AtCandidate, NextModel, Return, health, TypeOK
  <2>2. inFlight[m] => token[m] \in Calls \ {c}
    BY <2>1, HeldByOthers
  <2> QED BY <2>1, <2>2, HeldElsewhere DEF Held
<1>7. CASE UNCHANGED <<breaker, inFlight, token, pc, place, probe>>
  BY <1>7, HeldElsewhere DEF Held
<1>8. ASSUME NEW c \in Streams, NEW x \in Models, Read(c, x) PROVE Held(m)'
  BY <1>7, <1>8
     DEF Read, Scan, OnContent, OnComplete, OnError, Drop, Ends, Reader, health
<1>9. CASE (\E c \in Calls : Cancel(c)) \/ (\E x \in Models : Elapse(x))
  BY <1>7, <1>9 DEF Cancel, Elapse, health, call
<1>10. CASE UNCHANGED vars
  BY <1>7, <1>10 DEF vars, health, call
<1> QED
  BY <1>1, <1>3, <1>4, <1>5, <1>6, <1>8, <1>9, <1>10 DEF Next, Progress

\* No call leaves a model behind whose probe slot is taken: whoever took it is
\* still at that model (HealthStore.AcquirePermit, MarkSuccess, MarkFailure and
\* ReleaseHalfOpenPermit, as the routing loops call them).
THEOREM ProbesHaveHolders == Spec => []ProbeHasHolder
<1>1. ProbeHasHolder <=> \A m \in Models : Held(m)
  BY DEF ProbeHasHolder, Held
<1>2. Init => ProbeHasHolder
  BY DEF Init, ProbeHasHolder
<1>3. TypeOK /\ ProbeHasHolder /\ [Next]_vars => ProbeHasHolder'
  <2>1. (\A m \in Models : Held(m)') => ProbeHasHolder'
    BY DEF ProbeHasHolder, Held
  <2> QED BY <1>1, <2>1, HeldStep
<1> QED BY <1>2, <1>3, InitTyped, TypeStep, PTL DEF Spec

------------------------------------------------------------------------------
(* Who frees a slot.                                                          *)

\* A slot is freed without a verdict only by its holder, whose request is over
\* (ReleaseHalfOpenPermit compares the tokens).
THEOREM HoldersRelease == Spec => OnlyHolderReleases
<1> DEFINE Releases ==
      \A m \in Models :
          inFlight[m] /\ ~inFlight'[m] /\ breaker'[m] = "halfOpen"
              => pc'[token[m]] = "failed" /\ ctxDone[token[m]]
<1>1. TypeOK /\ [Next]_vars => [Releases]_vars
  <2> SUFFICES ASSUME TypeOK, [Next]_vars, NEW m \in Models,
                      inFlight[m], ~inFlight'[m], breaker'[m] = "halfOpen"
               PROVE  pc'[token[m]] = "failed" /\ ctxDone[token[m]]
    OBVIOUS
  <2>1. ASSUME NEW x \in Models, MarkSuccess(x) \/ MarkFailure(x) PROVE FALSE
    BY <2>1 DEF MarkSuccess, MarkFailure, TypeOK
  <2>2. ASSUME NEW c \in Calls, pc[c] \in {"calling", "probing"}
        PROVE  Model(c) \in Models
    BY <2>2 DEF TypeOK, Model, Models
  <2>3. ASSUME NEW c \in Calls, Abort(c)
        PROVE  pc'[token[m]] = "failed" /\ ctxDone[token[m]]
    <3>1. token[m] = c
      <4>1. Model(c) \in Models
        BY <2>2, <2>3 DEF Abort
      <4> QED
        BY <2>3, <4>1 DEF Abort, ReleaseHalfOpenPermit, TypeOK
    <3>2. ctxDone[c] /\ pc'[c] = "failed"
      BY <2>3 DEF Abort, Return, TypeOK
    <3> QED BY <3>1, <3>2
  <2>4. ASSUME NEW c \in Calls,
               Reply(c) \/ FirstPacket(c) \/ ReplyFails(c) \/ Refused(c) \/ NoPacket(c)
        PROVE  FALSE
    BY <2>1, <2>2, <2>4 DEF Reply, FirstPacket, ReplyFails, Refused, NoPacket
  <2>5. ASSUME NEW c \in Calls, Call(c) PROVE FALSE
    <3>1. Model(c) \in Models
      BY <2>5 DEF Call, AtCandidate, Model, Models
    <3> QED BY <2>5, <3>1 DEF Call, AcquirePermit, health, TypeOK
  <2>6. CASE inFlight' = inFlight
    BY <2>6
  <2>7. ASSUME NEW c \in Calls, Select(c) \/ Skip(c) \/ Exhausted(c) \/ Open(c)
        PROVE  FALSE
    BY <2>7 DEF Select, Skip, Exhausted, Open, health
  <2>8. ASSUME NEW c \in Streams, NEW x \in Models, Read(c, x) PROVE FALSE
    BY <2>8 DEF Read, Scan, OnContent, OnComplete, OnError, Drop, Ends, Reader, health
  <2>9. CASE (\E c \in Calls : Cancel(c)) \/ (\E x \in Models : Elapse(x))
    BY <2>6, <2>9 DEF Cancel, Elapse, health
  <2>10. CASE UNCHANGED vars
    BY <2>6, <2>10 DEF vars, health
  <2> QED
    BY <2>3, <2>4, <2>5, <2>7, <2>8, <2>9, <2>10 DEF Next, Progress
<1> QED BY <1>1, TypeCorrect, PTL DEF Spec, OnlyHolderReleases, Releases
------------------------------------------------------------------------------
(* The routing implements CircuitBreaker.                                     *)

\* Who is where after a call has come to a model, left one, or neither.
LEMMA Entered ==
    ASSUME NEW c \in Calls, NEW m \in Models,
           pc[c] \notin {"calling", "probing"},
           pc'[c] \in {"calling", "probing"}, Model(c)' = m,
           \A x \in Calls \ {c} : pc'[x] = pc[x] /\ place'[x] = place[x]
    PROVE  Breaker!Enter(c, m)
<1>1. \A n \in Models : c \notin At(n)
  BY DEF At
<1>2. \A n \in Models : At(n)' = IF n = m THEN At(n) \cup {c} ELSE At(n)
  BY DEF At, Model
<1>3. [n \in Models |-> At(n)]' = [[n \in Models |-> At(n)] EXCEPT ![m] = @ \cup {c}]
  BY <1>2
<1> QED BY <1>1, <1>3 DEF Breaker!Enter

LEMMA Left ==
    ASSUME NEW c \in Calls, NEW m \in Models,
           pc[c] \in {"calling", "probing"}, Model(c) = m,
           pc'[c] \notin {"calling", "probing"},
           \A x \in Calls \ {c} : pc'[x] = pc[x] /\ place'[x] = place[x]
    PROVE  Breaker!Leave(c, m)
<1>1. c \in At(m)
  BY DEF At
<1>2. \A n \in Models : At(n)' = IF n = m THEN At(n) \ {c} ELSE At(n)
  BY DEF At, Model
<1>3. [n \in Models |-> At(n)]' = [[n \in Models |-> At(n)] EXCEPT ![m] = @ \ {c}]
  BY <1>2
<1> QED BY <1>1, <1>3 DEF Breaker!Leave

LEMMA Stayed ==
    ASSUME UNCHANGED <<breaker, cool, inFlight, token>>,
           \A x \in Calls :
               \/ pc'[x] = pc[x] /\ place'[x] = place[x]
               \/ {pc[x], pc'[x]} \subseteq {"calling", "probing"}
                  /\ place'[x] = place[x]
               \/ {pc[x], pc'[x]} \cap {"calling", "probing"} = {}
    PROVE  UNCHANGED Breaker!vars
<1>1. \A n \in Models : /\ At(n)' = At(n) /\ Mode(n)' = Mode(n)
                        /\ Prober(n)' = Prober(n)
  BY DEF At, Model, Mode, Prober
<1> QED BY <1>1 DEF Breaker!vars

\* What a call's step at its model makes of the breakers.
LEMMA AcquiredBreaker ==
    ASSUME TypeOK, NEW c \in Calls, NEW m \in Models, Held(m), AcquirePermit(c, m)
    PROVE  \/ /\ Mode(m) = "closed"
              /\ \A n \in Models : Mode(n)' = Mode(n) /\ Prober(n)' = Prober(n)
           \/ /\ Mode(m) = "halfOpen" /\ Prober(m) = Nobody
              /\ \A n \in Models :
                    /\ Mode(n)' = Mode(n)
                    /\ Prober(n)' = IF n = m THEN c ELSE Prober(n)
<1>1. CASE breaker[m] = "closed"
  BY <1>1 DEF AcquirePermit, health, Mode, Prober
<1>2. CASE breaker[m] # "closed"
  <2>1. Mode(m) = "halfOpen" /\ Mode(m)' = "halfOpen" /\ Prober(m)' = c
    BY <1>2 DEF AcquirePermit, Unavailable, Mode, Prober, TypeOK
  <2>2. \A n \in Models \ {m} : Mode(n)' = Mode(n) /\ Prober(n)' = Prober(n)
    BY <1>2 DEF AcquirePermit, Mode, Prober, TypeOK
  <2>3. ASSUME Prober(m) # Nobody PROVE FALSE
    BY <1>2, <2>3 DEF AcquirePermit, Unavailable, Prober, Held
  <2> QED BY <2>1, <2>2, <2>3
<1> QED BY <1>1, <1>2

LEMMA SucceededBreaker ==
    ASSUME TypeOK, NEW m \in Models, MarkSuccess(m)
    PROVE  \A n \in Models :
              /\ Mode(n)' = IF n = m THEN "closed" ELSE Mode(n)
              /\ Prober(n)' = IF n = m THEN Nobody ELSE Prober(n)
  BY DEF MarkSuccess, Mode, Prober, TypeOK

LEMMA FailedBreaker ==
    ASSUME TypeOK, NEW m \in Models, Held(m), MarkFailure(m)
    PROVE  \/ \A n \in Models :
                 /\ Mode(n)' = IF n = m THEN "open" ELSE Mode(n)
                 /\ Prober(n)' = IF n = m THEN Nobody ELSE Prober(n)
           \/ /\ Prober(m) = Nobody
              /\ \A n \in Models : Mode(n)' = Mode(n) /\ Prober(n)' = Prober(n)
<1> DEFINE opens == breaker[m] = "halfOpen" \/ failures[m] + 1 >= FailureThreshold
<1>1. \A n \in Models \ {m} : Mode(n)' = Mode(n) /\ Prober(n)' = Prober(n)
  BY DEF MarkFailure, Mode, Prober, TypeOK
<1>2. breaker[m] # "halfOpen" => ~inFlight[m]
  BY DEF Held
<1>3. ~inFlight'[m]
  BY <1>2 DEF MarkFailure, TypeOK
<1>4. CASE opens
  <2>1. breaker'[m] = "open" /\ ~cool'[m]
    BY <1>4 DEF MarkFailure, TypeOK
  <2>2. Mode(m)' = "open" /\ Prober(m)' = Nobody
    BY <1>3, <2>1 DEF Mode, Prober
  <2> QED BY <1>1, <2>2
<1>5. CASE ~opens
  <2>1. UNCHANGED <<breaker, cool, inFlight, token>>
    BY <1>5 DEF MarkFailure
  <2>2. Prober(m) = Nobody
    BY <1>2, <1>5 DEF Prober
  <2> QED BY <2>1, <2>2 DEF Mode, Prober
<1> QED BY <1>4, <1>5

LEMMA ReleasedBreaker ==
    ASSUME TypeOK, NEW c \in Calls, NEW m \in Models, Held(m),
           ReleaseHalfOpenPermit(c, m)
    PROVE  \A n \in Models :
              /\ Mode(n)' = Mode(n)
              /\ Prober(n)' = IF n = m /\ Prober(m) = c THEN Nobody ELSE Prober(n)
<1>1. UNCHANGED <<breaker, cool, token>>
  BY DEF ReleaseHalfOpenPermit
<1>2. \A n \in Models \ {m} : inFlight'[n] = inFlight[n]
  BY DEF ReleaseHalfOpenPermit, TypeOK
<1>3. inFlight'[m] = (inFlight[m] /\ token[m] # c)
  BY Zenon DEF ReleaseHalfOpenPermit, TypeOK, Held
<1>4. Prober(m)' = IF Prober(m) = c THEN Nobody ELSE Prober(m)
  BY <1>1, <1>3, RoutingAssumption DEF Prober
<1> QED BY <1>1, <1>2, <1>4 DEF Mode, Prober

LEMMA BreakerStep ==
    ASSUME TypeOK, \A m \in Models : Held(m), [Next]_vars
    PROVE  [Breaker!Next]_(Breaker!vars)
<1>1. ASSUME NEW c \in Calls, pc[c] \in {"calling", "probing"} \/ AtCandidate(c)
      PROVE  Model(c) \in Models
  BY <1>1 DEF TypeOK, AtCandidate, Model, Models
<1>2. ASSUME NEW c \in Calls, Call(c) PROVE Breaker!Next
  <2> DEFINE m == Model(c)
  <2>1. m \in Models /\ AcquirePermit(c, m) /\ place' = place /\ pc[c] = "pick"
        /\ pc' = [pc EXCEPT ![c] = "calling"]
    BY <1>1, <1>2 DEF Call, AtCandidate
  <2>2. Breaker!Enter(c, m)
    BY <2>1, Entered DEF Model, TypeOK
  <2>3. CASE /\ Mode(m) = "closed"
             /\ \A n \in Models : Mode(n)' = Mode(n) /\ Prober(n)' = Prober(n)
    BY <2>1, <2>2, <2>3 DEF Breaker!Next, Breaker!Admit
  <2>4. CASE /\ Mode(m) = "halfOpen" /\ Prober(m) = Nobody
             /\ \A n \in Models :
                   /\ Mode(n)' = Mode(n)
                   /\ Prober(n)' = IF n = m THEN c ELSE Prober(n)
    BY <2>1, <2>2, <2>4 DEF Breaker!Next, Breaker!Probe
  <2> HIDE DEF m
  <2> QED BY <2>1, <2>3, <2>4, AcquiredBreaker
\* The verdicts.
<1>3. ASSUME NEW c \in Calls, Reply(c) \/ FirstPacket(c) PROVE Breaker!Next
  <2> DEFINE m == Model(c)
  <2>1. m \in Models /\ MarkSuccess(m) /\ pc[c] \in {"calling", "probing"}
        /\ pc' = [pc EXCEPT ![c] = "answered"] /\ place' = place
    BY <1>1, <1>3 DEF Reply, FirstPacket, Return
  <2>2. Breaker!Leave(c, m)
    BY <2>1, Left DEF TypeOK
  <2> HIDE DEF m
  <2>3. \A n \in Models : /\ Mode(n)' = IF n = m THEN "closed" ELSE Mode(n)
                          /\ Prober(n)' = IF n = m THEN Nobody ELSE Prober(n)
    BY <2>1, SucceededBreaker
  <2> QED BY <2>1, <2>2, <2>3 DEF Breaker!Next, Breaker!Succeed
<1>4. ASSUME NEW c \in Calls, ReplyFails(c) \/ Refused(c) \/ NoPacket(c)
      PROVE  Breaker!Next
  <2> DEFINE m == Model(c)
  <2>1. m \in Models /\ MarkFailure(m) /\ pc[c] \in {"calling", "probing"}
        /\ pc' = [pc EXCEPT ![c] = "pick"] /\ place' = [place EXCEPT ![c] = @ + 1]
    BY <1>1, <1>4 DEF ReplyFails, Refused, NoPacket, NextModel
  <2>2. Breaker!Leave(c, m)
    BY <2>1, Left DEF TypeOK
  <2>3. CASE \A n \in Models :
               /\ Mode(n)' = IF n = m THEN "open" ELSE Mode(n)
               /\ Prober(n)' = IF n = m THEN Nobody ELSE Prober(n)
    BY <2>1, <2>2, <2>3 DEF Breaker!Next, Breaker!Fail
  <2>4. CASE /\ Prober(m) = Nobody
             /\ \A n \in Models : Mode(n)' = Mode(n) /\ Prober(n)' = Prober(n)
    BY <2>1, <2>2, <2>4 DEF Breaker!Next, Breaker!Fail
  <2> HIDE DEF m
  <2> QED BY <2>1, <2>3, <2>4, FailedBreaker
\* A cancelled call goes away.
<1>5. ASSUME NEW c \in Calls, Abort(c) PROVE Breaker!Next
  <2> DEFINE m == Model(c)
  <2>1. m \in Models /\ ReleaseHalfOpenPermit(c, m) /\ pc[c] \in {"calling", "probing"}
        /\ pc' = [pc EXCEPT ![c] = "failed"] /\ place' = place
    BY <1>1, <1>5 DEF Abort, Return
  <2>2. Breaker!Leave(c, m)
    BY <2>1, Left DEF TypeOK
  <2> HIDE DEF m
  <2>3. \A n \in Models :
           /\ Mode(n)' = Mode(n)
           /\ Prober(n)' = IF n = m /\ Prober(m) = c THEN Nobody ELSE Prober(n)
    BY <2>1, ReleasedBreaker
  <2> QED BY <2>1, <2>2, <2>3 DEF Breaker!Next, Breaker!Abandon
<1>6. ASSUME NEW m \in Models, Elapse(m) PROVE [Breaker!Next]_(Breaker!vars)
  <2>1. /\ UNCHANGED <<breaker, inFlight, token, pc, place>>
        /\ \A n \in Models \ {m} : cool'[n] = cool[n]
        /\ ~cool[m] /\ cool'[m]
    BY <1>6 DEF Elapse, call, TypeOK
  <2>2. \A n \in Models : At(n)' = At(n) /\ Prober(n)' = Prober(n)
    BY <2>1 DEF At, Model, Prober
  <2>3. \A n \in Models \ {m} : Mode(n)' = Mode(n)
    BY <2>1 DEF Mode
  <2>4. CASE breaker[m] = "open"
    <3>1. Mode(m) = "open" /\ Mode(m)' = "halfOpen"
      BY <2>1, <2>4 DEF Mode
    <3>2. \A n \in Models : Mode(n)' = IF n = m THEN "halfOpen" ELSE Mode(n)
      BY <2>3, <3>1
    <3> QED BY <2>2, <3>1, <3>2 DEF Breaker!Next, Breaker!Wait
  <2>5. CASE breaker[m] # "open"
    <3>1. Mode(m)' = Mode(m)
      BY <2>1, <2>5 DEF Mode
    <3> QED BY <2>2, <2>3, <3>1 DEF Breaker!vars
  <2> QED BY <2>4, <2>5
\* Whatever else happens, the breakers do not see.
<1>7. ASSUME NEW c \in Calls, Select(c) \/ Skip(c) \/ Exhausted(c) \/ Open(c)
      PROVE  UNCHANGED Breaker!vars
  BY <1>7, Stayed
     DEF Select, Skip, Exhausted, Open, AtCandidate, NextModel, Return, health, TypeOK
<1>8. ASSUME \/ \E c \in Calls : Cancel(c)
             \/ \E c \in Streams, m \in Models : Read(c, m)
             \/ UNCHANGED vars
      PROVE  UNCHANGED Breaker!vars
  <2>1. UNCHANGED <<breaker, cool, inFlight, token, pc, place>>
    BY <1>8 DEF Cancel, Read, Scan, OnContent, OnComplete, OnError, Drop, Ends,
                Reader, vars, health, call
  <2> QED BY <2>1, Stayed
<1> QED BY <1>2, <1>3, <1>4, <1>5, <1>6, <1>7, <1>8 DEF Next, Progress

\* The routing loops, their cancelled and their stale calls included, use the
\* breakers the way CircuitBreaker promises: no new call at an open model, one probe
\* at a half-open one, for any number of calls, models and failures.
THEOREM BreakerImplemented == Spec => ImplementsBreaker
<1>1. Init => Breaker!Init
  <2> SUFFICES ASSUME Init PROVE Breaker!Init
    OBVIOUS
  <2>1. \A m \in Models : /\ Mode(m) = "closed" /\ At(m) = {}
                          /\ Prober(m) = Nobody
    BY DEF Init, Mode, At, Prober
  <2> QED BY <2>1 DEF Breaker!Init
<1>2. ProbeHasHolder => \A m \in Models : Held(m)
  BY DEF ProbeHasHolder, Held
<1> QED BY <1>1, <1>2, BreakerStep, TypeCorrect, ProbesHaveHolders, PTL
        DEF Spec, ImplementsBreaker, Breaker!Spec

=============================================================================
