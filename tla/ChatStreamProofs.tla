-------------------------- MODULE ChatStreamProofs --------------------------
(* Proofs about ChatStream, for any stop requests by any users, with or      *)
(* without Redis: its types, who stops it, what a stop cuts and what may be  *)
(* answered after one, and that its end is heard.                            *)
EXTENDS ChatStream, TLAPS

USE ChatAssumption

------------------------------------------------------------------------------
(* Type correctness.                                                         *)

\* The handler gets to its model call only by starting the reader.
CallHasReader == pc \in {"probe", "bind", "wait"} => reader # "off"

TypeInv == TypeOK /\ CallHasReader

LEMMA ScriptsAreScripts ==
    /\ Answer \in Seq(Steps) /\ Failure \in Seq(Steps)
    /\ Rejection \in Seq(Steps) /\ Cancellation \in Seq(Steps)
    /\ <<>> \in Seq(Steps) /\ <<"done", "close">> \in Seq(Steps)
BY DEF Answer, Failure, Rejection, Cancellation, Steps, Events, Statuses

\* Another ender's script, and the canceller's once the task is cancelled, may
\* change.
LEMMA BeginTyped ==
    ASSUME NEW a \in Enders, NEW s \in Seq(Steps), script \in [Enders -> Seq(Steps)],
           script["canceller"] # <<>> => cancelled, Begin(a, s),
           cancelled => cancelled', a = "canceller" => s = <<>> \/ cancelled'
    PROVE  /\ script' \in [Enders -> Seq(Steps)]
           /\ script'["canceller"] # <<>> => cancelled'
<1>1. script' = [script EXCEPT ![a] = s]
  BY DEF Begin
<1>2. script' \in [Enders -> Seq(Steps)]
  BY <1>1
<1>3. "canceller" \in Enders
  BY DEF Enders
<1> QED BY <1>1, <1>2, <1>3

LEMMA InitTyped == Init => TypeInv
<1> SUFFICES ASSUME Init PROVE TypeInv
  OBVIOUS
<1>1. script \in [Enders -> Seq(Steps)] /\ script["canceller"] = <<>>
  BY ScriptsAreScripts DEF Init, Enders
<1>2. got \subseteq Events /\ saved \subseteq Statuses
  BY DEF Init
<1>3. stop \in [Stops -> {"idle", "mark", "publish", "flying", "heard", "refused"}]
  BY DEF Init
<1>4. snap \in [bound : BOOLEAN, fn : BOOLEAN]
  BY DEF Init
<1> QED BY <1>1, <1>2, <1>3, <1>4 DEF Init, TypeInv, TypeOK, CallHasReader, Users, Points

\* cancelTask, where its caller leaves the rest of the task alone.
LEMMA CancelTyped ==
    ASSUME TypeInv, CancelTask
    PROVE  /\ cancelled' /\ snap' \in [bound : BOOLEAN, fn : BOOLEAN]
           /\ UNCHANGED <<local, payloadFn, bound, ctxDone>>
           /\ script' \in [Enders -> Seq(Steps)]
<1>1. cancelled' /\ UNCHANGED <<local, payloadFn, bound, ctxDone>>
  BY DEF CancelTask
<1>2. snap' \in [bound : BOOLEAN, fn : BOOLEAN]
  BY DEF CancelTask, TypeInv, TypeOK
<1>3. script' \in [Enders -> Seq(Steps)]
  BY ScriptsAreScripts DEF CancelTask, Begin, TypeInv, TypeOK
<1> QED BY <1>1, <1>2, <1>3

LEMMA HandleTyped ==
    ASSUME TypeInv, Handle
    PROVE  TypeInv'
<1> USE DEF TypeInv, TypeOK, CallHasReader, Points, Go, redis, task, stream, output
<1>1. CASE TimeOutInQueue
  <2>1. PICK s \in {Rejection, <<"done", "close">>} : Begin("rejector", s)
    BY <1>1 DEF TimeOutInQueue
  <2>2. /\ script' \in [Enders -> Seq(Steps)]
        /\ script'["canceller"] # <<>> => cancelled'
    BY <1>1, <2>1, ScriptsAreScripts, BeginTyped DEF TimeOutInQueue, Enders
  <2> QED BY <1>1, <2>2 DEF TimeOutInQueue, Handler
<1>2. CASE Register
  BY <1>2 DEF Register, Handler
<1>3. CASE PersistOwner
  BY <1>3 DEF PersistOwner, OrFails, Users
<1>4. CASE Review
  <2>1. /\ UNCHANGED <<shared, ownerKey, marker, stop, closed, got, saved>>
        /\ UNCHANGED <<cut, reader, answered>> /\ pc' \in {"prepare", "cancelling"}
    BY <1>4 DEF Review, Handler
  <2>2. CASE CancelTask
    <3>1. /\ cancelled' /\ snap' \in [bound : BOOLEAN, fn : BOOLEAN]
          /\ UNCHANGED <<local, payloadFn, bound, ctxDone>>
          /\ script' \in [Enders -> Seq(Steps)]
      BY <2>2, CancelTyped
    <3> QED BY <2>1, <3>1
  <2>3. CASE UNCHANGED <<task, script>>
    BY <2>3, <2>1
  <2>4. CancelTask \/ UNCHANGED <<task, script>>
    BY <1>4 DEF Review
  <2> QED BY <2>2, <2>3, <2>4
<1>5. CASE AwaitCancel \/ FirstPacket \/ Wait
  BY <1>5 DEF AwaitCancel, FirstPacket, Wait, Handler
<1>6. ASSUME NEW s \in Seq(Steps), Begin("handler", s), Handler,
             \/ Guide \/ AnswerFromCache \/ Refuse \/ GiveUp
             \/ CheckContext /\ ctxDone
      PROVE  TypeInv'
  <2>1. cancelled' = cancelled
    BY <1>6 DEF Guide, AnswerFromCache, Refuse, GiveUp, CheckContext
  <2>2. /\ script' \in [Enders -> Seq(Steps)]
        /\ script'["canceller"] # <<>> => cancelled'
    BY <1>6, <2>1, BeginTyped DEF Enders
  <2>3. /\ UNCHANGED <<shared, ownerKey, marker, stop, closed, got, saved>>
        /\ UNCHANGED <<local, cancelled, payloadFn, bound, ctxDone, snap>>
        /\ UNCHANGED <<reader, answered>> /\ pc' = "unregister"
    BY <1>6 DEF Guide, AnswerFromCache, Refuse, GiveUp, CheckContext, Handler
  <2>4. cut' \in BOOLEAN
    BY <1>6 DEF Guide, AnswerFromCache, Refuse, GiveUp, CheckContext
  <2> QED BY <2>2, <2>3, <2>4
<1>7. CASE Guide
  BY <1>6, <1>7, ScriptsAreScripts DEF Guide
<1>8. CASE AnswerFromCache
  BY <1>6, <1>8, ScriptsAreScripts DEF AnswerFromCache
<1>9. CASE Refuse \/ GiveUp
  BY <1>6, <1>9, ScriptsAreScripts DEF Refuse, GiveUp, Fail
<1>10. CASE CheckContext
  <2>1. CASE ctxDone
    BY <1>6, <1>10, <2>1, ScriptsAreScripts DEF CheckContext, Fail
  <2>2. CASE ~ctxDone
    BY <1>10, <2>2 DEF CheckContext, Handler
  <2> QED BY <2>1, <2>2
<1>11. CASE Prepare
  BY <1>11 DEF Prepare, Handler
<1>12. CASE FallBack
  <2>1. UNCHANGED <<shared, ownerKey, marker, stop, closed, got, saved, cut,
                    reader, answered, script, local, cancelled, bound, ctxDone, snap>>
        /\ pc' \in {"unregister", "start"}
    BY <1>12 DEF FallBack, Handler
  <2>2. payloadFn' \in BOOLEAN
    BY <1>12 DEF FallBack
  <2> QED BY <2>1, <2>2
<1>13. CASE Open
  BY <1>13 DEF Open, Handler
<1>14. CASE Bind
  BY <1>14 DEF Bind, BindHandle, Handler
<1>15. CASE Unregister
  BY <1>15 DEF Unregister, Handler
<1>16. CASE Forget
  BY <1>16 DEF Forget, OrFails, Users
<1> QED
  BY <1>1, <1>2, <1>3, <1>4, <1>5, <1>7, <1>8, <1>9, <1>10, <1>11, <1>12, <1>13,
     <1>14, <1>15, <1>16 DEF Handle

\* A step of an ending response: it shortens its script.
LEMMA PlayTyped ==
    ASSUME TypeInv, NEW a \in Enders, Play(a)
    PROVE  TypeInv'
<1> USE DEF TypeInv, TypeOK, CallHasReader, redis
<1> DEFINE s == Head(script[a])
<1>1. script[a] \in Seq(Steps) /\ script[a] # <<>>
  BY DEF Play
<1>2. Tail(script[a]) \in Seq(Steps) /\ <<>> \in Seq(Steps) /\ s \in Steps
  BY <1>1
<1>3. PICK rest \in Seq(Steps) : Begin(a, rest)
  BY <1>2 DEF Play
<1>4. UNCHANGED <<shared, ownerKey, marker, pc, reader, stop, answered>>
  BY DEF Play
<1>5. CASE Cut
  <2>1. /\ UNCHANGED <<local, cancelled, payloadFn, bound, snap, closed, got, saved>>
        /\ ctxDone' = TRUE
    BY <1>5 DEF Cut, output
  <2>2. cut' \in BOOLEAN
    BY <1>5 DEF Cut
  <2>3. /\ script' \in [Enders -> Seq(Steps)]
        /\ script'["canceller"] # <<>> => cancelled'
    BY <1>1, <1>3, <2>1 DEF Begin, Enders
  <2> QED BY <1>4, <2>1, <2>2, <2>3
<1>6. CASE Perform(s) /\ UNCHANGED <<task, cut>>
  <2>1. UNCHANGED <<local, cancelled, payloadFn, bound, ctxDone, snap, cut>>
    BY <1>6 DEF task
  <2>2. /\ script' \in [Enders -> Seq(Steps)]
        /\ script'["canceller"] # <<>> => cancelled'
    BY <1>1, <1>3, <2>1 DEF Begin, Enders
  <2>3. got' \subseteq Events /\ saved' \subseteq Statuses
        /\ closed' \in BOOLEAN
    <3>1. CASE s \in Events /\ Send(s)
      BY <3>1 DEF Send
    <3>2. CASE s \in {"normal", "rejected", "interrupted"} /\ Save(s)
      BY <3>2 DEF Save, Statuses
    <3>3. CASE UNCHANGED output
      BY <3>3 DEF output
    <3>4. CASE closed' = TRUE /\ UNCHANGED <<got, saved>>
      BY <3>4
    <3> QED BY <1>6, <3>1, <3>2, <3>3, <3>4 DEF Perform
  <2> QED BY <1>4, <2>1, <2>2, <2>3
<1> QED BY <1>5, <1>6 DEF Play

LEMMA ReaderTyped ==
    ASSUME TypeInv, Model \/ Unblock
    PROVE  TypeInv'
<1> USE DEF TypeInv, TypeOK, CallHasReader, redis, task, output
<1>1. Reading
  BY DEF Model, Unblock, Content, Complete, StreamError, ContextError, StopReading
<1>2. reader' \in {"reading", "ended"} /\ reader = "reading" /\ answered' \in BOOLEAN
  BY <1>1
     DEF Model, Unblock, Content, Complete, StreamError, ContextError, StopReading,
         Reading
<1>3. UNCHANGED script \/ \E s \in Seq(Steps) : Begin("reader", s)
  BY ScriptsAreScripts
     DEF Model, Unblock, Content, Complete, StreamError, ContextError, StopReading
<1>4. /\ script' \in [Enders -> Seq(Steps)]
      /\ script'["canceller"] # <<>> => cancelled'
  BY <1>1, <1>3 DEF Begin, Enders, Reading
<1> QED BY <1>1, <1>2, <1>4 DEF Reading

LEMMA RequestTyped ==
    ASSUME TypeInv, NEW c \in Stops, Request(c)
    PROVE  TypeInv'
<1> USE DEF TypeInv, TypeOK, CallHasReader, redis, stream, output
<1>1. CASE CheckOwner(c)
  <2>1. \E to \in {"refused", "mark"} : stop' = [stop EXCEPT ![c] = to]
    BY <1>1 DEF CheckOwner, Stopping, OrFails
  <2> QED BY <1>1, <2>1 DEF CheckOwner, Stopping, task
<1>3. CASE Mark(c)
  BY <1>3 DEF Mark, OrFails, Stopping, Users, task
<1>4. CASE Publish(c)
  BY <1>4 DEF Publish, Stopping, task
<1>2. CASE Hear(c) \/ StopHere(c)
  <2>1. UNCHANGED <<shared, ownerKey, marker, cut, reader, answered, pc, closed,
                    got, saved>>
        /\ stop' = [stop EXCEPT ![c] = "heard"]
    BY <1>2 DEF Hear, StopHere, Stopping
  <2>2. CASE CancelTask
    <3>1. /\ cancelled' /\ snap' \in [bound : BOOLEAN, fn : BOOLEAN]
          /\ UNCHANGED <<local, payloadFn, bound, ctxDone>>
          /\ script' \in [Enders -> Seq(Steps)]
      BY <2>2, CancelTyped
    <3> QED BY <2>1, <3>1
  <2>3. CASE UNCHANGED <<task, script>>
    BY <2>1, <2>3 DEF task
  <2> QED BY <1>2, <2>2, <2>3 DEF Hear, StopHere, CancelLocal
<1> QED BY <1>1, <1>2, <1>3, <1>4 DEF Request

LEMMA TypeStep == TypeInv /\ [Next]_vars => TypeInv'
<1> SUFFICES ASSUME TypeInv, [Next]_vars PROVE TypeInv'
  OBVIOUS
<1>1. CASE Deadline
  BY <1>1 DEF Deadline, TypeInv, TypeOK, CallHasReader, redis, stream, output
<1>2. CASE UNCHANGED vars
  BY <1>2 DEF vars, TypeInv, TypeOK, CallHasReader, redis, task, stream, output
<1> QED BY <1>1, <1>2, HandleTyped, PlayTyped, ReaderTyped, RequestTyped DEF Next

\* Every variable keeps its type, nothing streams before the model was called,
\* and only a cancelled task is being ended by cancelTask.
THEOREM TypeCorrect == Spec => []TypeOK
<1>1. TypeInv => TypeOK
  BY DEF TypeInv
<1> QED BY InitTyped, TypeStep, <1>1, PTL DEF Spec

------------------------------------------------------------------------------
(* Who may stop a task.                                                      *)

\* A marker in Redis was left by a stop request that passed the owner check.
MarkerHasAuthor ==
    marker # Nobody => \E c \in Stops : /\ Who[c] = marker
                                        /\ stop[c] \notin {"idle", "mark", "refused"}

\* Requests only go forward.
LEMMA StopsStay ==
    ASSUME TypeInv, [Next]_vars, NEW c \in Stops
    PROVE  /\ stop[c] \notin {"idle", "mark", "refused"}
                => stop'[c] \notin {"idle", "mark", "refused"}
           /\ stop[c] \notin {"idle", "refused"} => stop'[c] \notin {"idle", "refused"}
<1>1. CASE stop' = stop
  BY <1>1
<1>2. ASSUME NEW d \in Stops, Request(d) PROVE
           /\ stop[c] \notin {"idle", "mark", "refused"}
                => stop'[c] \notin {"idle", "mark", "refused"}
           /\ stop[c] \notin {"idle", "refused"} => stop'[c] \notin {"idle", "refused"}
  BY <1>2 DEF Request, CheckOwner, Mark, Publish, Hear, StopHere, Stopping, TypeInv, TypeOK
<1>3. CASE Handle
  BY <1>1, <1>3
     DEF Handle, TimeOutInQueue, Register, PersistOwner, Review, AwaitCancel, Guide,
         AnswerFromCache, Prepare, FallBack, CheckContext, Open, Refuse, FirstPacket,
         GiveUp, Bind, Wait, Unregister, Forget, Handler
<1>4. CASE Deadline \/ Model \/ Unblock \/ \E a \in Enders : Play(a)
  BY <1>1, <1>4
     DEF Deadline, Model, Unblock, Content, Complete, StreamError, ContextError,
         StopReading, Reading, Play
<1>5. CASE UNCHANGED vars
  BY <1>1, <1>5 DEF vars
<1> QED BY <1>2, <1>3, <1>4, <1>5 DEF Next

LEMMA MarkerStep ==
    ASSUME TypeInv, MarkerHasAuthor, [Next]_vars
    PROVE  MarkerHasAuthor'
<1>1. CASE marker' = marker
  BY <1>1, StopsStay DEF MarkerHasAuthor
<1>2. CASE marker' = Nobody
  BY <1>2 DEF MarkerHasAuthor
<1>3. ASSUME NEW c \in Stops, Mark(c) PROVE MarkerHasAuthor'
  <2>1. marker' \in {Who[c], marker} /\ stop'[c] = "publish"
    BY <1>3 DEF Mark, OrFails, Stopping, TypeInv, TypeOK
  <2>2. CASE marker' = Who[c]
    BY <2>1, <2>2 DEF MarkerHasAuthor
  <2> QED BY <1>1, <2>1, <2>2
<1>4. ASSUME NEW c \in Stops, Request(c), ~Mark(c) PROVE marker' = marker
  BY <1>4 DEF Request, CheckOwner, Publish, Hear, StopHere, redis
<1>5. CASE Handle
  <2>1. CASE Forget
    <3>1. marker' \in {marker, Nobody}
      BY <2>1 DEF Forget, OrFails
    <3> QED BY <1>1, <1>2, <3>1
  <2>2. CASE ~Forget
    BY <1>1, <1>5, <2>2
       DEF Handle, TimeOutInQueue, Register, PersistOwner, Review, AwaitCancel,
           Guide, AnswerFromCache, Prepare, FallBack, CheckContext, Open, Refuse,
           FirstPacket, GiveUp, Bind, Wait, Unregister, Handler, redis
  <2> QED BY <2>1, <2>2
<1>6. CASE Deadline \/ Model \/ Unblock \/ \E a \in Enders : Play(a)
  BY <1>1, <1>6
     DEF Deadline, Model, Unblock, Content, Complete, StreamError, ContextError,
         StopReading, Reading, Play, redis
<1>7. CASE UNCHANGED vars
  BY <1>1, <1>7 DEF vars, redis
<1> QED BY <1>1, <1>3, <1>4, <1>5, <1>6, <1>7 DEF Next

\* Both ways into cancelTask are guarded: the review at registration by the
\* marker's author, the listener by the requester of the broadcast.
LEMMA CancelStep ==
    ASSUME TypeInv, MarkerHasAuthor, OnlyAllowedStop, [Next]_vars
    PROVE  OnlyAllowedStop'
<1>1. CASE cancelled
  <2>1. PICK c \in Stops : Allowed(Who[c]) /\ stop[c] \notin {"idle", "refused"}
    BY <1>1 DEF OnlyAllowedStop
  <2>2. stop'[c] \notin {"idle", "refused"}
    BY <2>1, StopsStay
  <2> QED BY <2>1, <2>2 DEF OnlyAllowedStop, Allowed
<1>2. CASE ~cancelled'
  BY <1>2 DEF OnlyAllowedStop
<1>3. ASSUME ~cancelled, Review, CancelTask PROVE OnlyAllowedStop'
  <2>1. Allowed(marker)
    BY <1>3 DEF Review, Marked, CancelTask, task
  <2>2. marker # Nobody
    BY <2>1 DEF Allowed
  <2>3. PICK c \in Stops : Who[c] = marker /\ stop[c] \notin {"idle", "mark", "refused"}
    BY <2>2 DEF MarkerHasAuthor
  <2>4. stop'[c] \notin {"idle", "refused"}
    BY <2>3, StopsStay
  <2> QED BY <2>1, <2>3, <2>4 DEF OnlyAllowedStop, Allowed
<1>4. ASSUME NEW c \in Stops, Hear(c) \/ StopHere(c), Allowed(Who[c])
      PROVE  OnlyAllowedStop'
  <2>1. stop'[c] = "heard"
    BY <1>4 DEF Hear, StopHere, Stopping, TypeInv, TypeOK
  <2> QED BY <1>4, <2>1 DEF OnlyAllowedStop, Allowed
<1>5. ASSUME ~cancelled, cancelled', Handle PROVE Review /\ CancelTask
  BY <1>5
     DEF Handle, TimeOutInQueue, Register, PersistOwner, Review, AwaitCancel, Guide,
         AnswerFromCache, Prepare, FallBack, CheckContext, Open, Refuse, FirstPacket,
         GiveUp, Bind, BindHandle, Wait, Unregister, Forget, Handler, task
<1>6. ASSUME ~cancelled, cancelled', NEW c \in Stops, Request(c)
      PROVE  Allowed(Who[c]) /\ (Hear(c) \/ StopHere(c))
  BY <1>6 DEF Request, CheckOwner, Mark, Publish, Hear, StopHere, CancelLocal, task
<1>7. CASE Deadline \/ Model \/ Unblock \/ \E a \in Enders : Play(a)
  <2>1. cancelled' = cancelled
    BY <1>7
       DEF Deadline, Model, Unblock, Content, Complete, StreamError, ContextError,
           StopReading, Reading, Play, Cut, Perform, task
  <2> QED BY <1>1, <1>2, <2>1
<1>8. CASE UNCHANGED vars
  BY <1>1, <1>2, <1>8 DEF vars, task
<1> QED BY <1>1, <1>2, <1>3, <1>4, <1>5, <1>6, <1>7, <1>8 DEF Next

\* Only its owner cancels a task: neither a broadcast nor a marker that another
\* user, or nobody, left for the task's id does (isRequesterAllowed,
\* isCancellationMarked, cancelLocal).
THEOREM OnlyOwnersStop == Spec => []OnlyAllowedStop
<1> DEFINE IInv == TypeInv /\ MarkerHasAuthor /\ OnlyAllowedStop
<1>1. Init => IInv
  BY InitTyped DEF Init, MarkerHasAuthor, OnlyAllowedStop
<1>2. IInv /\ [Next]_vars => IInv'
  BY TypeStep, MarkerStep, CancelStep
<1> QED BY <1>1, <1>2, PTL DEF Spec

------------------------------------------------------------------------------
(* What a cancellation cuts.                                                 *)

\* A cancelled task is cut, or cancelTask is about to do it and knows, unless
\* bindHandle has seen to it, of the handle.
CutInv ==
    cancelled =>
        \/ ctxDone /\ (bound => cut)
        \/ script["canceller"] = Cancellation /\ (bound => snap.bound \/ cut)

\* What leaves the flags alone, or only cuts more, keeps the invariant, if
\* cancelTask does not go on meanwhile.
LEMMA CutKept ==
    ASSUME CutInv, cancelled' = cancelled, bound' = bound, snap' = snap,
           ctxDone => ctxDone', cut => cut',
           script'["canceller"] = script["canceller"]
    PROVE  CutInv'
  BY DEF CutInv, Cancellation

LEMMA CancelCuts ==
    ASSUME TypeInv, CancelTask
    PROVE  CutInv'
<1>1. script'["canceller"] = Cancellation
  BY DEF CancelTask, Begin, TypeInv, TypeOK, Enders
<1>2. snap'.bound = bound'
  BY DEF CancelTask
<1> QED BY <1>1, <1>2 DEF CutInv, Cancellation

LEMMA HandleCuts ==
    ASSUME TypeInv, CutInv, Handle
    PROVE  CutInv'
<1> USE DEF TypeInv, TypeOK, Enders, Begin, Handler, task, stream
<1>1. CASE TimeOutInQueue \/ Register \/ PersistOwner
  <2>1. script'["canceller"] = script["canceller"]
    BY <1>1 DEF TimeOutInQueue, Register, PersistOwner
  <2> QED BY <1>1, <2>1, CutKept DEF TimeOutInQueue, Register, PersistOwner
<1>2. CASE Review
  <2>1. CASE CancelTask
    BY <2>1, CancelCuts
  <2>2. CASE UNCHANGED <<task, script>>
    BY <1>2, <2>2, CutKept DEF Review
  <2> QED BY <1>2, <2>1, <2>2 DEF Review
<1>3. CASE AwaitCancel \/ FirstPacket \/ Wait \/ Unregister \/ Forget \/ Open
  BY <1>3, CutKept DEF AwaitCancel, FirstPacket, Wait, Unregister, Forget, Open
<1>4. CASE Guide \/ AnswerFromCache \/ Prepare \/ FallBack
  <2>1. script'["canceller"] = script["canceller"]
    BY <1>4 DEF Guide, AnswerFromCache, Prepare, FallBack
  <2>2. UNCHANGED <<cancelled, bound, snap, ctxDone, cut>>
    BY <1>4 DEF Guide, AnswerFromCache, Prepare, FallBack
  <2> QED BY <2>1, <2>2, CutKept
<1>5. CASE CheckContext \/ Refuse \/ GiveUp
  <2>1. script'["canceller"] = script["canceller"]
    BY <1>5 DEF CheckContext, Refuse, GiveUp, Fail
  <2>2. UNCHANGED <<cancelled, bound, snap, ctxDone>> /\ (cut => cut')
    BY <1>5 DEF CheckContext, Refuse, GiveUp
  <2> QED BY <2>1, <2>2, CutKept
<1>6. CASE Bind
  BY <1>6 DEF Bind, BindHandle, CutInv
<1> QED BY <1>1, <1>2, <1>3, <1>4, <1>5, <1>6 DEF Handle

LEMMA PlayCuts ==
    ASSUME TypeInv, CutInv, NEW a \in Enders, Play(a)
    PROVE  CutInv'
<1>1. /\ UNCHANGED <<cancelled, bound, snap>>
      /\ (ctxDone => ctxDone') /\ (cut => cut')
  <2>1. CASE Cut
    BY <2>1, Zenon DEF Cut
  <2>2. CASE UNCHANGED <<task, cut>>
    BY <2>2 DEF task
  <2> QED BY <2>1, <2>2 DEF Play
<1>2. CASE a # "canceller" \/ ~cancelled
  <2>1. ~cancelled \/ script'["canceller"] = script["canceller"]
    <3>1. \E rest : script' = [script EXCEPT ![a] = rest]
      BY DEF Play, Begin
    <3> QED BY <1>2, <3>1 DEF TypeInv, TypeOK, Enders
  <2> QED BY <1>1, <2>1, CutKept DEF CutInv
<1>3. CASE cancelled /\ ctxDone /\ (bound => cut)
  BY <1>1, <1>3 DEF CutInv
<1>4. CASE /\ a = "canceller" /\ script["canceller"] = Cancellation
           /\ bound => snap.bound \/ cut
  <2>1. Head(script[a]) = "cut"
    BY <1>4 DEF Cancellation
  <2>2. Cut
    BY <2>1 DEF Play
  <2>3. ctxDone' /\ cut' = (cut \/ snap.bound)
    BY <2>2 DEF Cut
  <2>4. bound' => cut'
    BY <1>1, <1>4, <2>3, Zenon
  <2> QED BY <2>3, <2>4 DEF CutInv
<1> QED BY <1>2, <1>3, <1>4 DEF CutInv

LEMMA CutStep ==
    ASSUME TypeInv, CutInv, [Next]_vars
    PROVE  CutInv'
<1>1. CASE Deadline \/ UNCHANGED vars
  BY <1>1, CutKept DEF Deadline, vars, task, stream
<1>2. CASE Model \/ Unblock
  <2>1. script'["canceller"] = script["canceller"]
    BY <1>2 DEF Model, Unblock, Content, Complete, StreamError, ContextError,
                StopReading, Begin, TypeInv, TypeOK, Enders
  <2>2. UNCHANGED <<cancelled, bound, snap, ctxDone, cut>>
    BY <1>2 DEF Model, Unblock, Content, Complete, StreamError, ContextError,
                StopReading, Reading, task
  <2> QED BY <2>1, <2>2, CutKept
<1>3. ASSUME NEW c \in Stops, Request(c) PROVE CutInv'
  <2>1. CASE CancelTask
    BY <2>1, CancelCuts
  <2>2. CASE UNCHANGED <<task, script>>
    BY <1>3, <2>2, CutKept DEF Request, CheckOwner, Mark, Publish, Hear, StopHere,
                               Stopping, task, stream
  <2> QED BY <1>3, <2>1, <2>2 DEF Request, CheckOwner, Mark, Publish, Hear, StopHere,
                                  CancelLocal
<1> QED BY <1>1, <1>2, <1>3, HandleCuts, PlayCuts DEF Next

\* Once cancelTask is over nothing streams on for the task, whether the handle
\* came before it, during it or after it, on any node and with any deadline.
THEOREM CancelledIsCut == Spec => []NoOrphanStream
<1>1. Init => TypeInv /\ CutInv
  BY InitTyped DEF Init, CutInv
<1>2. TypeInv /\ CutInv /\ [Next]_vars => TypeInv' /\ CutInv'
  BY TypeStep, CutStep
<1>3. CutInv => NoOrphanStream
  BY DEF CutInv, NoOrphanStream, Idle, Cancellation
<1> QED BY <1>1, <1>2, <1>3, PTL DEF Spec

------------------------------------------------------------------------------
(* Every end is heard.                                                       *)

Ending == {"finish", "done"}
Tellers == {"handler", "reader"}

\* What is left of an ending, with what was sent before, tells the whole end.
Told(s) == \/ s \in {Answer, Failure}
           \/ s = <<"done", "close">> /\ "finish" \in got
           \/ s = <<"close">> /\ Ending \subseteq got

\* While a task that nobody cancelled is served, only the handler and the reader
\* end its response; the sender is closed after an end only; the call is cut off
\* only by a handler that ends the response itself, and else the reader does.
EndInv ==
    /\ script["rejector"] # <<>> => pc = "returned"
    /\ ~cancelled /\ pc # "returned"
       => /\ closed => Ending \subseteq got
          /\ \A a \in Tellers : Idle(a) \/ Told(script[a])
          /\ pc \notin {"unregister", "forget"} => ~cut
          /\ reader = "ended" /\ Idle("reader") => cut \/ Ending \subseteq got
          /\ pc = "unregister" /\ Idle("handler") => Ending \subseteq got
          /\ pc = "forget" => Ending \subseteq got

LEMMA EndingsGoOn ==
    /\ Head(Answer) = "normal" /\ Tail(Answer) = Failure
    /\ Head(Failure) = "finish" /\ Tail(Failure) = <<"done", "close">>
    /\ Head(<<"done", "close">>) = "done" /\ Tail(<<"done", "close">>) = <<"close">>
    /\ Head(<<"close">>) = "close" /\ Tail(<<"close">>) = <<>>
    /\ <<>> \notin {Answer, Failure, <<"done", "close">>, <<"close">>}
<1>1. Head(Answer) = "normal" /\ Answer # <<>>
  BY DEF Answer
<1>2. Tail(Answer) = Failure
  BY DEF Answer, Failure
<1>3. Head(Failure) = "finish" /\ Failure # <<>>
  BY DEF Failure
<1>4. Tail(Failure) = <<"done", "close">>
  BY DEF Failure
<1>5. Head(<<"done", "close">>) = "done" /\ Tail(<<"done", "close">>) = <<"close">>
  OBVIOUS
<1>6. Head(<<"close">>) = "close" /\ Tail(<<"close">>) = <<>>
  OBVIOUS
<1>7. <<"done", "close">> # <<>> /\ <<"close">> # <<>>
  OBVIOUS
<1> QED BY <1>1, <1>2, <1>3, <1>4, <1>5, <1>6, <1>7

\* A cancellation is not taken back, and nobody returns twice.
LEMMA NotUndone ==
    ASSUME TypeInv, [Next]_vars, ~cancelled', pc' # "returned"
    PROVE  ~cancelled /\ pc # "returned"
<1>1. CASE Handle
  <2>1. CASE Review
    <3>1. UNCHANGED cancelled \/ cancelled'
      BY <2>1, Zenon DEF Review, CancelTask, task
    <3> QED BY <2>1, <3>1 DEF Review
  <2>2. CASE TimeOutInQueue \/ Guide \/ AnswerFromCache \/ CheckContext \/ Refuse \/ GiveUp
    BY <2>2 DEF TimeOutInQueue, Guide, AnswerFromCache, CheckContext, Refuse, GiveUp,
                Go, task
  <2>3. CASE Register \/ PersistOwner \/ AwaitCancel \/ Prepare \/ FallBack \/ Open
    BY <2>3 DEF Register, PersistOwner, AwaitCancel, Prepare, FallBack, Open, Go, task
  <2>4. CASE FirstPacket \/ Bind \/ Wait \/ Unregister \/ Forget
    BY <2>4 DEF FirstPacket, Bind, BindHandle, Wait, Unregister, Forget, Go, task
  <2> QED BY <1>1, <2>1, <2>2, <2>3, <2>4 DEF Handle
<1>2. CASE Deadline \/ Model \/ Unblock \/ UNCHANGED vars
  BY <1>2 DEF Deadline, Model, Unblock, Content, Complete, StreamError, ContextError,
              StopReading, Reading, vars, task
<1>3. ASSUME NEW a \in Enders, Play(a) PROVE UNCHANGED <<cancelled, pc>>
  BY <1>3 DEF Play, Cut, task
<1>4. ASSUME NEW c \in Stops, Request(c) PROVE pc' = pc /\ (cancelled => cancelled')
  BY <1>4 DEF Request, CheckOwner, Mark, Publish, Hear, StopHere, Stopping,
              CancelLocal, CancelTask, task
<1> QED BY <1>1, <1>2, <1>3, <1>4 DEF Next
\* A step of the handler that neither ends the response nor comes after its end.
LEMMA ServingTells ==
    ASSUME TypeInv, EndInv, ~cancelled, pc # "returned",
           UNCHANGED <<closed, got, script, cut>>,
           reader' = "ended" => reader = "ended",
           pc \notin {"unregister", "forget"}, pc' \notin {"unregister", "forget"}
    PROVE  EndInv'
<1>1. \A a \in Tellers : Told(script[a]) => Told(script[a])'
  BY DEF Told
<1>2. \A a \in Tellers : (Idle(a) \/ Told(script[a])) => (Idle(a) \/ Told(script[a]))'
  BY <1>1 DEF Idle
<1> QED BY <1>2 DEF EndInv, Idle

\* The handler begins to end the response itself.
LEMMA BeginTells ==
    ASSUME TypeInv, EndInv, ~cancelled, pc # "returned",
           UNCHANGED <<closed, got>>, cut => cut', reader' = reader,
           pc' = "unregister", Begin("handler", Answer) \/ Begin("handler", Failure)
    PROVE  EndInv'
<1>1. /\ script'["handler"] \in {Answer, Failure}
      /\ \A b \in Enders \ {"handler"} : script'[b] = script[b]
  BY DEF Begin, TypeInv, TypeOK, Enders
<1>2. Told(script["handler"])'
  BY <1>1 DEF Told
<1>3. Told(script["reader"]) => Told(script["reader"])'
  BY <1>1 DEF Told, Enders
<1>4. ~Idle("handler")'
  BY <1>1, EndingsGoOn DEF Idle
<1> QED BY <1>1, <1>2, <1>3, <1>4 DEF EndInv, Idle, Tellers, Enders

LEMMA HandleTells ==
    ASSUME TypeInv, EndInv, Handle, ~cancelled, pc # "returned",
           ~cancelled', pc' # "returned"
    PROVE  EndInv'
<1>1. UNCHANGED <<closed, got>>
  BY DEF Handle, TimeOutInQueue, Register, PersistOwner, Review, AwaitCancel, Guide,
         AnswerFromCache, Prepare, FallBack, CheckContext, Open, Refuse, FirstPacket,
         GiveUp, Bind, Wait, Unregister, Forget, Handler, output
<1>2. CASE Register \/ PersistOwner \/ AwaitCancel \/ Prepare \/ Open \/ FirstPacket
  BY <1>1, <1>2, ServingTells
     DEF Register, PersistOwner, AwaitCancel, Prepare, Open, FirstPacket, Go, stream
<1>3. CASE Review \/ FallBack
  <2>1. ~CancelTask
    BY DEF CancelTask
  <2> QED BY <1>1, <1>3, <2>1, ServingTells DEF Review, FallBack, Go, stream
<1>4. CASE Bind
  <2>1. cut' = cut
    BY <1>4, Zenon DEF Bind, BindHandle, TypeInv, TypeOK
  <2> QED BY <1>1, <1>4, <2>1, ServingTells DEF Bind, Go
<1>5. CASE Guide \/ AnswerFromCache \/ Refuse
  BY <1>1, <1>5, BeginTells DEF Guide, AnswerFromCache, Refuse, Fail, Go, stream
<1>6. CASE CheckContext
  <2>1. CASE ctxDone
    BY <1>1, <1>6, <2>1, BeginTells DEF CheckContext, Fail, Go, stream
  <2>2. CASE ~ctxDone
    BY <1>1, <1>6, <2>2, ServingTells DEF CheckContext, Go, stream
  <2> QED BY <2>1, <2>2
<1>7. CASE GiveUp
  BY <1>1, <1>7, BeginTells DEF GiveUp, Fail, Go
<1>8. CASE Wait \/ Unregister
  <2>1. UNCHANGED <<script, cut, reader>> /\ Idle("handler")
    BY <1>8 DEF Wait, Unregister, Handler, stream
  <2>2. Ending \subseteq got
    BY <1>8, <2>1 DEF Wait, Unregister, EndInv
  <2>3. \A a \in Tellers : (Idle(a) \/ Told(script[a])) => (Idle(a) \/ Told(script[a]))'
    BY <1>1, <2>1 DEF Idle, Told
  <2>4. pc' \in {"unregister", "forget"}
    BY <1>8 DEF Wait, Unregister, Go
  <2> QED BY <1>1, <2>1, <2>2, <2>3, <2>4 DEF EndInv, Idle
<1>9. ~TimeOutInQueue /\ ~Forget
  BY DEF TimeOutInQueue, Forget, Go
<1> QED BY <1>2, <1>3, <1>4, <1>5, <1>6, <1>7, <1>8, <1>9 DEF Handle

\* One more event of an ending of the two.
LEMMA PlayTells ==
    ASSUME TypeInv, EndInv, NEW a \in Enders, Play(a), ~cancelled, pc # "returned"
    PROVE  EndInv'
<1>1. a \in Tellers /\ Told(script[a])
  BY DEF Play, EndInv, TypeInv, TypeOK, Enders, Tellers, Idle
<1>2. UNCHANGED <<pc, reader>>
  BY DEF Play
<1>3. /\ closed' => Ending \subseteq got'
      /\ got \subseteq got' /\ UNCHANGED cut /\ Begin(a, Tail(script[a]))
      /\ \/ script'[a] = <<>> /\ Ending \subseteq got'
         \/ script'[a] # <<>> /\ Told(script[a])'
  <2>0. ASSUME NEW s, Begin(a, s) PROVE script'[a] = s
    BY <2>0 DEF Begin, TypeInv, TypeOK
  <2>1. CASE script[a] = Answer
    <3>1. Head(script[a]) = "normal" /\ Tail(script[a]) = Failure
      BY <2>1, EndingsGoOn
    <3>2. UNCHANGED <<closed, got, cut>> /\ Begin(a, Tail(script[a]))
      BY <3>1 DEF Play, Perform, Save, output, Events
    <3> QED BY <2>0, <3>1, <3>2, EndingsGoOn DEF EndInv, Told
  <2>2. CASE script[a] = Failure
    <3>1. Head(script[a]) = "finish" /\ Tail(script[a]) = <<"done", "close">>
      BY <2>2, EndingsGoOn
    <3>2. UNCHANGED cut /\ Begin(a, Tail(script[a])) /\ Send("finish")
      BY <3>1 DEF Play, Perform, Events
    <3>3. closed' = closed /\ got \subseteq got' /\ "finish" \in got'
      BY <3>2 DEF Send, EndInv, Ending
    <3> QED BY <2>0, <3>1, <3>2, <3>3, EndingsGoOn DEF EndInv, Told
  <2>3. CASE script[a] = <<"done", "close">> /\ "finish" \in got
    <3>1. Head(script[a]) = "done" /\ Tail(script[a]) = <<"close">>
      BY <2>3, EndingsGoOn
    <3>2. UNCHANGED cut /\ Begin(a, Tail(script[a])) /\ Send("done")
      BY <3>1 DEF Play, Perform, Events
    <3>3. closed' = closed /\ got \subseteq got' /\ Ending \subseteq got'
      BY <2>3, <3>2 DEF Send, EndInv, Ending
    <3> QED BY <2>0, <3>1, <3>2, <3>3, EndingsGoOn DEF EndInv, Told
  <2>4. CASE script[a] = <<"close">> /\ Ending \subseteq got
    <3>1. Head(script[a]) = "close" /\ Tail(script[a]) = <<>>
      BY <2>4, EndingsGoOn
    <3>2. UNCHANGED <<cut, got>> /\ Begin(a, Tail(script[a]))
      BY <3>1 DEF Play, Perform, Events
    <3> QED BY <2>0, <2>4, <3>1, <3>2
  <2> QED BY <1>1, <2>1, <2>2, <2>3, <2>4 DEF Told
<1>4. \A b \in Enders \ {a} : script'[b] = script[b]
  BY <1>3 DEF Begin, TypeInv, TypeOK
<1>5. Tellers \subseteq Enders /\ "rejector" \in Enders \ {a}
  BY <1>1 DEF Tellers, Enders
<1>6. \A b \in Tellers \ {a} : Told(script[b]) => Told(script[b])'
  BY <1>3, <1>4, <1>5 DEF Told
<1>7. \A b \in Tellers : (Idle(b) \/ Told(script[b]))'
  BY <1>3, <1>4, <1>5, <1>6 DEF EndInv, Idle
<1>8. \A b \in Tellers : Idle(b)' => Idle(b) \/ Ending \subseteq got'
  BY <1>3, <1>4, <1>5 DEF Idle
<1> QED BY <1>2, <1>3, <1>4, <1>5, <1>7, <1>8 DEF EndInv, Idle, Tellers
\* The reader, of a stream that only the handler has cut off.
LEMMA ReaderTells ==
    ASSUME TypeInv, EndInv, Model \/ Unblock, ~cancelled, pc # "returned"
    PROVE  EndInv'
<1>1. UNCHANGED <<closed, got, pc, cut>> /\ reader = "reading"
  BY DEF Model, Unblock, Content, Complete, StreamError, ContextError, StopReading,
         Reading, output
<1>2. CASE Complete \/ StreamError
  <2>1. script'["reader"] \in {Answer, Failure}
        /\ \A b \in Enders \ {"reader"} : script'[b] = script[b]
    BY <1>2 DEF Complete, StreamError, Begin, TypeInv, TypeOK, Enders
  <2>2. Told(script["reader"])' /\ ~Idle("reader")'
    BY <2>1, EndingsGoOn DEF Told, Idle
  <2>3. Idle("handler") \/ Told(script["handler"])
        => (Idle("handler") \/ Told(script["handler"]))'
    BY <1>1, <2>1 DEF Told, Idle, Enders
  <2> QED BY <1>1, <2>1, <2>2, <2>3 DEF EndInv, Idle, Tellers, Enders
<1>3. CASE Content \/ StopReading
  <2>1. script' = script /\ (reader' = "ended" => cut)
    BY <1>1, <1>3 DEF Content, StopReading
  <2>2. \A a \in Tellers : (Idle(a) \/ Told(script[a])) => (Idle(a) \/ Told(script[a]))'
    BY <1>1, <2>1 DEF Idle, Told
  <2> QED BY <1>1, <2>1, <2>2 DEF EndInv, Idle
<1> QED BY <1>2, <1>3 DEF Model, Unblock, ContextError

\* Only one who gives up in the queue is rejected, and that one has returned.
LEMMA RejectionIsLate ==
    ASSUME TypeInv, script["rejector"] # <<>> => pc = "returned", [Next]_vars
    PROVE  script'["rejector"] # <<>> => pc' = "returned"
<1>1. ASSUME NEW b \in Enders \ {"rejector"}, NEW s, Begin(b, s)
      PROVE  script'["rejector"] = script["rejector"]
  BY <1>1 DEF Begin, TypeInv, TypeOK, Enders
<1>2. {"handler", "reader", "canceller"} \subseteq Enders \ {"rejector"}
  BY DEF Enders
<1>3. CASE Handle
  <2>1. CASE TimeOutInQueue
    BY <2>1 DEF TimeOutInQueue, Go
  <2>2. pc # "returned"
    BY <1>3 DEF Handle, TimeOutInQueue, Register, PersistOwner, Review, AwaitCancel,
                Guide, AnswerFromCache, Prepare, FallBack, CheckContext, Open, Refuse,
                FirstPacket, GiveUp, Bind, Wait, Unregister, Forget
  <2>3. CASE Review
    BY <1>1, <1>2, <2>2, <2>3 DEF Review, CancelTask
  <2>4. CASE Guide \/ AnswerFromCache \/ CheckContext \/ Refuse \/ GiveUp
    BY <1>1, <1>2, <2>2, <2>4
       DEF Guide, AnswerFromCache, CheckContext, Refuse, GiveUp, Fail
  <2> QED BY <1>3, <2>1, <2>2, <2>3, <2>4
          DEF Handle, Register, PersistOwner, AwaitCancel, Prepare, FallBack, Open,
              FirstPacket, Bind, Wait, Unregister, Forget
<1>4. CASE Model \/ Unblock
  BY <1>1, <1>2, <1>4 DEF Model, Unblock, Content, Complete, StreamError, ContextError,
                          StopReading, Reading
<1>5. ASSUME NEW a \in Enders, Play(a)
      PROVE  script'["rejector"] # <<>> => pc' = "returned"
  <2>1. PICK s : Begin(a, s)
    BY <1>5 DEF Play
  <2>2. CASE a = "rejector"
    BY <1>5, <2>2 DEF Play
  <2> QED BY <1>1, <1>5, <2>1, <2>2 DEF Play
<1>6. ASSUME NEW c \in Stops, Request(c)
      PROVE  script'["rejector"] # <<>> => pc' = "returned"
  BY <1>1, <1>2, <1>6 DEF Request, CheckOwner, Mark, Publish, Hear, StopHere,
                          Stopping, CancelLocal, CancelTask
<1>7. CASE Deadline \/ UNCHANGED vars
  BY <1>7 DEF Deadline, vars
<1> QED BY <1>3, <1>4, <1>5, <1>6, <1>7 DEF Next

LEMMA EndKept ==
    ASSUME TypeInv, EndInv, [Next]_vars
    PROVE  EndInv'
<1>1. script'["rejector"] # <<>> => pc' = "returned"
  BY RejectionIsLate DEF EndInv
<1>2. CASE cancelled' \/ pc' = "returned"
  BY <1>1, <1>2 DEF EndInv
<1>3. CASE ~cancelled' /\ pc' # "returned"
  <2>1. ~cancelled /\ pc # "returned"
    BY <1>3, NotUndone
  <2>2. CASE Deadline \/ UNCHANGED vars \/ \E c \in Stops : Request(c)
    <3>1. UNCHANGED <<closed, got, script, cut, reader, pc>>
      BY <1>3, <2>2 DEF Deadline, vars, stream, output, Request, CheckOwner, Mark,
                        Publish, Hear, StopHere, Stopping, CancelLocal, CancelTask
    <3>2. \A a \in Tellers : (Idle(a) \/ Told(script[a]))
                             => (Idle(a) \/ Told(script[a]))'
      BY <3>1 DEF Idle, Told
    <3> QED BY <2>1, <3>1, <3>2 DEF EndInv, Idle
  <2> QED BY <1>3, <2>1, <2>2, HandleTells, PlayTells, ReaderTells DEF Next
<1> QED BY <1>2, <1>3

\* A request that got its permit, and whose task is not cancelled, is not over
\* before its client has been sent the end: the handler waits for the reader, and
\* whoever closes the sender has told the end first, whatever stops are refused,
\* with or without Redis, however the model ends (Pipeline.StreamChat, OnComplete,
\* OnError, Sender.Close).
THEOREM TheEndIsHeard == Spec => []EndIsHeard
<1>1. Init => EndInv
  BY DEF Init, EndInv, Idle, Tellers, Enders
<1>2. EndInv => EndIsHeard
  BY DEF EndInv, EndIsHeard, Ending
<1>3. Init => TypeInv
  BY InitTyped
<1>4. TypeInv /\ EndInv /\ [Next]_vars => (TypeInv /\ EndInv)'
  BY TypeStep, EndKept
<1> QED BY <1>1, <1>2, <1>3, <1>4, PTL DEF Spec
=============================================================================
