----------------------------- MODULE ChatStream -----------------------------
(* One streamed chat request: the HTTP handler (biz/rag/controller.go, then *)
(* queued_chat_service.go and pipeline.go), the goroutine that reads the    *)
(* model's stream and calls pipelineCallback, the stop requests and the     *)
(* cancellation listener of stream_task_manager.go, which may all run on    *)
(* different nodes and meet in Redis, in the task and in the SSE sender.    *)
(* Tasks share nothing but the tables keyed by their id, so one is enough.  *)
EXTENDS Naturals, Sequences

CONSTANTS Stops,        \* requests to stop the task
          Who,          \* Who[c]: the user that makes stop request c
          Owner,        \* the user that asked the question
          System,       \* systemRequester
          Nobody,       \* "": no user, no key
          Redis,        \* ways Redis may be: "none", "sound", "failing"
          QueueFull     \* may the queue of permits time the request out?

ASSUME ChatAssumption == /\ System \notin {Owner, Nobody}
                         /\ Redis \subseteq {"none", "sound", "failing"}
                         /\ QueueFull \in BOOLEAN

VARIABLES
    \* Redis: is it configured (else this is the only node), may commands fail?
    shared, ownerKey, marker,
    \* streamTaskManager.tasks, the task and its context
    local, cancelled, payloadFn, bound, ctxDone,
    cut,        \* the model call's handle is cancelled
    snap,       \* what cancelTask read of the task under its lock
    \* the processes
    pc,         \* the handler
    reader,     \* the goroutine that reads the model's stream
    stop,       \* the stop requests, each up to the delivery of its broadcast
    script,     \* script[a]: what is left of the response a is ending
    \* the sender, the client and the stored messages
    answered,   \* has the model produced content?
    closed,     \* SSESender.IsClosed
    got,        \* the ending events sent before the handler returned
    saved       \* statuses of the assistant messages stored

redis == <<shared, ownerKey, marker>>
task == <<local, cancelled, payloadFn, bound, ctxDone, snap>>
stream == <<cut, reader, answered>>
output == <<closed, got, saved>>
vars == <<redis, task, stream, pc, stop, script, output>>

Users == {Owner, System, Nobody} \cup {Who[c] : c \in Stops}
Points == {"queue", "own", "review", "cancelling", "prepare", "guard", "start",
           "probe", "bind", "wait", "unregister", "forget", "returned"}
\* Those who end a response; "canceller" is whoever runs cancelTask.
Enders == {"handler", "reader", "canceller", "rejector"}
Events == {"finish", "cancel", "reject", "done"}
Statuses == {"normal", "interrupted", "rejected"}
Steps == Events \cup Statuses \cup {"cut", "close"}

TypeOK ==
    /\ shared \in Redis /\ ownerKey \in Users /\ marker \in Users
    /\ local \in BOOLEAN /\ cancelled \in BOOLEAN /\ payloadFn \in BOOLEAN
    /\ bound \in BOOLEAN /\ ctxDone \in BOOLEAN /\ cut \in BOOLEAN
    /\ snap \in [bound : BOOLEAN, fn : BOOLEAN]
    /\ pc \in Points
    /\ reader \in {"off", "reading", "ended"}
    /\ stop \in [Stops -> {"idle", "mark", "publish", "flying", "heard", "refused"}]
    /\ script \in [Enders -> Seq(Steps)]
    /\ answered \in BOOLEAN /\ closed \in BOOLEAN
    /\ got \subseteq Events /\ saved \subseteq Statuses
    \* Nothing streams, is bound or is cancelled outside the task's life.
    /\ reader = "off" => ~answered /\ ~bound
    /\ script["canceller"] # <<>> => cancelled

Init ==
    /\ shared \in Redis /\ ownerKey = Nobody /\ marker = Nobody
    /\ local = FALSE /\ cancelled = FALSE /\ payloadFn = FALSE
    /\ bound = FALSE /\ ctxDone = FALSE /\ cut = FALSE
    /\ snap = [bound |-> FALSE, fn |-> FALSE]
    /\ pc = "queue" /\ reader = "off" /\ stop = [c \in Stops |-> "idle"]
    /\ script = [a \in Enders |-> <<>>]
    /\ answered = FALSE /\ closed = FALSE
    /\ got = {} /\ saved = {}

\* isRequesterAllowed: the system always, a user only for a task of their own.
Allowed(requester) == \/ requester = System
                      \/ Owner # Nobody /\ requester = Owner

\* An error of Redis is logged, and its caller goes on without the command.
OrFails(result, without) ==
    {result} \cup (IF shared = "failing" THEN {without} ELSE {})

------------------------------------------------------------------------------
(* Ending a response: each script is a straight run of sends and saves that *)
(* other goroutines interleave with.  What is sent once the handler has     *)
(* returned does not reach the client.                                      *)

Answer == <<"normal", "finish", "done", "close">>
Failure == <<"finish", "done", "close">>
Rejection == <<"rejected", "reject", "finish", "done", "close">>
Cancellation == <<"cut", "interrupted", "cancel", "done", "close">>

Begin(a, s) == script' = [script EXCEPT ![a] = s]
Idle(a) == script[a] = <<>>

\* SSESender.Send: an error once closed, which every caller ignores.
Send(event) ==
    /\ got' = IF closed \/ pc = "returned" THEN got ELSE got \cup {event}
    /\ UNCHANGED <<closed, saved>>

Save(status) == saved' = saved \cup {status} /\ UNCHANGED <<closed, got>>

\* cancelTask cancels the context and the handle it saw; it leaves the rest
\* undone if the sender is closed by then, and stores what was answered so far.
Cut == /\ ctxDone' = TRUE /\ cut' = (cut \/ snap.bound)
       /\ UNCHANGED <<local, cancelled, payloadFn, bound, snap, output>>

\* An answer that cannot be stored, or is blank, is announced all the same.
Perform(s) ==
    \/ s \in Events /\ Send(s)
    \/ s \in {"normal", "rejected"} /\ Save(s)
    \/ s = "interrupted" /\ ~closed /\ snap.fn /\ answered /\ Save(s)
    \/ s \in {"normal", "interrupted"} /\ UNCHANGED output
    \/ s = "close" /\ closed' = TRUE /\ UNCHANGED <<got, saved>>

Play(a) ==
    /\ script[a] # <<>>
    /\ LET s == Head(script[a])
       IN  /\ Begin(a, IF s = "interrupted" /\ closed THEN <<>> ELSE Tail(script[a]))
           /\ \/ s = "cut" /\ Cut
              \/ s # "cut" /\ Perform(s) /\ UNCHANGED <<task, cut>>
    /\ UNCHANGED <<redis, pc, reader, stop, answered>>

------------------------------------------------------------------------------
(* streamTask: cancelTask runs once; whoever calls it again waits for it.   *)

\* Mutant: the flag is not set.
CancelQuietly == /\ snap' = [bound |-> bound, fn |-> payloadFn]
                 /\ Begin("canceller", Cancellation)
                 /\ UNCHANGED <<local, cancelled, payloadFn, bound, ctxDone>>

CancelTask == /\ cancelled' = TRUE
              /\ snap' = [bound |-> bound, fn |-> payloadFn]
              /\ Begin("canceller", Cancellation)
              /\ UNCHANGED <<local, payloadFn, bound, ctxDone>>

\* Mutant: the flag is not looked at.
BindOnly == /\ bound' = TRUE
            /\ UNCHANGED <<local, cancelled, payloadFn, ctxDone, snap, cut>>

\* bindHandle: a handle that arrives after the cancellation is cancelled here.
BindHandle == /\ bound' = TRUE /\ cut' = (cut \/ cancelled)
              /\ UNCHANGED <<local, cancelled, payloadFn, ctxDone, snap>>

------------------------------------------------------------------------------
(* The handler.                                                             *)

Go(point) == pc' = point
Handler == Idle("handler") /\ UNCHANGED <<redis, stop, output>>

\* The limiter gave up: OnTimeout runs in a goroutine of its own, and the
\* handler returns.  Without a stored message there is nothing to announce.
TimeOutInQueue ==
    /\ pc = "queue" /\ QueueFull /\ Handler
    /\ \E s \in {Rejection, <<"done", "close">>} : Begin("rejector", s)
    /\ Go("returned") /\ UNCHANGED <<task, stream>>

\* register: the task with its owner, then the owner in Redis, then the review
\* of a cancellation that came first.
Register == /\ pc = "queue" /\ Handler /\ Go("own")
            /\ local' = TRUE
            /\ UNCHANGED <<cancelled, payloadFn, bound, ctxDone, snap, stream, script>>

PersistOwner == /\ pc = "own" /\ Idle("handler") /\ Go("review")
                /\ ownerKey' \in OrFails(IF shared # "none" THEN Owner ELSE Nobody, ownerKey)
                /\ UNCHANGED <<shared, marker, task, stream, stop, script, output>>

\* Mutants: the requester is not reviewed; the marker is not read.
MarkedByAnyone == cancelled \/ marker # Nobody
MarkedHere == cancelled

Marked == cancelled \/ Allowed(marker)

Review == /\ pc = "review" /\ Handler /\ UNCHANGED stream
          /\ \/ FALSE \in OrFails(Marked, cancelled)
                /\ Go("prepare") /\ UNCHANGED <<task, script>>
             \/ Marked /\ Go("cancelling")
                /\ IF cancelled THEN UNCHANGED <<task, script>> ELSE CancelTask

AwaitCancel == /\ pc = "cancelling" /\ Idle("canceller") /\ Handler
               /\ Go("prepare") /\ UNCHANGED <<task, stream, script>>

\* Ambiguous questions get a guiding prompt, without a look at the task.
Guide == /\ pc = "prepare" /\ Handler /\ Go("unregister")
         /\ Begin("handler", Failure) /\ UNCHANGED <<task, stream>>

AnswerFromCache ==
    /\ pc = "prepare" /\ Handler /\ Go("unregister")
    /\ Begin("handler", IF cancelled THEN <<>> ELSE Answer)
    /\ UNCHANGED <<task, stream>>

\* A prompt with evidence, or the system's prompt where no intent needs any
\* (streamSystemOnlyResponse: the same steps from here on).
Prepare ==
    /\ pc = "prepare" /\ Handler /\ Go("guard") /\ payloadFn' = TRUE
    /\ UNCHANGED <<local, cancelled, bound, ctxDone, snap, stream, script>>

\* No evidence: the prompt asks for a better question.
FallBack ==
    /\ pc = "prepare" /\ Handler /\ UNCHANGED <<stream, script>>
    /\ \/ cancelled /\ Go("unregister") /\ UNCHANGED task
       \/ ~cancelled /\ Go("start") /\ payloadFn' = TRUE
          /\ UNCHANGED <<local, cancelled, bound, ctxDone, snap>>

Fail == Begin("handler", IF cancelled THEN <<>> ELSE Failure)

CheckContext == /\ pc = "guard" /\ Handler /\ UNCHANGED <<task, stream>>
                /\ \/ ~ctxDone /\ Go("start") /\ UNCHANGED script
                   \/ ctxDone /\ Go("unregister") /\ Fail

\* StreamChat of the router: the reader starts, and the call returns with the
\* first packet, or with an error after it has cut the call off.
Open == /\ pc = "start" /\ ~ctxDone /\ Handler /\ Go("probe")
        /\ reader' = "reading" /\ UNCHANGED <<task, cut, answered, script>>
Refuse == /\ pc = "start" /\ Handler /\ Go("unregister") /\ Fail
          /\ UNCHANGED <<task, stream>>
FirstPacket == /\ pc = "probe" /\ answered /\ Handler /\ Go("bind")
               /\ UNCHANGED <<task, stream, script>>
GiveUp == /\ pc = "probe" /\ (ctxDone \/ ~answered) /\ Handler
          /\ Go("unregister") /\ Fail
          /\ cut' = TRUE /\ UNCHANGED <<task, reader, answered>>

Bind == /\ pc = "bind" /\ Handler /\ Go("wait") /\ BindHandle
        /\ UNCHANGED <<reader, answered, script>>
\* Mutant: the wait ends with the context.
WaitBriefly == /\ pc = "wait" /\ (ctxDone \/ reader = "ended") /\ Idle("reader")
               /\ Handler /\ Go("unregister") /\ UNCHANGED <<task, stream, script>>

Wait == /\ pc = "wait" /\ reader = "ended" /\ Idle("reader") /\ Handler
        /\ Go("unregister") /\ UNCHANGED <<task, stream, script>>

Unregister == /\ pc = "unregister" /\ Handler /\ Go("forget")
              /\ local' = FALSE
              /\ UNCHANGED <<cancelled, payloadFn, bound, ctxDone, snap, stream, script>>
Forget == /\ pc = "forget" /\ Idle("handler") /\ Go("returned")
          /\ \E keys \in OrFails(<<Nobody, Nobody>>, <<ownerKey, marker>>) :
                ownerKey' = keys[1] /\ marker' = keys[2]
          /\ UNCHANGED <<shared, task, stream, stop, script, output>>

\* The pipeline's deadline ends the context, not the task.
Deadline == /\ pc \notin {"queue", "returned"} /\ ~ctxDone /\ ctxDone' = TRUE
            /\ UNCHANGED <<redis, local, cancelled, payloadFn, bound, snap,
                           stream, pc, stop, script, output>>

------------------------------------------------------------------------------
(* The reader: StreamExecutor's goroutine and pipelineCallback.             *)

Reading == /\ reader = "reading"
           /\ UNCHANGED <<redis, task, pc, stop, cut, output>>

\* The handle is looked at before a line is handled: the callbacks of that line
\* may come after it is cut.
Content == /\ Reading /\ ~cancelled /\ answered' = TRUE
           /\ UNCHANGED <<reader, script>>

\* OnComplete, OnError: a cancelled task is left to cancelTask.
Complete == /\ Reading /\ reader' = "ended"
            /\ Begin("reader", IF cancelled THEN <<>> ELSE Answer)
            /\ UNCHANGED answered

StreamError == /\ Reading /\ reader' = "ended" /\ UNCHANGED answered
               /\ Begin("reader", IF cancelled THEN <<>> ELSE Failure)
\* Mutant: only a cancellation interrupts the read.
ContextErrorIfCancelled == ctxDone /\ cancelled /\ StreamError
\* The read ends with the context.
ContextError == ctxDone /\ StreamError

\* A cancelled handle ends the loop without a callback.
StopReading == /\ Reading /\ cut /\ reader' = "ended"
               /\ UNCHANGED <<answered, script>>

------------------------------------------------------------------------------
(* Stop requests and the listener of the task's node.                       *)

Stopping(c, from, to) == /\ stop[c] = from /\ stop' = [stop EXCEPT ![c] = to]
                         /\ UNCHANGED <<stream, pc, output>>

\* cancelByUser: a task with another owner is refused, one without is not.
CheckOwner(c) ==
    LET foreign == ownerKey \notin {Nobody, Who[c]}
    IN  /\ \E to \in OrFails(IF foreign THEN "refused" ELSE "mark", "mark") :
              Stopping(c, "idle", to)
        /\ UNCHANGED <<redis, task, script>>

Mark(c) == /\ shared # "none" /\ Stopping(c, "mark", "publish")
           /\ marker' \in OrFails(Who[c], marker)
           /\ UNCHANGED <<shared, ownerKey, task, script>>

\* The request is answered here; the broadcast travels on, and may get lost.
Publish(c) == /\ Stopping(c, "publish", "flying")
              /\ UNCHANGED <<redis, task, script>>

\* cancelLocal; cancelTask does nothing the second time.
CancelLocal(c) ==
    IF local /\ Allowed(Who[c]) /\ ~cancelled THEN CancelTask
                                              ELSE UNCHANGED <<task, script>>

Hear(c) == /\ Stopping(c, "flying", "heard") /\ CancelLocal(c) /\ UNCHANGED redis
StopHere(c) == /\ shared = "none" /\ Stopping(c, "mark", "heard") /\ CancelLocal(c)
               /\ UNCHANGED redis

------------------------------------------------------------------------------
Handle == \/ TimeOutInQueue \/ Register \/ PersistOwner \/ Review \/ AwaitCancel
          \/ Guide \/ AnswerFromCache \/ Prepare \/ FallBack \/ CheckContext
          \/ Open \/ Refuse \/ FirstPacket \/ GiveUp \/ Bind \/ Wait
          \/ Unregister \/ Forget
Model == Content \/ Complete \/ StreamError
Unblock == ContextError \/ StopReading
Request(c) == CheckOwner(c) \/ Mark(c) \/ Publish(c) \/ Hear(c) \/ StopHere(c)

Next == \/ Handle \/ Deadline \/ Model \/ Unblock
        \/ \E a \in Enders : Play(a)
        \/ \E c \in Stops : Request(c)

Spec == Init /\ [][Next]_vars

\* Goroutines are scheduled, Redis answers, the first packet has a timeout and
\* a blocked read ends with its context; a user need not stop anything, and a
\* model need not go on.
Fairness == /\ WF_vars(Handle) /\ WF_vars(Unblock)
            /\ \A a \in Enders : WF_vars(Play(a))
            /\ \A c \in Stops : WF_vars(Mark(c) \/ Publish(c) \/ Hear(c) \/ StopHere(c))
FairSpec == Spec /\ Fairness

------------------------------------------------------------------------------
(* What must never happen.                                                  *)

\* Nobody but its owner cancels a task, whatever marker or broadcast waits for
\* it and however they interleave with its registration.
OnlyAllowedStop ==
    cancelled => \E c \in Stops : Allowed(Who[c]) /\ stop[c] \notin {"idle", "refused"}

\* Once cancelTask is over the model's call is cut, also when the handle came
\* while cancelTask ran: no stream is left running for a cancelled task.
NoOrphanStream == cancelled /\ Idle("canceller") => ctxDone /\ (bound => cut)

\* Unless the task was cancelled, a request that got its permit is not over
\* before the client has got its end, whoever sent it and whatever the model,
\* the deadline, Redis or another goroutine do meanwhile.
EndIsHeard == pc = "forget" /\ ~cancelled => {"finish", "done"} \subseteq got

------------------------------------------------------------------------------
(* What must happen.                                                        *)

\* A stop by the owner ends the response, even if the model hangs and however
\* early it comes, unless a stranger's stop got past the check of the owner: its
\* marker may replace the owner's.  Without Redis, or when a command fails, a
\* stop before the registration may be forgotten.
Intruder == \E c \in Stops : /\ ~Allowed(Who[c])
                             /\ stop[c] \notin {"idle", "refused"}
StopEndsStream ==
    \A c \in Stops :
        shared = "sound" /\ Allowed(Who[c]) /\ stop[c] \in {"flying", "heard"}
            ~> pc = "returned" \/ Intruder

\* So does the deadline, or whatever else ends the context of the pipeline.
ResponseEnds == ctxDone ~> pc = "returned"

=============================================================================
