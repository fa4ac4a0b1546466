--------------------------- MODULE WritePipeline ---------------------------
(***************************************************************************)
(* How the Firestore SDK gets the app's writes to the service.             *)
(*                                                                         *)
(* LevelDbMutationQueue keeps a queue of batches per user on disk; the     *)
(* RemoteStore keeps a prefix of the signed-in user's queue, the pipeline, *)
(* and sends it on a WriteStream.  The service answers the requests of a   *)
(* call in order, and an answer says nothing of its request: the first     *)
(* answer is the handshake's, every other one is taken for the front of    *)
(* the pipeline.  All SDK code runs on one worker queue, so a callback is  *)
(* one step.  A write is known by its number; what it does to a document   *)
(* is DocumentCache's subject.                                             *)
(***************************************************************************)
EXTENDS Integers, Sequences, FiniteSets

CONSTANTS
    Users,
    MaxPending,     \* kMaxPendingWrites
    Bad,            \* the writes the service refuses for good
    MaxWrites,      \* bound: writes issued
    MaxFaults       \* bound: broken calls, failed tokens, restarts, sign-ins

ASSUME PipelineAssumption ==
    /\ Users # {}
    /\ MaxPending \in Nat \ {0}
    /\ MaxWrites \in Nat
    /\ MaxFaults \in Nat

Writes == 1..MaxWrites
Batch  == [id : Nat \ {0}, write : Writes]

VARIABLES
    queue,      \* per user, on disk: the batches, in the order of their ids
    user,       \* current_user_
    nextId,     \* next_batch_id_
    callbacks,  \* per user: the batches whose completion handler is waiting
    pipeline,   \* write_pipeline_
    stream,     \* write_stream_ and its call
    late,       \* requests of a call the client has closed, still under way
    author,     \* history: the user who issued each write
    reached,    \* history: the writes the service has applied
    refused,    \* history: the writes the service has refused
    answered,   \* history: what the completion handler of a write was told
    faults      \* bound

device  == <<queue, user, nextId, callbacks>>
service == <<late, reached, refused>>
vars    == <<device, pipeline, stream, service, author, answered, faults>>

\* hello is the handshake's progress; status is how the service has ended the
\* call; sent are the requests it has not taken, answers those not read.
Stream ==
    [state   : {"initial", "starting", "open", "error", "backoff"},
     hello   : {"none", "asked", "answered", "done"},
     status  : {"none", "live", "transient", "permanent"},
     sent    : Seq(Batch),
     answers : Seq(Batch),
     idle    : BOOLEAN]     \* the idle timer is running

TypeOK ==
    /\ queue \in [Users -> Seq(Batch)]
    /\ user \in Users
    /\ nextId \in Nat \ {0}
    /\ callbacks \in [Users -> SUBSET Batch]
    /\ pipeline \in Seq(Batch)
    /\ stream \in Stream
    /\ late \in Seq(Batch)
    /\ author \in Seq(Users)
    /\ Len(author) \in 0..MaxWrites
    /\ reached \subseteq Writes
    /\ refused \subseteq Writes
    /\ answered \in [Writes -> {"nothing", "ok", "error"}]
    /\ faults \in 0..MaxFaults

\* A stream without a call, in the given state.
Closed(state) ==
    [state |-> state, hello |-> "none", status |-> "none",
     sent |-> << >>, answers |-> << >>, idle |-> FALSE]

Init ==
    /\ queue = [u \in Users |-> << >>]
    /\ user \in Users
    /\ nextId = 1
    /\ callbacks = [u \in Users |-> {}]
    /\ pipeline = << >>
    /\ stream = Closed("initial")
    /\ late = << >>
    /\ author = << >>
    /\ reached = {}
    /\ refused = {}
    /\ answered = [w \in Writes |-> "nothing"]
    /\ faults = 0
----------------------------------------------------------------------------
(* The queue on disk.                                                      *)

\* LoadNextBatchIdFromDb (a set of one): one more than any row's, whoever's
\* it is.
LoadNextBatchId(q) ==
    {n \in 1..MaxWrites + 1 :
        /\ \A u \in Users : \A i \in DOMAIN q[u] : q[u][i].id < n
        /\ n = 1 \/ \E u \in Users : \E i \in DOMAIN q[u] : q[u][i].id = n - 1}

\* RemoveMutationBatch: the row of the given number goes.
RemoveBatch(q, id) ==
    LET i == CHOOSE i \in DOMAIN q : q[i].id = id
    IN  SubSeq(q, 1, i - 1) \o SubSeq(q, i + 1, Len(q))

\* How many rows NextMutationBatchAfterBatchId passes over.
RowsUpTo(q, id) ==
    CHOOSE n \in 0..Len(q) :
        /\ \A i \in 1..n : q[i].id <= id
        /\ n < Len(q) => q[n + 1].id > id

LastId(p) == IF p = << >> THEN 0 ELSE p[Len(p)].id

Smaller(m, n) == IF m < n THEN m ELSE n

\* Mutant: the pipeline is filled from the end of the queue.
LastBatch(q, p) ==
    IF Len(p) < MaxPending /\ RowsUpTo(q, LastId(p)) < Len(q)
    THEN <<q[Len(q)]>> ELSE << >>

\* The batches that the loop of FillWritePipeline adds to pipeline p.
NextBatches(q, p) ==
    LET n == RowsUpTo(q, LastId(p))
    IN  SubSeq(q, n + 1, Smaller(Len(q), n + (MaxPending - Len(p))))
----------------------------------------------------------------------------
(* The stream.                                                             *)

\* Mutant: writing does not cancel the idle timer.
SendIdling(s, batches) ==
    IF s.state = "open" /\ s.hello = "done" /\ batches # << >>
    THEN [s EXCEPT !.sent = @ \o batches]
    ELSE s

\* AddToWritePipeline's WriteMutations; writing cancels the idle timer.
Send(s, batches) ==
    IF s.state = "open" /\ s.hello = "done" /\ batches # << >>
    THEN [s EXCEPT !.sent = @ \o batches, !.idle = FALSE]
    ELSE s

\* MarkIdle, called only when nothing is pending.
MarkIdle(s, p) ==
    IF p = << >> /\ s.state = "open" THEN [s EXCEPT !.idle = TRUE] ELSE s

\* Mutant: a stream in error is not started again.
StartIfInitial(s, p) ==
    IF p # << >> /\ s.state = "initial" THEN [s EXCEPT !.state = "starting"] ELSE s

\* StartWriteStream, if ShouldStartWriteStream: after an error it backs off.
StartIfNeeded(s, p) ==
    IF p = << >> THEN s
    ELSE CASE s.state = "initial" -> [s EXCEPT !.state = "starting"]
           [] s.state = "error"   -> [s EXCEPT !.state = "backoff"]
           [] OTHER               -> s

\* FillWritePipeline, from queue q, pipeline p and stream s.
FillWritePipeline(q, p, s) ==
    LET more == NextBatches(q, p)
    IN  /\ pipeline' = p \o more
        /\ stream' = StartIfNeeded(MarkIdle(Send(s, more), p \o more), p \o more)

\* NotifyUser, for batch number id of user u.
NotifyUser(u, id, answer) ==
    LET told == {b \in callbacks[u] : b.id = id}
    IN  /\ answered' = [w \in Writes |->
               IF \E b \in told : b.write = w THEN answer ELSE answered[w]]
        /\ callbacks' = [callbacks EXCEPT ![u] = @ \ told]
----------------------------------------------------------------------------
(* SyncEngine::WriteMutations.  The handler is registered under its user;  *)
(* insert does not replace an entry of the same number.                    *)
WriteMutations ==
    /\ Len(author) < MaxWrites
    /\ LET batch == [id |-> nextId, write |-> Len(author) + 1]
           rows  == Append(queue[user], batch)
       IN  /\ queue' = [queue EXCEPT ![user] = rows]
           /\ callbacks' = IF \E b \in callbacks[user] : b.id = nextId
                           THEN callbacks
                           ELSE [callbacks EXCEPT ![user] = @ \cup {batch}]
           /\ FillWritePipeline(rows, pipeline, stream)
    /\ nextId' = nextId + 1
    /\ author' = Append(author, user)
    /\ UNCHANGED <<user, service, answered, faults>>

(* ResumeStartWithCredentials: the call is started, and OnWriteStreamOpen  *)
(* writes the handshake.                                                   *)
OpenStream ==
    /\ stream.state = "starting"
    /\ stream' = [stream EXCEPT !.state = "open", !.hello = "asked",
                                !.status = "live"]
    /\ UNCHANGED <<device, pipeline, service, author, answered, faults>>

(* BackoffAndRun's callback starts the stream again.                       *)
BackoffElapses ==
    /\ stream.state = "backoff"
    /\ stream' = [stream EXCEPT !.state = "starting"]
    /\ UNCHANGED <<device, pipeline, service, author, answered, faults>>

(* OnWriteStreamHandshakeComplete: the whole pipeline is written again.    *)
ReadHandshake ==
    /\ stream.hello = "answered"
    /\ stream' = Send([stream EXCEPT !.hello = "done"], pipeline)
    /\ UNCHANGED <<device, pipeline, service, author, answered, faults>>

(* OnWriteStreamMutationResult and HandleSuccessfulWrite.                  *)
ReadResult ==
    /\ stream.hello = "done"
    /\ stream.answers # << >>
    /\ LET front == Head(pipeline)
           rows  == RemoveBatch(queue[user], front.id)
       IN  /\ NotifyUser(user, front.id, "ok")
           /\ queue' = [queue EXCEPT ![user] = rows]
           /\ FillWritePipeline(rows, Tail(pipeline),
                                [stream EXCEPT !.answers = Tail(@)])
    /\ UNCHANGED <<user, nextId, service, author, faults>>

\* The end of the call is noticed: every answer has been read, or a request
\* that is still being written fails (OnOperationFailed drops what was read).
EndNoticed ==
    /\ stream.state = "open"
    /\ stream.status \in {"transient", "permanent"}
    /\ \/ stream.hello # "answered" /\ stream.answers = << >>
       \/ stream.sent # << >>

\* HandleWriteError is about a write: the handshake is done.
WriteError ==
    stream.hello = "done" /\ stream.status = "permanent" /\ pipeline # << >>

\* Mutant: the error is blamed on the last batch of the pipeline.
BlamedLast == pipeline[Len(pipeline)]

\* The batch that HandleWriteError takes the error to be about.
Blamed == Head(pipeline)

(* OnWriteStreamClose after a permanent error: HandleWriteError rejects    *)
(* the front of the pipeline, whichever request the error was about, and   *)
(* does without a backoff.                                                 *)
RejectFront ==
    /\ EndNoticed
    /\ WriteError
    /\ LET rows == RemoveBatch(queue[user], Blamed.id)
       IN  /\ NotifyUser(user, Blamed.id, "error")
           /\ queue' = [queue EXCEPT ![user] = rows]
           /\ FillWritePipeline(rows, Tail(pipeline), Closed("initial"))
    /\ UNCHANGED <<user, nextId, service, author, faults>>

(* OnWriteStreamClose after any other error: the pipeline is kept.         *)
CallBroken ==
    /\ EndNoticed
    /\ ~WriteError
    /\ stream' = StartIfNeeded(Closed("error"), pipeline)
    /\ UNCHANGED <<device, pipeline, service, author, answered, faults>>

(* The idle timer stops the stream.                                        *)
IdleTimeout ==
    /\ stream.idle
    /\ stream' = Closed("initial")
    /\ UNCHANGED <<device, pipeline, service, author, answered, faults>>
----------------------------------------------------------------------------
(* The service.                                                            *)
Greet ==
    /\ stream.status = "live"
    /\ stream.hello = "asked"
    /\ stream' = [stream EXCEPT !.hello = "answered"]
    /\ UNCHANGED <<device, pipeline, service, author, answered, faults>>

Apply ==
    /\ stream.status = "live"
    /\ stream.sent # << >>
    /\ Head(stream.sent).write \notin Bad
    /\ reached' = reached \cup {Head(stream.sent).write}
    /\ stream' = [stream EXCEPT !.sent = Tail(@),
                                !.answers = Append(@, Head(stream.sent))]
    /\ UNCHANGED <<device, pipeline, late, refused, author, answered, faults>>

\* A write it will never accept ends the call.
Refuse ==
    /\ stream.status = "live"
    /\ stream.sent # << >>
    /\ Head(stream.sent).write \in Bad
    /\ refused' = refused \cup {Head(stream.sent).write}
    /\ stream' = [stream EXCEPT !.sent = Tail(@), !.status = "permanent"]
    /\ UNCHANGED <<device, pipeline, late, reached, author, answered, faults>>

\* A request of a call that the client has given up arrives after all.
ArriveLate ==
    /\ late # << >>
    /\ LET w == Head(late).write
       IN  IF w \in Bad
           THEN /\ refused' = refused \cup {w}
                /\ late' = << >>
                /\ UNCHANGED reached
           ELSE /\ reached' = reached \cup {w}
                /\ late' = Tail(late)
                /\ UNCHANGED refused
    /\ UNCHANGED <<device, pipeline, stream, author, answered, faults>>
----------------------------------------------------------------------------
(* What can go wrong.                                                      *)
Fault == faults < MaxFaults /\ faults' = faults + 1

\* The requests of the call may be lost, or still be under way (the requests
\* of one given-up call are followed at a time).
GiveUpCall ==
    late' \in {late} \cup (IF stream.status = "live" THEN {stream.sent} ELSE {})

(* The connection breaks, and the last answers are lost.                   *)
Break ==
    /\ Fault
    /\ stream.status = "live"
    /\ GiveUpCall
    /\ \E n \in 0..Len(stream.answers) :
           stream' = [stream EXCEPT !.status = "transient",
                                    !.answers = SubSeq(@, 1, n)]
    /\ UNCHANGED <<device, pipeline, reached, refused, author, answered>>

(* No token: the stream fails before it has a call.                        *)
NoToken ==
    /\ Fault
    /\ stream.state = "starting"
    /\ stream' = StartIfNeeded(Closed("error"), pipeline)
    /\ UNCHANGED <<device, pipeline, service, author, answered>>

\* Mutant: the pipeline survives.
RestartWithPipeline(q) == FillWritePipeline(q, pipeline, Closed("initial"))

\* RemoteStore::RestartNetwork, with the rows q of the user it restarts for.
RestartNetwork(q) == FillWritePipeline(q, << >>, Closed("initial"))

(* The connectivity monitor reports a network.                             *)
ConnectivityChange ==
    /\ Fault
    /\ GiveUpCall
    /\ RestartNetwork(queue[user])
    /\ UNCHANGED <<device, reached, refused, author, answered>>

(* SyncEngine::HandleCredentialChange: another user signs in.              *)
HandleCredentialChange(u) ==
    /\ Fault
    /\ u # user
    /\ GiveUpCall
    /\ user' = u
    /\ nextId' \in LoadNextBatchId(queue)
    /\ RestartNetwork(queue[u])
    /\ UNCHANGED <<queue, callbacks, reached, refused, author, answered>>

(* The process dies and is started again: only the queue is left.          *)
Relaunch ==
    /\ Fault
    /\ GiveUpCall
    /\ nextId' \in LoadNextBatchId(queue)
    /\ callbacks' = [u \in Users |-> {}]
    /\ RestartNetwork(queue[user])
    /\ UNCHANGED <<queue, user, reached, refused, author, answered>>
----------------------------------------------------------------------------
\* What the worker queue runs because a timer, a token or the call says so.
Respond ==
    \/ OpenStream
    \/ BackoffElapses
    \/ ReadHandshake
    \/ RejectFront
    \/ CallBroken

Failure ==
    \/ Break
    \/ NoToken
    \/ ConnectivityChange
    \/ \E u \in Users : HandleCredentialChange(u)
    \/ Relaunch

Next ==
    \/ WriteMutations
    \/ Respond
    \/ ReadResult
    \/ IdleTimeout
    \/ Greet
    \/ Apply
    \/ Refuse
    \/ ArriveLate
    \/ Failure

(* The worker queue runs what is enqueued: the token and the end of a      *)
(* backoff arrive, what the call brings is read.  The service takes what   *)
(* it is sent.                                                             *)
Fairness ==
    /\ WF_vars(Respond)
    /\ WF_vars(ReadResult)
    /\ WF_vars(Greet \/ Refuse)
    /\ WF_vars(Apply)

Safety == Init /\ [][Next]_vars
Spec == Safety /\ Fairness
----------------------------------------------------------------------------
Arrived == reached \cup refused
Queued(u) == {queue[u][i].write : i \in DOMAIN queue[u]}

(* A completion handler that is told of success belongs to a write the     *)
(* service has, and one that is told of an error to a write that has       *)
(* arrived: not always to the refused one, see RejectFront.                *)
AnswersAreTrue ==
    \A w \in Writes :
        /\ answered[w] = "ok" => w \in reached
        /\ answered[w] = "error" => w \in Arrived

(* A request is sent with the credentials of the user who wrote it.        *)
SentByItsAuthor ==
    \A i \in DOMAIN stream.sent : author[stream.sent[i].write] = user

(* The SDK's assertions, any of which would end the app: the idle timer    *)
(* does not stop a stream that has something to send, no answer is read    *)
(* for an empty pipeline, and the batch that is acknowledged or rejected   *)
(* is in its user's queue.                                                 *)
AssertionsHold ==
    /\ stream.idle => pipeline = << >>
    /\ stream.answers # << >> => pipeline # << >>
    /\ pipeline # << >> =>
           \E i \in DOMAIN queue[user] : queue[user][i] = Head(pipeline)

(* The whole is a durable queue: the writes of a user arrive at least once *)
(* and for the first time in the order they were issued in, whatever is    *)
(* sent again and whatever arrives late; and a write leaves the disk only  *)
(* when the service has applied or refused it.                             *)
Durable == INSTANCE DurableWrites WITH
    arrived   <- Arrived,
    forgotten <- DOMAIN author \ UNION {Queued(u) : u \in Users}

ImplementsDurableWrites == Durable!Safety

(* The writes of the user who is signed in do not stay on the device: the  *)
(* queue is empty again and again, whoever that user is by then.           *)
QueueDrains == []<>(queue[user] = << >>)
============================================================================
