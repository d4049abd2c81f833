------------------------------ MODULE SdkClient ------------------------------
(***************************************************************************)
(* The client of packages/sdk-js (client.ts, queue.ts) and the requests it *)
(* makes (transport.ts).  The process is single threaded: an action is     *)
(* what runs between two awaits.                                           *)
(*                                                                         *)
(* Events are numbered in the order of track().  An entry is an event with *)
(* the idempotency key minted for it: mintKey never repeats itself, so the *)
(* event's own number stands for its key.  Requests are numbered in the    *)
(* order they are sent; the client waits for at most one of them, and the  *)
(* others are beacons, or were given up on after 15 s and may still land.  *)
(***************************************************************************)
EXTENDS Integers, Sequences

CONSTANTS
    MaxTracked,   \* bound: the number of events tracked
    MaxFailures,  \* bound: the retryable answers, lost ones included
    Rejectable,   \* bound: the events that admission may reject
    MaxBatch,     \* options.maxBatchSize
    Capacity      \* options.maxQueueSize

ASSUME SdkAssumption ==
    /\ MaxTracked \in Nat /\ MaxFailures \in Nat
    /\ MaxBatch \in Nat \ {0} /\ Capacity \in Nat \ {0}

VARIABLES
    queue,       \* EventQueue.events
    tracked,     \* how many events track() took
    waiting,     \* the number of the request flush() awaits, 0 if none
    paused,      \* now() < pausedUntil
    failures,    \* the retryable answers so far
    closed,      \* shutdown() was called
    disabled,    \* a fatal status was heard
    requests,    \* the batches of all requests, in the order they were sent
    travelling,  \* the requests that may still reach the server
    reply,       \* what comes back on the connection of `waiting`
    dropped,     \* the events dropped because the queue was full
    told,        \* the events given up on with any other diagnostic
    beaconed     \* the events handed to sendBeacon

clientVars == <<queue, tracked, waiting, paused, failures, closed, disabled,
                dropped, told, beaconed>>
wireVars == <<requests, travelling, reply>>
sdkVars == <<clientVars, wireVars>>

-----------------------------------------------------------------------------
Entry == [event : Nat, key : Nat]

Replies == [kind : {"none", "accepted", "retry", "refused", "fatal"},
            rejected : SUBSET Nat]

NoReply == [kind |-> "none", rejected |-> {}]

EventsOf(q) == {q[i].event : i \in DOMAIN q}

TheSmaller(m, n) == IF m < n THEN m ELSE n

(* queue.ts *)

Excess(q) == IF Len(q) > Capacity THEN Len(q) - Capacity ELSE 0

\* trim(): the oldest go first.
Trim(q) == SubSeq(q, Excess(q) + 1, Len(q))

Trimmed(q) == EventsOf(SubSeq(q, 1, Excess(q)))

Batch(q) == SubSeq(q, 1, TheSmaller(MaxBatch, Len(q)))

Rest(q) == SubSeq(q, TheSmaller(MaxBatch, Len(q)) + 1, Len(q))

RequeueTailBug(batch) == queue \o batch

RequeueNewKeysBug(batch) ==
    [i \in DOMAIN batch |-> [batch[i] EXCEPT !.key = @ + MaxTracked]] \o queue

\* requeue(): back at the head, as it was.
Requeued(batch) == batch \o queue

-----------------------------------------------------------------------------
SdkInit ==
    /\ queue = <<>> /\ tracked = 0 /\ waiting = 0 /\ failures = 0
    /\ paused = FALSE /\ closed = FALSE /\ disabled = FALSE
    /\ requests = <<>> /\ travelling = {} /\ reply = NoReply
    /\ dropped = {} /\ told = {} /\ beaconed = {}

\* One more request is on its way with the head of q.
Sends(q) ==
    /\ requests' = Append(requests, Batch(q))
    /\ travelling' = travelling \cup {Len(requests) + 1}
    /\ queue' = Rest(q)

\* flush() and drain() up to `await sendBatch`, when they send something.
MaySend(q) == waiting = 0 /\ ~disabled /\ q # <<>> /\ ~paused

FlushOf(q) ==
    \/ /\ MaySend(q)
       /\ Sends(q) /\ waiting' = Len(requests) + 1
    \/ /\ ~MaySend(q)
       /\ queue' = q /\ UNCHANGED <<waiting, requests, travelling>>

Track ==
    LET mine   == [event |-> tracked + 1, key |-> tracked + 1]
        pushed == Append(queue, mine)
    IN  /\ ~closed /\ ~disabled /\ tracked < MaxTracked
        /\ tracked' = tracked + 1
        /\ dropped' = dropped \cup Trimmed(pushed)
        /\ IF Len(Trim(pushed)) >= MaxBatch THEN FlushOf(Trim(pushed))
           ELSE queue' = Trim(pushed) /\ UNCHANGED <<waiting, requests,
                                                     travelling>>
        /\ UNCHANGED <<paused, failures, closed, disabled, reply, told, beaconed>>

\* The timer, beforeExit and the host's own calls of flush().
Flush ==
    /\ MaySend(queue)
    /\ FlushOf(queue)
    /\ UNCHANGED <<tracked, paused, failures, closed, disabled, reply, dropped,
                   told, beaconed>>

\* onHidden, in a browser that took the beacon; otherwise nothing changes.
Hidden ==
    /\ ~closed /\ queue # <<>>
    /\ Sends(queue)
    /\ beaconed' = beaconed \cup EventsOf(Batch(queue))
    /\ UNCHANGED <<tracked, waiting, paused, failures, closed, disabled, reply,
                   dropped, told>>

\* shutdown(): its flush may join the one in flight.
Shutdown ==
    /\ ~closed
    /\ closed' = TRUE
    /\ FlushOf(queue)
    /\ UNCHANGED <<tracked, paused, failures, disabled, reply, dropped,
                   told, beaconed>>

\* now() reaches pausedUntil.
PauseEnds ==
    /\ paused /\ paused' = FALSE
    /\ UNCHANGED <<queue, tracked, waiting, failures, closed, disabled, dropped,
                   told, beaconed, wireVars>>

-----------------------------------------------------------------------------
(* handle(): what the flush in flight resolved with. *)

\* The flush settles; `finally` clears inFlight.
Settles == reply' = NoReply /\ waiting' = 0

HearAcceptedBug ==
    /\ reply.kind = "accepted" /\ reply' = NoReply
    /\ told' = told \cup reply.rejected
    /\ UNCHANGED <<queue, tracked, waiting, paused, failures, closed, disabled,
                   dropped, beaconed, requests, travelling>>

HearAccepted ==
    /\ reply.kind = "accepted"
    /\ Settles
    /\ told' = told \cup reply.rejected
    /\ UNCHANGED <<queue, tracked, paused, failures, closed, disabled, dropped,
                   beaconed, requests, travelling>>

HearRefused ==
    /\ reply.kind = "refused"
    /\ Settles
    /\ told' = told \cup EventsOf(requests[waiting])
    /\ UNCHANGED <<queue, tracked, paused, failures, closed, disabled, dropped,
                   beaconed, requests, travelling>>

HearFatalBug ==
    /\ reply.kind = "fatal"
    /\ Settles
    /\ disabled' = TRUE
    /\ told' = told \cup EventsOf(requests[waiting])
    /\ UNCHANGED <<queue, tracked, paused, failures, closed, dropped,
                   beaconed, requests, travelling>>

HearFatal ==
    /\ reply.kind = "fatal"
    /\ Settles
    /\ disabled' = TRUE /\ queue' = <<>>
    /\ told' = told \cup EventsOf(requests[waiting]) \cup EventsOf(queue)
    /\ UNCHANGED <<tracked, paused, failures, closed, dropped, beaconed,
                   requests, travelling>>

\* A retryable answer, or the answer is lost or not there in time.  What
\* requeue() trims is counted in droppedCount and no diagnostic is raised.
Retry ==
    LET back == Requeued(requests[waiting])
    IN  /\ waiting # 0 /\ failures < MaxFailures
        /\ Settles
        /\ failures' = failures + 1 /\ paused' = TRUE
        /\ queue' = Trim(back)
        /\ dropped' = dropped \cup Trimmed(back)
        /\ UNCHANGED <<tracked, closed, disabled, told, beaconed,
                       requests, travelling>>

Hear == HearAccepted \/ HearRefused \/ HearFatal \/ Retry

SdkNext == Track \/ Flush \/ Hidden \/ Shutdown \/ PauseEnds \/ Hear
=============================================================================
