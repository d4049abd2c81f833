------------------------------ MODULE Delivery ------------------------------
(***************************************************************************)
(* From track() to a stored row: one SDK client, the network, and the      *)
(* ingest route of apps/api over a sink that keeps its port's promise.     *)
(*                                                                         *)
(* Between the two a request may be delayed past the client's timeout, be  *)
(* lost, or be answered into a connection nobody listens to any more.  The *)
(* server's part is the answer of handleIngest(): what GroupCommit and     *)
(* LiticsSink do inside it is one step here.                               *)
(***************************************************************************)
EXTENDS SdkClient

VARIABLE rows   \* the entries stored

vars == <<sdkVars, rows>>

Recorded == {x.key : x \in rows}

AnswersAnyBug(n, answer) == reply' = IF waiting # 0 THEN answer ELSE reply

AnswersNobodyBug(n, answer) == reply' = answer

\* The response to request n; only the awaited one has a listener.
Answers(n, answer) == reply' = IF n = waiting THEN answer ELSE reply

Received(n) ==
    /\ n \in travelling
    /\ travelling' = travelling \ {n}
    /\ UNCHANGED <<clientVars, requests>>

EntriesOf(n, rejected) ==
    {x \in {requests[n][i] : i \in DOMAIN requests[n]} : x.event \notin rejected}

\* What the batch adds: an entry whose key is recorded is a duplicate.
Stored(n, rejected) == {x \in EntriesOf(n, rejected) : x.key \notin Recorded}

\* 202: what admission did not reject is durable.
ServerAccepts(n) ==
    /\ Received(n)
    /\ \E rejected \in SUBSET (EventsOf(requests[n]) \cap Rejectable) :
        /\ rows' = rows \cup Stored(n, rejected)
        /\ Answers(n, [kind |-> "accepted", rejected |-> rejected])

\* 429 or 503.  A SinkUnavailable answer may follow a commit that took effect.
ServerSaysRetry(n) ==
    /\ Received(n) /\ failures < MaxFailures
    /\ Answers(n, [kind |-> "retry", rejected |-> {}])
    /\ rows' \in {rows, rows \cup Stored(n, {})}

\* 400, 402, 404, 413 or 422: nothing of the batch is written.
ServerRefuses(n) ==
    /\ Received(n)
    /\ Answers(n, [kind |-> "refused", rejected |-> {}])
    /\ UNCHANGED rows

\* 401 or 403: the credential is not usable.
ServerForbids(n) ==
    /\ Received(n)
    /\ Answers(n, [kind |-> "fatal", rejected |-> {}])
    /\ UNCHANGED rows

ServerHandles(n) ==
    ServerAccepts(n) \/ ServerSaysRetry(n) \/ ServerRefuses(n) \/ ServerForbids(n)

-----------------------------------------------------------------------------
Init == SdkInit /\ rows = {}

Next ==
    \/ SdkNext /\ UNCHANGED rows
    \/ \E n \in travelling : ServerHandles(n)

Spec == Init /\ [][Next]_vars

\* The interval timer runs until shutdown(), time passes, and a request is
\* answered or aborted.  MaxFailures is where the outage ends.
Fairness ==
    /\ WF_vars(~closed /\ Flush /\ UNCHANGED rows)
    /\ WF_vars(PauseEnds /\ UNCHANGED rows)
    /\ WF_vars(Hear /\ UNCHANGED rows)
    /\ WF_vars(\E n \in travelling : n = waiting /\ ServerHandles(n))

FairSpec == Spec /\ Fairness

-----------------------------------------------------------------------------
(* Properties *)

InFlight == IF waiting = 0 THEN {} ELSE EventsOf(requests[waiting])

Durable == {x.event : x \in rows}

TypeOK ==
    /\ queue \in Seq(Entry) /\ Len(queue) <= Capacity
    /\ tracked \in 0..MaxTracked
    /\ requests \in Seq(Seq(Entry)) /\ waiting \in 0..Len(requests)
    /\ travelling \subseteq 1..Len(requests)
    /\ reply \in Replies /\ (reply # NoReply => waiting # 0)
    /\ failures \in 0..MaxFailures /\ paused \in BOOLEAN
    /\ closed \in BOOLEAN /\ disabled \in BOOLEAN
    /\ dropped \subseteq 1..tracked
    /\ told \subseteq 1..tracked /\ beaconed \subseteq 1..tracked
    /\ rows \subseteq Entry

\* SDK-020 and SDK-021: the buffer is FIFO, and a failed batch comes back in
\* front of everything tracked or beaconed while it was in flight.
OldestFirst ==
    /\ \A i, j \in 1..Len(queue) : i < j => queue[i].event < queue[j].event
    /\ \A e \in InFlight, f \in EventsOf(queue) : e < f

\* SDK-010 and SDK-031 with sink.ts: retries, late requests and beacons never
\* make two rows of one event.
OneRowPerEvent ==
    \A x, y \in rows : x.event = y.event => x = y

\* No event leaves the client's memory unless it is durable, was given to the
\* browser as a beacon, was dropped for capacity, or the developer was told.
NothingVanishes ==
    1..tracked = EventsOf(queue) \cup InFlight \cup Durable \cup told
                     \cup dropped \cup beaconed

\* SDK-043: after a fatal status nothing further is sent or queued, by any of
\* the paths that send.
DisabledIsSilent == [][disabled => requests' = requests /\ queue' = <<>>]_vars

\* A client that is not shut down gets rid of every event it took, once the
\* server stops failing.
EveryEventSettles ==
    \A e \in 1..MaxTracked :
        e <= tracked ~> closed \/ e \in Durable \cup told \cup dropped \cup beaconed

=============================================================================
