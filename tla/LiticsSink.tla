----------------------------- MODULE LiticsSink -----------------------------
(***************************************************************************)
(* LiticsEventSink.writeBatch (packages/analytics/adapter-litics, sink.ts):*)
(* the transaction that reserves a receipt per key, writes the rows of the *)
(* keys it got and commits both.                                           *)
(*                                                                         *)
(* A call has a client side, the promise writeBatch returned, and a server *)
(* side, the transaction in Postgres: the client may give up while the     *)
(* server still commits, and a key reserved by an open transaction makes   *)
(* every other reservation of it wait (external: INSERT .. ON CONFLICT DO  *)
(* NOTHING on a unique key).  A resend is another call with the same keys. *)
(*                                                                         *)
(* Items and keys are numbered: items by position, keys by their digest.   *)
(* An operator whose name ends in Bug is a mutant of the next definition.  *)
(***************************************************************************)
EXTENDS Integers, FiniteSets

CONSTANTS
    Writer, Item, Keyed, KeyOf, Batch,   \* as in EventSink
    PoolSize                             \* the connections of the pool

ASSUME SinkAssumption ==
    /\ IsFiniteSet(Writer) /\ IsFiniteSet(Item)
    /\ Item \subseteq Nat /\ Keyed \subseteq Item
    /\ KeyOf \in [Keyed -> Nat]
    /\ Batch \in [Writer -> SUBSET Item]
    /\ \A v, w \in Writer : v # w => Batch[v] \cap Batch[w] = {}
    /\ PoolSize \in Nat \ {0}

VARIABLES
    client,    \* where the call is
    server,    \* where its transaction is
    seen,      \* the keys its INSERT has been over
    reserved,  \* those it inserted a receipt for
    pending,   \* the rows it wrote
    receipts,  \* committed receipts
    rows,      \* committed analytics rows
    answer     \* what the call resolved with

txVars == <<server, seen, reserved, pending>>
vars == <<client, txVars, receipts, rows, answer>>

Sink == INSTANCE EventSink
    WITH stored <- [w \in Writer |-> server[w] = "committed"]

Key == {KeyOf[i] : i \in Keyed}

Holds(w, k) == server[w] \in {"open", "committing"} /\ k \in reserved[w]

ConnectionsBug == {w \in Writer : server[w] # "none"}

Connections == {w \in Writer : client[w] \in {"reserving", "committing"}}

-----------------------------------------------------------------------------
Init ==
    /\ client = [w \in Writer |-> "idle"]
    /\ server = [w \in Writer |-> "none"]
    /\ seen = [w \in Writer |-> {}]
    /\ reserved = [w \in Writer |-> {}]
    /\ pending = [w \in Writer |-> {}]
    /\ receipts = {} /\ rows = {}
    /\ answer = [w \in Writer |-> Sink!Pending]

CallEmpty(w) ==
    /\ client[w] = "idle" /\ Batch[w] = {}
    /\ client' = [client EXCEPT ![w] = "done"]
    /\ answer' = [answer EXCEPT ![w] = Sink!Written({})]
    /\ UNCHANGED <<txVars, receipts, rows>>

Call(w) ==
    /\ client[w] = "idle" /\ Batch[w] # {}
    /\ client' = [client EXCEPT ![w] = "connecting"]
    /\ UNCHANGED <<txVars, receipts, rows, answer>>

\* pool.connect(), BEGIN and SET LOCAL statement_timeout.
Connect(w) ==
    /\ client[w] = "connecting"
    /\ Cardinality(Connections) < PoolSize
    /\ client' = [client EXCEPT ![w] = "reserving"]
    /\ server' = [server EXCEPT ![w] = "open"]
    /\ UNCHANGED <<seen, reserved, pending, receipts, rows, answer>>

\* The INSERT goes over the distinct keys in their order.
IsNextKey(w, k) ==
    /\ k \in Sink!KeysOf(Batch[w]) \ seen[w]
    /\ \A l \in Sink!KeysOf(Batch[w]) \ seen[w] : k <= l

\* Another open transaction holds the key: the INSERT waits for its outcome.
Blocked(w, k) == \E v \in Writer \ {w} : Holds(v, k)

ReserveBug(w) ==
    /\ client[w] = "reserving" /\ server[w] = "open"
    /\ \E k \in Key :
        /\ IsNextKey(w, k) /\ ~Blocked(w, k)
        /\ seen' = [seen EXCEPT ![w] = @ \cup {k}]
        /\ reserved' = [reserved EXCEPT ![w] = @ \cup {k}]
    /\ UNCHANGED <<client, server, pending, receipts, rows, answer>>

Reserve(w) ==
    /\ client[w] = "reserving" /\ server[w] = "open"
    /\ \E k \in Key :
        /\ IsNextKey(w, k) /\ ~Blocked(w, k)
        /\ seen' = [seen EXCEPT ![w] = @ \cup {k}]
        /\ reserved' = IF k \in receipts THEN reserved
                       ELSE [reserved EXCEPT ![w] = @ \cup {k}]
    /\ UNCHANGED <<client, server, pending, receipts, rows, answer>>

\* Unkeyed items, and the first item of each key the call reserved.
Kept(w) ==
    {i \in Batch[w] : i \in Keyed =>
        /\ KeyOf[i] \in reserved[w]
        /\ \A j \in Batch[w] \cap Keyed : KeyOf[j] = KeyOf[i] => i <= j}

\* The rows are written, their count agrees, pg_notify and COMMIT are sent.
Write(w) ==
    /\ client[w] = "reserving" /\ server[w] = "open"
    /\ Sink!KeysOf(Batch[w]) \subseteq seen[w]
    /\ pending' = [pending EXCEPT ![w] = Kept(w)]
    /\ client' = [client EXCEPT ![w] = "committing"]
    /\ server' = [server EXCEPT ![w] = "committing"]
    /\ UNCHANGED <<seen, reserved, receipts, rows, answer>>

\* COMMIT takes effect; the client may have given up on it meanwhile.
ServerCommits(w) ==
    /\ server[w] = "committing"
    /\ server' = [server EXCEPT ![w] = "committed"]
    /\ receipts' = receipts \cup reserved[w]
    /\ rows' = rows \cup pending[w]
    /\ UNCHANGED <<client, seen, reserved, pending, answer>>

AnswerOk(w) ==
    /\ client[w] = "committing" /\ server[w] = "committed"
    /\ client' = [client EXCEPT ![w] = "done"]
    /\ answer' = [answer EXCEPT ![w] = Sink!Written(pending[w])]
    /\ UNCHANGED <<txVars, receipts, rows>>

\* connect() fails, a statement times out or fails, the row count disagrees, or
\* the connection breaks: the error is answered and the connection destroyed.
Throws(w) ==
    /\ client[w] \in {"connecting", "reserving", "committing"}
    /\ client' = [client EXCEPT ![w] = "done"]
    /\ answer' = [answer EXCEPT ![w] = Sink!Failed]
    /\ UNCHANGED <<txVars, receipts, rows>>

\* The server notices that the connection is gone, or refuses the COMMIT.
Rollback(w) ==
    /\ answer[w].kind = "err" /\ server[w] \in {"open", "committing"}
    /\ server' = [server EXCEPT ![w] = "aborted"]
    /\ UNCHANGED <<client, seen, reserved, pending, receipts, rows, answer>>

-----------------------------------------------------------------------------
Ends(w) == ServerCommits(w) \/ Rollback(w)

Progress(w) ==
    CallEmpty(w) \/ Call(w) \/ Connect(w) \/ Reserve(w) \/ Write(w) \/ AnswerOk(w)

Finished ==
    /\ \A w \in Writer : client[w] = "done"
    /\ \A w \in Writer : server[w] \notin {"open", "committing"}
    /\ UNCHANGED vars

Next ==
    \/ \E w \in Writer : Progress(w) \/ Throws(w) \/ Ends(w)
    \/ Finished

Spec == Init /\ [][Next]_vars

\* The client goes on, and the server ends every transaction it can.
Fairness == \A w \in Writer : WF_vars(Progress(w)) /\ WF_vars(Ends(w))

FairSpec == Spec /\ Fairness

-----------------------------------------------------------------------------
(* Properties *)

TypeOK ==
    /\ client \in [Writer -> {"idle", "connecting", "reserving", "committing", "done"}]
    /\ server \in [Writer -> {"none", "open", "committing", "committed", "aborted"}]
    /\ seen \in [Writer -> SUBSET Key] /\ reserved \in [Writer -> SUBSET Key]
    /\ pending \in [Writer -> SUBSET Item]
    /\ receipts \in SUBSET Key /\ rows \in SUBSET Item
    /\ answer \in [Writer -> [kind : {"pending", "ok", "err"}, written : SUBSET Item]]

\* The transactions implement the port: each call's batch takes effect as a
\* whole at its COMMIT, also when the answer to it was an error (sink.ts:2).
Refines == Sink!Spec

\* Through overlapping batches, lost answers and resends, a key is stored once
\* exactly when it has a receipt (sink.ts:162).
OneRowPerKey == Sink!OneRowPerKey

\* writtenIndices names the rows this call added and no others, and leaves out
\* only events that are durable already (sink.ts:186).
AnswersAreExact == Sink!AnswersAreExact

\* "Ordered unique-key reservation avoids deadlocks for overlapping batches"
\* (sink.ts:161): no set of calls waits on itself.
NoDeadlock ==
    \A S \in (SUBSET Writer) \ {{}} :
        \E w \in S : ~\E k \in Key, v \in S \ {w} :
            client[w] = "reserving" /\ IsNextKey(w, k) /\ Holds(v, k)

\* A call that was made is answered without any statement timing out: what one
\* call holds, another gets, also when the holder failed (sink.ts:187-191).
CallsAreAnswered ==
    \A w \in Writer : client[w] = "connecting" ~> client[w] = "done"
=============================================================================
