------------------------------- MODULE Outbox -------------------------------
(***************************************************************************)
(* Domain events on their way out: the unit of work and the outbox of      *)
(* packages/adapters/postgres (unit-of-work.ts, outbox.ts) and the         *)
(* dispatch job of apps/worker (jobs/outbox.ts).                           *)
(*                                                                         *)
(* A command changes one aggregate and enqueues its events in the same     *)
(* transaction.  Workers claim rows under a lease, hand each envelope to   *)
(* the subscriber, record failures one by one and mark the successes       *)
(* together at the end.  Each statement outside a transaction is one       *)
(* action; the leases lapse whenever they like, which covers every pace of *)
(* the workers.                                                            *)
(*                                                                         *)
(* An event is numbered by its place in the order (occurred_at, id).       *)
(* An operator whose name ends in Bug is a mutant of the next definition.  *)
(***************************************************************************)
EXTENDS Integers, FiniteSets

CONSTANTS
    Command,       \* the use cases that run, each once
    Event,         \* the envelopes they may enqueue
    EventsOf,      \* the envelopes of each command
    Worker,        \* the worker processes
    Dead,          \* the events whose subscriber never accepts them
    Batch,         \* config.outbox.batch
    AttemptsCap,   \* bound: the attempts of a dead event are counted up to here
    MaxTransient,  \* bound: failed deliveries of an event that is not dead
    MaxEarly,      \* bound: lapses of an event's lease while a worker holds it
    MaxCrashes,    \* bound: crashes of workers
    MaxErrors      \* bound: statements of a worker that the database fails

ASSUME OutboxAssumption ==
    /\ Event \subseteq Nat /\ IsFiniteSet(Event) /\ IsFiniteSet(Worker)
    /\ EventsOf \in [Command -> SUBSET Event]
    /\ \A c, d \in Command : c # d => EventsOf[c] \cap EventsOf[d] = {}
    /\ Dead \subseteq Event /\ Worker \cap {"free", "lapsed"} = {}
    /\ Batch \in Nat \ {0} /\ AttemptsCap \in Nat
    /\ MaxTransient \in Nat /\ MaxEarly \in Nat
    /\ MaxCrashes \in Nat /\ MaxErrors \in Nat

VARIABLES
    tx,          \* how far each command's transaction is
    changed,     \* the commands whose aggregate is durably changed
    stored,      \* the rows of the outbox table
    lease,       \* claimed_at: null, lapsed, or live and then whose it is
    attempts,    \* the attempts column
    dispatched,  \* the rows with a dispatched_at
    pc,          \* where each worker's pass is
    todo,        \* the envelopes of its claim it has not tried yet
    delivered,   \* the local list `delivered`
    received,    \* how often the subscriber got each event
    lapses,      \* how often each row's lease ran out
    crashes, errors

txVars     == <<tx, changed>>
rowVars    == <<stored, lease, attempts, dispatched>>
workerVars == <<pc, todo, delivered>>
faultVars  == <<lapses, crashes, errors>>
vars == <<txVars, rowVars, workerVars, received, faultVars>>

-----------------------------------------------------------------------------
Init ==
    /\ tx = [c \in Command |-> "idle"] /\ changed = {}
    /\ stored = {} /\ dispatched = {}
    /\ lease = [e \in Event |-> "free"]
    /\ attempts = [e \in Event |-> 0]
    /\ pc = [w \in Worker |-> "idle"]
    /\ todo = [w \in Worker |-> {}]
    /\ delivered = [w \in Worker |-> {}]
    /\ received = [e \in Event |-> 0]
    /\ lapses = [e \in Event |-> 0]
    /\ crashes = 0 /\ errors = 0

(* transact(): what the work writes is seen by others when it commits. *)

Save(c) ==
    /\ tx[c] = "idle"
    /\ tx' = [tx EXCEPT ![c] = "saved"]
    /\ UNCHANGED <<changed, rowVars, workerVars, received, faultVars>>

EnqueueBug(c) ==
    /\ tx[c] = "saved"
    /\ tx' = [tx EXCEPT ![c] = "enqueued"]
    /\ stored' = stored \cup EventsOf[c]
    /\ UNCHANGED <<changed, lease, attempts, dispatched, workerVars, received,
                   faultVars>>

Enqueue(c) ==
    /\ tx[c] = "saved"
    /\ tx' = [tx EXCEPT ![c] = "enqueued"]
    /\ UNCHANGED <<changed, rowVars, workerVars, received, faultVars>>

Commit(c) ==
    /\ tx[c] = "enqueued"
    /\ tx' = [tx EXCEPT ![c] = "committed"]
    /\ changed' = changed \cup {c}
    /\ stored' = stored \cup EventsOf[c]
    /\ UNCHANGED <<lease, attempts, dispatched, workerVars, received, faultVars>>

\* The work throws, COMMIT fails or the process dies.
Rollback(c) ==
    /\ tx[c] \in {"saved", "enqueued"}
    /\ tx' = [tx EXCEPT ![c] = "rolledback"]
    /\ UNCHANGED <<changed, rowVars, workerVars, received, faultVars>>

-----------------------------------------------------------------------------
(* claim(), markDispatched() and recordFailure(): one statement each *)

Live(e) == lease[e] \in Worker

Claimable == {e \in stored \ dispatched : ~Live(e)}

\* Rows another worker's statement may hold a lock on: SKIP LOCKED walks past.
Lockable(w) ==
    {e \in Event : \E v \in Worker \ {w} :
        \/ pc[v] = "failing" /\ e \in todo[v]
        \/ pc[v] = "dispatching" /\ todo[v] = {} /\ e \in delivered[v]}

IsOldestBug(B, C) ==
    /\ Cardinality(B) < Batch
    /\ B # C => Cardinality(B) = Batch - 1
    /\ \A e \in B, f \in C \ B : e < f

\* The oldest Batch rows of C.
IsOldest(B, C) ==
    /\ Cardinality(B) <= Batch
    /\ B # C => Cardinality(B) = Batch
    /\ \A e \in B, f \in C \ B : e < f

Claim(w) ==
    /\ pc[w] = "idle"
    /\ \E skipped \in SUBSET Lockable(w), B \in SUBSET Claimable :
        /\ B # {} /\ IsOldest(B, Claimable \ skipped)
        /\ lease' = [e \in Event |-> IF e \in B THEN w ELSE lease[e]]
        /\ todo' = [todo EXCEPT ![w] = B]
    /\ pc' = [pc EXCEPT ![w] = "dispatching"]
    /\ UNCHANGED <<txVars, stored, attempts, dispatched, delivered, received, faultVars>>

\* The loop takes the batch oldest first.
IsNext(w, e) == e \in todo[w] /\ \A f \in todo[w] : e <= f

AcceptBug(w, e) ==
    /\ pc[w] = "dispatching" /\ IsNext(w, e) /\ e \notin Dead
    /\ received' = [received EXCEPT ![e] = @ + 1]
    /\ todo' = [todo EXCEPT ![w] = @ \ {e}]
    /\ delivered' = [delivered EXCEPT ![w] = @ \cup {e}]
    /\ lease' = [lease EXCEPT ![e] = "free"]
    /\ UNCHANGED <<txVars, stored, attempts, dispatched, pc, faultVars>>

\* dispatch(envelope) resolves.
Accept(w, e) ==
    /\ pc[w] = "dispatching" /\ IsNext(w, e) /\ e \notin Dead
    /\ received' = [received EXCEPT ![e] = @ + 1]
    /\ todo' = [todo EXCEPT ![w] = @ \ {e}]
    /\ delivered' = [delivered EXCEPT ![w] = @ \cup {e}]
    /\ UNCHANGED <<txVars, rowVars, pc, faultVars>>

\* dispatch(envelope) throws: the subscriber may have got it all the same.
Fail(w, e) ==
    /\ pc[w] = "dispatching" /\ IsNext(w, e)
    /\ e \in Dead \/ attempts[e] < MaxTransient
    /\ pc' = [pc EXCEPT ![w] = "failing"]
    /\ \/ e \notin Dead /\ received' = [received EXCEPT ![e] = @ + 1]
       \/ UNCHANGED received
    /\ UNCHANGED <<txVars, rowVars, todo, delivered, faultVars>>

RecordFailure(w, e) ==
    /\ pc[w] = "failing" /\ IsNext(w, e)
    /\ attempts' = [attempts EXCEPT ![e] =
                       IF e \in Dead /\ @ = AttemptsCap THEN @ ELSE @ + 1]
    /\ lease' = [lease EXCEPT ![e] = "free"]
    /\ pc' = [pc EXCEPT ![w] = "dispatching"]
    /\ todo' = [todo EXCEPT ![w] = @ \ {e}]
    /\ UNCHANGED <<txVars, stored, dispatched, delivered, received, faultVars>>

\* The end of dispatchOutbox; nothing is marked when nothing was delivered.
MarkDispatched(w) ==
    /\ pc[w] = "dispatching" /\ todo[w] = {}
    /\ dispatched' = dispatched \cup delivered[w]
    /\ pc' = [pc EXCEPT ![w] = "idle"]
    /\ delivered' = [delivered EXCEPT ![w] = {}]
    /\ UNCHANGED <<txVars, stored, lease, attempts, todo, received, faultVars>>

\* What a worker has in memory is gone: the pass threw, or the process died.
Forget(w) ==
    /\ pc' = [pc EXCEPT ![w] = "idle"]
    /\ todo' = [todo EXCEPT ![w] = {}]
    /\ delivered' = [delivered EXCEPT ![w] = {}]

\* recordFailure() or markDispatched() throws out of dispatchOutbox.
StatementFails(w) ==
    /\ pc[w] = "failing" \/ (pc[w] = "dispatching" /\ todo[w] = {} /\ delivered[w] # {})
    /\ errors < MaxErrors
    /\ errors' = errors + 1
    /\ Forget(w)
    /\ UNCHANGED <<txVars, rowVars, received, lapses, crashes>>

Crash(w) ==
    /\ pc[w] # "idle"
    /\ crashes < MaxCrashes
    /\ crashes' = crashes + 1
    /\ Forget(w)
    /\ UNCHANGED <<txVars, rowVars, received, lapses, errors>>

Holders(e) == {w \in Worker : e \in todo[w] \cup delivered[w]}

\* leaseSeconds pass after the claim of e.
Lapse(e) ==
    /\ Live(e) /\ e \notin dispatched
    /\ Holders(e) = {} \/ lapses[e] < MaxEarly
    /\ lease' = [lease EXCEPT ![e] = "lapsed"]
    /\ lapses' = [lapses EXCEPT ![e] = @ + 1]
    /\ UNCHANGED <<txVars, stored, attempts, dispatched, workerVars, received,
                   crashes, errors>>

-----------------------------------------------------------------------------
Transact(c) == Save(c) \/ Enqueue(c) \/ Commit(c) \/ Rollback(c)

Dispatch(w) ==
    \/ Claim(w) \/ MarkDispatched(w) \/ StatementFails(w)
    \/ \E e \in Event : Accept(w, e) \/ Fail(w, e) \/ RecordFailure(w, e)

\* Every command ended and nothing that can be delivered is left.
Finished ==
    /\ \A c \in Command : tx[c] \in {"committed", "rolledback"}
    /\ \A w \in Worker : pc[w] = "idle"
    /\ stored = dispatched
    /\ UNCHANGED vars

Next ==
    \/ \E c \in Command : Transact(c)
    \/ \E w \in Worker : Dispatch(w) \/ Crash(w)
    \/ \E e \in Event : Lapse(e)
    \/ Finished

Spec == Init /\ [][Next]_vars

\* The scheduler keeps running the job, and time passes.
Fairness ==
    /\ \A w \in Worker : WF_vars(Dispatch(w))
    /\ \A e \in Event : WF_vars(Lapse(e))

FairSpec == Spec /\ Fairness

-----------------------------------------------------------------------------
(* Properties *)

TypeOK ==
    /\ tx \in [Command -> {"idle", "saved", "enqueued", "committed", "rolledback"}]
    /\ changed \in SUBSET Command
    /\ stored \in SUBSET Event /\ dispatched \in SUBSET stored
    /\ lease \in [Event -> {"free", "lapsed"} \cup Worker]
    /\ attempts \in [Event -> Nat]
    /\ pc \in [Worker -> {"idle", "dispatching", "failing"}]
    /\ todo \in [Worker -> SUBSET stored] /\ delivered \in [Worker -> SUBSET stored]
    /\ received \in [Event -> Nat] /\ lapses \in [Event -> Nat]
    /\ crashes \in 0..MaxCrashes /\ errors \in 0..MaxErrors

\* "a subscriber never hears about a change that rolled back" (jobs/outbox.ts:6):
\* what a subscriber received is an event of a durable change.
HeardIsCommitted ==
    \A c \in Command : \A e \in EventsOf[c] : received[e] > 0 => c \in changed

\* No durable change without its events in the outbox, and no event without its
\* change, whatever rolls back in between (unit-of-work.ts:124).
ChangeIsAnnounced ==
    \A c \in Command :
        /\ c \in changed => EventsOf[c] \subseteq stored
        /\ c \notin changed => EventsOf[c] \cap stored = {}

\* At least once: a row is only marked when the subscriber got it, whatever
\* failed around it in the batch (jobs/outbox.ts:104).
DispatchedWasReceived == \A e \in dispatched : received[e] > 0

\* A subscriber gets an event again only because its lease ran out or because a
\* delivery of it was reported failed, never because two workers swept together
\* ("the customer gets two of every notification", outbox.ts:11).
RepeatsAreExplained ==
    \A e \in Event \ Dead : received[e] <= 1 + lapses[e] + attempts[e]

\* Every committed event whose subscriber can accept it is dispatched in the
\* end, through crashes, failed statements and lapsed leases (outbox.ts:18).
CommittedIsDispatched ==
    \A e \in Event \ Dead : e \in stored ~> e \in dispatched

=============================================================================
