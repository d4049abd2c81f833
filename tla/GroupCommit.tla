---------------------------- MODULE GroupCommit ----------------------------
(***************************************************************************)
(* The ingest coalescer of packages/ingestion/app (group-commit.ts and     *)
(* policy.ts), with the event sink and the quota it is given as ports.     *)
(*                                                                         *)
(* A request is one call of submit().  Its batch is what admission let     *)
(* through: a set of events, of which the Keyed ones carry a dedup key     *)
(* (two copies of a keyed event are the same event) and the others never   *)
(* equal anything.  A copy <<r, e>> is event e as request r sent it: it    *)
(* stands for one position of a group, and the copies <<r, _>> for the     *)
(* positions [offset, offset + contributed) that waiter r owns.            *)
(*                                                                         *)
(* The process is single threaded: an action is what runs between two      *)
(* awaits, so the whole pump() loop is part of the action that calls it.   *)
(*                                                                         *)
(* An operator whose name ends in Bug is a plausible mistake in the        *)
(* definition that follows it.  No specification uses it: PROJECT.json     *)
(* pairs it with the property that tells the two apart.                    *)
(***************************************************************************)
EXTENDS Integers, FiniteSets

CONSTANTS
    Project,      \* the projects events are written for
    Request,      \* the calls of submit()
    Event,        \* the events that batches carry
    Keyed,        \* the events that carry an idempotency key
    ProjectOf,    \* the project each request's credential names
    BatchOf,      \* the events of each request that admission let through
    TooLarge,     \* the requests whose batch admission refuses as a whole
    MaxEvents,    \* policy.maxEvents
    MaxWaiters,   \* policy.maxWaiters
    MaxBuffered,  \* policy.maxBuffered
    MaxInFlight,  \* policy.maxInFlight
    Linger        \* policy.linger, in units of Advance

ASSUME RequestsAssumption ==
    /\ IsFiniteSet(Project) /\ IsFiniteSet(Request) /\ IsFiniteSet(Event)
    /\ Keyed \subseteq Event /\ TooLarge \subseteq Request
    /\ ProjectOf \in [Request -> Project]
    /\ BatchOf \in [Request -> SUBSET Event]

ASSUME PolicyAssumption ==
    /\ MaxEvents \in Nat \ {0} /\ MaxWaiters \in Nat \ {0}
    /\ MaxBuffered \in Nat /\ MaxInFlight \in Nat \ {0} /\ Linger \in Nat

VARIABLES
    pc,         \* where each submit() call is
    ack,        \* what it resolved with
    groups,     \* the open group of each project
    ahead,      \* <<p, q>>: p's group is before q's in the Map's insertion order
    commits,    \* the group commits in flight
    buffered,   \* the counter #buffered
    draining,   \* the flag #draining
    drained,    \* drain() has resolved
    receipts,   \* the keyed events the sink has ever recorded, per project
    rows,       \* the copies stored as analytics rows, per project
    late,       \* the commits whose failure was answered before their
                \* transaction ended
    usage       \* the events reported to quota.record, per project

vars == <<pc, ack, groups, ahead, commits, buffered, draining, drained,
          receipts, rows, late, usage>>
requestVars == <<pc, ack>>
groupVars   == <<groups, ahead, commits, buffered>>
drainVars   == <<draining, drained>>
durableVars == <<receipts, rows, late>>

-----------------------------------------------------------------------------
Copy == Request \X Event
Errors == {"None", "TooLarge", "PlanExceeded", "RateLimited", "SinkUnavailable"}

Ack == [kind : {"Pending", "Committed", "Refused", "Threw"},
        accepted : Nat, deduplicated : Nat, error : Errors]

Pending == [kind |-> "Pending", accepted |-> 0, deduplicated |-> 0, error |-> "None"]
Threw   == [Pending EXCEPT !.kind = "Threw"]
Refused(why) == [Pending EXCEPT !.kind = "Refused", !.error = why]
Committed(new, repeats) ==
    [Pending EXCEPT !.kind = "Committed", !.accepted = new, !.deduplicated = repeats]

Group == [events : SUBSET Copy, waiters : SUBSET Request, age : 0..Linger]

\* No entry in #groups: a group that exists always has a waiter.
NoGroup == [events |-> {}, waiters |-> {}, age |-> 0]

Commit == [project : Project, events : SUBSET Copy, waiters : SUBSET Request,
           phase : {"writing", "written", "recorded", "settled"},
           written : SUBSET Copy]

CopiesOf(r, es) == {c \in es : c[1] = r}
EventsIn(es) == {c[2] : c \in es}
AllEvents(gs, P) == UNION {gs[p].events : p \in P}

Waiting == UNION {groups[p].waiters : p \in Project}
InCommit == UNION {c.waiters : c \in commits}

-----------------------------------------------------------------------------
(* policy.ts *)

\* receive(): what is buffered and what arrives fit together.
HasRoom(r) == buffered + Cardinality(BatchOf[r]) <= MaxBuffered

FlushReasonLingerBug(g, dr) ==
    dr \/ Cardinality(g.events) >= MaxEvents
       \/ Cardinality(g.waiters) >= MaxWaiters \/ g.age > Linger

FlushReason(g, dr) ==
    \/ dr
    \/ Cardinality(g.events) >= MaxEvents
    \/ Cardinality(g.waiters) >= MaxWaiters
    \/ g.age >= Linger

\* decide(): the commits that may still start; at 0 a ready group is Blocked.
FreeSlots(cs) == MaxInFlight - Cardinality(cs)

Ready(gs, dr) == {p \in Project : gs[p].waiters # {} /\ FlushReason(gs[p], dr)}

-----------------------------------------------------------------------------
(* pump(): with the groups gs in the insertion order ord and the commits   *)
(* cs running, hand the oldest ready groups to the sink while the ceiling  *)
(* on concurrent commits allows.                                           *)

Remove(gs, F) == [p \in Project |-> IF p \in F THEN NoGroup ELSE gs[p]]

Starting(gs, F) ==
    {[project |-> p, events |-> gs[p].events, waiters |-> gs[p].waiters,
      phase |-> "writing", written |-> {}] : p \in F}

Pump(gs, ord, cs, buf, dr) ==
    \E F \in SUBSET Ready(gs, dr) :
        /\ Cardinality(F) <= FreeSlots(cs)
        /\ F # Ready(gs, dr) => Cardinality(F) = FreeSlots(cs)
        /\ \A p \in F, q \in Ready(gs, dr) \ F : <<p, q>> \in ord
        /\ groups' = Remove(gs, F)
        /\ ahead' = {pq \in ord : pq[1] \notin F /\ pq[2] \notin F}
        /\ commits' = cs \cup Starting(gs, F)
        /\ buffered' = buf - Cardinality(AllEvents(gs, F))

-----------------------------------------------------------------------------
Init ==
    /\ pc = [r \in Request |-> "new"]
    /\ ack = [r \in Request |-> Pending]
    /\ groups = [p \in Project |-> NoGroup]
    /\ ahead = {} /\ commits = {} /\ buffered = 0
    /\ draining = FALSE /\ drained = FALSE
    /\ receipts = [p \in Project |-> {}]
    /\ rows = [p \in Project |-> {}]
    /\ late = {}
    /\ usage = [p \in Project |-> 0]

Resolve(r, answer) ==
    /\ pc' = [pc EXCEPT ![r] = "done"]
    /\ ack' = [ack EXCEPT ![r] = answer]

\* submit(), up to `await this.#quota.check`.
SubmitRefused(r, why) ==
    /\ pc[r] = "new"
    /\ \/ r \in TooLarge /\ why = "TooLarge"
       \/ /\ r \notin TooLarge /\ BatchOf[r] # {} /\ draining
          /\ why = "SinkUnavailable"
       \/ /\ r \notin TooLarge /\ BatchOf[r] # {} /\ ~draining /\ ~HasRoom(r)
          /\ why = "RateLimited"
    /\ Resolve(r, Refused(why))
    /\ UNCHANGED <<groupVars, drainVars, durableVars, usage>>

SubmitEmpty(r) ==
    /\ pc[r] = "new" /\ r \notin TooLarge /\ BatchOf[r] = {}
    /\ Resolve(r, Committed(0, 0))
    /\ UNCHANGED <<groupVars, drainVars, durableVars, usage>>

SubmitChecks(r) ==
    /\ pc[r] = "new" /\ r \notin TooLarge /\ BatchOf[r] # {}
    /\ ~draining /\ HasRoom(r)
    /\ pc' = [pc EXCEPT ![r] = "checking"]
    /\ UNCHANGED <<ack, groupVars, drainVars, durableVars, usage>>

\* submit(), after the quota's verdict.  #draining is not read again.
QuotaRefuses(r) ==
    /\ pc[r] = "checking"
    /\ \E answer \in {Refused("PlanExceeded"), Refused("RateLimited"), Threw} :
           Resolve(r, answer)
    /\ UNCHANGED <<groupVars, drainVars, durableVars, usage>>

QuotaAllowsNoRoom(r) ==
    /\ pc[r] = "checking" /\ ~HasRoom(r)
    /\ Resolve(r, Refused("RateLimited"))
    /\ UNCHANGED <<groupVars, drainVars, durableVars, usage>>

UniqueBug(r, g) ==
    {e \in BatchOf[r] : e \in Keyed => e \notin EventsIn(AllEvents(groups, Project))}

\* collapseDuplicates against the keys of the group r joins.
Unique(r, g) == {e \in BatchOf[r] : e \in Keyed => e \notin EventsIn(g.events)}

Contribution(r, g) == {r} \X Unique(r, g)

Joined(r, g) ==
    [events |-> g.events \cup Contribution(r, g), waiters |-> g.waiters \cup {r},
     age |-> g.age]

\* #groupFor inserts a new group behind the ones already in the Map.
OrderAfterJoin(p) ==
    IF groups[p].waiters # {} THEN ahead
    ELSE ahead \cup {<<q, p>> : q \in {q \in Project : groups[q].waiters # {}}}

QuotaAllowsJoinBug(r) ==
    LET p == ProjectOf[r]
    IN  /\ pc[r] = "checking"
        /\ pc' = [pc EXCEPT ![r] = "joined"]
        /\ Pump([groups EXCEPT ![p] = Joined(r, @)], OrderAfterJoin(p), commits,
                buffered + Cardinality(Contribution(r, groups[p])), draining)
        /\ UNCHANGED <<ack, drainVars, durableVars, usage>>

QuotaAllowsJoin(r) ==
    LET p == ProjectOf[r]
    IN  /\ pc[r] = "checking" /\ HasRoom(r)
        /\ pc' = [pc EXCEPT ![r] = "joined"]
        /\ Pump([groups EXCEPT ![p] = Joined(r, @)], OrderAfterJoin(p), commits,
                buffered + Cardinality(Contribution(r, groups[p])), draining)
        /\ UNCHANGED <<ack, drainVars, durableVars, usage>>

-----------------------------------------------------------------------------
\* Time passes: every open group is one unit older, up to its deadline.
Advance ==
    /\ \E p \in Project : groups[p].waiters # {} /\ groups[p].age < Linger
    /\ groups' = [p \in Project |->
                    IF groups[p].waiters # {} /\ groups[p].age < Linger
                    THEN [groups[p] EXCEPT !.age = @ + 1] ELSE groups[p]]
    /\ UNCHANGED <<requestVars, ahead, commits, buffered, drainVars, durableVars, usage>>

\* tick(), from the timer armed for nextDeadlineAt().  A call that finds
\* nothing to flush changes nothing.
Tick ==
    /\ Ready(groups, draining) # {}
    /\ FreeSlots(commits) > 0
    /\ Pump(groups, ahead, commits, buffered, draining)
    /\ UNCHANGED <<requestVars, drainVars, durableVars, usage>>

\* drain(), up to its first await.
Drain ==
    /\ ~draining
    /\ draining' = TRUE
    /\ Pump(groups, ahead, commits, buffered, TRUE)
    /\ UNCHANGED <<requestVars, drained, durableVars, usage>>

DrainResolves ==
    /\ draining /\ ~drained
    /\ commits = {} /\ \A p \in Project : groups[p].waiters = {}
    /\ drained' = TRUE
    /\ UNCHANGED <<requestVars, groupVars, draining, durableVars, usage>>

-----------------------------------------------------------------------------
(* commit(): the sink's transaction, its answer, and the acks. *)

MoveTo(c, phase, written) ==
    commits' = (commits \ {c}) \cup {[c EXCEPT !.phase = phase, !.written = written]}

SettleAll(c, answers) ==
    /\ pc' = [r \in Request |-> IF r \in c.waiters THEN "done" ELSE pc[r]]
    /\ ack' = [r \in Request |-> IF r \in c.waiters THEN answers[r] ELSE ack[r]]

\* What one transaction stores: every unkeyed copy, and one copy of each keyed
\* event it could reserve a receipt for.
Stores(c, W) ==
    /\ W \subseteq c.events
    /\ \A x \in c.events : x[2] \notin Keyed => x \in W
    /\ \A e \in EventsIn(c.events) \cap Keyed :
           \/ e \in receipts[c.project] /\ e \notin EventsIn(W)
           \/ /\ e \notin receipts[c.project]
              /\ \E x \in c.events : x[2] = e /\ {y \in W : y[2] = e} = {x}

Store(c, W) ==
    /\ Stores(c, W)
    /\ receipts' = [receipts EXCEPT ![c.project] = @ \cup (EventsIn(W) \cap Keyed)]
    /\ rows' = [rows EXCEPT ![c.project] = @ \cup W]

\* The sink's COMMIT takes effect; its answer is on the way.
SinkCommits(c) ==
    /\ c.phase = "writing"
    /\ \E W \in SUBSET c.events : Store(c, W) /\ MoveTo(c, "written", W)
    /\ UNCHANGED <<requestVars, groups, ahead, buffered, drainVars, late, usage>>

\* writeBatch answers an error, or throws.  The database may not know yet: the
\* transaction may still take effect, or never.
SinkFails(c) ==
    /\ c.phase = "writing"
    /\ SettleAll(c, [r \in c.waiters |-> Refused("SinkUnavailable")])
    /\ MoveTo(c, "settled", {})
    /\ late' = late \cup {c}
    /\ UNCHANGED <<groups, ahead, buffered, drainVars, receipts, rows, usage>>

SinkCommitsLate(c) ==
    /\ \E W \in SUBSET c.events : Store(c, W)
    /\ late' = late \ {c}
    /\ UNCHANGED <<requestVars, groupVars, drainVars, usage>>

\* The transaction committed and the answer was lost, or the receipt did not
\* add up and commit() threw.
ReceiptLost(c) ==
    /\ c.phase = "written"
    /\ SettleAll(c, [r \in c.waiters |-> Refused("SinkUnavailable")])
    /\ MoveTo(c, "settled", c.written)
    /\ UNCHANGED <<groups, ahead, buffered, drainVars, durableVars, usage>>

\* The receipt arrives and quota.record is called, which may throw.
RecordUsage(c) ==
    /\ c.phase = "written"
    /\ MoveTo(c, "recorded", c.written)
    /\ \E counted \in {0, Cardinality(c.written)} :
           usage' = [usage EXCEPT ![c.project] = @ + counted]
    /\ UNCHANGED <<requestVars, groups, ahead, buffered, drainVars, durableVars>>

AcceptedOfAnyoneBug(c, r) == Cardinality(BatchOf[r] \cap EventsIn(c.written))

Accepted(c, r) == Cardinality(CopiesOf(r, c.written))

SettleCommitted(c) ==
    /\ c.phase = "recorded"
    /\ SettleAll(c, [r \in c.waiters |->
           Committed(Accepted(c, r), Cardinality(BatchOf[r]) - Accepted(c, r))])
    /\ MoveTo(c, "settled", c.written)
    /\ UNCHANGED <<groups, ahead, buffered, drainVars, durableVars, usage>>

\* The `finally` of the commit: it leaves #commits and a Blocked group may go.
CommitEnds(c) ==
    /\ c.phase = "settled"
    /\ Pump(groups, ahead, commits \ {c}, buffered, draining)
    /\ UNCHANGED <<requestVars, drainVars, durableVars, usage>>

-----------------------------------------------------------------------------
Submit(r) ==
    \/ \E why \in Errors : SubmitRefused(r, why)
    \/ SubmitEmpty(r) \/ SubmitChecks(r)

QuotaAnswers(r) == QuotaRefuses(r) \/ QuotaAllowsNoRoom(r) \/ QuotaAllowsJoin(r)

SinkAnswers(c) ==
    SinkCommits(c) \/ SinkFails(c) \/ ReceiptLost(c) \/ RecordUsage(c)

CommitStep(c) == SinkAnswers(c) \/ SettleCommitted(c) \/ CommitEnds(c)

\* Nothing is left to do: every call resolved and nothing is in memory.
Finished ==
    /\ \A r \in Request : pc[r] = "done"
    /\ commits = {} /\ drained
    /\ UNCHANGED vars

Next ==
    \/ \E r \in Request : Submit(r) \/ QuotaAnswers(r)
    \/ \E c \in commits : CommitStep(c)
    \/ \E c \in late : SinkCommitsLate(c)
    \/ Advance \/ Tick \/ Drain \/ DrainResolves
    \/ Finished

Spec == Init /\ [][Next]_vars

-----------------------------------------------------------------------------
(* Properties *)

TypeOK ==
    /\ pc \in [Request -> {"new", "checking", "joined", "done"}]
    /\ ack \in [Request -> Ack]
    /\ groups \in [Project -> Group]
    /\ ahead \in SUBSET (Project \X Project)
    /\ commits \in SUBSET Commit
    /\ buffered \in Int
    /\ draining \in BOOLEAN /\ drained \in BOOLEAN
    /\ receipts \in [Project -> SUBSET Keyed]
    /\ rows \in [Project -> SUBSET Copy]
    /\ late \in SUBSET Commit
    /\ usage \in [Project -> Nat]

\* The counter #buffered, adjusted in submit() and in pump(), is the number of
\* events in the open groups, and the second check of the ceiling (after the
\* quota's await) keeps it under maxBuffered however many calls were waiting.
BufferBounded ==
    /\ buffered = Cardinality(AllEvents(groups, Project))
    /\ buffered <= MaxBuffered

\* policy.ts decide(): no interleaving of arrivals, ticks and endings runs more
\* than maxInFlight commits, those settled but not yet removed included.
InFlightBounded == Cardinality(commits) <= MaxInFlight

\* "submit resolves when the events are durable" (group-commit.ts:12): every
\* keyed event of an acknowledged request has a receipt, also the ones that were
\* duplicates of another request's, and every other one has its own row.
AckedIsDurable ==
    \A r \in Request : ack[r].kind = "Committed" =>
        \A e \in BatchOf[r] :
            IF e \in Keyed THEN e \in receipts[ProjectOf[r]]
            ELSE <<r, e>> \in rows[ProjectOf[r]]

\* The `accepted` of an acknowledgement counts the rows this request brought,
\* and no other: one row is never reported to two clients (group-commit.ts:388).
AcceptedIsOwnRows ==
    \A r \in Request : ack[r].kind = "Committed" =>
        /\ ack[r].accepted = Cardinality(CopiesOf(r, rows[ProjectOf[r]]))
        /\ ack[r].accepted + ack[r].deduplicated = Cardinality(BatchOf[r])

\* Across resends, overlapping batches, concurrent commits and lost answers, a
\* keyed event has one row exactly when it has a receipt (sink.ts:2).
OneRowPerKey ==
    \A p \in Project, e \in Keyed :
        Cardinality({x \in rows[p] : x[2] = e}) = IF e \in receipts[p] THEN 1 ELSE 0

=============================================================================
