# counted: verification models

TLA+ models of counted, an analytics service: SDKs buffer events in an
application, an API ingests them into Postgres, and workers run what follows from
them. The models are written from the code under `src/` and say of each part what
it must never do and what it must eventually do. TLC checks them on small
instances; TLAPS proves the central properties for every value of the constants.

Paths below are relative to `src/`. `PROJECT.json` lists the components, the runs,
the theorems, the hazards and, for every definition, the lines of code it stands for.

## Running

    tlc -workers 2 -config MCIngestServer.cfg MCIngestServer   # a run of PROJECT.json
    tlapm GroupCommitProofs.tla                                # a proof module

A run that is expected to be violated states, in one property, what a comment or a
document of the repository says and the code does not keep.

## The system

### Parts, what they keep and how they interact

| Part | Code | State | Operations | Talks to |
|---|---|---|---|---|
| SDK client | `packages/sdk-js/src` | queue in memory, the flush in flight, a pause, disabled/closed flags | track, flush, beacon on hide, shutdown, handle an answer | the ingest route, over HTTP that delays, loses and repeats |
| Ingest route | `apps/api/src/ingest/route.ts` | none | verify the key, parse, admit, submit, answer | admission (pure), the coalescer |
| Quota | `apps/api/src/ingest/quota.ts` | a cached count per workspace or unclaimed project | check, record, and the refresh inside a check | the database, the coalescer |
| Coalescer | `packages/ingestion/app/src` | one open group per project, the running commits, a counter, a draining flag | submit, tick, drain, pump, commit | quota and sink, as ports; a timer of `apps/api/src/main.ts` |
| API process | `apps/api/src/main.ts`, `listen.ts` | the coalescer's timer, the shutdown | rearm, stop | the coalescer, the HTTP server |
| Event sink | `packages/analytics/adapter-litics/src/sink.ts` | receipts and staged rows in Postgres | writeBatch: one transaction | other processes, through unique-key locks |
| Unit of work, outbox | `packages/adapters/postgres/src/unit-of-work.ts`, `outbox.ts` | the outbox table | transact, enqueue, claim, mark, record a failure | every use case that emits a domain event |
| Dispatch job | `apps/worker/src/jobs/outbox.ts` | a batch in memory | one pass | the outbox, its subscriber |
| Monitors | `packages/dashboarding`, `packages/adapters/postgres/src/monitor-repository.ts`, `apps/worker/src/jobs/monitors.ts` | the monitor row with its evaluation claim, alert rows with theirs | claim, observe, save, deliver; edit, enable, disable, delete | the query engine, a notifier, operators |
| Projects | `packages/projects/app`, `apps/api/src/router/projects.ts` | projects, API keys in another store, the workspace's register | create, provision, claim, archive, restore, edit, delete, issue, rotate, revoke, reconcile | the workspace's cap, the key store, the provisioning job |
| Billing | `apps/api/src/billing`, `packages/tenancy/app` | event receipts, subscriptions, workspaces | record an event, change plan | Stripe, which retries and reorders |
| Workspaces, members | `apps/api/src/router/workspaces.ts`, `packages/identity/adapter-better-auth`, `apps/worker/src/jobs/reconcile.ts` | organizations and members (identity), workspaces and subscriptions (domain) | create, change or remove a member, delete an account, reconcile | better-auth, billing |
| Worker process | `apps/worker/src/scheduler.ts`, `main.ts`, `jobs/retention.ts` | the runs in flight and when each job last finished; a sweep's cursor | boot, tick, invoke, stop; page, purge | every job; replicas run side by side |
| Dashboards | `packages/dashboarding` | dashboards with tiles, a default, grants | create, edit, set default, share | concurrent editors |
| Migrations | `packages/adapters/postgres/src/migrations.ts`, `schema-lock.ts` | the applied steps | migrate under an advisory lock | every process that starts |

Everything else (query planning, rendering, MCP, generated contracts, external
adapters, vendored code, the other SDKs) is listed in `PROJECT.json` with the reason
it is left out.

### What is hard here

- *Single-threaded code with awaits.* The coalescer, the SDK client and the
  scheduler run on an event loop: whatever is read before an `await` may be stale
  after it. In the models an action is what runs between two awaits.
- *Several processes on one database.* API replicas write the same keys and worker
  replicas claim the same rows; what keeps them apart are leases, unique keys, row
  locks and transactions -- and a row that is not there cannot be locked.
- *Statements on pooled repositories.* The webhook and the mirror of a workspace are
  handed repositories that commit each statement by itself, inside what reads like
  one transaction.
- *Answers that get lost.* A `COMMIT` may take effect and its answer never arrive;
  a request aborted after 15 s may still land; a delivery may reach its receiver
  and be reported as failed; Stripe repeats what it was not told of.
- *Crashes* between a claim, the work and the mark, and between two stores that no
  transaction spans.
- *Full-row writes* of a copy read earlier, without a lock or a version.
- *Limits*: buffers, batches, connections, plan caps, project caps, sweep ceilings.

### What makes each part correct

| Part | Properties |
|---|---|
| SDK client | the queue stays within its bound and in order; one row per event however often it is sent; nothing disappears without a trace; after a fatal answer silence; every event settles |
| Coalescer | an acknowledgement is only given for durable events and counts its own rows; the counter is exact and the buffer bounded |
| API process | every request that joined a group is answered; a shutdown ends, and abandons nobody it let in |
| Sink | one row per key; exact receipts; no deadlock between overlapping batches; a batch is stored as a whole or not at all |
| Outbox | an event exactly when its change is durable; marked only if received; a repeat has a cause; what can be delivered is |
| Monitors | alerts in order; late workers change nothing; a breach announced once, and again only where a stale copy was saved; a fenced evaluation undoes no edit; every alert settles |
| Projects | the cap, up to the calls in flight; what was announced and is gone was announced gone; a claim takes its key along; a revocation is for good; with the repair switched on, a project that never had any key gets one |
| Billing | an event is applied once, in spite of retries and overlaps; an orderly history ends in the provider's standing; every event is answered |
| Workspaces, members | an organization has its domain half; an owner remains; a paid plan is not taken back by a repair; an orphan is repaired |
| Worker process | a job never overlaps itself and runs again; nothing outlives the pools; a sweep skips nobody |
| Quota (not modelled beyond its verdict) | what was committed is counted; a check never admits more than one refresh's worth over the plan |
| Dashboards (not modelled) | one default; an edit does not undo another one's |
| Migrations (not modelled) | steps in order, each once, by one holder of the lock |

`PROJECT.json` lists the hazards at their lines, each with the properties that would
catch it going wrong. One has none: `apps/worker/src/jobs/retention.ts:109`, where
every sweep starts at the first project and stops after `maxProjects`, so that the
projects behind the ceiling are never purged. The code says nothing to the contrary
and does nothing about it; `SweepSkipsNobody` is about sweeps that reach the end.

## The modules

| Module | Models | Extends / instantiates |
|---|---|---|
| `GroupCommit` | the coalescer, with quota and sink as their ports allow | |
| `IngestServer` | the API process around it: timer, idle timeout, shutdown | `GroupCommit` |
| `SinkCalls` | the calls that the coalescer makes of its sink | `GroupCommit`, `EventSink` (refinement) |
| `GroupCommitProofs` | the theorems about the three | `IngestServer`, `SinkCalls` |
| `EventSink` | what the sink's port promises, abstractly | |
| `LiticsSink` | `writeBatch` as transactions in Postgres | `EventSink` (refinement) |
| `LiticsSinkProofs` | its theorems, with the refinement | `LiticsSink` |
| `Outbox` | unit of work, outbox table, dispatch passes | |
| `OutboxProofs` | its theorems | `Outbox` |
| `SdkClient` | the JavaScript client and its requests | |
| `Delivery` | the client composed with the network and the route | `SdkClient` |
| `DeliveryProofs` | its theorems | `Delivery` |
| `Monitors` | a monitor's row, its alerts, workers and operators | |
| `Projects` | the projects and keys of one workspace, and their reconciler | |
| `ProjectsProofs` | its theorems | `Projects` |
| `Billing` | the payment webhook and the plan it keeps | |
| `BillingProofs` | its theorems | `Billing` |
| `Worker` | the worker's scheduler, and the retention sweep under it | |
| `WorkerProofs` | the theorems about the worker and the monitor sweep it runs | `Worker`, `Monitors` |
| `Workspaces` | both halves of a workspace, its members and its repair | |
| `WorkspacesProofs` | its theorems | `Workspaces` |
| `MC*` | the constants' values for TLC | the module they are named for |

An operator whose name ends in `Bug` is a plausible mistake in the definition that
follows it. No specification uses it; `PROJECT.json` pairs it with the property
that tells the two apart.

How the parts are composed: `IngestServer` runs `GroupCommit`; `LiticsSink`
implements `EventSink`, and `SinkCalls` shows that it is what `GroupCommit` assumes of
the sink (`Delivery` assumes it too); `Worker` starts and ends the jobs whose insides
are `Outbox`, `Monitors`, `Projects` (the reconciler) and `Workspaces` (the
reconciler); a purchase in `Workspaces` stands for what `Billing` does.

### GroupCommit

One action per stretch of `submit`, `tick`, `drain` and `commit` between two awaits
(`packages/ingestion/app/src/group-commit.ts`); `pump()` never awaits, so it is the
operator `Pump`, part of each action that calls it. It hands over the oldest ready
groups, as many as `policy.ts` lets run; the `Map`'s insertion order is the relation
`ahead`. A request that waits for the quota is `checking`; it joins, or is refused,
by what is true *after* that await, and `draining` is not read again, as in the code.

A batch is a set of events, of which the `Keyed` ones carry a dedup key. A position
of the code's shared array is a copy `<<request, event>>`, so that who owns which
position is visible; the index arithmetic itself is abstracted away.

The sink is what its port promises: the transaction takes effect (`SinkCommits`), its
answer comes back (`RecordUsage`), is lost or does not add up (`ReceiptLost`), or an
error is answered before anything took effect (`SinkFails`). The transaction may then
still end, beside whatever was resent meanwhile, or never (`SinkCommitsLate`, of the
commits in `late`).

### IngestServer

`GroupCommit` owns no timer and no signal. `IngestServer` adds what
`apps/api/src/main.ts` puts around it: the interval that re-arms one timer (`Rearm`,
`TimerFires`), the requests that the HTTP server lets in (`Arrives`) and the shutdown.
`stop()` clears both timers, waits until no connection is open, drains, and lets the
process end (`Stop`, `ServerStopped`, `Exit`). A request that waits in a group then
waits for a timer that is gone: what ends the wait is the server's idle timeout,
which closes the connection (`IdleTimeout`), and the group is stored by the drain
that follows. That a client is closed on before its events are stored is the run
`ingest_shutdown`.

### EventSink and LiticsSink

`EventSink` is the port in four variables: a call stores its whole batch in one step
and keeps one row per key for ever; an error promises nothing.

`LiticsSink` is `packages/analytics/adapter-litics/src/sink.ts`: a connection of the
pool, one `INSERT` over the sorted keys that waits whenever another open transaction
holds the next key (Postgres, external), the rows of the keys it got, `COMMIT`. The
client side of a call and the transaction on the server end separately: the client
may give up while the `COMMIT` is on its way. The refinement maps `stored` to
`server[w] = "committed"`.

`SinkCalls` looks at the same port from its caller. `GroupCommit` has the sink inside
its own actions; two history variables note which of the calls of `writeBatch` took
effect and what each resolved with, and `SinkKeepsPromise` says that with them the
coalescer's sink is an `EventSink`: a call takes effect once and as a whole, also
after its error, and the answer the commit goes on with names what this call stored.
A call is told from the others by its waiters.

### Outbox

A command's transaction saves its aggregate, enqueues its events and commits or
rolls back (`unit-of-work.ts`). A worker's pass claims the oldest rows, hands them to
the subscriber in order, records each failure at once and marks the successes
together (`jobs/outbox.ts`); every statement is an action, between any two the worker
may crash. `SKIP LOCKED` may skip exactly the rows that another worker's statement
could be holding (`Lockable`). Leases lapse at any time while `MaxEarly` allows, and
always once nobody holds them.

Two things the code does and the model keeps: `recordFailure` clears a claim by the
row's id alone, so a worker that outlived its lease frees its successor's claim
(`attempts` then accounts for the repeat), and `claim` orders by age with a limit, so
that `Batch` rows that never succeed would keep every younger row from being tried.
`CommittedIsDispatched` therefore holds only while the rows that are never accepted
are fewer than a batch; the run has one such row in a batch of two, and the mutant of
`IsOldest`, which claims one row less, starves the other.

### SdkClient and Delivery

`SdkClient` is `packages/sdk-js/src` (`client.ts`, `queue.ts`, `transport.ts`): the
queue, the one flush in flight, `handle()` for every kind of answer, the beacon taken
when a page hides, the pause and `shutdown()`. A request that timed out stays in
`travelling` and may still land. `Delivery` adds the server: one step per answer of
`handleIngest()`, with a sink that keeps its port's promise, so a `503` may follow a
stored batch.

`NothingVanishes` and `EveryEventSettles` count what was given to `sendBeacon` as
settled, since the browser never says what became of it; they count what `trim`
dropped too, whether or not it was reported.

### Monitors

One monitor; monitors share nothing but the order of the sweep. The row is what
`monitor-repository.ts` stores: the settings, the breach state, the last attempt and
the claim. An alert is the pair of an evaluation and a recipient. A worker's sweep
claims, observes, saves with its fence and then delivers, recipient by recipient in
order, each alert under its own lease (`jobs/monitors.ts`). An operator's request
finds the row, applies a command of the aggregate and saves the whole row without a
fence.

Postgres reads a statement's snapshot before it locks the row. A save is therefore
two actions, and what it cancels or finds is its snapshot's. A claim never waits, but
another transaction may commit between its snapshot and its lock: those are
`ClaimDuringSave` and `ClaimDuringEdit`. `fresh` says of a worker's copy that it was the
row it claimed; where it is not, the fence lets the worker's save pass all the same,
because the claim it carries is the row's.

`AnnouncedOnce` is an account of two history variables: `repeats` counts what was
announced again (a breach while it was announced, a recovery or a reminder while it was
not), `staleSaves` the saves of a copy that missed what was committed, whether an
operator's or a worker's. There are never more of the first than of the second.
`EvaluationIsCurrent` is about the workers whose copy is fresh.

What the model shows of the code and no property forbids:

- two workers may announce one breach twice with no operator about: the lease of the
  first lapses while its save is on its way, the claim of the second overlaps that save,
  takes the row and reads it as it was before (`monitor-repository.ts:108`), and the
  breach looks new to it as well;
- in the same way a worker whose claim overlaps an edit's commit reads the old settings,
  announces by them and writes them back over the edit;
- a save whose snapshot still had the monitor inserts it again after a deletion;
- the alerts an edit cancels are those its snapshot shows: one that is inserted while
  the statement runs stays pending;
- workers are assumed to agree on the time, as `claimEnabled` compares their clocks.

### Projects

One workspace. The projects table and the credential store share no transaction, and
no transaction locks a project's row: `find()` is a plain `SELECT`, `save()` writes
the whole row. A call is a record of how far it is and what it has read; each of its
steps is one transaction or one call of the other store, except that a
load-decide-save transaction has two, because another may commit in between.
`ReserveSlot` is `registerProject` in its own transaction, counting a register that is
a `SELECT` over the projects table; `SaveProject` makes the row in the next; then the
key is checked, minted and, where it exceeds what its issuer may grant, revoked; a
refusal is undone (`Undo`), a crash (`Dies`) is not, and the reconciler of the worker
(`SweepFinds`, `Repair`) closes that gap. A key is an ingest key or, if it was issued by
hand, possibly a service key. A deletion and a claim go through all of a project's keys,
and so does the reconciler's cheap read; `mayRevoke` and the repair's second look count
usable ingest keys.

The reconciler writes only where `COUNTED_RECONCILE_REPAIR` is on, and it is off by
default (`apps/worker/src/config.ts:267`): then it reports what it finds
(`jobs/provisioning.ts:144`), which changes nothing that is modelled. That is the
constant `Repairs`; `KeylessIsRepaired` is stated for a worker whose switch is on. It
promises a key of either kind: until the sweep comes a member may issue one by hand, and
if that is a service key the sweep has nothing left to repair.

What the model shows of the code and no property forbids:

- an edit that overlaps a deletion, or an archive, writes back the row it read: the
  project exists again, or is active again;
- a call that issues a key overlapping a deletion leaves a live key of a project that
  is gone;
- two overlapping claims of one project both succeed: from two workspaces, each would
  be told that it is theirs;
- two revocations may together revoke the last two keys: `mayRevoke` decides on the
  list as read (`credentials.ts:271`);
- two overlapping rotations of one key extend an expiry that the first had set,
  although `credential-store.ts:451` says it never does; a rotation that read the key
  before a claim moved it mints the new key in the holding workspace;
- a claim that dies before its keys are moved is not completed by another claim,
  which is refused;
- the reconciler passes over a project that has any key, be they all dead, or a service
  key issued by hand and no ingest key at all (`jobs/provisioning.ts:140`).

The number of orphans is assumed to stay within the reconciler's batch; oldest first
with a limit would otherwise keep newer ones out (`recent-projects.ts:46`).

### Billing

`recordBillingEvent` is handed the pooled repositories, so every statement of it
commits by itself: `Claim` (the receipt), `Locate` and the read of the subscription,
`SaveSubscription`, `SaveWorkspace`, `MarkProcessed`. The provider is external: it
keeps subscriptions, emits an event for every change and delivers it as often as it
likes, several at a time, in any order, until one is answered 200. Two of the
variables are history: `dropped` (events whose own delivery died after its claim) and
`orderly` (so far one subscription and one delivery at a time, in order). The second
is the hypothesis under which the workspace must stand as the provider says.

Without it, the model shows: overlapping deliveries leave a standing that the
subscription row does not have; an event of a subscription that was replaced is
applied through the workspace its metadata names; a customer with two open checkouts
pays for two subscriptions (`change-plan.ts:16`). Also, and not in the model, the
workspace is read without a lock and saved as a whole row, so that a rename in
between is lost.

### Workspaces

A workspace is an organization with members, which identity owns, and a workspace
row with a subscription row, which the domain owns. `Creation` is identity's
transaction with the mirror that the create route hands it, whose two saves are on
the pool and durable before the organization is: a failure leaves a workspace nobody
belongs to, as `router/workspaces.ts:19` documents, possibly without its subscription
row. `changeRole` and `remove` hold the organization's row lock from their reads to
their commit; acceptance of an invitation and deletion of an account take no such
lock. `Reconciles` is the worker's job: a listing, a read outside and a read inside
the repair's transaction, the repair.

Two history variables name the exceptions of the properties. `deprived`: an owner's
account was deleted although it had become a member after `beforeDelete` looked
(`auth.ts:500`), alone or beside a removal that still counted that owner. `raced`:
two repairs found the workspace missing at one time. `FOR UPDATE` locks nothing when
there is no row, so "two workers reconciling at once cannot both decide the workspace
is missing and both create it" (`reconcile.ts:80`) is not so, and the later commit
writes a free plan over whatever has been bought since.

### Worker

`scheduler.ts` with its one timer: what is due and not in flight starts (`TickFires`),
what ends is due again an interval later (`Finished`, the `finally` of `invoke()`).
`main.ts` around it: one job before the timer starts, and a stop that clears the timer
and waits for the runs it finds. The retention job is modelled inside: pages by
primary key with a cursor taken from the raw rows, one purge per project that is due,
a ceiling per run, while projects are claimed, deleted and change their plan. What a
sweep owes (`owed`) are the projects due when it began and unchanged since. A plan
that is raised between the page and the purge still loses what its old plan allowed
to delete (`retention.ts:124`): the verdict is the page's.

## What the runs show

| Run | Instance | Shows |
|---|---|---|
| `ingest_server` | 5 requests (a resend, an empty batch, one too large, one on another project), 2 projects, 2 commits at once, a buffer of 3 | acknowledgements durable and exact, the buffer bounded, every joined request answered, the shutdown complete; 264 thousand states |
| `ingest_shutdown` | the same | violated: a shutdown stores events of a client whose connection the server closed unanswered |
| `sink` | 4 calls over 2 keys in opposite orders, one with a key twice, one empty, 2 connections | the refinement of `EventSink`; every call is answered without any timeout, hence no deadlock |
| `outbox` | 2 workers, 2 events of one command, one never accepted; one crash, one failed statement, one early lapse per row, one failed delivery | only committed changes are heard, repeats have reasons, dispatch in the end |
| `delivery` | 3 events, batches of 2, a queue of 2, 2 failures, one event that admission may reject | safety, silence after a fatal answer, every event settles |
| `monitors` | 2 workers, 1 operator, 2 questions, 1 channel, 2 evaluations, 1 fault | order, fences, no more repeated announcements than saves of stale copies (an operator's, or those of a worker whose claim overlapped a save), and every alert settles; 571 thousand states |
| `projects` | 3 ids, 2 requests at a time, 3 in all, the reconciler with its repair switched on, a cap of 1, 1 fault | how far the cap is passed, what is announced, where keys are, that revocations last, that a project that never had a key of either kind gets one; 184 thousand states |
| `projects_cap` | the same cap, two creations | violated: two creations pass the cap together |
| `billing` | 3 events, 2 subscriptions, 2 deliveries at a time, 1 death | once each, nothing claimed goes missing, the standing is the provider's, the backlog drains |
| `billing_lost` | the same | violated: a retry of an event whose first delivery died is a duplicate |
| `worker` | 2 jobs, 4 ids, pages of 2, a ceiling of 3, 2 changed rows | no overlap, no survivor, nobody skipped, every job recurs; 154 thousand states |
| `workspaces` | an organization from before in 3 shapes, one created, 2 accounts with several rows, 2 reconcilers, 2 changes, 1 fault | both halves, an owner, the plan, the repair; a million states |

`MCSinkCalls` is no run of `PROJECT.json`: what it checks, `SinkKeepsPromise`, is proved.
TLC checks it too, with 3 requests, one of them a resend and one with the same key in
the other project, and 2 commits at once (23 thousand states):

    tlc -workers 2 -config MCSinkCalls.cfg MCSinkCalls

### Bounds

The bounds are constants of the modules, named as bounds where they are declared.
They are chosen so that the case each property is about happens:

- *IngestServer.* Two projects make the order of the `Map` matter, two commits at
  once make a resend meet the write of its original. The batches of two requests, on
  different projects, each have room in a buffer of 3 when they are checked before the
  quota, and not together: the check after the quota is what keeps the bound.
  `MaxWaiters = 2` closes a group that is short of events. `MaxEvents = 3` is what lets
  the buffer fill without closing a group by its events; `MCSinkCalls`, where it is 2,
  has groups closed that way. `Linger = 1` separates a group that is due from one that
  is not.
- *LiticsSink.* Two calls with two keys in opposite orders are the least that could
  deadlock; the third makes a key wait behind a holder that fails; two connections
  make a call wait for the pool.
- *SinkCalls.* Two requests with one key are enough for a late effect beside a resend;
  the third shows that receipts are the project's.
- *Outbox.* Two workers are enough for every race over a row, one crash and one early
  lapse for a takeover. One row is never accepted, fewer than a batch; as many as a
  batch would starve the others, which the properties do not reach. Its attempts count
  up to `AttemptsCap`, after which nothing reads them.
- *Delivery.* A queue as long as a batch is full as soon as a failed batch returns
  with one more event behind it. `MaxFailures` is where the outage ends.
- *Monitors.* A breach and what follows it take two evaluations; one fault is a crash,
  an early lapse, a refused delivery or a failed statement.
- *Projects.* With a cap of one and two calls the overshoot is reached; the third call
  follows up on what the first two did to one project (claim, rotation, deletion).
- *Billing.* Two subscriptions make one replace another; three events are a checkout
  with two changes, or two checkouts; two deliveries at a time are every overlap of
  two statements.
- *Worker.* Four ids in pages of two with a ceiling of three give a full page, a page
  cut by the ceiling and a short one; two changes insert a row and delete one. The
  second job's interval is half of the first's.
- *Workspaces.* Two accounts are two owners; one of them has two rows, as better-auth
  permits. Two changes are the two removals, or an acceptance and the deletion of the
  account that accepted. Two reconcilers and one fault are a race and a lost repair.

`CHECK_DEADLOCK FALSE` is set for `Delivery`, where a client with nothing to send is
idle for ever. Elsewhere deadlock is checked: the models that end have a step for the
state in which nothing is left to do.

### Fairness

- *IngestServer.* The interval fires every 25 ms and the timer when it is due; the
  handlers, the quota and the sink's statements have deadlines of their own; the
  server resolves when no connection is open. The idle timeout is a minute, longer
  than all of them, so it strikes only requests that nothing else will move. Neither
  a request nor a signal need come.
- *LiticsSink.* The client goes on and the server ends what it can end: it notices a
  closed connection. A statement timing out is allowed and never assumed.
- *Outbox.* The scheduler runs the job again after each pass and time passes. Crashes,
  failed statements and early lapses are allowed a bounded number of times.
- *Delivery.* The interval timer runs until `shutdown()`, a pause ends, a request is
  answered or aborted after 15 s. Nothing is assumed of beacons, of late requests or
  of a client that is closed.
- *Monitors.* Each worker's sweep goes on, and leases that nobody works under lapse.
  Faults are bounded: a notifier that refuses for ever delivers nothing. Nothing is
  assumed of operators.
- *Projects.* The repair is switched on, and one that began goes on (weak fairness).
  The scheduler runs the reconciler again and again while a project is within its
  lookback, and one sweep visits every project it lists; since another repair may be in
  hand at any moment, finding a project is strongly fair. Nothing is assumed of API
  calls.
- *Billing.* A delivery is carried on (weak), and the provider repeats an event until
  it hears a 200, whatever else is in flight (strong). The customer need do nothing.
- *Worker.* The interval keeps firing, time passes, and each job ends, as every call
  that one makes has a deadline. The process need not be stopped.
- *Workspaces.* Each replica's reconciler goes on. Nothing is assumed of creations,
  of members or of accounts.

## What is proved

The theorems hold for every value of the constants that the named `ASSUME`s admit:
finite sets of projects, requests, events, calls and workers, positive limits. The
bounds that keep TLC's instances finite are constants too; the theorems hold for all
of them. Every proof is hierarchical down to Z3, Zenon or LS4; nothing is assumed
besides the constants' assumptions and the library's facts about finite sets.

### GroupCommitProofs

Of the coalescer: `TypeOK`, `AckedIsDurable`, `BufferBounded`, `InFlightBounded`,
`OneRowPerKey`, `AcceptedIsOwnRows`. Of the process: `ServerSpec => Spec`, so that all
of these hold of the server, and `ExitAbandonsNobody`. Of its calls: the refinement
`CallsSpec => SinkKeepsPromise`.

That an acknowledged request is durable is not inductive: it speaks of the store at
the end, and what makes it true happened when the request joined its group. The
invariant `Inv` follows a request's batch on its way. While it waits in a group or in
a commit being written, each of its events is carried there, as its own copy or as
another request's copy of the same keyed event (`Carried`); once the sink committed,
each is in the store (`Stored`). For this to survive a step, a waiter must be in one
place only (`Apart`), with its own project (`GroupsOK`, `CommitsOK`); `Remove` and
`Starting` then move a whole group at once. `BufferOK` equates the counter with the
events of the groups, whose cardinalities add up because different waiters own
different copies. `OneRowPerKey` needs only what one transaction may store.

That the counts are exact is a second invariant on top of it, `Owned`: of a waiter in
a group, or in a commit not yet written, no row exists; of a waiter in a written
commit, exactly those that commit wrote; and so what an acknowledgement counts is
what the store has. A transaction that ends after its failure was answered writes only
for waiters that are done and were refused (`LateWasRefused`), whom none of this
counts.

That the exit abandons nobody needs a third: a call past the quota is in some group or
some commit (`Housed`), and once the server has stopped every call it let in is past
the quota or answered (`Admitted`), because a connection is closed only on a call that
waits in a group. `drain()` resolves when there is neither a group nor a commit.

That the coalescer's sink is the port's takes a fourth, `CallsInv`. What a commit may
store is what the port lets its call store (`StoreIsPorts`), and the answer
`rows \cap Batch[w]` of the port is what the commit wrote, by `Owned`. What is left is
that no call is made twice: whoever waits in a call that started is past its group and
never joins one again, so the call of a group that is about to be handed over, which
has a waiter, has not started. A call whose error came first keeps its turn in `late`,
and takes effect at most once. With `LiticsSinkProofs` the chain is closed from the
coalescer to the transactions: what is proved of acknowledgements needs of the sink
only what the transactions implement.

### LiticsSinkProofs

`TypeOK`, `OneRowPerKey`, `AnswersAreExact`, `NoDeadlock` and the refinement
`Spec => Sink!Spec`.

A transaction chooses its rows before its `COMMIT`, the abstract call at its effect.
They agree because of `LocksOK`: open transactions share no reserved key, what a
transaction reserved has no receipt yet, and every key it passed over has one. Others
may commit in between, but never a key that is reserved. `NoDeadlock` takes, of a set
of calls that all wait, the one that waits for the greatest key: its holder has been
over that key already and, reserving in order, waits for a greater one.

### OutboxProofs

`TypeOK`, `ChangeIsAnnounced`, `HeardIsCommitted`, `DispatchedWasReceived` and
`RepeatsAreExplained`.

The last is an account. A delivery that happened, a worker that may still deliver
the row from a claim it made, and a row that is free to be claimed each use up one of
`1 + lapses + attempts` (`Counted`). A claim exchanges the free row for an open
claim, a delivery the open claim for a delivery; a lapse and a recorded failure pay
for the row they free. A worker about to record a failure has already used its claim,
which is what `Open` leaves out.

### ProjectsProofs

`TypeOK`, `OvershootBounded`, `RevokedStaysRevoked`, `DeletionIsAnnounced` and
`KeyFollowsClaim`.

The bound on the cap is not inductive, since a call makes its project active long
after it looked. `Bounded` counts the active projects together with those that some
call may still make active without looking again (`Pending`): at most one for each
request. A call that takes a slot saw fewer than `Cap` active projects, so that with
the others' pending ones there are at most `Cap + |Request| - 1`; every other step
moves a project between the two sets or out of them.

A compensation removes a project silently when it had been provisioned for nobody.
`DeletionIsAnnounced` then needs that no consumer has heard of it, and that is so
because only a claim would have told them, a claim needs the token, and the token is
handed out with the key, when the call that might compensate is over (`Account`: `Told`,
with fresh ids and one maker of each project).

`KeyFollowsClaim` is about a claim that may come at any moment between the calls that
mint, rotate and retire the project's keys. `Placed` says that every claimed row was
announced and, while nothing has failed, that a key in the holding workspace belongs to
a project whose token is out, and that the first key of an announced project is in the
workspace or its claim stands before `ReassignKeys`. It survives every step because a
key is never moved back, and one that is added to the holding workspace is either the
first of a project that nobody announced (`Mint`) or not the first at all (`RotateMints`,
which still has the key that it replaces before it).

### BillingProofs

`TypeOK`, `ClaimedIsApplied` and `StandingIsTheProviders`.

The insert of a receipt succeeds once, so that an event has at most one delivery that
works on it (`OneWorks`), and how far that one is says whether the event was applied
(`Progress`).

That the standing is the provider's needs two more. Of orderly events the last tells
what the provider says, since the only live subscription is the newest
(`ProviderOK`). They were claimed in turn, one to `k`, and only the last of them may be
in hand; then what its delivery read and wrote so far is what events `k - 1` and `k`
say (`InTurn`, `StandingOK`).

### DeliveryProofs

`TypeOK`, `OldestFirst`, `OneRowPerEvent`, `NothingVanishes` and `DisabledIsSilent`.

What the client holds is taken as one sequence, the batch in flight followed by the
queue (`Held`). A flush takes a prefix of the queue and a retry puts it back: both only
move the boundary inside `Held`. Everything else appends a new event at the end, drops
a prefix or a suffix, or settles the batch in front. So `Held` stays ordered by
`track()`, and each event that leaves it does so in a step that accounts for it. What a
reply says of a batch in flight must still be so when the client handles it
(`AnswerOK`), and an entry carries the key it was minted with wherever it is, in the
queue, on the network or in a row (`MintedOK`).

### WorkerProofs

Of `Worker`: `TypeOK`, `OneCopyRuns`, `PoolsOutliveJobs` and `SweepSkipsNobody`.
Of `Monitors`: `MonitorTypeOK`, `HeardInOrder`, `AnnouncedOnce` and
`EvaluationIsCurrent`.

What `stop()` awaits is a snapshot of the map. It is all there is because the timer was
cleared before, and only the boot's job ran before the timer (`SnapshotIsAll`). For the
sweep, what it owes is due still, and is in the page in hand or beyond the cursor while
there is more to read (`Owed`). A page is the beginning, in the order of the ids, of
what is ahead; a short one is all of it; and a full one ends at its greatest id, which
becomes the cursor. Counting a page by ranks needs that a finite set of numbers has a
greatest member (`HasGreatest`).

The monitor's invariant, `MonitorInv`, has two halves. `EvaluationInv` is about the
fence. A claim that is not free is of the latest evaluation (`ClaimIsLatest`), so a
worker that passes the fence holds the latest claim; and if its copy was fresh, the
row still says what the copy says (`EvaluationOK`), because every save that changes
the row frees the claim and every later claim takes a new number. From it no worker
with a fresh copy undoes an edit. The account of `AnnouncedOnce` is not inductive: a
stale save may cost its repeat later. `HistoryOK` adds what is owed: while the row
forgets what was announced, one stale save has not yet cost its repeat. A fresh copy's
repeat pays that debt, since the row says afterwards what was announced; a stale save
pays for the debt it may make; and an edit whose copy is current resets both or neither
(`EditsOK`). `AlertInv` is about order. An alert that is on its way or was heard has no
earlier pending alert of its recipient, unless its monitor is deleted (`SentOK`): a
claim picks none that has one, and a new alert is of the latest evaluation, which no
alert that exists is later than. So an alert that is heard late was canceled or
deleted in flight (`AlertsOK` has what was delivered among what was heard).

### WorkspacesProofs

`TypeOK`, `OrganizationIsWhole`, `OwnerRemains` and `PaidIsKept`.

`Halves` says of each workspace how far its creation is and which rows there are.
`Snapshots` says that what a membership call read under the row lock is still so when
it writes, except for rows that went with their account: rows may have come, by an
acceptance, but only for accounts that had none. From it, a call that counted two
owners leaves one, unless that one's account was deleted. `Races` says that a repair in
its transaction either still finds the workspace missing or overlapped another.

### What is only model-checked

- All liveness under fairness, and what depends on `ENABLED`: `JoinedIsAnswered`,
  `ShutdownCompletes`, `CallsAreAnswered`, `CommittedIsDispatched`, `EveryEventSettles`,
  `AlertsSettle`, `KeylessIsRepaired`, `EventsAreAnswered`, `JobsRecur`,
  `OrphansAreRepaired`.

The provers cannot do induction over data, so that what a recursive definition
computes stays with TLC as well. No module with a theorem declares a `RECURSIVE`
operator.

## Where documents and code disagree

Three have a run that gives the execution; `PROJECT.json` quotes them as findings.

- `apps/api/src/router/projects.ts:107`: reserving first "makes the cap true rather
  than advisory", the second creation "counts the first". The reservation writes
  nothing that the second could count (`projects_cap`).
- `apps/api/src/billing/webhook.ts:63`: "500 so Stripe retries". The retry of an event
  whose first delivery died after its claim is answered as a duplicate (`billing_lost`).
- `apps/api/src/main.ts:517`: a process that stops with waiters outstanding "has accepted
  events and answered nobody", which draining first avoids. It comes after
  waiting for those very requests, whose connections the idle timeout closes
  (`ingest_shutdown`).

The others were met while modelling and have no run of their own:

- `packages/ingestion/app/src/group-commit.ts:404`: the waiters of a failed commit are
  told "nothing was written". The answer of a `COMMIT` may be lost (`ReceiptLost`) or
  come before its effect (`SinkCommitsLate`).
- `group-commit.ts:161` bounds the memory by `maxBuffered + maxInFlight * maxEvents`; a
  batch that overshoots, or a group that is blocked, exceeds `maxEvents`.
- `apps/worker/src/jobs/outbox.ts:47`: after `maxAttempts` an envelope "stops being
  retried". Nothing stops it.
- `contract/sdk-behaviour.md:104`: "Shutdown flushes what is queued." It sends one
  batch, or waits for the one in flight.
- `contract/sdk-behaviour.md:29`: overflow is "reported to the caller". What a failed
  batch displaces is not.
- `packages/dashboarding/domain/src/monitor.ts:336`: an edit should not make a monitor
  announce a breach again. It does if it overlaps a sweep.
- `apps/worker/src/jobs/reconcile.ts:80`: the race of two repairs, above.
- `packages/projects/app/src/lifecycle.ts:102`: that the same claim run again moves keys
  that were left; it is refused, as the project is claimed by then.
- `apps/worker/src/jobs/provisioning.ts:77`: the report counts "projects found with no
  usable ingest key". It counts those that never had a key of any kind; one whose ingest
  keys are dead, or with a service key alone, is not found, although
  `repairProjectCredential` would repair it.
- `credential-store.ts:451`: that a rotation never extends a key's life; two that
  overlap do.

## What is left

Not every part with state is modelled. In the order in which they would be worth it:

1. *Quota*: the cache, its refresh and the race of `check` with `record`
   (`quota.ts:89`: a refresh that began before a commit overwrites what it recorded;
   the window of `credential-store.ts`'s meter is reset unguarded).
2. *Dashboards*: concurrent editors of the tiles and of the default, which `findDefault`
   and two saves set without a row lock.
3. *Migrations*: the ledger read again under the advisory lock.
4. *Pure algorithms*: admission and the offsets of a shared batch, the authorization
   decision, the quota's bands, the analytics windows.

## What is not modelled, and why

Most of the repository keeps no state of its own: it renders, translates or generates.
What the models cover are the parts whose steps interleave.

- *Query planning, SQL generation, reading* (`packages/analytics`, `apps/api/src/analysis`):
  stateless; what they return is any value where a model needs one.
- *The compactor and the segment codec*: vendored code and a binding to it.
- *External adapters* (mail, webhooks, Stripe's client, geo lookup): what they promise
  is part of the models that use them.
- *Sessions, sign-in and OAuth*: better-auth's.
- *The other SDKs*: they implement the same contract with threads and a mutex.
- *Console, documentation, MCP, generated contracts, agent hooks, scripts*: no protocol
  of their own.
