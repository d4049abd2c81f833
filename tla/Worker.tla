------------------------------- MODULE Worker -------------------------------
(***************************************************************************)
(* The worker process: the scheduler that runs the jobs (scheduler.ts,     *)
(* worker.ts), its boot and shutdown (main.ts), and one job step by step,  *)
(* the retention sweep (jobs/retention.ts) over the projects that the API  *)
(* creates, changes and deletes meanwhile.  The other jobs only start and  *)
(* end here: Outbox, Monitors, Workspaces and Projects are their insides.  *)
(*                                                                         *)
(* A job's age is the time since it last finished, up to its interval.     *)
(* What retention a plan or a project grants is abstracted to the verdict  *)
(* of purgeFor(): due (which events of it are old enough, the statement    *)
(* decides), or kept (null).                                               *)
(*                                                                         *)
(* Left out: the reports, the compactor beside the scheduler, a signal     *)
(* before the handlers are set, and runNow's wait for a running copy: the  *)
(* boot calls it before anything runs.                                     *)
(***************************************************************************)
EXTENDS Integers, FiniteSets, FiniteSetsExt

CONSTANTS
    Job,         \* the names of the jobs
    Retention,   \* the job that is the retention sweep
    BootJob,     \* the job that runs once before the scheduler starts
    Every,       \* the interval of each job
    LastId,      \* bound: the project ids, in the order of the primary key
    PageSize, MaxProjects,  \* config.retention
    MaxChanges   \* bound: the rows changed during one sweep

ASSUME WorkerAssumption ==
    /\ Retention \in Job /\ BootJob \in Job \ {Retention}
    /\ Every \in [Job -> Nat \ {0}]
    /\ LastId \in Nat /\ MaxChanges \in Nat
    /\ PageSize \in Nat \ {0} /\ MaxProjects \in Nat \ {0}

VARIABLES
    phase,     \* main(): booting, running, stopping, and stopped: the pools end
    age,       \* time since each job finished, up to its interval
    inFlight,  \* the keys of the scheduler's map
    copies,    \* how many runs of each job have begun and not ended
    awaited,   \* the runs that stop() found in flight, and waits for
    projects,  \* the claimed projects' rows, joined with their plans
    sweep      \* the locals of enforceRetention

schedulerVars == <<phase, age, inFlight, copies, awaited>>
vars == <<schedulerVars, projects, sweep>>

-----------------------------------------------------------------------------
Id == 1..LastId

\* A row the page may return, by what purgeFor makes of it; "absent": none.
Verdict == {"absent", "due", "kept", "unreadable"}

NoSweep == [on |-> FALSE, after |-> 0, more |-> FALSE, todo |-> {},
            count |-> 0, owed |-> {}, touched |-> {}]

\* The last two fields are history: what the sweep owes, as of its start, and
\* the rows that have changed since.
NewSweep ==
    [NoSweep EXCEPT !.on = TRUE, !.more = TRUE,
                    !.owed = {i \in Id : projects[i] = "due"}]

Init ==
    /\ phase = "booting" /\ age = Every
    /\ inFlight = {BootJob}
    /\ copies = [j \in Job |-> IF j = BootJob THEN 1 ELSE 0]
    /\ awaited = {}
    /\ projects \in [Id -> Verdict]
    /\ sweep = NoSweep

-----------------------------------------------------------------------------
(* scheduler.ts *)

Due(j) == age[j] = Every[j]

StartsBug == {j \in Job : Due(j)}

\* tick(): what is due and not in flight; the rest is skipped.
Starts == {j \in Job : Due(j)} \ inFlight

TickFiresBug ==
    /\ phase \in {"running", "stopping"} /\ Starts # {}
    /\ inFlight' = inFlight \cup Starts
    /\ copies' = [j \in Job |-> IF j \in Starts THEN copies[j] + 1 ELSE copies[j]]
    /\ sweep' = IF Retention \in Starts THEN NewSweep ELSE sweep
    /\ UNCHANGED <<phase, age, awaited, projects>>

TickFires ==
    /\ phase = "running" /\ Starts # {}
    /\ inFlight' = inFlight \cup Starts
    /\ copies' = [j \in Job |-> IF j \in Starts THEN copies[j] + 1 ELSE copies[j]]
    /\ sweep' = IF Retention \in Starts THEN NewSweep ELSE sweep
    /\ UNCHANGED <<phase, age, awaited, projects>>

FinishedBug(j) ==
    /\ copies' = [copies EXCEPT ![j] = @ - 1]
    /\ age' = [i \in Job |-> 0]
    /\ inFlight' = inFlight \ {j} /\ awaited' = awaited \ {j}

\* The `finally` of invoke(), whether the job returned or threw.
Finished(j) ==
    /\ copies' = [copies EXCEPT ![j] = @ - 1]
    /\ age' = [age EXCEPT ![j] = 0]
    /\ inFlight' = inFlight \ {j} /\ awaited' = awaited \ {j}

JobEnds(j) ==
    /\ copies[j] > 0 /\ j # Retention
    /\ Finished(j)
    /\ UNCHANGED <<phase, projects, sweep>>

TimePasses ==
    /\ phase = "running" /\ \E j \in Job : ~Due(j)
    /\ age' = [j \in Job |-> IF Due(j) THEN age[j] ELSE age[j] + 1]
    /\ UNCHANGED <<phase, inFlight, copies, awaited, projects, sweep>>

-----------------------------------------------------------------------------
(* main.ts *)

\* `await worker.runNow(MAINTENANCE_CHECK)` is over and start() sets the timer.
BootEnds ==
    /\ phase = "booting" /\ BootJob \notin inFlight
    /\ phase' = "running"
    /\ UNCHANGED <<age, inFlight, copies, awaited, projects, sweep>>

\* stop() clears the timer and waits for the jobs it finds in flight.
Stop ==
    /\ phase = "running"
    /\ phase' = "stopping" /\ awaited' = inFlight
    /\ UNCHANGED <<age, inFlight, copies, projects, sweep>>

StopResolves ==
    /\ phase = "stopping" /\ awaited = {}
    /\ phase' = "stopped"
    /\ UNCHANGED <<age, inFlight, copies, awaited, projects, sweep>>

-----------------------------------------------------------------------------
(* jobs/retention.ts and adapters/retention-targets.ts *)

RowsBug(limit) ==
    {i \in {h \in Id : projects[h] # "absent"} :
        Cardinality({h \in Id : h < i /\ projects[h] # "absent"})
            \in sweep.count..(sweep.count + limit - 1)}

\* SELECT ... WHERE p.id > after ORDER BY p.id LIMIT limit
Rows(limit) ==
    LET behind == {i \in Id : i > sweep.after /\ projects[i] # "absent"}
    IN  {i \in behind : Cardinality({h \in behind : h < i}) < limit}

\* toTarget: a row this version cannot read is skipped, never defaulted.
Targets(rows) == {i \in rows : projects[i] # "unreadable"}

\* purgeFor: `null` means keep.
DueAmong(targets) == {i \in targets : projects[i] # "kept"}

\* The cursor comes off the raw rows.
NextAfter(rows) == Max(rows)

Limit == Min({PageSize, MaxProjects - sweep.count})

ReadPage ==
    /\ sweep.on /\ sweep.todo = {} /\ sweep.more /\ sweep.count < MaxProjects
    /\ LET rows == Rows(Limit)
           full == Cardinality(rows) = Limit
       IN  sweep' = [sweep EXCEPT
                       !.todo = DueAmong(Targets(rows)), !.more = full,
                       !.after = IF full THEN NextAfter(rows) ELSE @,
                       !.count = @ + Cardinality(rows)]
    /\ UNCHANGED <<schedulerVars, projects>>

\* purge(): one transaction per project; refused or thrown, it is counted and
\* the sweep goes on.
Purge ==
    /\ sweep.on /\ sweep.todo # {}
    /\ LET i == Min(sweep.todo)
       IN  sweep' = [sweep EXCEPT !.todo = @ \ {i}, !.owed = @ \ {i}]
    /\ UNCHANGED <<schedulerVars, projects>>

SweepEnds ==
    /\ sweep.on /\ sweep.todo = {} /\ (~sweep.more \/ sweep.count >= MaxProjects)
    /\ Finished(Retention)
    /\ sweep' = NoSweep
    /\ UNCHANGED <<phase, projects>>

\* A page that cannot be read ends the run with an error.
SweepThrows ==
    /\ sweep.on /\ sweep.todo = {}
    /\ Finished(Retention)
    /\ sweep' = NoSweep
    /\ UNCHANGED <<phase, projects>>

-----------------------------------------------------------------------------
\* The API meanwhile: a project is claimed or deleted, or its plan changes.
ProjectChanges(i) ==
    /\ sweep.on /\ (i \in sweep.touched \/ Cardinality(sweep.touched) < MaxChanges)
    /\ \E now \in Verdict \ {projects[i]} : projects' = [projects EXCEPT ![i] = now]
    /\ sweep' = [sweep EXCEPT !.touched = @ \cup {i}, !.owed = @ \ {i}]
    /\ UNCHANGED schedulerVars

Stopped == phase = "stopped" /\ UNCHANGED vars

SweepStep == ReadPage \/ Purge \/ SweepEnds

Next ==
    \/ BootEnds \/ TickFires \/ TimePasses \/ Stop \/ StopResolves \/ Stopped
    \/ \E j \in Job : JobEnds(j)
    \/ SweepStep \/ SweepThrows
    \/ \E i \in Id : ProjectChanges(i)

\* The interval keeps firing, time passes, and every job ends: each call one
\* makes has a deadline of its own.
Fairness ==
    /\ WF_vars(BootEnds) /\ WF_vars(TickFires) /\ WF_vars(TimePasses)
    /\ WF_vars(SweepStep) /\ \A j \in Job : WF_vars(JobEnds(j))
    /\ WF_vars(StopResolves)

Spec == Init /\ [][Next]_vars /\ Fairness

-----------------------------------------------------------------------------
Sweep == [on : BOOLEAN, after : 0..LastId, more : BOOLEAN, todo : SUBSET Id,
          count : 0..MaxProjects, owed : SUBSET Id, touched : SUBSET Id]

\* Every variable holds what its local, map or column may hold, and no sweep
\* looks at more rows than its ceiling.
TypeOK ==
    /\ phase \in {"booting", "running", "stopping", "stopped"}
    /\ age \in [Job -> Nat] /\ \A j \in Job : age[j] <= Every[j]
    /\ inFlight \subseteq Job /\ copies \in [Job -> Nat] /\ awaited \subseteq Job
    /\ projects \in [Id -> Verdict]
    /\ sweep \in Sweep

(***************************************************************************)
(* scheduler.ts:9: a job that is still running is not started again, and   *)
(* the map knows of every run: none is started by the boot's runNow and by *)
(* the timer at once, however late it is.                                  *)
(***************************************************************************)
OneCopyRuns ==
    \A j \in Job : copies[j] = IF j \in inFlight THEN 1 ELSE 0

(***************************************************************************)
(* main.ts:306: the pools end when stop() has resolved, and then nothing   *)
(* runs that would still query them; stop() waits for those in flight when *)
(* it was called, which are all only because the timer is cleared first.   *)
(***************************************************************************)
PoolsOutliveJobs ==
    phase = "stopped" => inFlight = {} /\ ~sweep.on /\ \A j \in Job : copies[j] = 0

(***************************************************************************)
(* retention-targets.ts:18: the walk by primary key skips nobody: whatever *)
(* is inserted, deleted or unreadable meanwhile, a sweep that is not cut   *)
(* short by its ceiling ends with every project tried that was due, and    *)
(* stayed so, since it began.                                              *)
(***************************************************************************)
SweepSkipsNobody ==
    sweep.on /\ ~sweep.more /\ sweep.todo = {} => sweep.owed = {}

(***************************************************************************)
(* scheduler.ts:18: a job that throws does not stop the schedule: until    *)
(* the process stops, every job runs again and again.                      *)
(***************************************************************************)
JobsRecur ==
    \A j \in Job : phase = "running" ~> (copies[j] > 0 \/ phase # "running")
=============================================================================
