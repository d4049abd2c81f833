---------------------------- MODULE WorkerProofs ----------------------------
(***************************************************************************)
(* Proofs about the worker process: its scheduler with the retention sweep *)
(* (Worker) and the monitor sweep it runs (Monitors), for every value of   *)
(* their constants.                                                        *)
(*                                                                         *)
(* Worker.  The scheduler's map knows exactly the runs there are, none is  *)
(* left when the pools end, and a sweep skips nobody.  Inv adds to         *)
(* OneCopyRuns what links the scheduler to its surroundings: the sweep is  *)
(* on exactly while the retention job is in flight, only the boot's own    *)
(* job runs before the timer starts, and from stop() on what is awaited is *)
(* what is in flight, because the timer was cleared before the snapshot    *)
(* was taken.  Ahead is what a sweep may still read; Owed says that what   *)
(* it owes lies ahead or in the page in hand.                              *)
(*                                                                         *)
(* Monitors.  Recipients hear of alerts in order, a breach is announced    *)
(* once, and an evaluation that outlived an edit changes nothing.          *)
(* MonitorInv is the invariant behind all three.  Its half about           *)
(* evaluations (EvaluationInv) says that the row's claim is the latest     *)
(* one, and that whoever holds it reads what the row still says; its half  *)
(* about alerts (AlertInv) says that no alert is on its way, or was heard, *)
(* while an earlier one of its recipient waits.                            *)
(***************************************************************************)
EXTENDS Worker, Monitors, FiniteSetTheorems, TLAPS

SweepIsItsJob == sweep.on <=> Retention \in inFlight

SnapshotIsAll == phase \in {"stopping", "stopped"} => inFlight \subseteq awaited

StoppedIsQuiet == phase = "stopped" => awaited = {}

Inv == TypeOK /\ OneCopyRuns /\ SweepIsItsJob /\ SnapshotIsAll /\ StoppedIsQuiet

-----------------------------------------------------------------------------
(* Finite sets of numbers *)

\* Ordering a finite set of numbers by how much of it lies on one side of each
\* member, given as below, finds a member with nothing on that side.
LEMMA HasExtreme ==
    ASSUME NEW T, IsFiniteSet(T), T # {}, NEW below \in [T -> SUBSET T],
           \A x \in T : x \notin below[x],
           \A x, y \in T : y \in below[x] => below[y] \subseteq below[x]
    PROVE  \E x \in T : below[x] = {}
<1> DEFINE F == {below[x] : x \in T}
           R == StrictSubsetOrdering(T)
<1>1. F \subseteq FiniteSubsetsOf(T) /\ F # {}
  BY FS_FiniteSubsetsOfFinite
<1>2. IsWellFoundedOn(R, FiniteSubsetsOf(T))
  BY FS_StrictSubsetOrderingWellFounded
<1>3. \E B \in F : \A C \in F : ~(<<C, B>> \in R)
  <2> HIDE DEF F, R
  <2> QED BY <1>1, <1>2, WFMin
<1>4. PICK x \in T : \A C \in F : ~(<<C, below[x]>> \in R)
  BY <1>3
<1>5. SUFFICES ASSUME NEW y \in below[x] PROVE FALSE
  OBVIOUS
<1>6. y \in T /\ below[y] \subseteq below[x] /\ below[y] # below[x]
  OBVIOUS
<1>7. <<below[y], below[x]>> \in R
  BY <1>6 DEF StrictSubsetOrdering
<1> QED BY <1>4, <1>6, <1>7

LEMMA HasLeast ==
    ASSUME NEW T \in SUBSET Nat, IsFiniteSet(T), T # {}
    PROVE  \E x \in T : \A y \in T : x <= y
<1> DEFINE below == [x \in T |-> {y \in T : y < x}]
<1>1. \E x \in T : below[x] = {}
  <2>1. below \in [T -> SUBSET T] /\ \A x \in T : x \notin below[x]
    OBVIOUS
  <2>2. \A x, y \in T : y \in below[x] => below[y] \subseteq below[x]
    <3> SUFFICES ASSUME NEW x \in T, NEW y \in below[x], NEW z \in below[y]
                 PROVE  z \in below[x]
      OBVIOUS
    <3>1. x \in Nat /\ y \in Nat /\ z \in Nat /\ z \in T
      OBVIOUS
    <3> QED BY <3>1
  <2> HIDE DEF below
  <2> QED BY <2>1, <2>2, HasExtreme
<1> QED BY <1>1

LEMMA HasGreatest ==
    ASSUME NEW T \in SUBSET Nat, IsFiniteSet(T), T # {}
    PROVE  \E x \in T : \A y \in T : y <= x
<1> DEFINE above == [x \in T |-> {y \in T : y > x}]
<1>1. \E x \in T : above[x] = {}
  <2>1. above \in [T -> SUBSET T] /\ \A x \in T : x \notin above[x]
    OBVIOUS
  <2>2. \A x, y \in T : y \in above[x] => above[y] \subseteq above[x]
    <3> SUFFICES ASSUME NEW x \in T, NEW y \in above[x], NEW z \in above[y]
                 PROVE  z \in above[x]
      OBVIOUS
    <3>1. x \in Nat /\ y \in Nat /\ z \in Nat /\ z \in T
      OBVIOUS
    <3> QED BY <3>1
  <2> HIDE DEF above
  <2> QED BY <2>1, <2>2, HasExtreme
<1> QED BY <1>1

-----------------------------------------------------------------------------
(* The page *)

LEMMA LimitIsSmall ==
    ASSUME TypeOK, sweep.count < MaxProjects
    PROVE  Limit \in Nat \ {0} /\ Limit <= MaxProjects - sweep.count
<1> DEFINE room == MaxProjects - sweep.count
<1>1. PageSize \in Nat \ {0} /\ room \in Nat \ {0}
  BY WorkerAssumption DEF TypeOK, Sweep
<1>2. \E x \in {PageSize, room} : \A y \in {PageSize, room} : x <= y
  <2> HIDE DEF room
  <2> QED BY <1>1
<1>3. Limit \in {PageSize, room} /\ \A y \in {PageSize, room} : Limit <= y
  <2> HIDE DEF room
  <2>1. Limit = Min({PageSize, room})
    BY DEF Limit, room
  <2> QED BY <1>2, <2>1 DEF Min
<1> QED BY <1>1, <1>3

\* LIMIT keeps its word, and a full page has a last row.
LEMMA PageIsBounded ==
    ASSUME TypeOK, NEW limit \in Nat \ {0}
    PROVE  /\ Rows(limit) \subseteq Id /\ Cardinality(Rows(limit)) \in 0..limit
           /\ Cardinality(Rows(limit)) = limit => NextAfter(Rows(limit)) \in Id
<1> DEFINE behind == {i \in Id : i > sweep.after /\ projects[i] # "absent"}
           before(i) == {h \in behind : h < i}
           R == Rows(limit)
<1>1. /\ behind \subseteq Id /\ IsFiniteSet(Id) /\ Id \subseteq Nat
      /\ R = {i \in behind : Cardinality(before(i)) < limit}
  BY FS_Interval, WorkerAssumption DEF Id, Rows
<1>2. R \subseteq Id /\ IsFiniteSet(R) /\ IsFiniteSet(behind)
  BY <1>1, FS_Subset
<1>3. CASE R = {}
  <2>1. Cardinality(R) = 0
    BY <1>3, FS_EmptySet
  <2> QED BY <1>3, <2>1
<1>4. CASE R # {}
  <2>1. PICK last \in R : \A x \in R : x <= last
    BY <1>1, <1>2, <1>4, HasGreatest
  <2>2. Cardinality(before(last)) < limit /\ before(last) \subseteq behind
    BY <1>1
  <2>3. IsFiniteSet(before(last)) /\ Cardinality(before(last)) \in Nat
    BY <1>2, <2>2, FS_Subset, FS_CardinalityType
  <2>4. R \subseteq before(last) \cup {last} /\ last \notin before(last)
    <3>1. ASSUME NEW x \in R, x # last PROVE x \in before(last)
      <4>1. x \in behind /\ x <= last /\ x \in Nat /\ last \in Nat
        BY <1>1, <1>2, <2>1
      <4>2. x < last
        BY <4>1, <3>1
      <4> QED BY <4>1, <4>2
    <3>2. last \notin before(last)
      <4>1. last \in Nat
        BY <1>1, <1>2, <2>1
      <4> QED BY <4>1
    <3> QED BY <3>1, <3>2
  <2>5. /\ IsFiniteSet(before(last) \cup {last})
        /\ Cardinality(before(last) \cup {last}) = Cardinality(before(last)) + 1
    BY <2>3, <2>4, FS_AddElement
  <2>6. Cardinality(R) <= Cardinality(before(last)) + 1 /\ Cardinality(R) \in Nat
    <3> HIDE DEF R, before
    <3> QED BY <1>2, <2>4, <2>5, FS_Subset, FS_CardinalityType
  <2>7. NextAfter(R) \in R
    <3> HIDE DEF R
    <3>1. \E x \in R : \A y \in R : x >= y
      BY <1>1, <1>2, <2>1
    <3> QED BY <3>1 DEF NextAfter, Max
  <2> QED BY <1>2, <2>2, <2>3, <2>6, <2>7
<1> QED BY <1>3, <1>4

-----------------------------------------------------------------------------
(* The scheduler *)

LEMMA Initially == Init => Inv
<1> SUFFICES ASSUME Init PROVE Inv
  OBVIOUS
<1>1. NoSweep \in Sweep /\ NoSweep.on = FALSE
  BY WorkerAssumption DEF NoSweep, Sweep
<1>2. TypeOK
  BY <1>1, WorkerAssumption DEF Init, TypeOK
<1>3. OneCopyRuns
  BY WorkerAssumption DEF Init, OneCopyRuns
<1>4. SweepIsItsJob
  <2>1. sweep = NoSweep /\ Retention \notin inFlight
    BY WorkerAssumption DEF Init
  <2> QED BY <1>1, <2>1 DEF SweepIsItsJob
<1>5. SnapshotIsAll /\ StoppedIsQuiet
  BY DEF Init, SnapshotIsAll, StoppedIsQuiet
<1> QED
  BY <1>2, <1>3, <1>4, <1>5 DEF Inv

\* The `finally` of a run takes it off the map and off the count.
LEMMA FinishedKeeps ==
    ASSUME Inv, NEW j \in Job, copies[j] > 0, Finished(j), UNCHANGED <<phase, projects>>,
           sweep' = IF j = Retention THEN NoSweep ELSE sweep
    PROVE  Inv'
<1>1. j \in inFlight /\ copies[j] = 1
  BY DEF Inv, OneCopyRuns, TypeOK
<1>2. NoSweep \in Sweep /\ NoSweep.on = FALSE
  BY WorkerAssumption DEF NoSweep, Sweep
<1>3. copies' \in [Job -> Nat] /\ \A i \in Job : copies'[i] = IF i = j THEN 0 ELSE copies[i]
  BY <1>1 DEF Finished, Inv, TypeOK
<1>4. age' \in [Job -> Nat] /\ \A i \in Job : age'[i] <= Every[i]
  <2>1. age' \in [Job -> Nat] /\ \A i \in Job : age'[i] = IF i = j THEN 0 ELSE age[i]
    BY DEF Finished, Inv, TypeOK
  <2>2. \A i \in Job : Every[i] \in Nat /\ age[i] <= Every[i]
    BY WorkerAssumption DEF Inv, TypeOK
  <2> QED BY <2>1, <2>2
<1>5. sweep' \in Sweep /\ (sweep'.on <=> Retention \in inFlight')
  <2>1. CASE j = Retention
    <3>1. sweep' = NoSweep /\ Retention \notin inFlight'
      BY <2>1 DEF Finished
    <3> QED BY <3>1, <1>2
  <2>2. CASE j # Retention
    BY <2>2 DEF Inv, TypeOK, SweepIsItsJob, Finished
  <2> QED BY <2>1, <2>2
<1>6. TypeOK'
  BY <1>3, <1>4, <1>5 DEF Finished, Inv, TypeOK
<1>7. OneCopyRuns' /\ SweepIsItsJob'
  BY <1>1, <1>3, <1>5 DEF Finished, Inv, OneCopyRuns, SweepIsItsJob
<1>8. SnapshotIsAll' /\ StoppedIsQuiet'
  BY DEF Finished, Inv, SnapshotIsAll, StoppedIsQuiet
<1> QED BY <1>6, <1>7, <1>8 DEF Inv

\* A step of the sweep, or of the rows under it.
LEMMA SchedulerAside ==
    ASSUME Inv, UNCHANGED schedulerVars, projects' \in [Id -> Verdict],
           sweep' \in Sweep, sweep'.on = sweep.on
    PROVE  Inv'
BY DEF Inv, schedulerVars, TypeOK, OneCopyRuns, SweepIsItsJob, SnapshotIsAll,
       StoppedIsQuiet

LEMMA TickKeeps == Inv /\ TickFires => Inv'
<1> SUFFICES ASSUME Inv, TickFires PROVE Inv'
  OBVIOUS
<1>1. Starts \subseteq Job /\ Starts \cap inFlight = {}
  BY DEF Starts
<1>2. NewSweep \in Sweep /\ NewSweep.on = TRUE
  <2> DEFINE due == {i \in Id : projects[i] = "due"}
  <2>1. due \in SUBSET Id /\ NoSweep \in Sweep
    BY WorkerAssumption DEF NoSweep, Sweep
  <2>2. NewSweep = [NoSweep EXCEPT !.on = TRUE, !.more = TRUE, !.owed = due]
    BY DEF NewSweep
  <2> HIDE DEF due
  <2> QED BY <2>1, <2>2 DEF Sweep
<1>3. /\ copies' \in [Job -> Nat]
      /\ \A j \in Job : copies'[j] = IF j \in Starts THEN copies[j] + 1 ELSE copies[j]
  BY DEF TickFires, Inv, TypeOK
<1>4. sweep' \in Sweep /\ (sweep'.on <=> Retention \in inFlight')
  <2>1. CASE Retention \in Starts
    BY <2>1, <1>2 DEF TickFires
  <2>2. CASE Retention \notin Starts
    BY <2>2 DEF TickFires, Inv, TypeOK, SweepIsItsJob
  <2> QED BY <2>1, <2>2
<1>5. TypeOK'
  BY <1>1, <1>3, <1>4 DEF TickFires, Inv, TypeOK
<1>6. OneCopyRuns'
  BY <1>1, <1>3 DEF TickFires, Inv, OneCopyRuns
<1>7. SweepIsItsJob' /\ SnapshotIsAll' /\ StoppedIsQuiet'
  BY <1>4 DEF TickFires, SweepIsItsJob, SnapshotIsAll, StoppedIsQuiet
<1> QED BY <1>5, <1>6, <1>7 DEF Inv

LEMMA PageKeeps == Inv /\ ReadPage => Inv'
<1> SUFFICES ASSUME Inv, ReadPage PROVE Inv'
  OBVIOUS
<1> DEFINE rows == Rows(Limit)
<1>1. TypeOK /\ sweep \in Sweep /\ sweep.count < MaxProjects
  BY DEF Inv, TypeOK, ReadPage
<1>2. Limit \in Nat \ {0} /\ Limit <= MaxProjects - sweep.count
  BY <1>1, LimitIsSmall
<1>3. /\ rows \subseteq Id /\ Cardinality(rows) \in 0..Limit
      /\ Cardinality(rows) = Limit => NextAfter(rows) \in Id
  BY <1>1, <1>2, PageIsBounded
<1>4. DueAmong(Targets(rows)) \subseteq Id
  BY <1>3 DEF DueAmong, Targets
<1>5. sweep.count + Cardinality(rows) \in 0..MaxProjects /\ Id \subseteq 0..LastId
  BY <1>1, <1>2, <1>3, WorkerAssumption DEF Sweep, Id
<1>6. sweep' = [sweep EXCEPT
                   !.todo = DueAmong(Targets(rows)), !.more = (Cardinality(rows) = Limit),
                   !.after = IF Cardinality(rows) = Limit THEN NextAfter(rows) ELSE @,
                   !.count = @ + Cardinality(rows)]
  BY DEF ReadPage
<1>7. sweep' \in Sweep /\ sweep'.on = sweep.on
  <2> HIDE DEF rows
  <2> QED BY <1>1, <1>3, <1>4, <1>5, <1>6 DEF Sweep
<1> QED BY <1>7, SchedulerAside DEF ReadPage, Inv, TypeOK

LEMMA StepKeeps == Inv /\ [Next]_vars => Inv'
<1> SUFFICES ASSUME Inv, [Next]_vars PROVE Inv'
  OBVIOUS
<1>1. CASE BootEnds
  BY <1>1 DEF Inv, BootEnds, TypeOK, OneCopyRuns, SweepIsItsJob, SnapshotIsAll, StoppedIsQuiet
<1>2. CASE TickFires
  BY <1>2, TickKeeps
<1>3. CASE TimePasses
  <2>1. age' \in [Job -> Nat] /\ \A j \in Job : age'[j] <= Every[j]
    BY <1>3, WorkerAssumption DEF Inv, TimePasses, TypeOK, Due
  <2> QED
    BY <1>3, <2>1
       DEF Inv, TimePasses, TypeOK, OneCopyRuns, SweepIsItsJob, SnapshotIsAll, StoppedIsQuiet
<1>4. CASE Stop
  BY <1>4 DEF Inv, Stop, TypeOK, OneCopyRuns, SweepIsItsJob, SnapshotIsAll, StoppedIsQuiet
<1>5. CASE StopResolves
  BY <1>5
     DEF Inv, StopResolves, TypeOK, OneCopyRuns, SweepIsItsJob, SnapshotIsAll, StoppedIsQuiet
<1>6. ASSUME NEW j \in Job, JobEnds(j) PROVE Inv'
  BY <1>6, FinishedKeeps DEF JobEnds
<1>7. CASE ReadPage
  BY <1>7, PageKeeps
<1>8. CASE Purge
  <2>1. sweep' \in Sweep /\ sweep'.on = sweep.on
    BY <1>8 DEF Inv, Purge, TypeOK, Sweep
  <2> QED BY <1>8, <2>1, SchedulerAside DEF Inv, TypeOK, Purge
<1>9. CASE SweepEnds \/ SweepThrows
  <2>1. Retention \in Job /\ copies[Retention] > 0
    BY <1>9, WorkerAssumption DEF Inv, SweepEnds, SweepThrows, SweepIsItsJob, OneCopyRuns, TypeOK, Sweep
  <2> QED BY <1>9, <2>1, FinishedKeeps DEF SweepEnds, SweepThrows
<1>10. ASSUME NEW i \in Id, ProjectChanges(i) PROVE Inv'
  <2>1. sweep' \in Sweep /\ sweep'.on = sweep.on
    BY <1>10 DEF Inv, ProjectChanges, TypeOK, Sweep
  <2>2. projects' \in [Id -> Verdict]
    BY <1>10 DEF Inv, ProjectChanges, TypeOK
  <2> QED BY <1>10, <2>1, <2>2, SchedulerAside DEF ProjectChanges
<1>11. CASE Stopped \/ UNCHANGED vars
  BY <1>11, SchedulerAside DEF Inv, TypeOK, Stopped, vars
<1> QED
  BY <1>1, <1>2, <1>3, <1>4, <1>5, <1>6, <1>7, <1>8, <1>9, <1>10, <1>11 DEF Next, SweepStep

-----------------------------------------------------------------------------
(***************************************************************************)
(* The walk.  What the sweep still owes lies ahead of its cursor or in the *)
(* page in hand.  A page is the beginning of what lies ahead (PageIsFirst) *)
(* and a short one is all of it (ShortPageIsAll), whatever changed between *)
(* two of them.                                                            *)
(***************************************************************************)

Ahead == {i \in Id : i > sweep.after /\ projects[i] # "absent"}

Owed ==
    sweep.on => \A i \in sweep.owed :
        projects[i] = "due" /\ (i \in sweep.todo \/ (sweep.more /\ i > sweep.after))

LEMMA RowsAhead ==
    ASSUME TypeOK, NEW limit \in Nat \ {0}
    PROVE  /\ Rows(limit) = {i \in Ahead : Cardinality({h \in Ahead : h < i}) < limit}
           /\ IsFiniteSet(Ahead) /\ Ahead \subseteq Nat /\ Rows(limit) \subseteq Ahead
<1>1. IsFiniteSet(Id) /\ Id \subseteq Nat /\ Ahead \subseteq Id
  <2>1. IsFiniteSet(Id)
    BY FS_Interval, WorkerAssumption DEF Id
  <2> QED BY <2>1 DEF Id, Ahead
<1>2. IsFiniteSet(Ahead) /\ Ahead \subseteq Nat
  BY <1>1, FS_Subset
<1>3. Rows(limit) = {i \in Ahead : Cardinality({h \in Ahead : h < i}) < limit}
  BY DEF Rows, Ahead
<1>4. Rows(limit) \subseteq Ahead
  BY <1>3
<1> QED BY <1>2, <1>3, <1>4

LEMMA PageIsFirst ==
    ASSUME TypeOK, NEW limit \in Nat \ {0}, NEW i \in Ahead \ Rows(limit), NEW x \in Rows(limit)
    PROVE  x < i
<1> DEFINE before(j) == {h \in Ahead : h < j}
<1>1. /\ Rows(limit) = {j \in Ahead : Cardinality(before(j)) < limit}
      /\ IsFiniteSet(Ahead) /\ Ahead \subseteq Nat /\ x \in Ahead
  BY RowsAhead
<1>2. i \in Nat /\ x \in Nat /\ i # x
  BY <1>1
<1> SUFFICES ASSUME i < x PROVE FALSE
  BY <1>2
<1>3. before(i) \subseteq before(x) /\ before(x) \subseteq Ahead
  <2>1. \A h \in Ahead : h < i => h < x
    BY <1>1, <1>2
  <2> QED BY <2>1
<1>4. /\ IsFiniteSet(before(x)) /\ Cardinality(before(x)) \in Nat
      /\ Cardinality(before(x)) < limit
  BY <1>1, <1>3, FS_Subset, FS_CardinalityType
<1>5. Cardinality(before(i)) <= Cardinality(before(x)) /\ Cardinality(before(i)) \in Nat
  <2> HIDE DEF before
  <2> QED BY <1>3, <1>4, FS_Subset, FS_CardinalityType
<1>6. Cardinality(before(i)) < limit
  <2> HIDE DEF before
  <2> QED BY <1>4, <1>5
<1> QED BY <1>1, <1>6

LEMMA ShortPageIsAll ==
    ASSUME TypeOK, NEW limit \in Nat \ {0}, Cardinality(Rows(limit)) < limit
    PROVE  Ahead \subseteq Rows(limit)
<1> SUFFICES ASSUME Ahead \ Rows(limit) # {} PROVE FALSE
  OBVIOUS
<1> DEFINE before(j) == {h \in Ahead : h < j}
           R == Rows(limit)
           rest == Ahead \ R
<1>1. /\ R = {j \in Ahead : Cardinality(before(j)) < limit}
      /\ IsFiniteSet(Ahead) /\ Ahead \subseteq Nat /\ R \subseteq Ahead
  BY RowsAhead
<1>2. PICK least \in rest : \A y \in rest : least <= y
  <2>1. IsFiniteSet(rest) /\ rest \subseteq Nat /\ rest # {}
    BY <1>1, FS_Subset
  <2> HIDE DEF rest
  <2> QED BY <2>1, HasLeast
<1>3. before(least) \subseteq R
  <2> SUFFICES ASSUME NEW h \in Ahead, h < least, h \notin R PROVE FALSE
    OBVIOUS
  <2>1. h \in rest /\ least \in Nat /\ h \in Nat
    BY <1>1
  <2> QED BY <1>2, <2>1
<1>4. IsFiniteSet(R) /\ Cardinality(R) \in Nat
  BY <1>1, FS_Subset, FS_CardinalityType
<1>5. Cardinality(before(least)) < limit
  <2> HIDE DEF before
  <2>1. Cardinality(before(least)) <= Cardinality(R) /\ Cardinality(before(least)) \in Nat
    BY <1>3, <1>4, FS_Subset, FS_CardinalityType
  <2> QED BY <1>4, <2>1
<1> QED BY <1>1, <1>5

LEMMA PageOwes ==
    ASSUME Inv, Owed, ReadPage
    PROVE  Owed'
<1> DEFINE rows == Rows(Limit)
           full == Cardinality(rows) = Limit
<1>1. TypeOK /\ sweep \in Sweep /\ sweep.count < MaxProjects /\ sweep.todo = {} /\ sweep.on
  BY DEF Inv, TypeOK, ReadPage
<1>2. Limit \in Nat \ {0}
  BY <1>1, LimitIsSmall
<1>3. /\ rows \subseteq Id /\ Cardinality(rows) \in 0..Limit
      /\ full => NextAfter(rows) \in Id
  BY <1>1, <1>2, PageIsBounded
<1>4. /\ sweep'.todo = DueAmong(Targets(rows)) /\ sweep'.more = full
      /\ sweep'.after = IF full THEN NextAfter(rows) ELSE sweep.after
      /\ sweep'.owed = sweep.owed /\ UNCHANGED projects
  <2>1. sweep' = [sweep EXCEPT
                     !.todo = DueAmong(Targets(rows)), !.more = full,
                     !.after = IF full THEN NextAfter(rows) ELSE @,
                     !.count = @ + Cardinality(rows)]
    BY DEF ReadPage
  <2> HIDE DEF rows, full
  <2> QED BY <1>1, <2>1 DEF ReadPage, Sweep
<1>5. ASSUME NEW i \in sweep.owed
      PROVE  projects[i] = "due" /\ (i \in sweep'.todo \/ (full /\ i > NextAfter(rows)))
  <2>1. projects[i] = "due" /\ i \in Ahead
    BY <1>1 DEF Owed, Ahead, Sweep
  <2>2. CASE i \in rows
    BY <1>4, <2>1, <2>2 DEF DueAmong, Targets
  <2>3. CASE i \notin rows
    <3>1. full
      BY <1>1, <1>2, <1>3, <2>1, <2>3, ShortPageIsAll
    <3>2. NextAfter(rows) \in rows
      <4>1. rows # {}
        BY <1>2, <3>1, FS_EmptySet
      <4>2. IsFiniteSet(rows) /\ rows \subseteq Nat
        BY <1>1, <1>2, RowsAhead, FS_Subset
      <4> HIDE DEF rows
      <4>3. \E x \in rows : \A y \in rows : x >= y
        BY <4>1, <4>2, HasGreatest
      <4> QED BY <4>3 DEF NextAfter, Max
    <3>3. NextAfter(rows) < i
      BY <1>1, <1>2, <2>1, <2>3, <3>2, PageIsFirst
    <3>4. i \in Nat /\ NextAfter(rows) \in Nat
      BY <1>1, <1>2, <2>1, <3>2, RowsAhead
    <3> HIDE DEF rows, full
    <3> QED BY <2>1, <3>1, <3>3, <3>4
  <2> QED BY <2>2, <2>3
<1> HIDE DEF rows, full
<1> QED BY <1>4, <1>5 DEF Owed

LEMMA StepOwes == Inv /\ Owed /\ [Next]_vars => Owed'
<1> SUFFICES ASSUME Inv, Owed, [Next]_vars PROVE Owed'
  OBVIOUS
<1>1. sweep \in Sweep /\ (UNCHANGED <<projects, sweep>> => Owed')
  BY DEF Inv, TypeOK, Owed
<1>2. CASE BootEnds \/ TimePasses \/ Stop \/ StopResolves \/ Stopped \/ UNCHANGED vars
             \/ \E j \in Job : JobEnds(j)
  BY <1>1, <1>2 DEF BootEnds, TimePasses, Stop, StopResolves, Stopped, vars, JobEnds
<1>3. CASE TickFires
  <2>1. CASE Retention \in Starts
    <3> DEFINE due == {i \in Id : projects[i] = "due"}
    <3>1. NewSweep = [NoSweep EXCEPT !.on = TRUE, !.more = TRUE, !.owed = due]
      BY DEF NewSweep
    <3>2. NewSweep.owed = due /\ NewSweep.more = TRUE /\ NewSweep.after = 0
      BY <3>1 DEF NoSweep
    <3>3. \A i \in due : i > 0
      BY WorkerAssumption DEF Id
    <3> QED BY <1>3, <2>1, <3>2, <3>3 DEF TickFires, Owed
  <2>2. CASE Retention \notin Starts
    BY <1>1, <1>3, <2>2 DEF TickFires
  <2> QED BY <2>1, <2>2
<1>4. CASE ReadPage
  BY <1>4, PageOwes
<1>5. CASE Purge
  <2> DEFINE first == Min(sweep.todo)
  <2>1. sweep' = [sweep EXCEPT !.todo = @ \ {first}, !.owed = @ \ {first}]
        /\ UNCHANGED projects
    BY <1>5 DEF Purge
  <2> HIDE DEF first
  <2>2. /\ sweep'.todo = sweep.todo \ {first} /\ sweep'.owed = sweep.owed \ {first}
        /\ sweep'.on = sweep.on /\ sweep'.more = sweep.more /\ sweep'.after = sweep.after
    BY <1>1, <2>1 DEF Sweep
  <2> QED BY <2>1, <2>2 DEF Owed
<1>6. CASE SweepEnds \/ SweepThrows
  BY <1>6 DEF SweepEnds, SweepThrows, NoSweep, Owed
<1>7. ASSUME NEW i \in Id, ProjectChanges(i) PROVE Owed'
  <2>1. /\ sweep'.owed = sweep.owed \ {i} /\ sweep'.todo = sweep.todo /\ sweep'.on = sweep.on
        /\ sweep'.more = sweep.more /\ sweep'.after = sweep.after
    BY <1>1, <1>7 DEF ProjectChanges, Sweep
  <2>2. \A j \in Id \ {i} : projects'[j] = projects[j]
    BY <1>7 DEF ProjectChanges, Inv, TypeOK
  <2>3. sweep.owed \subseteq Id
    BY <1>1 DEF Sweep
  <2> QED BY <2>1, <2>2, <2>3 DEF Owed
<1> QED BY <1>2, <1>3, <1>4, <1>5, <1>6, <1>7 DEF Next, SweepStep

-----------------------------------------------------------------------------
\* Every local, map and column of the worker holds what it may hold; no sweep
\* looks at more rows than config.retention.maxProjects (retention.ts:109).
THEOREM TypesHold == Spec => []TypeOK
<1>1. Inv => TypeOK
  BY DEF Inv
<1> QED BY <1>1, Initially, StepKeeps, PTL DEF Spec

\* scheduler.ts:9: however late the timer and however long the jobs, every run
\* is in the map and there is one of each job at most.
THEOREM JobsNeverOverlap == Spec => []OneCopyRuns
<1>1. Inv => OneCopyRuns
  BY DEF Inv
<1> QED BY <1>1, Initially, StepKeeps, PTL DEF Spec

\* main.ts:306: what stop() waited for is all there was, so nothing queries the
\* pools after they end.
THEOREM NothingOutlivesThePools == Spec => []PoolsOutliveJobs
<1>1. Inv => PoolsOutliveJobs
  <2> SUFFICES ASSUME Inv, phase = "stopped"
               PROVE  inFlight = {} /\ ~sweep.on /\ \A j \in Job : copies[j] = 0
    BY DEF PoolsOutliveJobs
  <2>1. inFlight = {}
    BY DEF Inv, SnapshotIsAll, StoppedIsQuiet
  <2> QED BY <2>1 DEF Inv, OneCopyRuns, SweepIsItsJob
<1> QED BY <1>1, Initially, StepKeeps, PTL DEF Spec

\* retention-targets.ts:18: for every number of projects, every page and every
\* change of the rows meanwhile, a sweep that reaches the end of the table has
\* tried every project that was due and stayed due.
THEOREM NobodyIsSkipped == Spec => []SweepSkipsNobody
<1>1. Init => Owed
  BY DEF Init, Owed, NoSweep
<1>2. Owed => SweepSkipsNobody
  BY DEF Owed, SweepSkipsNobody
<1> QED BY <1>1, <1>2, Initially, StepKeeps, StepOwes, PTL DEF Spec

-----------------------------------------------------------------------------
(* The monitor and its alerts *)

\* What a worker's sweep is at: an evaluation, or an alert.
Evaluating(w) == job[w].at \in {"observing", "writing"}
Sending(w) == job[w].at \in {"sending", "completing", "failing"}

\* The alerts that reached their recipient, and with them those on their way.
Told == {heard[i] : i \in DOMAIN heard}
Sent == Told \cup {job[w].alert : w \in {v \in Worker : Sending(v)}}

Resets(e) == e.commands \cap {"retarget", "disable"} # {}

ClaimIsLatest == row.claim # "free" => row.lastAttempt = evaluations

EvaluationOK(w) ==
    /\ job[w].copy.lastAttempt \in 1..evaluations
    /\ job[w].copy.exists /\ job[w].copy.enabled
    /\ At(w, "writing") =>
           /\ job[w].decision = "fire" => ~job[w].copy.breaching
           /\ job[w].decision \in {"repeat", "recover"} => job[w].copy.breaching
    /\ job[w].fresh /\ row.claim # "free" /\ row.lastAttempt = job[w].copy.lastAttempt =>
           View(row) = View(job[w].copy)

EvaluationsOK == \A w \in Worker : Evaluating(w) => EvaluationOK(w)

\* The account of AnnouncedOnce with what it owes: while the row forgets what was
\* announced, one stale save has not yet cost its repeat.
Accounted(breaching, said, again, stale) ==
    again <= stale /\ (said # breaching => again < stale)

HistoryOK == Accounted(row.breaching, announced, repeats, staleSaves)

EditsOK ==
    \A o \in Operator : edit[o].at \in {"loaded", "writing"} =>
        /\ edit[o].saved.exists
        /\ edit[o].saved.breaching = (edit[o].found[1] /\ ~Resets(edit[o]))

EvaluationInv == ClaimIsLatest /\ EvaluationsOK /\ HistoryOK /\ EditsOK

AlertsOK ==
    /\ \A a \in Alert :
           /\ deliveries[a].status # "none" => a[1] <= evaluations
           /\ ~row.exists => deliveries[a].status \in {"none", "gone"}
           /\ deliveries[a].status = "delivered" => a \in Told
    /\ \A w \in Worker : At(w, "completing") => job[w].alert \in Told

SentOK ==
    \A a \in Sent :
        /\ deliveries[a].status # "none"
        /\ \A b \in Alert : Earlier(b, a) /\ Pending(b) => deliveries[a].status = "gone"

MonitorInv ==
    MonitorTypeOK /\ EvaluationInv /\ AlertsOK /\ SentOK /\ HeardInOrder

LEMMA EvaluatingIs ==
    ASSUME NEW j \in SweepJob, j.at \in {"observing", "writing"}
    PROVE  j \in [at : {"observing", "writing"}, copy : Monitor, saw : BOOLEAN,
                  fresh : BOOLEAN, decision : {"fire", "repeat", "recover", "silent"}]
BY DEF SweepJob

LEMMA SendingIs ==
    ASSUME NEW j \in SweepJob, j.at \in {"sending", "completing", "failing"}
    PROVE  j \in [at : {"sending", "completing", "failing"}, alert : Alert, attempt : Nat]
BY DEF SweepJob

LEMMA RequestIs ==
    ASSUME NEW e \in Request, e.at \in {"loaded", "writing"}
    PROVE  e \in [at : {"loaded", "writing"},
                  found : BOOLEAN \X (BOOLEAN \X Question \X SUBSET Channel),
                  saved : Monitor, seen : SUBSET Alert,
                  commands : SUBSET {"rename", "retarget", "reconfigure", "enable",
                                     "disable", "delete"}]
BY DEF Request

LEMMA ViewIs ==
    ASSUME NEW m \in Monitor, NEW n \in Monitor
    PROVE  /\ View(m) = View(n) <=> (m.breaching = n.breaching /\ SettingsOf(m) = SettingsOf(n))
           /\ SettingsOf(m) = SettingsOf(n) <=>
                 (m.enabled = n.enabled /\ m.question = n.question /\ m.channels = n.channels)
           /\ View(m) \in BOOLEAN \X (BOOLEAN \X Question \X SUBSET Channel)
           /\ View(m)[1] = m.breaching
BY DEF View, SettingsOf, Monitor

LEMMA ClaimedIs ==
    ASSUME MonitorTypeOK, evaluations < MaxEvaluations, NEW m \in Monitor
    PROVE  /\ Claimed(m) \in Monitor
           /\ Claimed(m).lastAttempt = evaluations + 1 /\ Claimed(m).claim = "held"
           /\ Claimed(m).exists = m.exists
           /\ Claimed(m).breaching = m.breaching /\ Claimed(m).enabled = m.enabled
           /\ View(Claimed(m)) = View(m)
<1>1. evaluations + 1 \in 0..MaxEvaluations
  BY MonitorsAssumption DEF MonitorTypeOK
<1>2. /\ Claimed(m) \in Monitor
      /\ Claimed(m).lastAttempt = evaluations + 1 /\ Claimed(m).claim = "held"
      /\ Claimed(m).exists = m.exists
      /\ Claimed(m).breaching = m.breaching /\ Claimed(m).enabled = m.enabled
      /\ Claimed(m).question = m.question /\ Claimed(m).channels = m.channels
  BY <1>1 DEF Claimed, Monitor
<1> QED BY <1>2, ViewIs

LEMMA AppliedIs ==
    ASSUME NEW j \in SweepJob, j.at = "writing"
    PROVE  /\ Applied(j) \in Monitor
           /\ Applied(j).claim = "free" /\ Applied(j).lastAttempt = j.copy.lastAttempt
           /\ SettingsOf(Applied(j)) = SettingsOf(j.copy)
           /\ Applied(j).exists = j.copy.exists /\ Applied(j).enabled = j.copy.enabled
           /\ j.decision \in {"fire", "repeat"} => Applied(j).breaching = TRUE
           /\ j.decision = "recover" => Applied(j).breaching = FALSE
           /\ j.decision = "silent" => Applied(j).breaching = j.copy.breaching
<1>1. j.copy \in Monitor /\ j.decision \in {"fire", "repeat", "recover", "silent"}
  BY EvaluatingIs
<1> DEFINE m == j.copy
           b == CASE j.decision \in {"fire", "repeat"} -> TRUE
                  [] j.decision = "recover" -> FALSE
                  [] OTHER -> m.breaching
<1>2. Applied(j) = [m EXCEPT !.claim = "free", !.breaching = b]
  BY DEF Applied
<1>3. /\ j.decision \in {"fire", "repeat"} => b = TRUE
      /\ j.decision = "recover" => b = FALSE
      /\ j.decision = "silent" => b = m.breaching
  BY <1>1
<1>4. b \in BOOLEAN
  <2>1. m.breaching \in BOOLEAN
    BY <1>1 DEF Monitor
  <2> HIDE DEF b
  <2> QED BY <1>1, <1>3, <2>1
<1> HIDE DEF b
<1>5. /\ Applied(j) \in Monitor
      /\ Applied(j).claim = "free" /\ Applied(j).lastAttempt = m.lastAttempt
      /\ Applied(j).exists = m.exists /\ Applied(j).enabled = m.enabled
      /\ Applied(j).question = m.question /\ Applied(j).channels = m.channels
      /\ Applied(j).breaching = b
  BY <1>1, <1>2, <1>4 DEF Monitor
<1>6. SettingsOf(Applied(j)) = SettingsOf(j.copy)
  BY <1>1, <1>5, ViewIs
<1> QED BY <1>1, <1>3, <1>5, <1>6

LEMMA EditedIs ==
    ASSUME NEW m \in Monitor, NEW cs, NEW q \in Question, NEW ch \in SUBSET Channel
    PROVE  /\ Edited(m, cs, q, ch) \in Monitor
           /\ Edited(m, cs, q, ch).exists = m.exists
           /\ Edited(m, cs, q, ch).breaching =
                 (m.breaching /\ cs \cap {"retarget", "disable"} = {})
<1> DEFINE qn == IF "retarget" \in cs THEN q ELSE m.question
           cn == IF "reconfigure" \in cs THEN ch ELSE m.channels
           en == IF cs = {"enable"} THEN TRUE
                 ELSE IF cs = {"disable"} THEN FALSE ELSE m.enabled
           bn == IF cs \cap {"retarget", "disable"} # {} THEN FALSE ELSE m.breaching
           ln == IF cs \cap {"retarget", "enable"} # {} THEN 0 ELSE m.lastAttempt
<1>1. Edited(m, cs, q, ch) = [m EXCEPT !.question = qn, !.channels = cn, !.enabled = en,
                                       !.breaching = bn, !.lastAttempt = ln]
  BY DEF Edited
<1>2. m.question \in Question /\ m.channels \in SUBSET Channel /\ m.enabled \in BOOLEAN
      /\ m.breaching \in BOOLEAN /\ m.lastAttempt \in 0..MaxEvaluations
  BY DEF Monitor
<1>3. /\ qn \in Question /\ cn \in SUBSET Channel /\ en \in BOOLEAN /\ bn \in BOOLEAN
      /\ ln \in 0..MaxEvaluations
  <2>1. qn \in Question
    BY <1>2
  <2>2. cn \in SUBSET Channel
    BY <1>2
  <2>3. en \in BOOLEAN
    BY <1>2
  <2>4. bn \in BOOLEAN
    BY <1>2
  <2>5. 0 \in 0..MaxEvaluations
    BY MonitorsAssumption
  <2>6. ln \in 0..MaxEvaluations
    BY <1>2, <2>5
  <2> HIDE DEF qn, cn, en, bn, ln
  <2> QED BY <2>1, <2>2, <2>3, <2>4, <2>6
<1>4. bn = (m.breaching /\ cs \cap {"retarget", "disable"} = {})
  BY <1>2
<1> HIDE DEF qn, cn, en, bn, ln
<1>5. /\ Edited(m, cs, q, ch) \in Monitor /\ Edited(m, cs, q, ch).breaching = bn
      /\ Edited(m, cs, q, ch).exists = m.exists
  BY <1>1, <1>3 DEF Monitor
<1> QED BY <1>4, <1>5

LEMMA SavedRowIs ==
    ASSUME NEW e \in Request, e.at = "writing"
    PROVE  /\ SavedRow(e) \in Monitor /\ SavedRow(e).claim = "free"
           /\ SavedRow(e).breaching = e.saved.breaching /\ SavedRow(e).exists = e.saved.exists
<1>1. e.saved \in Monitor
  BY RequestIs
<1> QED BY <1>1 DEF SavedRow, Monitor

-----------------------------------------------------------------------------
(* The monitor: types *)

LEMMA MonitorStarts == MonitorInit => MonitorInv
<1> SUFFICES ASSUME MonitorInit PROVE MonitorInv
  OBVIOUS
<1>1. PICK q \in Question, cs \in SUBSET Channel, on \in BOOLEAN :
          row = [exists |-> TRUE, enabled |-> on, breaching |-> FALSE, question |-> q,
                 channels |-> cs, lastAttempt |-> 0, claim |-> "free"]
  BY DEF MonitorInit
<1>2. row \in Monitor /\ row.claim = "free" /\ row.exists /\ row.breaching = FALSE
  BY <1>1, MonitorsAssumption DEF Monitor
<1>3. MonitorTypeOK
  <2>1. deliveries \in [Alert -> Delivery]
    BY DEF MonitorInit, Unsent, Delivery
  <2>2. job \in [Worker -> SweepJob]
    BY DEF MonitorInit, Idle, SweepJob
  <2>3. edit \in [Operator -> Request]
    BY DEF MonitorInit, Request
  <2>4. evaluations \in 0..MaxEvaluations /\ faults \in 0..MaxFaults
    BY MonitorsAssumption DEF MonitorInit
  <2>5. heard \in Seq(Alert) /\ announced \in BOOLEAN /\ repeats \in Nat /\ staleSaves \in Nat
    <3>1. heard = <<>> /\ announced = FALSE /\ repeats = 0 /\ staleSaves = 0
      BY DEF MonitorInit
    <3>2. <<>> \in Seq(Alert)
      OBVIOUS
    <3> QED BY <3>1, <3>2
  <2> QED BY <1>2, <2>1, <2>2, <2>3, <2>4, <2>5 DEF MonitorTypeOK
<1>4. EvaluationInv
  <2>1. announced = FALSE /\ repeats = 0 /\ staleSaves = 0
    BY DEF MonitorInit
  <2>2. HistoryOK
    <3>1. announced = row.breaching
      BY <1>2, <2>1, Zenon
    <3>2. repeats <= staleSaves
      BY <2>1
    <3> QED BY <3>1, <3>2 DEF HistoryOK, Accounted
  <2> QED BY <1>2, <2>2 DEF MonitorInit, EvaluationInv, ClaimIsLatest, EvaluationsOK,
              Evaluating, EditsOK, Idle
<1>5. Told = {} /\ Sent = {}
  BY DEF MonitorInit, Told, Sent, Sending, Idle
<1>6. AlertsOK
  BY <1>2 DEF MonitorInit, AlertsOK, Unsent, At, Idle
<1>7. SentOK /\ HeardInOrder
  BY <1>5 DEF MonitorInit, SentOK, HeardInOrder
<1> QED BY <1>3, <1>4, <1>6, <1>7 DEF MonitorInv

\* Each worker stays within its sweep, and each column within its type.

LEMMA ClaimsIs ==
    ASSUME NEW m \in Monitor, Claimed(m) \in Monitor, NEW b \in BOOLEAN
    PROVE  Claims(m, b) \in SweepJob
BY DEF Claims, SweepJob

LEMMA AnnouncedTypes ==
    ASSUME MonitorTypeOK, NEW j \in SweepJob, j.at = "writing", Announced(j)
    PROVE  /\ deliveries' \in [Alert -> Delivery] /\ announced' \in BOOLEAN
           /\ repeats' \in Nat /\ staleSaves' \in Nat
<1>1. j.fresh \in BOOLEAN /\ j.decision \in {"fire", "repeat", "recover", "silent"}
  BY EvaluatingIs
<1>2. /\ deliveries \in [Alert -> Delivery] /\ announced \in BOOLEAN
      /\ repeats \in Nat /\ staleSaves \in Nat /\ row.exists \in BOOLEAN
  BY DEF MonitorTypeOK, Monitor
<1>3. CASE ~FenceHolds(j)
  BY <1>2, <1>3 DEF Announced, accountVars
<1>4. CASE FenceHolds(j)
  <2>1. deliveries' \in [Alert -> Delivery]
    <3>1. deliveries' = [a \in Alert |->
                IF a \in AlertsOf(j) /\ deliveries[a].status = "none"
                THEN [deliveries[a] EXCEPT !.status = "pending"] ELSE deliveries[a]]
      BY <1>4 DEF Announced
    <3> SUFFICES ASSUME NEW a \in Alert PROVE deliveries'[a] \in Delivery
      BY <3>1
    <3>2. [deliveries[a] EXCEPT !.status = "pending"] \in Delivery
      BY <1>2 DEF Delivery
    <3> QED BY <1>2, <3>1, <3>2
  <2>2. announced' \in BOOLEAN
    <3>1. announced' = CASE j.decision \in {"fire", "repeat"} -> TRUE
                           [] j.decision = "recover" -> FALSE
                           [] OTHER -> announced
      BY <1>4 DEF Announced
    <3>2. CASE j.decision \in {"fire", "repeat"}
      BY <3>1, <3>2
    <3>3. CASE j.decision = "recover"
      BY <3>1, <3>3
    <3>4. CASE j.decision = "silent"
      BY <3>1, <3>4, <1>2
    <3> QED BY <1>1, <3>2, <3>3, <3>4
  <2>3. repeats' \in Nat /\ staleSaves' \in Nat
    BY <1>2, <1>4 DEF Announced
  <2> QED BY <2>1, <2>2, <2>3
<1> QED BY <1>3, <1>4

LEMMA ClaimTypes ==
    ASSUME MonitorTypeOK, NEW w \in Worker,
           ClaimEvaluation(w) \/ NothingToEvaluate(w) \/ Observe(w)
    PROVE  MonitorTypeOK'
<1> USE DEF MonitorTypeOK
<1>1. CASE ClaimEvaluation(w)
  <2>1. evaluations < MaxEvaluations /\ row \in Monitor
    BY <1>1 DEF ClaimEvaluation, EvaluationDue
  <2>2. Claimed(row) \in Monitor
    BY <2>1, ClaimedIs
  <2>3. Claims(row, TRUE) \in SweepJob
    BY <2>1, <2>2, ClaimsIs
  <2>4. evaluations + 1 \in 0..MaxEvaluations
    BY <2>1, MonitorsAssumption
  <2> QED BY <1>1, <2>2, <2>3, <2>4 DEF ClaimEvaluation, Becomes, historyVars
<1>2. CASE NothingToEvaluate(w)
  BY <1>2 DEF NothingToEvaluate, Becomes, Delivering, SweepJob, historyVars
<1>3. CASE Observe(w)
  <2>1. PICK d \in Decisions(job[w].copy) :
            job' = [job EXCEPT ![w].at = "writing", ![w].decision = d, ![w].saw = row.exists]
    BY <1>3 DEF Observe
  <2>2. d \in {"fire", "repeat", "recover", "silent"}
    BY DEF Decisions
  <2>3. job[w] \in [at : {"observing", "writing"}, copy : Monitor, saw : BOOLEAN,
                    fresh : BOOLEAN, decision : {"fire", "repeat", "recover", "silent"}]
    BY <1>3, EvaluatingIs DEF Observe, At
  <2>4. row.exists \in BOOLEAN
    BY DEF Monitor
  <2> DEFINE j == [job[w] EXCEPT !.at = "writing", !.decision = d, !.saw = row.exists]
  <2>5. j \in SweepJob
    BY <2>2, <2>3, <2>4 DEF SweepJob
  <2>6. job' = [job EXCEPT ![w] = j]
    BY <2>1
  <2> HIDE DEF j
  <2> QED BY <1>3, <2>5, <2>6 DEF Observe, historyVars
<1> QED BY <1>1, <1>2, <1>3

LEMMA SaveTypes ==
    ASSUME MonitorTypeOK, NEW w \in Worker, SaveEnds(w) \/ SaveFails(w)
    PROVE  MonitorTypeOK'
<1>1. job[w] \in SweepJob /\ job[w].at = "writing" /\ row \in Monitor
  BY DEF SaveEnds, SaveFails, At, MonitorTypeOK
<1>2. Applied(job[w]) \in Monitor
  BY <1>1, AppliedIs
<1>3. ASSUME Recorded(job[w])
      PROVE  /\ row' \in Monitor
             /\ deliveries' \in [Alert -> Delivery] /\ announced' \in BOOLEAN
             /\ repeats' \in Nat /\ staleSaves' \in Nat
  BY <1>1, <1>2, <1>3, AnnouncedTypes DEF Recorded
<1>4. CASE SaveEnds(w)
  <2>1. Delivering \in SweepJob
    BY DEF Delivering, SweepJob
  <2> QED BY <1>3, <1>4, <2>1 DEF SaveEnds, Becomes, MonitorTypeOK
<1>5. CASE SaveFails(w)
  <2>1. /\ row' \in Monitor
        /\ deliveries' \in [Alert -> Delivery] /\ announced' \in BOOLEAN
        /\ repeats' \in Nat /\ staleSaves' \in Nat
    BY <1>3, <1>5 DEF SaveFails, MonitorTypeOK, accountVars
  <2>2. job' \in [Worker -> SweepJob]
    <3>1. row'.exists \in BOOLEAN
      BY <2>1 DEF Monitor
    <3>2. job[w] \in [at : {"observing", "writing"}, copy : Monitor, saw : BOOLEAN,
                      fresh : BOOLEAN, decision : {"fire", "repeat", "recover", "silent"}]
      BY <1>1, EvaluatingIs
    <3> DEFINE j == [job[w] EXCEPT !.decision = "silent", !.saw = row'.exists]
    <3>3. j \in SweepJob
      BY <3>1, <3>2 DEF SweepJob
    <3>4. Delivering \in SweepJob
      BY DEF Delivering, SweepJob
    <3>5. job' = [job EXCEPT ![w] = j] \/ job' = [job EXCEPT ![w] = Delivering]
      BY <1>5 DEF SaveFails, Becomes
    <3> HIDE DEF j
    <3> QED BY <3>3, <3>4, <3>5 DEF MonitorTypeOK
  <2>3. faults' \in 0..MaxFaults
    BY <1>5, MonitorsAssumption DEF SaveFails, Fault, MonitorTypeOK
  <2> QED BY <1>5, <2>1, <2>2, <2>3 DEF SaveFails, MonitorTypeOK
<1> QED BY <1>4, <1>5

LEMMA MissTypes ==
    ASSUME MonitorTypeOK, NEW w \in Worker, NEW m \in Monitor, ClaimMisses(w, m)
    PROVE  /\ row' = Claimed(m) /\ row' \in Monitor /\ Claimed(row) \in Monitor
           /\ evaluations' = evaluations + 1 /\ evaluations' \in 0..MaxEvaluations
           /\ At(w, "idle") /\ row.exists /\ row.enabled /\ evaluations < MaxEvaluations
<1>1. evaluations < MaxEvaluations /\ row \in Monitor
  BY DEF ClaimMisses, EvaluationDue, MonitorTypeOK
<1>2. Claimed(m) \in Monitor /\ Claimed(row) \in Monitor
  BY <1>1, ClaimedIs
<1> QED BY <1>1, <1>2, MonitorsAssumption DEF ClaimMisses, EvaluationDue, MonitorTypeOK

LEMMA ClaimDuringSaveTypes ==
    ASSUME MonitorTypeOK, NEW w \in Worker, NEW v \in Worker, ClaimDuringSave(w, v)
    PROVE  MonitorTypeOK'
<1>1. job[v] \in SweepJob /\ job[v].at = "writing" /\ row \in Monitor
  BY DEF ClaimDuringSave, At, MonitorTypeOK
<1>2. Applied(job[v]) \in Monitor
  BY <1>1, AppliedIs
<1>3. /\ row' \in Monitor /\ Claimed(row) \in Monitor /\ evaluations' \in 0..MaxEvaluations
  BY <1>2, MissTypes DEF ClaimDuringSave
<1>4. /\ deliveries' \in [Alert -> Delivery] /\ announced' \in BOOLEAN
      /\ repeats' \in Nat /\ staleSaves' \in Nat
  BY <1>1, AnnouncedTypes DEF ClaimDuringSave
<1> DEFINE j == Claims(row, View(Applied(job[v])) = View(row))
<1>5. j \in SweepJob
  BY <1>1, <1>3, ClaimsIs
<1>6. job' = [job EXCEPT ![v] = Delivering, ![w] = j]
  BY DEF ClaimDuringSave
<1>7. Delivering \in SweepJob
  BY DEF Delivering, SweepJob
<1> HIDE DEF j
<1>8. job' \in [Worker -> SweepJob]
  BY <1>5, <1>6, <1>7 DEF MonitorTypeOK
<1> QED BY <1>3, <1>4, <1>8 DEF ClaimDuringSave, MonitorTypeOK

LEMMA DeliveryTypes ==
    ASSUME MonitorTypeOK, NEW w \in Worker, DeliveryStep(w)
    PROVE  MonitorTypeOK'
<1> USE DEF MonitorTypeOK
<1>0. Delivering \in SweepJob /\ Idle \in SweepJob
  BY DEF Delivering, Idle, SweepJob
<1>1. CASE ClaimDelivery(w)
  <2>1. PICK a \in Alert :
          /\ deliveries' = [deliveries EXCEPT ![a].claim = "held", ![a].attempts = @ + 1]
          /\ Becomes(w, [at |-> "sending", alert |-> a,
                         attempt |-> deliveries[a].attempts + 1])
    BY <1>1 DEF ClaimDelivery
  <2> DEFINE d == [deliveries[a] EXCEPT !.claim = "held", !.attempts = @ + 1]
             j == [at |-> "sending", alert |-> a, attempt |-> deliveries[a].attempts + 1]
  <2>2. deliveries[a].attempts \in Nat /\ d \in Delivery
    <3>1. deliveries[a] \in Delivery
      OBVIOUS
    <3>2. deliveries[a].attempts + 1 \in Nat
      BY <3>1 DEF Delivery
    <3>3. d = [deliveries[a] EXCEPT !.claim = "held", !.attempts = deliveries[a].attempts + 1]
      BY <3>1 DEF Delivery
    <3> DEFINE n == deliveries[a].attempts + 1
    <3> HIDE DEF n
    <3>4. [deliveries[a] EXCEPT !.claim = "held", !.attempts = n] \in Delivery
      BY <3>1, <3>2 DEF Delivery, n
    <3> QED BY <3>1, <3>3, <3>4 DEF Delivery, n
  <2>3. j \in SweepJob
    BY <2>2 DEF SweepJob
  <2>4. deliveries' = [deliveries EXCEPT ![a] = d] /\ job' = [job EXCEPT ![w] = j]
    BY <2>1 DEF Becomes
  <2> HIDE DEF d, j
  <2> QED BY <1>1, <2>2, <2>3, <2>4 DEF ClaimDelivery, historyVars
<1>2. CASE NothingToDeliver(w)
  BY <1>0, <1>2 DEF NothingToDeliver, Becomes, historyVars
<1>3. CASE NotifierAccepts(w)
  <2>1. job[w] \in [at : {"sending", "completing", "failing"}, alert : Alert, attempt : Nat]
    BY <1>3, SendingIs DEF NotifierAccepts, At
  <2>2. [job[w] EXCEPT !.at = "completing"] \in SweepJob
    BY <2>1 DEF SweepJob
  <2>3. job' \in [Worker -> SweepJob]
    BY <1>3, <2>2 DEF NotifierAccepts, GoesTo
  <2>4. heard' \in Seq(Alert)
    <3>1. heard \in Seq(Alert) /\ job[w].alert \in Alert
      BY <2>1
    <3>2. heard' = heard \/ heard' = Append(heard, job[w].alert)
      BY <1>3 DEF NotifierAccepts, Reaches
    <3> QED BY <3>1, <3>2
  <2> QED BY <1>3, <2>3, <2>4 DEF NotifierAccepts, accountVars
<1>4. ASSUME NEW s \in {"delivered", "pending"}, Settled(w, s)
      PROVE  deliveries' \in [Alert -> Delivery] /\ job' \in [Worker -> SweepJob]
  <2>1. deliveries' \in [Alert -> Delivery]
    <3> SUFFICES ASSUME Holds(job[w]) PROVE deliveries' \in [Alert -> Delivery]
      BY <1>4 DEF Settled
    <3> DEFINE a == job[w].alert
               d == [deliveries[a] EXCEPT !.status = s, !.claim = "free"]
    <3>1. deliveries' = [deliveries EXCEPT ![a] = d]
      BY <1>4 DEF Settled
    <3>2. a \in Alert => d \in Delivery
      BY DEF Delivery
    <3> HIDE DEF d, a
    <3> QED BY <3>1, <3>2
  <2>2. job' \in [Worker -> SweepJob]
    BY <1>0, <1>4 DEF Settled, Becomes
  <2> QED BY <2>1, <2>2
<1>5. CASE CompleteDelivery(w) \/ FailDelivery(w)
  BY <1>4, <1>5 DEF CompleteDelivery, FailDelivery, historyVars
<1> QED BY <1>1, <1>2, <1>3, <1>5 DEF DeliveryStep

LEMMA FaultTypes ==
    ASSUME MonitorTypeOK, NEW w \in Worker,
           NotifierFails(w) \/ CompletionFails(w) \/ Crash(w)
    PROVE  MonitorTypeOK'
<1> USE DEF MonitorTypeOK
<1>0. Fault => faults' \in 0..MaxFaults
  BY MonitorsAssumption DEF Fault
<1>1. CASE NotifierFails(w) \/ CompletionFails(w)
  <2>1. job[w] \in [at : {"sending", "completing", "failing"}, alert : Alert, attempt : Nat]
    BY <1>1, SendingIs DEF NotifierFails, CompletionFails, At
  <2>2. [job[w] EXCEPT !.at = "failing"] \in SweepJob
    BY <2>1 DEF SweepJob
  <2>3. job' \in [Worker -> SweepJob]
    BY <1>1, <2>2 DEF NotifierFails, CompletionFails, GoesTo
  <2>4. heard' \in Seq(Alert)
    <3>1. heard \in Seq(Alert) /\ job[w].alert \in Alert
      BY <2>1
    <3>2. heard' = heard \/ heard' = Append(heard, job[w].alert)
      BY <1>1 DEF NotifierFails, CompletionFails, Reaches, historyVars
    <3> QED BY <3>1, <3>2
  <2> QED BY <1>0, <1>1, <2>3, <2>4
         DEF NotifierFails, CompletionFails, historyVars, accountVars
<1>2. CASE Crash(w)
  BY <1>0, <1>2 DEF Crash, Becomes, Idle, SweepJob, historyVars
<1> QED BY <1>1, <1>2

LEMMA LapseTypes ==
    ASSUME MonitorTypeOK, LeaseLapses
    PROVE  MonitorTypeOK'
<1> USE DEF MonitorTypeOK
<1>0. Fault => faults' \in 0..MaxFaults
  BY MonitorsAssumption DEF Fault
<1>1. CASE EvaluationLapses
  <2>1. faults' \in 0..MaxFaults
    BY <1>0, <1>1 DEF EvaluationLapses
  <2>2. row' \in Monitor
    BY <1>1 DEF EvaluationLapses, Monitor
  <2> QED BY <1>1, <2>1, <2>2 DEF EvaluationLapses, historyVars
<1>2. ASSUME NEW a \in Alert, DeliveryLapses(a) PROVE MonitorTypeOK'
  <2>1. faults' \in 0..MaxFaults
    BY <1>0, <1>2 DEF DeliveryLapses
  <2>2. [deliveries[a] EXCEPT !.claim = "lapsed"] \in Delivery
    BY DEF Delivery
  <2>3. deliveries' \in [Alert -> Delivery]
    BY <1>2, <2>2 DEF DeliveryLapses
  <2> QED BY <1>2, <2>1, <2>3 DEF DeliveryLapses, historyVars
<1> QED BY <1>1, <1>2 DEF LeaseLapses

LEMMA CommandsAre ==
    ASSUME NEW m \in Monitor, NEW cs \in Commands(m)
    PROVE  cs \in SUBSET {"rename", "retarget", "reconfigure", "enable", "disable", "delete"}
BY DEF Commands

LEMMA EditsTypes ==
    ASSUME MonitorTypeOK, NEW o \in Operator, Edits(o)
    PROVE  /\ deliveries' \in [Alert -> Delivery] /\ announced' \in BOOLEAN
           /\ repeats' \in Nat /\ staleSaves' \in Nat /\ edit' \in [Operator -> Request]
           /\ edit[o] \in Request /\ edit[o].at = "writing" /\ SavedRow(edit[o]) \in Monitor
<1> USE DEF MonitorTypeOK
<1>1. edit[o] \in Request /\ edit[o].at = "writing"
  BY DEF Edits
<1>2. SavedRow(edit[o]) \in Monitor
  BY <1>1, SavedRowIs
<1>3. deliveries' \in [Alert -> Delivery]
  <2>1. deliveries' = [a \in Alert |->
          IF a \in edit[o].seen /\ Pending(a)
          THEN [deliveries[a] EXCEPT !.status = "canceled", !.claim = "free"]
          ELSE deliveries[a]]
    BY DEF Edits
  <2> SUFFICES ASSUME NEW a \in Alert PROVE deliveries'[a] \in Delivery
    BY <2>1
  <2>2. [deliveries[a] EXCEPT !.status = "canceled", !.claim = "free"] \in Delivery
    BY DEF Delivery
  <2> QED BY <2>1, <2>2
<1>4. announced' \in BOOLEAN
  BY DEF Edits
<1>5. repeats' \in Nat /\ staleSaves' \in Nat
  <2>1. repeats' = repeats /\ (staleSaves' = staleSaves \/ staleSaves' = staleSaves + 1)
    BY DEF Edits
  <2>2. repeats \in Nat /\ staleSaves \in Nat
    OBVIOUS
  <2> QED BY <2>1, <2>2
<1>6. [at |-> "done"] \in Request
  BY DEF Request
<1>7. edit' \in [Operator -> Request]
  BY <1>6 DEF Edits
<1> QED BY <1>1, <1>2, <1>3, <1>4, <1>5, <1>7

LEMMA OperatorTypes ==
    ASSUME MonitorTypeOK, NEW o \in Operator, OperatorStep(o)
    PROVE  MonitorTypeOK'
<1> USE DEF MonitorTypeOK
<1>1. CASE Load(o)
  <2>1. PICK cs \in Commands(row), q \in Question, ch \in SUBSET Channel :
          edit' = [edit EXCEPT ![o] =
                [at |-> "loaded", found |-> View(row), commands |-> cs,
                 saved |-> Edited(row, cs, q, ch), seen |-> {}]]
    BY <1>1 DEF Load
  <2>2. /\ View(row) \in BOOLEAN \X (BOOLEAN \X Question \X SUBSET Channel)
        /\ Edited(row, cs, q, ch) \in Monitor
        /\ cs \in SUBSET {"rename", "retarget", "reconfigure", "enable", "disable", "delete"}
    BY ViewIs, EditedIs, CommandsAre
  <2> DEFINE e == [at |-> "loaded", found |-> View(row), commands |-> cs,
                   saved |-> Edited(row, cs, q, ch), seen |-> {}]
  <2>3. e \in Request
    BY <2>2 DEF Request
  <2> HIDE DEF e
  <2>4. edit' \in [Operator -> Request]
    BY <2>1, <2>3 DEF e
  <2> QED BY <1>1, <2>4 DEF Load, historyVars
<1>2. CASE EditBegins(o)
  <2>1. edit[o] \in [at : {"loaded", "writing"},
                  found : BOOLEAN \X (BOOLEAN \X Question \X SUBSET Channel),
                  saved : Monitor, seen : SUBSET Alert,
                  commands : SUBSET {"rename", "retarget", "reconfigure", "enable",
                                     "disable", "delete"}]
    BY <1>2, RequestIs DEF EditBegins
  <2> DEFINE A == {a \in Alert : Pending(a) /\ Cancels(edit[o], a)}
             e == [edit[o] EXCEPT !.at = "writing", !.seen = A]
  <2>2. A \in SUBSET Alert
    OBVIOUS
  <2>3. edit' = [edit EXCEPT ![o] = e]
    BY <1>2 DEF EditBegins
  <2> HIDE DEF A
  <2>4. e \in Request
    BY <2>1, <2>2 DEF Request
  <2> HIDE DEF e
  <2> QED BY <1>2, <2>3, <2>4 DEF EditBegins, historyVars
<1>3. CASE EditEnds(o)
  BY <1>3, EditsTypes DEF EditEnds
<1>4. CASE Delete(o)
  <2>1. row' \in Monitor
    BY <1>4 DEF Delete, Monitor
  <2>2. [at |-> "done"] \in Request /\ [Unsent EXCEPT !.status = "gone"] \in Delivery
    BY DEF Request, Unsent, Delivery
  <2>3. edit' \in [Operator -> Request]
    BY <1>4, <2>2 DEF Delete
  <2>4. deliveries' \in [Alert -> Delivery]
    BY <1>4, <2>2 DEF Delete
  <2> QED BY <1>4, <2>1, <2>3, <2>4 DEF Delete, historyVars
<1> QED BY <1>1, <1>2, <1>3, <1>4 DEF OperatorStep

LEMMA ClaimDuringEditTypes ==
    ASSUME MonitorTypeOK, NEW w \in Worker, NEW o \in Operator, ClaimDuringEdit(w, o)
    PROVE  MonitorTypeOK'
<1>1. /\ deliveries' \in [Alert -> Delivery] /\ announced' \in BOOLEAN
      /\ repeats' \in Nat /\ staleSaves' \in Nat /\ edit' \in [Operator -> Request]
      /\ SavedRow(edit[o]) \in Monitor
  BY EditsTypes DEF ClaimDuringEdit
<1>2. row' \in Monitor /\ Claimed(row) \in Monitor /\ evaluations' \in 0..MaxEvaluations
  BY <1>1, MissTypes DEF ClaimDuringEdit
<1> DEFINE j == Claims(row, View(SavedRow(edit[o])) = View(row))
<1>3. j \in SweepJob
  <2>1. row \in Monitor
    BY DEF MonitorTypeOK
  <2> QED BY <1>2, <2>1, ClaimsIs
<1>4. job' = [job EXCEPT ![w] = j]
  BY DEF ClaimDuringEdit, Becomes
<1> HIDE DEF j
<1>5. job' \in [Worker -> SweepJob]
  BY <1>3, <1>4 DEF MonitorTypeOK
<1> QED BY <1>1, <1>2, <1>5 DEF ClaimDuringEdit, MonitorTypeOK

LEMMA TypesStep ==
    ASSUME MonitorTypeOK, [MonitorNext]_monitorVars
    PROVE  MonitorTypeOK'
<1>1. ASSUME NEW w \in Worker, EvaluationStep(w) \/ DeliveryStep(w) \/ FaultStep(w)
      PROVE  MonitorTypeOK'
  <2>1. CASE EvaluationStep(w)
    BY <2>1, ClaimTypes, SaveTypes DEF EvaluationStep
  <2>2. CASE FaultStep(w)
    BY <2>2, FaultTypes, SaveTypes DEF FaultStep
  <2> QED BY <1>1, <2>1, <2>2, DeliveryTypes
<1>2. ASSUME NEW w \in Worker, NEW v \in Worker, ClaimDuringSave(w, v)
      PROVE  MonitorTypeOK'
  BY <1>2, ClaimDuringSaveTypes
<1>3. ASSUME NEW w \in Worker, NEW o \in Operator, ClaimDuringEdit(w, o)
      PROVE  MonitorTypeOK'
  BY <1>3, ClaimDuringEditTypes
<1>4. ASSUME NEW o \in Operator, OperatorStep(o)
      PROVE  MonitorTypeOK'
  BY <1>4, OperatorTypes
<1>5. CASE UNCHANGED monitorVars
  BY <1>5 DEF MonitorTypeOK, monitorVars, historyVars
<1> QED BY <1>1, <1>2, <1>3, <1>4, <1>5, LapseTypes DEF MonitorNext

-----------------------------------------------------------------------------
(* The monitor: its evaluations and their history *)

\* A claim makes every other worker's a late one, and its own is as fresh as
\* the row it read.
LEMMA NewClaim ==
    ASSUME MonitorTypeOK, ClaimIsLatest, EvaluationsOK,
           NEW w \in Worker, NEW m \in Monitor, NEW b \in BOOLEAN,
           evaluations < MaxEvaluations, row.exists, row.enabled,
           evaluations' = evaluations + 1, row' = Claimed(m),
           job'[w] = Claims(row, b), b => View(m) = View(row),
           \A u \in Worker : u # w => job'[u] = job[u] \/ job'[u] = Delivering
    PROVE  ClaimIsLatest' /\ EvaluationsOK'
<1>0. row \in Monitor /\ evaluations \in Nat
  BY MonitorsAssumption DEF MonitorTypeOK
<1>1. /\ row'.lastAttempt = evaluations + 1 /\ View(row') = View(m)
      /\ Claimed(row).lastAttempt = evaluations + 1 /\ View(Claimed(row)) = View(row)
      /\ Claimed(row).enabled = row.enabled /\ Claimed(row).exists = row.exists
  BY <1>0, ClaimedIs
<1>2. ClaimIsLatest'
  BY <1>1 DEF ClaimIsLatest
<1>3. ASSUME NEW u \in Worker, Evaluating(u)' PROVE EvaluationOK(u)'
  <2>1. CASE u = w
    <3>1. /\ job'[u].at = "observing" /\ job'[u].copy = Claimed(row) /\ job'[u].fresh = b
      BY <2>1 DEF Claims
    <3>2. (b => View(row') = View(Claimed(row)))
      BY <1>1
    <3>3. job'[u].fresh => View(row') = View(job'[u].copy)
      BY <3>1, <3>2
    <3>4. View(job[u].copy)' = View(job'[u].copy) /\ View(row)' = View(row')
      BY DEF View, SettingsOf
    <3>5. evaluations + 1 \in 1..evaluations' /\ row.enabled = TRUE /\ row.exists = TRUE
      BY <1>0 DEF Monitor
    <3> QED BY <1>1, <3>1, <3>3, <3>4, <3>5 DEF EvaluationOK, At
  <2>2. CASE u # w
    <3>1. job'[u] = job[u]
      BY <1>3, <2>2 DEF Evaluating, Delivering
    <3>2. EvaluationOK(u)
      BY <1>3, <3>1 DEF EvaluationsOK, Evaluating
    <3>3. job[u].copy.lastAttempt \in 1..evaluations
      BY <3>2 DEF EvaluationOK
    <3>4. row'.lastAttempt # job'[u].copy.lastAttempt
      BY <1>0, <1>1, <3>1, <3>3
    <3>5. job'[u].copy.lastAttempt \in 1..evaluations'
      BY <1>0, <3>1, <3>3
    <3> QED BY <3>1, <3>2, <3>4, <3>5 DEF EvaluationOK, At
  <2> QED BY <2>1, <2>2
<1> QED BY <1>2, <1>3 DEF EvaluationsOK

\* What a sweep does apart from claiming: it keeps what it claimed, and what it
\* decides fits the monitor it read.
LEMMA NoNewClaim ==
    ASSUME MonitorTypeOK, ClaimIsLatest, EvaluationsOK, evaluations' = evaluations,
           row'.claim # "free" => /\ row.claim # "free"
                                  /\ row'.lastAttempt = row.lastAttempt
                                  /\ View(row') = View(row),
           \A u \in Worker : Evaluating(u)' =>
               /\ Evaluating(u)
               /\ job'[u].copy = job[u].copy /\ job'[u].fresh = job[u].fresh
               /\ job'[u].at = "writing" =>
                      /\ job'[u].decision = "fire" => ~job[u].copy.breaching
                      /\ job'[u].decision \in {"repeat", "recover"} => job[u].copy.breaching
    PROVE  ClaimIsLatest' /\ EvaluationsOK'
<1>1. ClaimIsLatest'
  BY DEF ClaimIsLatest
<1>2. ASSUME NEW u \in Worker, Evaluating(u)' PROVE EvaluationOK(u)'
  <2>1. EvaluationOK(u) /\ job'[u].copy = job[u].copy /\ job'[u].fresh = job[u].fresh
    BY <1>2 DEF EvaluationsOK
  <2>2. View(job[u].copy)' = View(job[u].copy) /\ View(row)' = View(row')
    BY <2>1 DEF View, SettingsOf
  <2>3. job'[u].fresh /\ row'.claim # "free" /\ row'.lastAttempt = job'[u].copy.lastAttempt =>
            View(row') = View(job[u].copy)
    BY <2>1 DEF EvaluationOK
  <2> QED BY <1>2, <2>1, <2>2, <2>3 DEF EvaluationOK, At
<1> QED BY <1>1, <1>2 DEF EvaluationsOK

\* The worker in its turn leaves its evaluation, or keeps it as it was.
LEMMA SweepAside ==
    ASSUME MonitorTypeOK, ClaimIsLatest, EvaluationsOK, NEW w \in Worker,
           evaluations' = evaluations,
           row' = row \/ row'.claim = "free",
           \A u \in Worker : u = w \/ job'[u] = job[u],
           \/ ~Evaluating(w)'
           \/ job'[w] = job[w]
           \/ /\ Evaluating(w)
              /\ job'[w].copy = job[w].copy /\ job'[w].fresh = job[w].fresh
              /\ job'[w].decision = "silent"
    PROVE  ClaimIsLatest' /\ EvaluationsOK'
<1>1. ASSUME NEW u \in Worker, Evaluating(u)'
      PROVE  /\ Evaluating(u)
             /\ job'[u].copy = job[u].copy /\ job'[u].fresh = job[u].fresh
             /\ job'[u].at = "writing" =>
                      /\ job'[u].decision = "fire" => ~job[u].copy.breaching
                      /\ job'[u].decision \in {"repeat", "recover"} => job[u].copy.breaching
  <2>1. CASE job'[u] = job[u]
    <3>1. Evaluating(u)
      BY <1>1, <2>1 DEF Evaluating
    <3>2. EvaluationOK(u)
      BY <3>1 DEF EvaluationsOK
    <3> QED BY <2>1, <3>1, <3>2 DEF EvaluationOK, At
  <2>2. CASE job'[u] # job[u]
    BY <1>1, <2>2
  <2> QED BY <2>1, <2>2
<1>2. row'.claim # "free" => /\ row.claim # "free"
                             /\ row'.lastAttempt = row.lastAttempt
                             /\ View(row') = View(row)
  OBVIOUS
<1> QED BY <1>1, <1>2, NoNewClaim

\* A save the fence lets through records what it announces.
LEMMA RecordedHistory ==
    ASSUME MonitorTypeOK, EvaluationInv, NEW w \in Worker, At(w, "writing"),
           Announced(job[w]), FenceHolds(job[w])
    PROVE  Accounted(Applied(job[w]).breaching, announced', repeats', staleSaves')
<1> DEFINE j == job[w]
           d == j.decision
<1>1. j \in SweepJob /\ j.at = "writing" /\ row \in Monitor
  BY DEF At, MonitorTypeOK
<1>2. /\ d \in {"fire", "repeat"} => Applied(j).breaching = TRUE
      /\ d = "recover" => Applied(j).breaching = FALSE
      /\ d = "silent" => Applied(j).breaching = j.copy.breaching
  BY <1>1, AppliedIs
<1>3. d \in {"fire", "repeat", "recover", "silent"} /\ j.copy \in Monitor
  BY <1>1, EvaluatingIs
<1>4. announced' = CASE d \in {"fire", "repeat"} -> TRUE
                     [] d = "recover" -> FALSE
                     [] OTHER -> announced
  BY DEF Announced
<1>5. /\ repeats' = IF Again(j) THEN repeats + 1 ELSE repeats
      /\ staleSaves' = IF row.exists /\ j.fresh THEN staleSaves ELSE staleSaves + 1
  BY DEF Announced
<1>6. /\ repeats \in Nat /\ staleSaves \in Nat /\ repeats <= staleSaves
      /\ announced # row.breaching => repeats < staleSaves
  BY DEF MonitorTypeOK, EvaluationInv, HistoryOK, Accounted
<1>7. ASSUME row.exists, j.fresh
      PROVE  /\ row.breaching = j.copy.breaching
             /\ d = "fire" => ~row.breaching
             /\ d \in {"repeat", "recover"} => row.breaching
  <2>1. EvaluationOK(w)
    BY <1>1 DEF EvaluationInv, EvaluationsOK, Evaluating
  <2>2. View(row) = View(j.copy)
    BY <1>7, <2>1 DEF FenceHolds, EvaluationOK
  <2>3. row.breaching = j.copy.breaching
    BY <1>1, <1>3, <2>2, ViewIs
  <2> QED BY <2>1, <2>3 DEF EvaluationOK
<1>8. announced \in BOOLEAN /\ row.breaching \in BOOLEAN
  BY <1>1 DEF MonitorTypeOK, Monitor
<1>9. repeats' <= staleSaves'
  <2>1. CASE row.exists /\ j.fresh /\ Again(j)
    <3>1. announced # row.breaching
      BY <1>7, <1>8, <2>1 DEF Again
    <3> QED BY <1>5, <1>6, <3>1
  <2>2. CASE ~(row.exists /\ j.fresh /\ Again(j))
    BY <1>5, <1>6, <2>2
  <2> QED BY <2>1, <2>2
<1>10. announced' # Applied(j).breaching => repeats' < staleSaves'
  <2>1. CASE d \in {"fire", "repeat"}
    BY <1>2, <1>4, <2>1
  <2>2. CASE d = "recover"
    BY <1>2, <1>4, <2>2
  <2>3. CASE d = "silent"
    <3>1. announced' = announced /\ Applied(j).breaching = j.copy.breaching
      BY <1>2, <1>4, <2>3
    <3>2. repeats' = repeats
      BY <1>5, <2>3 DEF Again
    <3>3. CASE row.exists /\ j.fresh
      BY <1>5, <1>6, <1>7, <3>1, <3>2, <3>3
    <3>4. CASE ~(row.exists /\ j.fresh)
      BY <1>5, <1>6, <3>2, <3>4
    <3> QED BY <3>3, <3>4
  <2> QED BY <1>3, <2>1, <2>2, <2>3
<1> QED BY <1>9, <1>10 DEF Accounted

\* An edit that finds the monitor as it read it resets exactly what it saves reset;
\* any other is a stale save.
LEMMA EditsHistory ==
    ASSUME MonitorTypeOK, EvaluationInv, NEW o \in Operator, Edits(o)
    PROVE  /\ Accounted(SavedRow(edit[o]).breaching, announced', repeats', staleSaves')
           /\ SavedRow(edit[o]).exists
           /\ EditsOK'
<1> DEFINE e == edit[o]
<1>1. e \in Request /\ e.at = "writing" /\ row \in Monitor
  BY DEF Edits, MonitorTypeOK
<1>2. SavedRow(e).breaching = e.saved.breaching /\ SavedRow(e).exists = e.saved.exists
  BY <1>1, SavedRowIs
<1>3. e.saved.exists /\ e.saved.breaching = (e.found[1] /\ ~Resets(e))
  BY <1>1 DEF EvaluationInv, EditsOK
<1>4. Accounted(e.saved.breaching, announced', repeats', staleSaves')
  <2>1. /\ repeats' = repeats
        /\ staleSaves' = IF row.exists /\ View(row) = e.found
                         THEN staleSaves ELSE staleSaves + 1
    BY DEF Edits
  <2>2. /\ repeats \in Nat /\ staleSaves \in Nat /\ repeats <= staleSaves
        /\ announced # row.breaching => repeats < staleSaves
    BY DEF MonitorTypeOK, EvaluationInv, HistoryOK, Accounted
  <2>3. CASE row.exists /\ View(row) = e.found
    <3>1. e.found[1] = row.breaching
      BY <1>1, <2>3, ViewIs
    <3>2. announced' = (announced /\ ~Resets(e))
      BY DEF Edits, Resets
    <3>3. announced' # e.saved.breaching => announced # row.breaching
      BY <1>3, <3>1, <3>2
    <3> QED BY <2>1, <2>2, <2>3, <3>3 DEF Accounted
  <2>4. CASE ~(row.exists /\ View(row) = e.found)
    BY <2>1, <2>2, <2>4 DEF Accounted
  <2> QED BY <2>3, <2>4
<1>5. EditsOK'
  <2>1. edit' = [edit EXCEPT ![o] = [at |-> "done"]]
    BY DEF Edits
  <2>2. EditsOK /\ edit \in [Operator -> Request]
    BY DEF EvaluationInv, MonitorTypeOK
  <2> QED BY <2>1, <2>2 DEF EditsOK, Resets
<1> QED BY <1>2, <1>3, <1>4, <1>5

LEMMA EvaluationKeeps ==
    ASSUME MonitorTypeOK, EvaluationInv, NEW w \in Worker,
           EvaluationStep(w) \/ SaveFails(w)
    PROVE  EvaluationInv'
<1>0. /\ ClaimIsLatest /\ EvaluationsOK /\ HistoryOK /\ EditsOK
      /\ row \in Monitor /\ job \in [Worker -> SweepJob]
  BY DEF EvaluationInv, MonitorTypeOK
<1>1. EditsOK'
  <2>1. edit' = edit
    BY DEF EvaluationStep, ClaimEvaluation, NothingToEvaluate, Observe, SaveEnds, SaveFails
  <2> QED BY <1>0, <2>1 DEF EditsOK, Resets
<1>2. CASE ClaimEvaluation(w)
  <2>1. evaluations < MaxEvaluations /\ row.exists /\ row.enabled
    BY <1>2 DEF ClaimEvaluation, EvaluationDue
  <2>2. /\ evaluations' = evaluations + 1 /\ row' = Claimed(row)
        /\ job'[w] = Claims(row, TRUE) /\ \A u \in Worker : u # w => job'[u] = job[u]
    BY <1>0, <1>2 DEF ClaimEvaluation, Becomes
  <2>3. ClaimIsLatest' /\ EvaluationsOK'
    BY <1>0, <2>1, <2>2, NewClaim
  <2>4. row'.breaching = row.breaching
    BY <1>0, <2>1, <2>2, ClaimedIs
  <2>5. HistoryOK'
    BY <1>0, <1>2, <2>4 DEF HistoryOK, ClaimEvaluation, historyVars
  <2> QED BY <1>1, <2>3, <2>5 DEF EvaluationInv
<1>3. CASE NothingToEvaluate(w)
  <2>1. /\ evaluations' = evaluations /\ row' = row /\ job'[w] = Delivering
        /\ \A u \in Worker : u = w \/ job'[u] = job[u]
    BY <1>0, <1>3 DEF NothingToEvaluate, Becomes
  <2>2. ~Evaluating(w)'
    BY <2>1 DEF Evaluating, Delivering
  <2>3. ClaimIsLatest' /\ EvaluationsOK'
    BY <1>0, <2>1, <2>2, SweepAside
  <2>4. HistoryOK'
    BY <1>0, <1>3 DEF HistoryOK, NothingToEvaluate, historyVars
  <2> QED BY <1>1, <2>3, <2>4 DEF EvaluationInv
<1>4. CASE Observe(w)
  <2>1. PICK d \in Decisions(job[w].copy) :
            job' = [job EXCEPT ![w].at = "writing", ![w].decision = d, ![w].saw = row.exists]
    BY <1>4 DEF Observe
  <2>2. job[w] \in [at : {"observing", "writing"}, copy : Monitor, saw : BOOLEAN,
                    fresh : BOOLEAN, decision : {"fire", "repeat", "recover", "silent"}]
    BY <1>0, <1>4, EvaluatingIs DEF Observe, At
  <2>3. /\ job'[w].copy = job[w].copy /\ job'[w].fresh = job[w].fresh /\ job'[w].decision = d
        /\ \A u \in Worker : u = w \/ job'[u] = job[u]
    BY <1>0, <2>1, <2>2
  <2>4. /\ d = "fire" => ~job[w].copy.breaching
        /\ d \in {"repeat", "recover"} => job[w].copy.breaching
    BY DEF Decisions
  <2>5. Evaluating(w)
    BY <1>4 DEF Observe, At, Evaluating
  <2>6. ASSUME NEW u \in Worker, Evaluating(u)'
        PROVE  /\ Evaluating(u)
               /\ job'[u].copy = job[u].copy /\ job'[u].fresh = job[u].fresh
               /\ job'[u].at = "writing" =>
                      /\ job'[u].decision = "fire" => ~job[u].copy.breaching
                      /\ job'[u].decision \in {"repeat", "recover"} => job[u].copy.breaching
    <3>1. CASE u = w
      BY <2>3, <2>4, <2>5, <3>1
    <3>2. CASE u # w
      <4>1. job'[u] = job[u]
        BY <2>3, <3>2
      <4>2. Evaluating(u)
        BY <2>6, <4>1 DEF Evaluating
      <4>3. EvaluationOK(u)
        BY <1>0, <4>2 DEF EvaluationsOK
      <4> QED BY <4>1, <4>2, <4>3 DEF EvaluationOK, At
    <3> QED BY <3>1, <3>2
  <2>7. evaluations' = evaluations /\ row' = row
    BY <1>4 DEF Observe
  <2>8. ClaimIsLatest' /\ EvaluationsOK'
    BY <1>0, <2>6, <2>7, NoNewClaim
  <2>9. HistoryOK'
    BY <1>0, <1>4 DEF HistoryOK, Observe, historyVars
  <2> QED BY <1>1, <2>8, <2>9 DEF EvaluationInv
<1>5. ASSUME Recorded(job[w]), At(w, "writing")
      PROVE  (row' = row \/ row'.claim = "free") /\ HistoryOK'
  <2>1. job[w] \in SweepJob /\ job[w].at = "writing"
    BY <1>0, <1>5 DEF At
  <2>2. Applied(job[w]).claim = "free"
    BY <2>1, AppliedIs
  <2>3. CASE FenceHolds(job[w])
    <3>1. row' = Applied(job[w])
      BY <1>5, <2>3 DEF Recorded
    <3>2. Accounted(Applied(job[w]).breaching, announced', repeats', staleSaves')
      BY <1>5, <2>3, RecordedHistory DEF Recorded
    <3> QED BY <2>2, <3>1, <3>2 DEF HistoryOK
  <2>4. CASE ~FenceHolds(job[w])
    BY <1>0, <1>5, <2>4 DEF Recorded, Announced, HistoryOK, accountVars
  <2> QED BY <2>3, <2>4
<1>6. CASE SaveEnds(w)
  <2>1. (row' = row \/ row'.claim = "free") /\ HistoryOK'
    BY <1>5, <1>6 DEF SaveEnds
  <2>2. /\ evaluations' = evaluations /\ job'[w] = Delivering
        /\ \A u \in Worker : u = w \/ job'[u] = job[u]
    BY <1>0, <1>6 DEF SaveEnds, Becomes
  <2>3. ~Evaluating(w)'
    BY <2>2 DEF Evaluating, Delivering
  <2>4. ClaimIsLatest' /\ EvaluationsOK'
    BY <1>0, <2>1, <2>2, <2>3, SweepAside
  <2> QED BY <1>1, <2>1, <2>4 DEF EvaluationInv
<1>7. CASE SaveFails(w)
  <2>1. (row' = row \/ row'.claim = "free") /\ HistoryOK'
    <3>1. CASE Recorded(job[w])
      BY <1>5, <1>7, <3>1 DEF SaveFails
    <3>2. CASE UNCHANGED <<row, deliveries, accountVars>>
      BY <1>0, <3>2 DEF HistoryOK, accountVars
    <3> QED BY <1>7, <3>1, <3>2 DEF SaveFails
  <2>2. job[w] \in [at : {"observing", "writing"}, copy : Monitor, saw : BOOLEAN,
                    fresh : BOOLEAN, decision : {"fire", "repeat", "recover", "silent"}]
    BY <1>0, <1>7, EvaluatingIs DEF SaveFails, At
  <2>3. \/ job' = [job EXCEPT ![w].decision = "silent", ![w].saw = row'.exists]
        \/ job' = [job EXCEPT ![w] = Delivering]
    BY <1>7 DEF SaveFails, Becomes
  <2>4. \A u \in Worker : u = w \/ job'[u] = job[u]
    BY <1>0, <2>3
  <2>5. \/ ~Evaluating(w)'
        \/ /\ Evaluating(w)
           /\ job'[w].copy = job[w].copy /\ job'[w].fresh = job[w].fresh
           /\ job'[w].decision = "silent"
    <3>1. CASE job' = [job EXCEPT ![w] = Delivering]
      BY <1>0, <3>1 DEF Evaluating, Delivering
    <3>2. CASE job' = [job EXCEPT ![w].decision = "silent", ![w].saw = row'.exists]
      BY <1>0, <2>2, <3>2 DEF Evaluating
    <3> QED BY <2>3, <3>1, <3>2
  <2>6. evaluations' = evaluations
    BY <1>7 DEF SaveFails
  <2>7. ClaimIsLatest' /\ EvaluationsOK'
    BY <1>0, <2>1, <2>4, <2>5, <2>6, SweepAside
  <2> QED BY <1>1, <2>1, <2>7 DEF EvaluationInv
<1> QED BY <1>2, <1>3, <1>4, <1>6, <1>7 DEF EvaluationStep

LEMMA DeliveryLeavesEvaluations ==
    ASSUME MonitorTypeOK, EvaluationInv, NEW w \in Worker,
           DeliveryStep(w) \/ NotifierFails(w) \/ CompletionFails(w) \/ Crash(w)
    PROVE  EvaluationInv'
<1>0. /\ ClaimIsLatest /\ EvaluationsOK /\ HistoryOK /\ EditsOK
      /\ job \in [Worker -> SweepJob]
  BY DEF EvaluationInv, MonitorTypeOK
<1>1. /\ UNCHANGED <<row, evaluations, edit, accountVars>>
  BY DEF DeliveryStep, ClaimDelivery, NothingToDeliver, NotifierAccepts, CompleteDelivery,
         FailDelivery, NotifierFails, CompletionFails, Crash, historyVars, accountVars
<1>2. (\A u \in Worker : u = w \/ job'[u] = job[u]) /\ ~Evaluating(w)'
  <2>0. CASE NothingToDeliver(w) \/ Crash(w)
    <3>1. job' = [job EXCEPT ![w] = Idle]
      BY <2>0 DEF NothingToDeliver, Crash, Becomes
    <3> QED BY <1>0, <3>1 DEF Evaluating, Idle
  <2>1. CASE ClaimDelivery(w)
    <3>1. PICK a \in Alert :
              job' = [job EXCEPT ![w] = [at |-> "sending", alert |-> a,
                                         attempt |-> deliveries[a].attempts + 1]]
      BY <2>1 DEF ClaimDelivery, Becomes
    <3> QED BY <1>0, <3>1 DEF Evaluating
  <2>2. CASE NotifierAccepts(w) \/ NotifierFails(w) \/ CompletionFails(w)
    <3>1. PICK s \in {"completing", "failing"} : job' = [job EXCEPT ![w].at = s]
      BY <2>2 DEF NotifierAccepts, NotifierFails, CompletionFails, GoesTo
    <3>2. job[w] \in [at : {"sending", "completing", "failing"}, alert : Alert, attempt : Nat]
      BY <1>0, <2>2, SendingIs DEF NotifierAccepts, NotifierFails, CompletionFails, At
    <3>3. job'[w].at = s /\ \A u \in Worker : u = w \/ job'[u] = job[u]
      BY <1>0, <3>1, <3>2
    <3> QED BY <3>3 DEF Evaluating
  <2>3. CASE CompleteDelivery(w) \/ FailDelivery(w)
    <3>1. job' = [job EXCEPT ![w] = Delivering] \/ job' = [job EXCEPT ![w] = Idle]
      BY <2>3 DEF CompleteDelivery, FailDelivery, Settled, Becomes
    <3> QED BY <1>0, <3>1 DEF Evaluating, Delivering, Idle
  <2> QED BY <2>0, <2>1, <2>2, <2>3 DEF DeliveryStep
<1>3. ClaimIsLatest' /\ EvaluationsOK'
  BY <1>0, <1>1, <1>2, SweepAside
<1>4. HistoryOK' /\ EditsOK'
  BY <1>0, <1>1 DEF HistoryOK, EditsOK, Resets, accountVars
<1> QED BY <1>3, <1>4 DEF EvaluationInv

LEMMA ClaimDuringSaveKeeps ==
    ASSUME MonitorTypeOK, EvaluationInv, NEW w \in Worker, NEW v \in Worker,
           ClaimDuringSave(w, v)
    PROVE  EvaluationInv'
<1>0. /\ ClaimIsLatest /\ EvaluationsOK /\ HistoryOK /\ EditsOK
      /\ job \in [Worker -> SweepJob] /\ row \in Monitor
  BY DEF EvaluationInv, MonitorTypeOK
<1> DEFINE m == Applied(job[v])
<1>1. job[v] \in SweepJob /\ job[v].at = "writing"
  BY <1>0 DEF ClaimDuringSave, At
<1>2. m \in Monitor
  BY <1>1, AppliedIs
<1>3. Accounted(m.breaching, announced', repeats', staleSaves')
  BY <1>1, RecordedHistory DEF ClaimDuringSave, At
<1>4. /\ job' = [job EXCEPT ![v] = Delivering, ![w] = Claims(row, View(m) = View(row))]
      /\ ClaimMisses(w, m) /\ edit' = edit
  BY DEF ClaimDuringSave
<1> HIDE DEF m
<1>5. /\ row' = Claimed(m) /\ evaluations' = evaluations + 1
      /\ row.exists /\ row.enabled /\ evaluations < MaxEvaluations
  BY <1>2, <1>4, MissTypes
<1> DEFINE b == View(m) = View(row)
<1>6. /\ job'[w] = Claims(row, b)
      /\ \A u \in Worker : u # w => job'[u] = job[u] \/ job'[u] = Delivering
  BY <1>0, <1>4
<1>7. b \in BOOLEAN /\ (b => View(m) = View(row))
  OBVIOUS
<1> HIDE DEF b
<1>8. ClaimIsLatest' /\ EvaluationsOK'
  BY <1>0, <1>2, <1>5, <1>6, <1>7, NewClaim
<1>9. HistoryOK' /\ EditsOK'
  <2>1. row'.breaching = m.breaching
    BY <1>2, <1>5, ClaimedIs
  <2> QED BY <1>0, <1>3, <1>4, <2>1 DEF HistoryOK, EditsOK, Resets
<1> QED BY <1>8, <1>9 DEF EvaluationInv

LEMMA ClaimDuringEditKeeps ==
    ASSUME MonitorTypeOK, EvaluationInv, NEW w \in Worker, NEW o \in Operator,
           ClaimDuringEdit(w, o)
    PROVE  EvaluationInv'
<1>0. /\ ClaimIsLatest /\ EvaluationsOK
      /\ job \in [Worker -> SweepJob] /\ row \in Monitor
  BY DEF EvaluationInv, MonitorTypeOK
<1> DEFINE m == SavedRow(edit[o])
<1>1. m \in Monitor
  BY EditsTypes DEF ClaimDuringEdit
<1>2. Accounted(m.breaching, announced', repeats', staleSaves') /\ EditsOK'
  BY EditsHistory DEF ClaimDuringEdit
<1>3. /\ job' = [job EXCEPT ![w] = Claims(row, View(m) = View(row))]
      /\ ClaimMisses(w, m)
  BY DEF ClaimDuringEdit, Becomes
<1> HIDE DEF m
<1>4. /\ row' = Claimed(m) /\ evaluations' = evaluations + 1
      /\ row.exists /\ row.enabled /\ evaluations < MaxEvaluations
  BY <1>1, <1>3, MissTypes
<1> DEFINE b == View(m) = View(row)
<1>5. /\ job'[w] = Claims(row, b)
      /\ \A u \in Worker : u # w => job'[u] = job[u] \/ job'[u] = Delivering
  BY <1>0, <1>3
<1>6. b \in BOOLEAN /\ (b => View(m) = View(row))
  OBVIOUS
<1> HIDE DEF b
<1>7. ClaimIsLatest' /\ EvaluationsOK'
  BY <1>0, <1>1, <1>4, <1>5, <1>6, NewClaim
<1>8. HistoryOK'
  <2>1. row'.breaching = m.breaching
    BY <1>1, <1>4, ClaimedIs
  <2> QED BY <1>2, <2>1 DEF HistoryOK
<1> QED BY <1>2, <1>7, <1>8 DEF EvaluationInv

LEMMA OperatorLeavesEvaluations ==
    ASSUME MonitorTypeOK, EvaluationInv,
           LeaseLapses \/ \E o \in Operator : OperatorStep(o)
    PROVE  EvaluationInv'
<1>0. /\ ClaimIsLatest /\ EvaluationsOK /\ HistoryOK /\ EditsOK
      /\ row \in Monitor /\ edit \in [Operator -> Request]
  BY DEF EvaluationInv, MonitorTypeOK
<1>1. evaluations' = evaluations /\ job' = job
  BY DEF LeaseLapses, EvaluationLapses, DeliveryLapses, OperatorStep, Load, EditBegins,
         EditEnds, Delete
<1>2. ASSUME NEW u \in Worker, Evaluating(u)'
      PROVE  /\ Evaluating(u)
             /\ job'[u].copy = job[u].copy /\ job'[u].fresh = job[u].fresh
             /\ job'[u].at = "writing" =>
                      /\ job'[u].decision = "fire" => ~job[u].copy.breaching
                      /\ job'[u].decision \in {"repeat", "recover"} => job[u].copy.breaching
  <2>1. Evaluating(u)
    BY <1>1, <1>2 DEF Evaluating
  <2>2. EvaluationOK(u)
    BY <1>0, <2>1 DEF EvaluationsOK
  <2> QED BY <1>1, <2>1, <2>2 DEF EvaluationOK, At
<1>3. SUFFICES /\ row'.claim # "free" => /\ row.claim # "free"
                                         /\ row'.lastAttempt = row.lastAttempt
                                         /\ View(row') = View(row)
               /\ HistoryOK' /\ EditsOK'
  BY <1>0, <1>1, <1>2, NoNewClaim DEF EvaluationInv
<1>4. CASE LeaseLapses
  <2>1. UNCHANGED <<edit, accountVars>>
    BY <1>4 DEF LeaseLapses, EvaluationLapses, DeliveryLapses, historyVars, accountVars
  <2>2. row' = row \/ (row' = [row EXCEPT !.claim = "lapsed"] /\ row.claim = "held")
    BY <1>4 DEF LeaseLapses, EvaluationLapses, DeliveryLapses
  <2>3. /\ row'.claim # "free" => row.claim # "free"
        /\ row'.lastAttempt = row.lastAttempt /\ row'.breaching = row.breaching
        /\ View(row') = View(row)
    BY <1>0, <2>2 DEF View, SettingsOf, Monitor
  <2> QED BY <1>0, <2>1, <2>3 DEF HistoryOK, EditsOK, Resets, accountVars
<1>5. ASSUME NEW o \in Operator, Load(o)
      PROVE  row' = row /\ HistoryOK' /\ EditsOK'
  <2>1. PICK cs \in Commands(row), q \in Question, ch \in SUBSET Channel :
          edit' = [edit EXCEPT ![o] =
                [at |-> "loaded", found |-> View(row), commands |-> cs,
                 saved |-> Edited(row, cs, q, ch), seen |-> {}]]
    BY <1>5 DEF Load
  <2>2. /\ Edited(row, cs, q, ch).exists = row.exists
        /\ Edited(row, cs, q, ch).breaching =
              (row.breaching /\ cs \cap {"retarget", "disable"} = {})
        /\ View(row)[1] = row.breaching
    BY <1>0, EditedIs, ViewIs
  <2>3. /\ edit'[o].found[1] = row.breaching /\ edit'[o].commands = cs
        /\ edit'[o].saved.exists = row.exists
        /\ edit'[o].saved.breaching =
              (row.breaching /\ cs \cap {"retarget", "disable"} = {})
        /\ \A x \in Operator : x # o => edit'[x] = edit[x]
    BY <1>0, <2>1, <2>2
  <2>4. EditsOK'
    BY <1>0, <1>5, <2>3 DEF EditsOK, Resets, Load
  <2> QED BY <1>0, <1>5, <2>4 DEF Load, HistoryOK, historyVars
<1>6. ASSUME NEW o \in Operator, EditBegins(o)
      PROVE  row' = row /\ HistoryOK' /\ EditsOK'
  <2>1. /\ edit[o].at = "loaded"
        /\ edit[o] \in [at : {"loaded", "writing"},
                  found : BOOLEAN \X (BOOLEAN \X Question \X SUBSET Channel),
                  saved : Monitor, seen : SUBSET Alert,
                  commands : SUBSET {"rename", "retarget", "reconfigure", "enable",
                                     "disable", "delete"}]
    BY <1>0, <1>6, RequestIs DEF EditBegins
  <2>2. edit' = [edit EXCEPT ![o].at = "writing",
                             ![o].seen = {a \in Alert : Pending(a) /\ Cancels(edit[o], a)}]
    BY <1>6 DEF EditBegins
  <2>3. /\ edit'[o].found = edit[o].found /\ edit'[o].commands = edit[o].commands
        /\ edit'[o].saved = edit[o].saved
        /\ \A x \in Operator : x # o => edit'[x] = edit[x]
    BY <1>0, <2>1, <2>2
  <2>4. EditsOK'
    BY <1>0, <2>1, <2>3 DEF EditsOK, Resets
  <2> QED BY <1>0, <1>6, <2>4 DEF EditBegins, HistoryOK, historyVars
<1>7. ASSUME NEW o \in Operator, EditEnds(o)
      PROVE  row'.claim = "free" /\ HistoryOK' /\ EditsOK'
  <2>1. SavedRow(edit[o]).claim = "free"
    <3>1. edit[o] \in Request /\ edit[o].at = "writing"
      BY <1>7, EditsTypes DEF EditEnds
    <3> QED BY <3>1, SavedRowIs
  <2>2. Accounted(SavedRow(edit[o]).breaching, announced', repeats', staleSaves') /\ EditsOK'
    BY <1>7, EditsHistory DEF EditEnds
  <2> QED BY <1>7, <2>1, <2>2 DEF EditEnds, HistoryOK
<1>8. ASSUME NEW o \in Operator, Delete(o)
      PROVE  /\ row'.claim = row.claim /\ row'.lastAttempt = row.lastAttempt
             /\ View(row') = View(row) /\ HistoryOK' /\ EditsOK'
  <2>1. row' = [row EXCEPT !.exists = FALSE] /\ edit' = [edit EXCEPT ![o] = [at |-> "done"]]
        /\ UNCHANGED accountVars
    BY <1>8 DEF Delete, historyVars, accountVars
  <2>2. /\ row'.claim = row.claim /\ row'.lastAttempt = row.lastAttempt
        /\ View(row') = View(row) /\ row'.breaching = row.breaching
    BY <1>0, <2>1 DEF View, SettingsOf, Monitor
  <2>3. EditsOK'
    BY <1>0, <2>1 DEF EditsOK, Resets
  <2> QED BY <1>0, <2>1, <2>2, <2>3 DEF HistoryOK, accountVars
<1>9. CASE \E o \in Operator : OperatorStep(o)
  BY <1>5, <1>6, <1>7, <1>8, <1>9 DEF OperatorStep
<1> QED BY <1>4, <1>9

-----------------------------------------------------------------------------
(* The monitor: its alerts and the order they are heard in *)

AlertInv == AlertsOK /\ SentOK /\ HeardInOrder

\* What a step may make of an alert: a new one is of the latest evaluation,
\* unless the monitor is gone; one that ends stays as it ended, or goes.
Moves(a) ==
    \/ deliveries'[a].status = deliveries[a].status
    \/ /\ deliveries[a].status = "none" /\ deliveries'[a].status = "pending"
       /\ a[1] <= evaluations /\ (row.exists => a[1] = evaluations)
    \/ /\ deliveries[a].status = "pending"
       /\ deliveries'[a].status = "canceled" \/ (deliveries'[a].status = "delivered" /\ a \in Told)
    \/ deliveries[a].status # "none" /\ deliveries'[a].status = "gone"

LEMMA ToldAre ==
    ASSUME MonitorTypeOK
    PROVE  Told \subseteq Alert /\ Sent \subseteq Alert
<1>1. Told \subseteq Alert
  BY DEF MonitorTypeOK, Told
<1>2. \A w \in Worker : Sending(w) => job[w].alert \in Alert
  BY SendingIs DEF MonitorTypeOK, Sending
<1> QED BY <1>1, <1>2 DEF Sent

\* A step in which nobody hears anything.
LEMMA SilentStep ==
    ASSUME MonitorTypeOK, MonitorTypeOK', AlertInv,
           heard' = heard, evaluations <= evaluations', \A a \in Alert : Moves(a),
           ~row'.exists => \A a \in Alert : deliveries'[a].status \in {"none", "gone"},
           \A w \in Worker : Sending(w)' =>
               \/ Sending(w) /\ job'[w].alert = job[w].alert
               \/ /\ Claimable(job'[w].alert)
                  /\ \A a \in Alert : deliveries'[a].status = deliveries[a].status,
           \A w \in Worker : At(w, "completing")' => job'[w].alert \in Told
    PROVE  AlertInv'
<1>0. /\ evaluations \in Int /\ evaluations' \in Int
      /\ \A a \in Alert : a[1] \in Int
  BY MonitorsAssumption DEF MonitorTypeOK, Alert
<1>1. Told' = Told /\ Told \subseteq Alert /\ Sent \subseteq Alert /\ Sent' \subseteq Alert
  <2>1. Told' = Told /\ Told \subseteq Alert /\ Sent \subseteq Alert
    BY ToldAre DEF Told
  <2>2. \A w \in Worker : Sending(w)' => job'[w].alert \in Alert
    BY SendingIs DEF MonitorTypeOK, Sending
  <2> QED BY <2>1, <2>2 DEF Sent
<1>2. AlertsOK'
  <2>1. ASSUME NEW a \in Alert
        PROVE  /\ deliveries'[a].status # "none" => a[1] <= evaluations'
               /\ deliveries'[a].status = "delivered" => a \in Told
    <3>1. Moves(a) /\ (deliveries[a].status # "none" => a[1] <= evaluations)
          /\ (deliveries[a].status = "delivered" => a \in Told)
      BY DEF AlertInv, AlertsOK
    <3>2. deliveries'[a].status # "none" => a[1] <= evaluations
      BY <3>1 DEF Moves
    <3> QED BY <1>0, <3>1, <3>2 DEF Moves
  <2> QED BY <1>1, <2>1 DEF AlertsOK, At
<1>3. ASSUME NEW a \in Sent'
      PROVE  \/ a \in Sent
             \/ Claimable(a) /\ \A b \in Alert : deliveries'[b].status = deliveries[b].status
  <2>1. CASE a \in Told'
    BY <1>1, <2>1 DEF Sent
  <2>2. CASE a \notin Told'
    <3>1. PICK w \in Worker : Sending(w)' /\ a = job'[w].alert
      BY <2>2 DEF Sent, Sending
    <3> QED BY <3>1 DEF Sent
  <2> QED BY <2>1, <2>2
<1>4. SentOK'
  <2> SUFFICES ASSUME NEW a \in Sent'
               PROVE  /\ deliveries'[a].status # "none"
                      /\ \A b \in Alert : Earlier(b, a) /\ Pending(b)' =>
                            deliveries'[a].status = "gone"
    BY DEF SentOK, Earlier
  <2>0. a \in Alert
    BY <1>1
  <2>1. CASE Claimable(a) /\ \A b \in Alert : deliveries'[b].status = deliveries[b].status
    BY <2>0, <2>1 DEF Claimable, Pending
  <2>2. CASE a \in Sent
    <3>1. /\ deliveries[a].status # "none" /\ a[1] <= evaluations
          /\ \A b \in Alert : Earlier(b, a) /\ Pending(b) => deliveries[a].status = "gone"
          /\ ~row.exists => deliveries[a].status = "gone"
      BY <2>0, <2>2 DEF AlertInv, SentOK, AlertsOK
    <3>2. deliveries'[a].status # "none"
      BY <2>0, <3>1 DEF Moves
    <3>3. ASSUME NEW b \in Alert, Earlier(b, a), Pending(b)'
          PROVE  deliveries'[a].status = "gone"
      <4>1. Moves(a) /\ Moves(b) /\ deliveries'[b].status = "pending"
        BY <2>0, <3>3 DEF Pending
      <4>2. CASE deliveries[b].status = "pending"
        BY <3>1, <3>3, <4>1, <4>2 DEF Moves, Pending
      <4>3. CASE deliveries[b].status # "pending"
        <5>1. row.exists => b[1] = evaluations
          BY <4>1, <4>3 DEF Moves
        <5>2. b[1] < a[1]
          BY <3>3 DEF Earlier
        <5>3. ~row.exists
          BY <1>0, <2>0, <3>1, <5>1, <5>2
        <5> QED BY <3>1, <4>1, <5>3 DEF Moves
      <4> QED BY <4>2, <4>3
    <3> QED BY <3>2, <3>3
  <2> QED BY <1>3, <2>1, <2>2
<1>5. HeardInOrder'
  <2> SUFFICES ASSUME NEW j \in DOMAIN heard, NEW i \in 1..(j - 1),
                      Earlier(heard[j], heard[i])
               PROVE  \/ deliveries'[heard[j]].status \in {"canceled", "gone"}
                      \/ deliveries'[heard[i]].status = "gone"
    BY DEF HeardInOrder, Earlier
  <2>1. heard[j] \in Alert /\ heard[i] \in Alert
    <3>1. heard \in Seq(Alert) /\ i \in DOMAIN heard
      BY DEF MonitorTypeOK
    <3> QED BY <3>1
  <2>2. \/ deliveries[heard[j]].status \in {"canceled", "gone"}
        \/ deliveries[heard[i]].status = "gone"
    BY DEF AlertInv, HeardInOrder
  <2> QED BY <2>1, <2>2 DEF Moves
<1> QED BY <1>2, <1>4, <1>5 DEF AlertInv

\* A step in which an alert may reach its recipient, and nothing else moves.
LEMMA HeardStep ==
    ASSUME MonitorTypeOK, MonitorTypeOK', AlertInv, NEW w \in Worker, Sending(w),
           Reaches(job[w].alert) \/ UNCHANGED heard,
           UNCHANGED <<row, deliveries, evaluations>>,
           Sending(w)', job'[w].alert = job[w].alert,
           At(w, "completing")' => Reaches(job[w].alert),
           \A u \in Worker : u # w => job'[u] = job[u]
    PROVE  AlertInv'
<1> DEFINE a == job[w].alert
<1>0. Told \subseteq Alert /\ Sent \subseteq Alert /\ heard \in Seq(Alert) /\ a \in Sent
  BY ToldAre DEF MonitorTypeOK, Sent
<1>1. CASE heard' = heard
  <2>1. Told' = Told
    BY <1>1 DEF Told
  <2>2. Reaches(a) => a \in Told
    <3> SUFFICES ASSUME Reaches(a) PROVE a \in Told
      OBVIOUS
    <3>1. \E i \in DOMAIN heard : heard[i] = a
      <4> SUFFICES ASSUME ~\E i \in DOMAIN heard : heard[i] = a PROVE FALSE
        OBVIOUS
      <4>1. heard = Append(heard, a)
        BY <1>1 DEF Reaches
      <4>2. Len(Append(heard, a)) = Len(heard) + 1 /\ Len(heard) \in Nat
        BY <1>0
      <4> QED BY <4>1, <4>2
    <3> QED BY <3>1 DEF Told
  <2>3. AlertsOK'
    BY <2>1, <2>2 DEF AlertInv, AlertsOK, At
  <2>4. Sent' \subseteq Sent
    <3> SUFFICES ASSUME NEW x \in Sent' PROVE x \in Sent
      OBVIOUS
    <3>1. CASE x \in Told'
      BY <2>1, <3>1 DEF Sent
    <3>2. CASE x \notin Told'
      <4>1. PICK u \in Worker : Sending(u)' /\ x = job'[u].alert
        BY <3>2 DEF Sent, Sending
      <4>2. Sending(u) /\ x = job[u].alert
        BY <4>1 DEF Sending
      <4> QED BY <4>2 DEF Sent
    <3> QED BY <3>1, <3>2
  <2>5. SentOK'
    BY <2>4 DEF AlertInv, SentOK, Pending, Earlier
  <2>6. HeardInOrder'
    BY <1>1 DEF AlertInv, HeardInOrder, Earlier
  <2> QED BY <2>3, <2>5, <2>6 DEF AlertInv
<1>2. CASE heard' # heard
  <2>1. a \notin Told /\ heard' = Append(heard, a)
    BY <1>2 DEF Reaches, Told
  <2>2. /\ Len(heard') = Len(heard) + 1 /\ Len(heard) \in Nat /\ heard'[Len(heard) + 1] = a
        /\ DOMAIN heard' = 1..(Len(heard) + 1) /\ DOMAIN heard = 1..Len(heard)
        /\ \A i \in DOMAIN heard : heard'[i] = heard[i]
    BY <1>0, <2>1
  <2>3. Told' = Told \cup {a}
    BY <2>2 DEF Told
  <2>4. AlertsOK'
    BY <2>3 DEF AlertInv, AlertsOK, At
  <2>5. Sent' \subseteq Sent
    <3> SUFFICES ASSUME NEW x \in Sent' PROVE x \in Sent
      OBVIOUS
    <3>1. CASE x \in Told'
      BY <1>0, <2>3, <3>1 DEF Sent
    <3>2. CASE x \notin Told'
      <4>1. PICK u \in Worker : Sending(u)' /\ x = job'[u].alert
        BY <3>2 DEF Sent, Sending
      <4>2. Sending(u) /\ x = job[u].alert
        BY <4>1 DEF Sending
      <4> QED BY <4>2 DEF Sent
    <3> QED BY <3>1, <3>2
  <2>6. SentOK'
    BY <2>5 DEF AlertInv, SentOK, Pending, Earlier
  <2>7. HeardInOrder'
    <3> SUFFICES ASSUME NEW j \in DOMAIN heard', NEW i \in 1..(j - 1),
                        Earlier(heard'[j], heard'[i])
                 PROVE  \/ deliveries[heard'[j]].status \in {"canceled", "gone"}
                        \/ deliveries[heard'[i]].status = "gone"
      BY DEF HeardInOrder, Earlier
    <3>1. CASE j \in DOMAIN heard
      <4>1. i \in DOMAIN heard /\ heard'[j] = heard[j] /\ heard'[i] = heard[i]
        BY <2>2, <3>1
      <4> QED BY <3>1, <4>1 DEF AlertInv, HeardInOrder
    <3>2. CASE j \notin DOMAIN heard
      <4>1. i \in DOMAIN heard /\ heard'[j] = a /\ heard'[i] = heard[i]
        BY <2>2, <3>2
      <4> DEFINE c == heard[i]
      <4>2. c \in Told
        BY <4>1 DEF Told
      <4>3. a \in Alert /\ c \in Sent /\ Earlier(a, c)
        BY <1>0, <4>1, <4>2 DEF Sent
      <4>4. /\ deliveries[a].status # "none" /\ deliveries[a].status # "delivered"
            /\ Pending(a) => deliveries[c].status = "gone"
        BY <1>0, <2>1, <4>3 DEF AlertInv, AlertsOK, SentOK
      <4>5. deliveries[a].status \in {"none", "pending", "delivered", "canceled", "gone"}
        BY <4>3 DEF MonitorTypeOK, Delivery
      <4> QED BY <4>1, <4>4, <4>5 DEF Pending
    <3> QED BY <3>1, <3>2
  <2> QED BY <2>4, <2>6, <2>7 DEF AlertInv
<1> QED BY <1>1, <1>2

LEMMA AnnouncedMoves ==
    ASSUME MonitorTypeOK, EvaluationInv, NEW w \in Worker, At(w, "writing"), Announced(job[w])
    PROVE  /\ \A a \in Alert : Moves(a)
           /\ ~FenceHolds(job[w]) => deliveries' = deliveries
           /\ Applied(job[w]).exists
<1> DEFINE j == job[w]
<1>1. j \in SweepJob /\ j.at = "writing" /\ row \in Monitor /\ evaluations \in Int
  BY MonitorsAssumption DEF At, MonitorTypeOK
<1>2. EvaluationOK(w)
  BY <1>1 DEF EvaluationInv, EvaluationsOK, Evaluating
<1>3. Applied(j).exists
  BY <1>1, <1>2, AppliedIs DEF EvaluationOK
<1>4. ASSUME NEW a \in Alert, FenceHolds(j) PROVE Moves(a)
  <2>1. deliveries'[a] = IF a \in AlertsOf(j) /\ deliveries[a].status = "none"
                         THEN [deliveries[a] EXCEPT !.status = "pending"] ELSE deliveries[a]
    BY <1>4 DEF Announced
  <2>2. CASE a \in AlertsOf(j) /\ deliveries[a].status = "none"
    <3>1. a[1] = j.copy.lastAttempt
      BY <2>2 DEF AlertsOf
    <3>2. j.copy.lastAttempt <= evaluations
      BY <1>1, <1>2 DEF EvaluationOK
    <3>3. row.exists => j.copy.lastAttempt = evaluations
      BY <1>4 DEF FenceHolds, EvaluationInv, ClaimIsLatest
    <3>4. deliveries'[a].status = "pending"
      BY <2>1, <2>2 DEF MonitorTypeOK, Delivery
    <3> QED BY <2>2, <3>1, <3>2, <3>3, <3>4 DEF Moves
  <2>3. CASE ~(a \in AlertsOf(j) /\ deliveries[a].status = "none")
    BY <2>1, <2>3 DEF Moves
  <2> QED BY <2>2, <2>3
<1>5. ~FenceHolds(j) => deliveries' = deliveries
  BY DEF Announced
<1> QED BY <1>3, <1>4, <1>5 DEF Moves

LEMMA EvaluationAlerts ==
    ASSUME MonitorTypeOK, MonitorTypeOK', EvaluationInv, AlertInv, NEW w \in Worker,
           EvaluationStep(w) \/ SaveFails(w)
    PROVE  AlertInv'
<1>0. /\ job \in [Worker -> SweepJob] /\ row \in Monitor /\ evaluations \in Int
      /\ deliveries \in [Alert -> Delivery] /\ AlertsOK
  BY MonitorsAssumption DEF MonitorTypeOK, AlertInv
<1>1. heard' = heard /\ evaluations <= evaluations'
  <2>1. heard' = heard
    BY DEF EvaluationStep, ClaimEvaluation, NothingToEvaluate, Observe, SaveEnds, SaveFails,
           historyVars
  <2>2. evaluations' = evaluations \/ evaluations' = evaluations + 1
    BY DEF EvaluationStep, ClaimEvaluation, NothingToEvaluate, Observe, SaveEnds, SaveFails
  <2> QED BY <1>0, <2>1, <2>2
<1>2. (\A u \in Worker : u = w \/ job'[u] = job[u])
      /\ job'[w].at \notin {"sending", "completing", "failing"}
  <2>1. CASE ClaimEvaluation(w)
    BY <1>0, <2>1 DEF ClaimEvaluation, Becomes, Claims
  <2>2. CASE NothingToEvaluate(w) \/ SaveEnds(w)
    BY <1>0, <2>2 DEF NothingToEvaluate, SaveEnds, Becomes, Delivering
  <2>3. CASE Observe(w)
    <3>1. PICK d \in Decisions(job[w].copy) :
            job' = [job EXCEPT ![w].at = "writing", ![w].decision = d, ![w].saw = row.exists]
      BY <2>3 DEF Observe
    <3>2. job[w] \in [at : {"observing", "writing"}, copy : Monitor, saw : BOOLEAN,
                      fresh : BOOLEAN, decision : {"fire", "repeat", "recover", "silent"}]
      BY <1>0, <2>3, EvaluatingIs DEF Observe, At
    <3> QED BY <1>0, <3>1, <3>2
  <2>4. CASE SaveFails(w)
    <3>1. job[w] \in [at : {"observing", "writing"}, copy : Monitor, saw : BOOLEAN,
                      fresh : BOOLEAN, decision : {"fire", "repeat", "recover", "silent"}]
      BY <1>0, <2>4, EvaluatingIs DEF SaveFails, At
    <3>2. \/ job' = [job EXCEPT ![w].decision = "silent", ![w].saw = row'.exists]
          \/ job' = [job EXCEPT ![w] = Delivering]
      BY <2>4 DEF SaveFails, Becomes
    <3> QED BY <1>0, <3>1, <3>2 DEF Delivering
  <2> QED BY <2>1, <2>2, <2>3, <2>4 DEF EvaluationStep
<1>3. \A u \in Worker : Sending(u)' => Sending(u) /\ job'[u].alert = job[u].alert
  BY <1>2 DEF Sending
<1>4. \A u \in Worker : At(u, "completing")' => job'[u].alert \in Told
  BY <1>0, <1>2 DEF AlertsOK, At
<1>5. SUFFICES /\ \A a \in Alert : Moves(a)
               /\ ~row'.exists => \A a \in Alert : deliveries'[a].status \in {"none", "gone"}
  BY <1>1, <1>3, <1>4, SilentStep
<1>6. ASSUME deliveries' = deliveries, row'.exists = row.exists
      PROVE  /\ \A a \in Alert : Moves(a)
             /\ ~row'.exists => \A a \in Alert : deliveries'[a].status \in {"none", "gone"}
  BY <1>0, <1>6 DEF AlertsOK, Moves
<1>7. CASE ClaimEvaluation(w)
  <2>1. row'.exists = row.exists
    BY <1>0, <1>7, ClaimedIs DEF ClaimEvaluation, EvaluationDue
  <2> QED BY <1>6, <1>7, <2>1 DEF ClaimEvaluation
<1>8. CASE NothingToEvaluate(w) \/ Observe(w)
  BY <1>6, <1>8 DEF NothingToEvaluate, Observe
<1>9. ASSUME Recorded(job[w]), At(w, "writing")
      PROVE  /\ \A a \in Alert : Moves(a)
             /\ ~row'.exists => \A a \in Alert : deliveries'[a].status \in {"none", "gone"}
  <2>1. /\ \A a \in Alert : Moves(a)
        /\ ~FenceHolds(job[w]) => deliveries' = deliveries
        /\ Applied(job[w]).exists
    BY <1>9, AnnouncedMoves DEF Recorded
  <2>2. row' = IF FenceHolds(job[w]) THEN Applied(job[w]) ELSE row
    BY <1>9 DEF Recorded
  <2> QED BY <1>0, <2>1, <2>2 DEF AlertsOK
<1>10. CASE SaveEnds(w) \/ SaveFails(w)
  <2>1. At(w, "writing") /\ (Recorded(job[w]) \/ UNCHANGED <<row, deliveries>>)
    BY <1>10 DEF SaveEnds, SaveFails
  <2> QED BY <1>6, <1>9, <2>1
<1> QED BY <1>7, <1>8, <1>10 DEF EvaluationStep

LEMMA ClaimDuringSaveAlerts ==
    ASSUME MonitorTypeOK, MonitorTypeOK', EvaluationInv, AlertInv,
           NEW w \in Worker, NEW v \in Worker, ClaimDuringSave(w, v)
    PROVE  AlertInv'
<1>0. /\ job \in [Worker -> SweepJob] /\ evaluations \in Int /\ AlertsOK
  BY MonitorsAssumption DEF MonitorTypeOK, AlertInv
<1>1. job[v] \in SweepJob /\ job[v].at = "writing" /\ At(v, "writing")
  BY <1>0 DEF ClaimDuringSave, At
<1>2. (\A a \in Alert : Moves(a)) /\ Applied(job[v]).exists /\ Applied(job[v]) \in Monitor
  BY <1>1, AnnouncedMoves, AppliedIs DEF ClaimDuringSave
<1>3. /\ row' = Claimed(Applied(job[v])) /\ evaluations' = evaluations + 1
      /\ evaluations < MaxEvaluations /\ heard' = heard
  BY <1>2, MissTypes DEF ClaimDuringSave
<1>4. row'.exists
  BY <1>2, <1>3, ClaimedIs
<1>5. job' = [job EXCEPT ![v] = Delivering,
                         ![w] = Claims(row, View(Applied(job[v])) = View(row))]
  BY DEF ClaimDuringSave
<1>6. \A u \in Worker : \/ job'[u] = job[u]
                        \/ job'[u].at \notin {"sending", "completing", "failing"}
  BY <1>0, <1>5 DEF Delivering, Claims
<1>7. \A u \in Worker : Sending(u)' => Sending(u) /\ job'[u].alert = job[u].alert
  BY <1>6 DEF Sending
<1>8. \A u \in Worker : At(u, "completing")' => job'[u].alert \in Told
  BY <1>0, <1>6 DEF AlertsOK, At
<1>9. evaluations <= evaluations'
  BY <1>0, <1>3
<1> QED BY <1>2, <1>3, <1>4, <1>7, <1>8, <1>9, SilentStep

LEMMA DeliveryAlerts ==
    ASSUME MonitorTypeOK, MonitorTypeOK', AlertInv, NEW w \in Worker,
           DeliveryStep(w) \/ NotifierFails(w) \/ CompletionFails(w) \/ Crash(w)
    PROVE  AlertInv'
<1>0. /\ job \in [Worker -> SweepJob] /\ evaluations \in Int /\ AlertsOK
      /\ deliveries \in [Alert -> Delivery]
  BY MonitorsAssumption DEF MonitorTypeOK, AlertInv
<1>1. UNCHANGED <<row, evaluations>> /\ evaluations <= evaluations'
  BY <1>0 DEF DeliveryStep, ClaimDelivery, NothingToDeliver, NotifierAccepts, CompleteDelivery,
              FailDelivery, NotifierFails, CompletionFails, Crash, historyVars
<1>2. CASE NotifierAccepts(w) \/ NotifierFails(w)
  <2>1. PICK s \in {"completing", "failing"} :
            /\ job' = [job EXCEPT ![w].at = s]
            /\ s = "completing" => Reaches(job[w].alert)
    BY <1>2 DEF NotifierAccepts, NotifierFails, GoesTo
  <2>2. job[w] \in [at : {"sending", "completing", "failing"}, alert : Alert, attempt : Nat]
    BY <1>0, <1>2, SendingIs DEF NotifierAccepts, NotifierFails, At
  <2>3. /\ job'[w].at = s /\ job'[w].alert = job[w].alert
        /\ \A u \in Worker : u # w => job'[u] = job[u]
    BY <1>0, <2>1, <2>2
  <2>4. Sending(w) /\ Sending(w)'
    BY <2>2, <2>3 DEF Sending
  <2>5. (Reaches(job[w].alert) \/ UNCHANGED heard) /\ deliveries' = deliveries
    BY <1>2 DEF NotifierAccepts, NotifierFails
  <2>6. At(w, "completing")' => Reaches(job[w].alert)
    BY <2>1, <2>3 DEF At
  <2> QED BY <1>1, <2>3, <2>4, <2>5, <2>6, HeardStep
<1>3. ASSUME heard' = heard,
             \A a \in Alert : Moves(a) /\ (deliveries[a].status \in {"none", "gone"} =>
                                              deliveries'[a].status = deliveries[a].status),
             \A u \in Worker : u = w \/ job'[u] = job[u],
             \/ ~Sending(w)'
             \/ Sending(w) /\ job'[w].alert = job[w].alert
             \/ /\ Claimable(job'[w].alert)
                /\ \A a \in Alert : deliveries'[a].status = deliveries[a].status,
             ~At(w, "completing")'
      PROVE  AlertInv'
  <2>1. \A u \in Worker : At(u, "completing")' => job'[u].alert \in Told
    BY <1>0, <1>3 DEF AlertsOK, At
  <2>2. ~row'.exists => \A a \in Alert : deliveries'[a].status \in {"none", "gone"}
    BY <1>0, <1>1, <1>3 DEF AlertsOK
  <2>3. ASSUME NEW u \in Worker, Sending(u)'
        PROVE  \/ Sending(u) /\ job'[u].alert = job[u].alert
               \/ /\ Claimable(job'[u].alert)
                  /\ \A a \in Alert : deliveries'[a].status = deliveries[a].status
    BY <1>3, <2>3 DEF Sending
  <2> QED BY <1>1, <1>3, <2>1, <2>2, <2>3, SilentStep
<1>4. CASE ClaimDelivery(w)
  <2>1. PICK a \in Alert :
          /\ Claimable(a)
          /\ deliveries' = [deliveries EXCEPT ![a].claim = "held", ![a].attempts = @ + 1]
          /\ job' = [job EXCEPT ![w] = [at |-> "sending", alert |-> a,
                                        attempt |-> deliveries[a].attempts + 1]]
    BY <1>4 DEF ClaimDelivery, Becomes
  <2>2. \A b \in Alert : deliveries'[b].status = deliveries[b].status
    BY <1>0, <2>1 DEF Delivery
  <2>3. /\ job'[w].alert = a /\ job'[w].at = "sending"
        /\ \A u \in Worker : u = w \/ job'[u] = job[u]
    BY <1>0, <2>1
  <2> QED BY <1>3, <1>4, <2>1, <2>2, <2>3 DEF Moves, At, ClaimDelivery, historyVars
<1>5. CASE NothingToDeliver(w) \/ Crash(w)
  <2>1. job' = [job EXCEPT ![w] = Idle] /\ deliveries' = deliveries /\ heard' = heard
    BY <1>5 DEF NothingToDeliver, Crash, Becomes, historyVars
  <2>2. job'[w].at = "idle" /\ \A u \in Worker : u = w \/ job'[u] = job[u]
    BY <1>0, <2>1 DEF Idle
  <2> QED BY <1>3, <2>1, <2>2 DEF Moves, At, Sending
<1>6. CASE CompletionFails(w)
  <2>1. job' = [job EXCEPT ![w].at = "failing"] /\ deliveries' = deliveries /\ heard' = heard
    BY <1>6 DEF CompletionFails, GoesTo, historyVars
  <2>2. job[w] \in [at : {"sending", "completing", "failing"}, alert : Alert, attempt : Nat]
    BY <1>0, <1>6, SendingIs DEF CompletionFails, At
  <2>3. /\ job'[w].at = "failing" /\ job'[w].alert = job[w].alert /\ Sending(w)
        /\ \A u \in Worker : u = w \/ job'[u] = job[u]
    BY <1>0, <2>1, <2>2 DEF Sending
  <2> QED BY <1>3, <2>1, <2>3 DEF Moves, At
<1>7. ASSUME NEW s \in {"delivered", "pending"}, Settled(w, s),
             s = "delivered" => job[w].alert \in Told, heard' = heard
      PROVE  AlertInv'
  <2>1. job' = [job EXCEPT ![w] = Delivering] \/ job' = [job EXCEPT ![w] = Idle]
    BY <1>7 DEF Settled, Becomes
  <2>2. job'[w].at \in {"delivering", "idle"} /\ \A u \in Worker : u = w \/ job'[u] = job[u]
    BY <1>0, <2>1 DEF Delivering, Idle
  <2>3. ASSUME NEW a \in Alert
        PROVE  Moves(a) /\ (deliveries[a].status \in {"none", "gone"} =>
                                deliveries'[a].status = deliveries[a].status)
    <3>1. CASE a = job[w].alert /\ Holds(job[w])
      <4>1. deliveries'[a].status = s
        BY <1>0, <1>7, <3>1 DEF Settled, Delivery
      <4>2. deliveries[a].status = "pending"
        BY <3>1 DEF Holds
      <4> QED BY <1>7, <3>1, <4>1, <4>2 DEF Moves
    <3>2. CASE ~(a = job[w].alert /\ Holds(job[w]))
      <4>1. deliveries'[a] = deliveries[a]
        BY <1>0, <1>7, <3>2 DEF Settled
      <4> QED BY <4>1 DEF Moves
    <3> QED BY <3>1, <3>2
  <2> QED BY <1>3, <1>7, <2>2, <2>3 DEF At, Sending
<1>8. CASE CompleteDelivery(w) \/ FailDelivery(w)
  <2>1. At(w, "completing") => job[w].alert \in Told
    BY <1>0 DEF AlertsOK
  <2> QED BY <1>7, <1>8, <2>1 DEF CompleteDelivery, FailDelivery, historyVars
<1> QED BY <1>2, <1>4, <1>5, <1>6, <1>8 DEF DeliveryStep

\* Steps no sweep takes leave every sweep as it is, unless one claims.
LEMMA OthersAlerts ==
    ASSUME MonitorTypeOK, MonitorTypeOK', AlertInv,
           heard' = heard, evaluations <= evaluations', \A a \in Alert : Moves(a),
           ~row'.exists => \A a \in Alert : deliveries'[a].status \in {"none", "gone"},
           \A u \in Worker : \/ job'[u] = job[u]
                             \/ job'[u].at \notin {"sending", "completing", "failing"}
    PROVE  AlertInv'
<1>1. \A u \in Worker : Sending(u)' => Sending(u) /\ job'[u].alert = job[u].alert
  BY DEF Sending
<1>2. \A u \in Worker : At(u, "completing")' => job'[u].alert \in Told
  BY DEF AlertInv, AlertsOK, At
<1> QED BY <1>1, <1>2, SilentStep

LEMMA EditsMoves ==
    ASSUME MonitorTypeOK, AlertInv, NEW o \in Operator, Edits(o)
    PROVE  \A a \in Alert : Moves(a)
<1> SUFFICES ASSUME NEW a \in Alert PROVE Moves(a)
  OBVIOUS
<1>1. deliveries'[a] = IF a \in edit[o].seen /\ Pending(a)
                       THEN [deliveries[a] EXCEPT !.status = "canceled", !.claim = "free"]
                       ELSE deliveries[a]
  BY DEF Edits
<1>2. CASE a \in edit[o].seen /\ Pending(a)
  <2>1. deliveries'[a].status = "canceled"
    BY <1>1, <1>2 DEF MonitorTypeOK, Delivery
  <2> QED BY <1>2, <2>1 DEF Moves, Pending
<1>3. CASE ~(a \in edit[o].seen /\ Pending(a))
  BY <1>1, <1>3 DEF Moves
<1> QED BY <1>2, <1>3

LEMMA OperatorAlerts ==
    ASSUME MonitorTypeOK, MonitorTypeOK', EvaluationInv, AlertInv,
           LeaseLapses \/ \E o \in Operator : OperatorStep(o)
    PROVE  AlertInv'
<1>0. /\ job \in [Worker -> SweepJob] /\ evaluations \in Int /\ AlertsOK
      /\ deliveries \in [Alert -> Delivery] /\ row \in Monitor
  BY MonitorsAssumption DEF MonitorTypeOK, AlertInv
<1>1. /\ evaluations' = evaluations /\ job' = job /\ heard' = heard
      /\ evaluations <= evaluations'
  <2>1. evaluations' = evaluations /\ job' = job
    BY DEF LeaseLapses, EvaluationLapses, DeliveryLapses, OperatorStep, Load, EditBegins,
           EditEnds, Delete
  <2>2. heard' = heard
    BY DEF LeaseLapses, EvaluationLapses, DeliveryLapses, OperatorStep, Load, EditBegins,
           EditEnds, Delete, historyVars
  <2> QED BY <1>0, <2>1, <2>2
<1>2. SUFFICES /\ \A a \in Alert : Moves(a)
               /\ ~row'.exists => \A a \in Alert : deliveries'[a].status \in {"none", "gone"}
  BY <1>1, OthersAlerts
<1>3. ASSUME \A a \in Alert : deliveries'[a].status = deliveries[a].status,
             row'.exists = row.exists
      PROVE  /\ \A a \in Alert : Moves(a)
             /\ ~row'.exists => \A a \in Alert : deliveries'[a].status \in {"none", "gone"}
  BY <1>0, <1>3 DEF AlertsOK, Moves
<1>4. CASE LeaseLapses
  <2>1. CASE EvaluationLapses
    BY <1>0, <1>3, <2>1 DEF EvaluationLapses, Monitor
  <2>2. ASSUME NEW a \in Alert, DeliveryLapses(a)
        PROVE  /\ row'.exists = row.exists
               /\ \A b \in Alert : deliveries'[b].status = deliveries[b].status
    BY <1>0, <2>2 DEF DeliveryLapses, Delivery
  <2> QED BY <1>3, <1>4, <2>1, <2>2 DEF LeaseLapses
<1>5. ASSUME NEW o \in Operator, Load(o) \/ EditBegins(o)
      PROVE  deliveries' = deliveries /\ row' = row
  BY <1>5 DEF Load, EditBegins
<1>6. ASSUME NEW o \in Operator, EditEnds(o)
      PROVE  (\A a \in Alert : Moves(a)) /\ row'.exists
  <2>1. SavedRow(edit[o]).exists
    BY <1>6, EditsHistory DEF EditEnds
  <2> QED BY <1>6, <2>1, EditsMoves DEF EditEnds
<1>7. ASSUME NEW o \in Operator, Delete(o)
      PROVE  /\ \A a \in Alert : Moves(a)
             /\ \A a \in Alert : deliveries'[a].status \in {"none", "gone"}
  BY <1>0, <1>7 DEF Delete, Moves, Unsent
<1>8. CASE \E o \in Operator : OperatorStep(o)
  BY <1>3, <1>5, <1>6, <1>7, <1>8 DEF OperatorStep
<1> QED BY <1>4, <1>8

LEMMA ClaimDuringEditAlerts ==
    ASSUME MonitorTypeOK, MonitorTypeOK', EvaluationInv, AlertInv,
           NEW w \in Worker, NEW o \in Operator, ClaimDuringEdit(w, o)
    PROVE  AlertInv'
<1>0. job \in [Worker -> SweepJob] /\ evaluations \in Int
  BY MonitorsAssumption DEF MonitorTypeOK
<1>1. /\ \A a \in Alert : Moves(a)
      /\ SavedRow(edit[o]) \in Monitor /\ SavedRow(edit[o]).exists
  BY EditsMoves, EditsTypes, EditsHistory DEF ClaimDuringEdit
<1>2. /\ row' = Claimed(SavedRow(edit[o])) /\ evaluations' = evaluations + 1
      /\ evaluations < MaxEvaluations /\ heard' = heard
  BY <1>1, MissTypes DEF ClaimDuringEdit
<1>3. row'.exists
  BY <1>1, <1>2, ClaimedIs
<1>4. \A u \in Worker : \/ job'[u] = job[u]
                        \/ job'[u].at \notin {"sending", "completing", "failing"}
  BY <1>0 DEF ClaimDuringEdit, Becomes, Claims
<1>5. evaluations <= evaluations'
  BY <1>0, <1>2
<1> QED BY <1>1, <1>2, <1>3, <1>4, <1>5, OthersAlerts

LEMMA MonitorStep ==
    MonitorInv /\ [MonitorNext]_monitorVars => MonitorInv'
<1> SUFFICES ASSUME MonitorInv, [MonitorNext]_monitorVars PROVE MonitorInv'
  OBVIOUS
<1>0. MonitorTypeOK /\ MonitorTypeOK' /\ EvaluationInv /\ AlertInv
  BY TypesStep DEF MonitorInv, AlertInv
<1> SUFFICES EvaluationInv' /\ AlertInv'
  BY <1>0 DEF MonitorInv, AlertInv
<1>1. ASSUME NEW w \in Worker, EvaluationStep(w) \/ DeliveryStep(w) \/ FaultStep(w)
      PROVE  EvaluationInv' /\ AlertInv'
  <2>1. CASE EvaluationStep(w) \/ SaveFails(w)
    BY <1>0, <2>1, EvaluationKeeps, EvaluationAlerts
  <2>2. CASE DeliveryStep(w) \/ NotifierFails(w) \/ CompletionFails(w) \/ Crash(w)
    BY <1>0, <2>2, DeliveryLeavesEvaluations, DeliveryAlerts
  <2> QED BY <1>1, <2>1, <2>2 DEF FaultStep
<1>2. ASSUME NEW w \in Worker, NEW v \in Worker, ClaimDuringSave(w, v)
      PROVE  EvaluationInv' /\ AlertInv'
  BY <1>0, <1>2, ClaimDuringSaveKeeps, ClaimDuringSaveAlerts
<1>3. ASSUME NEW w \in Worker, NEW o \in Operator, ClaimDuringEdit(w, o)
      PROVE  EvaluationInv' /\ AlertInv'
  BY <1>0, <1>3, ClaimDuringEditKeeps, ClaimDuringEditAlerts
<1>4. CASE LeaseLapses \/ \E o \in Operator : OperatorStep(o)
  BY <1>0, <1>4, OperatorLeavesEvaluations, OperatorAlerts
<1>5. CASE UNCHANGED monitorVars
  <2>1. EvaluationInv'
    BY <1>0, <1>5 DEF EvaluationInv, ClaimIsLatest, EvaluationsOK, EvaluationOK, Evaluating,
        HistoryOK, EditsOK, Resets, At, View, SettingsOf, monitorVars, historyVars
  <2>2. AlertInv'
    BY <1>0, <1>5 DEF AlertInv, AlertsOK, SentOK, Sent, Told, Sending, HeardInOrder, Earlier,
        Pending, At, monitorVars, historyVars
  <2> QED BY <2>1, <2>2
<1> QED BY <1>1, <1>2, <1>3, <1>4, <1>5 DEF MonitorNext

LEMMA AnnouncesOnce ==
    MonitorInv => AnnouncedOnce
BY DEF MonitorInv, EvaluationInv, HistoryOK, Accounted, AnnouncedOnce

\* Only a save, its failure or a crash takes a worker out of its save; what the
\* save then changes, the worker had read.
LEMMA SaveIsCurrent ==
    ASSUME MonitorInv, [MonitorNext]_monitorVars, NEW w \in Worker,
           At(w, "writing"), job'[w] # job[w], row.exists, job[w].fresh
    PROVE  /\ SettingsOf(row') = SettingsOf(row)
           /\ \A a \in Alert : deliveries'[a] # deliveries[a] =>
                 row.enabled /\ a[2] \in row.channels
<1> DEFINE j == job[w]
           Current(m) == /\ SettingsOf(m) = SettingsOf(row)
                         /\ \A a \in Alert : deliveries'[a] # deliveries[a] =>
                               row.enabled /\ a[2] \in row.channels
<1>0. /\ j \in SweepJob /\ j.at = "writing" /\ row \in Monitor
      /\ job \in [Worker -> SweepJob] /\ deliveries \in [Alert -> Delivery]
      /\ MonitorTypeOK
  BY DEF MonitorInv, MonitorTypeOK, At
<1>1. j.copy \in Monitor /\ Applied(j) \in Monitor /\ SettingsOf(Applied(j)) = SettingsOf(j.copy)
  BY <1>0, EvaluatingIs, AppliedIs
<1>2. EvaluationOK(w)
  BY <1>0 DEF MonitorInv, EvaluationInv, EvaluationsOK, Evaluating
<1>3. ASSUME FenceHolds(j), Announced(j)
      PROVE  Current(Applied(j))
  <2>1. View(row) = View(j.copy)
    BY <1>2, <1>3 DEF FenceHolds, EvaluationOK
  <2>2. /\ SettingsOf(row) = SettingsOf(j.copy)
        /\ row.enabled = j.copy.enabled /\ row.channels = j.copy.channels
    BY <1>0, <1>1, <2>1, ViewIs
  <2>3. j.copy.enabled
    BY <1>2 DEF EvaluationOK
  <2>4. ASSUME NEW a \in Alert, deliveries'[a] # deliveries[a]
        PROVE  a[2] \in j.copy.channels
    <3>1. a \in AlertsOf(j)
      BY <1>3, <2>4 DEF Announced
    <3> QED BY <3>1 DEF AlertsOf
  <2> QED BY <1>1, <2>2, <2>3, <2>4
<1>4. ASSUME ~FenceHolds(j), Announced(j)
      PROVE  Current(row)
  BY <1>4 DEF Announced
<1>5. CASE SaveEnds(w) \/ SaveFails(w)
  <2>1. CASE Recorded(j)
    BY <1>3, <1>4, <2>1 DEF Recorded
  <2>2. CASE UNCHANGED <<row, deliveries, accountVars>>
    BY <2>2
  <2> QED BY <1>5, <2>1, <2>2 DEF SaveEnds, SaveFails
<1>6. ASSUME NEW u \in Worker, ClaimDuringSave(u, w) PROVE Current(row')
  <2>1. /\ row' = Claimed(Applied(j)) /\ evaluations < MaxEvaluations
    BY <1>0, <1>1, <1>6, MissTypes DEF ClaimDuringSave
  <2>2. Claimed(Applied(j)) \in Monitor /\ View(Claimed(Applied(j))) = View(Applied(j))
    BY <1>0, <1>1, <2>1, ClaimedIs
  <2>3. SettingsOf(row') = SettingsOf(Applied(j))
    BY <1>1, <2>1, <2>2, ViewIs
  <2>4. Current(Applied(j))
    BY <1>3, <1>6 DEF ClaimDuringSave
  <2> QED BY <2>3, <2>4
<1>7. CASE Crash(w)
  BY <1>7 DEF Crash
<1>8. ASSUME NEW u \in Worker, u # w, EvaluationStep(u) \/ DeliveryStep(u) \/ FaultStep(u)
      PROVE  FALSE
  <2>1. job'[w] = job[w]
    BY <1>0, <1>8 DEF EvaluationStep, DeliveryStep, FaultStep, ClaimEvaluation, NothingToEvaluate,
       Observe, SaveEnds, ClaimDelivery, NothingToDeliver, NotifierAccepts, CompleteDelivery,
       FailDelivery, SaveFails, NotifierFails, CompletionFails, Crash, Settled, Becomes, GoesTo
  <2> QED BY <2>1
<1>9. ASSUME ClaimEvaluation(w) \/ NothingToEvaluate(w) \/ Observe(w)
               \/ DeliveryStep(w) \/ NotifierFails(w) \/ CompletionFails(w)
      PROVE  FALSE
  BY <1>0, <1>9 DEF DeliveryStep, ClaimEvaluation, NothingToEvaluate, Observe, ClaimDelivery,
     NothingToDeliver, NotifierAccepts, CompleteDelivery, FailDelivery, NotifierFails,
     CompletionFails, At
<1>10. ASSUME NEW u \in Worker, NEW v \in Worker, ClaimDuringSave(u, v), v # w PROVE FALSE
  <2>1. u # w
    BY <1>0, <1>10 DEF ClaimDuringSave, ClaimMisses, At
  <2> QED BY <1>0, <1>10, <2>1 DEF ClaimDuringSave
<1>11. ASSUME NEW u \in Worker, NEW o \in Operator, ClaimDuringEdit(u, o) PROVE FALSE
  <2>1. u # w
    BY <1>0, <1>11 DEF ClaimDuringEdit, ClaimMisses, At
  <2> QED BY <1>0, <1>11, <2>1 DEF ClaimDuringEdit, Becomes
<1>12. ASSUME LeaseLapses \/ (\E o \in Operator : OperatorStep(o)) \/ UNCHANGED monitorVars
       PROVE  FALSE
  BY <1>12 DEF LeaseLapses, EvaluationLapses, DeliveryLapses, OperatorStep, Load, EditBegins,
     EditEnds, Delete, monitorVars
<1>13. CASE \E u \in Worker : EvaluationStep(u) \/ DeliveryStep(u) \/ FaultStep(u)
  <2>1. EvaluationStep(w) \/ DeliveryStep(w) \/ FaultStep(w)
    BY <1>8, <1>13
  <2>2. SaveEnds(w) \/ SaveFails(w) \/ Crash(w)
    BY <1>9, <2>1 DEF EvaluationStep, FaultStep
  <2> QED BY <1>5, <1>7, <2>2
<1>14. CASE \E u, v \in Worker : ClaimDuringSave(u, v)
  <2>1. \E u \in Worker : ClaimDuringSave(u, w)
    BY <1>10, <1>14
  <2> QED BY <1>6, <2>1
<1> QED BY <1>11, <1>12, <1>13, <1>14 DEF MonitorNext

\* monitors.ts and monitor-repository.ts: every step of the sweep, of the lease
\* clock and of the console keeps each column, claim and request well formed.
THEOREM MonitorTypesHold == MonitorSpec => []MonitorTypeOK
<1>1. MonitorTypeOK /\ [MonitorNext]_monitorVars => MonitorTypeOK'
  BY TypesStep
<1>2. MonitorInit => MonitorTypeOK
  BY MonitorStarts DEF MonitorInv
<1> QED BY <1>1, <1>2, PTL DEF MonitorSpec

\* claimDelivery() of monitor-repository.ts lets an alert pass no earlier alert of
\* its recipient: whoever crashes, retries or loses a lease, recipients hear of the
\* breach before its recovery.
THEOREM RecipientsHearInOrder == MonitorSpec => []HeardInOrder
<1>1. MonitorInv => HeardInOrder
  BY DEF MonitorInv
<1> QED BY <1>1, MonitorStarts, MonitorStep, PTL DEF MonitorSpec

\* The account behind save() in monitor-repository.ts: a breach is announced again,
\* or a recovery, at most once for every save of a stale copy -- an operator's, or a
\* worker's whose claim overlapped a save and read the row from before it.  Where no
\* copy goes stale, one of the workers that evaluate a breach announces it, and one
\* its recovery.
THEOREM BreachIsAnnouncedOnce == MonitorSpec => []AnnouncedOnce
BY AnnouncesOnce, MonitorStarts, MonitorStep, PTL DEF MonitorSpec

\* The same fence against the console: an evaluation that outlived an edit neither
\* undoes it nor announces what the edited monitor would not.
\* An evaluation whose claim
\* overlapped the edit's commit, and read the row from before it, is excepted (~fresh).
THEOREM EvaluationsAreCurrent == MonitorSpec => EvaluationIsCurrent
<1> DEFINE Current ==
        \A w \in Worker :
          At(w, "writing") /\ job'[w] # job[w] /\ row.exists /\ job[w].fresh =>
              /\ SettingsOf(row') = SettingsOf(row)
              /\ \A a \in Alert : deliveries'[a] # deliveries[a] =>
                    row.enabled /\ a[2] \in row.channels
<1>1. MonitorInv /\ [MonitorNext]_monitorVars => [Current]_monitorVars
  BY SaveIsCurrent
<1>2. EvaluationIsCurrent <=> [][Current]_monitorVars
  BY DEF EvaluationIsCurrent
<1> HIDE DEF Current
<1> QED BY <1>1, <1>2, MonitorStarts, MonitorStep, PTL DEF MonitorSpec

=============================================================================
