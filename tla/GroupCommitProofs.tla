------------------------- MODULE GroupCommitProofs -------------------------
(***************************************************************************)
(* Proofs about GroupCommit, about IngestServer around it and about its    *)
(* calls of the sink (SinkCalls), for every set of projects, requests and  *)
(* events and every policy.                                                *)
(*                                                                         *)
(* The invariant is Inv: what the groups hold (GroupsOK), what the commits *)
(* hold (CommitsOK), that no request is in two of them (Apart), what the   *)
(* counter #buffered means (BufferOK), and what a waiter is owed: its      *)
(* whole batch is in its group, then in its commit, then in the store      *)
(* (HeldOK).  The acknowledgement is sound because of the last one alone;  *)
(* the others are what keeps it true from step to step.                    *)
(*                                                                         *)
(* Beside it stand Owned (which rows each waiter brought), for the counts  *)
(* of an acknowledgement, and Housed with Admitted (where a call past the  *)
(* quota waits), for the exit of the process, and CallsInv (what the       *)
(* commits' calls of the sink did), for the refinement of EventSink.       *)
(***************************************************************************)
EXTENDS IngestServer, SinkCalls, FiniteSetTheorems, TLAPS

GroupsOK(gs, st) ==
    /\ gs \in [Project -> Group]
    /\ \A p \in Project : \A x \in gs[p].events :
           x[1] \in gs[p].waiters /\ x[2] \in BatchOf[x[1]]
    /\ \A p \in Project : \A r \in gs[p].waiters :
           ProjectOf[r] = p /\ st[r] = "joined"

CommitsOK(cs, st) ==
    /\ cs \in SUBSET Commit
    /\ IsFiniteSet(cs) /\ Cardinality(cs) <= MaxInFlight
    /\ \A c \in cs : c.written \subseteq c.events
    /\ \A c \in cs : \A x \in c.events :
           x[1] \in c.waiters /\ x[2] \in BatchOf[x[1]]
    /\ \A c \in cs : \A r \in c.waiters :
           /\ ProjectOf[r] = c.project
           /\ st[r] = IF c.phase = "settled" THEN "done" ELSE "joined"

Apart(gs, cs) ==
    /\ \A c \in cs, p \in Project : c.waiters \cap gs[p].waiters = {}
    /\ \A c, d \in cs : c # d => c.waiters \cap d.waiters = {}

BufferOK(gs, buf) ==
    /\ buf = Cardinality(AllEvents(gs, Project))
    /\ buf <= MaxBuffered

Carried(r, es) ==
    \A e \in BatchOf[r] : IF e \in Keyed THEN e \in EventsIn(es) ELSE <<r, e>> \in es

Stored(r, rc, rw) ==
    \A e \in BatchOf[r] :
        IF e \in Keyed THEN e \in rc[ProjectOf[r]] ELSE <<r, e>> \in rw[ProjectOf[r]]

HeldOK(gs, cs, rc, rw) ==
    /\ \A p \in Project : \A r \in gs[p].waiters : Carried(r, gs[p].events)
    /\ \A c \in cs : \A r \in c.waiters :
           /\ c.phase = "writing" => Carried(r, c.events)
           /\ c.phase \in {"written", "recorded"} => Stored(r, rc, rw)

AckedOK(ak, rc, rw) ==
    \A r \in Request : ak[r].kind = "Committed" => Stored(r, rc, rw)

Inv ==
    /\ TypeOK
    /\ GroupsOK(groups, pc)
    /\ CommitsOK(commits, pc)
    /\ Apart(groups, commits)
    /\ BufferOK(groups, buffered)
    /\ HeldOK(groups, commits, receipts, rows)
    /\ AckedOK(ack, receipts, rows)

-----------------------------------------------------------------------------
(* Finite sets *)

\* There are finitely many copies, so every set of them has a cardinality.
LEMMA CopyFinite ==
    ASSUME NEW S \in SUBSET Copy
    PROVE  IsFiniteSet(S) /\ Cardinality(S) \in Nat
<1>1. IsFiniteSet(Copy)
  BY RequestsAssumption, FS_Product DEF Copy
<1> QED
  BY <1>1, FS_Subset, FS_CardinalityType

\* Pairing the members of a finite set with one request changes neither its
\* finiteness nor its cardinality.
LEMMA PairsWithOne ==
    ASSUME NEW r, NEW B, IsFiniteSet(B)
    PROVE  /\ IsFiniteSet({r} \X B)
           /\ Cardinality({r} \X B) = Cardinality(B) /\ Cardinality(B) \in Nat
<1>1. IsFiniteSet({r}) /\ Cardinality({r}) = 1
  BY FS_Singleton
<1>2. IsFiniteSet({r} \X B) /\ Cardinality({r} \X B) = 1 * Cardinality(B)
  BY <1>1, FS_Product
<1>3. Cardinality(B) \in Nat
  BY FS_CardinalityType
<1> QED BY <1>2, <1>3

LEMMA BatchFinite ==
    ASSUME NEW r \in Request, NEW B \in SUBSET BatchOf[r]
    PROVE  /\ IsFiniteSet(B) /\ IsFiniteSet(BatchOf[r])
           /\ Cardinality(B) \in Nat /\ Cardinality(BatchOf[r]) \in Nat
           /\ Cardinality(B) <= Cardinality(BatchOf[r])
<1>1. IsFiniteSet(BatchOf[r])
  BY RequestsAssumption, FS_Subset
<1> QED BY <1>1, FS_Subset, FS_CardinalityType

\* What a request contributes is never more than its batch.
LEMMA ContributionBounded ==
    ASSUME NEW r \in Request, NEW g
    PROVE  /\ IsFiniteSet(Contribution(r, g))
           /\ Cardinality(Contribution(r, g)) \in Nat
           /\ Cardinality(Contribution(r, g)) <= Cardinality(BatchOf[r])
           /\ Cardinality(BatchOf[r]) \in Nat
<1>1. Unique(r, g) \in SUBSET BatchOf[r]
  BY DEF Unique
<1> QED BY <1>1, BatchFinite, PairsWithOne DEF Contribution

\* The copies of one request in a set of copies are at most its batch.
LEMMA AcceptedBounded ==
    ASSUME NEW r \in Request, NEW W \in SUBSET Copy,
           \A x \in W : x[2] \in BatchOf[x[1]]
    PROVE  /\ Cardinality(CopiesOf(r, W)) \in Nat
           /\ Cardinality(BatchOf[r]) - Cardinality(CopiesOf(r, W)) \in Nat
<1> DEFINE B == BatchOf[r]
<1>1. IsFiniteSet(B) /\ Cardinality(B) \in Nat
  BY BatchFinite
<1>2. IsFiniteSet({r} \X B) /\ Cardinality({r} \X B) = Cardinality(B)
  BY <1>1, PairsWithOne
<1>3. CopiesOf(r, W) \in SUBSET ({r} \X B)
  BY DEF CopiesOf, Copy
<1>4. /\ IsFiniteSet(CopiesOf(r, W)) /\ Cardinality(CopiesOf(r, W)) \in Nat
      /\ Cardinality(CopiesOf(r, W)) <= Cardinality({r} \X B)
  BY <1>2, <1>3, FS_Subset, FS_CardinalityType
<1> QED BY <1>1, <1>2, <1>4

-----------------------------------------------------------------------------
(* pump(): every action that calls it ends in this lemma. *)

\* The commits a pump adds and the ones that ran stay within the ceiling.
LEMMA StartingBounded ==
    ASSUME NEW gs, NEW F \in SUBSET Project, NEW cs,
           IsFiniteSet(cs), Cardinality(F) <= FreeSlots(cs)
    PROVE  /\ IsFiniteSet(cs \cup Starting(gs, F))
           /\ Cardinality(cs \cup Starting(gs, F)) <= MaxInFlight
<1> DEFINE f == [p \in F |-> [project |-> p, events |-> gs[p].events,
                     waiters |-> gs[p].waiters, phase |-> "writing", written |-> {}]]
           T == {f[p] : p \in F}
<1>1. IsFiniteSet(F) /\ Cardinality(F) \in Nat
  BY RequestsAssumption, FS_Subset, FS_CardinalityType
<1>2. IsFiniteSet(T) /\ Cardinality(T) <= Cardinality(F)
  <2>1. f \in Surjection(F, T)
    BY DEF Surjection
  <2> HIDE DEF f, T
  <2> QED BY <1>1, <2>1, FS_Surjection
<1>3. T = Starting(gs, F)
  BY DEF Starting
<1>4. /\ IsFiniteSet(cs \cup T)
      /\ Cardinality(cs \cup T) = Cardinality(cs) + Cardinality(T) - Cardinality(cs \cap T)
      /\ Cardinality(T) \in Nat /\ Cardinality(cs) \in Nat /\ Cardinality(cs \cap T) \in Nat
  <2> HIDE DEF T
  <2> QED BY <1>2, FS_Union, FS_Intersection, FS_CardinalityType
<1> HIDE DEF T
<1> QED BY <1>1, <1>2, <1>3, <1>4, PolicyAssumption DEF FreeSlots

\* Taking the groups of F out of the Map takes exactly their events out of the
\* buffer: no copy is in two groups.
LEMMA RemoveBuffer ==
    ASSUME NEW gs, NEW st, GroupsOK(gs, st), NEW F \in SUBSET Project,
           NEW buf, BufferOK(gs, buf)
    PROVE  BufferOK(Remove(gs, F), buf - Cardinality(AllEvents(gs, F)))
<1> DEFINE All == AllEvents(gs, Project)
           Gone == AllEvents(gs, F)
           Left == AllEvents(Remove(gs, F), Project)
<1>1. All \in SUBSET Copy /\ Gone \in SUBSET All
  BY DEF GroupsOK, Group, AllEvents
<1>2. Left = All \ Gone
  <2>1. ASSUME NEW x \in Left PROVE x \in All \ Gone
    <3>1. PICK p \in Project : x \in Remove(gs, F)[p].events
      BY DEF AllEvents
    <3>2. p \notin F /\ x \in gs[p].events
      BY <3>1 DEF Remove, NoGroup
    <3>3. ProjectOf[x[1]] = p
      BY <3>2 DEF GroupsOK
    <3>4. ASSUME NEW q \in F, x \in gs[q].events PROVE FALSE
      BY <3>2, <3>3, <3>4 DEF GroupsOK
    <3> QED BY <3>2, <3>4 DEF AllEvents
  <2>2. ASSUME NEW x \in All \ Gone PROVE x \in Left
    <3>1. PICK p \in Project : x \in gs[p].events
      BY DEF AllEvents
    <3>2. p \notin F
      BY <3>1 DEF AllEvents
    <3> QED BY <3>1, <3>2 DEF AllEvents, Remove
  <2> QED BY <2>1, <2>2
<1>3. /\ IsFiniteSet(All) /\ Cardinality(All) \in Nat
      /\ Cardinality(Gone) \in Nat /\ Cardinality(Left) \in Nat
  <2> HIDE DEF All, Gone, Left
  <2> QED BY <1>1, <1>2, CopyFinite
<1>4. Cardinality(Left) = Cardinality(All) - Cardinality(Gone)
  <2> HIDE DEF All, Gone, Left
  <2>1. Cardinality(All \ Gone) = Cardinality(All) - Cardinality(All \cap Gone)
    BY <1>3, FS_Difference
  <2>2. All \cap Gone = Gone
    BY <1>1
  <2> QED BY <1>2, <2>1, <2>2
<1>5. buf = Cardinality(All) /\ buf <= MaxBuffered
  BY DEF BufferOK
<1>6. /\ buf - Cardinality(Gone) = Cardinality(Left)
      /\ buf - Cardinality(Gone) <= MaxBuffered
  <2> HIDE DEF All, Gone, Left
  <2> QED BY <1>3, <1>4, <1>5, PolicyAssumption
<1> QED BY <1>6 DEF BufferOK

\* What pump() leaves: the same requests, each still in one place, a buffer
\* that counts what is left, and no more commits than allowed.
LEMMA PumpKeeps ==
    ASSUME NEW gs, NEW ord, NEW cs, NEW buf, NEW dr, NEW st, NEW rc, NEW rw,
           GroupsOK(gs, st), CommitsOK(cs, st), Apart(gs, cs), BufferOK(gs, buf),
           HeldOK(gs, cs, rc, rw), ord \in SUBSET (Project \X Project),
           Pump(gs, ord, cs, buf, dr)
    PROVE  /\ GroupsOK(groups', st) /\ CommitsOK(commits', st)
           /\ Apart(groups', commits') /\ BufferOK(groups', buffered')
           /\ HeldOK(groups', commits', rc, rw)
           /\ ahead' \in SUBSET (Project \X Project)
           /\ buffered' \in Int
<1>1. PICK F \in SUBSET Ready(gs, dr) :
        /\ Cardinality(F) <= FreeSlots(cs)
        /\ groups' = Remove(gs, F)
        /\ ahead' = {pq \in ord : pq[1] \notin F /\ pq[2] \notin F}
        /\ commits' = cs \cup Starting(gs, F)
        /\ buffered' = buf - Cardinality(AllEvents(gs, F))
  BY DEF Pump
<1>2. F \in SUBSET Project /\ \A p \in F : gs[p].waiters # {}
  BY DEF Ready
<1>3. \A c \in Starting(gs, F) : \E p \in F :
        /\ c = [project |-> p, events |-> gs[p].events, waiters |-> gs[p].waiters,
                phase |-> "writing", written |-> {}]
        /\ c.project = p /\ c.events = gs[p].events /\ c.waiters = gs[p].waiters
        /\ c.phase = "writing" /\ c.written = {}
  BY DEF Starting
<1>4. \A p \in Project : groups'[p] = IF p \in F THEN NoGroup ELSE gs[p]
  BY <1>1 DEF Remove
<1>5. GroupsOK(groups', st)
  <2>1. NoGroup \in Group
    BY PolicyAssumption DEF NoGroup, Group
  <2>2. groups' \in [Project -> Group]
    BY <1>1, <2>1 DEF Remove, GroupsOK
  <2> QED BY <1>4, <2>2 DEF GroupsOK, NoGroup
<1>6. CommitsOK(commits', st)
  <2>1. Starting(gs, F) \in SUBSET Commit
    BY <1>2, <1>3 DEF GroupsOK, Group, Commit
  <2>2. IsFiniteSet(commits') /\ Cardinality(commits') <= MaxInFlight
    BY <1>1, <1>2, StartingBounded DEF CommitsOK
  <2>3. \A c \in Starting(gs, F) :
          /\ c.written \subseteq c.events
          /\ \A x \in c.events : x[1] \in c.waiters /\ x[2] \in BatchOf[x[1]]
          /\ \A r \in c.waiters : /\ ProjectOf[r] = c.project
                                  /\ st[r] = IF c.phase = "settled" THEN "done" ELSE "joined"
    BY <1>2, <1>3 DEF GroupsOK
  <2> QED BY <1>1, <2>1, <2>2, <2>3 DEF CommitsOK
<1>7. Apart(groups', commits')
  <2>1. \A p, q \in Project : p # q => gs[p].waiters \cap gs[q].waiters = {}
    BY DEF GroupsOK
  <2>2. \A c \in Starting(gs, F), p \in Project : c.waiters \cap groups'[p].waiters = {}
    BY <1>2, <1>3, <1>4, <2>1 DEF NoGroup
  <2>3. \A c \in cs, p \in Project : c.waiters \cap groups'[p].waiters = {}
    BY <1>4 DEF NoGroup, Apart
  <2>4. \A c \in cs, d \in Starting(gs, F) : c.waiters \cap d.waiters = {}
    BY <1>2, <1>3 DEF Apart
  <2>5. ASSUME NEW c \in Starting(gs, F), NEW d \in Starting(gs, F), c # d
        PROVE  c.waiters \cap d.waiters = {}
    <3>1. PICK p \in F : /\ c = [project |-> p, events |-> gs[p].events,
                                 waiters |-> gs[p].waiters, phase |-> "writing",
                                 written |-> {}]
                         /\ c.waiters = gs[p].waiters
      BY <1>3
    <3>2. PICK q \in F : /\ d = [project |-> q, events |-> gs[q].events,
                                 waiters |-> gs[q].waiters, phase |-> "writing",
                                 written |-> {}]
                         /\ d.waiters = gs[q].waiters
      BY <1>3
    <3>3. p # q
      BY <2>5, <3>1, <3>2
    <3> QED BY <1>2, <2>1, <3>1, <3>2, <3>3
  <2> QED BY <1>1, <2>2, <2>3, <2>4, <2>5 DEF Apart
<1>8. BufferOK(groups', buffered') /\ buffered' \in Int
  <2>1. BufferOK(groups', buffered')
    BY <1>1, <1>2, RemoveBuffer
  <2>2. AllEvents(groups', Project) \in SUBSET Copy
    BY <1>5 DEF GroupsOK, Group, AllEvents
  <2> QED BY <2>1, <2>2, CopyFinite DEF BufferOK
<1>9. HeldOK(groups', commits', rc, rw)
  <2>1. \A p \in Project : \A r \in groups'[p].waiters : Carried(r, groups'[p].events)
    BY <1>4 DEF HeldOK, NoGroup
  <2>2. \A c \in Starting(gs, F) : \A r \in c.waiters : Carried(r, c.events)
    BY <1>2, <1>3 DEF HeldOK
  <2> QED BY <1>1, <1>3, <2>1, <2>2 DEF HeldOK
<1> QED BY <1>1, <1>5, <1>6, <1>7, <1>8, <1>9

-----------------------------------------------------------------------------
(* The initial states and the steps of submit() *)

LEMMA InitInv == Init => Inv
<1> SUFFICES ASSUME Init PROVE Inv
  OBVIOUS
<1>1. NoGroup \in Group /\ Pending \in Ack
  BY PolicyAssumption DEF NoGroup, Group, Pending, Ack, Errors
<1>2. TypeOK
  <2>1. /\ pc \in [Request -> {"new", "checking", "joined", "done"}]
        /\ ack \in [Request -> Ack] /\ groups \in [Project -> Group]
    BY <1>1 DEF Init
  <2>2. /\ receipts \in [Project -> SUBSET Keyed] /\ rows \in [Project -> SUBSET Copy]
        /\ usage \in [Project -> Nat] /\ late \in SUBSET Commit
    BY DEF Init
  <2>3. /\ ahead \in SUBSET (Project \X Project) /\ commits \in SUBSET Commit
        /\ buffered \in Int
    BY DEF Init
  <2>4. draining \in BOOLEAN /\ drained \in BOOLEAN
    <3>1. draining = FALSE /\ drained = FALSE
      BY Zenon DEF Init
    <3> QED BY <3>1
  <2> QED BY <2>1, <2>2, <2>3, <2>4 DEF TypeOK
<1>3. GroupsOK(groups, pc)
  BY <1>2 DEF Init, TypeOK, GroupsOK, NoGroup
<1>4. CommitsOK(commits, pc)
  BY FS_EmptySet, PolicyAssumption DEF Init, CommitsOK
<1>5. Apart(groups, commits)
  BY DEF Init, Apart
<1>6. BufferOK(groups, buffered)
  <2>1. AllEvents(groups, Project) = {}
    BY DEF Init, AllEvents, NoGroup
  <2> QED BY <2>1, FS_EmptySet, PolicyAssumption DEF Init, BufferOK
<1>7. HeldOK(groups, commits, receipts, rows)
  BY DEF Init, HeldOK, NoGroup
<1>8. AckedOK(ack, receipts, rows)
  BY DEF Init, AckedOK, Pending
<1> QED BY <1>2, <1>3, <1>4, <1>5, <1>6, <1>7, <1>8 DEF Inv

\* The answers a request that never joined can get are acknowledgements, and
\* the only one that says Committed is that of an empty batch.
LEMMA AnswersOK ==
    /\ Pending \in Ack /\ Threw \in Ack /\ Threw.kind # "Committed"
    /\ \A why \in Errors : Refused(why) \in Ack /\ Refused(why).kind # "Committed"
    /\ \A m, n \in Nat : Committed(m, n) \in Ack
BY DEF Pending, Threw, Refused, Committed, Ack, Errors

\* Moving a request that waits nowhere disturbs no group and no commit.
LEMMA MoveRequest ==
    ASSUME Inv, NEW r \in Request, pc[r] \in {"new", "checking"},
           NEW to \in {"new", "checking", "joined", "done"}
    PROVE  /\ GroupsOK(groups, [pc EXCEPT ![r] = to])
           /\ CommitsOK(commits, [pc EXCEPT ![r] = to])
           /\ [pc EXCEPT ![r] = to] \in [Request -> {"new", "checking", "joined", "done"}]
           /\ \A p \in Project : r \notin groups[p].waiters
           /\ \A c \in commits : r \notin c.waiters
<1>1. pc \in [Request -> {"new", "checking", "joined", "done"}]
  BY DEF Inv, TypeOK
<1>2. \A p \in Project : r \notin groups[p].waiters
  BY DEF Inv, GroupsOK
<1>3. \A c \in commits : r \notin c.waiters
  BY DEF Inv, CommitsOK
<1>4. GroupsOK(groups, [pc EXCEPT ![r] = to])
  BY <1>1, <1>2 DEF Inv, GroupsOK, Group
<1>5. CommitsOK(commits, [pc EXCEPT ![r] = to])
  BY <1>1, <1>3 DEF Inv, CommitsOK, Commit
<1> QED BY <1>1, <1>2, <1>3, <1>4, <1>5

LEMMA ResolveKeeps ==
    ASSUME Inv, NEW r \in Request, pc[r] \in {"new", "checking"}, NEW answer \in Ack,
           answer.kind = "Committed" => BatchOf[r] = {},
           Resolve(r, answer),
           UNCHANGED <<groupVars, drainVars, durableVars, usage>>
    PROVE  Inv'
<1> USE DEF groupVars, drainVars, durableVars
<1>1. /\ pc' = [pc EXCEPT ![r] = "done"]
      /\ ack' = [ack EXCEPT ![r] = answer]
  BY DEF Resolve
<1>2. GroupsOK(groups', pc') /\ CommitsOK(commits', pc')
  BY <1>1, MoveRequest
<1>3. TypeOK'
  BY <1>1, MoveRequest DEF Inv, TypeOK
<1>4. AckedOK(ack', receipts', rows')
  BY <1>1 DEF Inv, TypeOK, AckedOK, Stored
<1> QED BY <1>2, <1>3, <1>4 DEF Inv

LEMMA SubmitKeeps ==
    ASSUME Inv, NEW r \in Request, Submit(r)
    PROVE  Inv'
<1>1. ASSUME NEW why \in Errors, SubmitRefused(r, why) PROVE Inv'
  BY <1>1, AnswersOK, ResolveKeeps DEF SubmitRefused
<1>2. CASE SubmitEmpty(r)
  BY <1>2, AnswersOK, ResolveKeeps DEF SubmitEmpty
<1>3. CASE SubmitChecks(r)
  <2> USE DEF groupVars, drainVars, durableVars
  <2>1. pc[r] = "new" /\ pc' = [pc EXCEPT ![r] = "checking"]
    BY <1>3 DEF SubmitChecks
  <2>2. GroupsOK(groups, pc') /\ CommitsOK(commits, pc')
    BY <2>1, MoveRequest
  <2>3. TypeOK'
    BY <1>3, <2>1, MoveRequest DEF SubmitChecks, Inv, TypeOK
  <2> QED BY <1>3, <2>2, <2>3 DEF SubmitChecks, Inv
<1> QED BY <1>1, <1>2, <1>3 DEF Submit

\* Joining: before pump() runs, the group has its new waiter with all of its
\* batch in it, the counter has grown by what was added, and the ceiling holds
\* because room was checked after the quota's await.
LEMMA JoinPrepares ==
    ASSUME Inv, NEW r \in Request, pc[r] = "checking", HasRoom(r)
    PROVE  LET p   == ProjectOf[r]
               gs  == [groups EXCEPT ![p] = Joined(r, @)]
               st  == [pc EXCEPT ![r] = "joined"]
               buf == buffered + Cardinality(Contribution(r, groups[p]))
           IN  /\ GroupsOK(gs, st) /\ CommitsOK(commits, st)
               /\ Apart(gs, commits) /\ BufferOK(gs, buf)
               /\ HeldOK(gs, commits, receipts, rows)
               /\ OrderAfterJoin(p) \in SUBSET (Project \X Project)
<1> DEFINE p   == ProjectOf[r]
           gs  == [groups EXCEPT ![p] = Joined(r, @)]
           st  == [pc EXCEPT ![r] = "joined"]
           new == Contribution(r, groups[p])
           buf == buffered + Cardinality(new)
<1>1. p \in Project /\ groups[p] \in Group /\ groups \in [Project -> Group]
  BY RequestsAssumption DEF Inv, TypeOK
<1>2. new \in SUBSET Copy /\ \A x \in new : x[1] = r /\ x[2] \in BatchOf[r]
  BY RequestsAssumption DEF Contribution, Unique, Copy
<1>3. /\ gs[p].events = groups[p].events \cup new
      /\ gs[p].waiters = groups[p].waiters \cup {r}
      /\ gs[p].age = groups[p].age
      /\ \A q \in Project : q # p => gs[q] = groups[q]
      /\ gs \in [Project -> Group]
  <2>1. Joined(r, groups[p]) = [events |-> groups[p].events \cup new,
                                waiters |-> groups[p].waiters \cup {r},
                                age |-> groups[p].age]
    BY DEF Joined
  <2>2. Joined(r, groups[p]) \in Group
    BY <1>1, <1>2, <2>1 DEF Group
  <2> QED BY <1>1, <2>1, <2>2
<1>4. /\ GroupsOK(groups, st) /\ CommitsOK(commits, st)
      /\ \A q \in Project : r \notin groups[q].waiters
      /\ \A c \in commits : r \notin c.waiters
  BY MoveRequest
<1>5. GroupsOK(gs, st)
  <2>1. st[r] = "joined" /\ ProjectOf[r] = p
    BY DEF Inv, TypeOK
  <2> HIDE DEF gs, st, p, new
  <2> QED BY <1>1, <1>2, <1>3, <1>4, <2>1 DEF GroupsOK
<1>6. Apart(gs, commits)
  <2> HIDE DEF gs, st, p, new
  <2> QED BY <1>1, <1>3, <1>4 DEF Inv, Apart
<1>7. BufferOK(gs, buf)
  <2>1. AllEvents(gs, Project) = AllEvents(groups, Project) \cup new
    <3> HIDE DEF gs, p, new
    <3> QED BY <1>1, <1>3 DEF AllEvents
  <2>2. AllEvents(groups, Project) \cap new = {}
    <3>1. ASSUME NEW x \in new, NEW q \in Project, x \in groups[q].events PROVE FALSE
      BY <1>2, <1>4, <3>1 DEF GroupsOK
    <3> HIDE DEF p, new
    <3> QED BY <3>1 DEF AllEvents
  <2>3. AllEvents(groups, Project) \in SUBSET Copy
    BY DEF Inv, TypeOK, Group, AllEvents
  <2>4. /\ Cardinality(AllEvents(gs, Project)) = buf
        /\ Cardinality(new) \in Nat
    <3> DEFINE A == AllEvents(groups, Project)
    <3>1. buffered = Cardinality(A)
      BY DEF Inv, BufferOK
    <3>2. /\ IsFiniteSet(A) /\ Cardinality(A) \in Nat
          /\ IsFiniteSet(new) /\ Cardinality(new) \in Nat
      BY <1>2, <2>3, CopyFinite
    <3>3. Cardinality(A \cup new) = Cardinality(A) + Cardinality(new) - Cardinality(A \cap new)
      <4> HIDE DEF A, new
      <4> QED BY <3>2, FS_Union
    <3>4. Cardinality(A \cap new) = 0
      BY <2>2, FS_EmptySet
    <3>5. AllEvents(gs, Project) = A \cup new /\ buf = buffered + Cardinality(new)
      BY <2>1
    <3> HIDE DEF A, new, gs, buf
    <3> QED BY <3>1, <3>2, <3>3, <3>4, <3>5
  <2>5. buf <= MaxBuffered
    <3>1. /\ Cardinality(new) <= Cardinality(BatchOf[r])
          /\ Cardinality(BatchOf[r]) \in Nat
      BY ContributionBounded
    <3>2. buffered \in Int
      BY DEF Inv, TypeOK
    <3> QED BY <2>4, <3>1, <3>2, PolicyAssumption DEF HasRoom
  <2> QED BY <2>4, <2>5 DEF BufferOK
<1>8. HeldOK(gs, commits, receipts, rows)
  <2>1. Carried(r, gs[p].events)
    <3>1. ASSUME NEW e \in BatchOf[r]
          PROVE  IF e \in Keyed THEN e \in EventsIn(gs[p].events)
                                ELSE <<r, e>> \in gs[p].events
      <4>1. CASE e \in Keyed /\ e \in EventsIn(groups[p].events)
        BY <1>3, <4>1 DEF EventsIn
      <4>2. CASE ~(e \in Keyed /\ e \in EventsIn(groups[p].events))
        <5>1. <<r, e>> \in new
          BY <4>2 DEF Contribution, Unique
        <5>2. <<r, e>> \in gs[p].events /\ <<r, e>>[2] = e
          BY <1>3, <5>1
        <5> QED BY <5>2 DEF EventsIn
      <4> QED BY <4>1, <4>2
    <3> QED BY <3>1 DEF Carried
  <2>2. \A q \in Project : \A s \in groups[q].waiters :
            Carried(s, groups[q].events) => Carried(s, gs[q].events)
    <3> HIDE DEF gs, p, new
    <3> QED BY <1>3 DEF Carried, EventsIn
  <2> HIDE DEF gs, p, new
  <2> QED BY <1>3, <2>1, <2>2 DEF Inv, HeldOK
<1>9. OrderAfterJoin(p) \in SUBSET (Project \X Project)
  BY <1>1 DEF OrderAfterJoin, Inv, TypeOK
<1> QED BY <1>4, <1>5, <1>6, <1>7, <1>8, <1>9

LEMMA QuotaKeeps ==
    ASSUME Inv, NEW r \in Request, QuotaAnswers(r)
    PROVE  Inv'
<1>1. CASE QuotaRefuses(r)
  <2>1. PICK answer \in {Refused("PlanExceeded"), Refused("RateLimited"), Threw} :
            Resolve(r, answer)
    BY <1>1 DEF QuotaRefuses
  <2>2. answer \in Ack /\ answer.kind # "Committed"
    BY AnswersOK DEF Errors
  <2> QED BY <1>1, <2>1, <2>2, ResolveKeeps DEF QuotaRefuses
<1>2. CASE QuotaAllowsNoRoom(r)
  <2>1. Refused("RateLimited") \in Ack /\ Refused("RateLimited").kind # "Committed"
    BY AnswersOK DEF Errors
  <2> QED BY <1>2, <2>1, ResolveKeeps DEF QuotaAllowsNoRoom
<1>3. CASE QuotaAllowsJoin(r)
  <2>1. /\ pc[r] = "checking" /\ HasRoom(r)
        /\ pc' = [pc EXCEPT ![r] = "joined"]
        /\ Pump([groups EXCEPT ![ProjectOf[r]] = Joined(r, @)],
                OrderAfterJoin(ProjectOf[r]), commits,
                buffered + Cardinality(Contribution(r, groups[ProjectOf[r]])), draining)
        /\ ack' = ack /\ draining' = draining /\ drained' = drained
        /\ receipts' = receipts /\ rows' = rows /\ late' = late /\ usage' = usage
    BY <1>3 DEF QuotaAllowsJoin, drainVars, durableVars
  <2>2. /\ GroupsOK(groups', pc') /\ CommitsOK(commits', pc')
        /\ Apart(groups', commits') /\ BufferOK(groups', buffered')
        /\ HeldOK(groups', commits', receipts, rows)
        /\ ahead' \in SUBSET (Project \X Project) /\ buffered' \in Int
    BY <2>1, JoinPrepares, PumpKeeps
  <2>3. pc' \in [Request -> {"new", "checking", "joined", "done"}]
    BY <2>1, MoveRequest
  <2>4. TypeOK'
    BY <2>1, <2>2, <2>3 DEF Inv, TypeOK, GroupsOK, CommitsOK
  <2> QED BY <2>1, <2>2, <2>4 DEF Inv
<1> QED BY <1>1, <1>2, <1>3 DEF QuotaAnswers

-----------------------------------------------------------------------------
(* Time, tick() and drain() *)

LEMMA AdvanceKeeps ==
    ASSUME Inv, Advance
    PROVE  Inv'
<1>1. /\ groups' = [p \in Project |->
              IF groups[p].waiters # {} /\ groups[p].age < Linger
              THEN [groups[p] EXCEPT !.age = @ + 1] ELSE groups[p]]
      /\ UNCHANGED <<requestVars, ahead, commits, buffered, drainVars, durableVars, usage>>
  BY DEF Advance
<1>2. groups \in [Project -> Group]
  BY DEF Inv, TypeOK
<1>3. ASSUME NEW p \in Project
      PROVE  /\ groups'[p] \in Group
             /\ groups'[p].events = groups[p].events
             /\ groups'[p].waiters = groups[p].waiters
  <2>1. groups[p].age \in 0..Linger
    BY <1>2 DEF Group
  <2>2. CASE groups[p].waiters # {} /\ groups[p].age < Linger
    <3>1. groups'[p] = [groups[p] EXCEPT !.age = groups[p].age + 1]
      BY <1>1, <2>2
    <3>2. groups[p].age + 1 \in 0..Linger
      BY <2>1, <2>2, PolicyAssumption
    <3> QED BY <1>2, <3>1, <3>2 DEF Group
  <2>3. CASE ~(groups[p].waiters # {} /\ groups[p].age < Linger)
    BY <1>1, <1>2, <2>3
  <2> QED BY <2>2, <2>3
<1>4. groups' \in [Project -> Group]
  BY <1>1, <1>3
<1>5. TypeOK'
  BY <1>1, <1>4 DEF Inv, TypeOK, requestVars, drainVars, durableVars
<1>6. GroupsOK(groups', pc') /\ CommitsOK(commits', pc')
  BY <1>1, <1>3, <1>4 DEF Inv, GroupsOK, requestVars
<1>7. Apart(groups', commits')
  BY <1>1, <1>3 DEF Inv, Apart
<1>8. BufferOK(groups', buffered')
  <2>1. AllEvents(groups', Project) = AllEvents(groups, Project)
    BY <1>3 DEF AllEvents
  <2> QED BY <1>1, <2>1 DEF Inv, BufferOK
<1>9. HeldOK(groups', commits', receipts', rows') /\ AckedOK(ack', receipts', rows')
  BY <1>1, <1>3 DEF Inv, HeldOK, requestVars, durableVars
<1> QED BY <1>5, <1>6, <1>7, <1>8, <1>9 DEF Inv

\* Tick, Drain and CommitEnds only call pump().
LEMMA OnlyPumpKeeps ==
    ASSUME Inv, NEW cs \in SUBSET commits, NEW dr \in BOOLEAN,
           Pump(groups, ahead, cs, buffered, dr),
           UNCHANGED <<requestVars, drained, durableVars, usage>>,
           draining' \in BOOLEAN
    PROVE  Inv'
<1> USE DEF requestVars, durableVars
<1>1. CommitsOK(cs, pc)
  <2>1. IsFiniteSet(cs) /\ Cardinality(cs) <= Cardinality(commits)
    BY FS_Subset DEF Inv, CommitsOK
  <2>2. Cardinality(cs) \in Nat /\ Cardinality(commits) \in Nat
    BY <2>1, FS_CardinalityType DEF Inv, CommitsOK
  <2> QED BY <2>1, <2>2, PolicyAssumption DEF Inv, CommitsOK
<1>2. Apart(groups, cs) /\ HeldOK(groups, cs, receipts, rows)
  BY DEF Inv, Apart, HeldOK
<1>3. /\ GroupsOK(groups', pc) /\ CommitsOK(commits', pc)
      /\ Apart(groups', commits') /\ BufferOK(groups', buffered')
      /\ HeldOK(groups', commits', receipts, rows)
      /\ ahead' \in SUBSET (Project \X Project) /\ buffered' \in Int
  <2>1. ahead \in SUBSET (Project \X Project)
    BY DEF Inv, TypeOK
  <2> QED BY <1>1, <1>2, <2>1, PumpKeeps DEF Inv
<1>4. TypeOK'
  BY <1>3 DEF Inv, TypeOK, GroupsOK, CommitsOK
<1> QED BY <1>3, <1>4 DEF Inv

LEMMA ClockKeeps ==
    ASSUME Inv, Tick \/ Drain \/ DrainResolves
    PROVE  Inv'
<1> USE DEF drainVars
<1>1. CASE Tick
  BY <1>1, OnlyPumpKeeps DEF Tick, Inv, TypeOK
<1>2. CASE Drain
  BY <1>2, OnlyPumpKeeps DEF Drain, Inv, TypeOK
<1>3. CASE DrainResolves
  BY <1>3 DEF DrainResolves, Inv, TypeOK, requestVars, groupVars, durableVars
<1> QED BY <1>1, <1>2, <1>3

-----------------------------------------------------------------------------
(* commit(): the sink's answer and the acknowledgements *)

\* A commit that moves to its next phase keeps its waiters and its events, and
\* is still one commit.
LEMMA MoveCommit ==
    ASSUME Inv, NEW c \in commits, NEW ph \in {"written", "recorded", "settled"},
           NEW W \in SUBSET c.events, MoveTo(c, ph, W)
    PROVE  \E d \in Commit :
             /\ commits' = (commits \ {c}) \cup {d}
             /\ d.project = c.project /\ d.events = c.events /\ d.waiters = c.waiters
             /\ d.phase = ph /\ d.written = W
             /\ commits' \in SUBSET Commit
             /\ IsFiniteSet(commits') /\ Cardinality(commits') <= MaxInFlight
             /\ Apart(groups, commits')
<1> DEFINE d == [c EXCEPT !.phase = ph, !.written = W]
<1>1. /\ c \in Commit /\ commits \in SUBSET Commit
      /\ IsFiniteSet(commits) /\ Cardinality(commits) <= MaxInFlight
  BY DEF Inv, CommitsOK
<1>2. /\ d \in Commit
      /\ d.project = c.project /\ d.events = c.events /\ d.waiters = c.waiters
      /\ d.phase = ph /\ d.written = W
  BY <1>1 DEF Commit
<1>3. commits' = (commits \ {c}) \cup {d}
  BY DEF MoveTo
<1>4. IsFiniteSet(commits') /\ Cardinality(commits') <= MaxInFlight
  <2> HIDE DEF d
  <2>1. /\ IsFiniteSet(commits \ {c}) /\ Cardinality(commits) \in Nat
        /\ Cardinality(commits \ {c}) = Cardinality(commits) - 1
    BY <1>1, FS_RemoveElement, FS_CardinalityType
  <2>2. /\ IsFiniteSet((commits \ {c}) \cup {d})
        /\ Cardinality((commits \ {c}) \cup {d}) <= Cardinality(commits)
    <3> DEFINE S == commits \ {c}
    <3>1. IsFiniteSet(S) /\ Cardinality(S) = Cardinality(commits) - 1
      BY <2>1
    <3>2. IsFiniteSet(S \cup {d}) /\ Cardinality(S \cup {d})
                 = IF d \in S THEN Cardinality(S) ELSE Cardinality(S) + 1
      <4> HIDE DEF S
      <4> QED BY <3>1, FS_AddElement
    <3>3. Cardinality(S \cup {d}) <= Cardinality(commits)
      <4> HIDE DEF S
      <4> QED BY <2>1, <3>1, <3>2
    <3> QED BY <3>2, <3>3
  <2>3. Cardinality((commits \ {c}) \cup {d}) \in Nat
    BY <2>2, FS_CardinalityType
  <2> QED BY <1>1, <1>3, <2>1, <2>2, <2>3, PolicyAssumption
<1>5. Apart(groups, commits')
  <2> HIDE DEF d
  <2> QED BY <1>2, <1>3 DEF Inv, Apart
<1> HIDE DEF d
<1> QED BY <1>1, <1>2, <1>3, <1>4, <1>5

\* A step of a commit that settles nobody.
LEMMA MoveKeeps ==
    ASSUME Inv, NEW c \in commits, c.phase # "settled",
           NEW ph \in {"written", "recorded"},
           NEW W \in SUBSET c.events, MoveTo(c, ph, W),
           UNCHANGED <<requestVars, groups, ahead, buffered, drainVars, late>>,
           receipts' \in [Project -> SUBSET Keyed], rows' \in [Project -> SUBSET Copy],
           usage' \in [Project -> Nat],
           \A p \in Project : receipts[p] \subseteq receipts'[p] /\ rows[p] \subseteq rows'[p],
           \A r \in c.waiters : Stored(r, receipts', rows')
    PROVE  Inv'
<1> USE DEF requestVars, drainVars
<1>1. PICK d \in Commit :
        /\ commits' = (commits \ {c}) \cup {d}
        /\ d.project = c.project /\ d.events = c.events /\ d.waiters = c.waiters
        /\ d.phase = ph /\ d.written = W
        /\ commits' \in SUBSET Commit
        /\ IsFiniteSet(commits') /\ Cardinality(commits') <= MaxInFlight
        /\ Apart(groups, commits')
  BY MoveCommit
<1>2. \A r \in Request : Stored(r, receipts, rows) => Stored(r, receipts', rows')
  BY RequestsAssumption DEF Stored
<1>3. CommitsOK(commits', pc')
  BY <1>1 DEF Inv, CommitsOK
<1>4. HeldOK(groups', commits', receipts', rows')
  <2>1. \A b \in commits : b.waiters \subseteq Request
    BY DEF Inv, CommitsOK, Commit
  <2> QED BY <1>1, <1>2, <2>1 DEF Inv, HeldOK
<1>5. AckedOK(ack', receipts', rows')
  BY <1>2 DEF Inv, AckedOK
<1>6. TypeOK'
  BY <1>1 DEF Inv, TypeOK
<1> QED BY <1>1, <1>3, <1>4, <1>5, <1>6 DEF Inv

\* One transaction of the sink stores everything its group carried, either now
\* or, for a receipt that was already there, in an earlier one.
LEMMA SinkCommitsKeeps ==
    ASSUME Inv, NEW c \in commits, SinkCommits(c)
    PROVE  Inv'
<1> USE DEF requestVars, drainVars, durableVars
<1>1. PICK W \in SUBSET c.events :
        /\ Stores(c, W)
        /\ receipts' = [receipts EXCEPT ![c.project] = @ \cup (EventsIn(W) \cap Keyed)]
        /\ rows' = [rows EXCEPT ![c.project] = @ \cup W]
        /\ MoveTo(c, "written", W)
  BY DEF SinkCommits, Store
<1>2. /\ c.phase = "writing"
      /\ UNCHANGED <<requestVars, groups, ahead, buffered, drainVars, late, usage>>
  BY DEF SinkCommits
<1>3. /\ c \in Commit /\ c.project \in Project /\ c.events \in SUBSET Copy
      /\ c.waiters \in SUBSET Request
  BY DEF Inv, CommitsOK, Commit
<1>4. /\ receipts \in [Project -> SUBSET Keyed] /\ rows \in [Project -> SUBSET Copy]
      /\ usage \in [Project -> Nat]
  BY DEF Inv, TypeOK
<1>5. /\ receipts' \in [Project -> SUBSET Keyed] /\ rows' \in [Project -> SUBSET Copy]
      /\ \A p \in Project : receipts[p] \subseteq receipts'[p] /\ rows[p] \subseteq rows'[p]
  BY <1>1, <1>3, <1>4
<1>6. ASSUME NEW r \in c.waiters, NEW e \in BatchOf[r]
      PROVE  IF e \in Keyed THEN e \in receipts'[ProjectOf[r]]
                            ELSE <<r, e>> \in rows'[ProjectOf[r]]
  <2>1. ProjectOf[r] = c.project /\ Carried(r, c.events)
    BY <1>2 DEF Inv, CommitsOK, HeldOK
  <2>2. CASE e \in Keyed
    <3>1. e \in EventsIn(c.events) \cap Keyed
      BY <2>1, <2>2 DEF Carried
    <3>2. e \in receipts[c.project] \/ \E x \in W : x[2] = e
      BY <1>1, <3>1 DEF Stores
    <3>3. e \in receipts[c.project] \/ e \in EventsIn(W) \cap Keyed
      BY <2>2, <3>2 DEF EventsIn
    <3> QED BY <1>1, <1>3, <1>4, <2>1, <2>2, <3>3
  <2>3. CASE e \notin Keyed
    <3>1. <<r, e>> \in c.events
      BY <2>1, <2>3 DEF Carried
    <3>2. <<r, e>> \in W
      BY <1>1, <2>3, <3>1 DEF Stores
    <3> QED BY <1>1, <1>3, <1>4, <2>1, <2>3, <3>2
  <2> QED BY <2>2, <2>3
<1>7. \A r \in c.waiters : Stored(r, receipts', rows')
  BY <1>6 DEF Stored
<1> QED BY <1>1, <1>2, <1>4, <1>5, <1>7, MoveKeeps

LEMMA RecordUsageKeeps ==
    ASSUME Inv, NEW c \in commits, RecordUsage(c)
    PROVE  Inv'
<1> USE DEF requestVars, drainVars, durableVars
<1>1. /\ c.phase = "written" /\ MoveTo(c, "recorded", c.written)
      /\ UNCHANGED <<requestVars, groups, ahead, buffered, drainVars, durableVars>>
  BY DEF RecordUsage
<1>2. c \in Commit /\ c.written \in SUBSET c.events /\ c.written \in SUBSET Copy
  BY DEF Inv, CommitsOK, Commit
<1>3. Cardinality(c.written) \in Nat
  BY <1>2, CopyFinite
<1>4. usage' \in [Project -> Nat]
  <2>1. PICK counted \in {0, Cardinality(c.written)} :
            usage' = [usage EXCEPT ![c.project] = @ + counted]
    BY DEF RecordUsage
  <2>2. counted \in Nat /\ usage \in [Project -> Nat]
    BY <1>3 DEF Inv, TypeOK
  <2>3. \A p \in Project : usage[p] + counted \in Nat /\ usage[p] \in Nat
    BY <2>2
  <2> QED BY <2>1, <2>2, <2>3
<1>5. \A r \in c.waiters : Stored(r, receipts', rows')
  BY <1>1 DEF Inv, HeldOK
<1>6. receipts' \in [Project -> SUBSET Keyed] /\ rows' \in [Project -> SUBSET Copy]
  BY <1>1 DEF Inv, TypeOK
<1>7. \A p \in Project : receipts[p] \subseteq receipts'[p] /\ rows[p] \subseteq rows'[p]
  BY <1>1
<1> QED BY <1>1, <1>2, <1>4, <1>5, <1>6, <1>7, MoveKeeps

\* A commit that settles: its waiters are done, and those told Committed find
\* their whole batch in the store.
LEMMA SettleKeeps ==
    ASSUME Inv, NEW c \in commits, c.phase # "settled",
           NEW W \in SUBSET c.events, MoveTo(c, "settled", W),
           pc' = [r \in Request |-> IF r \in c.waiters THEN "done" ELSE pc[r]],
           \A r \in Request : ack'[r] = ack[r] \/
               (r \in c.waiters /\ (ack'[r].kind = "Committed" => Stored(r, receipts, rows))),
           ack' \in [Request -> Ack], late' \in SUBSET Commit,
           UNCHANGED <<groups, ahead, buffered, drainVars, receipts, rows, usage>>
    PROVE  Inv'
<1> USE DEF drainVars
<1>1. PICK d \in Commit :
        /\ commits' = (commits \ {c}) \cup {d}
        /\ d.project = c.project /\ d.events = c.events /\ d.waiters = c.waiters
        /\ d.phase = "settled" /\ d.written = W
        /\ commits' \in SUBSET Commit
        /\ IsFiniteSet(commits') /\ Cardinality(commits') <= MaxInFlight
        /\ Apart(groups, commits')
  BY MoveCommit
<1>2. c \in Commit /\ commits \in SUBSET Commit /\ \A b \in commits : b.waiters \in SUBSET Request
  BY DEF Inv, CommitsOK, Commit
<1>3. pc' \in [Request -> {"new", "checking", "joined", "done"}]
  BY DEF Inv, TypeOK
<1>4. CommitsOK(commits', pc')
  <2>1. ASSUME NEW b \in commits', NEW r \in b.waiters
        PROVE  ProjectOf[r] = b.project
               /\ pc'[r] = IF b.phase = "settled" THEN "done" ELSE "joined"
    <3>1. CASE b = d
      BY <1>1, <1>2, <3>1 DEF Inv, CommitsOK
    <3>2. CASE b \in commits /\ b # c
      <4>1. r \notin c.waiters /\ r \in Request
        BY <1>2, <3>2 DEF Inv, Apart
      <4> QED BY <3>2, <4>1 DEF Inv, CommitsOK
    <3> QED BY <1>1, <3>1, <3>2
  <2>2. \A b \in commits' : /\ b.written \subseteq b.events
                            /\ \A x \in b.events : x[1] \in b.waiters /\ x[2] \in BatchOf[x[1]]
    BY <1>1 DEF Inv, CommitsOK
  <2> QED BY <1>1, <2>1, <2>2 DEF CommitsOK
<1>5. GroupsOK(groups', pc')
  <2>1. ASSUME NEW p \in Project, NEW r \in groups[p].waiters
        PROVE  pc'[r] = pc[r]
    <3>1. r \notin c.waiters /\ r \in Request
      BY DEF Inv, Apart, TypeOK, Group
    <3> QED BY <3>1
  <2> QED BY <2>1 DEF Inv, GroupsOK
<1>6. HeldOK(groups', commits', receipts', rows')
  BY <1>1 DEF Inv, HeldOK
<1>7. AckedOK(ack', receipts', rows')
  BY DEF Inv, AckedOK
<1>8. TypeOK'
  BY <1>1, <1>3 DEF Inv, TypeOK
<1> QED BY <1>1, <1>4, <1>5, <1>6, <1>7, <1>8 DEF Inv

LEMMA RefusalKeeps ==
    ASSUME Inv, NEW c \in commits, SinkFails(c) \/ ReceiptLost(c)
    PROVE  Inv'
<1>1. c.written \in SUBSET c.events
  BY DEF Inv, CommitsOK
<1>2. PICK W \in SUBSET c.events : MoveTo(c, "settled", W)
  BY <1>1 DEF SinkFails, ReceiptLost
<1>3. /\ c.phase # "settled"
      /\ pc' = [r \in Request |-> IF r \in c.waiters THEN "done" ELSE pc[r]]
      /\ ack' = [r \in Request |->
                    IF r \in c.waiters THEN Refused("SinkUnavailable") ELSE ack[r]]
      /\ UNCHANGED <<groups, ahead, buffered, drainVars, receipts, rows, usage>>
      /\ late' \in SUBSET Commit
  BY DEF SinkFails, ReceiptLost, SettleAll, durableVars, Inv, TypeOK, CommitsOK
<1>4. Refused("SinkUnavailable") \in Ack /\ Refused("SinkUnavailable").kind # "Committed"
  BY AnswersOK DEF Errors
<1>5. ack' \in [Request -> Ack]
  BY <1>3, <1>4 DEF Inv, TypeOK
<1>6. \A r \in Request : ack'[r] = ack[r] \/
          (r \in c.waiters /\ (ack'[r].kind = "Committed" => Stored(r, receipts, rows)))
  BY <1>3, <1>4
<1> QED BY <1>2, <1>3, <1>5, <1>6, SettleKeeps

LEMMA SettleCommittedKeeps ==
    ASSUME Inv, NEW c \in commits, SettleCommitted(c)
    PROVE  Inv'
<1> DEFINE Answer(r) == Committed(Accepted(c, r), Cardinality(BatchOf[r]) - Accepted(c, r))
<1>1. /\ c \in Commit /\ c.written \in SUBSET c.events /\ c.written \in SUBSET Copy
      /\ \A x \in c.written : x[2] \in BatchOf[x[1]]
  BY DEF Inv, CommitsOK, Commit
<1>2. /\ c.phase = "recorded" /\ MoveTo(c, "settled", c.written)
      /\ pc' = [r \in Request |-> IF r \in c.waiters THEN "done" ELSE pc[r]]
      /\ ack' = [r \in Request |-> IF r \in c.waiters THEN Answer(r) ELSE ack[r]]
      /\ UNCHANGED <<groups, ahead, buffered, drainVars, receipts, rows, usage>>
      /\ late' \in SUBSET Commit
  BY DEF SettleCommitted, SettleAll, durableVars, Inv, TypeOK
<1>3. \A r \in Request : Answer(r) \in Ack
  BY <1>1, AcceptedBounded, AnswersOK DEF Accepted
<1>4. \A r \in c.waiters : Stored(r, receipts, rows)
  BY <1>2 DEF Inv, HeldOK
<1> HIDE DEF Answer
<1>5. ack' \in [Request -> Ack]
  BY <1>2, <1>3 DEF Inv, TypeOK
<1>6. \A r \in Request : ack'[r] = ack[r] \/
          (r \in c.waiters /\ (ack'[r].kind = "Committed" => Stored(r, receipts, rows)))
  BY <1>2, <1>4
<1> QED BY <1>1, <1>2, <1>5, <1>6, SettleKeeps

LEMMA CommitKeeps ==
    ASSUME Inv, NEW c \in commits, CommitStep(c)
    PROVE  Inv'
<1>1. CASE CommitEnds(c)
  BY <1>1, OnlyPumpKeeps DEF CommitEnds, drainVars, Inv, TypeOK
<1> QED BY <1>1, SinkCommitsKeeps, RefusalKeeps, RecordUsageKeeps, SettleCommittedKeeps
        DEF CommitStep, SinkAnswers

\* A transaction that ends after its failure was answered only adds to the
\* store: whatever was durable stays durable.
LEMMA LateCommitKeeps ==
    ASSUME Inv, NEW c \in late, SinkCommitsLate(c)
    PROVE  Inv'
<1>1. PICK W \in SUBSET c.events :
        /\ receipts' = [receipts EXCEPT ![c.project] = @ \cup (EventsIn(W) \cap Keyed)]
        /\ rows' = [rows EXCEPT ![c.project] = @ \cup W]
  BY DEF SinkCommitsLate, Store
<1>2. /\ late' = late \ {c}
      /\ UNCHANGED <<pc, ack, groups, ahead, commits, buffered, draining, drained, usage>>
  BY DEF SinkCommitsLate, requestVars, groupVars, drainVars
<1>3. c.project \in Project /\ c.events \in SUBSET Copy
  BY DEF Inv, TypeOK, Commit
<1>4. receipts \in [Project -> SUBSET Keyed] /\ rows \in [Project -> SUBSET Copy]
  BY DEF Inv, TypeOK
<1>5. /\ receipts' \in [Project -> SUBSET Keyed] /\ rows' \in [Project -> SUBSET Copy]
      /\ \A p \in Project : receipts[p] \subseteq receipts'[p] /\ rows[p] \subseteq rows'[p]
  BY <1>1, <1>3, <1>4
<1>6. \A r \in Request : Stored(r, receipts, rows) => Stored(r, receipts', rows')
  BY <1>5, RequestsAssumption DEF Stored
<1>7. HeldOK(groups, commits, receipts', rows')
  <2>1. \A b \in commits : b.waiters \subseteq Request
    BY DEF Inv, CommitsOK, Commit
  <2> QED BY <1>6, <2>1 DEF Inv, HeldOK
<1>8. AckedOK(ack, receipts', rows')
  BY <1>6 DEF Inv, AckedOK
<1>9. TypeOK'
  BY <1>2, <1>5 DEF Inv, TypeOK
<1> QED BY <1>2, <1>7, <1>8, <1>9 DEF Inv

-----------------------------------------------------------------------------
(* The theorems *)

\* The invariant holds in every state of every behaviour: at the start, and
\* after every handler of GroupCommit.
THEOREM InvHolds == Spec => []Inv
<1>1. Inv /\ [Next]_vars => Inv'
  <2> SUFFICES ASSUME Inv, [Next]_vars PROVE Inv'
    OBVIOUS
  <2>1. CASE UNCHANGED vars
    BY <2>1 DEF vars, Inv, TypeOK
  <2>2. CASE Finished
    BY <2>2 DEF Finished, vars, Inv, TypeOK
  <2> QED BY <2>1, <2>2, SubmitKeeps, QuotaKeeps, CommitKeeps, LateCommitKeeps,
             AdvanceKeeps, ClockKeeps DEF Next
<1> QED BY <1>1, InitInv, PTL DEF Spec

\* Every variable keeps its type; in particular the counts of an
\* acknowledgement are never negative.
THEOREM TypesHold == Spec => []TypeOK
<1>1. Inv => TypeOK
  BY DEF Inv
<1> QED BY <1>1, InvHolds, PTL

\* "submit resolves when the events are durable" (group-commit.ts:12), for any
\* number of overlapping and concurrent requests.
THEOREM AcknowledgedIsDurable == Spec => []AckedIsDurable
<1>1. Inv => AckedIsDurable
  BY DEF Inv, AckedOK, Stored, AckedIsDurable
<1> QED BY <1>1, InvHolds, PTL

\* The counter #buffered is exact and never passes policy.maxBuffered.
THEOREM BufferIsBounded == Spec => []BufferBounded
<1>1. Inv => BufferBounded
  BY DEF Inv, BufferOK, BufferBounded
<1> QED BY <1>1, InvHolds, PTL

\* No interleaving runs more than policy.maxInFlight commits.
THEOREM InFlightIsBounded == Spec => []InFlightBounded
<1>1. Inv => InFlightBounded
  BY DEF Inv, CommitsOK, InFlightBounded
<1> QED BY <1>1, InvHolds, PTL

\* One transaction adds at most one row for a keyed event, and only when it
\* also adds the receipt.
LEMMA StoreKeepsOneRow ==
    ASSUME Inv, OneRowPerKey, NEW c \in Commit, NEW W \in SUBSET c.events, Store(c, W)
    PROVE  OneRowPerKey'
<1>1. /\ Stores(c, W)
      /\ receipts' = [receipts EXCEPT ![c.project] = @ \cup (EventsIn(W) \cap Keyed)]
      /\ rows' = [rows EXCEPT ![c.project] = @ \cup W]
  BY DEF Store
<1>2. /\ c.project \in Project /\ c.events \in SUBSET Copy
      /\ receipts \in [Project -> SUBSET Keyed] /\ rows \in [Project -> SUBSET Copy]
  BY DEF Inv, TypeOK, Commit
<1>3. ASSUME NEW p \in Project, NEW e \in Keyed
      PROVE  Cardinality({x \in rows'[p] : x[2] = e}) = IF e \in receipts'[p] THEN 1 ELSE 0
  <2> DEFINE Before == {x \in rows[p] : x[2] = e}
             After  == {x \in rows'[p] : x[2] = e}
             New    == {x \in W : x[2] = e}
  <2>1. Cardinality(Before) = IF e \in receipts[p] THEN 1 ELSE 0
    BY DEF OneRowPerKey
  <2>2. CASE p # c.project
    <3>1. rows'[p] = rows[p] /\ receipts'[p] = receipts[p]
      BY <1>1, <1>2, <2>2
    <3> QED BY <2>1, <3>1
  <2>3. CASE p = c.project /\ New = {}
    <3>1. After = Before
      BY <1>1, <1>2, <2>3
    <3>2. e \notin EventsIn(W)
      BY <2>3 DEF EventsIn
    <3>3. e \in receipts'[p] <=> e \in receipts[p]
      BY <1>1, <1>2, <2>3, <3>2
    <3> QED BY <2>1, <3>1, <3>3
  <2>4. CASE p = c.project /\ New # {}
    <3>1. e \in EventsIn(W)
      BY <2>4 DEF EventsIn
    <3>2. e \in EventsIn(c.events) \cap Keyed
      BY <3>1 DEF EventsIn
    <3>3. e \notin receipts[p] /\ \E x \in c.events : New = {x}
      BY <1>1, <2>4, <3>1, <3>2 DEF Stores
    <3>4. Before = {}
      <4>1. Before \in SUBSET Copy
        BY <1>2
      <4> HIDE DEF Before
      <4> QED BY <2>1, <3>3, <4>1, CopyFinite, FS_EmptySet
    <3>5. After = Before \cup New
      BY <1>1, <1>2, <2>4
    <3>6. Cardinality(After) = 1
      <4> HIDE DEF After, Before, New
      <4> QED BY <3>3, <3>4, <3>5, FS_Singleton
    <3>7. e \in receipts'[p]
      BY <1>1, <1>2, <2>4, <3>1
    <3> QED BY <3>6, <3>7
  <2> QED BY <2>2, <2>3, <2>4
<1> QED BY <1>3 DEF OneRowPerKey

\* A keyed event has one row exactly when it has a receipt, across resends,
\* overlapping batches, concurrent commits and lost answers.
THEOREM RowsAreUnique == Spec => []OneRowPerKey
<1>1. Init => OneRowPerKey
  BY FS_EmptySet DEF Init, OneRowPerKey
<1>2. Inv /\ OneRowPerKey /\ [Next]_vars => OneRowPerKey'
  <2> SUFFICES ASSUME Inv, OneRowPerKey, [Next]_vars PROVE OneRowPerKey'
    OBVIOUS
  <2>1. ASSUME UNCHANGED <<receipts, rows>> PROVE OneRowPerKey'
    BY <2>1 DEF OneRowPerKey
  <2>2. CASE UNCHANGED vars
    BY <2>1, <2>2 DEF vars
  <2>3. ASSUME NEW r \in Request, Submit(r) \/ QuotaAnswers(r) PROVE OneRowPerKey'
    BY <2>1, <2>3 DEF Submit, SubmitRefused, SubmitEmpty, SubmitChecks,
          QuotaAnswers, QuotaRefuses, QuotaAllowsNoRoom, QuotaAllowsJoin, durableVars
  <2>4. ASSUME NEW c \in commits, CommitStep(c) PROVE OneRowPerKey'
    <3>1. CASE SinkCommits(c)
      <4>1. c \in Commit /\ \E W \in SUBSET c.events : Store(c, W)
        BY <3>1 DEF SinkCommits, Inv, CommitsOK
      <4> QED BY <4>1, StoreKeepsOneRow
    <3>2. CASE ~SinkCommits(c)
      BY <2>1, <2>4, <3>2 DEF CommitStep, SinkAnswers, SinkFails, ReceiptLost,
            RecordUsage, SettleCommitted, CommitEnds, durableVars
    <3> QED BY <3>1, <3>2
  <2>5. CASE Advance \/ Tick \/ Drain \/ DrainResolves \/ Finished
    BY <2>1, <2>5 DEF Advance, Tick, Drain, DrainResolves, Finished, vars, durableVars
  <2>6. ASSUME NEW c \in late, SinkCommitsLate(c) PROVE OneRowPerKey'
    <3>1. c \in Commit /\ \E W \in SUBSET c.events : Store(c, W)
      BY <2>6 DEF SinkCommitsLate, Inv, TypeOK
    <3> QED BY <3>1, StoreKeepsOneRow
  <2> QED BY <2>2, <2>3, <2>4, <2>5, <2>6 DEF Next
<1> QED BY <1>1, <1>2, InvHolds, PTL DEF Spec

-----------------------------------------------------------------------------
(***************************************************************************)
(* Whose rows an acknowledgement counts.  Until the sink's transaction     *)
(* commits, nothing that a request sent has a row; from then on its rows   *)
(* are its copies among those this one transaction wrote, because no other *)
(* transaction carries any of its copies (Apart).                          *)
(***************************************************************************)

RowsOf(r, rw) == CopiesOf(r, rw[ProjectOf[r]])

GroupsUnwritten(gs, rw) == \A p \in Project : \A r \in gs[p].waiters : RowsOf(r, rw) = {}

CommitsWrote(cs, rw) ==
    \A c \in cs : \A r \in c.waiters :
        /\ c.phase = "writing" => RowsOf(r, rw) = {}
        /\ c.phase \in {"written", "recorded"} => RowsOf(r, rw) = CopiesOf(r, c.written)

RequestsTold(st, ak, rw) ==
    \A r \in Request :
        /\ st[r] \in {"new", "checking"} => RowsOf(r, rw) = {}
        /\ ak[r].kind = "Committed" =>
               /\ st[r] = "done"
               /\ ak[r].accepted = Cardinality(RowsOf(r, rw))
               /\ ak[r].accepted + ak[r].deduplicated = Cardinality(BatchOf[r])

\* A transaction that ends late writes only for waiters that were told it failed.
LateWasRefused(lt, st, ak) ==
    \A c \in lt :
        /\ \A x \in c.events : x[1] \in c.waiters
        /\ \A r \in c.waiters : st[r] = "done" /\ ak[r].kind # "Committed"

Owned ==
    /\ GroupsUnwritten(groups, rows) /\ CommitsWrote(commits, rows)
    /\ RequestsTold(pc, ack, rows) /\ LateWasRefused(late, pc, ack)

LEMMA PumpOwns ==
    ASSUME NEW gs, NEW ord, NEW cs, NEW buf, NEW dr, NEW rw,
           GroupsUnwritten(gs, rw), CommitsWrote(cs, rw), Pump(gs, ord, cs, buf, dr)
    PROVE  GroupsUnwritten(groups', rw) /\ CommitsWrote(commits', rw)
<1>1. PICK F \in SUBSET Ready(gs, dr) :
          groups' = Remove(gs, F) /\ commits' = cs \cup Starting(gs, F)
  BY DEF Pump
<1>2. \A c \in Starting(gs, F) : c.phase = "writing" /\ \E p \in F : c.waiters = gs[p].waiters
  BY DEF Starting
<1>3. F \subseteq Project
  BY DEF Ready
<1> QED BY <1>1, <1>2, <1>3 DEF GroupsUnwritten, CommitsWrote, Remove, NoGroup

LEMMA ResolveOwns ==
    ASSUME Inv, Owned, NEW r \in Request, pc[r] \in {"new", "checking"}, NEW answer,
           Resolve(r, answer), UNCHANGED <<groups, commits, rows, late>>,
           answer.kind = "Committed" => answer = Committed(0, 0) /\ BatchOf[r] = {}
    PROVE  Owned'
<1>1. /\ pc' = [pc EXCEPT ![r] = "done"] /\ ack' = [ack EXCEPT ![r] = answer]
      /\ pc \in [Request -> {"new", "checking", "joined", "done"}] /\ ack \in [Request -> Ack]
  BY DEF Resolve, Inv, TypeOK
<1>2. ASSUME answer.kind = "Committed"
      PROVE  /\ answer.accepted = Cardinality(RowsOf(r, rows))
             /\ answer.accepted + answer.deduplicated = Cardinality(BatchOf[r])
  <2>1. answer.accepted = 0 /\ answer.deduplicated = 0 /\ RowsOf(r, rows) = {}
    BY <1>2 DEF Committed, Pending, Owned, RequestsTold
  <2> QED BY <1>2, <2>1, FS_EmptySet
<1>3. RequestsTold(pc', ack', rows)
  BY <1>1, <1>2 DEF Owned, RequestsTold
<1>4. LateWasRefused(late, pc', ack')
  BY <1>1 DEF Owned, LateWasRefused, Inv, TypeOK, Commit
<1> QED BY <1>3, <1>4
        DEF Owned, GroupsUnwritten, CommitsWrote, RequestsTold, RowsOf, LateWasRefused

LEMMA SubmitOwns ==
    ASSUME Inv, Owned, NEW r \in Request, Submit(r) \/ QuotaAnswers(r)
    PROVE  Owned'
<1> USE DEF groupVars, durableVars
<1>1. ASSUME NEW why \in Errors, SubmitRefused(r, why) PROVE Owned'
  BY <1>1, AnswersOK, ResolveOwns DEF SubmitRefused
<1>2. CASE SubmitEmpty(r)
  BY <1>2, ResolveOwns DEF SubmitEmpty
<1>3. CASE SubmitChecks(r)
  <2>1. RequestsTold(pc', ack, rows)
    BY <1>3 DEF SubmitChecks, Owned, RequestsTold, Inv, TypeOK
  <2>2. LateWasRefused(late, pc', ack)
    BY <1>3 DEF SubmitChecks, Owned, LateWasRefused, Inv, TypeOK, Commit
  <2> QED
    BY <1>3, <2>1, <2>2
       DEF SubmitChecks, Owned, GroupsUnwritten, CommitsWrote, RequestsTold, RowsOf, LateWasRefused
<1>4. CASE QuotaRefuses(r)
  <2>1. PICK answer \in {Refused("PlanExceeded"), Refused("RateLimited"), Threw} :
            Resolve(r, answer)
    BY <1>4 DEF QuotaRefuses
  <2>2. answer.kind # "Committed"
    BY <2>1, AnswersOK DEF Errors
  <2> QED BY <1>4, <2>1, <2>2, ResolveOwns DEF QuotaRefuses
<1>5. CASE QuotaAllowsNoRoom(r)
  BY <1>5, AnswersOK, ResolveOwns DEF QuotaAllowsNoRoom, Errors
<1>6. CASE QuotaAllowsJoin(r)
  <2> DEFINE p == ProjectOf[r]
             gs == [groups EXCEPT ![p] = Joined(r, groups[p])]
  <2>1. /\ p \in Project /\ groups \in [Project -> Group] /\ UNCHANGED <<ack, rows, late>>
        /\ pc[r] = "checking" /\ pc' = [pc EXCEPT ![r] = "joined"]
        /\ pc \in [Request -> {"new", "checking", "joined", "done"}]
    BY <1>6, RequestsAssumption DEF QuotaAllowsJoin, Inv, TypeOK
  <2>2. gs[p].waiters = groups[p].waiters \cup {r} /\ \A q \in Project \ {p} : gs[q] = groups[q]
    BY <2>1 DEF Joined
  <2>3. RowsOf(r, rows) = {}
    BY <2>1 DEF Owned, RequestsTold
  <2>4. GroupsUnwritten(gs, rows)
    <3> HIDE DEF gs, p
    <3> QED BY <2>1, <2>2, <2>3 DEF Owned, GroupsUnwritten
  <2>5. Pump(gs, OrderAfterJoin(p), commits, buffered + Cardinality(Contribution(r, groups[p])), draining)
    BY <1>6 DEF QuotaAllowsJoin
  <2>6. GroupsUnwritten(groups', rows) /\ CommitsWrote(commits', rows)
    <3> HIDE DEF gs, p
    <3> QED BY <2>4, <2>5, PumpOwns DEF Owned
  <2>7. RequestsTold(pc', ack, rows)
    <3> HIDE DEF gs, p
    <3> QED BY <2>1 DEF Owned, RequestsTold
  <2>8. LateWasRefused(late, pc', ack)
    <3> HIDE DEF gs, p
    <3> QED BY <2>1 DEF Owned, LateWasRefused, Inv, TypeOK, Commit
  <2> QED
    BY <2>1, <2>6, <2>7, <2>8
       DEF Owned, GroupsUnwritten, CommitsWrote, RequestsTold, RowsOf, LateWasRefused
<1> QED BY <1>1, <1>2, <1>3, <1>4, <1>5, <1>6 DEF Submit, QuotaAnswers

\* The transaction adds rows for its own waiters and for nobody else.
LEMMA SinkCommitsOwns ==
    ASSUME Inv, Owned, NEW c \in commits, SinkCommits(c)
    PROVE  Owned'
<1>1. PICK W \in SUBSET c.events :
          rows' = [rows EXCEPT ![c.project] = @ \cup W] /\ MoveTo(c, "written", W)
  BY DEF SinkCommits, Store
<1> DEFINE moved == [c EXCEPT !.phase = "written", !.written = W]
<1>2. /\ c.phase = "writing" /\ UNCHANGED <<pc, ack, groups, late>>
      /\ commits' = (commits \ {c}) \cup {moved}
      /\ c \in Commit /\ rows \in [Project -> SUBSET Copy]
  BY <1>1 DEF SinkCommits, requestVars, MoveTo, Inv, TypeOK, CommitsOK
<1>3. moved.phase = "written" /\ moved.written = W /\ moved.waiters = c.waiters
  BY <1>2 DEF Commit
<1>4. ASSUME NEW r \in Request, r \notin c.waiters PROVE RowsOf(r, rows') = RowsOf(r, rows)
  <2>1. CopiesOf(r, W) = {}
    BY <1>4 DEF CopiesOf, Inv, CommitsOK
  <2> QED BY <1>1, <1>2, <2>1 DEF RowsOf, CopiesOf, Commit
<1>5. ASSUME NEW r \in c.waiters PROVE RowsOf(r, rows') = CopiesOf(r, W)
  <2>1. RowsOf(r, rows) = {} /\ ProjectOf[r] = c.project
    BY <1>2 DEF Owned, CommitsWrote, Inv, CommitsOK
  <2>2. rows'[c.project] = rows[c.project] \cup W
    BY <1>1, <1>2 DEF Commit
  <2> QED BY <2>1, <2>2 DEF RowsOf, CopiesOf
<1>6. GroupsUnwritten(groups, rows')
  <2>1. \A p \in Project : \A r \in groups[p].waiters : r \in Request /\ r \notin c.waiters
    BY DEF Inv, TypeOK, Group, Apart
  <2> QED BY <1>4, <2>1 DEF Owned, GroupsUnwritten
<1>7. CommitsWrote(commits', rows')
  <2>1. \A d \in commits \ {c} : \A r \in d.waiters : r \in Request /\ r \notin c.waiters
    BY DEF Inv, TypeOK, Commit, Apart
  <2>2. \A d \in commits \ {c} : \A r \in d.waiters : RowsOf(r, rows') = RowsOf(r, rows)
    BY <1>4, <2>1
  <2> HIDE DEF moved
  <2> QED BY <1>2, <1>3, <1>5, <2>2 DEF Owned, CommitsWrote
<1>8. RequestsTold(pc, ack, rows')
  <2>1. \A r \in c.waiters : pc[r] = "joined"
    BY <1>2 DEF Inv, CommitsOK
  <2>2. \A r \in Request : pc[r] # "joined" => RowsOf(r, rows') = RowsOf(r, rows)
    BY <1>4, <2>1
  <2> QED BY <2>2 DEF Owned, RequestsTold
<1> HIDE DEF moved
<1> QED BY <1>2, <1>6, <1>7, <1>8
        DEF Owned, GroupsUnwritten, CommitsWrote, RequestsTold, RowsOf, LateWasRefused

\* Nor does it when it ends late: those waiters were answered, and not Committed.
LEMMA LateCommitOwns ==
    ASSUME Inv, Owned, NEW c \in late, SinkCommitsLate(c)
    PROVE  Owned'
<1>1. PICK W \in SUBSET c.events : rows' = [rows EXCEPT ![c.project] = @ \cup W]
  BY DEF SinkCommitsLate, Store
<1>2. /\ late' = late \ {c} /\ UNCHANGED <<pc, ack, groups, commits>>
      /\ c \in Commit /\ rows \in [Project -> SUBSET Copy]
  BY DEF SinkCommitsLate, requestVars, groupVars, Inv, TypeOK
<1>3. ASSUME NEW r \in Request, r \notin c.waiters PROVE RowsOf(r, rows') = RowsOf(r, rows)
  <2>1. CopiesOf(r, W) = {}
    BY <1>3 DEF CopiesOf, Owned, LateWasRefused
  <2> QED BY <1>1, <1>2, <2>1 DEF RowsOf, CopiesOf, Commit
<1>4. \A r \in Request : pc[r] # "done" \/ ack[r].kind = "Committed" =>
                              RowsOf(r, rows') = RowsOf(r, rows)
  BY <1>3 DEF Owned, LateWasRefused
<1>5. GroupsUnwritten(groups, rows')
  <2>1. \A p \in Project : \A r \in groups[p].waiters : r \in Request /\ pc[r] # "done"
    BY DEF Inv, TypeOK, Group, GroupsOK
  <2> QED BY <1>4, <2>1 DEF Owned, GroupsUnwritten
<1>6. CommitsWrote(commits, rows')
  <2>1. \A d \in commits : \A r \in d.waiters :
            r \in Request /\ (d.phase # "settled" => pc[r] # "done")
    BY DEF Inv, TypeOK, Commit, CommitsOK
  <2> QED BY <1>4, <2>1 DEF Owned, CommitsWrote
<1>7. RequestsTold(pc, ack, rows')
  BY <1>4 DEF Owned, RequestsTold
<1> QED BY <1>2, <1>5, <1>6, <1>7
        DEF Owned, GroupsUnwritten, CommitsWrote, RequestsTold, RowsOf, LateWasRefused

\* A commit moves on with what it wrote, and some waiters are answered.
LEMMA CommitMovesOwns ==
    ASSUME Inv, Owned, NEW c \in commits, NEW to \in {"recorded", "settled"}, NEW W,
           MoveTo(c, to, W),
           to = "recorded" => c.phase = "written" /\ W = c.written,
           UNCHANGED <<groups, rows>>, RequestsTold(pc', ack', rows),
           LateWasRefused(late', pc', ack')
    PROVE  Owned'
<1> DEFINE moved == [c EXCEPT !.phase = to, !.written = W]
<1>1. commits' = (commits \ {c}) \cup {moved} /\ c \in Commit
  BY DEF MoveTo, Inv, CommitsOK
<1>2. moved.phase = to /\ moved.written = W /\ moved.waiters = c.waiters
  BY <1>1 DEF Commit
<1> HIDE DEF moved
<1>3. CommitsWrote(commits', rows)
  BY <1>1, <1>2 DEF Owned, CommitsWrote
<1> QED BY <1>3 DEF Owned, GroupsUnwritten, CommitsWrote, RequestsTold, RowsOf, LateWasRefused

LEMMA CommitOwns ==
    ASSUME Inv, Owned, NEW c \in commits, CommitStep(c)
    PROVE  Owned'
<1>1. /\ c \in Commit /\ pc \in [Request -> {"new", "checking", "joined", "done"}]
      /\ ack \in [Request -> Ack] /\ RequestsTold(pc, ack, rows)
  BY DEF Inv, TypeOK, CommitsOK, Owned
<1>2. CASE SinkCommits(c)
  BY <1>2, SinkCommitsOwns
<1>3. CASE SinkFails(c) \/ ReceiptLost(c)
  <2> DEFINE answers == [r \in c.waiters |-> Refused("SinkUnavailable")]
  <2>1. SettleAll(c, answers) /\ UNCHANGED <<groups, rows>>
        /\ (MoveTo(c, "settled", {}) \/ MoveTo(c, "settled", c.written))
        /\ late' \subseteq late \cup {c}
    BY <1>3 DEF SinkFails, ReceiptLost, durableVars
  <2>2. \A r \in c.waiters : answers[r].kind # "Committed"
    BY AnswersOK DEF Errors
  <2> HIDE DEF answers
  <2>3. RequestsTold(pc', ack', rows)
    BY <1>1, <2>1, <2>2 DEF SettleAll, RequestsTold
  <2>4. LateWasRefused(late', pc', ack')
    <3>1. \A x \in c.events : x[1] \in c.waiters
      BY DEF Inv, CommitsOK
    <3>2. ASSUME NEW b \in late \cup {c}, NEW r \in b.waiters
          PROVE  pc'[r] = "done" /\ ack'[r].kind # "Committed"
      <4>1. r \in Request
        BY <1>1 DEF Inv, TypeOK, Commit
      <4>2. CASE r \in c.waiters
        <5>1. pc'[r] = "done" /\ ack'[r] = answers[r]
          BY <2>1, <4>1, <4>2 DEF SettleAll
        <5> QED BY <2>2, <4>2, <5>1
      <4>3. CASE r \notin c.waiters
        <5>1. pc'[r] = pc[r] /\ ack'[r] = ack[r] /\ b \in late
          BY <2>1, <4>1, <4>3 DEF SettleAll
        <5> QED BY <5>1 DEF Owned, LateWasRefused
      <4> QED BY <4>2, <4>3
    <3> QED BY <2>1, <3>1, <3>2 DEF Owned, LateWasRefused
  <2> QED BY <2>1, <2>3, <2>4, CommitMovesOwns
<1>4. CASE RecordUsage(c)
  <2>1. UNCHANGED <<pc, ack, groups, rows, late>> /\ MoveTo(c, "recorded", c.written)
        /\ c.phase = "written"
    BY <1>4 DEF RecordUsage, durableVars, requestVars
  <2>2. LateWasRefused(late', pc', ack')
    BY <2>1 DEF Owned, LateWasRefused
  <2> QED BY <1>1, <2>1, <2>2, CommitMovesOwns
<1>5. CASE SettleCommitted(c)
  <2> DEFINE answers == [r \in c.waiters |->
                            Committed(Accepted(c, r), Cardinality(BatchOf[r]) - Accepted(c, r))]
  <2>1. SettleAll(c, answers) /\ UNCHANGED <<groups, rows, late>> /\ c.phase = "recorded"
        /\ MoveTo(c, "settled", c.written)
    BY <1>5 DEF SettleCommitted, durableVars
  <2>2. ASSUME NEW r \in c.waiters
        PROVE  /\ answers[r].accepted = Cardinality(RowsOf(r, rows))
               /\ answers[r].accepted + answers[r].deduplicated = Cardinality(BatchOf[r])
    <3>1. RowsOf(r, rows) = CopiesOf(r, c.written) /\ r \in Request
      BY <1>1, <2>1 DEF Owned, CommitsWrote, Commit
    <3>2. answers[r].accepted = Accepted(c, r)
          /\ answers[r].deduplicated = Cardinality(BatchOf[r]) - Accepted(c, r)
      BY DEF Committed, Pending
    <3>3. Accepted(c, r) \in Nat /\ Cardinality(BatchOf[r]) \in Nat
      <4>1. c.written \in SUBSET Copy /\ \A x \in c.written : x[2] \in BatchOf[x[1]]
        BY <1>1 DEF Commit, Inv, CommitsOK
      <4> QED BY <3>1, <4>1, AcceptedBounded, BatchFinite DEF Accepted
    <3> HIDE DEF answers
    <3> QED BY <3>1, <3>2, <3>3 DEF Accepted
  <2> HIDE DEF answers
  <2>3. RequestsTold(pc', ack', rows)
    BY <1>1, <2>1, <2>2 DEF SettleAll, RequestsTold
  <2>4. LateWasRefused(late', pc', ack')
    <3>1. \A r \in c.waiters : pc[r] = "joined"
      BY <2>1 DEF Inv, CommitsOK
    <3> QED BY <2>1, <3>1 DEF SettleAll, Owned, LateWasRefused, Inv, TypeOK, Commit
  <2> QED BY <2>1, <2>3, <2>4, CommitMovesOwns
<1>6. CASE CommitEnds(c)
  <2>1. UNCHANGED <<pc, ack, rows, late>>
        /\ Pump(groups, ahead, commits \ {c}, buffered, draining)
    BY <1>6 DEF CommitEnds, durableVars, requestVars
  <2>2. GroupsUnwritten(groups', rows) /\ CommitsWrote(commits', rows)
    <3>1. GroupsUnwritten(groups, rows) /\ CommitsWrote(commits \ {c}, rows)
      BY DEF Owned, CommitsWrote
    <3> QED BY <2>1, <3>1, PumpOwns
  <2> QED BY <2>1, <2>2
          DEF Owned, GroupsUnwritten, CommitsWrote, RequestsTold, RowsOf, LateWasRefused
<1> QED BY <1>2, <1>3, <1>4, <1>5, <1>6 DEF CommitStep, SinkAnswers

LEMMA ClockOwns ==
    ASSUME Inv, Owned, Advance \/ Tick \/ Drain \/ DrainResolves
    PROVE  Owned'
<1>1. UNCHANGED <<pc, ack, rows, late>>
  BY DEF Advance, Tick, Drain, DrainResolves, requestVars, durableVars
<1>2. GroupsUnwritten(groups', rows) /\ CommitsWrote(commits', rows)
  <2>1. CASE Advance
    <3>1. commits' = commits /\ \A p \in Project : groups'[p].waiters = groups[p].waiters
      BY <2>1 DEF Advance, Inv, TypeOK, Group
    <3> QED BY <3>1 DEF Owned, GroupsUnwritten
  <2>2. CASE Tick \/ Drain
    BY <2>2, PumpOwns DEF Tick, Drain, Owned
  <2>3. CASE DrainResolves
    BY <2>3 DEF DrainResolves, groupVars, Owned
  <2> QED BY <2>1, <2>2, <2>3
<1> QED BY <1>1, <1>2
        DEF Owned, GroupsUnwritten, CommitsWrote, RequestsTold, RowsOf, LateWasRefused

\* Which rows each waiter brought is known in every state.
LEMMA OwnedHolds == Spec => []Owned
<1>1. Init => Owned
  <2> SUFFICES ASSUME Init PROVE Owned
    OBVIOUS
  <2>1. \A r \in Request : RowsOf(r, rows) = {} /\ ack[r].kind = "Pending"
    BY RequestsAssumption DEF Init, RowsOf, CopiesOf, Pending
  <2> QED
    BY <2>1 DEF Init, Owned, GroupsUnwritten, CommitsWrote, RequestsTold, LateWasRefused, NoGroup
<1>2. Inv /\ Owned /\ [Next]_vars => Owned'
  <2> SUFFICES ASSUME Inv, Owned, [Next]_vars PROVE Owned'
    OBVIOUS
  <2>1. CASE Finished \/ UNCHANGED vars
    <3>1. UNCHANGED <<pc, ack, groups, commits, rows, late>>
      BY <2>1 DEF Finished, vars
    <3> QED BY <3>1
            DEF Owned, GroupsUnwritten, CommitsWrote, RequestsTold, RowsOf, LateWasRefused
  <2> QED BY <2>1, SubmitOwns, CommitOwns, LateCommitOwns, ClockOwns DEF Next
<1> QED BY <1>1, <1>2, InvHolds, PTL DEF Spec

\* group-commit.ts:388: the count of an acknowledgement is of the rows this
\* request brought, however its group was shared and whatever else it sent.
THEOREM AcknowledgementsAreExact == Spec => []AcceptedIsOwnRows
<1>1. Owned => AcceptedIsOwnRows
  BY DEF Owned, RequestsTold, RowsOf, AcceptedIsOwnRows
<1> QED BY <1>1, OwnedHolds, PTL

-----------------------------------------------------------------------------
(***************************************************************************)
(* The process around the coalescer (IngestServer).  Its steps are the     *)
(* coalescer's, at the times the timer and the shutdown choose, so that    *)
(* every theorem above holds of the server.  That the exit abandons nobody *)
(* needs that a call past the quota is always in some group or commit      *)
(* (Housed): drain() resolves when there are none.                         *)
(***************************************************************************)

Housed(st, gs, cs) ==
    \A r \in Request : st[r] = "joined" =>
        \/ \E p \in Project : r \in gs[p].waiters
        \/ \E c \in cs : r \in c.waiters /\ c.phase # "settled"

Within(r) == pc[r] \in {"joined", "done"}

LEMMA PumpHouses ==
    ASSUME NEW st, NEW gs, NEW ord, NEW cs, NEW buf, NEW dr,
           Housed(st, gs, cs), Pump(gs, ord, cs, buf, dr)
    PROVE  Housed(st, groups', commits')
<1>1. PICK F \in SUBSET Ready(gs, dr) :
          groups' = Remove(gs, F) /\ commits' = cs \cup Starting(gs, F)
  BY DEF Pump
<1>2. ASSUME NEW p \in F
      PROVE  \E c \in Starting(gs, F) : c.waiters = gs[p].waiters /\ c.phase = "writing"
  <2> DEFINE c == [project |-> p, events |-> gs[p].events, waiters |-> gs[p].waiters,
                   phase |-> "writing", written |-> {}]
  <2>1. c \in Starting(gs, F)
    BY DEF Starting
  <2>2. c.waiters = gs[p].waiters /\ c.phase = "writing"
    OBVIOUS
  <2> HIDE DEF c
  <2> QED BY <2>1, <2>2
<1>3. \A p \in Project \ F : groups'[p] = gs[p]
  BY <1>1 DEF Remove
<1> QED BY <1>1, <1>2, <1>3 DEF Housed

LEMMA RequestHouses ==
    ASSUME Inv, Housed(pc, groups, commits), NEW r \in Request, Submit(r) \/ QuotaAnswers(r)
    PROVE  Housed(pc', groups', commits') /\ \A q \in Request : Within(q) => Within(q)'
<1>1. pc \in [Request -> {"new", "checking", "joined", "done"}] /\ ~Within(r)
  <2>1. pc \in [Request -> {"new", "checking", "joined", "done"}]
    BY DEF Inv, TypeOK
  <2>2. Submit(r) => ~Within(r)
    BY DEF Submit, SubmitRefused, SubmitEmpty, SubmitChecks, Within
  <2>3. QuotaAnswers(r) => ~Within(r)
    BY DEF QuotaAnswers, QuotaRefuses, QuotaAllowsNoRoom, QuotaAllowsJoin, Within
  <2> QED BY <2>1, <2>2, <2>3
<1>2. CASE QuotaAllowsJoin(r)
  <2> DEFINE p == ProjectOf[r]
             gs == [groups EXCEPT ![p] = Joined(r, groups[p])]
  <2>1. /\ p \in Project /\ groups \in [Project -> Group]
        /\ pc' = [pc EXCEPT ![r] = "joined"]
    BY <1>2, RequestsAssumption DEF QuotaAllowsJoin, Inv, TypeOK
  <2>2. gs[p].waiters = groups[p].waiters \cup {r} /\ \A q \in Project \ {p} : gs[q] = groups[q]
    BY <2>1 DEF Joined
  <2>3. Pump(gs, OrderAfterJoin(p), commits, buffered + Cardinality(Contribution(r, groups[p])), draining)
    BY <1>2 DEF QuotaAllowsJoin
  <2> HIDE DEF gs, p
  <2>4. Housed(pc', gs, commits)
    BY <1>1, <2>1, <2>2 DEF Housed
  <2>5. Housed(pc', groups', commits')
    <3>1. PICK now : now = pc'
      OBVIOUS
    <3>2. Housed(now, groups', commits')
      BY <2>3, <2>4, <3>1, PumpHouses
    <3> QED BY <3>1, <3>2
  <2> QED BY <1>1, <2>1, <2>5 DEF Within
<1>3. CASE ~QuotaAllowsJoin(r)
  <2>1. UNCHANGED <<groups, commits>> /\ \E to \in {"checking", "done"} : pc' = [pc EXCEPT ![r] = to]
    BY <1>3 DEF groupVars, Resolve, Submit, SubmitRefused, SubmitEmpty, SubmitChecks, QuotaAnswers,
                QuotaRefuses, QuotaAllowsNoRoom
  <2> QED BY <1>1, <2>1 DEF Housed, Within
<1> QED BY <1>2, <1>3

LEMMA CommitHouses ==
    ASSUME Inv, Housed(pc, groups, commits), NEW c \in commits, CommitStep(c)
    PROVE  Housed(pc', groups', commits') /\ \A q \in Request : Within(q) => Within(q)'
<1>1. c \in Commit /\ pc \in [Request -> {"new", "checking", "joined", "done"}]
  BY DEF Inv, TypeOK, CommitsOK
<1>2. ASSUME NEW to \in {"written", "recorded"}, NEW W, MoveTo(c, to, W), UNCHANGED <<pc, groups>>
      PROVE  Housed(pc', groups', commits') /\ \A q \in Request : Within(q) => Within(q)'
  <2> DEFINE moved == [c EXCEPT !.phase = to, !.written = W]
  <2>1. moved.phase = to /\ moved.waiters = c.waiters
    BY <1>1 DEF Commit
  <2>2. commits' = (commits \ {c}) \cup {moved}
    BY <1>2 DEF MoveTo
  <2> HIDE DEF moved
  <2> QED BY <1>2, <2>1, <2>2 DEF Housed, Within
<1>3. ASSUME NEW answers, NEW W, SettleAll(c, answers), MoveTo(c, "settled", W), UNCHANGED groups
      PROVE  Housed(pc', groups', commits') /\ \A q \in Request : Within(q) => Within(q)'
  <2>1. commits \ {c} \subseteq commits'
    BY <1>3 DEF MoveTo
  <2>2. \A q \in Request : pc'[q] = IF q \in c.waiters THEN "done" ELSE pc[q]
    BY <1>3 DEF SettleAll
  <2> QED BY <1>3, <2>1, <2>2 DEF Housed, Within
<1>4. CASE SinkCommits(c) \/ RecordUsage(c)
  BY <1>2, <1>4 DEF SinkCommits, RecordUsage, requestVars
<1>5. CASE SinkFails(c) \/ ReceiptLost(c) \/ SettleCommitted(c)
  BY <1>3, <1>5 DEF SinkFails, ReceiptLost, SettleCommitted
<1>6. CASE CommitEnds(c)
  <2>1. Housed(pc, groups, commits \ {c}) /\ UNCHANGED pc
        /\ Pump(groups, ahead, commits \ {c}, buffered, draining)
    BY <1>6 DEF CommitEnds, requestVars, Housed
  <2>2. Housed(pc, groups', commits')
    BY <2>1, PumpHouses
  <2> QED BY <2>1, <2>2 DEF Within
<1> QED BY <1>4, <1>5, <1>6 DEF CommitStep, SinkAnswers

LEMMA ClockHouses ==
    ASSUME Inv, Housed(pc, groups, commits),
           Advance \/ Tick \/ Drain \/ DrainResolves \/ Finished \/ UNCHANGED vars
    PROVE  Housed(pc', groups', commits') /\ \A q \in Request : Within(q) => Within(q)'
<1>1. UNCHANGED pc
  BY DEF Advance, Tick, Drain, DrainResolves, Finished, vars, requestVars
<1>2. Housed(pc, groups', commits')
  <2>1. CASE Advance
    <3>1. commits' = commits /\ \A p \in Project : groups'[p].waiters = groups[p].waiters
      BY <2>1 DEF Advance, Inv, TypeOK, Group
    <3> QED BY <3>1 DEF Housed
  <2>2. CASE Tick \/ Drain
    BY <2>2, PumpHouses DEF Tick, Drain
  <2>3. CASE DrainResolves \/ Finished \/ UNCHANGED vars
    BY <2>3 DEF DrainResolves, Finished, vars, groupVars
  <2> QED BY <2>1, <2>2, <2>3
<1> QED BY <1>1, <1>2 DEF Within

LEMMA StepHouses ==
    ASSUME Inv, Housed(pc, groups, commits), [Next]_vars
    PROVE  Housed(pc', groups', commits') /\ \A q \in Request : Within(q) => Within(q)'
<1>1. CASE \E c \in late : SinkCommitsLate(c)
  <2>1. UNCHANGED <<pc, groups, commits>>
    BY <1>1 DEF SinkCommitsLate, requestVars, groupVars
  <2> QED BY <2>1 DEF Within
<1> QED BY <1>1, RequestHouses, CommitHouses, ClockHouses DEF Next

\* Whoever the server let in is within the coalescer once the server stopped:
\* the timeout closes only calls that are, and the others were answered.
Admitted ==
    /\ arrived \subseteq Request /\ closed \subseteq Request
    /\ \A r \in closed : Within(r)
    /\ phase \in {"draining", "exited"} => \A r \in arrived : Within(r)

LEMMA ServerStepIsAStep ==
    ASSUME arrived \subseteq Request, [ServerNext]_allVars
    PROVE  [Next]_vars
<1>1. CASE Handles
  BY <1>1 DEF Handles, Next
<1>2. CASE TimerFires \/ ServerStopped \/ Exit \/ DatabaseCommits
  BY <1>2 DEF DatabaseCommits, TimerFires, ServerStopped, Exit, Next
<1>3. CASE Rearm \/ Stop \/ Exited \/ UNCHANGED allVars
           \/ \E r \in Request : Arrives(r) \/ IdleTimeout(r)
  BY <1>3 DEF Rearm, Stop, Exited, Arrives, IdleTimeout, allVars
<1> QED BY <1>1, <1>2, <1>3 DEF ServerNext

LEMMA ServerKeepsAdmitted ==
    ASSUME Inv, Housed(pc, groups, commits), Admitted, [ServerNext]_allVars
    PROVE  Admitted'
<1>1. \A q \in Request : Within(q) => Within(q)'
  BY ServerStepIsAStep, StepHouses DEF Admitted
<1>2. CASE UNCHANGED serverVars
  BY <1>1, <1>2 DEF serverVars, Admitted
<1>3. CASE \E r \in Request : Arrives(r) \/ IdleTimeout(r)
  <2> PICK r \in Request : Arrives(r) \/ IdleTimeout(r)
    BY <1>3
  <2>1. CASE Arrives(r)
    BY <1>1, <2>1 DEF Arrives, Admitted
  <2>2. CASE IdleTimeout(r)
    <3>1. Within(r)
      BY <2>2 DEF IdleTimeout, Stranded, Waiting, Inv, GroupsOK, Within
    <3> QED BY <1>1, <2>2, <3>1 DEF IdleTimeout, Stranded, Admitted
  <2> QED BY <2>1, <2>2
<1>4. CASE Rearm \/ TimerFires \/ Stop \/ Exit
  BY <1>1, <1>4 DEF Rearm, TimerFires, Stop, Exit, Admitted
<1>5. CASE ServerStopped
  <2>1. \A r \in arrived : Within(r)
    BY <1>5 DEF ServerStopped, OpenConnections, Admitted, Within
  <2> QED BY <1>1, <1>5, <2>1 DEF ServerStopped, Admitted
<1> QED
  BY <1>2, <1>3, <1>4, <1>5
     DEF ServerNext, Handles, DatabaseCommits, Exited, allVars, serverVars

\* main.ts and listen.ts: whatever the timer, the handlers and the shutdown do,
\* the coalescer under them behaves as GroupCommit's specification says.
THEOREM ServerImplements == ServerSpec => Spec
<1>1. ServerInit => Init /\ arrived \subseteq Request
  BY DEF ServerInit
<1>2. arrived \subseteq Request /\ [ServerNext]_allVars => (arrived \subseteq Request)'
  BY DEF ServerNext, Arrives, IdleTimeout, Handles, DatabaseCommits, Rearm, TimerFires, Stop, ServerStopped,
         Exit, Exited, allVars, serverVars
<1>3. arrived \subseteq Request /\ [ServerNext]_allVars => [Next]_vars
  BY ServerStepIsAStep
<1> QED BY <1>1, <1>2, <1>3, PTL DEF ServerSpec, Spec

\* main.ts:520-529: when the process exits, every call the server let in was
\* answered and nothing is left in memory, whichever calls were waiting for the
\* quota, and in whichever group, when stop() began.
THEOREM NobodyIsAbandoned == ServerSpec => []ExitAbandonsNobody
<1> DEFINE Safe == Housed(pc, groups, commits) /\ Admitted /\ ExitAbandonsNobody
<1>1. ServerInit => Safe
  BY DEF ServerInit, Init, Housed, Admitted, ExitAbandonsNobody
<1>2. Inv /\ Safe /\ [ServerNext]_allVars => Safe'
  <2> SUFFICES ASSUME Inv, Safe, [ServerNext]_allVars PROVE Safe'
    OBVIOUS
  <2>1. (Housed(pc, groups, commits))' /\ \A q \in Request : Within(q) => Within(q)'
    BY ServerStepIsAStep, StepHouses DEF Admitted, Housed
  <2>2. Admitted'
    BY ServerKeepsAdmitted
  <2>3. ExitAbandonsNobody'
    <3>1. CASE phase = "exited"
      <4>1. UNCHANGED allVars \/ DatabaseCommits
        BY <3>1 DEF ExitAbandonsNobody, OpenGroups, ServerNext, Arrives, IdleTimeout, Stranded,
                    Handles, Rearm, TimerFires, TimerDue, Stop, ServerStopped, Exit, Exited
      <4>2. UNCHANGED <<pc, groups, commits, arrived, phase>>
        BY <4>1 DEF allVars, vars, serverVars, DatabaseCommits, SinkCommitsLate,
                    requestVars, groupVars
      <4> QED BY <4>2 DEF ExitAbandonsNobody, OpenGroups
    <3>2. CASE Exit
      <4>1. /\ \A r \in arrived : r \in Request /\ Within(r)
            /\ commits = {} /\ \A p \in Project : groups[p].waiters = {}
            /\ UNCHANGED <<pc, groups, commits, arrived>>
        BY <3>2 DEF Exit, DrainResolves, Admitted, requestVars, groupVars
      <4>2. \A r \in arrived : pc[r] = "done"
        BY <4>1 DEF Housed, Within
      <4> QED BY <4>1, <4>2 DEF ExitAbandonsNobody, OpenGroups
    <3>3. CASE phase # "exited" /\ ~Exit
      <4>1. phase' # "exited"
        BY <3>3 DEF ServerNext, Arrives, IdleTimeout, Handles, DatabaseCommits, Rearm, TimerFires, Stop,
                    ServerStopped, Exited, allVars, serverVars
      <4> QED BY <4>1 DEF ExitAbandonsNobody
    <3> QED BY <3>1, <3>2, <3>3
  <2> QED BY <2>1, <2>2, <2>3
<1>3. ServerSpec => []Inv
  BY ServerImplements, InvHolds, PTL
<1> QED BY <1>1, <1>2, <1>3, PTL DEF ServerSpec

-----------------------------------------------------------------------------
(***************************************************************************)
(* The sink inside the coalescer, as a port (SinkCalls).  A commit being   *)
(* written is a call that did nothing yet: whoever started a call is done, *)
(* or waits in a commit, and never in a group again.  A failed call may    *)
(* still take effect, once.                                                *)
(***************************************************************************)

Started(w) == w \in effected \/ resolved[w] # Port!Pending

CallsInv ==
    /\ effected \in SUBSET Call
    /\ resolved \in [Call -> [kind : {"pending", "ok", "err"}, written : SUBSET Copy]]
    /\ \A w \in Call : Started(w) =>
           /\ w.waiters # {}
           /\ \A r \in w.waiters : Within(r) /\ \A p \in Project : r \notin groups[p].waiters
    /\ \A c \in commits :
           /\ c.waiters # {}
           /\ c.phase = "writing" => ~Started(CallOf(c)) /\ c.written = {}
           /\ c.phase = "written" =>
                  CallOf(c) \in effected /\ resolved[CallOf(c)] = Port!Pending
    /\ \A c \in late :
           /\ CallOf(c) \in Call \ effected /\ resolved[CallOf(c)] = Port!Failed
           /\ c.phase = "writing" /\ c.written = {}
    /\ \A p \in Project : \A x \in rows[p] : ProjectOf[x[1]] = p

LEMMA CommitsAreCalls ==
    ASSUME NEW cs, NEW st, CommitsOK(cs, st), NEW c \in cs
    PROVE  /\ CallOf(c) \in Call /\ CallOf(c).waiters = c.waiters
           /\ CallOf(c).events = c.events /\ CallOf(c).project = c.project
BY DEF CommitsOK, Commit, Call, CallOf

\* The store of GroupCommit says what the port says: the items of a batch that
\* are not keyed, and one of each key that has no receipt in the project.
LEMMA StoreIsPorts ==
    ASSUME NEW c \in Commit, CallOf(c) \in Call, NEW W \in SUBSET c.events
    PROVE  Stores(c, W) <=> Port!Fresh(CallOf(c), W)
<1> DEFINE w  == CallOf(c)
           rc == {pe \in Project \X Keyed : pe[2] \in receipts[pe[1]]}
           ko == [x \in KeyedCopy |-> <<ProjectOf[x[1]], x[2]>>]
           keys(S) == {ko[i] : i \in S \cap KeyedCopy}
<1>1. /\ w.events = c.events /\ c.events \in SUBSET Copy /\ c.project \in Project
      /\ \A x \in c.events : ProjectOf[x[1]] = c.project
  BY DEF CallOf, Call, Commit
<1>2. \A x \in c.events : x \in KeyedCopy <=> x[2] \in Keyed
  BY <1>1 DEF KeyedCopy
<1>3. \A x \in c.events \cap KeyedCopy : ko[x] = <<c.project, x[2]>>
  BY <1>1
<1>4. \A S \in SUBSET c.events : \A k : k \in keys(S) <=>
          \E x \in S : x[2] \in Keyed /\ k = <<c.project, x[2]>>
  BY <1>2, <1>3
<1>5. Port!Fresh(w, W) <=>
          /\ W \subseteq c.events /\ c.events \ KeyedCopy \subseteq W
          /\ keys(W) = keys(c.events) \ rc
          /\ \A i, j \in W \cap KeyedCopy : ko[i] = ko[j] => i = j
  BY <1>1 DEF Port!Fresh, Port!KeysOf
<1>6. (c.events \ KeyedCopy \subseteq W) <=> \A x \in c.events : x[2] \notin Keyed => x \in W
  BY <1>2
<1>7. \A e \in Keyed : <<c.project, e>> \in rc <=> e \in receipts[c.project]
  BY <1>1
<1> HIDE DEF w, rc, ko, keys
<1>8. ASSUME Stores(c, W) PROVE Port!Fresh(w, W)
  <2>1. \A i, j \in W \cap KeyedCopy : ko[i] = ko[j] => i = j
    <3> SUFFICES ASSUME NEW i \in W \cap KeyedCopy, NEW j \in W \cap KeyedCopy, ko[i] = ko[j]
                 PROVE  i = j
      OBVIOUS
    <3>1. i[2] = j[2] /\ i[2] \in Keyed
      BY <1>2, <1>3
    <3>2. i[2] \in EventsIn(c.events) \cap Keyed /\ i[2] \in EventsIn(W)
      BY <3>1 DEF EventsIn
    <3>3. PICK x \in c.events : {y \in W : y[2] = i[2]} = {x}
      BY <1>8, <3>2 DEF Stores
    <3> QED BY <3>1, <3>3
  <2>2. ASSUME NEW k PROVE k \in keys(W) <=> k \in keys(c.events) \ rc
    <3>1. CASE k \in keys(c.events)
      <4>1. PICK x \in c.events : x[2] \in Keyed /\ k = <<c.project, x[2]>>
        BY <1>4, <3>1
      <4>2. x[2] \in EventsIn(c.events) \cap Keyed
        BY <4>1 DEF EventsIn
      <4>3. k \in keys(W) <=> \E y \in W : y[2] = x[2]
        BY <1>4, <4>1
      <4>4. k \in keys(W) <=> x[2] \in EventsIn(W)
        BY <4>3 DEF EventsIn
      <4>5. x[2] \in EventsIn(W) <=> x[2] \notin receipts[c.project]
        BY <1>8, <4>2 DEF Stores, EventsIn
      <4> QED BY <1>7, <3>1, <4>1, <4>4, <4>5
    <3>2. CASE k \notin keys(c.events)
      BY <1>4, <3>2
    <3> QED BY <3>1, <3>2
  <2>3. keys(W) = keys(c.events) \ rc
    BY <2>2
  <2> QED BY <1>5, <1>6, <1>8, <2>1, <2>3 DEF Stores
<1>9. ASSUME Port!Fresh(w, W) PROVE Stores(c, W)
  <2>1. ASSUME NEW e \in EventsIn(c.events) \cap Keyed
        PROVE  \/ e \in receipts[c.project] /\ e \notin EventsIn(W)
               \/ /\ e \notin receipts[c.project]
                  /\ \E x \in c.events : x[2] = e /\ {y \in W : y[2] = e} = {x}
    <3> DEFINE k == <<c.project, e>>
    <3>1. PICK z \in c.events : z[2] = e
      BY DEF EventsIn
    <3>2. k \in keys(c.events)
      BY <1>4, <3>1
    <3>3. k \in keys(W) <=> e \notin receipts[c.project]
      BY <1>5, <1>7, <1>9, <3>2
    <3>4. k \in keys(W) <=> e \in EventsIn(W)
      BY <1>4 DEF EventsIn
    <3>5. ASSUME NEW x \in W, x[2] = e, NEW y \in W, y[2] = e PROVE x = y
      BY <1>2, <1>3, <1>5, <1>9, <3>5
    <3>6. ASSUME e \in EventsIn(W)
          PROVE  \E x \in c.events : x[2] = e /\ {y \in W : y[2] = e} = {x}
      <4>1. PICK x \in W : x[2] = e
        BY <3>6 DEF EventsIn
      <4>2. {y \in W : y[2] = e} = {x}
        BY <3>5, <4>1
      <4> QED BY <4>1, <4>2
    <3> QED BY <3>3, <3>4, <3>6
  <2> QED BY <1>5, <1>6, <1>9, <2>1 DEF Stores
<1> QED BY <1>8, <1>9 DEF w

\* Two commits in flight, or two that may end late, are two calls.
LEMMA CallsDiffer ==
    ASSUME Inv, CallsInv
    PROVE  /\ \A c, d \in commits : CallOf(c) = CallOf(d) => c = d
           /\ \A c, d \in late : CallOf(c) = CallOf(d) => c = d
<1>1. ASSUME NEW c \in commits, NEW d \in commits, CallOf(c) = CallOf(d) PROVE c = d
  <2>1. c.waiters = d.waiters /\ c.waiters # {}
    BY <1>1 DEF CallOf, CallsInv
  <2> QED BY <2>1 DEF Inv, Apart
<1>2. ASSUME NEW c \in late, NEW d \in late, CallOf(c) = CallOf(d) PROVE c = d
  <2>1. c \in Commit /\ d \in Commit
    BY DEF Inv, TypeOK
  <2>2. c.project = d.project /\ c.events = d.events /\ c.waiters = d.waiters
    BY <1>2 DEF CallOf
  <2>3. c.phase = d.phase /\ c.written = d.written
    BY DEF CallsInv
  <2> QED BY <2>1, <2>2, <2>3 DEF Commit
<1> QED BY <1>1, <1>2

\* The coalescer between its calls: no call starts, and a commit that does is
\* for waiters of a group, who started none.
LEMMA OtherwiseKeeps ==
    ASSUME Inv, Inv', CallsInv, UNCHANGED <<callVars, late, rows>>,
           \A q \in Request : Within(q) => Within(q)',
           \A p \in Project : \A r \in groups'[p].waiters :
               r \in groups[p].waiters \/ ~Within(r),
           \A c \in commits' \ commits :
               /\ c.waiters # {}
               /\ \/ c.phase = "settled"
                  \/ /\ c.phase = "writing" /\ c.written = {}
                     /\ \E r \in c.waiters : ~Within(r) \/ \E p \in Project : r \in groups[p].waiters
    PROVE  CallsInv'
<1> USE DEF callVars
<1>1. ASSUME NEW w \in Call, Started(w)
      PROVE  /\ w.waiters # {}
             /\ \A r \in w.waiters : Within(r)' /\ \A p \in Project : r \notin groups'[p].waiters
  <2>1. w.waiters \subseteq Request
    BY DEF Call
  <2> QED BY <1>1, <2>1 DEF CallsInv
<1>2. ASSUME NEW c \in commits'
      PROVE  /\ c.waiters # {}
             /\ c.phase = "writing" => ~Started(CallOf(c)) /\ c.written = {}
             /\ c.phase = "written" =>
                  CallOf(c) \in effected /\ resolved[CallOf(c)] = Port!Pending
  <2>1. CASE c \in commits
    BY <2>1 DEF CallsInv
  <2>2. CASE c \notin commits /\ c.phase = "settled"
    BY <2>2
  <2>3. CASE c \notin commits /\ c.phase # "settled"
    <3>1. CallOf(c) \in Call /\ CallOf(c).waiters = c.waiters
      BY CommitsAreCalls DEF Inv
    <3> QED BY <2>3, <3>1 DEF CallsInv
  <2> QED BY <2>1, <2>2, <2>3
<1> QED BY <1>1, <1>2 DEF CallsInv, Started

LEMMA PumpStarts ==
    ASSUME NEW gs, NEW ord, NEW cs, NEW buf, NEW dr, Pump(gs, ord, cs, buf, dr)
    PROVE  /\ \A p \in Project : groups'[p].waiters \subseteq gs[p].waiters
           /\ cs \subseteq commits'
           /\ \A c \in commits' \ cs :
                 /\ c.waiters # {} /\ c.phase = "writing" /\ c.written = {}
                 /\ \E p \in Project : c.waiters = gs[p].waiters
<1>1. PICK F \in SUBSET Ready(gs, dr) :
          groups' = Remove(gs, F) /\ commits' = cs \cup Starting(gs, F)
  BY DEF Pump
<1>2. F \subseteq Project /\ \A p \in F : gs[p].waiters # {}
  BY DEF Ready
<1>3. \A c \in Starting(gs, F) : \E p \in F :
          c.waiters = gs[p].waiters /\ c.phase = "writing" /\ c.written = {}
  BY DEF Starting
<1> QED BY <1>1, <1>2, <1>3 DEF Remove, NoGroup

LEMMA OtherwiseIsQuiet ==
    ASSUME Inv, Inv', Housed(pc, groups, commits), CallsInv, Otherwise \/ UNCHANGED <<vars, callVars>>
    PROVE  CallsInv' /\ UNCHANGED <<callVars, receipts, rows>>
<1>1. /\ [Next]_vars /\ UNCHANGED callVars
      /\ UNCHANGED <<late, receipts, rows>>
  <2>1. CASE UNCHANGED <<vars, callVars>>
    BY <2>1 DEF vars
  <2>2. CASE Otherwise
    <3>1. [Next]_vars /\ UNCHANGED callVars
      BY <2>2 DEF Otherwise, Next, CommitStep
    <3>2. UNCHANGED durableVars
      BY <2>2 DEF Otherwise, Submit, SubmitRefused, SubmitEmpty, SubmitChecks, QuotaAnswers,
                  QuotaRefuses, QuotaAllowsNoRoom, QuotaAllowsJoin, SettleCommitted, CommitEnds,
                  Advance, Tick, Drain, DrainResolves, Finished, vars, durableVars
    <3> QED BY <3>1, <3>2 DEF durableVars
  <2> QED BY <2>1, <2>2
<1>2. \A q \in Request : Within(q) => Within(q)'
  BY <1>1, StepHouses
<1> DEFINE Joins(p, r) == r \in groups[p].waiters \/ ~Within(r)
           Fresh(c) == /\ c.phase = "writing" /\ c.written = {}
                       /\ \E r \in c.waiters :
                             ~Within(r) \/ \E p \in Project : r \in groups[p].waiters
           Quiet == /\ \A p \in Project : \A r \in groups'[p].waiters : Joins(p, r)
                    /\ \A c \in commits' \ commits :
                           c.waiters # {} /\ (c.phase = "settled" \/ Fresh(c))
<1>3. ASSUME UNCHANGED commits, \A p \in Project : groups'[p].waiters \subseteq groups[p].waiters
      PROVE  Quiet
  BY <1>3
<1>4. ASSUME NEW cs \in SUBSET commits, NEW dr, Pump(groups, ahead, cs, buffered, dr)
      PROVE  Quiet
  BY <1>4, PumpStarts
<1>5. ASSUME NEW r \in Request, QuotaAllowsJoin(r) PROVE Quiet
  <2> DEFINE p == ProjectOf[r]
             gs == [groups EXCEPT ![p] = Joined(r, groups[p])]
  <2>1. /\ p \in Project /\ groups \in [Project -> Group] /\ ~Within(r)
    BY <1>5, RequestsAssumption DEF QuotaAllowsJoin, Inv, TypeOK, Within
  <2>2. gs[p].waiters = groups[p].waiters \cup {r} /\ \A q \in Project \ {p} : gs[q] = groups[q]
    BY <2>1 DEF Joined
  <2>3. Pump(gs, OrderAfterJoin(p), commits, buffered + Cardinality(Contribution(r, groups[p])), draining)
    BY <1>5 DEF QuotaAllowsJoin
  <2> HIDE DEF gs, p
  <2>4. \A q \in Project : \A s \in gs[q].waiters : Joins(q, s)
    BY <2>1, <2>2
  <2>5. /\ \A q \in Project : groups'[q].waiters \subseteq gs[q].waiters
        /\ \A c \in commits' \ commits :
              /\ c.waiters # {} /\ c.phase = "writing" /\ c.written = {}
              /\ \E q \in Project : c.waiters = gs[q].waiters
    BY <2>3, PumpStarts
  <2> QED BY <2>4, <2>5
<1>6. ASSUME NEW c \in commits, SettleCommitted(c) PROVE Quiet
  <2>1. UNCHANGED groups /\ MoveTo(c, "settled", c.written)
    BY <1>6 DEF SettleCommitted
  <2>2. \A d \in commits' \ commits : d = [c EXCEPT !.phase = "settled", !.written = c.written]
    BY <2>1 DEF MoveTo
  <2>3. c \in Commit /\ c.waiters # {}
    BY DEF Inv, CommitsOK, CallsInv
  <2>4. \A d \in commits' \ commits : d.waiters # {} /\ d.phase = "settled"
    BY <2>2, <2>3 DEF Commit
  <2> QED BY <2>1, <2>4
<1>7. ASSUME NEW r \in Request, Submit(r) \/ QuotaAnswers(r) PROVE Quiet
  <2>1. QuotaAllowsJoin(r) \/ UNCHANGED groupVars
    BY <1>7 DEF Submit, SubmitRefused, SubmitEmpty, SubmitChecks, QuotaAnswers, QuotaRefuses,
                QuotaAllowsNoRoom
  <2> QED BY <1>3, <1>5, <2>1 DEF groupVars
<1> HIDE DEF Quiet
<1>8. ASSUME NEW c \in commits, CommitEnds(c) PROVE Quiet
  <2>1. commits \ {c} \in SUBSET commits /\ Pump(groups, ahead, commits \ {c}, buffered, draining)
    BY <1>8 DEF CommitEnds
  <2> QED BY <1>4, <2>1
<1>9. ASSUME Advance PROVE Quiet
  <2>1. UNCHANGED commits /\ \A p \in Project : groups'[p].waiters = groups[p].waiters
    BY <1>9 DEF Advance, Inv, TypeOK, Group
  <2>2. \A p \in Project : groups'[p].waiters \subseteq groups[p].waiters
    BY <2>1
  <2> QED BY <1>3, <2>1, <2>2
<1>10. ASSUME Tick \/ Drain PROVE Quiet
  <2>1. commits \in SUBSET commits /\ \E dr : Pump(groups, ahead, commits, buffered, dr)
    BY <1>10 DEF Tick, Drain
  <2> QED BY <1>4, <2>1
<1>11. ASSUME DrainResolves \/ Finished \/ UNCHANGED <<vars, callVars>> PROVE Quiet
  <2>1. UNCHANGED <<groups, commits>>
    BY <1>11 DEF DrainResolves, Finished, vars, groupVars
  <2>2. \A p \in Project : groups'[p].waiters \subseteq groups[p].waiters
    BY <2>1
  <2> QED BY <1>3, <2>1, <2>2
<1>12. Quiet
  BY <1>6, <1>7, <1>8, <1>9, <1>10, <1>11 DEF Otherwise
<1> QED BY <1>1, <1>2, <1>12, OtherwiseKeeps DEF Quiet

\* A commit in flight waits in no group.
LEMMA CommitWaits ==
    ASSUME Inv, CallsInv, NEW c \in commits
    PROVE  /\ c \in Commit /\ CallOf(c) \in Call /\ CallOf(c).waiters = c.waiters
           /\ c.waiters # {} /\ c.waiters \subseteq Request
           /\ \A r \in c.waiters : Within(r) /\ \A p \in Project : r \notin groups[p].waiters
<1>1. c \in Commit /\ CallOf(c) \in Call /\ CallOf(c).waiters = c.waiters
  BY CommitsAreCalls DEF Inv, CommitsOK
<1>2. \A r \in c.waiters : Within(r) /\ \A p \in Project : r \notin groups[p].waiters
  BY DEF Inv, CommitsOK, Apart, Within
<1> QED BY <1>1, <1>2 DEF CallsInv, Commit

\* The rows a call adds are of the requests of its project.
LEMMA StoreKeepsScope ==
    ASSUME NEW c, CallOf(c) \in Call, NEW W \in SUBSET c.events, Store(c, W),
           rows \in [Project -> SUBSET Copy],
           \A p \in Project : \A x \in rows[p] : ProjectOf[x[1]] = p
    PROVE  \A p \in Project : \A x \in rows'[p] : ProjectOf[x[1]] = p
<1>1. /\ c.project \in Project
      /\ \A x \in c.events : ProjectOf[x[1]] = c.project
  BY DEF Call, CallOf
<1>2. rows' = [rows EXCEPT ![c.project] = @ \cup W]
  BY DEF Store
<1> QED BY <1>1, <1>2

LEMMA CommitEffectKeeps ==
    ASSUME Inv, CallsInv, NEW c \in commits, SinkCommits(c), TakesEffect(c)
    PROVE  CallsInv'
<1> DEFINE w == CallOf(c)
<1>1. PICK W \in SUBSET c.events : Store(c, W) /\ MoveTo(c, "written", W)
  BY DEF SinkCommits
<1>2. /\ c.phase = "writing" /\ UNCHANGED <<pc, groups, late, resolved>>
      /\ effected' = effected \cup {w}
  BY DEF SinkCommits, requestVars, TakesEffect
<1>3. /\ c \in Commit /\ w \in Call /\ w.waiters = c.waiters /\ c.waiters # {}
      /\ \A r \in c.waiters : Within(r) /\ \A p \in Project : r \notin groups[p].waiters
  BY CommitWaits
<1>4. ~Started(w)
  BY <1>2 DEF CallsInv
<1>5. PICK d \in Commit : /\ commits' = (commits \ {c}) \cup {d} /\ d.phase = "written"
                          /\ d.waiters = c.waiters /\ CallOf(d) = w
  <2> DEFINE moved == [c EXCEPT !.phase = "written", !.written = W]
  <2>1. moved \in Commit /\ moved.phase = "written" /\ moved.waiters = c.waiters
        /\ CallOf(moved) = w
    BY <1>1, <1>3 DEF Commit, CallOf
  <2>2. commits' = (commits \ {c}) \cup {moved}
    BY <1>1 DEF MoveTo
  <2> HIDE DEF moved
  <2> QED BY <2>1, <2>2
<1>6. \A b \in commits \ {c} : CallOf(b) # w
  BY CallsDiffer
<1>7. \A b \in late : CallOf(b) # w
  BY <1>4 DEF CallsInv, Started, Port!Failed, Port!Pending
<1> HIDE DEF w
<1>8. \A v \in Call : Started(v)' <=> Started(v) \/ v = w
  BY <1>2 DEF Started
<1>9. \A v \in Call : Started(v)' =>
           /\ v.waiters # {}
           /\ \A r \in v.waiters : Within(r)' /\ \A p \in Project : r \notin groups'[p].waiters
  BY <1>2, <1>3, <1>8 DEF CallsInv, Within
<1>10. ASSUME NEW b \in commits'
       PROVE  /\ b.waiters # {}
              /\ b.phase = "writing" => ~Started(CallOf(b))' /\ b.written = {}
              /\ b.phase = "written" =>
                     CallOf(b) \in effected' /\ resolved'[CallOf(b)] = Port!Pending
  <2>1. CASE b = d
    BY <1>2, <1>3, <1>4, <1>5, <2>1 DEF Started
  <2>2. CASE b \in commits /\ b # c
    <3>1. CallOf(b) \in Call
      BY <2>2, CommitWaits
    <3> QED BY <1>2, <1>6, <1>8, <2>2, <3>1 DEF CallsInv
  <2> QED BY <1>5, <2>1, <2>2
<1>11. \A p \in Project : \A x \in rows'[p] : ProjectOf[x[1]] = p
  BY <1>1, <1>3, StoreKeepsScope DEF w, CallsInv, Inv, TypeOK
<1>12. \A b \in late' : /\ CallOf(b) \in Call \ effected' /\ resolved'[CallOf(b)] = Port!Failed
                        /\ b.phase = "writing" /\ b.written = {}
  BY <1>2, <1>7 DEF CallsInv
<1>13. effected' \in SUBSET Call
       /\ resolved' \in [Call -> [kind : {"pending", "ok", "err"}, written : SUBSET Copy]]
  BY <1>2, <1>3 DEF CallsInv
<1> QED BY <1>9, <1>10, <1>11, <1>12, <1>13 DEF CallsInv

LEMMA LateEffectKeeps ==
    ASSUME Inv, CallsInv, NEW c \in late, SinkCommitsLate(c), TakesEffect(c)
    PROVE  CallsInv'
<1> DEFINE w == CallOf(c)
<1>1. PICK W \in SUBSET c.events : Store(c, W)
  BY DEF SinkCommitsLate
<1>2. /\ late' = late \ {c} /\ UNCHANGED <<pc, groups, commits, resolved>>
      /\ effected' = effected \cup {w}
  BY DEF SinkCommitsLate, requestVars, groupVars, TakesEffect
<1>3. w \in Call /\ resolved[w] = Port!Failed /\ Started(w)
  BY DEF CallsInv, Started, Port!Failed, Port!Pending
<1>4. \A b \in late \ {c} : CallOf(b) # w
  BY CallsDiffer
<1> HIDE DEF w
<1>5. \A v \in Call : Started(v)' <=> Started(v)
  BY <1>2, <1>3 DEF Started
<1>6. \A v \in Call : Started(v)' =>
           /\ v.waiters # {}
           /\ \A r \in v.waiters : Within(r)' /\ \A p \in Project : r \notin groups'[p].waiters
  BY <1>2, <1>5 DEF CallsInv, Within
<1>7. ASSUME NEW b \in commits'
      PROVE  /\ b.waiters # {}
             /\ b.phase = "writing" => ~Started(CallOf(b))' /\ b.written = {}
             /\ b.phase = "written" =>
                     CallOf(b) \in effected' /\ resolved'[CallOf(b)] = Port!Pending
  <2>1. b \in commits /\ CallOf(b) \in Call
    BY <1>2, CommitWaits
  <2> QED BY <1>2, <1>5, <2>1 DEF CallsInv
<1>8. \A p \in Project : \A x \in rows'[p] : ProjectOf[x[1]] = p
  BY <1>1, <1>3, StoreKeepsScope DEF w, CallsInv, Inv, TypeOK
<1>9. \A b \in late' : /\ CallOf(b) \in Call \ effected' /\ resolved'[CallOf(b)] = Port!Failed
                       /\ b.phase = "writing" /\ b.written = {}
  BY <1>2, <1>4 DEF CallsInv
<1>10. effected' \in SUBSET Call
       /\ resolved' \in [Call -> [kind : {"pending", "ok", "err"}, written : SUBSET Copy]]
  BY <1>2, <1>3 DEF CallsInv
<1> QED BY <1>6, <1>7, <1>8, <1>9, <1>10 DEF CallsInv

\* A call is answered: its commit moves on, and if it failed before it took
\* effect it may still do so.
LEMMA ResolvesKeeps ==
    ASSUME Inv, CallsInv, NEW c \in commits, c.phase \in {"writing", "written"},
           NEW answer \in [kind : {"ok", "err"}, written : SUBSET Copy], Resolves(c, answer),
           NEW ph \in {"recorded", "settled"}, NEW W, MoveTo(c, ph, W),
           UNCHANGED <<groups, rows>>, \A q \in Request : Within(q) => Within(q)',
           \/ UNCHANGED late
           \/ late' = late \cup {c} /\ c.phase = "writing" /\ answer = Port!Failed
    PROVE  CallsInv'
<1> DEFINE w == CallOf(c)
<1>1. /\ c \in Commit /\ w \in Call /\ w.waiters = c.waiters /\ c.waiters # {}
      /\ c.waiters \subseteq Request
      /\ \A r \in c.waiters : Within(r) /\ \A p \in Project : r \notin groups[p].waiters
  BY CommitWaits
<1>2. /\ resolved' = [resolved EXCEPT ![w] = answer] /\ UNCHANGED effected
      /\ resolved \in [Call -> [kind : {"pending", "ok", "err"}, written : SUBSET Copy]]
  BY DEF Resolves, CallsInv
<1>3. resolved[w] = Port!Pending /\ answer # Port!Pending
  BY DEF CallsInv, Started, Port!Pending
<1>4. PICK d \in {[c EXCEPT !.phase = ph, !.written = W]} :
          commits' = (commits \ {c}) \cup {d} /\ d.phase = ph /\ d.waiters = c.waiters
  BY <1>1 DEF MoveTo, Commit
<1>5. \A b \in commits \ {c} : CallOf(b) # w
  BY CallsDiffer
<1>6. \A b \in late : CallOf(b) # w
  BY <1>3 DEF CallsInv, Port!Failed, Port!Pending
<1>7. c.phase = "writing" => w \notin effected /\ c.written = {}
  BY DEF CallsInv, Started
<1> HIDE DEF w
<1>8. /\ \A v \in Call \ {w} : resolved'[v] = resolved[v]
      /\ resolved'[w] = answer
  BY <1>1, <1>2
<1>9. \A v \in Call : Started(v)' <=> Started(v) \/ v = w
  BY <1>2, <1>3, <1>8 DEF Started
<1>10. ASSUME NEW v \in Call, Started(v)'
       PROVE  /\ v.waiters # {}
              /\ \A r \in v.waiters : Within(r)' /\ \A p \in Project : r \notin groups'[p].waiters
  <2>1. v.waiters # {} /\ \A r \in v.waiters : Within(r) /\ \A p \in Project : r \notin groups[p].waiters
    BY <1>1, <1>9, <1>10 DEF CallsInv
  <2>2. v.waiters \subseteq Request
    BY DEF Call
  <2> QED BY <2>1, <2>2
<1>11. ASSUME NEW b \in commits'
       PROVE  /\ b.waiters # {}
              /\ b.phase = "writing" => ~Started(CallOf(b))' /\ b.written = {}
              /\ b.phase = "written" =>
                     CallOf(b) \in effected' /\ resolved'[CallOf(b)] = Port!Pending
  <2>1. CASE b = d
    BY <1>1, <1>4, <2>1
  <2>2. CASE b \in commits /\ b # c
    <3>1. CallOf(b) \in Call /\ CallOf(b) # w
      BY <1>5, <2>2, CommitWaits
    <3> QED BY <1>2, <1>8, <1>9, <2>2, <3>1 DEF CallsInv
  <2> QED BY <1>4, <2>1, <2>2
<1>12. ASSUME NEW b \in late'
       PROVE  /\ CallOf(b) \in Call \ effected' /\ resolved'[CallOf(b)] = Port!Failed
              /\ b.phase = "writing" /\ b.written = {}
  <2>1. CASE b \in late
    BY <1>2, <1>6, <1>8, <2>1 DEF CallsInv
  <2>2. CASE b \notin late
    BY <1>1, <1>2, <1>7, <1>8, <2>2 DEF w
  <2> QED BY <2>1, <2>2
<1>13. resolved' \in [Call -> [kind : {"pending", "ok", "err"}, written : SUBSET Copy]]
  BY <1>1, <1>2
<1> QED BY <1>2, <1>10, <1>11, <1>12, <1>13 DEF CallsInv

\* A transaction that takes effect is the port's Store, whoever still listens.
LEMMA StoreSimulates ==
    ASSUME Inv, CallsInv, NEW c \in Commit, CallOf(c) \in Call \ effected,
           resolved[CallOf(c)].kind # "ok", NEW W \in SUBSET c.events, Store(c, W), TakesEffect(c)
    PROVE  Port!Store(CallOf(c))
<1> DEFINE w == CallOf(c)
           rc == {pe \in Project \X Keyed : pe[2] \in receipts[pe[1]]}
           rw == UNION {rows[p] : p \in Project}
           ko == [x \in KeyedCopy |-> <<ProjectOf[x[1]], x[2]>>]
           st == [v \in Call |-> v \in effected]
<1>1. /\ w.events = c.events /\ c.events \in SUBSET Copy /\ c.project \in Project
      /\ \A x \in c.events : ProjectOf[x[1]] = c.project
      /\ receipts \in [Project -> SUBSET Keyed] /\ rows \in [Project -> SUBSET Copy]
  BY DEF CallOf, Call, Commit, Inv, TypeOK
<1>2. /\ Stores(c, W)
      /\ receipts' = [receipts EXCEPT ![c.project] = @ \cup (EventsIn(W) \cap Keyed)]
      /\ rows' = [rows EXCEPT ![c.project] = @ \cup W]
      /\ effected' = effected \cup {w} /\ UNCHANGED resolved
  BY DEF Store, TakesEffect
<1>3. Port!Fresh(w, W)
  BY <1>2, StoreIsPorts
<1>4. rw' = rw \cup W
  <2>1. \A p \in Project : rows'[p] = IF p = c.project THEN rows[p] \cup W ELSE rows[p]
    BY <1>1, <1>2
  <2>2. rw' = UNION {rows'[p] : p \in Project}
    OBVIOUS
  <2>3. \A x : x \in rw' <=> \E p \in Project : x \in rows'[p]
    BY <2>2
  <2>4. \A x : x \in rw <=> \E p \in Project : x \in rows[p]
    OBVIOUS
  <2>5. \A x : x \in rw' <=> x \in rw \/ x \in W
    <3> HIDE DEF rw
    <3> QED BY <1>1, <2>1, <2>3, <2>4
  <2> HIDE DEF rw
  <2> QED BY <2>5
<1>5. rc' = rc \cup {ko[i] : i \in W \cap KeyedCopy}
  <2>1. \A p \in Project :
            receipts'[p] = IF p = c.project THEN receipts[p] \cup (EventsIn(W) \cap Keyed)
                           ELSE receipts[p]
    BY <1>1, <1>2
  <2>2. \A x \in W : x \in KeyedCopy <=> x[2] \in Keyed
    BY <1>1 DEF KeyedCopy
  <2>3. \A x \in W \cap KeyedCopy : ko[x] = <<c.project, x[2]>> /\ x[2] \in Keyed
    BY <1>1, <2>2
  <2>4. ASSUME NEW p \in Project, NEW e \in Keyed
        PROVE  <<p, e>> \in {ko[i] : i \in W \cap KeyedCopy} <=> p = c.project /\ e \in EventsIn(W)
    <3> HIDE DEF ko
    <3>1. ASSUME p = c.project, e \in EventsIn(W)
          PROVE  <<p, e>> \in {ko[i] : i \in W \cap KeyedCopy}
      <4>1. PICK x \in W : x[2] = e
        BY <3>1 DEF EventsIn
      <4> QED BY <2>2, <2>3, <3>1, <4>1
    <3>2. ASSUME NEW x \in W \cap KeyedCopy, ko[x] = <<p, e>>
          PROVE  p = c.project /\ e \in EventsIn(W)
      BY <2>3, <3>2 DEF EventsIn
    <3> QED BY <3>1, <3>2
  <2>5. {ko[i] : i \in W \cap KeyedCopy} \subseteq Project \X Keyed
    <3>1. \A i \in W \cap KeyedCopy : ko[i] \in Project \X Keyed
      <4> HIDE DEF ko
      <4>1. \A e \in Keyed : <<c.project, e>> \in Project \X Keyed
        BY <1>1
      <4> QED BY <2>3, <4>1
    <3> HIDE DEF ko
    <3> QED BY <3>1
  <2>6. \A p \in Project, e \in Keyed :
            <<p, e>> \in rc' <=> <<p, e>> \in rc \cup {ko[i] : i \in W \cap KeyedCopy}
    <3> TAKE p \in Project, e \in Keyed
    <3>1. <<p, e>> \in rc' <=> e \in receipts'[p]
      OBVIOUS
    <3>2. <<p, e>> \in rc <=> e \in receipts[p]
      OBVIOUS
    <3>3. e \in receipts'[p] <=> e \in receipts[p] \/ (p = c.project /\ e \in EventsIn(W))
      BY <2>1
    <3> HIDE DEF ko, rc
    <3> QED BY <2>4, <3>1, <3>2, <3>3
  <2> HIDE DEF ko
  <2> QED BY <2>5, <2>6
<1>6. st' = [st EXCEPT ![w] = TRUE] /\ ~st[w]
  <2>1. w \in Call /\ w \notin effected /\ st' = [v \in Call |-> v \in effected']
    OBVIOUS
  <2>2. ~st[w]
    BY <2>1
  <2>3. ASSUME NEW v \in Call PROVE (v \in effected') = (IF v = w THEN TRUE ELSE v \in effected)
    <3> HIDE DEF w
    <3>1. CASE v = w
      BY <1>2, <3>1
    <3>2. CASE v # w
      BY <1>2, <3>2
    <3> QED BY <3>1, <3>2
  <2>4. [st EXCEPT ![w] = TRUE] = [v \in Call |-> IF v = w THEN TRUE ELSE v \in effected]
    <3> HIDE DEF w
    <3> QED BY <2>1
  <2> QED BY <2>1, <2>2, <2>3, <2>4
<1>7. W \in SUBSET w.events
  BY <1>1
<1> QED BY <1>2, <1>3, <1>4, <1>5, <1>6, <1>7 DEF Port!Store, Port!KeysOf

\* Of what a commit carried, the store has what it wrote.
LEMMA WrittenIsStored ==
    ASSUME Inv, Owned, CallsInv, NEW c \in commits, c.phase = "written"
    PROVE  (UNION {rows[p] : p \in Project}) \cap c.events = c.written
<1>1. /\ c.written \subseteq c.events /\ c.events \in SUBSET Copy
      /\ \A x \in c.events : x[1] \in c.waiters /\ ProjectOf[x[1]] = c.project
      /\ c.project \in Project
  BY DEF Inv, CommitsOK, Commit
<1>2. \A x \in c.events : RowsOf(x[1], rows) = CopiesOf(x[1], c.written)
  BY <1>1 DEF Owned, CommitsWrote
<1>3. \A x \in c.events : x \in rows[c.project] <=> x \in c.written
  BY <1>1, <1>2 DEF RowsOf, CopiesOf
<1>4. \A x \in c.events, p \in Project : x \in rows[p] => p = c.project
  BY <1>1 DEF CallsInv
<1> DEFINE rw == UNION {rows[p] : p \in Project}
<1>5. \A x \in c.events : x \in rw <=> x \in c.written
  BY <1>1, <1>3, <1>4
<1>6. rw \cap c.events = c.written
  <2> HIDE DEF rw
  <2> QED BY <1>1, <1>5
<1> QED BY <1>6

\* What the calls' history says holds in every state.
LEMMA CallsInvHolds == CallsSpec => [](Inv /\ Owned /\ CallsInv)
<1>1. [CallsNext]_<<vars, callVars>> => [Next]_vars
  BY DEF CallsNext, Otherwise, Next, CommitStep, SinkAnswers
<1>2. CallsSpec => Spec
  BY <1>1, PTL DEF CallsSpec, CallsInit, Spec
<1>3. CallsInit => Housed(pc, groups, commits) /\ CallsInv
  <2> SUFFICES ASSUME CallsInit PROVE Housed(pc, groups, commits) /\ CallsInv
    OBVIOUS
  <2>1. /\ effected = {} /\ resolved = [w \in Call |-> Port!Pending]
        /\ commits = {} /\ late = {} /\ \A p \in Project : rows[p] = {}
        /\ \A r \in Request : pc[r] = "new"
    BY DEF CallsInit, Init
  <2> QED BY <2>1 DEF Housed, CallsInv, Started, Port!Pending
<1>4. Inv /\ Inv' /\ Housed(pc, groups, commits) /\ CallsInv /\ [CallsNext]_<<vars, callVars>>
          => (Housed(pc, groups, commits) /\ CallsInv)'
  <2> SUFFICES ASSUME Inv, Inv', Housed(pc, groups, commits), CallsInv,
                      [CallsNext]_<<vars, callVars>>
               PROVE  (Housed(pc, groups, commits) /\ CallsInv)'
    OBVIOUS
  <2>1. Housed(pc', groups', commits') /\ \A q \in Request : Within(q) => Within(q)'
    BY <1>1, StepHouses
  <2>2. ASSUME NEW c \in commits, SinkCommits(c) /\ TakesEffect(c) PROVE CallsInv'
    BY <2>2, CommitEffectKeeps
  <2>3. ASSUME NEW c \in commits, SinkFails(c) \/ ReceiptLost(c), Resolves(c, Port!Failed)
        PROVE  CallsInv'
    <3>1. /\ c.phase \in {"writing", "written"} /\ UNCHANGED <<groups, rows>>
          /\ \E W : MoveTo(c, "settled", W)
          /\ \/ UNCHANGED late
             \/ late' = late \cup {c} /\ c.phase = "writing"
      BY <2>3 DEF SinkFails, ReceiptLost, durableVars
    <3>2. Port!Failed \in [kind : {"ok", "err"}, written : SUBSET Copy]
      BY DEF Port!Failed
    <3> QED BY <2>1, <2>3, <3>1, <3>2, ResolvesKeeps
  <2>4. ASSUME NEW c \in commits, RecordUsage(c), Resolves(c, Port!Written(c.written))
        PROVE  CallsInv'
    <3>1. /\ c.phase = "written" /\ UNCHANGED <<groups, rows, late>>
          /\ MoveTo(c, "recorded", c.written)
      BY <2>4 DEF RecordUsage, durableVars
    <3>2. Port!Written(c.written) \in [kind : {"ok", "err"}, written : SUBSET Copy]
      BY DEF Port!Written, Inv, CommitsOK, Commit
    <3> QED BY <2>1, <2>4, <3>1, <3>2, ResolvesKeeps
  <2>5. ASSUME NEW c \in late, SinkCommitsLate(c) /\ TakesEffect(c) PROVE CallsInv'
    BY <2>5, LateEffectKeeps
  <2>6. CASE Otherwise \/ UNCHANGED <<vars, callVars>>
    BY <2>1, <2>6, OtherwiseIsQuiet DEF Housed
  <2> QED BY <2>1, <2>2, <2>3, <2>4, <2>5, <2>6 DEF CallsNext, Housed
<1>5. CallsSpec => []Inv /\ []Owned
  BY <1>2, InvHolds, OwnedHolds, PTL
<1> QED BY <1>3, <1>4, <1>5, PTL DEF CallsSpec

\* group-commit.ts:350-365 and event-sink.ts: what the coalescer does with its
\* sink, and what the sink does to it, are calls of the port.  So what is proved
\* of the coalescer assumes of the sink only what the port promises, late and
\* lost answers included, and LiticsSink keeps that promise.
THEOREM SinkIsThePorts == CallsSpec => SinkKeepsPromise
<1>1. CallsInit => Port!Init
  <2> SUFFICES ASSUME CallsInit PROVE Port!Init
    OBVIOUS
  <2>1. /\ \A p \in Project : receipts[p] = {} /\ rows[p] = {}
        /\ effected = {} /\ resolved = [w \in Call |-> Port!Pending]
    BY DEF CallsInit, Init
  <2>2. {pe \in Project \X Keyed : pe[2] \in receipts[pe[1]]} = {}
    BY <2>1
  <2>3. UNION {rows[p] : p \in Project} = {}
    BY <2>1
  <2>4. [w \in Call |-> w \in effected] = [w \in Call |-> FALSE]
    <3>1. \A w \in Call : (w \in effected) = FALSE
      BY <2>1
    <3> QED BY <3>1
  <2> QED BY <2>1, <2>2, <2>3, <2>4 DEF Port!Init
<1>2. Inv /\ Owned /\ CallsInv /\ Inv' /\ [CallsNext]_<<vars, callVars>> => [Port!Next]_(Port!vars)
  <2> SUFFICES ASSUME Inv, Owned, CallsInv, [CallsNext]_<<vars, callVars>>
               PROVE  Port!Next \/ UNCHANGED Port!vars
    OBVIOUS
  <2>1. ASSUME NEW c \in commits, SinkCommits(c) /\ TakesEffect(c) PROVE Port!Next
    <3>1. c \in Commit /\ CallOf(c) \in Call
      BY CommitWaits
    <3>2. CallOf(c) \notin effected /\ resolved[CallOf(c)].kind # "ok"
      BY <2>1 DEF SinkCommits, CallsInv, Started, Port!Pending
    <3>3. PICK W \in SUBSET c.events : Store(c, W)
      BY <2>1 DEF SinkCommits
    <3>4. Port!Store(CallOf(c))
      BY <2>1, <3>1, <3>2, <3>3, StoreSimulates
    <3> QED BY <3>1, <3>4 DEF Port!Next
  <2>2. ASSUME NEW c \in late, SinkCommitsLate(c) /\ TakesEffect(c) PROVE Port!Next
    <3>1. /\ c \in Commit /\ CallOf(c) \in Call \ effected /\ resolved[CallOf(c)].kind # "ok"
      BY DEF Inv, TypeOK, CallsInv, Port!Failed
    <3>2. PICK W \in SUBSET c.events : Store(c, W)
      BY <2>2 DEF SinkCommitsLate
    <3>3. Port!Store(CallOf(c))
      BY <2>2, <3>1, <3>2, StoreSimulates
    <3> QED BY <3>1, <3>3 DEF Port!Next
  <2>3. ASSUME NEW c \in commits, SinkFails(c) \/ ReceiptLost(c), Resolves(c, Port!Failed)
        PROVE  Port!Next
    <3>1. CallOf(c) \in Call /\ resolved[CallOf(c)] = Port!Pending
      BY <2>3, CommitWaits DEF SinkFails, ReceiptLost, CallsInv, Started
    <3>2. UNCHANGED <<receipts, rows, effected>>
      BY <2>3 DEF SinkFails, ReceiptLost, durableVars, Resolves
    <3>3. Port!AnswerErr(CallOf(c))
      BY <2>3, <3>1, <3>2 DEF Port!AnswerErr, Resolves
    <3> QED BY <3>1, <3>3 DEF Port!Next
  <2>4. ASSUME NEW c \in commits, RecordUsage(c), Resolves(c, Port!Written(c.written))
        PROVE  Port!Next
    <3>1. /\ CallOf(c) \in Call /\ resolved[CallOf(c)] = Port!Pending
          /\ CallOf(c) \in effected /\ c.phase = "written" /\ CallOf(c).events = c.events
      BY <2>4, CommitWaits DEF RecordUsage, CallsInv, CallOf
    <3>2. UNCHANGED <<receipts, rows, effected>>
      BY <2>4 DEF RecordUsage, durableVars, Resolves
    <3>3. (UNION {rows[p] : p \in Project}) \cap c.events = c.written
      BY <3>1, WrittenIsStored
    <3>4. [w \in Call |-> w.events][CallOf(c)] = c.events /\ [w \in Call |-> w \in effected][CallOf(c)]
      BY <3>1
    <3>5. resolved' = [resolved EXCEPT ![CallOf(c)] = Port!Written(c.written)]
      BY <2>4 DEF Resolves
    <3>6. Port!AnswerOk(CallOf(c))
      BY <3>1, <3>2, <3>3, <3>4, <3>5 DEF Port!AnswerOk
    <3> QED BY <3>1, <3>6 DEF Port!Next
  <2>5. CASE Otherwise \/ UNCHANGED <<vars, callVars>>
    <3>1. UNCHANGED <<receipts, rows, callVars>>
      BY <2>5 DEF Otherwise, Submit, SubmitRefused, SubmitEmpty, SubmitChecks, QuotaAnswers,
                  QuotaRefuses, QuotaAllowsNoRoom, QuotaAllowsJoin, SettleCommitted, CommitEnds,
                  Advance, Tick, Drain, DrainResolves, Finished, vars, durableVars
    <3> QED BY <3>1 DEF callVars, Port!vars
  <2> QED BY <2>1, <2>2, <2>3, <2>4, <2>5 DEF CallsNext
<1> QED BY <1>1, <1>2, CallsInvHolds, PTL DEF CallsSpec, SinkKeepsPromise, Port!Spec
=============================================================================
