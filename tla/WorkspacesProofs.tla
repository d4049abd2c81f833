-------------------------- MODULE WorkspacesProofs --------------------------
(***************************************************************************)
(* Proofs about Workspaces, for every set of workspaces, accounts and      *)
(* worker replicas and any number of changes and faults.                   *)
(*                                                                         *)
(* Halves: how far a creation is says which halves are there, and nobody   *)
(* but its creation touches a workspace whose organization is not          *)
(* committed.  Snapshots: what a membership call read under the row lock   *)
(* is still so when it writes, but for rows that went with their account.  *)
(* Races: a repair that is under way either found the workspace missing    *)
(* and it still is, or another repair was beside it.                       *)
(***************************************************************************)
EXTENDS Workspaces, FiniteSetTheorems, TLAPS

Creating(w) == create[w].at \in {"inserted", "placed", "subscribed"}

Whole(w) == workspaces[w] # "absent" /\ subscriptions[w] # "absent"

HalvesOf(w) ==
    /\ w \in organization => w \in Legacy \/ create[w].at = "done"
    /\ w \in Legacy => create[w].at = "none"
    /\ create[w].at = "placed" => workspaces[w] # "absent"
    /\ create[w].at \in {"subscribed", "done"} => Whole(w)
    /\ w \in organization /\ workspaces[w] # "absent" => subscriptions[w] # "absent"
    /\ workspaces[w] = "paid" => w \in organization

Halves == \A w \in Workspace : HalvesOf(w)

Snapshot(c) ==
    LET w == c.workspace
    IN  /\ w \in organization
        /\ \A m \in c.rows : \/ m \in members[w]
                             \/ /\ account[m.account] = "gone"
                                /\ m.role = "owner" => w \in deprived
        /\ \A m \in members[w] : RowsOf(c.rows, m.account) # {} => m \in c.rows

Snapshots == \A c \in calls : Snapshot(c)

Repairing(r, w) == pass[r].at = "repairing" /\ pass[r].workspace = w

Races ==
    \A r \in Reconciler :
        /\ pass[r].todo \subseteq organization
        /\ pass[r].at \in {"found", "repairing"} => pass[r].workspace \in organization
        /\ \A w \in Workspace : Repairing(r, w) =>
              /\ workspaces[w] = "absent" \/ w \in raced
              /\ \A q \in Reconciler \ {r} : Repairing(q, w) => w \in raced

Inv == TypeOK /\ Halves /\ Snapshots /\ Races

-----------------------------------------------------------------------------
(* Records *)

LEMMA CreatorTypes ==
    /\ \A at \in {"none", "done", "failed"} : [at |-> at] \in Creator
    /\ \A at \in {"inserted", "placed", "subscribed"}, a \in Account :
          [at |-> at, owner |-> a] \in Creator
BY DEF Creator

\* A creation that is under way has an owner and moves on with it.
LEMMA CreationMoves ==
    ASSUME NEW x \in Creator, x.at \in {"inserted", "placed", "subscribed"}
    PROVE  /\ x.owner \in Account
           /\ [x EXCEPT !.at = "placed"] \in Creator
           /\ [x EXCEPT !.at = "placed"].at = "placed"
           /\ [x EXCEPT !.at = "subscribed"] \in Creator
           /\ [x EXCEPT !.at = "subscribed"].at = "subscribed"
BY DEF Creator

LEMMA PassTypes ==
    /\ Idle \in Pass
    /\ \A s, t \in SUBSET Workspace : [at |-> "scanning", todo |-> s, owned |-> t] \in Pass
    /\ \A at \in {"found", "repairing"}, s, t \in SUBSET Workspace, w \in Workspace :
          [at |-> at, todo |-> s, owned |-> t, workspace |-> w] \in Pass
BY DEF Pass, Idle

LEMMA PassFields ==
    ASSUME NEW x \in Pass
    PROVE  /\ x.todo \in SUBSET Workspace /\ x.owned \in SUBSET Workspace
           /\ x.at \in {"idle", "scanning", "found", "repairing"}
           /\ x.at \in {"found", "repairing"} =>
                 /\ x.workspace \in Workspace
                 /\ [x EXCEPT !.at = "repairing"] =
                       [at |-> "repairing", todo |-> x.todo, owned |-> x.owned,
                        workspace |-> x.workspace]
<1>1. CASE x \in [at : {"idle", "scanning"}, todo : SUBSET Workspace, owned : SUBSET Workspace]
  BY <1>1
<1>2. CASE x \in [at : {"found", "repairing"}, todo : SUBSET Workspace,
                  owned : SUBSET Workspace, workspace : Workspace]
  BY <1>2
<1> QED BY <1>1, <1>2 DEF Pass

-----------------------------------------------------------------------------
(* A step that leaves a part of the state alone keeps what is said of it. *)

LEMMA HalvesSame ==
    ASSUME Inv, UNCHANGED <<create, organization, workspaces, subscriptions>>
    PROVE  Halves'
BY DEF Inv, Halves, HalvesOf, Whole

LEMMA HalvesMove ==
    ASSUME Inv, NEW w \in Workspace, HalvesOf(w)',
           \A v \in Workspace \ {w} :
               /\ create'[v] = create[v] /\ (v \in organization' <=> v \in organization)
               /\ workspaces'[v] = workspaces[v] /\ subscriptions'[v] = subscriptions[v]
    PROVE  Halves'
<1>1. \A v \in Workspace \ {w} : HalvesOf(v)'
  BY DEF Inv, Halves, HalvesOf, Whole
<1> QED BY <1>1 DEF Halves

LEMMA SnapshotsSame ==
    ASSUME Inv, UNCHANGED <<calls, members, account, deprived>>,
           organization \subseteq organization'
    PROVE  Snapshots'
BY DEF Inv, Snapshots, Snapshot

LEMMA RacesSame ==
    ASSUME Inv, UNCHANGED <<pass, raced, workspaces>>, organization \subseteq organization'
    PROVE  Races'
BY DEF Inv, Races, Repairing

-----------------------------------------------------------------------------
(* Creating a workspace, and buying a plan. *)

\* Nobody looks at a workspace that is being created.
LEMMA CreationIsUnseen ==
    ASSUME Inv, NEW w \in Workspace,
           Creating(w) \/ (create[w].at = "none" /\ w \notin Legacy)
    PROVE  /\ w \notin organization /\ w \notin Legacy
           /\ \A r \in Reconciler : ~Repairing(r, w)
           /\ \A c \in calls : c.workspace # w
BY DEF Inv, Halves, HalvesOf, Races, Snapshots, Snapshot, Repairing, Creating

LEMMA CreationKeeps ==
    ASSUME Inv, NEW w \in Workspace, Creation(w)
    PROVE  Inv'
<1>1. /\ TypeOK /\ create \in [Workspace -> Creator] /\ create[w] \in Creator
      /\ DOMAIN create = Workspace
  BY DEF Inv, TypeOK
<1>2. ASSUME NEW a \in Account, CreateInserts(w, a) PROVE Inv'
  <2>1. w \notin organization /\ w \notin Legacy
    BY <1>2, CreationIsUnseen DEF CreateInserts
  <2>2. [at |-> "inserted", owner |-> a] \in Creator
    BY CreatorTypes
  <2>3. TypeOK'
    BY <1>1, <1>2, <2>2
       DEF TypeOK, CreateInserts, identityVars, domainVars, historyVars
  <2>4. Halves'
    <3>1. create'[w].at = "inserted" /\ \A v \in Workspace \ {w} : create'[v] = create[v]
      BY <1>1, <1>2 DEF CreateInserts
    <3>2. HalvesOf(w)'
      BY <1>2, <2>1, <3>1 DEF Inv, Halves, HalvesOf, CreateInserts, identityVars, domainVars
    <3> QED BY <1>2, <3>1, <3>2, HalvesMove DEF CreateInserts, identityVars, domainVars
  <2>5. Snapshots' /\ Races'
    BY <1>2, SnapshotsSame, RacesSame DEF CreateInserts, identityVars, domainVars, historyVars
  <2> QED BY <2>3, <2>4, <2>5 DEF Inv
<1>3. CASE CreatePlaces(w)
  <2>0. Creating(w)
    BY <1>3 DEF CreatePlaces, Creating
  <2>1. w \notin organization /\ w \notin Legacy /\ \A r \in Reconciler : ~Repairing(r, w)
    BY <2>0, CreationIsUnseen
  <2>2. [create[w] EXCEPT !.at = "placed"] \in Creator /\ create'[w].at = "placed"
    BY <1>1, <1>3, CreationMoves DEF CreatePlaces
  <2>3. TypeOK'
    BY <1>1, <1>3, <2>2
       DEF TypeOK, CreatePlaces, Plan, identityVars, historyVars
  <2>4. Halves'
    <3>1. /\ workspaces'[w] = "free"
          /\ \A v \in Workspace \ {w} : create'[v] = create[v] /\ workspaces'[v] = workspaces[v]
      BY <1>1, <1>3 DEF CreatePlaces, TypeOK
    <3>2. HalvesOf(w)'
      BY <1>3, <2>1, <2>2, <3>1 DEF HalvesOf, CreatePlaces, identityVars
    <3> QED BY <1>3, <3>1, <3>2, HalvesMove DEF CreatePlaces, identityVars
  <2>5. Races'
    BY <1>1, <1>3, <2>1
       DEF Inv, Races, Repairing, CreatePlaces, identityVars, historyVars, TypeOK
  <2>6. Snapshots'
    BY <1>3, SnapshotsSame DEF CreatePlaces, identityVars, historyVars
  <2> QED BY <2>3, <2>4, <2>5, <2>6 DEF Inv
<1>4. CASE CreateSubscribes(w)
  <2>0. Creating(w)
    BY <1>4 DEF CreateSubscribes, Creating
  <2>1. w \notin organization /\ w \notin Legacy
    BY <2>0, CreationIsUnseen
  <2>2. [create[w] EXCEPT !.at = "subscribed"] \in Creator /\ create'[w].at = "subscribed"
    BY <1>1, <1>4, CreationMoves DEF CreateSubscribes
  <2>3. TypeOK'
    BY <1>1, <1>4, <2>2
       DEF TypeOK, CreateSubscribes, Plan, identityVars, historyVars
  <2>4. Halves'
    <3>1. /\ subscriptions'[w] = "free"
          /\ \A v \in Workspace \ {w} :
                create'[v] = create[v] /\ subscriptions'[v] = subscriptions[v]
      BY <1>1, <1>4 DEF CreateSubscribes, TypeOK
    <3>2. workspaces[w] # "absent" /\ workspaces[w] # "paid"
      BY <1>4, <2>1 DEF CreateSubscribes, Inv, Halves, HalvesOf
    <3>3. HalvesOf(w)'
      BY <1>4, <2>1, <2>2, <3>1, <3>2 DEF HalvesOf, Whole, CreateSubscribes, identityVars
    <3> QED BY <1>4, <3>1, <3>3, HalvesMove DEF CreateSubscribes, identityVars
  <2>5. Snapshots' /\ Races'
    BY <1>4, SnapshotsSame, RacesSame DEF CreateSubscribes, identityVars, historyVars
  <2> QED BY <2>3, <2>4, <2>5 DEF Inv
<1>5. CASE CreateCommits(w)
  <2>0. Creating(w)
    BY <1>5 DEF CreateCommits, Creating
  <2>1. /\ w \notin organization /\ w \notin Legacy
        /\ \A c \in calls : c.workspace # w
    BY <2>0, CreationIsUnseen
  <2>2. [at |-> "done"] \in Creator /\ create'[w].at = "done"
    BY <1>1, <1>5, CreatorTypes DEF CreateCommits, Commits
  <2>3. create[w].owner \in Account
    BY <1>1, <1>5, CreationMoves DEF CreateCommits
  <2>4. TypeOK'
    <3>1. {[account |-> create[w].owner, n |-> 1, role |-> "owner"]} \in SUBSET Row
      BY <2>3 DEF Row, Role
    <3>2. members' \in [Workspace -> SUBSET Row]
      BY <1>1, <1>5, <3>1 DEF TypeOK, CreateCommits, Commits
    <3>3. create' \in [Workspace -> Creator]
      BY <1>1, <1>5, <2>2 DEF CreateCommits, Commits
    <3>4. organization' \subseteq Workspace
      BY <1>1, <1>5 DEF TypeOK, CreateCommits, Commits
    <3> QED
      BY <1>1, <1>5, <3>2, <3>3, <3>4
         DEF TypeOK, CreateCommits, Commits, domainVars, historyVars
  <2>5. Halves'
    <3>1. organization' = organization \cup {w} /\ \A v \in Workspace \ {w} : create'[v] = create[v]
      BY <1>1, <1>5 DEF CreateCommits, Commits
    <3>2. Whole(w)
      BY <1>5 DEF CreateCommits, Inv, Halves, HalvesOf
    <3>3. HalvesOf(w)'
      BY <1>5, <2>1, <2>2, <3>1, <3>2 DEF HalvesOf, Whole, CreateCommits, Commits, domainVars
    <3> QED BY <1>5, <3>1, <3>3, HalvesMove DEF CreateCommits, Commits, domainVars
  <2>6. Snapshots'
    <3>1. /\ UNCHANGED <<calls, account, deprived>> /\ organization \subseteq organization'
          /\ \A v \in Workspace \ {w} : members'[v] = members[v]
      BY <1>1, <1>5 DEF CreateCommits, Commits, historyVars, TypeOK
    <3>2. \A c \in calls : c.workspace \in Workspace \ {w}
      BY <1>1, <2>1 DEF TypeOK, Call
    <3> QED BY <3>1, <3>2 DEF Inv, Snapshots, Snapshot
  <2>7. Races'
    BY <1>5, RacesSame DEF CreateCommits, Commits, domainVars, historyVars
  <2> QED BY <2>4, <2>5, <2>6, <2>7 DEF Inv
<1>6. CASE CreateFails(w)
  <2>0. Creating(w)
    BY <1>6 DEF CreateFails, Creating
  <2>1. w \notin organization /\ w \notin Legacy
    BY <2>0, CreationIsUnseen
  <2>2. [at |-> "failed"] \in Creator /\ create'[w].at = "failed"
    BY <1>1, <1>6, CreatorTypes DEF CreateFails
  <2>3. faults' \in 0..MaxFaults
    BY <1>1, <1>6, WorkspacesAssumption DEF CreateFails, Fault, TypeOK
  <2>4. TypeOK'
    BY <1>1, <1>6, <2>2, <2>3
       DEF TypeOK, CreateFails, identityVars, domainVars, historyVars
  <2>5. Halves'
    <3>1. \A v \in Workspace \ {w} : create'[v] = create[v]
      BY <1>1, <1>6 DEF CreateFails
    <3>2. HalvesOf(w)'
      BY <1>6, <2>1, <2>2 DEF Inv, Halves, HalvesOf, CreateFails, identityVars, domainVars
    <3> QED BY <1>6, <3>1, <3>2, HalvesMove DEF CreateFails, identityVars, domainVars
  <2>6. Snapshots' /\ Races'
    BY <1>6, SnapshotsSame, RacesSame DEF CreateFails, identityVars, domainVars, historyVars
  <2> QED BY <2>4, <2>5, <2>6 DEF Inv
<1> QED BY <1>2, <1>3, <1>4, <1>5, <1>6 DEF Creation

LEMMA PurchaseKeeps ==
    ASSUME Inv, NEW w \in Workspace, Purchase(w)
    PROVE  Inv'
<1>1. TypeOK /\ w \in organization /\ workspaces[w] = "free"
  BY DEF Inv, Purchase
<1>2. TypeOK'
  BY <1>1 DEF TypeOK, Purchase, Plan, identityVars, historyVars
<1>3. Halves'
  BY <1>1 DEF Inv, Halves, HalvesOf, Whole, Purchase, identityVars, TypeOK
<1>4. Races'
  BY <1>1 DEF Inv, Races, Repairing, Purchase, identityVars, historyVars, TypeOK
<1>5. Snapshots'
  BY SnapshotsSame DEF Purchase, identityVars, historyVars
<1> QED BY <1>2, <1>3, <1>4, <1>5 DEF Inv

-----------------------------------------------------------------------------
(* Members. *)

LEMMA OwnersAre ==
    ASSUME NEW rows, NEW a
    PROVE  a \in OwnersAmong(rows) <=> \E m \in rows : m.role = "owner" /\ m.account = a
BY DEF OwnersAmong

\* Calls on other workspaces, and those that go on, read what they read.
LEMMA SnapshotsMove ==
    ASSUME Inv, NEW c \in calls, calls' = calls \ {c},
           UNCHANGED <<organization, account, deprived>>,
           \A v \in Workspace \ {c.workspace} : members'[v] = members[v]
    PROVE  Snapshots'
<1>1. \A d \in calls \ {c} : d.workspace \in Workspace \ {c.workspace}
  BY DEF Inv, TypeOK, Call
<1> QED BY <1>1 DEF Inv, Snapshots, Snapshot

LEMMA WrittenAreRows ==
    ASSUME TypeOK, NEW c \in calls
    PROVE  Written(c) \in SUBSET Row
<1>1. /\ c.change \in {"remove", "owner", "member"} /\ c.workspace \in Workspace
      /\ members[c.workspace] \in SUBSET Row
  BY DEF TypeOK, Call
<1>2. CASE c.change = "remove"
  BY <1>1, <1>2 DEF Written
<1>3. CASE c.change # "remove"
  <2>1. \A m \in members[c.workspace] : [m EXCEPT !.role = c.change] \in Row
    BY <1>1, <1>3 DEF Row, Role
  <2> QED BY <1>1, <1>3, <2>1 DEF Written
<1> QED BY <1>2, <1>3

LEMMA CallsKeep ==
    ASSUME Inv, NEW c \in calls, End(c) \/ CallFails(c)
    PROVE  Inv'
<1>1. /\ TypeOK /\ c.workspace \in Workspace /\ members \in [Workspace -> SUBSET Row]
      /\ faults' \in 0..MaxFaults /\ calls' = calls \ {c}
  BY WorkspacesAssumption DEF Inv, TypeOK, Call, End, CallFails, Fault
<1>2. /\ members' \in [Workspace -> SUBSET Row]
      /\ \A v \in Workspace \ {c.workspace} : members'[v] = members[v]
  BY <1>1, WrittenAreRows DEF End, CallFails
<1>3. /\ UNCHANGED <<changes, create, organization, account, workspaces, subscriptions, pass>>
      /\ UNCHANGED <<deprived, raced>>
  BY DEF End, CallFails, domainVars, historyVars
<1>4. TypeOK'
  BY <1>1, <1>2, <1>3 DEF TypeOK
<1>5. Snapshots'
  BY <1>1, <1>2, <1>3, SnapshotsMove
<1> QED BY <1>3, <1>4, <1>5, HalvesSame, RacesSame DEF Inv

LEMMA BeginKeeps ==
    ASSUME Inv, NEW w \in Workspace, NEW a \in Account,
           NEW change \in {"remove", "owner", "member"}, Begin(w, a, change)
    PROVE  Inv'
<1> DEFINE c == [workspace |-> w, account |-> a, change |-> change, rows |-> members[w]]
<1>1. c \in Call /\ c.workspace = w /\ c.rows = members[w]
  BY DEF Inv, TypeOK, Call
<1>2. /\ calls' = calls \cup {c} /\ changes' \in 0..MaxChanges /\ w \in organization
      /\ \A d \in calls : d.workspace # w
  BY WorkspacesAssumption DEF Begin, Change, LockFree, Inv, TypeOK
<1>3. /\ UNCHANGED <<create, organization, members, account, workspaces, subscriptions, pass>>
      /\ UNCHANGED <<faults, deprived, raced>>
  BY DEF Begin, domainVars, historyVars
<1> HIDE DEF c
<1>4. TypeOK'
  BY <1>1, <1>2, <1>3 DEF Inv, TypeOK
<1>5. Snapshots'
  BY <1>1, <1>2, <1>3 DEF Inv, Snapshots, Snapshot
<1> QED BY <1>3, <1>4, <1>5, HalvesSame, RacesSame DEF Inv

LEMMA AcceptsKeeps ==
    ASSUME Inv, NEW w \in Workspace, NEW a \in Account, NEW role \in Role, Accepts(w, a, role)
    PROVE  Inv'
<1> DEFINE new == [account |-> a, n |-> 1, role |-> role]
<1>1. new \in Row /\ new.account = a
  BY DEF Row
<1>2. /\ TypeOK /\ members \in [Workspace -> SUBSET Row]
      /\ members' = [members EXCEPT ![w] = @ \cup {new}]
      /\ RowsOf(members[w], a) = {} /\ account[a] # "gone"
      /\ changes' \in 0..MaxChanges
  BY WorkspacesAssumption DEF Accepts, Change, Inv, TypeOK
<1>3. /\ UNCHANGED <<create, organization, calls, account, workspaces, subscriptions, pass>>
      /\ UNCHANGED <<faults, deprived, raced>>
  BY DEF Accepts, domainVars, historyVars
<1> HIDE DEF new
<1>4. TypeOK'
  BY <1>1, <1>2, <1>3 DEF TypeOK
<1>5. Snapshots'
  <2>1. SUFFICES ASSUME NEW c \in calls PROVE Snapshot(c)'
    BY <1>3 DEF Snapshots
  <2>2. Snapshot(c) /\ c.workspace \in Workspace
    BY <1>2 DEF Inv, Snapshots, TypeOK, Call
  <2>3. CASE c.workspace # w
    BY <1>2, <1>3, <2>2, <2>3 DEF Snapshot
  <2>4. CASE c.workspace = w
    <3>1. members'[w] = members[w] \cup {new}
      BY <1>2
    <3>2. RowsOf(c.rows, a) = {}
      BY <1>2, <2>2, <2>4 DEF Snapshot, RowsOf
    <3> QED BY <1>1, <1>3, <2>2, <2>4, <3>1, <3>2 DEF Snapshot
  <2> QED BY <2>3, <2>4
<1> QED BY <1>3, <1>4, <1>5, HalvesSame, RacesSame DEF Inv

LEMMA AccountsKeep ==
    ASSUME Inv, NEW a \in Account, DeleteChecks(a) \/ DeleteAccount(a)
    PROVE  Inv'
<1>1. TypeOK /\ members \in [Workspace -> SUBSET Row]
  BY DEF Inv, TypeOK
<1>2. CASE DeleteChecks(a)
  <2>1. changes' \in 0..MaxChanges
    BY <1>1, <1>2, WorkspacesAssumption DEF DeleteChecks, Change, TypeOK
  <2>2. TypeOK'
    BY <1>1, <1>2, <2>1 DEF TypeOK, DeleteChecks, domainVars, historyVars
  <2>3. Snapshots'
    <3>1. /\ UNCHANGED <<calls, members, organization, deprived>>
          /\ \A b : account[b] = "gone" => account'[b] = "gone"
      BY <1>1, <1>2 DEF DeleteChecks, historyVars, TypeOK
    <3> QED BY <3>1 DEF Inv, Snapshots, Snapshot
  <2> QED BY <1>2, <2>2, <2>3, HalvesSame, RacesSame
          DEF Inv, DeleteChecks, domainVars, historyVars
<1>3. CASE DeleteAccount(a)
  <2>1. TypeOK'
    BY <1>1, <1>3 DEF TypeOK, DeleteAccount, domainVars
  <2>2. Snapshots'
    <3>1. SUFFICES ASSUME NEW c \in calls PROVE Snapshot(c)'
      BY <1>3 DEF Snapshots, DeleteAccount
    <3>2. Snapshot(c) /\ c.workspace \in Workspace /\ c.rows \in SUBSET Row
      BY <1>1 DEF Inv, Snapshots, TypeOK, Call
    <3> DEFINE w == c.workspace
    <3>3. /\ members'[w] = members[w] \ RowsOf(members[w], a)
          /\ UNCHANGED organization /\ w \in organization /\ deprived \subseteq deprived'
          /\ account'[a] = "gone" /\ \A b \in Account : account[b] = "gone" => account'[b] = "gone"
      BY <1>1, <1>3, <3>2 DEF DeleteAccount, TypeOK, Snapshot
    <3>4. ASSUME NEW m \in c.rows, m \notin members'[w]
          PROVE  account'[m.account] = "gone" /\ (m.role = "owner" => w \in deprived')
      <4>1. m \in Row /\ m.account \in Account
        BY <3>2, <3>4 DEF Row
      <4>2. CASE m \notin members[w]
        BY <3>2, <3>3, <3>4, <4>1, <4>2 DEF Snapshot
      <4>3. CASE m \in members[w]
        <5>1. m.account = a
          BY <3>3, <3>4, <4>3 DEF RowsOf
        <5>2. m.role = "owner" => a \in OwnersOf(w)
          BY <4>3, <5>1, OwnersAre DEF OwnersOf
        <5>3. m.role = "owner" => w \in deprived'
          BY <1>3, <3>3, <5>2 DEF DeleteAccount
        <5> QED BY <3>3, <5>1, <5>3
      <4> QED BY <4>2, <4>3
    <3>5. \A m \in members'[w] : RowsOf(c.rows, m.account) # {} => m \in c.rows
      BY <3>2, <3>3 DEF Snapshot
    <3> QED BY <3>3, <3>4, <3>5 DEF Snapshot
  <2>3. UNCHANGED <<create, organization, workspaces, subscriptions, pass, raced>>
    BY <1>3 DEF DeleteAccount, domainVars
  <2> QED BY <2>1, <2>2, <2>3, HalvesSame, RacesSame DEF Inv
<1> QED BY <1>2, <1>3

-----------------------------------------------------------------------------
(* The reconciler. *)

\* A replica that goes on to a pass without a repair of its own.
LEMMA PassMoves ==
    ASSUME Inv, NEW r \in Reconciler, NEW x \in Pass, pass' = [pass EXCEPT ![r] = x],
           x.at # "repairing", x.todo \subseteq organization,
           x.at = "found" => x.workspace \in organization,
           UNCHANGED <<create, identityVars, domainVars, changes, historyVars>>,
           faults' \in 0..MaxFaults
    PROVE  Inv'
<1>1. /\ pass \in [Reconciler -> Pass] /\ pass' \in [Reconciler -> Pass] /\ pass'[r] = x
      /\ \A q \in Reconciler \ {r} : pass'[q] = pass[q]
  BY DEF Inv, TypeOK
<1>2. TypeOK'
  BY <1>1 DEF Inv, TypeOK, identityVars, domainVars, historyVars
<1>3. Races'
  BY <1>1 DEF Inv, Races, Repairing, identityVars, domainVars, historyVars
<1> QED BY <1>2, <1>3, HalvesSame, SnapshotsSame
        DEF Inv, identityVars, domainVars, historyVars

LEMMA ScanningIsPass ==
    ASSUME Inv, NEW r \in Reconciler
    PROVE  /\ Scanning(r) \in Pass /\ Scanning(r).at = "scanning"
           /\ Scanning(r).todo \subseteq organization
BY PassTypes, PassFields DEF Inv, TypeOK, Races, Scanning

LEMMA ReconcilesKeeps ==
    ASSUME Inv, NEW r \in Reconciler, Reconciles(r) \/ RepairFails(r)
    PROVE  Inv'
<1>1. /\ TypeOK /\ pass[r] \in Pass /\ organization \in SUBSET Workspace
      /\ pass[r].todo \subseteq organization /\ faults \in 0..MaxFaults
      /\ pass \in [Reconciler -> Pass]
  BY DEF Inv, TypeOK, Races
<1>2. CASE PassBegins(r)
  <2> DEFINE x == [at |-> "scanning", todo |-> organization,
                   owned |-> {w \in organization : OwnersOf(w) # {}}]
  <2>1. {w \in organization : OwnersOf(w) # {}} \in SUBSET Workspace
    BY <1>1
  <2>2. x \in Pass /\ x.at = "scanning" /\ x.todo = organization
    BY <1>1, <2>1, PassTypes
  <2>3. pass' = [pass EXCEPT ![r] = x]
    BY <1>2 DEF PassBegins
  <2> HIDE DEF x
  <2> QED BY <1>1, <1>2, <2>2, <2>3, PassMoves DEF PassBegins
<1>3. CASE PassEnds(r)
  BY <1>1, <1>3, PassTypes, PassMoves DEF PassEnds, To, Idle
<1>4. ASSUME NEW w \in Workspace, Look(r, w) PROVE Inv'
  <2> DEFINE rest == [at |-> "scanning", todo |-> pass[r].todo \ {w},
                      owned |-> pass[r].owned \ {w}]
             found == [at |-> "found", todo |-> pass[r].todo \ {w},
                       owned |-> pass[r].owned \ {w}, workspace |-> w]
  <2>1. pass[r].todo \ {w} \in SUBSET Workspace /\ pass[r].owned \ {w} \in SUBSET Workspace
    BY <1>1, PassFields
  <2>2. rest \in Pass /\ rest.at = "scanning" /\ rest.todo \subseteq organization
    BY <1>1, <2>1, PassTypes
  <2>3. /\ found \in Pass /\ found.at = "found" /\ found.todo \subseteq organization
        /\ found.workspace = w
    BY <1>1, <2>1, PassTypes
  <2>4. w \in organization
    BY <1>1, <1>4 DEF Look
  <2>5. pass' = [pass EXCEPT ![r] = rest] \/ pass' = [pass EXCEPT ![r] = found]
    BY <1>4 DEF Look, To
  <2> HIDE DEF rest, found
  <2> QED BY <1>1, <1>4, <2>2, <2>3, <2>4, <2>5, PassMoves DEF Look
<1>5. CASE RepairReads(r)
  <2>1. CASE workspaces[pass[r].workspace] # "absent"
    BY <1>1, <1>5, <2>1, ScanningIsPass, PassMoves DEF RepairReads, To, historyVars
  <2>2. CASE workspaces[pass[r].workspace] = "absent"
    <3> DEFINE w == pass[r].workspace
               x == [pass[r] EXCEPT !.at = "repairing"]
    <3>1. pass[r].at = "found" /\ w \in organization /\ w \in Workspace
      BY <1>1, <1>5 DEF RepairReads, Inv, Races
    <3>2. x = [at |-> "repairing", todo |-> pass[r].todo, owned |-> pass[r].owned,
               workspace |-> w]
      BY <1>1, <3>1, PassFields
    <3>3. /\ x \in Pass /\ x.at = "repairing" /\ x.workspace = w
          /\ x.todo = pass[r].todo
      <4>1. pass[r].todo \in SUBSET Workspace /\ pass[r].owned \in SUBSET Workspace
        BY <1>1, PassFields
      <4> HIDE DEF x
      <4> QED BY <3>1, <3>2, <4>1, PassTypes
    <3>4. /\ pass' = [pass EXCEPT ![r] = x]
          /\ raced' = raced \cup {v \in Workspace : \E q \in Reconciler \ {r} :
                                      pass[q].at = "repairing" /\ pass[q].workspace = v
                                          /\ pass[r].workspace = v}
          /\ UNCHANGED <<changes, create, identityVars, domainVars, faults, deprived>>
      BY <1>5, <2>2 DEF RepairReads, To
    <3> HIDE DEF x
    <3>5. pass' \in [Reconciler -> Pass] /\ pass'[r] = x /\ \A q \in Reconciler \ {r} : pass'[q] = pass[q]
      BY <1>1, <3>3, <3>4
    <3>6. raced \subseteq raced' /\ raced' \subseteq Workspace
          /\ \A q \in Reconciler \ {r} : Repairing(q, w) => w \in raced'
      BY <1>1, <3>1, <3>4 DEF TypeOK, Repairing
    <3>7. TypeOK'
      BY <1>1, <3>4, <3>5, <3>6 DEF TypeOK, identityVars, domainVars
    <3>8. Races'
      <4>1. SUFFICES ASSUME NEW q \in Reconciler
                     PROVE /\ pass'[q].todo \subseteq organization
                           /\ pass'[q].at \in {"found", "repairing"} =>
                                  pass'[q].workspace \in organization
                           /\ \A v \in Workspace : Repairing(q, v)' =>
                                 /\ workspaces[v] = "absent" \/ v \in raced'
                                 /\ \A p \in Reconciler \ {q} : Repairing(p, v)' => v \in raced'
        BY <3>4 DEF Races, identityVars, domainVars
      <4>2. CASE q = r
        BY <1>1, <2>2, <3>1, <3>3, <3>5, <3>6, <4>2 DEF Repairing
      <4>3. CASE q # r
        BY <1>1, <3>1, <3>3, <3>5, <3>6, <4>3 DEF Inv, Races, Repairing
      <4> QED BY <4>2, <4>3
    <3> QED BY <3>4, <3>7, <3>8, HalvesSame, SnapshotsSame DEF Inv, identityVars, domainVars
  <2> QED BY <2>1, <2>2
<1>6. CASE RepairCommits(r)
  <2>1. PICK w \in organization : w = pass[r].workspace /\ w \in Workspace /\ Repairing(r, w)
    BY <1>1, <1>6 DEF RepairCommits, Inv, Races, Repairing
  <2>2. /\ workspaces' = [workspaces EXCEPT ![w] = "free"]
        /\ subscriptions' = [subscriptions EXCEPT ![w] = "free"]
        /\ pass' = [pass EXCEPT ![r] = Scanning(r)]
        /\ UNCHANGED <<changes, create, identityVars, faults, historyVars>>
    BY <1>6, <2>1 DEF RepairCommits, To
  <2>3. /\ pass' \in [Reconciler -> Pass] /\ pass'[r] = Scanning(r)
        /\ \A q \in Reconciler \ {r} : pass'[q] = pass[q]
    BY <1>1, <2>2, ScanningIsPass
  <2>4. TypeOK'
    BY <1>1, <2>2, <2>3 DEF TypeOK, Plan, identityVars, historyVars
  <2>5. Halves'
    <3>1. /\ workspaces'[w] = "free" /\ subscriptions'[w] = "free"
          /\ \A v \in Workspace \ {w} :
                workspaces'[v] = workspaces[v] /\ subscriptions'[v] = subscriptions[v]
      BY <1>1, <2>1, <2>2 DEF TypeOK
    <3>2. HalvesOf(w)'
      BY <2>1, <2>2, <3>1 DEF Inv, Halves, HalvesOf, Whole, identityVars
    <3> QED BY <2>1, <2>2, <3>1, <3>2, HalvesMove DEF identityVars
  <2>6. Races'
    <3>1. \A v \in Workspace \ {w} : workspaces'[v] = workspaces[v]
      BY <1>1, <2>1, <2>2 DEF TypeOK
    <3>2. UNCHANGED <<organization, raced>>
      BY <2>2 DEF identityVars, historyVars
    <3>3. \A v \in Workspace : ~Repairing(r, v)'
      BY <2>3, ScanningIsPass DEF Repairing
    <3>4. \A q \in Reconciler \ {r} : Repairing(q, w) => w \in raced
      BY <2>1 DEF Inv, Races
    <3>5. \A q \in Reconciler \ {r}, v \in Workspace : Repairing(q, v)' <=> Repairing(q, v)
      BY <2>3 DEF Repairing
    <3>6. SUFFICES ASSUME NEW q \in Reconciler
                   PROVE /\ pass'[q].todo \subseteq organization
                         /\ pass'[q].at \in {"found", "repairing"} =>
                                pass'[q].workspace \in organization
                         /\ \A v \in Workspace : Repairing(q, v)' =>
                               /\ workspaces'[v] = "absent" \/ v \in raced
                               /\ \A p \in Reconciler \ {q} : Repairing(p, v)' => v \in raced
      BY <3>2 DEF Races
    <3>7. CASE q = r
      BY <2>3, <3>3, <3>7, ScanningIsPass
    <3>8. CASE q # r
      BY <2>3, <3>1, <3>3, <3>4, <3>5, <3>8 DEF Inv, Races
    <3> QED BY <3>7, <3>8
  <2>7. Snapshots'
    BY <2>2, SnapshotsSame DEF identityVars, historyVars
  <2> QED BY <2>4, <2>5, <2>6, <2>7 DEF Inv
<1>7. CASE RepairFails(r)
  <2>1. faults' \in 0..MaxFaults
    BY <1>1, <1>7, WorkspacesAssumption DEF RepairFails, Fault
  <2> QED BY <1>7, <2>1, ScanningIsPass, PassMoves DEF RepairFails, To
<1> QED BY <1>2, <1>3, <1>4, <1>5, <1>6, <1>7 DEF Reconciles

-----------------------------------------------------------------------------
LEMMA Initially == Init => Inv
<1> SUFFICES ASSUME Init PROVE Inv
  OBVIOUS
<1>1. Legacy \subseteq Workspace /\ 0 \in 0..MaxChanges /\ 0 \in 0..MaxFaults
  BY WorkspacesAssumption
<1>2. /\ \A w \in Workspace : create[w].at = "none"
      /\ create \in [Workspace -> Creator]
  BY CreatorTypes DEF Init
<1>3. \A r \in Reconciler : pass[r].at = "idle" /\ pass[r].todo = {}
  BY DEF Init, Idle
<1>4. members \in [Workspace -> SUBSET Row]
  BY FoundingAssumption DEF Init
<1>5. TypeOK
  BY <1>1, <1>2, <1>4, PassTypes DEF Init, TypeOK, Plan
<1>6. Halves
  BY <1>2 DEF Init, Halves, HalvesOf
<1>7. Snapshots /\ Races
  BY <1>3 DEF Init, Snapshots, Races, Repairing
<1> QED BY <1>5, <1>6, <1>7 DEF Inv

LEMMA StepKeeps == Inv /\ [Next]_vars => Inv'
<1> SUFFICES ASSUME Inv, [Next]_vars PROVE Inv'
  OBVIOUS
<1>1. ASSUME NEW w \in Workspace, Creation(w) \/ Purchase(w) PROVE Inv'
  BY <1>1, CreationKeeps, PurchaseKeeps
<1>2. ASSUME NEW w \in Workspace, NEW a \in Account,
             \/ \E change \in {"remove", "owner", "member"} : Begin(w, a, change)
             \/ \E role \in Role : Accepts(w, a, role)
      PROVE Inv'
  BY <1>2, BeginKeeps, AcceptsKeeps
<1>3. ASSUME NEW c \in calls, End(c) \/ CallFails(c) PROVE Inv'
  BY <1>3, CallsKeep
<1>4. ASSUME NEW a \in Account, DeleteChecks(a) \/ DeleteAccount(a) PROVE Inv'
  BY <1>4, AccountsKeep
<1>5. ASSUME NEW r \in Reconciler, Reconciles(r) \/ RepairFails(r) PROVE Inv'
  BY <1>5, ReconcilesKeeps
<1>6. CASE UNCHANGED vars
  <2>1. UNCHANGED <<create, identityVars, domainVars, pass, changes, faults, historyVars>>
    BY <1>6 DEF vars
  <2>2. TypeOK'
    BY <2>1 DEF Inv, TypeOK, identityVars, domainVars, historyVars
  <2> QED BY <2>1, <2>2, HalvesSame, SnapshotsSame, RacesSame
          DEF Inv, identityVars, domainVars, historyVars
<1> QED BY <1>1, <1>2, <1>3, <1>4, <1>5, <1>6 DEF Next

\* Owners: whom a call removes or demotes was not the last one it read, and the
\* others are still there or went with their account.
LEMMA EndKeepsOwners ==
    ASSUME Inv, NEW c \in calls, End(c), NEW w \in Workspace, w = c.workspace,
           OwnersAmong(members[w]) # {}
    PROVE  OwnersAmong(members'[w]) # {} \/ w \in deprived
<1>1. /\ c \in Call /\ Snapshot(c) /\ c.workspace \in Workspace
      /\ members \in [Workspace -> SUBSET Row] /\ c.rows \in SUBSET Row
      /\ c.change \in {"remove", "owner", "member"}
  BY DEF Inv, TypeOK, Call, Snapshots
<1>2. w = c.workspace
  OBVIOUS
<1>3. SUFFICES ASSUME w \notin deprived PROVE \E b : b \in OwnersAmong(members'[w])
  OBVIOUS
<1>4. CASE Refused(c)
  BY <1>2, <1>4 DEF End
<1>5. CASE ~Refused(c)
  <2>1. members'[w] = Written(c)
    BY <1>1, <1>2, <1>5 DEF End
  <2>2. ASSUME NEW m \in members[w], m.role = "owner", m.account # c.account
        PROVE  \E b : b \in OwnersAmong(members'[w])
    <3>1. m \in Written(c)
      BY <1>2, <2>2 DEF Written, RowsOf
    <3> QED BY <2>1, <2>2, <3>1, OwnersAre
  <2>3. CASE c.change = "owner"
    <3>1. ~IsOwner(c.rows, c.account)
      BY <1>5, <2>3 DEF Refused, Standing
    <3>2. PICK m \in members[w] : m.role = "owner"
      BY <1>2, OwnersAre
    <3>3. m.account # c.account
      <4>1. RowsOf(c.rows, c.account) # {}
        BY <1>5 DEF Refused, IsMember
      <4> QED BY <1>1, <1>2, <3>1, <3>2, <4>1 DEF Snapshot, IsOwner, RowsOf
    <3> QED BY <2>2, <3>2, <3>3
  <2>4. CASE c.change # "owner" /\ ~IsOwner(c.rows, c.account)
    <3>1. PICK m \in members[w] : m.role = "owner"
      BY <1>2, OwnersAre
    <3>2. m.account # c.account
      <4>1. RowsOf(c.rows, c.account) # {}
        BY <1>5 DEF Refused, IsMember
      <4> QED BY <1>1, <1>2, <2>4, <3>1, <4>1 DEF Snapshot, IsOwner, RowsOf
    <3> QED BY <2>2, <3>1, <3>2
  <2>5. CASE c.change # "owner" /\ IsOwner(c.rows, c.account)
    <3>1. c.account \in OwnersAmong(c.rows)
      BY <2>5, OwnersAre DEF IsOwner, RowsOf
    <3>2. OwnersAmong(c.rows) # {c.account}
      <4>1. SUFFICES ASSUME OwnersAmong(c.rows) = {c.account} PROVE FALSE
        OBVIOUS
      <4>2. Cardinality(OwnersAmong(c.rows)) = 1
        BY <4>1, FS_Singleton
      <4> QED BY <1>5, <2>5, <4>2 DEF Refused
    <3>3. PICK b \in OwnersAmong(c.rows) : b # c.account
      BY <3>1, <3>2
    <3>4. PICK m \in c.rows : m.role = "owner" /\ m.account = b
      BY <3>3, OwnersAre
    <3>5. m \in members[w]
      BY <1>1, <1>2, <1>3, <3>4 DEF Snapshot
    <3> QED BY <2>2, <3>3, <3>4, <3>5
  <2> QED BY <2>3, <2>4, <2>5
<1> QED BY <1>4, <1>5

LEMMA OwnersKept ==
    ASSUME Inv, [Next]_vars, NEW w \in organization, OwnersOf(w) # {}, OwnersOf(w)' = {}
    PROVE  w \in deprived'
<1>1. /\ members \in [Workspace -> SUBSET Row] /\ w \in Workspace
      /\ members'[w] # members[w]
  BY DEF Inv, TypeOK, OwnersOf
<1>2. /\ OwnersAmong(members[w]) # {} /\ OwnersAmong(members'[w]) = {}
      /\ ~\E m \in members'[w] : m.role = "owner"
  <2>1. OwnersAmong(members[w]) # {} /\ OwnersAmong(members'[w]) = {}
    BY DEF OwnersOf
  <2>2. ASSUME NEW m \in members'[w], m.role = "owner" PROVE FALSE
    <3>1. m.account \in OwnersAmong(members'[w])
      BY <2>2, OwnersAre
    <3> QED BY <2>1, <3>1
  <2> QED BY <2>1, <2>2
<1>3. ASSUME NEW v \in Workspace, Creation(v) PROVE w \in deprived'
  <2>1. CreateCommits(v)
    BY <1>1, <1>3
       DEF Creation, CreateInserts, CreatePlaces, CreateSubscribes, CreateFails, identityVars
  <2>2. v # w
    BY <2>1 DEF CreateCommits, Inv, Halves, HalvesOf
  <2> QED BY <1>1, <2>1, <2>2 DEF CreateCommits, Commits
<1>4. ASSUME NEW v \in Workspace, NEW a \in Account, NEW role \in Role, Accepts(v, a, role)
      PROVE  w \in deprived'
  <2>1. members[w] \subseteq members'[w]
    BY <1>1, <1>4 DEF Accepts
  <2>2. PICK m \in members[w] : m.role = "owner"
    BY <1>2, OwnersAre
  <2> QED BY <1>2, <2>1, <2>2
<1>5. ASSUME NEW c \in calls, End(c) PROVE w \in deprived'
  <2>1. c.workspace = w
    BY <1>1, <1>5 DEF End
  <2>2. deprived' = deprived
    BY <1>5 DEF End, historyVars
  <2> QED BY <1>1, <1>2, <1>5, <2>1, <2>2, EndKeepsOwners
<1>6. ASSUME NEW a \in Account, DeleteAccount(a) PROVE w \in deprived'
  <2>1. PICK b : b \in OwnersOf(w)
    OBVIOUS
  <2>2. b = a
    <3>1. SUFFICES ASSUME b # a PROVE \E m \in members'[w] : m.role = "owner"
      BY <1>2
    <3>2. PICK m \in members[w] : m.role = "owner" /\ m.account = b
      BY <2>1, OwnersAre DEF OwnersOf
    <3>3. m \in members'[w]
      BY <1>1, <1>6, <3>1, <3>2 DEF DeleteAccount, RowsOf
    <3> QED BY <3>2, <3>3
  <2> QED BY <1>6, <2>1, <2>2 DEF DeleteAccount
<1>7. CASE \/ \E v \in Workspace : Purchase(v)
           \/ \E v \in Workspace, a \in Account, change \in {"remove", "owner", "member"} :
                 Begin(v, a, change)
           \/ \E c \in calls : CallFails(c)
           \/ \E a \in Account : DeleteChecks(a)
           \/ \E r \in Reconciler : Reconciles(r) \/ RepairFails(r)
           \/ UNCHANGED vars
  <2>1. UNCHANGED members
    BY <1>7
       DEF Purchase, Begin, CallFails, DeleteChecks, Reconciles, RepairFails, PassBegins,
           PassEnds, Look, RepairReads, RepairCommits, identityVars, vars
  <2> QED BY <1>1, <2>1
<1> QED BY <1>3, <1>4, <1>5, <1>6, <1>7 DEF Next

LEMMA PaidStays ==
    ASSUME Inv, [Next]_vars, NEW w \in Workspace, workspaces[w] = "paid", workspaces'[w] # "paid"
    PROVE  w \in raced
<1>1. workspaces \in [Workspace -> Plan] /\ w \in organization
  BY DEF Inv, TypeOK, Halves, HalvesOf
<1>2. ASSUME NEW v \in Workspace, Creation(v) \/ Purchase(v) PROVE w \in raced
  <2>1. CASE CreatePlaces(v)
    <3>1. v \notin organization
      BY <2>1, CreationIsUnseen DEF CreatePlaces, Creating
    <3> QED BY <1>1, <2>1, <3>1 DEF CreatePlaces
  <2>2. CASE Purchase(v)
    BY <1>1, <2>2 DEF Purchase
  <2>3. CASE Creation(v) /\ ~CreatePlaces(v)
    BY <1>1, <2>3
       DEF Creation, CreateInserts, CreateSubscribes, CreateFails, CreateCommits, Commits,
           domainVars
  <2> QED BY <1>2, <2>1, <2>2, <2>3
<1>3. ASSUME NEW r \in Reconciler, Reconciles(r) \/ RepairFails(r) PROVE w \in raced
  <2>1. CASE RepairCommits(r)
    <3>1. pass[r].workspace = w
      BY <1>1, <2>1 DEF RepairCommits
    <3>2. Repairing(r, w)
      BY <2>1, <3>1 DEF RepairCommits, Repairing
    <3> QED BY <3>2 DEF Inv, Races
  <2>2. CASE ~RepairCommits(r)
    BY <1>1, <1>3, <2>2
       DEF Reconciles, RepairFails, PassBegins, PassEnds, Look, RepairReads, domainVars
  <2> QED BY <2>1, <2>2
<1>4. CASE \/ \E v \in Workspace, a \in Account :
                 \/ \E change \in {"remove", "owner", "member"} : Begin(v, a, change)
                 \/ \E role \in Role : Accepts(v, a, role)
           \/ \E c \in calls : End(c) \/ CallFails(c)
           \/ \E a \in Account : DeleteChecks(a) \/ DeleteAccount(a)
           \/ UNCHANGED vars
  <2>1. UNCHANGED workspaces
    BY <1>4 DEF Begin, Accepts, End, CallFails, DeleteChecks, DeleteAccount, domainVars, vars
  <2> QED BY <1>1, <2>1
<1> QED BY <1>2, <1>3, <1>4 DEF Next

-----------------------------------------------------------------------------
\* Creations, repairs, calls and snapshots keep together in every reachable state.
THEOREM InvHolds == Spec => []Inv
BY Initially, StepKeeps, PTL DEF Spec

\* Every row and local keeps its type, and a row lock has one holder
\* (membership-writer.ts:78).
THEOREM TypesHold == Spec => []TypeOK
<1>1. Inv => TypeOK
  BY DEF Inv
<1> QED BY <1>1, InvHolds, PTL

\* provisioning.ts:18: a created organization has its domain half, and that half
\* is whole.
THEOREM NeverTheReverse == Spec => []OrganizationIsWhole
<1>1. Inv => OrganizationIsWhole
  BY DEF Inv, TypeOK, Halves, HalvesOf, Whole, OrganizationIsWhole
<1> QED BY <1>1, InvHolds, PTL

\* membership-writer.ts:22: membership calls never remove the last owner.
THEOREM OwnersRemain == Spec => OwnerRemains
<1>1. Inv /\ [Next]_vars =>
        [\A w \in organization :
             OwnersOf(w) # {} /\ OwnersOf(w)' = {} => w \in deprived']_vars
  BY OwnersKept
<1> QED BY <1>1, InvHolds, PTL DEF Spec, OwnerRemains

\* reconcile.ts:78: only two repairs at once take back a plan that was paid for.
THEOREM PaidPlansStay == Spec => PaidIsKept
<1>1. Inv /\ [Next]_vars =>
        [\A w \in Workspace : workspaces[w] = "paid" /\ workspaces'[w] # "paid" =>
             w \in raced]_vars
  BY PaidStays
<1> QED BY <1>1, InvHolds, PTL DEF Spec, PaidIsKept
=============================================================================
