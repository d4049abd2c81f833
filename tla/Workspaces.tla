----------------------------- MODULE Workspaces -----------------------------
(***************************************************************************)
(* A workspace is two halves under one id: the organization and its        *)
(* members, which belong to identity, and the workspaces and subscriptions *)
(* rows, which belong to the domain.  Modelled here: creating one (the     *)
(* create route of router/workspaces.ts, identity's provisioning.ts and    *)
(* provision-workspace.ts), changing and removing members                  *)
(* (membership-writer.ts), deleting an account (auth.ts), and the worker's *)
(* job that repairs an organization without a domain half (reconcile.ts).  *)
(*                                                                         *)
(* identity's statements run in its own transaction; the mirror it calls   *)
(* is handed the pooled repositories (deps.reads), so what that saves is   *)
(* durable at once, before the organization is.                            *)
(*                                                                         *)
(* External: better-auth accepts invitations, and a purchase changes the   *)
(* plan (Billing is its inside).  Left out: names and slugs, the holding   *)
(* workspace (the directory leaves it out), the lookback and the pages of  *)
(* the reconciler's listing, and repair = false, which only reports.       *)
(***************************************************************************)
EXTENDS Integers, FiniteSets

CONSTANTS
    Workspace,   \* workspace ids, each minted once, in the order they are created
    Legacy,      \* those whose organization is there from the beginning
    Account,
    Founding,    \* the sets of member rows a legacy organization may begin with
    Reconciler,  \* worker replicas
    MaxChanges,  \* bound: membership calls, acceptances and account deletions
    MaxFaults    \* bound: statements that fail and processes that die

ASSUME WorkspacesAssumption ==
    /\ Workspace \subseteq Nat /\ Legacy \subseteq Workspace /\ IsFiniteSet(Account)
    /\ MaxChanges \in Nat /\ MaxFaults \in Nat

VARIABLES
    create,       \* each workspace's call of create, and how far it is
    organization, \* the ids whose organization is committed
    members,      \* the member rows of each, committed or not
    calls,        \* changeRole and remove calls that hold the row lock
    account,      \* each account: present, leaving (beforeDelete passed), gone
    workspaces,   \* the plan in each workspaces row, or "absent"
    subscriptions,\* the plan in each subscriptions row, or "absent"
    pass,         \* the locals of each worker's reconcileWorkspaces
    changes, faults,
    deprived,     \* history: those that lost an owner with its account
    raced         \* history: those that two repairs found missing at one time

identityVars == <<organization, members, calls, account>>
domainVars == <<workspaces, subscriptions>>
historyVars == <<deprived, raced>>
vars == <<create, identityVars, domainVars, pass, changes, faults, historyVars>>

-----------------------------------------------------------------------------
\* "other" is a role that this system has no rule for.
Role == {"owner", "member", "other"}

\* One account may have several rows: n tells them apart.
Row == [account : Account, n : {1, 2}, role : Role]

RowsOf(rows, a) == {m \in rows : m.account = a}

ASSUME FoundingAssumption == Founding \subseteq SUBSET Row

\* standingOf: rows that only have an unknown role are not a membership.
IsMember(rows, a) == \E m \in RowsOf(rows, a) : m.role # "other"

IsOwner(rows, a) == \E m \in RowsOf(rows, a) : m.role = "owner"

OwnersAmongBug(rows) == {m \in rows : m.role = "owner"}

\* ownersAmong: accounts, not rows.
OwnersAmong(rows) == {m.account : m \in {m \in rows : m.role = "owner"}}

OwnersOf(w) == OwnersAmong(members[w])

Creator == [at : {"none", "done", "failed"}]
               \cup [at : {"inserted", "placed", "subscribed"}, owner : Account]

Call == [workspace : Workspace, account : Account, rows : SUBSET Row,
         change : {"remove", "owner", "member"}]

Plan == {"absent", "free", "paid"}

Idle == [at |-> "idle", todo |-> {}, owned |-> {}]

Pass == [at : {"idle", "scanning"}, todo : SUBSET Workspace, owned : SUBSET Workspace]
            \cup [at : {"found", "repairing"}, todo : SUBSET Workspace,
                  owned : SUBSET Workspace, workspace : Workspace]

Init ==
    /\ create = [w \in Workspace |-> [at |-> "none"]]
    /\ organization = Legacy
    /\ members \in [Workspace -> Founding \cup {{}}]
    /\ \A w \in Workspace \ Legacy : members[w] = {}
    /\ calls = {} /\ account = [a \in Account |-> "present"]
    /\ workspaces \in [Workspace -> {"absent", "free"}]
    /\ \A w \in Workspace \ Legacy : workspaces[w] = "absent"
    /\ subscriptions = workspaces
    /\ pass = [r \in Reconciler |-> Idle]
    /\ changes = 0 /\ faults = 0 /\ deprived = {} /\ raced = {}

Change == changes < MaxChanges /\ changes' = changes + 1

Fault == faults < MaxFaults /\ faults' = faults + 1

-----------------------------------------------------------------------------
(* Creating a workspace *)

\* The organization and its owner's row, inside the transaction.  The member
\* row's reference needs the account to be there.
CreateInserts(w, a) ==
    /\ create[w].at = "none" /\ w \notin Legacy /\ account[a] # "gone"
    /\ create' = [create EXCEPT ![w] = [at |-> "inserted", owner |-> a]]
    /\ UNCHANGED <<changes, identityVars, domainVars, pass, faults, historyVars>>

CreatePlaces(w) ==
    /\ create[w].at = "inserted"
    /\ create' = [create EXCEPT ![w].at = "placed"]
    /\ workspaces' = [workspaces EXCEPT ![w] = "free"]
    /\ UNCHANGED <<changes, identityVars, subscriptions, pass, faults, historyVars>>

CreateSubscribes(w) ==
    /\ create[w].at = "placed"
    /\ create' = [create EXCEPT ![w].at = "subscribed"]
    /\ subscriptions' = [subscriptions EXCEPT ![w] = "free"]
    /\ UNCHANGED <<changes, identityVars, workspaces, pass, faults, historyVars>>

Commits(w) ==
    /\ create' = [create EXCEPT ![w] = [at |-> "done"]]
    /\ organization' = organization \cup {w}
    /\ members' = [members EXCEPT ![w] =
                      {[account |-> create[w].owner, n |-> 1, role |-> "owner"]}]
    /\ UNCHANGED <<changes, calls, account, domainVars, pass, faults, historyVars>>

CreateCommitsBug(w) == create[w].at \in {"placed", "subscribed"} /\ Commits(w)

CreateCommits(w) == create[w].at = "subscribed" /\ Commits(w)

\* A statement, the mirror or the COMMIT fails, or the process dies: the
\* transaction rolls back, and what the mirror saved stays.
CreateFails(w) ==
    /\ create[w].at \in {"inserted", "placed", "subscribed"} /\ Fault
    /\ create' = [create EXCEPT ![w] = [at |-> "failed"]]
    /\ UNCHANGED <<changes, identityVars, domainVars, pass, historyVars>>

-----------------------------------------------------------------------------
(* Members *)

LockFreeBug(w) == TRUE

\* SELECT id FROM organization ... FOR UPDATE: one transaction at a time.
LockFree(w) == \A c \in calls : c.workspace # w

\* changeRole and remove, up to the rows they decide on.
Begin(w, a, change) ==
    /\ w \in organization /\ LockFree(w) /\ Change
    /\ calls' = calls \cup {[workspace |-> w, account |-> a, change |-> change,
                             rows |-> members[w]]}
    /\ UNCHANGED <<create, organization, members, account, domainVars, pass, faults, historyVars>>

Standing(rows, a) == IF IsOwner(rows, a) THEN "owner" ELSE "member"

\* NotAMember, RoleUnchanged and LastOwner.
Refused(c) ==
    \/ ~IsMember(c.rows, c.account)
    \/ Standing(c.rows, c.account) = c.change
    \/ IsOwner(c.rows, c.account) /\ Cardinality(OwnersAmong(c.rows)) <= 1

\* Every row that was read gets the role, or every row of the account goes,
\* and the transaction commits.
Written(c) ==
    LET now == members[c.workspace]
        read == RowsOf(c.rows, c.account)
    IN  IF c.change = "remove" THEN now \ RowsOf(now, c.account)
        ELSE (now \ read) \cup {[m EXCEPT !.role = c.change] : m \in read \cap now}

End(c) ==
    /\ calls' = calls \ {c}
    /\ members' = IF Refused(c) THEN members
                  ELSE [members EXCEPT ![c.workspace] = Written(c)]
    /\ UNCHANGED <<changes, create, organization, account, domainVars, pass, faults, historyVars>>

CallFails(c) ==
    /\ Fault /\ calls' = calls \ {c}
    /\ UNCHANGED <<changes, create, organization, members, account, domainVars, pass, historyVars>>

\* better-auth adds a row when an invitation is accepted; it takes no lock.
Accepts(w, a, role) ==
    /\ w \in organization /\ account[a] # "gone" /\ role # "other" /\ Change
    /\ RowsOf(members[w], a) = {}
    /\ members' = [members EXCEPT ![w] = @ \cup {[account |-> a, n |-> 1, role |-> role]}]
    /\ UNCHANGED <<create, organization, calls, account, domainVars, pass, faults, historyVars>>

\* beforeDelete: refused while any member row names the account.
DeleteChecks(a) ==
    /\ account[a] = "present" /\ Change
    /\ \A w \in organization : RowsOf(members[w], a) = {}
    /\ account' = [account EXCEPT ![a] = "leaving"]
    /\ UNCHANGED <<create, organization, members, calls, domainVars, pass, faults, historyVars>>

\* The user row goes, and its member rows by reference; a transaction that
\* holds a reference to it is waited for.
DeleteAccount(a) ==
    /\ account[a] = "leaving"
    /\ \A w \in Workspace : create[w].at \in {"inserted", "placed", "subscribed"} =>
                               create[w].owner # a
    /\ account' = [account EXCEPT ![a] = "gone"]
    /\ members' = [w \in Workspace |-> members[w] \ RowsOf(members[w], a)]
    /\ deprived' = deprived \cup {w \in organization : a \in OwnersOf(w)}
    /\ UNCHANGED <<changes, create, organization, calls, domainVars, pass, faults, raced>>

-----------------------------------------------------------------------------
(* reconcileWorkspaces *)

PassBeginsBug(r) ==
    /\ pass[r].at = "idle"
    /\ pass' = [pass EXCEPT ![r] =
                  [at |-> "scanning", todo |-> organization \ Legacy,
                   owned |-> {w \in organization \ Legacy : OwnersOf(w) # {}}]]
    /\ UNCHANGED <<changes, create, identityVars, domainVars, faults, historyVars>>

\* One listing of the organizations, each with an owner or none.
PassBegins(r) ==
    /\ pass[r].at = "idle"
    /\ pass' = [pass EXCEPT ![r] =
                  [at |-> "scanning", todo |-> organization,
                   owned |-> {w \in organization : OwnersOf(w) # {}}]]
    /\ UNCHANGED <<changes, create, identityVars, domainVars, faults, historyVars>>

To(r, next) == pass' = [pass EXCEPT ![r] = next]

Scanning(r) == [at |-> "scanning", todo |-> pass[r].todo, owned |-> pass[r].owned]

\* The first find(), on the pool, of the oldest organization that is left: there,
\* or an orphan.
Look(r, w) ==
    /\ pass[r].at = "scanning"
    /\ w \in pass[r].todo /\ \A v \in pass[r].todo : w <= v
    /\ LET rest == [at |-> "scanning", todo |-> pass[r].todo \ {w},
                    owned |-> pass[r].owned \ {w}]
       IN  IF workspaces[w] # "absent" \/ w \notin pass[r].owned
           THEN To(r, rest)
           ELSE To(r, [at |-> "found", todo |-> rest.todo, owned |-> rest.owned,
                       workspace |-> w])
    /\ UNCHANGED <<changes, create, identityVars, domainVars, faults, historyVars>>

RepairReadsBug(r) ==
    /\ pass[r].at = "found"
    /\ To(r, [pass[r] EXCEPT !.at = "repairing"])
    /\ raced' = raced \cup {w \in Workspace : \E q \in Reconciler \ {r} :
                               pass[q].at = "repairing" /\ pass[q].workspace = w
                                   /\ pass[r].workspace = w}
    /\ UNCHANGED <<changes, create, identityVars, domainVars, faults, deprived>>

\* The second find(), inside the transaction.  FOR UPDATE locks a row that is
\* there; of one that is not there, there is nothing to lock.
RepairReads(r) ==
    /\ pass[r].at = "found"
    /\ IF workspaces[pass[r].workspace] # "absent"
       THEN To(r, Scanning(r)) /\ UNCHANGED raced
       ELSE /\ To(r, [pass[r] EXCEPT !.at = "repairing"])
            /\ raced' = raced \cup {w \in Workspace : \E q \in Reconciler \ {r} :
                                       pass[q].at = "repairing" /\ pass[q].workspace = w
                                           /\ pass[r].workspace = w}
    /\ UNCHANGED <<changes, create, identityVars, domainVars, faults, deprived>>

\* provisionWorkspace: two upserts and a COMMIT.  The loser of a race waits for
\* the winner's row and then writes over it.
RepairCommits(r) ==
    /\ pass[r].at = "repairing"
    /\ workspaces' = [workspaces EXCEPT ![pass[r].workspace] = "free"]
    /\ subscriptions' = [subscriptions EXCEPT ![pass[r].workspace] = "free"]
    /\ To(r, Scanning(r))
    /\ UNCHANGED <<changes, create, identityVars, faults, historyVars>>

\* A failed statement is counted and the pass goes on with the next record.
RepairFails(r) ==
    /\ pass[r].at \in {"found", "repairing"} /\ Fault
    /\ To(r, Scanning(r))
    /\ UNCHANGED <<changes, create, identityVars, domainVars, historyVars>>

PassEnds(r) ==
    /\ pass[r].at = "scanning" /\ pass[r].todo = {}
    /\ To(r, Idle)
    /\ UNCHANGED <<changes, create, identityVars, domainVars, faults, historyVars>>

\* A member of the workspace buys the plan.
Purchase(w) ==
    /\ w \in organization /\ workspaces[w] = "free"
    /\ workspaces' = [workspaces EXCEPT ![w] = "paid"]
    /\ subscriptions' = [subscriptions EXCEPT ![w] = "paid"]
    /\ UNCHANGED <<changes, create, identityVars, pass, faults, historyVars>>

-----------------------------------------------------------------------------
Creation(w) ==
    \/ \E a \in Account : CreateInserts(w, a)
    \/ CreatePlaces(w) \/ CreateSubscribes(w) \/ CreateCommits(w) \/ CreateFails(w)

Reconciles(r) ==
    \/ PassBegins(r) \/ PassEnds(r) \/ RepairReads(r) \/ RepairCommits(r)
    \/ \E w \in Workspace : Look(r, w)

Next ==
    \/ \E w \in Workspace : Creation(w) \/ Purchase(w)
    \/ \E w \in Workspace, a \in Account :
          \/ \E change \in {"remove", "owner", "member"} : Begin(w, a, change)
          \/ \E role \in Role : Accepts(w, a, role)
    \/ \E c \in calls : End(c) \/ CallFails(c)
    \/ \E a \in Account : DeleteChecks(a) \/ DeleteAccount(a)
    \/ \E r \in Reconciler : Reconciles(r) \/ RepairFails(r)

\* The scheduler runs the job again and again, and its calls end.
Fairness == \A r \in Reconciler : WF_vars(Reconciles(r))

Spec == Init /\ [][Next]_vars /\ Fairness

-----------------------------------------------------------------------------
\* Every variable holds what its row or local may hold, and a workspace's row lock
\* has one holder (membership-writer.ts:78).
TypeOK ==
    /\ create \in [Workspace -> Creator] /\ organization \subseteq Workspace
    /\ members \in [Workspace -> SUBSET Row] /\ calls \subseteq Call
    /\ \A c, d \in calls : c.workspace = d.workspace => c = d
    /\ account \in [Account -> {"present", "leaving", "gone"}]
    /\ workspaces \in [Workspace -> Plan] /\ subscriptions \in [Workspace -> Plan]
    /\ pass \in [Reconciler -> Pass] /\ changes \in 0..MaxChanges /\ faults \in 0..MaxFaults
    /\ deprived \subseteq Workspace /\ raced \subseteq Workspace

(***************************************************************************)
(* provisioning.ts:18, "Never the reverse": however creation, repair and   *)
(* their failures interleave, an organization that people can sign in to   *)
(* has its domain half, unless it was found without one; and that half is  *)
(* whole: a workspace has its subscription row beside it                   *)
(* (provision-workspace.ts:4).                                             *)
(***************************************************************************)
OrganizationIsWhole ==
    \A w \in organization :
        /\ create[w].at = "done" => workspaces[w] # "absent"
        /\ workspaces[w] # "absent" => subscriptions[w] # "absent"

(***************************************************************************)
(* membership-writer.ts:22: concurrent removals and role changes cannot    *)
(* both remove the last owner, also when an account has several rows.  The *)
(* one way left is a deletion of an owner's account that was checked       *)
(* before the account got the membership: it takes no lock.                *)
(***************************************************************************)
OwnerRemains ==
    [][\A w \in organization : OwnersOf(w) # {} /\ OwnersOf(w)' = {} => w \in deprived']_vars

(***************************************************************************)
(* reconcile.ts:78: a repair reads again inside its transaction, so it     *)
(* never takes back a plan that was paid for, other than by the race that  *)
(* a lock on a missing row does not prevent.                               *)
(***************************************************************************)
PaidIsKept ==
    [][\A w \in Workspace : workspaces[w] = "paid" /\ workspaces'[w] # "paid" =>
          w \in raced]_vars

(***************************************************************************)
(* reconcile.ts:12: an organization without a workspace is found and       *)
(* repaired, if it keeps an owner to open it for.                          *)
(***************************************************************************)
OrphansAreRepaired ==
    \A w \in Legacy :
        (OwnersOf(w) # {} /\ workspaces[w] = "absent")
            ~> (workspaces[w] # "absent" \/ OwnersOf(w) = {})
=============================================================================
