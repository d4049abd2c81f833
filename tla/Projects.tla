------------------------------ MODULE Projects ------------------------------
(***************************************************************************)
(* The projects of one workspace: the routes of apps/api (router/          *)
(* projects.ts), the use cases of packages/projects/app (provision.ts,     *)
(* lifecycle.ts, credentials.ts), the workspace's project cap, the two     *)
(* stores they write and the worker's provisioning reconciler.             *)
(*                                                                         *)
(* The projects table and the credential store share no transaction, and   *)
(* no transaction locks a project's row: find() is a plain SELECT and      *)
(* save() writes the whole row back.  A call is therefore a sequence of    *)
(* steps, one per transaction or store call, and two steps for a           *)
(* load-decide-save transaction.  A call in flight keeps what it read.     *)
(*                                                                         *)
(* A project's keys are ingest keys and service keys.  What claims or      *)
(* deletes a project goes through keys of both kinds; the rule that keeps  *)
(* the last key, and a repair's second look, count ingest keys alone.      *)
(*                                                                         *)
(* Left out: keys of the whole workspace, names, retention days,           *)
(* permissions (a key that exceeds its issuer's grant is a choice of       *)
(* MintExcess), the other facts of the outbox, and a second workspace.     *)
(***************************************************************************)
EXTENDS Integers, FiniteSets, Sequences

CONSTANTS
    MaxProject, \* bound: how many ids are given out to projects
    Request,    \* the API calls that can be in flight at one time
    Sweeper,    \* the worker's reconciler
    Repairs,    \* whether it may write: COUNTED_RECONCILE_REPAIR, off by default
    Cap,        \* the plan's limit on active projects
    MaxFaults,  \* bound: calls that die half way, and keys refused or in excess
    MaxCalls    \* bound: API calls in all

ASSUME ProjectsAssumption ==
    /\ MaxProject \in Nat /\ IsFiniteSet(Request) /\ Sweeper \notin Request /\ Repairs \in BOOLEAN
    /\ Cap \in Nat \ {0} /\ MaxFaults \in Nat /\ MaxCalls \in Nat

VARIABLES
    rows,     \* the projects table
    minted,   \* how many ids have been given out
    offered,  \* the projects whose claim token was handed to its caller
    keys,     \* the projects' keys, in the order the store created them
    facts,    \* what the outbox has been told about a claimed project
    calls,    \* what each caller is doing
    faults,   \* faults so far
    begun     \* API calls so far

vars == <<rows, minted, offered, keys, facts, calls, faults, begun>>
projectVars == <<rows, minted, offered, facts>>

-----------------------------------------------------------------------------
\* Ids are fresh, so a project is known by the order it was created in.
Project == 1..MaxProject
NoProject == 0

Caller == Request \cup {Sweeper}

Row == [claimed : BOOLEAN, archived : BOOLEAN]
NoRow == [claimed |-> FALSE, archived |-> TRUE]
Created(claimed) == [claimed |-> claimed, archived |-> FALSE]

Home(claimed) == IF claimed THEN "workspace" ELSE "holding"

KeyRow == [project : Project, kind : {"ingest", "service"},
           home : {"workspace", "holding"},
           state : {"active", "expiring", "expired", "revoked"}]
NoKey == [project |-> NoProject, kind |-> "ingest", home |-> "holding",
          state |-> "expired"]

Op == {"none", "create", "provision", "claim", "archive", "restore", "settings",
       "delete", "issue", "issueService", "revoke", "rotate", "repair"}

Step == {"idle", "save", "issue", "mint", "excess", "undo", "find",
         "write", "reassign", "revokeListed", "revoke", "rotate", "replace",
         "retire", "repair"}

Idle == [at |-> "idle", op |-> "none", p |-> NoProject, row |-> NoRow,
         k |-> 0, key |-> NoKey, list |-> {}]

Exists(p) == rows[p] # NoRow
InWorkspace(p) == Exists(p) /\ rows[p].claimed

\* The workspace's register is a SELECT over the projects table.
Active == {p \in Project : InWorkspace(p) /\ ~rows[p].archived}

KeysOf(p) == {k \in DOMAIN keys : keys[k].project = p}
Live(p) == {k \in KeysOf(p) : keys[k].state \in {"active", "expiring"}}

\* The usable ingest keys: a service key cannot ingest.
LiveIngest(p) == {k \in Live(p) : keys[k].kind = "ingest"}

HasSlotBug == Cardinality(Active) <= Cap

\* refuseIfFull: the cap check of registerProject and restoreProject.
HasSlot == Cardinality(Active) < Cap

-----------------------------------------------------------------------------
Init ==
    /\ rows = [p \in Project |-> NoRow]
    /\ minted = 0 /\ offered = {} /\ facts = {}
    /\ keys = <<>>
    /\ calls = [c \in Caller |-> Idle]
    /\ faults = 0 /\ begun = 0

\* An API call starts; the reconciler's repairs are not counted.
Begin(c, call) ==
    /\ calls[c] = Idle
    /\ calls' = [calls EXCEPT ![c] = call]
    /\ begun < MaxCalls \/ c = Sweeper
    /\ begun' = IF c = Sweeper THEN begun ELSE begun + 1

CallOf(op, p, at) == [Idle EXCEPT !.at = at, !.op = op, !.p = p]

Goes(c, at) == calls' = [calls EXCEPT ![c].at = at]
Answers(c) == calls' = [calls EXCEPT ![c] = Idle]

Fault == faults < MaxFaults /\ faults' = faults + 1

-----------------------------------------------------------------------------
(* Creating a project with the key it is useless without. *)

\* create: the slot is reserved in a transaction of its own.
ReserveSlot(c, p) ==
    /\ p = minted + 1 /\ HasSlot
    /\ Begin(c, CallOf("create", p, "save"))
    /\ minted' = p
    /\ UNCHANGED <<rows, offered, facts, keys, faults>>

\* provision: no signup, no workspace and no slot.
ProvisionUnclaimed(c, p) ==
    /\ p = minted + 1
    /\ Begin(c, CallOf("provision", p, "save"))
    /\ minted' = p
    /\ UNCHANGED <<rows, offered, facts, keys, faults>>

\* The first transaction: the row, and ProjectCreated when it has a workspace.
SaveProject(c) ==
    LET p == calls[c].p
        claimed == calls[c].op = "create"
    IN  /\ calls[c].at = "save"
        /\ rows' = [rows EXCEPT ![p] = Created(claimed)]
        /\ facts' = IF claimed THEN facts \cup {<<"made", p>>} ELSE facts
        /\ Goes(c, "issue")
        /\ UNCHANGED <<minted, offered, keys, faults, begun>>

\* What a call that needs a key falls back to when it gets none.
AfterRefusal(c) ==
    IF calls[c].op \in {"create", "provision"} THEN Goes(c, "undo") ELSE Answers(c)

PlacedRightBug(c) ==
    /\ Exists(calls[c].p)
    /\ rows[calls[c].p].claimed = (calls[c].op = "create")

PlacedRight(c) ==
    /\ Exists(calls[c].p)
    /\ rows[calls[c].p].claimed = (calls[c].op # "provision")

\* issue(): the project has to belong to the workspace the key is for.
CheckPlacement(c) ==
    /\ calls[c].at = "issue"
    /\ IF PlacedRight(c) THEN Goes(c, "mint") ELSE AfterRefusal(c)
    /\ UNCHANGED <<projectVars, keys, faults, begun>>

\* issue() refuses: the issuer left the workspace, or holds nothing to grant.
IssueRefused(c) ==
    /\ calls[c].at = "issue"
    /\ AfterRefusal(c) /\ Fault
    /\ UNCHANGED <<projectVars, keys, begun>>

NewKey(p, kind, home) ==
    [project |-> p, kind |-> kind, home |-> home, state |-> "active"]

\* Only a key issued by hand can be a service key.
KindOf(c) == IF calls[c].op = "issueService" THEN "service" ELSE "ingest"

\* The key, and the answer that shows it: with the claim token when the
\* project is unclaimed.
Mint(c) ==
    LET p == calls[c].p
        claimed == calls[c].op # "provision"
    IN  /\ calls[c].at = "mint"
        /\ keys' = Append(keys, NewKey(p, KindOf(c), Home(claimed)))
        /\ offered' = IF claimed THEN offered ELSE offered \cup {p}
        /\ Answers(c)
        /\ UNCHANGED <<rows, minted, facts, faults, begun>>

\* The key exists and carries more than its issuer may grant.
MintExcess(c) ==
    /\ calls[c].at = "mint"
    /\ keys' = Append(keys, NewKey(calls[c].p, KindOf(c),
                                   Home(calls[c].op # "provision")))
    /\ calls' = [calls EXCEPT ![c].at = "excess", ![c].k = Len(keys) + 1]
    /\ Fault
    /\ UNCHANGED <<projectVars, begun>>

RevokeExcess(c) ==
    /\ calls[c].at = "excess"
    /\ keys' = [keys EXCEPT ![calls[c].k].state = "revoked"]
    /\ AfterRefusal(c)
    /\ UNCHANGED <<projectVars, faults, begun>>

UndoBug(c) ==
    /\ calls[c].at = "undo"
    /\ rows' = [rows EXCEPT ![calls[c].p] = NoRow]
    /\ Answers(c)
    /\ UNCHANGED <<minted, offered, facts, keys, faults, begun>>

\* compensate() says what it undid; deleteUnclaimed() has nobody to tell.
Undo(c) ==
    /\ calls[c].at = "undo"
    /\ rows' = [rows EXCEPT ![calls[c].p] = NoRow]
    /\ facts' = IF calls[c].op = "create"
                THEN facts \cup {<<"deleted", calls[c].p>>} ELSE facts
    /\ Answers(c)
    /\ UNCHANGED <<minted, offered, keys, faults, begun>>

-----------------------------------------------------------------------------
(* mutate(): load, decide, save -- in one transaction, without a lock. *)

\* The slot is taken before the claim, and before the restore.
ClaimSlot(c, p) ==
    /\ p \in offered /\ Exists(p) /\ ~InWorkspace(p) /\ HasSlot
    /\ Begin(c, CallOf("claim", p, "find"))
    /\ UNCHANGED <<projectVars, keys, faults>>

RestoreSlot(c, p) ==
    /\ InWorkspace(p) /\ rows[p].archived /\ HasSlot
    /\ Begin(c, CallOf("restore", p, "find"))
    /\ UNCHANGED <<projectVars, keys, faults>>

\* The domain command refuses (setRetention and rename are "settings"); the
\* route of an archive or a setting finds no workspace for an unclaimed project.
Refuses(op, row) ==
    CASE op = "claim"   -> row = NoRow \/ row.claimed
      [] op = "restore" -> row = NoRow \/ ~row.archived
      [] OTHER          -> row = NoRow \/ row.archived \/ ~row.claimed

Decided(op, row) ==
    CASE op = "claim"   -> [row EXCEPT !.claimed = TRUE]
      [] op = "archive" -> [row EXCEPT !.archived = TRUE]
      [] OTHER          -> [row EXCEPT !.archived = FALSE]

Edit(c, op, p) ==
    /\ op \in {"archive", "settings"} /\ ~Refuses(op, rows[p])
    /\ Begin(c, [CallOf(op, p, "write") EXCEPT !.row = rows[p]])
    /\ UNCHANGED <<projectVars, keys, faults>>

Find(c) ==
    LET op == calls[c].op
        row == rows[calls[c].p]
    IN  /\ calls[c].at = "find"
        /\ IF Refuses(op, row) THEN Answers(c)
           ELSE calls' = [calls EXCEPT ![c].at = "write", ![c].row = row]
        /\ UNCHANGED <<projectVars, keys, faults, begun>>

\* The token is wrong, or its grant has expired.
ClaimRefused(c) ==
    /\ calls[c].at = "find" /\ calls[c].op = "claim"
    /\ Answers(c)
    /\ UNCHANGED <<projectVars, keys, faults, begun>>

\* save() upserts the whole row that the command made of the one find() read.
\* What archive does to the register next finds the project archived already.
Write(c) ==
    LET p == calls[c].p
        op == calls[c].op
    IN  /\ calls[c].at = "write"
        /\ rows' = [rows EXCEPT ![p] = Decided(op, calls[c].row)]
        /\ facts' = IF op = "claim" THEN facts \cup {<<"made", p>>} ELSE facts
        /\ IF op = "claim" THEN Goes(c, "reassign") ELSE Answers(c)
        /\ UNCHANGED <<minted, offered, keys, faults, begun>>

ReassignedBug(key, p) ==
    IF key.project = p /\ key.state = "active" THEN [key EXCEPT !.home = "workspace"]
    ELSE key

Reassigned(key, p) ==
    IF key.project = p THEN [key EXCEPT !.home = "workspace"] ELSE key

\* After the claim committed, its keys move out of the holding workspace.
ReassignKeys(c) ==
    /\ calls[c].at = "reassign"
    /\ keys' = [k \in DOMAIN keys |-> Reassigned(keys[k], calls[c].p)]
    /\ Answers(c)
    /\ UNCHANGED <<projectVars, faults, begun>>

-----------------------------------------------------------------------------
(* Deleting a project: every key is revoked first, then the row goes. *)

\* An expired key is revoked too: only the revoked ones are passed over.
DeleteBegins(c, p) ==
    /\ InWorkspace(p)
    /\ Begin(c, [CallOf("delete", p, "revokeListed") EXCEPT
                    !.list = {k \in KeysOf(p) : keys[k].state # "revoked"}])
    /\ UNCHANGED <<projectVars, keys, faults>>

RevokeListed(c, k) ==
    /\ calls[c].at = "revokeListed" /\ k \in calls[c].list
    /\ keys' = [keys EXCEPT ![k].state = "revoked"]
    /\ calls' = [calls EXCEPT ![c].list = @ \ {k}]
    /\ UNCHANGED <<projectVars, faults, begun>>

DeleteRow(c) ==
    /\ calls[c].at = "revokeListed" /\ calls[c].list = {}
    /\ rows' = [rows EXCEPT ![calls[c].p] = NoRow]
    /\ facts' = facts \cup {<<"deleted", calls[c].p>>}
    /\ Answers(c)
    /\ UNCHANGED <<minted, offered, keys, faults, begun>>

-----------------------------------------------------------------------------
(* Keys by hand. *)

IssueBegins(c, op, p) ==
    /\ op \in {"issue", "issueService"} /\ InWorkspace(p) /\ ~rows[p].archived
    /\ Begin(c, CallOf(op, p, "issue"))
    /\ UNCHANGED <<projectVars, keys, faults>>

\* mayRevoke over the list as read: never the last usable ingest key.
RevokeBegins(c, k) ==
    LET p == keys[k].project
    IN  /\ InWorkspace(p) /\ k \in Live(p) /\ LiveIngest(p) # {k}
        /\ Begin(c, [CallOf("revoke", p, "revoke") EXCEPT !.k = k])
        /\ UNCHANGED <<projectVars, keys, faults>>

Revoke(c) ==
    /\ calls[c].at = "revoke"
    /\ keys' = [keys EXCEPT ![calls[c].k].state = "revoked"]
    /\ Answers(c)
    /\ UNCHANGED <<projectVars, faults, begun>>

RotateBegins(c, k) ==
    LET p == keys[k].project
    IN  /\ InWorkspace(p) /\ ~rows[p].archived /\ k \in Live(p)
        /\ Begin(c, [CallOf("rotate", p, "rotate") EXCEPT !.k = k])
        /\ UNCHANGED <<projectVars, keys, faults>>

\* rotate() reads the outgoing key again: only a revoked one is refused.
RotateReads(c) ==
    LET old == keys[calls[c].k]
    IN  /\ calls[c].at = "rotate"
        /\ IF old.state = "revoked" THEN Answers(c)
           ELSE calls' = [calls EXCEPT ![c].at = "replace", ![c].key = old]
        /\ UNCHANGED <<projectVars, keys, faults, begun>>

\* The replacement is placed where the outgoing key was when it was read.
RotateMints(c) ==
    LET old == calls[c].key
    IN  /\ calls[c].at = "replace"
        /\ keys' = Append(keys, NewKey(old.project, old.kind, old.home))
        /\ Goes(c, "retire")
        /\ UNCHANGED <<projectVars, faults, begun>>

RetiredBug(state, was) == IF was = "expired" THEN "expired" ELSE "expiring"

\* The outgoing key's expiry becomes the earlier of the one that was read and
\* the end of the overlap; a revocation is another column, and outranks it.
Retired(state, was) ==
    IF state = "revoked" THEN "revoked"
    ELSE IF was = "expired" THEN "expired" ELSE "expiring"

Retire(c) ==
    /\ calls[c].at = "retire"
    /\ keys' = [keys EXCEPT ![calls[c].k].state = Retired(@, calls[c].key.state)]
    /\ Answers(c)
    /\ UNCHANGED <<projectVars, faults, begun>>

KeyExpires(k) ==
    /\ keys[k].state = "expiring"
    /\ keys' = [keys EXCEPT ![k].state = "expired"]
    /\ UNCHANGED <<projectVars, calls, faults, begun>>

-----------------------------------------------------------------------------
(* The reconciler of the worker. *)

\* createdSince, then the cheap read: a project that never had a key of either
\* kind.  One with a service key issued by hand is passed over.
Keyless(p) == InWorkspace(p) /\ ~rows[p].archived /\ KeysOf(p) = {}

SweepFinds(p) ==
    /\ Repairs /\ Keyless(p)
    /\ Begin(Sweeper, CallOf("repair", p, "repair"))
    /\ UNCHANGED <<projectVars, keys, faults>>

\* repairProjectCredential looks again, for a usable ingest key, before it issues.
Repair ==
    LET p == calls[Sweeper].p
    IN  /\ calls[Sweeper].at = "repair"
        /\ IF InWorkspace(p) /\ ~rows[p].archived /\ LiveIngest(p) = {}
           THEN Goes(Sweeper, "issue") ELSE Answers(Sweeper)
        /\ UNCHANGED <<projectVars, keys, faults, begun>>

-----------------------------------------------------------------------------
\* The process dies, or a store throws: nothing after this step runs.
Dies(c) ==
    /\ calls[c] # Idle
    /\ Answers(c) /\ Fault
    /\ UNCHANGED <<projectVars, keys, begun>>

Begins(c) ==
    \/ \E p \in Project :
        \/ ReserveSlot(c, p) \/ ProvisionUnclaimed(c, p)
        \/ ClaimSlot(c, p) \/ RestoreSlot(c, p)
        \/ \E op \in Op : Edit(c, op, p) \/ IssueBegins(c, op, p)
        \/ DeleteBegins(c, p)
    \/ \E k \in DOMAIN keys : RevokeBegins(c, k) \/ RotateBegins(c, k)

Proceeds(c) ==
    \/ SaveProject(c) \/ CheckPlacement(c) \/ IssueRefused(c) \/ Mint(c)
    \/ MintExcess(c) \/ RevokeExcess(c) \/ Undo(c)
    \/ Find(c) \/ ClaimRefused(c) \/ Write(c) \/ ReassignKeys(c)
    \/ \E k \in DOMAIN keys : RevokeListed(c, k)
    \/ DeleteRow(c) \/ Revoke(c) \/ RotateReads(c) \/ RotateMints(c) \/ Retire(c)

\* Nobody calls, and every call has ended.
Finished ==
    /\ \A c \in Caller : calls[c] = Idle
    /\ UNCHANGED vars

Next ==
    \/ \E c \in Request : Begins(c)
    \/ \E c \in Caller : Proceeds(c) \/ Dies(c)
    \/ \E p \in Project : SweepFinds(p)
    \/ Repair
    \/ \E k \in DOMAIN keys : KeyExpires(k)
    \/ Finished

Spec == Init /\ [][Next]_vars

\* The worker's scheduler runs the reconciler again and again while a project
\* is inside its lookback window, one sweep visits every project it lists, and
\* a started repair is carried on.
Fairness ==
    /\ WF_vars(Repair) /\ WF_vars(Proceeds(Sweeper))
    /\ \A p \in Project : SF_vars(SweepFinds(p))

FairSpec == Spec /\ Fairness

-----------------------------------------------------------------------------
(* Properties *)

Call == [at : Step, op : Op, p : Project \cup {NoProject}, row : Row,
         k : Nat, key : KeyRow \cup {NoKey}, list : SUBSET Nat]

TypeOK ==
    /\ rows \in [Project -> Row]
    /\ minted \in 0..MaxProject /\ offered \in SUBSET Project
    /\ keys \in Seq(KeyRow)
    /\ facts \in SUBSET ({"made", "deleted"} \X Project)
    /\ calls \in [Caller -> Call]
    /\ \A c \in Caller : calls[c].at = "undo" => calls[c].op \in {"create", "provision"}
    /\ faults \in Nat /\ begun \in Nat

\* What the cap is worth when calls overlap (router/projects.ts:107, workspace.ts
\* refuseIfFull): a slot is only checked, and an edit writes back an archived
\* flag it read before, so a workspace can pass its limit -- but by no more than
\* the calls that can be in flight, less one, however they interleave.
OvershootBounded == Cardinality(Active) <= Cap + Cardinality(Request) - 1

\* "A consumer that reacted to ProjectCreated needs a fact to react to in order
\* to undo it" (provision.ts:17): a project that was announced and is gone was
\* announced gone, whichever path removed it.
DeletionIsAnnounced ==
    \A p \in Project :
        <<"made", p>> \in facts /\ ~Exists(p) => <<"deleted", p>> \in facts

\* A claim moves the key its caller was told to paste into the workspace
\* (lifecycle.ts:84), also when a rotation retires that key beside it: only a
\* claim that has not finished, or one that died, leaves it behind.  (What the
\* rotation mints from a key it read before the move does stay behind.)
KeyFollowsClaim ==
    \A p \in Project : \A k \in Live(p) :
        /\ InWorkspace(p) /\ keys[k].home = "holding"
        /\ \A other \in KeysOf(p) : k <= other
        => \/ \E c \in Request : calls[c].p = p /\ calls[c].op = "claim"
           \/ faults > 0

\* A key that was revoked never authenticates again, however a rotation of it
\* interleaves with the revocation (credential-store.ts: rotate, revoke).
RevokedStaysRevoked ==
    [][\A k \in DOMAIN keys :
        keys[k].state = "revoked" => keys'[k].state = "revoked"]_vars

\* "a crash between 1 and 3 leaves a project with no ingest key ... and
\* repairProjectCredential below is what closes it" (provision.ts:21).  What the
\* code does: with the repair switched on (config.ts:267), a project that has
\* never had a key of either kind gets one, unless it is archived or deleted --
\* an ingest key from the sweep, or before it the one a member issues by hand,
\* and if that is a service key the sweep passes the project over from then on
\* (provisioning.ts:139).
KeylessIsRepaired ==
    Repairs =>
        \A p \in Project :
            (InWorkspace(p) /\ KeysOf(p) = {})
                ~> (KeysOf(p) # {} \/ ~Exists(p) \/ rows[p].archived)

-----------------------------------------------------------------------------
(* What a comment of router/projects.ts claims and its code does not keep *)

\* "Reserving first also makes the cap true rather than advisory ... two
\* concurrent creations queue, and the second one counts the first"
\* (router/projects.ts:107).
CapHolds == Cardinality(Active) <= Cap
=============================================================================
